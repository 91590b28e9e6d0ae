---------------------------- MODULE Services_proofs ----------------------------
(***************************************************************************)
(* Theorems about the services, each for every number of users, requests,    *)
(* roles, teams, pages, chunks and settings.  An invariant of a service is   *)
(* proved of the service alone; at the end they are put side by side.        *)
(***************************************************************************)
EXTENDS Services, Selecting_proofs, FiniteSetTheorems, FunctionTheorems, SequenceTheorems,
        TLAPS

(***************************************************************************)
(* Accounts                                                                *)
(***************************************************************************)

CallType ==
    [op : {"idle", "forget"}]
    \cup [op : {"insert"}, kind : {"create", "register", "activated"}, name : Names,
          mail : BOOLEAN]
    \cup [op : {"link", "mail", "unlink", "consume", "activate"}, user : Users]
    \cup [op : {"save"}, user : Users, row : RowType \cup {Removed}]
    \cup [op : {"code"}, known : BOOLEAN]
    \cup [op : {"reset"}, user : Users, row : RowType, code : 1..MaxCodes]

AccountsTyped ==
    /\ accounts \in [Users -> RowType \cup {NoRow, Removed}]
    /\ links \subseteq Users
    /\ code \in [number : 0..MaxCodes, age : Ages]
    /\ calls \in [Calls -> CallType]
    /\ tokens \in [Users -> SUBSET {"access", "refresh"}]
    /\ post \in [links : SUBSET Users, codes : SUBSET (1..MaxCodes)]
    /\ \A n \in post.codes : n <= code.number
    /\ awaited \subseteq Users /\ opened \subseteq Users
    /\ resets \in [1..MaxCodes -> 0..2]

\* The rows and requests there are, told apart by what they hold.
LEMMA RowsApart ==
    /\ \A row \in RowType : row.deleted = FALSE /\ row # NoRow /\ row # Removed
    /\ NoRow.deleted = TRUE /\ Removed.deleted = TRUE /\ NoRow # Removed
<1>1. /\ NoRow.deleted = TRUE /\ NoRow.inserted = FALSE
      /\ Removed.deleted = TRUE /\ Removed.inserted = TRUE
  BY DEF NoRow, Removed
<1>2. \A row \in RowType : row.deleted = FALSE
  BY DEF RowType
<1> QED
  BY <1>1, <1>2

LEMMA CallsApart ==
    ASSUME NEW call \in CallType
    PROVE  /\ call.op \in {"idle", "forget", "insert", "link", "mail", "unlink", "consume",
                           "activate", "save", "code", "reset"}
           /\ call = Idle <=> call.op = "idle"
           /\ call.op = "insert" => /\ call.kind \in {"create", "register", "activated"}
                                    /\ call.name \in Names /\ call.mail \in BOOLEAN
           /\ call.op \in {"link", "mail", "unlink", "consume", "activate", "save", "reset"} =>
                call.user \in Users
           /\ call.op \in {"link", "mail", "unlink", "consume", "activate"} =>
                call = [op |-> call.op, user |-> call.user]
           /\ call.op = "save" => call.row \in RowType \cup {Removed}
           /\ call.op = "reset" => call.row \in RowType /\ call.code \in 1..MaxCodes
<1>1. CASE call \in [op : {"idle", "forget"}]
  BY <1>1 DEF Idle
<1>2. CASE call \in [op : {"insert"}, kind : {"create", "register", "activated"}, name : Names,
                     mail : BOOLEAN]
  BY <1>2 DEF Idle
<1>3. CASE call \in [op : {"link", "mail", "unlink", "consume", "activate"}, user : Users]
  BY <1>3 DEF Idle
<1>4. CASE call \in [op : {"save"}, user : Users, row : RowType \cup {Removed}]
  BY <1>4 DEF Idle
<1>5. CASE call \in [op : {"code"}, known : BOOLEAN]
  BY <1>5 DEF Idle
<1>6. CASE call \in [op : {"reset"}, user : Users, row : RowType, code : 1..MaxCodes]
  BY <1>6 DEF Idle
<1> QED
  BY <1>1, <1>2, <1>3, <1>4, <1>5, <1>6 DEF CallType

LEMMA AccountsTypedInit == AccountsInit => AccountsTyped
<1> SUFFICES ASSUME AccountsInit
             PROVE  AccountsTyped
  OBVIOUS
<1>1. Idle \in CallType
  BY DEF Idle, CallType
<1>2. code \in [number : 0..MaxCodes, age : Ages]
  BY AccountsAssumption DEF AccountsInit, Ages
<1> QED
  BY <1>1, <1>2, AccountsAssumption DEF AccountsInit, AccountsTyped

\* Each action keeps the types.
LEMMA AccountsTypedNext == AccountsTyped /\ [AccountsNext]_accountsVars => AccountsTyped'
<1> SUFFICES ASSUME AccountsTyped, [AccountsNext]_accountsVars
             PROVE  AccountsTyped'
  OBVIOUS
<1> USE DEF Go, Put, MayStart
<1>0. /\ accounts \in [Users -> RowType \cup {NoRow, Removed}]
      /\ calls \in [Calls -> CallType]
      /\ Idle \in CallType
      /\ \A c \in Calls : calls[c] \in CallType
  BY DEF AccountsTyped, Idle, CallType
<1>1. ASSUME NEW c \in Calls, FindName(c)
      PROVE  AccountsTyped'
  <2>1. PICK n \in Names, kind \in {"create", "register", "activated"}, mail \in BOOLEAN :
          calls' = [calls EXCEPT ![c] = [op |-> "insert", kind |-> kind, name |-> n, mail |-> mail]]
    BY <1>1 DEF FindName
  <2>2. [op |-> "insert", kind |-> kind, name |-> n, mail |-> mail] \in CallType
    BY DEF CallType
  <2>3. calls' \in [Calls -> CallType]
    BY <1>0, <2>1, <2>2
  <2> QED
    BY <1>1, <2>3 DEF FindName, AccountsTyped
<1>2. ASSUME NEW c \in Calls, Insert(c)
      PROVE  AccountsTyped'
  <2>1. calls[c] \in CallType /\ calls[c].op = "insert"
    BY <1>0, <1>2 DEF Insert
  <2>2. /\ calls[c].kind \in {"create", "register", "activated"}
        /\ calls[c].name \in Names /\ calls[c].mail \in BOOLEAN
    BY <2>1, CallsApart
  <2>3. PICK u \in Users :
          /\ accounts' = [accounts EXCEPT ![u] = NewRow(calls[c].kind, calls[c].name, calls[c].mail)]
          /\ \/ awaited' = awaited \cup {u} /\ calls' = [calls EXCEPT ![c] = [op |-> "link", user |-> u]]
             \/ awaited' = awaited /\ calls' = [calls EXCEPT ![c] = Idle]
    BY <1>2 DEF Insert
  <2>4. NewRow(calls[c].kind, calls[c].name, calls[c].mail) \in RowType
    BY <2>2 DEF NewRow, RowType
  <2>5. [op |-> "link", user |-> u] \in CallType
    BY DEF CallType
  <2>6. accounts' \in [Users -> RowType \cup {NoRow, Removed}]
    BY <1>0, <2>3, <2>4
  <2>7. calls' \in [Calls -> CallType] /\ awaited' \subseteq Users
    BY <1>0, <2>3, <2>5 DEF AccountsTyped
  <2> QED
    BY <1>2, <2>6, <2>7 DEF Insert, AccountsTyped
<1>3. ASSUME NEW c \in Calls, CreateToken(c) \/ SendActivation(c) \/ DeleteByToken(c) \/ ConsumeToken(c)
      PROVE  AccountsTyped'
  <2>1. calls[c] = [op |-> calls[c].op, user |-> calls[c].user] /\ calls[c].user \in Users
    BY <1>0, <1>3, CallsApart DEF CreateToken, SendActivation, DeleteByToken, ConsumeToken
  <2>2. PICK u \in Users : u = calls[c].user
    BY <2>1
  <2>3. \A op \in {"mail", "unlink", "activate"} :
          [calls[c] EXCEPT !.op = op] = [op |-> op, user |-> u]
    BY <2>1, <2>2
  <2>4. \A op \in {"mail", "unlink", "activate"} : [op |-> op, user |-> u] \in CallType
    BY DEF CallType
  <2>5. \A op \in {"mail", "unlink", "activate"} : [calls[c] EXCEPT !.op = op] \in CallType
    BY <2>3, <2>4
  <2>6. calls' \in [Calls -> CallType]
    BY <1>0, <1>3, <2>5 DEF CreateToken, SendActivation, DeleteByToken, ConsumeToken
  <2>7. links' \subseteq Users /\ opened' \subseteq Users
    BY <1>3, <2>2 DEF CreateToken, SendActivation, DeleteByToken, ConsumeToken, AccountsTyped
  <2>8. post' \in [links : SUBSET Users, codes : SUBSET (1..MaxCodes)] /\ post'.codes = post.codes
    BY <1>3, <2>2 DEF CreateToken, SendActivation, DeleteByToken, ConsumeToken, AccountsTyped
  <2> QED
    BY <1>3, <2>6, <2>7, <2>8
       DEF CreateToken, SendActivation, DeleteByToken, ConsumeToken, AccountsTyped
<1>4. ASSUME NEW c \in Calls, ReadToken(c)
      PROVE  AccountsTyped'
  <2>1. PICK u \in Users : calls' = [calls EXCEPT ![c] = [op |-> "consume", user |-> u]]
    BY <1>4 DEF ReadToken, AccountsTyped
  <2>2. [op |-> "consume", user |-> u] \in CallType
    BY DEF CallType
  <2>3. calls' \in [Calls -> CallType]
    BY <1>0, <2>1, <2>2
  <2> QED
    BY <1>4, <2>3 DEF ReadToken, AccountsTyped
<1>5. ASSUME NEW c \in Calls, FindForActivation(c)
      PROVE  AccountsTyped'
  <2>1. PICK u \in Users : u = calls[c].user
    BY <1>0, <1>5, CallsApart DEF FindForActivation
  <2>2. CASE Live(u)
    <3>1. accounts[u] \in RowType
      BY <1>0, <2>2, RowsApart DEF Live
    <3>2. [accounts[u] EXCEPT !.verified = 1, !.status = 1] \in RowType
      <4>1. PICK one \in 0..1 : one = 1
        OBVIOUS
      <4>2. ASSUME NEW row \in RowType, NEW v, v = [row EXCEPT !.verified = one]
            PROVE  v \in RowType
        BY <4>2 DEF RowType
      <4>3. ASSUME NEW row \in RowType, NEW v, v = [row EXCEPT !.status = one]
            PROVE  v \in RowType
        BY <4>3 DEF RowType
      <4>4. PICK v : v = [accounts[u] EXCEPT !.verified = 1]
        OBVIOUS
      <4>5. PICK w : w = [v EXCEPT !.status = 1]
        OBVIOUS
      <4> QED
        BY <3>1, <4>1, <4>2, <4>3, <4>4, <4>5
    <3>3. [op |-> "save", user |-> u,
           row |-> [accounts[u] EXCEPT !.verified = 1, !.status = 1]] \in CallType
      BY <3>2 DEF CallType
    <3>4. calls' \in [Calls -> CallType]
      BY <1>0, <1>5, <2>1, <3>3 DEF FindForActivation
    <3> QED
      BY <1>5, <3>4 DEF FindForActivation, AccountsTyped
  <2>3. CASE ~Live(u)
    <3>1. calls' \in [Calls -> CallType]
      BY <1>0, <1>5, <2>1, <2>3 DEF FindForActivation
    <3> QED
      BY <1>5, <3>1 DEF FindForActivation, AccountsTyped
  <2> QED
    BY <2>2, <2>3
<1>6. ASSUME NEW c \in Calls, FindForChange(c)
      PROVE  AccountsTyped'
  <2>0. PICK u \in Users :
          /\ Live(u)
          /\ \E row \in Changed(accounts[u]) \ {accounts[u]} :
               calls' = [calls EXCEPT ![c] = [op |-> "save", user |-> u, row |-> row]]
    BY <1>6 DEF FindForChange
  <2>1. PICK row \in Changed(accounts[u]) :
          Live(u) /\ calls' = [calls EXCEPT ![c] = [op |-> "save", user |-> u, row |-> row]]
    BY <2>0
  <2>2. accounts[u] \in RowType
    BY <1>0, <2>1, RowsApart DEF Live
  <2>3. row \in RowType \cup {Removed}
    <3>1. CASE row = Removed
      BY <3>1
    <3>2. CASE row = [accounts[u] EXCEPT !.mail = TRUE]
      BY <2>2, <3>2 DEF RowType
    <3>3. ASSUME NEW s \in 0..1, row = [accounts[u] EXCEPT !.status = s]
          PROVE  row \in RowType
      BY <2>2, <3>3 DEF RowType
    <3> QED
      BY <3>1, <3>2, <3>3 DEF Changed
  <2>4. [op |-> "save", user |-> u, row |-> row] \in CallType
    BY <2>3 DEF CallType
  <2>5. calls' \in [Calls -> CallType]
    BY <1>0, <2>1, <2>4
  <2> QED
    BY <1>6, <2>5 DEF FindForChange, AccountsTyped
<1>7. ASSUME NEW c \in Calls, Save(c)
      PROVE  AccountsTyped'
  <2>1. calls[c].user \in Users /\ calls[c].row \in RowType \cup {Removed}
    BY <1>0, <1>7, CallsApart DEF Save
  <2>2. accounts' \in [Users -> RowType \cup {NoRow, Removed}] /\ calls' \in [Calls -> CallType]
    BY <1>0, <1>7, <2>1 DEF Save
  <2> QED
    BY <1>7, <2>2 DEF Save, AccountsTyped
<1>8. ASSUME NEW u \in Users, Login(u) \/ Refresh(u)
      PROVE  AccountsTyped'
  BY <1>8 DEF Login, Refresh, AccountsTyped
<1>9. ASSUME NEW c \in Calls, AskCode(c)
      PROVE  AccountsTyped'
  <2>1. [op |-> "code", known |-> ByMail # {}] \in CallType
    BY DEF CallType
  <2>2. calls' \in [Calls -> CallType]
    BY <1>0, <1>9, <2>1 DEF AskCode
  <2> QED
    BY <1>9, <2>2 DEF AskCode, AccountsTyped
<1>10. ASSUME NEW c \in Calls, SetCode(c)
       PROVE  AccountsTyped'
  <2>1. PICK n \in Nat : n = code.number /\ n < MaxCodes
    BY <1>10 DEF SetCode, AccountsTyped
  <2>2. code' = [number |-> n + 1, age |-> "cooling"] /\ n + 1 \in 1..MaxCodes
    BY <1>10, <2>1, AccountsAssumption DEF SetCode
  <2>3. code' \in [number : 0..MaxCodes, age : Ages] /\ code'.number = n + 1
    BY <2>2, AccountsAssumption DEF Ages
  <2>4. post \in [links : SUBSET Users, codes : SUBSET (1..MaxCodes)]
    BY DEF AccountsTyped
  <2>5. post' = post \/ post' = [post EXCEPT !.codes = @ \cup {n + 1}]
    BY <1>10, <2>1 DEF SetCode
  <2>6. /\ post' \in [links : SUBSET Users, codes : SUBSET (1..MaxCodes)]
        /\ post'.codes \subseteq post.codes \cup {n + 1}
    BY <2>2, <2>4, <2>5
  <2>7. \A m \in post'.codes : m <= code'.number
    BY <2>1, <2>3, <2>4, <2>6 DEF AccountsTyped
  <2>8. calls' \in [Calls -> CallType]
    BY <1>0, <1>10 DEF SetCode
  <2> QED
    BY <1>10, <2>3, <2>6, <2>7, <2>8 DEF SetCode, AccountsTyped
<1>11. ASSUME NEW c \in Calls, VerifyCode(c)
       PROVE  AccountsTyped'
  <2>1. PICK u \in ByMail :
          calls' = [calls EXCEPT ![c] = [op |-> "reset", user |-> u, row |-> accounts[u],
                                         code |-> code.number]]
    BY <1>11 DEF VerifyCode
  <2>2. u \in Users /\ accounts[u] \in RowType
    BY <1>0, <2>1, RowsApart DEF ByMail, Live
  <2>3. code.number \in 1..MaxCodes
    BY <1>11 DEF VerifyCode, AccountsTyped
  <2>4. [op |-> "reset", user |-> u, row |-> accounts[u], code |-> code.number] \in CallType
    BY <2>2, <2>3 DEF CallType
  <2>5. calls' \in [Calls -> CallType]
    BY <1>0, <2>1, <2>4
  <2> QED
    BY <1>11, <2>5 DEF VerifyCode, AccountsTyped
<1>12. ASSUME NEW c \in Calls, ResetPassword(c)
       PROVE  AccountsTyped'
  <2>1. /\ calls[c].user \in Users /\ calls[c].row \in RowType
        /\ calls[c].code \in 1..MaxCodes
    BY <1>0, <1>12, CallsApart DEF ResetPassword
  <2>2. [op |-> "forget"] \in CallType
    BY DEF CallType
  <2>3. accounts' \in [Users -> RowType \cup {NoRow, Removed}] /\ calls' \in [Calls -> CallType]
    BY <1>0, <1>12, <2>1, <2>2 DEF ResetPassword
  <2>4. resets' \in [1..MaxCodes -> 0..2]
    BY <1>12, <2>1 DEF ResetPassword, AccountsTyped
  <2> QED
    BY <1>12, <2>3, <2>4 DEF ResetPassword, AccountsTyped
<1>13. ASSUME NEW c \in Calls, DeleteCode(c)
       PROVE  AccountsTyped'
  <2>1. calls' \in [Calls -> CallType]
    BY <1>0, <1>13 DEF DeleteCode
  <2>2. code' \in [number : 0..MaxCodes, age : Ages] /\ code'.number = code.number
    BY <1>13 DEF DeleteCode, AccountsTyped, Ages
  <2> QED
    BY <1>13, <2>1, <2>2 DEF DeleteCode, AccountsTyped
<1>14. CASE Expire
  <2>1. code' \in [number : 0..MaxCodes, age : Ages] /\ code'.number = code.number
    BY <1>14 DEF Expire, AccountsTyped, Ages
  <2>2. tokens' \in [Users -> SUBSET {"access", "refresh"}]
    BY <1>14 DEF Expire, AccountsTyped
  <2>3. links' \subseteq Users
    BY <1>14 DEF Expire, AccountsTyped
  <2> QED
    BY <1>14, <2>1, <2>2, <2>3 DEF Expire, AccountsTyped
<1>15. CASE Restart
  <2>1. code' \in [number : 0..MaxCodes, age : Ages] /\ code'.number = code.number
    BY <1>15 DEF Restart, AccountsTyped, Ages
  <2>2. calls' \in [Calls -> CallType]
    BY <1>0, <1>15 DEF Restart
  <2> QED
    BY <1>15, <2>1, <2>2 DEF Restart, AccountsTyped
<1>16. CASE UNCHANGED accountsVars
  BY <1>16 DEF accountsVars, AccountsTyped
<1> QED
  BY <1>1, <1>2, <1>3, <1>4, <1>5, <1>6, <1>7, <1>8, <1>9, <1>10, <1>11, <1>12, <1>13,
     <1>14, <1>15, <1>16 DEF AccountsNext

\* Accounts, and what requests hold of them.
LEMMA AccountsAreTyped == AccountsTyped => AccountsTypeOK
<1> SUFFICES ASSUME AccountsTyped
             PROVE  AccountsTypeOK
  OBVIOUS
<1>1. ASSUME NEW c \in Calls, "row" \in DOMAIN calls[c]
      PROVE  calls[c].user \in Users /\ calls[c].row \in RowType \cup {Removed}
  <2>1. calls[c] \in CallType
    BY DEF AccountsTyped
  <2>2. \A call \in CallType : "row" \in DOMAIN call =>
          call.user \in Users /\ call.row \in RowType \cup {Removed}
    <3>1. ASSUME NEW call \in [op : {"idle", "forget"}]
          PROVE  "row" \notin DOMAIN call
      BY <3>1
    <3>2. ASSUME NEW call \in [op : {"insert"}, kind : {"create", "register", "activated"},
                               name : Names, mail : BOOLEAN]
          PROVE  "row" \notin DOMAIN call
      BY <3>2
    <3>3. ASSUME NEW call \in [op : {"link", "mail", "unlink", "consume", "activate"}, user : Users]
          PROVE  "row" \notin DOMAIN call
      BY <3>3
    <3>4. ASSUME NEW call \in [op : {"save"}, user : Users, row : RowType \cup {Removed}]
          PROVE  call.user \in Users /\ call.row \in RowType \cup {Removed}
      BY <3>4
    <3>5. ASSUME NEW call \in [op : {"code"}, known : BOOLEAN]
          PROVE  "row" \notin DOMAIN call
      BY <3>5
    <3>6. ASSUME NEW call \in [op : {"reset"}, user : Users, row : RowType, code : 1..MaxCodes]
          PROVE  call.user \in Users /\ call.row \in RowType \cup {Removed}
      BY <3>6
    <3> QED
      BY <3>1, <3>2, <3>3, <3>4, <3>5, <3>6 DEF CallType
  <2> QED
    BY <1>1, <2>1, <2>2
<1> QED
  BY <1>1 DEF AccountsTyped, AccountsTypeOK

LEMMA AccountsStayTyped == AccountsInit /\ [][AccountsNext]_accountsVars => []AccountsTypeOK
BY AccountsTypedInit, AccountsTypedNext, AccountsAreTyped, PTL

-----------------------------------------------------------------------------
(***************************************************************************)
(* Activation.  A row is saved whole some steps after it was loaded, so    *)
(* that nobody is activated around the link must be known of the rows that *)
(* requests hold, and that a link is opened only by who got it, of the     *)
(* requests on their way to consume it.                                    *)
(***************************************************************************)

Unverified(row) == row \in RowType => row.verified = 0

Waiting == awaited \ opened

ByLink ==
    /\ opened \subseteq post.links
    /\ \A u \in Waiting : Unverified(accounts[u]) /\ tokens[u] = {}
    /\ \A u \in Users : accounts[u] = NoRow => u \notin awaited /\ tokens[u] = {}
    /\ \A c \in Calls :
        /\ calls[c].op = "consume" => calls[c].user \in post.links
        /\ calls[c].op = "activate" => calls[c].user \in opened
        /\ calls[c].op \in {"save", "reset"} =>
             /\ accounts[calls[c].user] # NoRow
             /\ calls[c].user \in Waiting => Unverified(calls[c].row)

LEMMA ByLinkInit == AccountsInit => ByLink
BY DEF AccountsInit, ByLink, Waiting, Idle

\* An action that sends one request on and touches nothing else.
LEMMA OnlyCall ==
    ASSUME AccountsTyped, ByLink, NEW c \in Calls, NEW state, calls' = [calls EXCEPT ![c] = state],
           UNCHANGED <<accounts, tokens, post, awaited, opened>>,
           state.op = "consume" => state.user \in post.links,
           state.op = "activate" => state.user \in opened,
           state.op \in {"save", "reset"} =>
             /\ accounts[state.user] # NoRow
             /\ state.user \in Waiting => Unverified(state.row)
    PROVE  ByLink'
<1>1. \A d \in Calls : calls'[d] = IF d = c THEN state ELSE calls[d]
  BY DEF AccountsTyped
<1>2. ASSUME NEW d \in Calls
      PROVE  /\ calls'[d].op = "consume" => calls'[d].user \in post.links
             /\ calls'[d].op = "activate" => calls'[d].user \in opened
             /\ calls'[d].op \in {"save", "reset"} =>
                  /\ accounts[calls'[d].user] # NoRow
                  /\ calls'[d].user \in Waiting => Unverified(calls'[d].row)
  BY <1>1 DEF ByLink
<1> QED
  BY <1>2 DEF ByLink, Waiting, Unverified

LEMMA ByLinkNext == AccountsTyped /\ ByLink /\ [AccountsNext]_accountsVars => ByLink'
<1> SUFFICES ASSUME AccountsTyped, ByLink, [AccountsNext]_accountsVars
             PROVE  ByLink'
  OBVIOUS
<1> USE DEF Go, Put, MayStart
<1>0. /\ accounts \in [Users -> RowType \cup {NoRow, Removed}]
      /\ calls \in [Calls -> CallType]
      /\ tokens \in [Users -> SUBSET {"access", "refresh"}]
      /\ \A c \in Calls : calls[c] \in CallType
      /\ Idle.op = "idle"
      /\ awaited \subseteq Users
  BY DEF AccountsTyped, Idle
<1>1. ASSUME NEW c \in Calls, FindName(c)
      PROVE  ByLink'
  <2>1. PICK state : state.op = "insert" /\ calls' = [calls EXCEPT ![c] = state]
    BY <1>1 DEF FindName
  <2> QED
    BY <1>1, <2>1, OnlyCall DEF FindName
<1>2. ASSUME NEW c \in Calls, Insert(c)
      PROVE  ByLink'
  <2>1. PICK u \in Users :
          /\ accounts[u] = NoRow
          /\ accounts' = [accounts EXCEPT ![u] = NewRow(calls[c].kind, calls[c].name, calls[c].mail)]
          /\ \/ /\ calls[c].kind = "activated" /\ awaited' = awaited \cup {u}
                /\ calls' = [calls EXCEPT ![c] = [op |-> "link", user |-> u]]
             \/ awaited' = awaited /\ calls' = [calls EXCEPT ![c] = Idle]
    BY <1>2 DEF Insert
  <2>2. PICK row : row = NewRow(calls[c].kind, calls[c].name, calls[c].mail)
    OBVIOUS
  <2>3. row.deleted = FALSE /\ (calls[c].kind = "activated" => row.verified = 0) /\ row # NoRow
    BY <2>2, RowsApart DEF NewRow
  <2>4. \A v \in Users : accounts'[v] = IF v = u THEN row ELSE accounts[v]
    BY <1>0, <2>1, <2>2
  <2>5. UNCHANGED <<tokens, post, opened>>
    BY <1>2 DEF Insert
  <2>6. tokens[u] = {} /\ u \notin awaited
    BY <2>1 DEF ByLink
  <2>7. /\ awaited' = awaited \/ (awaited' = awaited \cup {u} /\ row.verified = 0)
    BY <2>1, <2>3
  <2>8. \A v \in Waiting' : Unverified(accounts'[v]) /\ tokens[v] = {}
    BY <1>0, <2>4, <2>5, <2>6, <2>7 DEF ByLink, Waiting, Unverified
  <2>9. \A v \in Users : accounts'[v] = NoRow => v \notin awaited' /\ tokens[v] = {}
    BY <2>3, <2>4, <2>7 DEF ByLink
  <2>10. ASSUME NEW d \in Calls
         PROVE  /\ calls'[d].op = "consume" => calls'[d].user \in post.links
                /\ calls'[d].op = "activate" => calls'[d].user \in opened
                /\ calls'[d].op \in {"save", "reset"} =>
                     /\ accounts'[calls'[d].user] # NoRow
                     /\ calls'[d].user \in Waiting' => Unverified(calls'[d].row)
    <3>1. CASE d = c
      <4>1. calls'[d].op \in {"link", "idle"}
        BY <1>0, <2>1, <3>1
      <4> QED
        BY <4>1
    <3>2. CASE d # c
      <4>1. calls'[d] = calls[d]
        BY <1>0, <2>1, <3>2
      <4>2. calls[d].op \in {"save", "reset"} => calls[d].user \in Users /\ calls[d].user # u
        BY <1>0, <2>1, CallsApart DEF ByLink
      <4> QED
        BY <2>4, <2>5, <2>7, <4>1, <4>2 DEF ByLink, Waiting
    <3> QED
      BY <3>1, <3>2
  <2> QED
    BY <2>5, <2>8, <2>9, <2>10 DEF ByLink, Unverified
<1>3. ASSUME NEW c \in Calls, CreateToken(c) \/ DeleteByToken(c) \/ ReadToken(c)
      PROVE  ByLink'
  <2>0. UNCHANGED <<accounts, tokens, post, awaited, opened>>
    BY <1>3 DEF CreateToken, DeleteByToken, ReadToken
  <2>1. CASE CreateToken(c)
    <3>1. calls[c] = [op |-> calls[c].op, user |-> calls[c].user]
      BY <1>0, <2>1, CallsApart DEF CreateToken
    <3>2. PICK state : state = [calls[c] EXCEPT !.op = "mail"]
      OBVIOUS
    <3>3. state.op = "mail" /\ calls' = [calls EXCEPT ![c] = state]
      BY <2>1, <3>1, <3>2 DEF CreateToken
    <3> QED
      BY <2>0, <3>3, OnlyCall
  <2>2. CASE DeleteByToken(c)
    <3>1. calls' = [calls EXCEPT ![c] = Idle]
      BY <2>2 DEF DeleteByToken
    <3> QED
      BY <1>0, <2>0, <3>1, OnlyCall
  <2>3. CASE ReadToken(c)
    <3>1. PICK u \in post.links : calls' = [calls EXCEPT ![c] = [op |-> "consume", user |-> u]]
      BY <2>3 DEF ReadToken
    <3>2. PICK state : state = [op |-> "consume", user |-> u]
      OBVIOUS
    <3>3. /\ state.op = "consume" /\ state.user \in post.links
          /\ calls' = [calls EXCEPT ![c] = state]
      BY <3>1, <3>2
    <3> QED
      BY <2>0, <3>3, OnlyCall
  <2> QED
    BY <1>3, <2>1, <2>2, <2>3
<1>4. ASSUME NEW c \in Calls, SendActivation(c)
      PROVE  ByLink'
  <2>1. calls[c] = [op |-> calls[c].op, user |-> calls[c].user]
    BY <1>0, <1>4, CallsApart DEF SendActivation
  <2>2. PICK state : state.op \in {"idle", "unlink"} /\ calls' = [calls EXCEPT ![c] = state]
    <3>1. PICK state : state = [calls[c] EXCEPT !.op = "unlink"]
      OBVIOUS
    <3>2. state.op = "unlink"
      BY <2>1, <3>1
    <3>3. calls' = [calls EXCEPT ![c] = Idle] \/ calls' = [calls EXCEPT ![c] = state]
      BY <1>4, <3>1 DEF SendActivation
    <3> QED
      BY <1>0, <3>2, <3>3
  <2>3. post.links \subseteq post'.links
    BY <1>4 DEF SendActivation, AccountsTyped
  <2>4. \A d \in Calls : calls'[d] = IF d = c THEN state ELSE calls[d]
    BY <1>0, <2>2
  <2>5. UNCHANGED <<accounts, tokens, awaited, opened>>
    BY <1>4 DEF SendActivation
  <2>6. ASSUME NEW d \in Calls
        PROVE  /\ calls'[d].op = "consume" => calls'[d].user \in post'.links
               /\ calls'[d].op = "activate" => calls'[d].user \in opened
               /\ calls'[d].op \in {"save", "reset"} =>
                    /\ accounts[calls'[d].user] # NoRow
                    /\ calls'[d].user \in Waiting => Unverified(calls'[d].row)
    BY <2>2, <2>3, <2>4 DEF ByLink
  <2> QED
    BY <2>3, <2>5, <2>6 DEF ByLink, Waiting, Unverified
<1>5. ASSUME NEW c \in Calls, ConsumeToken(c)
      PROVE  ByLink'
  <2>1. calls[c] = [op |-> "consume", user |-> calls[c].user]
    BY <1>0, <1>5, CallsApart DEF ConsumeToken
  <2>2. PICK u : u = calls[c].user
    OBVIOUS
  <2>3. [calls[c] EXCEPT !.op = "activate"] = [op |-> "activate", user |-> u]
    BY <2>1, <2>2
  <2>4. PICK state : state = [op |-> "activate", user |-> u]
    OBVIOUS
  <2>5. \A d \in Calls : calls'[d] = IF d = c THEN state ELSE calls[d]
    BY <1>0, <1>5, <2>3, <2>4 DEF ConsumeToken
  <2>6. opened' = opened \cup {u} /\ u \in post.links
    BY <1>5, <2>2 DEF ConsumeToken, ByLink
  <2>7. UNCHANGED <<accounts, tokens, post, awaited>>
    BY <1>5 DEF ConsumeToken
  <2>8. Waiting' \subseteq Waiting
    BY <2>6, <2>7 DEF Waiting
  <2>9. ASSUME NEW d \in Calls
        PROVE  /\ calls'[d].op = "consume" => calls'[d].user \in post.links
               /\ calls'[d].op = "activate" => calls'[d].user \in opened'
               /\ calls'[d].op \in {"save", "reset"} =>
                    /\ accounts[calls'[d].user] # NoRow
                    /\ calls'[d].user \in Waiting' => Unverified(calls'[d].row)
    BY <2>4, <2>5, <2>6, <2>8 DEF ByLink
  <2> QED
    BY <2>6, <2>7, <2>8, <2>9 DEF ByLink, Unverified
<1>6. ASSUME NEW c \in Calls, FindForActivation(c)
      PROVE  ByLink'
  <2>1. PICK u \in Users : u = calls[c].user /\ u \in opened
    BY <1>0, <1>6, CallsApart DEF FindForActivation, ByLink
  <2>2. \/ calls' = [calls EXCEPT ![c] = Idle]
        \/ /\ Live(u)
           /\ calls' = [calls EXCEPT ![c] =
                [op |-> "save", user |-> u,
                 row |-> [accounts[u] EXCEPT !.verified = 1, !.status = 1]]]
    BY <1>6, <2>1 DEF FindForActivation
  <2>3. Live(u) => accounts[u] # NoRow
    BY RowsApart DEF Live
  <2>4. u \notin Waiting
    BY <2>1 DEF Waiting
  <2>5. PICK state : /\ calls' = [calls EXCEPT ![c] = state]
                     /\ state.op \in {"idle", "save"}
                     /\ state.op = "save" => state.user = u /\ accounts[u] # NoRow
    BY <1>0, <2>2, <2>3
  <2> QED
    BY <1>6, <2>4, <2>5, OnlyCall DEF FindForActivation
<1>7. ASSUME NEW c \in Calls, FindForChange(c)
      PROVE  ByLink'
  <2>0. PICK u \in Users :
          /\ Live(u)
          /\ \E row \in Changed(accounts[u]) \ {accounts[u]} :
               calls' = [calls EXCEPT ![c] = [op |-> "save", user |-> u, row |-> row]]
    BY <1>7 DEF FindForChange
  <2>1. PICK row \in Changed(accounts[u]) :
          calls' = [calls EXCEPT ![c] = [op |-> "save", user |-> u, row |-> row]]
    BY <2>0
  <2>2. accounts[u] \in RowType /\ accounts[u] # NoRow
    BY <1>0, <2>0, RowsApart DEF Live
  <2>3. u \in Waiting => Unverified(row)
    <3> SUFFICES ASSUME accounts[u].verified = 0
                 PROVE  Unverified(row)
      BY <2>2 DEF ByLink, Unverified
    <3>1. CASE row = Removed
      BY <3>1, RowsApart DEF Unverified
    <3>2. CASE row = [accounts[u] EXCEPT !.mail = TRUE]
      BY <2>2, <3>2 DEF RowType, Unverified
    <3>3. ASSUME NEW s \in 0..1, row = [accounts[u] EXCEPT !.status = s]
          PROVE  Unverified(row)
      BY <2>2, <3>3 DEF RowType, Unverified
    <3> QED
      BY <3>1, <3>2, <3>3 DEF Changed
  <2>4. PICK state : state = [op |-> "save", user |-> u, row |-> row]
    OBVIOUS
  <2>5. state.op = "save" /\ state.user = u /\ state.row = row /\ calls' = [calls EXCEPT ![c] = state]
    BY <2>1, <2>4
  <2> QED
    BY <1>7, <2>2, <2>3, <2>5, OnlyCall DEF FindForChange
<1>8. ASSUME NEW c \in Calls, Save(c) \/ ResetPassword(c)
      PROVE  ByLink'
  <2>1. PICK u \in Users : u = calls[c].user /\ calls[c].row \in RowType \cup {Removed}
    BY <1>0, <1>8, CallsApart DEF Save, ResetPassword
  <2>2. PICK row \in RowType \cup {Removed} : row = calls[c].row
    BY <2>1
  <2>3. /\ u \in Waiting => Unverified(row)
        /\ row # NoRow
    BY <1>8, <2>1, <2>2, RowsApart DEF Save, ResetPassword, ByLink
  <2>4. \A v \in Users : accounts'[v] = IF v = u THEN row ELSE accounts[v]
    BY <1>0, <1>8, <2>1, <2>2 DEF Save, ResetPassword
  <2>5. UNCHANGED <<tokens, post, awaited, opened>>
    BY <1>8 DEF Save, ResetPassword
  <2>6. \A d \in Calls : calls'[d].op \in {"idle", "forget"} \/ calls'[d] = calls[d]
    BY <1>0, <1>8 DEF Save, ResetPassword
  <2>7. Waiting' = Waiting /\ Waiting \subseteq Users
    BY <1>0, <2>5 DEF Waiting
  <2>8. \A v \in Waiting : Unverified(accounts'[v]) /\ tokens[v] = {}
    BY <2>3, <2>4, <2>7 DEF ByLink
  <2>9. ASSUME NEW d \in Calls
        PROVE  /\ calls'[d].op = "consume" => calls'[d].user \in post.links
               /\ calls'[d].op = "activate" => calls'[d].user \in opened
               /\ calls'[d].op \in {"save", "reset"} =>
                    /\ accounts'[calls'[d].user] # NoRow
                    /\ calls'[d].user \in Waiting => Unverified(calls'[d].row)
    <3>1. CASE calls'[d].op \in {"idle", "forget"}
      BY <3>1
    <3>2. CASE calls'[d] = calls[d]
      <4>1. calls[d].op \in {"save", "reset"} => calls[d].user \in Users
        BY <1>0, CallsApart
      <4> QED
        BY <2>3, <2>4, <3>2, <4>1 DEF ByLink
    <3> QED
      BY <2>6, <3>1, <3>2
  <2>10. \A v \in Users : accounts'[v] = NoRow => v \notin awaited /\ tokens[v] = {}
    BY <2>3, <2>4 DEF ByLink
  <2> QED
    BY <2>5, <2>7, <2>8, <2>9, <2>10 DEF ByLink, Unverified
<1>9. ASSUME NEW u \in Users, Login(u) \/ Refresh(u)
      PROVE  ByLink'
  <2>1. \A v \in Users \ {u} : tokens'[v] = tokens[v]
    BY <1>0, <1>9 DEF Login, Refresh
  <2>2. UNCHANGED <<accounts, calls, post, awaited, opened>>
    BY <1>9 DEF Login, Refresh
  <2>3. u \notin Waiting /\ accounts[u] # NoRow
    <3>1. CASE Login(u)
      <4>1. accounts[u] \in RowType /\ accounts[u].verified = 1
        BY <1>0, <3>1, RowsApart DEF Login, CanLogin, Live
      <4> QED
        BY <4>1, RowsApart DEF ByLink, Unverified
    <3>2. CASE Refresh(u)
      BY <3>2 DEF Refresh, Admitted, ByLink
    <3> QED
      BY <1>9, <3>1, <3>2
  <2> QED
    BY <1>0, <2>1, <2>2, <2>3 DEF ByLink, Waiting, Unverified
<1>10. ASSUME NEW c \in Calls, AskCode(c) \/ DeleteCode(c)
       PROVE  ByLink'
  <2>1. PICK state : state.op \in {"code", "idle"} /\ calls' = [calls EXCEPT ![c] = state]
    BY <1>0, <1>10 DEF AskCode, DeleteCode
  <2> QED
    BY <1>10, <2>1, OnlyCall DEF AskCode, DeleteCode
<1>11. ASSUME NEW c \in Calls, SetCode(c)
       PROVE  ByLink'
  <2>1. post'.links = post.links
    BY <1>11 DEF SetCode, AccountsTyped
  <2>2. \A d \in Calls : calls'[d] = calls[d] \/ calls'[d].op = "idle"
    BY <1>0, <1>11 DEF SetCode
  <2>3. UNCHANGED <<accounts, tokens, awaited, opened>>
    BY <1>11 DEF SetCode
  <2>4. ASSUME NEW d \in Calls
        PROVE  /\ calls'[d].op = "consume" => calls'[d].user \in post.links
               /\ calls'[d].op = "activate" => calls'[d].user \in opened
               /\ calls'[d].op \in {"save", "reset"} =>
                    /\ accounts[calls'[d].user] # NoRow
                    /\ calls'[d].user \in Waiting => Unverified(calls'[d].row)
    BY <2>2 DEF ByLink
  <2> QED
    BY <2>1, <2>3, <2>4 DEF ByLink, Waiting, Unverified
<1>12. ASSUME NEW c \in Calls, VerifyCode(c)
       PROVE  ByLink'
  <2>1. PICK u \in ByMail :
          calls' = [calls EXCEPT ![c] = [op |-> "reset", user |-> u, row |-> accounts[u],
                                         code |-> code.number]]
    BY <1>12 DEF VerifyCode
  <2>2. accounts[u] # NoRow /\ (u \in Waiting => Unverified(accounts[u]))
    BY <2>1, RowsApart DEF ByMail, Live, ByLink
  <2>3. PICK state : /\ state.op = "reset" /\ state.user = u /\ state.row = accounts[u]
                     /\ calls' = [calls EXCEPT ![c] = state]
    BY <2>1
  <2> QED
    BY <1>12, <2>2, <2>3, OnlyCall DEF VerifyCode
<1>13. CASE Expire
  <2>1. \A u \in Users : tokens[u] = {} => tokens'[u] = {}
    BY <1>0, <1>13 DEF Expire
  <2>2. UNCHANGED <<accounts, calls, post, awaited, opened>>
    BY <1>13 DEF Expire
  <2> QED
    BY <1>0, <2>1, <2>2 DEF ByLink, Waiting, Unverified
<1>14. CASE Restart
  <2>1. \A d \in Calls : calls'[d].op = "idle"
    BY <1>0, <1>14 DEF Restart
  <2>2. UNCHANGED <<accounts, tokens, post, awaited, opened>>
    BY <1>14 DEF Restart
  <2> QED
    BY <2>1, <2>2 DEF ByLink, Waiting, Unverified
<1>15. CASE UNCHANGED accountsVars
  BY <1>15 DEF accountsVars, ByLink, Waiting, Unverified
<1> QED
  BY <1>1, <1>2, <1>3, <1>4, <1>5, <1>6, <1>7, <1>8, <1>9, <1>10, <1>11, <1>12, <1>13,
     <1>14, <1>15 DEF AccountsNext

\* However requests overlap, links expire and an administrator changes rows,
\* who registered to be activated by mail is let in only after opening the
\* link that was mailed.
LEMMA AccountsByLink ==
    AccountsInit /\ [][AccountsNext]_accountsVars => []ActivationByLink
<1>1. ByLink => ActivationByLink
  BY DEF ByLink, ActivationByLink, Waiting
<1> QED
  BY <1>1, AccountsTypedInit, AccountsTypedNext, ByLinkInit, ByLinkNext, PTL

-----------------------------------------------------------------------------
(***************************************************************************)
(* Requests that do not overlap.  What a request looked up still holds     *)
(* when it writes, and a code that was used is forgotten before it can be  *)
(* verified again.                                                         *)
(***************************************************************************)

NamesApart ==
    \A u, v \in Users : u # v /\ Live(u) /\ Live(v) => accounts[u].name # accounts[v].name

\* What a request looked up.
LookedUp(call) ==
    /\ call.op = "insert" => ~NameTaken(call.name)
    /\ call.op \in {"save", "reset"} /\ call.row \in RowType =>
         Live(call.user) /\ call.row.name = accounts[call.user].name
    /\ call.op = "reset" => call.code = code.number /\ resets[code.number] = 0

CodesOnce == \A n \in 1..MaxCodes : resets[n] <= 1 /\ (n > code.number => resets[n] = 0)

\* A live code has reset nothing yet, but for the request about to forget it.
CodeFresh ==
    code.age # "none" /\ code.number \in 1..MaxCodes =>
        resets[code.number] = 0 \/ \E c \in Calls : calls[c].op = "forget"

InTurn ==
    /\ \A c, d \in Calls : calls[c] # Idle /\ calls[d] # Idle => c = d
    /\ \A c \in Calls : LookedUp(calls[c])
    /\ NamesApart /\ CodesOnce /\ CodeFresh

LEMMA InTurnInit == AccountsInit => InTurn
<1> SUFFICES ASSUME AccountsInit
             PROVE  InTurn
  OBVIOUS
<1>1. \A c \in Calls : calls[c] = Idle /\ calls[c].op = "idle"
  BY DEF AccountsInit, Idle
<1>2. \A u \in Users : ~Live(u)
  BY RowsApart DEF AccountsInit, Live
<1> QED
  BY <1>1, <1>2 DEF AccountsInit, InTurn, LookedUp, NamesApart, CodesOnce, CodeFresh

\* The only request under way goes on, and leaves rows and codes alone.
LEMMA TurnGoesOn ==
    ASSUME AccountsTyped, InTurn, NEW c \in Calls, \A d \in Calls \ {c} : calls[d] = Idle,
           calls[c].op # "forget",
           NEW state, calls' = [calls EXCEPT ![c] = state],
           UNCHANGED <<accounts, code, resets>>, LookedUp(state)
    PROVE  InTurn'
<1>1. \A d \in Calls : calls'[d] = IF d = c THEN state ELSE Idle
  BY DEF AccountsTyped
<1>2. Idle.op = "idle"
  BY DEF Idle
<1>3. \A d \in Calls : LookedUp(calls'[d])
  BY <1>1, <1>2 DEF LookedUp
<1>4. (\A d \in Calls : LookedUp(calls[d]))'
  BY <1>3 DEF LookedUp, NameTaken, Live
<1>5. NamesApart' /\ CodesOnce'
  BY DEF InTurn, NamesApart, CodesOnce, Live
<1>6. CodeFresh'
  BY <1>2 DEF InTurn, CodeFresh
<1> QED
  BY <1>1, <1>4, <1>5, <1>6 DEF InTurn

\* The only request under way ends, and leaves what the properties say true.
LEMMA TurnEnds ==
    ASSUME AccountsTyped, \A d \in Calls : calls'[d].op = "idle", AccountsTyped',
           NamesApart', CodesOnce', CodeFresh'
    PROVE  InTurn'
<1>1. \A d \in Calls : calls'[d] = Idle
  <2>1. \A d \in Calls : calls'[d] \in CallType
    BY DEF AccountsTyped
  <2> QED
    BY <2>1, CallsApart
<1>2. (\A d \in Calls : LookedUp(calls[d]))'
  BY DEF LookedUp
<1> QED
  BY <1>1, <1>2 DEF InTurn

\* A row takes the place of one with its name, or of a row nobody reads.
LEMMA NamesStayApart ==
    ASSUME AccountsTyped, NamesApart, NEW u \in Users, NEW row,
           accounts' = [accounts EXCEPT ![u] = row],
           \/ row.deleted
           \/ Live(u) /\ row.name = accounts[u].name
           \/ ~NameTaken(row.name)
    PROVE  NamesApart'
<1>1. \A v \in Users : accounts'[v] = IF v = u THEN row ELSE accounts[v]
  BY DEF AccountsTyped
<1>2. \A v \in Users \ {u} : ~row.deleted /\ Live(v) => row.name # accounts[v].name
  BY DEF NamesApart, NameTaken
<1>3. ASSUME NEW v \in Users, NEW w \in Users, v # w,
             ~accounts'[v].deleted, ~accounts'[w].deleted
      PROVE  accounts'[v].name # accounts'[w].name
  <2>1. CASE v = u
    BY <1>1, <1>2, <1>3, <2>1 DEF Live
  <2>2. CASE w = u
    BY <1>1, <1>2, <1>3, <2>2 DEF Live
  <2>3. CASE v # u /\ w # u
    BY <1>1, <1>3, <2>3 DEF NamesApart, Live
  <2> QED
    BY <2>1, <2>2, <2>3
<1> QED
  BY <1>3 DEF NamesApart, Live

LEMMA InTurnNext ==
    AccountsTyped /\ AccountsTyped' /\ alone /\ InTurn /\ [AccountsNext]_accountsVars => InTurn'
<1> SUFFICES ASSUME AccountsTyped, AccountsTyped', alone, InTurn, [AccountsNext]_accountsVars
             PROVE  InTurn'
  OBVIOUS
<1> USE DEF Go, Put
<1>0. /\ accounts \in [Users -> RowType \cup {NoRow, Removed}]
      /\ calls \in [Calls -> CallType]
      /\ \A c \in Calls : calls[c] \in CallType
      /\ Idle.op = "idle"
  BY DEF AccountsTyped, Idle
<1>1. ASSUME NEW c \in Calls, calls[c].op # "idle" \/ MayStart(c)
      PROVE  \A d \in Calls \ {c} : calls[d] = Idle
  BY <1>0, <1>1, CallsApart DEF InTurn, MayStart
<1>2. ASSUME NEW c \in Calls, FindName(c)
      PROVE  InTurn'
  <2>1. PICK n \in Names, kind \in {"create", "register", "activated"}, mail \in BOOLEAN :
          /\ ~NameTaken(n)
          /\ calls' = [calls EXCEPT ![c] = [op |-> "insert", kind |-> kind, name |-> n, mail |-> mail]]
    BY <1>2 DEF FindName
  <2>2. PICK state : state = [op |-> "insert", kind |-> kind, name |-> n, mail |-> mail]
    OBVIOUS
  <2>3. LookedUp(state)
    BY <2>1, <2>2 DEF LookedUp
  <2>4. MayStart(c) /\ calls[c].op # "forget" /\ UNCHANGED <<accounts, code, resets>>
    BY <1>0, <1>2 DEF FindName, MayStart
  <2> QED
    BY <1>1, <2>1, <2>2, <2>3, <2>4, TurnGoesOn
<1>3. ASSUME NEW c \in Calls, Insert(c)
      PROVE  InTurn'
  <2>1. PICK u \in Users :
          /\ accounts' = [accounts EXCEPT ![u] = NewRow(calls[c].kind, calls[c].name, calls[c].mail)]
          /\ \/ calls' = [calls EXCEPT ![c] = [op |-> "link", user |-> u]]
             \/ calls' = [calls EXCEPT ![c] = Idle]
    BY <1>3 DEF Insert
  <2>2. PICK row : row = NewRow(calls[c].kind, calls[c].name, calls[c].mail)
    OBVIOUS
  <2>3. row.name = calls[c].name
    BY <2>2 DEF NewRow
  <2>4. ~NameTaken(row.name)
    BY <1>3, <2>3 DEF Insert, InTurn, LookedUp
  <2>5. NamesApart'
    BY <2>1, <2>2, <2>4, NamesStayApart DEF InTurn
  <2>6. \A d \in Calls \ {c} : calls[d] = Idle
    BY <1>1, <1>3 DEF Insert
  <2>7. PICK state : state.op \in {"link", "idle"} /\ calls' = [calls EXCEPT ![c] = state]
    BY <1>0, <2>1
  <2>8. \A d \in Calls : calls'[d] = IF d = c THEN state ELSE Idle
    BY <1>0, <2>6, <2>7
  <2>9. (\A d \in Calls : LookedUp(calls[d]))'
    BY <1>0, <2>7, <2>8 DEF LookedUp
  <2>10. UNCHANGED <<code, resets>>
    BY <1>3 DEF Insert
  <2>11. CodeFresh'
    BY <1>0, <1>3, <2>6, <2>10 DEF InTurn, CodeFresh, Insert
  <2>12. CodesOnce'
    BY <2>10 DEF InTurn, CodesOnce
  <2> QED
    BY <2>5, <2>8, <2>9, <2>11, <2>12 DEF InTurn
<1>4. ASSUME NEW c \in Calls,
             \/ CreateToken(c) \/ SendActivation(c) \/ DeleteByToken(c) \/ ReadToken(c)
             \/ ConsumeToken(c) \/ AskCode(c)
      PROVE  InTurn'
  <2>1. /\ calls[c].op # "forget"
        /\ calls[c].op # "idle" \/ MayStart(c)
        /\ UNCHANGED <<accounts, code, resets>>
    BY <1>0, <1>4 DEF CreateToken, SendActivation, DeleteByToken, ReadToken, ConsumeToken,
       AskCode, MayStart
  <2>2. calls' = [calls EXCEPT ![c] = calls'[c]]
    BY <1>0, <1>4 DEF CreateToken, SendActivation, DeleteByToken, ReadToken, ConsumeToken, AskCode
  <2>3. calls'[c].op \in {"mail", "unlink", "idle", "activate", "consume", "code"}
    <3>1. CASE CreateToken(c) \/ SendActivation(c) \/ ConsumeToken(c)
      <4>1. calls[c] = [op |-> calls[c].op, user |-> calls[c].user]
        BY <1>0, <3>1, CallsApart DEF CreateToken, SendActivation, ConsumeToken
      <4> QED
        BY <1>0, <3>1, <4>1 DEF CreateToken, SendActivation, ConsumeToken
    <3>2. CASE DeleteByToken(c)
      BY <1>0, <3>2 DEF DeleteByToken
    <3>3. CASE ReadToken(c)
      BY <1>0, <3>3 DEF ReadToken
    <3>4. CASE AskCode(c)
      BY <1>0, <3>4 DEF AskCode
    <3> QED
      BY <1>4, <3>1, <3>2, <3>3, <3>4
  <2>4. PICK state : state = calls'[c]
    OBVIOUS
  <2>5. LookedUp(state)
    BY <2>3, <2>4 DEF LookedUp
  <2> QED
    BY <1>1, <2>1, <2>2, <2>4, <2>5, TurnGoesOn
<1>5. ASSUME NEW c \in Calls, FindForActivation(c)
      PROVE  InTurn'
  <2>1. PICK u \in Users : u = calls[c].user
    BY <1>0, <1>5, CallsApart DEF FindForActivation
  <2>2. /\ calls[c].op # "forget" /\ calls[c].op # "idle"
        /\ UNCHANGED <<accounts, code, resets>>
    BY <1>5 DEF FindForActivation
  <2>3. CASE calls' = [calls EXCEPT ![c] = Idle]
    <3>1. LookedUp(Idle)
      BY <1>0 DEF LookedUp
    <3> QED
      BY <1>1, <2>2, <2>3, <3>1, TurnGoesOn
  <2>4. CASE calls' # [calls EXCEPT ![c] = Idle]
    <3>1. Live(u) /\ calls' = [calls EXCEPT ![c] = [op |-> "save", user |-> u,
                                 row |-> [accounts[u] EXCEPT !.verified = 1, !.status = 1]]]
      BY <1>5, <2>1, <2>4 DEF FindForActivation
    <3>2. accounts[u] \in RowType
      BY <1>0, <3>1, RowsApart DEF Live
    <3>3. PICK row : row = [accounts[u] EXCEPT !.verified = 1, !.status = 1]
      OBVIOUS
    <3>4. row.name = accounts[u].name
      BY <3>2, <3>3 DEF RowType
    <3>5. PICK state : state = [op |-> "save", user |-> u, row |-> row]
      OBVIOUS
    <3>6. LookedUp(state)
      BY <3>1, <3>4, <3>5 DEF LookedUp
    <3> QED
      BY <1>1, <2>2, <3>1, <3>3, <3>5, <3>6, TurnGoesOn
  <2> QED
    BY <2>3, <2>4
<1>6. ASSUME NEW c \in Calls, FindForChange(c)
      PROVE  InTurn'
  <2>0. PICK u \in Users :
          /\ Live(u)
          /\ \E row \in Changed(accounts[u]) \ {accounts[u]} :
               calls' = [calls EXCEPT ![c] = [op |-> "save", user |-> u, row |-> row]]
    BY <1>6 DEF FindForChange
  <2>1. PICK row \in Changed(accounts[u]) :
          calls' = [calls EXCEPT ![c] = [op |-> "save", user |-> u, row |-> row]]
    BY <2>0
  <2>2. accounts[u] \in RowType
    BY <1>0, <2>0, RowsApart DEF Live
  <2>3. row \in RowType => row.name = accounts[u].name
    <3>1. CASE row = Removed
      BY <3>1, RowsApart
    <3>2. CASE row = [accounts[u] EXCEPT !.mail = TRUE]
      BY <2>2, <3>2 DEF RowType
    <3>3. ASSUME NEW s \in 0..1, row = [accounts[u] EXCEPT !.status = s]
          PROVE  row.name = accounts[u].name
      BY <2>2, <3>3 DEF RowType
    <3> QED
      BY <3>1, <3>2, <3>3 DEF Changed
  <2>4. PICK state : state = [op |-> "save", user |-> u, row |-> row]
    OBVIOUS
  <2>5. LookedUp(state)
    BY <2>0, <2>3, <2>4 DEF LookedUp
  <2>6. MayStart(c) /\ calls[c].op # "forget" /\ UNCHANGED <<accounts, code, resets>>
    BY <1>0, <1>6 DEF FindForChange, MayStart
  <2> QED
    BY <1>1, <2>1, <2>4, <2>5, <2>6, TurnGoesOn
<1>7. ASSUME NEW c \in Calls, Save(c) \/ ResetPassword(c)
      PROVE  NamesApart'
  <2>1. PICK u \in Users : u = calls[c].user /\ calls[c].row \in RowType \cup {Removed}
    BY <1>0, <1>7, CallsApart DEF Save, ResetPassword
  <2>2. PICK row \in RowType \cup {Removed} : row = calls[c].row
    BY <2>1
  <2>3. accounts' = [accounts EXCEPT ![u] = row]
    BY <1>7, <2>1, <2>2 DEF Save, ResetPassword
  <2>4. row.deleted \/ (Live(u) /\ row.name = accounts[u].name)
    <3>1. calls[c].op \in {"save", "reset"} /\ LookedUp(calls[c])
      BY <1>7 DEF Save, ResetPassword, InTurn
    <3> QED
      BY <2>1, <2>2, <3>1, RowsApart DEF LookedUp
  <2> QED
    BY <2>3, <2>4, NamesStayApart DEF InTurn
<1>8. ASSUME NEW c \in Calls, Save(c)
      PROVE  InTurn'
  <2>1. \A d \in Calls : calls'[d].op = "idle"
    BY <1>0, <1>1, <1>8 DEF Save
  <2>2. UNCHANGED <<code, resets>>
    BY <1>8 DEF Save
  <2>3. CodeFresh'
    BY <1>0, <1>1, <1>8, <2>2 DEF InTurn, CodeFresh, Save
  <2>4. CodesOnce'
    BY <2>2 DEF InTurn, CodesOnce
  <2> QED
    BY <1>7, <1>8, <2>1, <2>3, <2>4, TurnEnds
<1>9. ASSUME NEW c \in Calls, ResetPassword(c)
      PROVE  InTurn'
  <2>1. PICK n \in 1..MaxCodes : n = calls[c].code /\ n = code.number /\ resets[n] = 0
    BY <1>0, <1>9, CallsApart DEF ResetPassword, InTurn, LookedUp
  <2>2. /\ resets' = [resets EXCEPT ![n] = 1]
        /\ calls' = [calls EXCEPT ![c] = [op |-> "forget"]]
        /\ UNCHANGED code
    BY <1>9, <2>1 DEF ResetPassword
  <2>3. \A d \in Calls : calls'[d] = IF d = c THEN [op |-> "forget"] ELSE Idle
    BY <1>0, <1>1, <1>9, <2>2 DEF ResetPassword
  <2>4. CodeFresh'
    BY <2>3 DEF CodeFresh
  <2>5. CodesOnce'
    <3>1. \A m \in 1..MaxCodes : resets'[m] = IF m = n THEN 1 ELSE resets[m]
      BY <2>2 DEF AccountsTyped
    <3>2. \A m \in 1..MaxCodes : m > code.number => m # n
      BY <2>1
    <3> QED
      BY <2>2, <3>1, <3>2 DEF CodesOnce, InTurn
  <2>6. (\A d \in Calls : LookedUp(calls[d]))'
    BY <1>0, <2>3 DEF LookedUp
  <2> QED
    BY <1>7, <1>9, <2>3, <2>4, <2>5, <2>6 DEF InTurn
<1>10. ASSUME NEW u \in Users, Login(u) \/ Refresh(u)
       PROVE  InTurn'
  <2>1. UNCHANGED <<accounts, calls, code, resets>>
    BY <1>10 DEF Login, Refresh
  <2> QED
    BY <2>1 DEF InTurn, LookedUp, NamesApart, CodesOnce, CodeFresh, NameTaken, Live
<1>11. ASSUME NEW c \in Calls, SetCode(c)
       PROVE  InTurn'
  <2>1. \A d \in Calls : calls'[d].op = "idle"
    BY <1>0, <1>1, <1>11 DEF SetCode
  <2>2. PICK n \in Nat : n = code.number /\ n < MaxCodes
    BY <1>11 DEF SetCode, AccountsTyped
  <2>3. code'.number = n + 1 /\ UNCHANGED <<accounts, resets>>
    BY <1>11, <2>2 DEF SetCode
  <2>4. \A m \in 1..MaxCodes : (m > n => resets[m] = 0) /\ (m > n + 1 => m > n)
    BY <2>2 DEF InTurn, CodesOnce
  <2>5. resets[n + 1] = 0 /\ n + 1 > n
    BY <2>2, <2>4, AccountsAssumption
  <2>6. CodesOnce' /\ CodeFresh'
    BY <2>3, <2>4, <2>5 DEF CodesOnce, CodeFresh, InTurn
  <2>7. NamesApart'
    BY <2>3 DEF NamesApart, Live, InTurn
  <2> QED
    BY <2>1, <2>6, <2>7, TurnEnds
<1>12. ASSUME NEW c \in Calls, VerifyCode(c)
       PROVE  InTurn'
  <2>1. PICK u \in ByMail :
          calls' = [calls EXCEPT ![c] = [op |-> "reset", user |-> u, row |-> accounts[u],
                                         code |-> code.number]]
    BY <1>12 DEF VerifyCode
  <2>2. MayStart(c) /\ calls[c].op # "forget" /\ UNCHANGED <<accounts, code, resets>>
    BY <1>0, <1>12 DEF VerifyCode, MayStart
  <2>3. \A d \in Calls : calls[d] = Idle
    BY <1>1, <2>2 DEF MayStart
  <2>4. resets[code.number] = 0
    BY <1>0, <1>12, <2>3 DEF VerifyCode, InTurn, CodeFresh, AccountsTyped
  <2>5. PICK state : state = [op |-> "reset", user |-> u, row |-> accounts[u], code |-> code.number]
    OBVIOUS
  <2>6. LookedUp(state)
    BY <2>1, <2>4, <2>5 DEF LookedUp, ByMail
  <2> QED
    BY <1>1, <2>1, <2>2, <2>5, <2>6, TurnGoesOn
<1>13. ASSUME NEW c \in Calls, DeleteCode(c)
       PROVE  InTurn'
  <2>1. \A d \in Calls : calls'[d].op = "idle"
    BY <1>0, <1>1, <1>13 DEF DeleteCode
  <2>2. code'.age = "none" /\ code'.number = code.number /\ UNCHANGED <<accounts, resets>>
    BY <1>13 DEF DeleteCode, AccountsTyped
  <2>3. CodesOnce' /\ CodeFresh' /\ NamesApart'
    BY <2>2 DEF CodesOnce, CodeFresh, NamesApart, Live, InTurn
  <2> QED
    BY <2>1, <2>3, TurnEnds
<1>14. CASE Expire
  <2>1. code'.number = code.number /\ (code'.age # "none" => code.age # "none")
    BY <1>14 DEF Expire, AccountsTyped
  <2>2. UNCHANGED <<accounts, calls, resets>>
    BY <1>14 DEF Expire
  <2> QED
    BY <2>1, <2>2 DEF InTurn, LookedUp, NamesApart, CodesOnce, CodeFresh, NameTaken, Live
<1>15. CASE Restart
  <2>1. \A d \in Calls : calls'[d].op = "idle"
    BY <1>0, <1>15 DEF Restart
  <2>2. code'.age = "none" /\ code'.number = code.number /\ UNCHANGED <<accounts, resets>>
    BY <1>15 DEF Restart, AccountsTyped
  <2>3. CodesOnce' /\ CodeFresh' /\ NamesApart'
    BY <2>2 DEF CodesOnce, CodeFresh, NamesApart, Live, InTurn
  <2> QED
    BY <2>1, <2>3, TurnEnds
<1>16. CASE UNCHANGED accountsVars
  BY <1>16 DEF accountsVars, InTurn, LookedUp, NamesApart, CodesOnce, CodeFresh, NameTaken, Live
<1> QED
  BY <1>2, <1>3, <1>4, <1>5, <1>6, <1>8, <1>9, <1>10, <1>11, <1>12, <1>13,
     <1>14, <1>15, <1>16 DEF AccountsNext

\* Accounts whose requests do not overlap: names stay unique, and a code
\* resets one password.
LEMMA AccountsTakeTurns == AccountsInit /\ [][AccountsNext]_accountsVars => []AccountsInTurn
<1>1. AccountsTyped /\ (alone => InTurn) => AccountsInTurn
  BY DEF InTurn, AccountsInTurn, NamesApart, CodesOnce
<1>2. [AccountsNext]_accountsVars => UNCHANGED alone
  <2>1. ASSUME NEW c \in Calls,
               \/ FindName(c) \/ Insert(c) \/ CreateToken(c) \/ SendActivation(c)
               \/ DeleteByToken(c) \/ ReadToken(c) \/ ConsumeToken(c) \/ FindForActivation(c)
        PROVE  UNCHANGED alone
    BY <2>1, Zenon DEF FindName, Insert, CreateToken, SendActivation, DeleteByToken, ReadToken,
       ConsumeToken, FindForActivation
  <2>2. ASSUME NEW c \in Calls,
               \/ FindForChange(c) \/ Save(c) \/ AskCode(c) \/ SetCode(c) \/ VerifyCode(c)
               \/ ResetPassword(c) \/ DeleteCode(c)
        PROVE  UNCHANGED alone
    BY <2>2, Zenon DEF FindForChange, Save, AskCode, SetCode, VerifyCode, ResetPassword, DeleteCode
  <2>3. ASSUME NEW u \in Users, Login(u) \/ Refresh(u)
        PROVE  UNCHANGED alone
    BY <2>3, Zenon DEF Login, Refresh
  <2>4. Expire \/ Restart \/ UNCHANGED accountsVars => UNCHANGED alone
    BY Zenon DEF Expire, Restart, accountsVars
  <2> QED
    BY <2>1, <2>2, <2>3, <2>4, Zenon DEF AccountsNext
<1>3. /\ AccountsTyped /\ AccountsTyped' /\ (alone => InTurn) /\ [AccountsNext]_accountsVars
      => (alone => InTurn)'
  BY <1>2, InTurnNext
<1>4. AccountsInit => (alone => InTurn)
  BY InTurnInit
<1> QED
  BY <1>1, <1>3, <1>4, AccountsTypedInit, AccountsTypedNext, PTL

-----------------------------------------------------------------------------
(***************************************************************************)
(* Roles.  A role holds what it was last given, but between the two           *)
(* statements of the request that is giving it something else; a process     *)
(* that is starting has no such request.                                      *)
(***************************************************************************)

GrantType == [role : RoleCodes, permission : PermissionCodes, by : Setters \cup {"seed"}]
SettingType == [at : {"delete", "insert"}, role : RoleCodes, codes : SUBSET PermissionCodes]

RolesTyped ==
    /\ granted \subseteq GrantType
    /\ asked \in [RoleCodes -> SUBSET PermissionCodes]
    /\ setters \in [Setters -> SettingType \cup {NotSetting}]
    /\ booting # "up" => \A s \in Setters : setters[s] = NotSetting

OneSetter ==
    \A s, t \in Setters : setters[s] # NotSetting /\ setters[t] # NotSetting => s = t

Emptied(r) == \E s \in Setters : setters[s].at = "insert" /\ setters[s].role = r

Gives(r, p) == \E row \in granted : row.role = r /\ row.permission = p

RoleHoldsAsked ==
    \A r \in RoleCodes, p \in PermissionCodes :
        /\ Emptied(r) => ~Gives(r, p)
        /\ ~Emptied(r) => (Gives(r, p) <=> p \in asked[r])

RolesKeep == RolesTyped /\ (apart => OneSetter /\ RoleHoldsAsked)

LEMMA SettingsApart ==
    /\ NotSetting \notin SettingType
    /\ NotSetting.at = "idle"
BY DEF SettingType, NotSetting

LEMMA RolesKeepInit == RolesInit => RolesKeep
<1> SUFFICES ASSUME RolesInit
             PROVE  RolesKeep
  OBVIOUS
<1>1. granted = {} /\ asked = [r \in RoleCodes |-> {}] /\ setters = [s \in Setters |-> NotSetting]
  BY DEF RolesInit
<1>2. RolesTyped
  BY <1>1 DEF RolesTyped
<1>3. OneSetter
  BY <1>1 DEF OneSetter
<1>4. \A r \in RoleCodes : ~Emptied(r)
  BY <1>1, SettingsApart DEF Emptied
<1>5. RoleHoldsAsked
  BY <1>1, <1>4 DEF RoleHoldsAsked, Gives
<1> QED
  BY <1>2, <1>3, <1>5 DEF RolesKeep

LEMMA RolesKeepNext == RolesKeep /\ [RolesNext]_rolesVars => RolesKeep'
<1> SUFFICES ASSUME RolesKeep, [RolesNext]_rolesVars
             PROVE  RolesKeep'
  OBVIOUS
<1>0. /\ granted \subseteq GrantType
      /\ asked \in [RoleCodes -> SUBSET PermissionCodes]
      /\ setters \in [Setters -> SettingType \cup {NotSetting}]
      /\ booting # "up" => \A s \in Setters : setters[s] = NotSetting
      /\ apart => OneSetter /\ RoleHoldsAsked
  BY DEF RolesKeep, RolesTyped
<1>1. CASE UNCHANGED rolesVars
  BY <1>1 DEF rolesVars, RolesKeep, RolesTyped, OneSetter, RoleHoldsAsked, Emptied, Gives
<1>2. CASE EnsureRoles \/ EnsurePermissions
  <2>1. UNCHANGED <<granted, setters, apart, asked>> /\ booting # "up"
    BY <1>2 DEF EnsureRoles, EnsurePermissions
  <2> QED
    BY <1>0, <2>1 DEF RolesKeep, RolesTyped, OneSetter, RoleHoldsAsked, Emptied, Gives
<1>3. CASE EnsureEditorDefaults
  <2>0. booting # "up" /\ UNCHANGED <<setters, apart>>
    BY <1>3 DEF EnsureEditorDefaults
  <2>1. \A s \in Setters : setters[s] = NotSetting /\ setters'[s] = NotSetting
    BY <1>0, <2>0
  <2>2. CASE UNCHANGED <<granted, asked>>
    BY <1>0, <2>0, <2>1, <2>2 DEF RolesKeep, RolesTyped, OneSetter, RoleHoldsAsked, Emptied, Gives
  <2>3. CASE Of(Reviewer) = {}
    <3>1. PICK row : row = [role |-> Reviewer, permission |-> DocumentList, by |-> "seed"]
      OBVIOUS
    <3>2. granted' = granted \cup {row} /\ asked' = [asked EXCEPT ![Reviewer] = {DocumentList}]
      BY <1>3, <2>3, <3>1 DEF EnsureEditorDefaults
    <3>3. row \in GrantType /\ row.role = Reviewer /\ row.permission = DocumentList
      BY <3>1, RolesAssumption DEF GrantType
    <3>4. RolesTyped'
      BY <1>0, <2>0, <2>1, <3>2, <3>3, RolesAssumption DEF RolesTyped
    <3>5. OneSetter'
      BY <2>1 DEF OneSetter
    <3>6. ASSUME apart, NEW r \in RoleCodes, NEW p \in PermissionCodes
          PROVE  Gives(r, p)' <=> p \in asked'[r]
      <4>1. (Gives(r, p) <=> p \in asked[r])
        BY <1>0, <2>1, <3>6, SettingsApart DEF RoleHoldsAsked, Emptied
      <4>2. CASE r = Reviewer
        <5>1. ~Gives(r, p)
          BY <2>3, <4>2 DEF Of, Gives
        <5>2. asked'[r] = {DocumentList}
          BY <1>0, <3>2, <4>2
        <5>3. Gives(r, p)' <=> row.permission = p
          BY <3>2, <3>3, <4>2, <5>1 DEF Gives
        <5> QED
          BY <3>3, <5>2, <5>3
      <4>3. CASE r # Reviewer
        <5>1. asked'[r] = asked[r]
          BY <1>0, <3>2, <4>3
        <5>2. Gives(r, p)' <=> Gives(r, p)
          BY <3>2, <3>3, <4>3 DEF Gives
        <5> QED
          BY <4>1, <5>1, <5>2
      <4> QED
        BY <4>2, <4>3
    <3>7. \A r \in RoleCodes : ~Emptied(r)'
      BY <2>1, SettingsApart DEF Emptied
    <3>8. apart => RoleHoldsAsked'
      BY <3>6, <3>7 DEF RoleHoldsAsked
    <3> QED
      BY <2>0, <3>4, <3>5, <3>8 DEF RolesKeep
  <2> QED
    BY <1>3, <2>2, <2>3 DEF EnsureEditorDefaults
<1>4. ASSUME NEW s \in Setters, FindRole(s)
      PROVE  RolesKeep'
  <2>1. PICK r \in RoleCodes, codes \in SUBSET PermissionCodes :
          setters' = [setters EXCEPT ![s] = [at |-> "delete", role |-> r, codes |-> codes]]
    BY <1>4 DEF FindRole
  <2>2. PICK setting : setting = [at |-> "delete", role |-> r, codes |-> codes]
    OBVIOUS
  <2>3. setting \in SettingType /\ setting.at = "delete"
    BY <2>2 DEF SettingType
  <2>4. \A t \in Setters : setters'[t] = IF t = s THEN setting ELSE setters[t]
    BY <1>0, <2>1, <2>2
  <2>5. /\ booting' = "up" /\ UNCHANGED <<granted, apart, asked>>
        /\ apart => \A t \in Setters : setters[t] = NotSetting
        /\ setters[s] = NotSetting
    BY <1>4 DEF FindRole
  <2>6. RolesTyped'
    BY <1>0, <2>1, <2>2, <2>3, <2>5 DEF RolesTyped
  <2>7. apart => OneSetter'
    BY <2>4, <2>5 DEF OneSetter
  <2>8. \A q \in RoleCodes : Emptied(q)' <=> Emptied(q)
    BY <2>3, <2>4, <2>5, SettingsApart DEF Emptied
  <2>9. apart => RoleHoldsAsked'
    BY <1>0, <2>5, <2>8 DEF RoleHoldsAsked, Gives
  <2> QED
    BY <2>5, <2>6, <2>7, <2>9 DEF RolesKeep
<1>5. ASSUME NEW s \in Setters, DeleteOld(s)
      PROVE  RolesKeep'
  <2>1. PICK set \in SettingType : set = setters[s] /\ set.at = "delete"
    BY <1>0, <1>5, SettingsApart DEF DeleteOld
  <2>2. PICK setting : setting = [set EXCEPT !.at = "insert"]
    OBVIOUS
  <2>3. setting \in SettingType /\ setting.at = "insert" /\ setting.role = set.role
    BY <2>1, <2>2 DEF SettingType
  <2>4. /\ granted' = granted \ Of(set.role)
        /\ setters' = [setters EXCEPT ![s] = setting]
        /\ UNCHANGED <<booting, apart, asked>>
    BY <1>0, <1>5, <2>1, <2>2 DEF DeleteOld
  <2>5. \A t \in Setters : setters'[t] = IF t = s THEN setting ELSE setters[t]
    BY <1>0, <2>4
  <2>6. RolesTyped'
    <3>1. booting = "up"
      BY <1>0, <2>1, SettingsApart
    <3> QED
      BY <1>0, <2>3, <2>4, <3>1 DEF RolesTyped
  <2>7. apart => OneSetter'
    BY <1>0, <2>1, <2>5, SettingsApart DEF OneSetter
  <2>8. ASSUME apart, NEW r \in RoleCodes, NEW p \in PermissionCodes
        PROVE  (Emptied(r)' => ~Gives(r, p)') /\ (~Emptied(r)' => (Gives(r, p)' <=> p \in asked'[r]))
    <3>1. CASE r = set.role
      <4>1. Emptied(r)'
        BY <2>3, <2>5, <3>1 DEF Emptied
      <4>2. ~Gives(r, p)'
        BY <2>4, <3>1 DEF Gives, Of
      <4> QED
        BY <4>1, <4>2
    <3>2. CASE r # set.role
      <4>1. Emptied(r)' <=> Emptied(r)
        BY <2>1, <2>3, <2>5, <3>2 DEF Emptied
      <4>2. Gives(r, p)' <=> Gives(r, p)
        BY <2>4, <3>2 DEF Gives, Of
      <4> QED
        BY <1>0, <2>4, <2>8, <4>1, <4>2 DEF RoleHoldsAsked
    <3> QED
      BY <3>1, <3>2
  <2>9. apart => RoleHoldsAsked'
    BY <2>8 DEF RoleHoldsAsked
  <2> QED
    BY <2>4, <2>6, <2>7, <2>9 DEF RolesKeep
<1>6. ASSUME NEW s \in Setters, InsertNew(s)
      PROVE  RolesKeep'
  <2>1. PICK set \in SettingType : set = setters[s] /\ set.at = "insert"
    BY <1>0, <1>6, SettingsApart DEF InsertNew
  <2>2. /\ set.role \in RoleCodes /\ set.codes \in SUBSET PermissionCodes
        /\ granted' = granted \cup {[role |-> set.role, permission |-> p, by |-> s] : p \in set.codes}
        /\ asked' = [asked EXCEPT ![set.role] = set.codes]
        /\ setters' = [setters EXCEPT ![s] = NotSetting]
        /\ UNCHANGED <<booting, apart>>
    BY <1>6, <2>1 DEF InsertNew, SettingType
  <2>3. PICK rows : rows = {[role |-> set.role, permission |-> p, by |-> s] : p \in set.codes}
    OBVIOUS
  <2>4. rows \subseteq GrantType
    BY <2>2, <2>3 DEF GrantType
  <2>5. /\ \A row \in rows : row.role = set.role /\ row.permission \in set.codes
        /\ \A p \in set.codes : \E row \in rows : row.role = set.role /\ row.permission = p
    <3>1. ASSUME NEW p \in set.codes
          PROVE  \E row \in rows : row.role = set.role /\ row.permission = p
      <4>1. PICK row : row = [role |-> set.role, permission |-> p, by |-> s]
        OBVIOUS
      <4>2. row \in rows
        BY <2>3, <4>1
      <4> QED
        BY <4>1, <4>2
    <3> QED
      BY <2>3, <3>1
  <2>6. granted' = granted \cup rows
    BY <2>2, <2>3
  <2>7. \A t \in Setters : setters'[t] = IF t = s THEN NotSetting ELSE setters[t]
    BY <1>0, <2>2
  <2>8. RolesTyped'
    BY <1>0, <2>2, <2>4, <2>6 DEF RolesTyped
  <2>9. apart => OneSetter'
    BY <1>0, <2>7 DEF OneSetter
  <2>10. ASSUME apart, NEW r \in RoleCodes, NEW p \in PermissionCodes
         PROVE  (Gives(r, p)' <=> p \in asked'[r]) /\ ~Emptied(r)'
    <3>1. \A t \in Setters : setters'[t] = NotSetting
      BY <1>0, <2>1, <2>7, <2>10, SettingsApart DEF OneSetter
    <3>2. ~Emptied(r)'
      BY <3>1, SettingsApart DEF Emptied
    <3>3. CASE r = set.role
      <4>1. ~Gives(r, p)
        BY <1>0, <2>1, <2>10, <3>3 DEF RoleHoldsAsked, Emptied
      <4>2. asked'[r] = set.codes
        BY <1>0, <2>2, <3>3
      <4>3. Gives(r, p)' <=> p \in set.codes
        BY <2>5, <2>6, <3>3, <4>1 DEF Gives
      <4> QED
        BY <3>2, <4>2, <4>3
    <3>4. CASE r # set.role
      <4>1. ~Emptied(r)
        BY <1>0, <2>1, <2>10, <3>4, SettingsApart DEF Emptied, OneSetter
      <4>2. asked'[r] = asked[r]
        BY <1>0, <2>2, <3>4
      <4>3. Gives(r, p)' <=> Gives(r, p)
        BY <2>5, <2>6, <3>4 DEF Gives
      <4> QED
        BY <1>0, <2>10, <3>2, <4>1, <4>2, <4>3 DEF RoleHoldsAsked
    <3> QED
      BY <3>3, <3>4
  <2>11. apart => RoleHoldsAsked'
    BY <2>10 DEF RoleHoldsAsked
  <2> QED
    BY <2>2, <2>8, <2>9, <2>11 DEF RolesKeep
<1>7. CASE SetUserRoles
  <2>1. UNCHANGED <<granted, setters, apart, asked, booting>>
    BY <1>7 DEF SetUserRoles, rolesVars
  <2> QED
    BY <2>1 DEF RolesKeep, RolesTyped, OneSetter, RoleHoldsAsked, Emptied, Gives
<1>8. CASE RolesRestart
  <2>1. /\ setters' = [s \in Setters |-> NotSetting]
        /\ UNCHANGED <<granted, apart, asked>>
        /\ apart => \A s \in Setters : setters[s] = NotSetting
    BY <1>8 DEF RolesRestart
  <2>2. RolesTyped'
    BY <1>0, <2>1 DEF RolesTyped
  <2>3. OneSetter'
    BY <2>1 DEF OneSetter
  <2>4. apart => \A r \in RoleCodes : Emptied(r)' <=> Emptied(r)
    BY <2>1 DEF Emptied
  <2>5. apart => RoleHoldsAsked'
    BY <1>0, <2>1, <2>4 DEF RoleHoldsAsked, Gives
  <2> QED
    BY <2>1, <2>2, <2>3, <2>5 DEF RolesKeep
<1> QED
  BY <1>1, <1>2, <1>3, <1>4, <1>5, <1>6, <1>7, <1>8 DEF RolesNext

\* Between requests the permissions loaded for a user are exactly those the
\* roles of that user were last given.
LEMMA RolesAnswer == RolesKeep /\ userRoles \in [Members -> SUBSET RoleCodes] => PermissionsInTurn
<1> SUFFICES ASSUME RolesKeep, userRoles \in [Members -> SUBSET RoleCodes],
                    apart, \A s \in Setters : setters[s] = NotSetting,
                    NEW user \in Members, NEW p \in PermissionCodes
             PROVE  p \in LoadPermissions(user) <=> \E r \in userRoles[user] : p \in asked[r]
  BY DEF PermissionsInTurn
<1>1. \A r \in userRoles[user] : r \in RoleCodes
  OBVIOUS
<1>2. \A r \in RoleCodes : (Gives(r, p) <=> p \in asked[r])
  BY SettingsApart DEF RolesKeep, RoleHoldsAsked, Emptied
<1>3. p \in LoadPermissions(user) <=> \E r \in userRoles[user] : Gives(r, p)
  BY DEF LoadPermissions, Gives
<1> QED
  BY <1>1, <1>2, <1>3

\* What the guard reads of a required code is the code of no permission.
LEMMA GuardRefuses == RolesKeep => OnlyAdminsPass
<1> SUFFICES ASSUME RolesKeep, NEW user \in Members, NEW accountRoles \in SUBSET RoleCodes,
                    NEW required \in SUBSET PermissionCodes,
                    CanActivate(user, accountRoles, required)
             PROVE  Admin \in OwnRoles(user, accountRoles)
  BY DEF OnlyAdminsPass
<1>1. \A row \in granted : row.permission # Undefined
  BY RolesAssumption DEF RolesKeep, RolesTyped, GrantType
<1>2. Undefined \notin LoadPermissions(user)
  BY <1>1 DEF LoadPermissions
<1> QED
  BY <1>2 DEF CanActivate, CodeRead

\* Roles whose requests do not overlap are as they were asked to be, and the
\* guard passes administrators only.
LEMMA RolesTakeTurns ==
    RolesInit /\ [][RolesNext]_rolesVars => [](PermissionsInTurn /\ OnlyAdminsPass)
<1> DEFINE RolesOf == userRoles \in [Members -> SUBSET RoleCodes]
<1>1. RolesInit => RolesOf
  BY DEF RolesInit
<1>2. RolesOf /\ [RolesNext]_rolesVars => RolesOf'
  BY DEF RolesNext, rolesVars, EnsureRoles, EnsurePermissions, EnsureEditorDefaults, FindRole,
     DeleteOld, InsertNew, SetUserRoles, RolesRestart
<1> QED
  BY <1>1, <1>2, RolesKeepInit, RolesKeepNext, RolesAnswer, GuardRefuses, PTL

\* Whatever refers to a role or a permission was written after the tables of
\* both were filled, and they never lose a row.
RolesKnown ==
    /\ roles \subseteq RoleCodes /\ permissions \subseteq PermissionCodes
    /\ booting \in {"roles", "permissions", "defaults", "up"}
    /\ booting # "roles" => roles = RoleCodes
    /\ booting \in {"defaults", "up"} => permissions = PermissionCodes
    /\ granted # {} => roles = RoleCodes /\ permissions = PermissionCodes
    /\ userRoles \in [Members -> SUBSET RoleCodes]

LEMMA RolesKnownInit == RolesInit => RolesKnown
BY DEF RolesInit, RolesKnown

LEMMA RolesKnownNext == RolesKeep /\ RolesKnown /\ [RolesNext]_rolesVars => RolesKnown'
<1> SUFFICES ASSUME RolesKeep, RolesKnown, [RolesNext]_rolesVars
             PROVE  RolesKnown'
  OBVIOUS
<1>1. CASE EnsureRoles
  BY <1>1 DEF EnsureRoles, RolesKnown
<1>2. CASE EnsurePermissions
  BY <1>2 DEF EnsurePermissions, RolesKnown
<1>3. CASE EnsureEditorDefaults
  BY <1>3 DEF EnsureEditorDefaults, RolesKnown
<1>4. ASSUME NEW s \in Setters, FindRole(s)
      PROVE  RolesKnown'
  BY <1>4 DEF FindRole, RolesKnown
<1>5. ASSUME NEW s \in Setters, DeleteOld(s)
      PROVE  RolesKnown'
  BY <1>5 DEF DeleteOld, RolesKnown
<1>6. ASSUME NEW s \in Setters, InsertNew(s)
      PROVE  RolesKnown'
  <2>1. setters[s] # NotSetting
    BY <1>6, SettingsApart DEF InsertNew
  <2>2. booting = "up"
    BY <2>1 DEF RolesKeep, RolesTyped
  <2> QED
    BY <1>6, <2>2 DEF InsertNew, RolesKnown
<1>7. CASE SetUserRoles \/ UNCHANGED rolesVars
  BY <1>7 DEF SetUserRoles, rolesVars, RolesKnown
<1>8. CASE RolesRestart
  BY <1>8 DEF RolesRestart, RolesKnown
<1> QED
  BY <1>1, <1>2, <1>3, <1>4, <1>5, <1>6, <1>7, <1>8 DEF RolesNext

LEMMA RolesAreTyped == RolesKeep /\ RolesKnown => RolesTypeOK
<1> SUFFICES ASSUME RolesKeep, RolesKnown
             PROVE  RolesTypeOK
  OBVIOUS
<1>1. granted \subseteq [role : roles, permission : permissions, by : Setters \cup {"seed"}]
  <2>1. CASE granted = {}
    BY <2>1
  <2>2. CASE granted # {}
    BY <2>2 DEF RolesKnown, RolesKeep, RolesTyped, GrantType
  <2> QED
    BY <2>1, <2>2
<1>2. \A s \in Setters : setters[s].at \in {"idle", "delete", "insert"}
  <2>1. \A x \in SettingType \cup {NotSetting} : x.at \in {"idle", "delete", "insert"}
    BY DEF SettingType, NotSetting
  <2> QED
    BY <2>1 DEF RolesKeep, RolesTyped
<1> QED
  BY <1>1, <1>2 DEF RolesTypeOK, RolesKnown

LEMMA RolesStayTyped == RolesInit /\ [][RolesNext]_rolesVars => []RolesTypeOK
BY RolesKeepInit, RolesKeepNext, RolesKnownInit, RolesKnownNext, RolesAreTyped, PTL

-----------------------------------------------------------------------------
(***************************************************************************)
(* The team tree.  What getTree makes at a depth are paths from a root, each *)
(* team the child of the one before it.  Going back from a team there is one *)
(* way only, and it ends at a root: no team comes twice on a path, and there *)
(* are as many teams as there are.                                           *)
(***************************************************************************)

Depths == 1..Cardinality(TeamIds) + 1

FirstPaths == {<<t>> : t \in Roots}

Longer(paths, n) ==
    UNION {{Append(path, c) : c \in Listed \cap Children(path[n - 1])} : path \in paths}

Grows(f, m) == f = [n \in 1..m |-> IF n = 1 THEN FirstPaths ELSE Longer(f[n - 1], n)]

\* The values of such a function.
LEMMA GrownAt ==
    ASSUME NEW f, NEW m \in Nat, NEW n \in 1..m, Grows(f, m)
    PROVE  f[n] = IF n = 1 THEN FirstPaths ELSE Longer(f[n - 1], n)
<1> DEFINE h(x) == IF x = 1 THEN FirstPaths ELSE Longer(f[x - 1], x)
<1>1. f = [x \in 1..m |-> h(x)]
  BY DEF Grows
<1> HIDE DEF h
<1>2. f[n] = h(n)
  BY <1>1
<1> QED
  BY <1>2 DEF h

\* The function the tree is made of exists.
LEMMA GrownExists ==
    ASSUME NEW m \in Nat
    PROVE  \E f : Grows(f, m)
<1> DEFINE Bad == {k \in Nat : ~\E f : Grows(f, k)}
<1>1. SUFFICES ASSUME Bad # {} PROVE FALSE
  OBVIOUS
<1>2. PICK k \in Bad : \A j \in Bad : k <= j
  BY <1>1, LeastNatural
<1>3. CASE k = 0
  <2>1. PICK f : f = [n \in 1..0 |-> {}]
    OBVIOUS
  <2>2. Grows(f, 0)
    BY <2>1 DEF Grows
  <2> QED
    BY <1>3, <2>2
<1>4. CASE k # 0
  <2>1. k - 1 \in Nat /\ k - 1 \notin Bad
    BY <1>2, <1>4
  <2>2. PICK f : Grows(f, k - 1)
    BY <2>1
  <2>3. PICK g : g = [n \in 1..k |-> IF n = 1 THEN FirstPaths ELSE Longer(f[n - 1], n)]
    OBVIOUS
  <2>4. \A n \in 1..k - 1 : n \in 1..k /\ g[n] = f[n]
    BY <2>1, <2>2, <2>3, GrownAt
  <2>5. \A n \in 1..k : n # 1 => n - 1 \in 1..k - 1
    BY <2>1
  <2>6. g = [n \in 1..k |-> IF n = 1 THEN FirstPaths ELSE Longer(g[n - 1], n)]
    BY <2>3, <2>4, <2>5
  <2>7. Grows(g, k)
    BY <2>6 DEF Grows
  <2> QED
    BY <2>7
<1> QED
  BY <1>3, <1>4

LEMMA HowManyTeams == Cardinality(TeamIds) \in Nat
BY TeamsAssumption, FS_CardinalityType

LEMMA PlacedGrows == Grows(Placed, Cardinality(TeamIds) + 1)
<1>1. \E f : Grows(f, Cardinality(TeamIds) + 1)
  BY GrownExists, HowManyTeams
<1>2. Placed = CHOOSE f : Grows(f, Cardinality(TeamIds) + 1)
  BY DEF Placed, Grows, FirstPaths, Longer
<1> QED
  BY <1>1, <1>2

\* A path from a root, n teams long.
IsPath(p, n) ==
    /\ p \in Seq(TeamIds) /\ Len(p) = n
    /\ \A i \in 1..n : p[i] \in Listed /\ teams[p[i]].parent = IF i = 1 THEN Root ELSE p[i - 1]

\* What is placed at a depth are paths.
LEMMA PlacedArePaths ==
    ASSUME NEW n \in Depths, NEW p \in Placed[n]
    PROVE  IsPath(p, n)
<1>0. Cardinality(TeamIds) \in Nat
  BY HowManyTeams
<1> DEFINE Bad == {k \in Depths : \E q \in Placed[k] : ~IsPath(q, k)}
<1>1. SUFFICES ASSUME Bad # {} PROVE FALSE
  OBVIOUS
<1>2. Bad \in SUBSET Nat
  BY <1>0 DEF Depths
<1>3. PICK k \in Bad : \A j \in Bad : k <= j
  BY <1>1, <1>2, LeastNatural
<1>4. PICK q \in Placed[k] : ~IsPath(q, k)
  OBVIOUS
<1>5. Placed[k] = IF k = 1 THEN FirstPaths ELSE Longer(Placed[k - 1], k)
  <2>1. k \in 1..Cardinality(TeamIds) + 1
    BY DEF Depths
  <2> QED
    BY <1>0, <2>1, GrownAt, PlacedGrows
<1>6. CASE k = 1
  <2>1. PICK t \in Roots : q = <<t>>
    BY <1>4, <1>5, <1>6 DEF FirstPaths
  <2>2. t \in TeamIds /\ t \in Listed /\ teams[t].parent = Root
    BY DEF Roots, Listed
  <2>3. q \in Seq(TeamIds) /\ Len(q) = 1 /\ q[1] = t
    BY <2>1, <2>2
  <2>4. IsPath(q, 1)
    BY <2>2, <2>3 DEF IsPath
  <2> QED
    BY <1>4, <1>6, <2>4
<1>7. CASE k # 1
  <2>0. k - 1 \in Depths /\ k - 1 \notin Bad /\ k \in Nat /\ k - 1 \in 1..k
    BY <1>0, <1>3, <1>7 DEF Depths
  <2>1. PICK path \in Placed[k - 1] :
          q \in {Append(path, c) : c \in Listed \cap Children(path[k - 1])}
    BY <1>4, <1>5, <1>7 DEF Longer
  <2>2. PICK c \in Listed \cap Children(path[k - 1]) : q = Append(path, c)
    BY <2>1
  <2>3. c \in TeamIds /\ c \in Listed /\ teams[c].parent = path[k - 1]
    BY <2>2 DEF Listed, Children
  <2>4. IsPath(path, k - 1)
    BY <2>0, <2>1
  <2>5. path \in Seq(TeamIds) /\ Len(path) = k - 1
    BY <2>4 DEF IsPath
  <2>6. q \in Seq(TeamIds) /\ Len(q) = k /\ q[k] = c /\ \A i \in 1..k - 1 : q[i] = path[i]
    BY <2>0, <2>2, <2>3, <2>5
  <2>7. ASSUME NEW i \in 1..k
        PROVE  q[i] \in Listed /\ teams[q[i]].parent = IF i = 1 THEN Root ELSE q[i - 1]
    <3>1. CASE i = k
      <4>1. k - 1 \in 1..k - 1
        BY <2>0, <1>7
      <4> QED
        BY <1>7, <2>3, <2>6, <3>1, <4>1
    <3>2. CASE i # k
      <4>1. i \in 1..k - 1 /\ (i # 1 => i - 1 \in 1..k - 1)
        BY <2>0, <3>2
      <4>2. path[i] \in Listed /\ teams[path[i]].parent = IF i = 1 THEN Root ELSE path[i - 1]
        BY <2>4, <4>1 DEF IsPath
      <4> QED
        BY <2>6, <4>1, <4>2
    <3> QED
      BY <3>1, <3>2
  <2>8. IsPath(q, k)
    BY <2>6, <2>7 DEF IsPath
  <2> QED
    BY <1>4, <2>8
<1> QED
  BY <1>6, <1>7

\* What a path says of each of its teams.
LEMMA OnPath ==
    ASSUME NEW n \in Nat, NEW p, IsPath(p, n), NEW i \in 1..n
    PROVE  /\ p[i] \in TeamIds
           /\ i = 1 => teams[p[i]].parent = Root
           /\ i # 1 => i - 1 \in 1..n /\ teams[p[i]].parent = p[i - 1] /\ p[i - 1] \in TeamIds
<1>1. p \in Seq(TeamIds) /\ Len(p) = n
  BY DEF IsPath
<1>2. i # 1 => i - 1 \in 1..n
  OBVIOUS
<1> QED
  BY <1>1, <1>2 DEF IsPath

\* No team comes twice on a path.
LEMMA PathIsSimple ==
    ASSUME NEW n \in Nat, NEW p, IsPath(p, n), NEW i \in 1..n, NEW j \in 1..n, i < j
    PROVE  p[i] # p[j]
<1> DEFINE Bad == {k \in 1..n : \E l \in 1..n : k < l /\ p[k] = p[l]}
<1>1. SUFFICES ASSUME Bad # {} PROVE FALSE
  OBVIOUS
<1>2. Bad \in SUBSET Nat
  OBVIOUS
<1>3. PICK k \in Bad : \A m \in Bad : k <= m
  BY <1>1, <1>2, LeastNatural
<1>4. PICK l \in 1..n : k < l /\ p[k] = p[l]
  BY <1>3
<1>5. l # 1 /\ l - 1 \in 1..n /\ teams[p[l]].parent = p[l - 1] /\ p[l - 1] \in TeamIds
  BY <1>4, OnPath
<1>6. CASE k = 1
  BY <1>4, <1>5, <1>6, OnPath, TeamsAssumption
<1>7. CASE k # 1
  <2>1. k - 1 \in 1..n /\ teams[p[k]].parent = p[k - 1]
    BY <1>7, OnPath
  <2>2. PICK a \in 1..n : a = k - 1
    BY <2>1
  <2>3. PICK b \in 1..n : b = l - 1
    BY <1>5
  <2>4. a < b /\ p[a] = p[b]
    BY <1>4, <1>5, <2>1, <2>2, <2>3
  <2>5. a \in Bad
    BY <2>4
  <2> QED
    BY <1>3, <2>2, <2>5
<1> QED
  BY <1>6, <1>7

\* There is one path to a team.
LEMMA OnePathOnly ==
    ASSUME NEW m \in Nat \ {0}, NEW n \in Nat \ {0}, NEW p, NEW q,
           IsPath(p, m), IsPath(q, n), p[m] = q[n]
    PROVE  p = q
<1> DEFINE Bad == {k \in Nat : k < m /\ k < n /\ p[m - k] # q[n - k]}
<1>1. Bad = {}
  <2>1. SUFFICES ASSUME Bad # {} PROVE FALSE
    OBVIOUS
  <2>2. PICK k \in Bad : \A j \in Bad : k <= j
    BY <2>1, LeastNatural
  <2>3. k # 0
    <3>1. m - 0 = m /\ n - 0 = n
      OBVIOUS
    <3> QED
      BY <3>1
  <2>4. k - 1 \in Nat /\ k - 1 < m /\ k - 1 < n /\ k - 1 \notin Bad
    BY <2>2, <2>3
  <2>5. PICK a \in 1..m : a = m - (k - 1)
    BY <2>4
  <2>6. PICK b \in 1..n : b = n - (k - 1)
    BY <2>4
  <2>7. p[a] = q[b]
    BY <2>4, <2>5, <2>6
  <2>8. a # 1 /\ a - 1 = m - k /\ b # 1 /\ b - 1 = n - k
    BY <2>2, <2>5, <2>6
  <2>9. teams[p[a]].parent = p[a - 1] /\ teams[q[b]].parent = q[b - 1]
    BY <2>8, OnPath
  <2> QED
    BY <2>2, <2>7, <2>8, <2>9
<1>2. \A k \in Nat : k < m /\ k < n => p[m - k] = q[n - k]
  BY <1>1
<1>3. ~(m < n)
  <2>1. SUFFICES ASSUME m < n PROVE FALSE
    OBVIOUS
  <2>2. PICK k \in Nat : k = m - 1
    OBVIOUS
  <2>3. PICK b \in 1..n : b = n - k /\ b # 1
    BY <2>1, <2>2
  <2>4. 1 \in 1..m /\ m - k = 1
    BY <2>2
  <2>5. p[1] = q[b]
    BY <1>2, <2>1, <2>2, <2>3, <2>4
  <2>6. teams[p[1]].parent = Root
    BY <2>4, OnPath
  <2>7. teams[q[b]].parent \in TeamIds
    BY <2>3, OnPath
  <2> QED
    BY <2>5, <2>6, <2>7, TeamsAssumption
<1>4. ~(n < m)
  <2>1. SUFFICES ASSUME n < m PROVE FALSE
    OBVIOUS
  <2>2. PICK k \in Nat : k = n - 1
    OBVIOUS
  <2>3. PICK a \in 1..m : a = m - k /\ a # 1
    BY <2>1, <2>2
  <2>4. 1 \in 1..n /\ n - k = 1
    BY <2>2
  <2>5. q[1] = p[a]
    BY <1>2, <2>1, <2>2, <2>3, <2>4
  <2>6. teams[q[1]].parent = Root
    BY <2>4, OnPath
  <2>7. teams[p[a]].parent \in TeamIds
    BY <2>3, OnPath
  <2> QED
    BY <2>5, <2>6, <2>7, TeamsAssumption
<1>5. m = n
  BY <1>3, <1>4
<1>6. \A i \in 1..m : p[i] = q[i]
  <2> SUFFICES ASSUME NEW i \in 1..m
               PROVE  p[i] = q[i]
    OBVIOUS
  <2>1. PICK k \in Nat : k = m - i /\ k < m /\ m - k = i
    OBVIOUS
  <2> QED
    BY <1>2, <1>5, <2>1
<1>7. p \in Seq(TeamIds) /\ q \in Seq(TeamIds) /\ Len(p) = m /\ Len(q) = m
  BY <1>5 DEF IsPath
<1> QED
  BY <1>6, <1>7

\* Whatever the rows, getTree ends and shows no team twice.
LEMMA TreeEnds == TreeIsFinite
<1>0. Cardinality(TeamIds) \in Nat /\ IsFiniteSet(TeamIds)
  BY HowManyTeams, TeamsAssumption
<1>1. PICK n \in Nat : n = Cardinality(TeamIds)
  BY <1>0
<1>2. Placed[n + 1] = {}
  <2>1. SUFFICES ASSUME NEW p \in Placed[n + 1] PROVE FALSE
    OBVIOUS
  <2>2. n + 1 \in Depths
    BY <1>1 DEF Depths
  <2>3. IsPath(p, n + 1)
    BY <2>1, <2>2, PlacedArePaths
  <2>4. p \in [1..n + 1 -> TeamIds]
    BY <2>3 DEF IsPath
  <2>5. \A a, b \in 1..n + 1 : p[a] = p[b] => a = b
    <3> SUFFICES ASSUME NEW a \in 1..n + 1, NEW b \in 1..n + 1, p[a] = p[b], a # b
                 PROVE  FALSE
      OBVIOUS
    <3>1. a < b \/ b < a
      OBVIOUS
    <3> QED
      BY <2>3, <3>1, PathIsSimple
  <2>6. p \in Injection(1..n + 1, TeamIds)
    BY <2>4, <2>5, Fun_IsInj
  <2>7. Cardinality(1..n + 1) = n + 1
    BY FS_Interval
  <2>8. Cardinality(1..n + 1) <= Cardinality(TeamIds)
    BY <1>0, <2>6, FS_Injection
  <2> QED
    BY <1>1, <2>7, <2>8
<1>3. PICK shown : shown = UNION {Placed[d] : d \in 1..n}
  OBVIOUS
<1>4. \A p \in shown : \E d \in 1..n : IsPath(p, d)
  <2> SUFFICES ASSUME NEW p \in shown
               PROVE  \E d \in 1..n : IsPath(p, d)
    OBVIOUS
  <2>1. PICK d \in 1..n : p \in Placed[d]
    BY <1>3
  <2>2. d \in Depths
    BY <1>1 DEF Depths
  <2> QED
    BY <2>1, <2>2, PlacedArePaths
<1>5. \A p, q \in shown : p[Len(p)] = q[Len(q)] => p = q
  <2> SUFFICES ASSUME NEW p \in shown, NEW q \in shown, p[Len(p)] = q[Len(q)]
               PROVE  p = q
    OBVIOUS
  <2>1. PICK d \in 1..n : IsPath(p, d)
    BY <1>4
  <2>2. PICK e \in 1..n : IsPath(q, e)
    BY <1>4
  <2>3. p[d] = q[e]
    BY <2>1, <2>2 DEF IsPath
  <2> QED
    BY <2>1, <2>2, <2>3, OnePathOnly
<1>6. \A p \in shown : \A i \in DOMAIN p :
        p[i] \in Listed /\ teams[p[i]].parent = IF i = 1 THEN Root ELSE p[i - 1]
  <2> SUFFICES ASSUME NEW p \in shown, NEW i \in DOMAIN p
               PROVE  p[i] \in Listed /\ teams[p[i]].parent = IF i = 1 THEN Root ELSE p[i - 1]
    OBVIOUS
  <2>1. PICK d \in 1..n : IsPath(p, d)
    BY <1>4
  <2>2. i \in 1..d
    BY <2>1 DEF IsPath
  <2> QED
    BY <2>1, <2>2 DEF IsPath
<1> QED
  BY <1>1, <1>2, <1>3, <1>5, <1>6 DEF TreeIsFinite

\* A row that was loaded is the row of a team, with what is changed in it.
EditType == [at : {"count", "save"}, team : TeamIds, row : TeamType]

TeamsTyped ==
    /\ teams \in [TeamIds -> TeamType \cup {NoTeam}]
    /\ editors \in [Editors -> EditType \cup {NotEditing}]

LEMMA TeamsTypedInit == TeamsInit => TeamsTyped
BY DEF TeamsInit, TeamsTyped

LEMMA TeamsTypedNext == TeamsTyped /\ [TeamsNext]_teamsVars => TeamsTyped'
<1> SUFFICES ASSUME TeamsTyped, [TeamsNext]_teamsVars
             PROVE  TeamsTyped'
  OBVIOUS
<1>0. /\ NotEditing.at = "idle" /\ NoTeam.deleted = TRUE
      /\ \A x \in EditType : x.at \in {"count", "save"}
  BY DEF NotEditing, NoTeam, EditType
<1>1. CASE CreateTeam
  BY <1>1 DEF CreateTeam, TeamsTyped, TeamType
<1>2. ASSUME NEW e \in Editors, FindForUpdate(e)
      PROVE  TeamsTyped'
  <2>1. PICK t \in TeamIds, p \in TeamIds \cup {Root}, s \in 0..1 :
          /\ ~teams[t].deleted /\ p # t
          /\ EditTo(e, [at |-> "save", team |-> t,
                        row |-> [teams[t] EXCEPT !.parent = p, !.status = s]])
    BY <1>2 DEF FindForUpdate
  <2>2. teams[t] \in TeamType
    BY <1>0, <2>1 DEF TeamsTyped
  <2>3. PICK row : row = [teams[t] EXCEPT !.parent = p, !.status = s]
    OBVIOUS
  <2>4. row \in TeamType
    BY <2>1, <2>2, <2>3 DEF TeamType
  <2>5. PICK x : x = [at |-> "save", team |-> t, row |-> row]
    OBVIOUS
  <2>6. x \in EditType
    BY <2>1, <2>4, <2>5 DEF EditType
  <2>7. editors' = [editors EXCEPT ![e] = x] /\ teams' = teams
    BY <2>1, <2>3, <2>5 DEF EditTo
  <2> QED
    BY <2>6, <2>7 DEF TeamsTyped
<1>3. ASSUME NEW e \in Editors, FindForDelete(e)
      PROVE  TeamsTyped'
  <2>1. PICK t \in TeamIds :
          /\ ~teams[t].deleted
          /\ EditTo(e, [at |-> "count", team |-> t, row |-> [teams[t] EXCEPT !.deleted = TRUE]])
    BY <1>3 DEF FindForDelete
  <2>2. teams[t] \in TeamType
    BY <1>0, <2>1 DEF TeamsTyped
  <2>3. PICK row : row = [teams[t] EXCEPT !.deleted = TRUE]
    OBVIOUS
  <2>4. row \in TeamType
    BY <2>2, <2>3 DEF TeamType
  <2>5. PICK x : x = [at |-> "count", team |-> t, row |-> row]
    OBVIOUS
  <2>6. x \in EditType
    BY <2>1, <2>4, <2>5 DEF EditType
  <2>7. editors' = [editors EXCEPT ![e] = x] /\ teams' = teams
    BY <2>1, <2>3, <2>5 DEF EditTo
  <2> QED
    BY <2>6, <2>7 DEF TeamsTyped
<1>4. ASSUME NEW e \in Editors, CountChildren(e)
      PROVE  TeamsTyped'
  <2>1. editors[e] \in EditType
    BY <1>0, <1>4 DEF CountChildren, TeamsTyped
  <2>2. [editors[e] EXCEPT !.at = "save"] \in EditType
    BY <2>1 DEF EditType
  <2>3. PICK x \in EditType \cup {NotEditing} : editors' = [editors EXCEPT ![e] = x] /\ teams' = teams
    BY <1>4, <2>2 DEF CountChildren, EditTo
  <2> QED
    BY <2>3 DEF TeamsTyped
<1>5. ASSUME NEW e \in Editors, SaveTeam(e)
      PROVE  TeamsTyped'
  <2>1. editors[e] \in EditType
    BY <1>0, <1>5 DEF SaveTeam, TeamsTyped
  <2>2. editors[e].row \in TeamType
    BY <2>1 DEF EditType
  <2> QED
    BY <1>5, <2>2 DEF SaveTeam, TeamsTyped
<1>6. CASE UNCHANGED teamsVars
  BY <1>6 DEF teamsVars, TeamsTyped
<1> QED
  BY <1>1, <1>2, <1>3, <1>4, <1>5, <1>6 DEF TeamsNext

LEMMA TeamsStayTyped == TeamsInit /\ [][TeamsNext]_teamsVars => []TeamsTypeOK
<1>1. TeamsTyped => TeamsTypeOK
  <2>1. \A x \in EditType \cup {NotEditing} :
          x.at \in {"idle", "count", "save"} /\ (x.at # "idle" => x.row \in TeamType)
    BY DEF EditType, NotEditing
  <2> QED
    BY <2>1 DEF TeamsTyped, TeamsTypeOK
<1> QED
  BY <1>1, TeamsTypedInit, TeamsTypedNext, PTL

-----------------------------------------------------------------------------
(***************************************************************************)
(* Chunks.  While the text is cut, what lies before the next start is        *)
(* covered; the answers to a batch, put back in the order of its texts, are  *)
(* the vectors of the chunks that follow those that have one.                *)
(***************************************************************************)

\* As many answers are below x as there are texts before it, when the answers
\* to n texts come in any order.
LEMMA AnswersCounted ==
    ASSUME NEW n \in Nat, NEW data \in Answers(n), NEW x \in 0..n - 1
    PROVE  /\ \E j \in 1..n : data[j] = x
           /\ Cardinality({j \in 1..n : data[j] < x}) = x
<1>0. data \in [1..n -> 0..n - 1] /\ \A i, j \in 1..n : data[i] = data[j] => i = j
  BY DEF Answers
<1>1. data \in Injection(1..n, 0..n - 1)
  BY <1>0, Fun_IsInj
<1>2. /\ IsFiniteSet(1..n) /\ Cardinality(1..n) = n
      /\ IsFiniteSet(0..n - 1) /\ Cardinality(0..n - 1) = n
  BY FS_Interval
<1>3. data \in Surjection(1..n, 0..n - 1)
  BY <1>1, <1>2, FS_Injection
<1>4. \A y \in 0..n - 1 : \E j \in 1..n : data[j] = y
  BY <1>3 DEF Surjection
<1> DEFINE before == {j \in 1..n : data[j] < x}
           f == [j \in before |-> data[j]]
<1>5. f \in [before -> 0..x - 1]
  BY <1>0
<1>6. \A a, b \in before : f[a] = f[b] => a = b
  BY <1>0
<1>7. \A y \in 0..x - 1 : \E j \in before : f[j] = y
  <2> SUFFICES ASSUME NEW y \in 0..x - 1
               PROVE  \E j \in before : f[j] = y
    OBVIOUS
  <2>1. PICK j \in 1..n : data[j] = y
    BY <1>4
  <2> QED
    BY <2>1
<1>8. f \in Bijection(before, 0..x - 1)
  BY <1>5, <1>6, <1>7, Fun_IsBij
<1>9. IsFiniteSet(before)
  BY <1>2, FS_Subset
<1>10. Cardinality(0..x - 1) = Cardinality(before)
  BY <1>8, <1>9, FS_Bijection, Fun_ExistsBij
<1>11. Cardinality(0..x - 1) = x
  BY FS_Interval
<1> QED
  BY <1>4, <1>10, <1>11

\* Sorted by their index the answers are in the order of the texts.
LEMMA AnswersInOrder ==
    ASSUME NEW n \in Nat, NEW data \in Answers(n), NEW i \in 1..n
    PROVE  InTextOrder(data)[i] = i - 1
<1>1. data \in Seq(0..n - 1) /\ DOMAIN data = 1..n /\ Len(data) = n
  BY DEF Answers
<1> DEFINE nth(x) == /\ Cardinality({j \in DOMAIN data : data[j] < x}) = i - 1
                     /\ \E j \in DOMAIN data : data[j] = x
<1>2. \A x \in 0..Len(data) - 1 : nth(x) <=> x = i - 1
  <2> SUFFICES ASSUME NEW x \in 0..n - 1
               PROVE  nth(x) <=> x = i - 1
    BY <1>1
  <2>1. /\ \E j \in 1..n : data[j] = x
        /\ Cardinality({j \in 1..n : data[j] < x}) = x
    BY AnswersCounted
  <2> QED
    BY <1>1, <2>1
<1>3. i - 1 \in 0..Len(data) - 1
  BY <1>1
<1>4. InTextOrder(data)[i] = CHOOSE x \in 0..Len(data) - 1 : nth(x)
  BY <1>1 DEF InTextOrder
<1> HIDE DEF nth
<1>5. (CHOOSE x \in 0..Len(data) - 1 : nth(x)) = i - 1
  BY <1>2, <1>3
<1> QED
  BY <1>4, <1>5

JobType == [length : Nat, size : Nat \ {0}, overlap : Nat, batch : Nat \ {0},
            stage : {"cut", "embed", "write", "done", "failed"}]
PieceType == [from : Nat, to : Nat]

ChunkTyped ==
    /\ job \in JobType /\ start \in Nat
    /\ chunks \in Seq(PieceType) /\ vectors \in Seq(Nat)

\* The chunks that have been cut.
PiecesKept ==
    /\ \A i \in DOMAIN chunks : /\ i - 1 <= chunks[i].from
                                /\ chunks[i].from < chunks[i].to
                                /\ chunks[i].to <= job.length
    /\ \A i, j \in DOMAIN chunks : i < j => chunks[i].from < chunks[j].from

CoveredTo(end) ==
    \A x \in Nat : x < end => \E i \in DOMAIN chunks : chunks[i].from <= x /\ x < chunks[i].to

\* How far cutting and embedding have come.
Progressed ==
    /\ job.stage = "cut" =>
         /\ vectors = <<>> /\ CoveredTo(start) /\ Len(chunks) <= start
         /\ \A i \in DOMAIN chunks : chunks[i].from < start
    /\ job.stage # "cut" => CoveredTo(job.length)
    /\ \A i \in DOMAIN vectors : vectors[i] = i
    /\ Len(vectors) <= Len(chunks)
    /\ job.stage = "write" => Len(vectors) = Len(chunks)
    /\ job.stage = "done" =>
         \/ job.length = 0 /\ stored = <<>>
         \/ stored = [i \in DOMAIN chunks |-> [chunk |-> chunks[i], vector |-> i]]
    /\ job.stage # "done" => stored = <<>>

ChunkInv == ChunkTyped /\ PiecesKept /\ Progressed

LEMMA ChunkInvInit == ChunkInit => ChunkInv
<1> SUFFICES ASSUME ChunkInit
             PROVE  ChunkInv
  OBVIOUS
<1>1. PICK j \in [length : Lengths, size : ChunkSizes, overlap : Overlaps,
                  batch : BatchSizes, stage : {"cut"}] : job = j
  BY DEF ChunkInit
<1>2. job \in JobType /\ job.stage = "cut"
  BY <1>1, ChunkingAssumption DEF JobType
<1>3. start = 0 /\ chunks = <<>> /\ vectors = <<>> /\ stored = <<>>
  BY DEF ChunkInit
<1>4. <<>> \in Seq(PieceType) /\ <<>> \in Seq(Nat) /\ DOMAIN <<>> = {} /\ Len(<<>>) = 0
  OBVIOUS
<1>5. ChunkTyped
  BY <1>2, <1>3, <1>4 DEF ChunkTyped
<1>6. PiecesKept
  BY <1>3, <1>4 DEF PiecesKept
<1>7. Progressed
  BY <1>2, <1>3, <1>4 DEF Progressed, CoveredTo
<1> QED
  BY <1>5, <1>6, <1>7 DEF ChunkInv

\* A chunk starts where the text before it is covered, and goes on.
LEMMA CutKeeps == ChunkInv /\ CutChunk => ChunkInv'
<1> SUFFICES ASSUME ChunkInv, CutChunk
             PROVE  ChunkInv'
  OBVIOUS
<1>0. /\ job \in JobType /\ start \in Nat /\ chunks \in Seq(PieceType) /\ vectors \in Seq(Nat)
      /\ job.length \in Nat /\ job.size \in Nat \ {0} /\ job.overlap \in Nat
  BY DEF ChunkInv, ChunkTyped, JobType
<1>1. PICK to : to = ChunkEnd(start)
  OBVIOUS
<1>2. job.stage = "cut" /\ start < job.length /\ UNCHANGED <<vectors, stored>>
  BY DEF CutChunk
<1>3. to \in Nat /\ start < to /\ to <= job.length /\ (to >= job.length => to = job.length)
  BY <1>0, <1>1, <1>2 DEF ChunkEnd, Smaller
<1>4. PICK piece : piece = [from |-> start, to |-> to]
  OBVIOUS
<1>5. piece \in PieceType /\ piece.from = start /\ piece.to = to
  BY <1>0, <1>3, <1>4 DEF PieceType
<1>6. chunks' = Append(chunks, piece)
  BY <1>1, <1>4 DEF CutChunk
<1>7. /\ chunks' \in Seq(PieceType) /\ Len(chunks') = Len(chunks) + 1
      /\ DOMAIN chunks = 1..Len(chunks) /\ DOMAIN chunks' = 1..Len(chunks) + 1
      /\ \A i \in 1..Len(chunks) : chunks'[i] = chunks[i]
      /\ chunks'[Len(chunks) + 1] = piece
  BY <1>0, <1>5, <1>6
<1>8. \A i \in DOMAIN chunks : chunks[i].from \in Nat /\ chunks[i].to \in Nat
  <2>1. \A i \in DOMAIN chunks : chunks[i] \in PieceType
    BY <1>0
  <2> QED
    BY <2>1 DEF PieceType
<1>9. /\ CoveredTo(start) /\ Len(chunks) <= start /\ vectors = <<>> /\ stored = <<>>
      /\ \A i \in DOMAIN chunks : chunks[i].from < start
  BY <1>2 DEF ChunkInv, Progressed
<1>10. job'.length = job.length /\ job' \in JobType /\ job'.stage \in {"cut", "embed"}
  BY <1>0, <1>2 DEF CutChunk, Stage, JobType
<1>11. PiecesKept'
  <2>1. ASSUME NEW i \in DOMAIN chunks'
        PROVE  i - 1 <= chunks'[i].from /\ chunks'[i].from < chunks'[i].to
                 /\ chunks'[i].to <= job'.length
    <3>1. CASE i = Len(chunks) + 1
      BY <1>0, <1>3, <1>5, <1>7, <1>9, <1>10, <3>1
    <3>2. CASE i # Len(chunks) + 1
      <4>1. i \in DOMAIN chunks /\ chunks'[i] = chunks[i]
        BY <1>0, <1>7, <3>2, <2>1
      <4> QED
        BY <1>10, <4>1 DEF ChunkInv, PiecesKept
    <3> QED
      BY <3>1, <3>2
  <2>2. ASSUME NEW i \in DOMAIN chunks', NEW j \in DOMAIN chunks', i < j
        PROVE  chunks'[i].from < chunks'[j].from
    <3>1. i \in DOMAIN chunks /\ chunks'[i] = chunks[i]
      BY <1>0, <1>7, <2>2
    <3>2. CASE j = Len(chunks) + 1
      BY <1>5, <1>7, <1>9, <3>1, <3>2
    <3>3. CASE j # Len(chunks) + 1
      <4>1. j \in DOMAIN chunks /\ chunks'[j] = chunks[j]
        BY <1>0, <1>7, <3>3, <2>2
      <4> QED
        BY <2>2, <3>1, <4>1 DEF ChunkInv, PiecesKept
    <3> QED
      BY <3>2, <3>3
  <2> QED
    BY <2>1, <2>2 DEF PiecesKept
<1>12. ASSUME NEW x \in Nat, x < to
       PROVE  \E i \in DOMAIN chunks' : chunks'[i].from <= x /\ x < chunks'[i].to
  <2>1. CASE x < start
    <3>1. PICK i \in DOMAIN chunks : chunks[i].from <= x /\ x < chunks[i].to
      BY <1>9, <2>1 DEF CoveredTo
    <3>2. i \in DOMAIN chunks' /\ chunks'[i] = chunks[i]
      BY <1>0, <1>7
    <3> QED
      BY <3>1, <3>2
  <2>2. CASE x >= start
    <3>1. Len(chunks) + 1 \in DOMAIN chunks'
      BY <1>0, <1>7
    <3> QED
      BY <1>5, <1>7, <1>12, <2>2, <3>1
  <2> QED
    BY <1>0, <2>1, <2>2
<1>13. DOMAIN <<>> = {} /\ Len(<<>>) = 0
  OBVIOUS
<1>14. CASE to >= job.length
  <2>1. start' = start /\ job'.stage = "embed"
    BY <1>0, <1>1, <1>14 DEF CutChunk, Stage, JobType
  <2>2. ChunkTyped'
    BY <1>0, <1>2, <1>7, <1>10, <2>1 DEF ChunkTyped
  <2>3. CoveredTo(job.length)'
    BY <1>3, <1>10, <1>12, <1>14 DEF CoveredTo
  <2>4. Len(chunks') >= 0
    BY <1>0, <1>7
  <2>5. Progressed'
    BY <1>2, <1>9, <1>13, <2>1, <2>3, <2>4 DEF Progressed
  <2> QED
    BY <1>11, <2>2, <2>5 DEF ChunkInv
<1>15. CASE ~(to >= job.length)
  <2>1. start' = NextStart(start, to) /\ job' = job
    BY <1>1, <1>15 DEF CutChunk
  <2>2. start' \in Nat /\ start < start' /\ start' <= to
    BY <1>0, <1>3, <2>1 DEF NextStart, Larger
  <2>3. ChunkTyped'
    BY <1>0, <1>2, <1>7, <1>10, <2>2 DEF ChunkTyped
  <2>4. CoveredTo(start)'
    <3>1. \A x \in Nat : x < start' => x < to
      BY <1>3, <2>2
    <3> QED
      BY <1>12, <3>1 DEF CoveredTo
  <2>5. Len(chunks') <= start' /\ Len(chunks') >= 0
    BY <1>0, <1>7, <1>9, <2>2
  <2>6. ASSUME NEW i \in DOMAIN chunks'
        PROVE  chunks'[i].from < start'
    <3>1. CASE i = Len(chunks) + 1
      BY <1>5, <1>7, <2>2, <3>1
    <3>2. CASE i # Len(chunks) + 1
      <4>1. i \in DOMAIN chunks /\ chunks'[i] = chunks[i]
        BY <1>0, <1>7, <3>2, <2>6
      <4> QED
        BY <1>0, <1>8, <1>9, <2>2, <4>1
    <3> QED
      BY <3>1, <3>2
  <2>7. Progressed'
    BY <1>2, <1>9, <1>13, <2>1, <2>4, <2>5, <2>6 DEF Progressed
  <2> QED
    BY <1>11, <2>3, <2>7 DEF ChunkInv
<1> QED
  BY <1>14, <1>15

LEMMA EmbedKeeps == ChunkInv /\ EmbedOnce => ChunkInv'
<1> SUFFICES ASSUME ChunkInv, EmbedOnce
             PROVE  ChunkInv'
  OBVIOUS
<1>0. /\ job \in JobType /\ start \in Nat /\ chunks \in Seq(PieceType) /\ vectors \in Seq(Nat)
      /\ job.batch \in Nat \ {0}
      /\ \A i \in DOMAIN vectors : vectors[i] = i
      /\ Len(vectors) <= Len(chunks)
  BY DEF ChunkInv, ChunkTyped, JobType, Progressed
<1>1. PICK first \in Nat : first = Len(vectors)
  BY <1>0
<1>2. PICK n : n = Smaller(job.batch, Len(chunks) - first)
  OBVIOUS
<1>3. n \in Nat /\ first + n <= Len(chunks)
  BY <1>0, <1>1, <1>2 DEF Smaller
<1>4. /\ job.stage = "embed" /\ UNCHANGED <<start, chunks, stored>>
      /\ \/ /\ \E data \in Answers(n) :
                 vectors' = vectors \o [i \in 1..n |-> first + InTextOrder(data)[i] + 1]
            /\ IF first + n = Len(chunks) THEN Stage("write") ELSE UNCHANGED job
         \/ Stage("failed") /\ UNCHANGED vectors
  BY <1>1, <1>2 DEF EmbedOnce
<1>5. /\ job' \in JobType /\ job'.length = job.length /\ job'.stage \in {"embed", "write", "failed"}
      /\ job'.stage = "write" => first + n = Len(chunks)
  BY <1>0, <1>4 DEF Stage, JobType
<1>6. PiecesKept' /\ CoveredTo(job.length)'
  BY <1>4, <1>5 DEF ChunkInv, PiecesKept, Progressed, CoveredTo
<1>7. stored' = <<>>
  BY <1>4 DEF ChunkInv, Progressed
<1>8. CASE UNCHANGED vectors /\ job'.stage = "failed"
  BY <1>0, <1>4, <1>5, <1>6, <1>7, <1>8 DEF ChunkInv, ChunkTyped, Progressed
<1>9. ASSUME NEW data \in Answers(n),
             vectors' = vectors \o [i \in 1..n |-> first + InTextOrder(data)[i] + 1]
      PROVE  ChunkInv'
  <2>1. PICK more : more = [i \in 1..n |-> first + InTextOrder(data)[i] + 1]
    OBVIOUS
  <2>2. \A i \in 1..n : more[i] = first + i
    <3> SUFFICES ASSUME NEW i \in 1..n
                 PROVE  more[i] = first + i
      OBVIOUS
    <3>1. PICK k \in Int : k = InTextOrder(data)[i] /\ k = i - 1
      BY <1>3, AnswersInOrder
    <3>2. more[i] = first + k + 1
      BY <2>1, <3>1
    <3> QED
      BY <1>1, <3>1, <3>2
  <2>3. more = [i \in 1..n |-> first + i]
    BY <2>1, <2>2
  <2>4. more \in Seq(Nat) /\ Len(more) = n
    BY <1>1, <1>3, <2>3
  <2>5. /\ vectors' \in Seq(Nat) /\ Len(vectors') = first + n
        /\ DOMAIN vectors' = 1..first + n /\ DOMAIN vectors = 1..first
        /\ \A i \in 1..first + n : vectors'[i] = IF i <= first THEN vectors[i] ELSE more[i - first]
    <3>1. vectors' = vectors \o more
      BY <1>9, <2>1
    <3>2. /\ vectors' \in Seq(Nat) /\ Len(vectors') = first + n
          /\ \A i \in 1..first + n :
               vectors'[i] = IF i <= first THEN vectors[i] ELSE more[i - first]
      <4>1. /\ vectors \o more \in Seq(Nat)
            /\ Len(vectors \o more) = Len(vectors) + Len(more)
            /\ \A i \in 1..Len(vectors) + Len(more) :
                 (vectors \o more)[i] =
                   IF i <= Len(vectors) THEN vectors[i] ELSE more[i - Len(vectors)]
        BY <1>0, <2>4, ConcatProperties, Zenon
      <4> QED
        BY <1>1, <2>4, <3>1, <4>1
    <3> QED
      BY <1>0, <1>1, <1>3, <3>2
  <2>6. \A i \in DOMAIN vectors' : vectors'[i] = i
    <3> SUFFICES ASSUME NEW i \in 1..first + n
                 PROVE  vectors'[i] = i
      BY <2>5
    <3>1. CASE i <= first
      <4>1. i \in DOMAIN vectors
        BY <1>1, <2>5, <3>1
      <4> QED
        BY <1>0, <2>5, <3>1, <4>1
    <3>2. CASE ~(i <= first)
      <4>1. PICK k \in 1..n : k = i - first
        BY <1>1, <1>3, <3>2
      <4> QED
        BY <1>1, <2>2, <2>5, <3>2, <4>1
    <3> QED
      BY <3>1, <3>2
  <2>7. ChunkTyped'
    BY <1>0, <1>4, <1>5, <2>5 DEF ChunkTyped
  <2>8. Progressed'
    BY <1>3, <1>4, <1>5, <1>6, <1>7, <2>5, <2>6 DEF Progressed
  <2> QED
    BY <1>6, <2>7, <2>8 DEF ChunkInv
<1>10. Stage("failed") => job'.stage = "failed"
  BY <1>0 DEF Stage, JobType
<1> QED
  BY <1>4, <1>8, <1>9, <1>10

LEMMA ChunkInvNext == ChunkInv /\ [ChunkNext]_chunkVars => ChunkInv'
<1> SUFFICES ASSUME ChunkInv, [ChunkNext]_chunkVars
             PROVE  ChunkInv'
  OBVIOUS
<1>0. job \in JobType /\ chunks \in Seq(PieceType) /\ vectors \in Seq(Nat) /\ DOMAIN <<>> = {}
  BY DEF ChunkInv, ChunkTyped
<1>1. CASE UNCHANGED chunkVars
  BY <1>1 DEF chunkVars, ChunkInv, ChunkTyped, PiecesKept, Progressed, CoveredTo
<1>2. CASE NoText
  <2>1. /\ job.stage = "cut" /\ job.length = 0 /\ UNCHANGED <<start, chunks, vectors, stored>>
        /\ job' \in JobType /\ job'.stage = "done" /\ job'.length = 0
    BY <1>0, <1>2 DEF NoText, Stage, JobType
  <2>2. ChunkTyped'
    BY <2>1 DEF ChunkInv, ChunkTyped
  <2>3. PiecesKept'
    BY <2>1 DEF ChunkInv, PiecesKept
  <2>4. Progressed'
    BY <2>1 DEF ChunkInv, Progressed, CoveredTo
  <2> QED
    BY <2>2, <2>3, <2>4 DEF ChunkInv
<1>3. CASE BulkIndex
  <2>1. /\ job.stage = "write" /\ UNCHANGED <<start, chunks, vectors>>
        /\ job' \in JobType /\ job'.stage = "done" /\ job'.length = job.length
        /\ stored' = [i \in DOMAIN chunks |-> [chunk |-> chunks[i], vector |-> vectors[i]]]
    BY <1>0, <1>3 DEF BulkIndex, Stage, JobType
  <2>2. \A i \in DOMAIN chunks : vectors[i] = i
    BY <1>0, <2>1 DEF ChunkInv, Progressed
  <2>3. stored' = [i \in DOMAIN chunks |-> [chunk |-> chunks[i], vector |-> i]]
    BY <2>1, <2>2
  <2>4. ChunkTyped' /\ PiecesKept'
    BY <2>1 DEF ChunkInv, ChunkTyped, PiecesKept
  <2>5. Progressed'
    BY <2>1, <2>3 DEF ChunkInv, Progressed, CoveredTo
  <2> QED
    BY <2>4, <2>5 DEF ChunkInv
<1> QED
  BY <1>1, <1>2, <1>3, CutKeeps, EmbedKeeps DEF ChunkNext

\* The invariant says what is promised of the index.
LEMMA ChunksAreWhole == ChunkInv => IndexedWhole
<1> SUFFICES ASSUME ChunkInv
             PROVE  IndexedWhole
  OBVIOUS
<1>0. /\ job.length \in Nat /\ chunks \in Seq(PieceType)
      /\ \A i \in DOMAIN chunks : chunks[i].from \in Nat /\ chunks[i].to \in Nat
      /\ DOMAIN <<>> = {}
  <2>1. job.length \in Nat /\ chunks \in Seq(PieceType)
    BY DEF ChunkInv, ChunkTyped, JobType
  <2>2. \A i \in DOMAIN chunks : chunks[i] \in PieceType
    BY <2>1
  <2> QED
    BY <2>1, <2>2 DEF PieceType
<1>1. Len(chunks) <= job.length
  <2>1. PICK n \in Nat : n = Len(chunks) /\ DOMAIN chunks = 1..n
    BY <1>0
  <2>2. CASE n = 0
    BY <1>0, <2>1, <2>2
  <2>3. CASE n # 0
    <3>1. n \in DOMAIN chunks
      BY <2>1, <2>3
    <3>2. n - 1 <= chunks[n].from /\ chunks[n].from < chunks[n].to /\ chunks[n].to <= job.length
      BY <3>1 DEF ChunkInv, PiecesKept
    <3> QED
      BY <1>0, <2>1, <3>1, <3>2
  <2> QED
    BY <2>2, <2>3
<1>2. \A i \in DOMAIN chunks : chunks[i].from < chunks[i].to
  BY DEF ChunkInv, PiecesKept
<1>3. CASE job.length = 0 /\ stored = <<>>
  BY <1>0, <1>1, <1>2, <1>3 DEF IndexedWhole
<1>4. CASE job.stage = "done" /\ stored = [i \in DOMAIN chunks |-> [chunk |-> chunks[i], vector |-> i]]
  <2>1. DOMAIN stored = DOMAIN chunks
        /\ \A i \in DOMAIN chunks : stored[i].chunk = chunks[i] /\ stored[i].vector = i
    BY <1>4
  <2>2. \A x \in 0..job.length - 1 : \E i \in DOMAIN stored :
          stored[i].chunk.from <= x /\ x < stored[i].chunk.to
    <3> SUFFICES ASSUME NEW x \in 0..job.length - 1
                 PROVE  \E i \in DOMAIN stored :
                          stored[i].chunk.from <= x /\ x < stored[i].chunk.to
      OBVIOUS
    <3>1. x \in Nat /\ x < job.length
      BY <1>0
    <3>2. PICK i \in DOMAIN chunks : chunks[i].from <= x /\ x < chunks[i].to
      BY <1>4, <3>1 DEF ChunkInv, Progressed, CoveredTo
    <3> QED
      BY <2>1, <3>2
  <2>3. \A i, j \in DOMAIN stored : i < j => stored[i].chunk.from < stored[j].chunk.from
    BY <2>1 DEF ChunkInv, PiecesKept
  <2> QED
    BY <1>1, <1>2, <2>1, <2>2, <2>3 DEF IndexedWhole
<1>5. CASE job.stage # "done"
  BY <1>1, <1>2, <1>5 DEF IndexedWhole
<1> QED
  BY <1>3, <1>4, <1>5 DEF ChunkInv, Progressed

LEMMA ChunksStayWhole == ChunkInit /\ [][ChunkNext]_chunkVars => []IndexedWhole
BY ChunkInvInit, ChunkInvNext, ChunksAreWhole, PTL

\* The next chunk starts in the text or at its end.
LEMMA StartStaysInText ==
    ChunkInv /\ start <= job.length /\ [ChunkNext]_chunkVars => start' <= job'.length
<1> SUFFICES ASSUME ChunkInv, start <= job.length, [ChunkNext]_chunkVars
             PROVE  start' <= job'.length
  OBVIOUS
<1>0. /\ job \in JobType /\ start \in Nat
      /\ job.length \in Nat /\ job.size \in Nat \ {0} /\ job.overlap \in Nat
  BY DEF ChunkInv, ChunkTyped, JobType
<1>1. \A stage : Stage(stage) => job'.length = job.length
  BY <1>0 DEF Stage, JobType
<1>2. CASE CutChunk
  <2>1. PICK to : to = ChunkEnd(start)
    OBVIOUS
  <2>2. start < job.length /\ to \in Nat /\ to <= job.length
    BY <1>0, <1>2, <2>1 DEF CutChunk, ChunkEnd, Smaller
  <2>3. CASE to >= job.length
    BY <1>0, <1>1, <1>2, <2>1, <2>3 DEF CutChunk
  <2>4. CASE ~(to >= job.length)
    <3>1. start' = NextStart(start, to) /\ job' = job
      BY <1>2, <2>1, <2>4 DEF CutChunk
    <3> QED
      BY <1>0, <2>2, <3>1 DEF NextStart, Larger
  <2> QED
    BY <2>3, <2>4
<1>3. CASE NoText
  BY <1>0, <1>1, <1>3 DEF NoText
<1>4. CASE EmbedOnce
  BY <1>0, <1>1, <1>4 DEF EmbedOnce
<1>5. CASE BulkIndex
  BY <1>0, <1>1, <1>5 DEF BulkIndex
<1>6. CASE UNCHANGED chunkVars
  BY <1>0, <1>6 DEF chunkVars
<1> QED
  BY <1>2, <1>3, <1>4, <1>5, <1>6 DEF ChunkNext

LEMMA ChunksAreTyped == ChunkInv /\ start <= job.length => ChunkTypeOK
<1> SUFFICES ASSUME ChunkInv, start <= job.length
             PROVE  ChunkTypeOK
  OBVIOUS
<1>0. /\ job.length \in Nat /\ start \in Nat /\ chunks \in Seq(PieceType) /\ vectors \in Seq(Nat)
      /\ job.stage \in {"cut", "embed", "write", "done", "failed"}
  BY DEF ChunkInv, ChunkTyped, JobType
<1>1. PICK n \in Nat : n = Len(chunks)
  BY <1>0
<1>2. PICK m \in Nat : m = Len(vectors) /\ m <= n
  BY <1>0, <1>1 DEF ChunkInv, Progressed
<1>3. \A i \in 1..n : chunks[i] \in [from : 0..job.length, to : 0..job.length]
  <2> SUFFICES ASSUME NEW i \in 1..n
               PROVE  chunks[i] \in [from : 0..job.length, to : 0..job.length]
    OBVIOUS
  <2>1. i \in DOMAIN chunks /\ chunks[i] \in PieceType
    BY <1>0, <1>1
  <2>2. PICK piece \in PieceType : piece = chunks[i]
    BY <2>1
  <2>3. piece.from < piece.to /\ piece.to <= job.length /\ piece.from \in Nat /\ piece.to \in Nat
    BY <2>1, <2>2 DEF ChunkInv, PiecesKept, PieceType
  <2>4. piece.from \in 0..job.length /\ piece.to \in 0..job.length
    BY <1>0, <2>3
  <2> QED
    BY <2>2, <2>4 DEF PieceType
<1>4. chunks \in [1..n -> [from : 0..job.length, to : 0..job.length]]
  BY <1>0, <1>1, <1>3
<1>5. chunks \in Seq([from : 0..job.length, to : 0..job.length])
  <2>1. PICK S : S = [from : 0..job.length, to : 0..job.length]
    OBVIOUS
  <2>2. chunks \in [1..n -> S]
    BY <1>4, <2>1
  <2>3. chunks \in Seq(S)
    BY <2>2
  <2> QED
    BY <2>1, <2>3
<1>6. vectors \in Seq(DOMAIN chunks)
  <2>1. DOMAIN chunks = 1..n /\ DOMAIN vectors = 1..m
    BY <1>0, <1>1, <1>2
  <2>2. \A i \in 1..m : vectors[i] = i
    BY <2>1 DEF ChunkInv, Progressed
  <2>3. vectors \in [1..m -> 1..n]
    BY <1>0, <1>2, <2>1, <2>2
  <2>4. vectors \in Seq(1..n)
    BY <2>3
  <2> QED
    BY <2>1, <2>4
<1> QED
  BY <1>0, <1>5, <1>6 DEF ChunkTypeOK

LEMMA ChunksStayTyped == ChunkInit /\ [][ChunkNext]_chunkVars => []ChunkTypeOK
<1> DEFINE InText == start <= job.length
<1>1. ChunkInit => InText
  <2> SUFFICES ASSUME ChunkInit
               PROVE  InText
    OBVIOUS
  <2>1. job.length \in Nat
    BY ChunkInvInit DEF ChunkInv, ChunkTyped, JobType
  <2> QED
    BY <2>1 DEF ChunkInit
<1>2. ChunkInv /\ InText /\ [ChunkNext]_chunkVars => InText'
  BY StartStaysInText
<1>3. ChunkInv /\ InText => ChunkTypeOK
  BY ChunksAreTyped
<1> QED
  BY <1>1, <1>2, <1>3, ChunkInvInit, ChunkInvNext, PTL

-----------------------------------------------------------------------------
(***************************************************************************)
(* A search.  Fusion puts each chunk where as many chunks are ahead of it as *)
(* its position says, by an order in which no two chunks found are equal; so *)
(* every position has one chunk, and every chunk one position.               *)
(***************************************************************************)

ProductTo(f, n) == f = [i \in 0..n |-> IF i = 0 THEN 1 ELSE f[i - 1] * (RrfC + i)]

\* The product that makes the scores whole numbers exists, and is a number.
LEMMA UnitIsANumber == Unit \in Nat
<1>0. Cardinality(Chunks) \in Nat /\ RrfC \in Nat
  BY RetrievalAssumption, FS_CardinalityType
<1> DEFINE Bad == {n \in Nat : ~\E f : ProductTo(f, n) /\ f \in [0..n -> Nat]}
<1>1. Bad = {}
  <2> SUFFICES ASSUME Bad # {} PROVE FALSE
    OBVIOUS
  <2>1. PICK m \in Bad : \A k \in Bad : m <= k
    BY LeastNatural
  <2>2. CASE m = 0
    <3>1. PICK f : f = [i \in 0..0 |-> 1]
      OBVIOUS
    <3>2. f \in [0..0 -> Nat]
      BY <3>1
    <3>3. ProductTo(f, 0)
      BY <3>1 DEF ProductTo
    <3> QED
      BY <2>1, <2>2, <3>2, <3>3
  <2>3. CASE m # 0
    <3>1. m - 1 \in Nat /\ m - 1 \notin Bad
      BY <2>1, <2>3
    <3>2. PICK f : ProductTo(f, m - 1) /\ f \in [0..m - 1 -> Nat]
      BY <3>1
    <3>3. PICK g : g = [i \in 0..m |-> IF i = 0 THEN 1 ELSE f[i - 1] * (RrfC + i)]
      OBVIOUS
    <3>4. \A i \in 0..m - 1 : i \in 0..m /\ g[i] = f[i]
      BY <3>1, <3>2, <3>3 DEF ProductTo
    <3>5. \A i \in 0..m : i # 0 => i - 1 \in 0..m - 1
      BY <3>1
    <3>6. ProductTo(g, m)
      BY <3>3, <3>4, <3>5 DEF ProductTo
    <3>7. ASSUME NEW a \in Nat, NEW b \in Nat
          PROVE  a * b \in Nat
      OBVIOUS
    <3>8. \A i \in 0..m : g[i] \in Nat
      <4> SUFFICES ASSUME NEW i \in 0..m
                   PROVE  g[i] \in Nat
        OBVIOUS
      <4>1. CASE i = 0
        BY <3>3, <4>1
      <4>2. CASE i # 0
        <5>1. PICK a \in Nat : a = f[i - 1]
          BY <3>2, <3>5, <4>2
        <5>2. PICK b \in Nat : b = RrfC + i
          BY <1>0
        <5>3. g[i] = a * b
          BY <3>3, <4>2, <5>1, <5>2
        <5> QED
          BY <3>7, <5>3
      <4> QED
        BY <4>1, <4>2
    <3>9. g \in [0..m -> Nat]
      BY <3>3, <3>8
    <3> QED
      BY <2>1, <3>6, <3>9
  <2> QED
    BY <2>2, <2>3
<1>2. PICK n \in Nat : n = Cardinality(Chunks)
  BY <1>0
<1>3. PICK f : ProductTo(f, n) /\ f \in [0..n -> Nat]
  BY <1>1
<1>4. PICK g : g = (CHOOSE h : ProductTo(h, n))
  OBVIOUS
<1>5. ProductTo(g, n)
  BY <1>3, <1>4
<1>6. Unit = g[n]
  BY <1>2, <1>4 DEF Unit, ProductTo
<1>7. \A i \in 0..n : g[i] = f[i]
  <2> DEFINE Other == {i \in 0..n : g[i] # f[i]}
  <2> SUFFICES ASSUME Other # {} PROVE FALSE
    OBVIOUS
  <2>0. Other \in SUBSET Nat
    OBVIOUS
  <2>1. PICK m \in Other : \A k \in Other : m <= k
    BY <2>0, LeastNatural
  <2>2. \A i \in 0..n : /\ g[i] = IF i = 0 THEN 1 ELSE g[i - 1] * (RrfC + i)
                        /\ f[i] = IF i = 0 THEN 1 ELSE f[i - 1] * (RrfC + i)
    BY <1>3, <1>5 DEF ProductTo
  <2>3. m # 0 => m - 1 \in 0..n /\ m - 1 \notin Other
    BY <2>1
  <2> QED
    BY <2>1, <2>2, <2>3
<1> QED
  BY <1>3, <1>6, <1>7

\* A list of different chunks.
IsChannel(list) ==
    /\ list \in Seq(Chunks)
    /\ \A i, j \in DOMAIN list : i # j => list[i] # list[j]

LEMMA ChannelsAre == ASSUME NEW list \in Channel PROVE IsChannel(list)
<1>1. PICK k : k = IF Cardinality(Chunks) < ClampTopK(HybridTopK)
                   THEN Cardinality(Chunks) ELSE ClampTopK(HybridTopK)
  OBVIOUS
<1>2. list \in Lists(k)
  BY <1>1 DEF Channel
<1>3. k \in Nat
  BY <1>1, RetrievalAssumption, FS_CardinalityType DEF ClampTopK
<1>4. PICK S : S = {[1..n -> Chunks] : n \in 0..k} /\ list \in UNION S
  BY <1>2 DEF Lists
<1>5. PICK n \in 0..k : list \in [1..n -> Chunks]
  BY <1>4
<1>6. list \in Seq(Chunks)
  BY <1>3, <1>5
<1> QED
  BY <1>2, <1>6 DEF IsChannel, Lists

LEMMA RankIsItsPlace ==
    ASSUME NEW list, IsChannel(list), NEW c, In(list, c)
    PROVE  /\ Rank(list, c) \in 1..Len(list) /\ Rank(list, c) \in Nat \ {0}
           /\ list[Rank(list, c)] = c
           /\ Len(list) \in Nat
<1>1. DOMAIN list = 1..Len(list) /\ Len(list) \in Nat
  BY DEF IsChannel
<1>2. \E i \in DOMAIN list : list[i] = c
  BY DEF In
<1>3. Rank(list, c) \in DOMAIN list /\ list[Rank(list, c)] = c
  BY <1>2 DEF Rank
<1> QED
  BY <1>1, <1>3

\* Dividing by more gives no more.
LEMMA QuotientsFall ==
    ASSUME NEW u \in Nat, NEW x \in Nat \ {0}, NEW y \in Nat \ {0}, x <= y
    PROVE  u \div x \in Nat /\ u \div y \in Nat /\ u \div y <= u \div x
OBVIOUS

\* A better rank scores no less, and a chunk that is not listed nothing.
LEMMA RrfFalls ==
    ASSUME NEW list, IsChannel(list), NEW a, NEW b,
           In(list, b) => In(list, a) /\ Rank(list, a) <= Rank(list, b)
    PROVE  Rrf(list, a) \in Nat /\ Rrf(list, b) \in Nat /\ Rrf(list, b) <= Rrf(list, a)
<1>0. Unit \in Nat /\ RrfC \in Nat
  BY UnitIsANumber, RetrievalAssumption
<1>1. \A c : Rrf(list, c) \in Nat
  <2> SUFFICES ASSUME NEW c
               PROVE  Rrf(list, c) \in Nat
    OBVIOUS
  <2>1. CASE In(list, c)
    <3>1. PICK x \in Nat \ {0} : x = RrfC + Rank(list, c)
      BY <1>0, <2>1, RankIsItsPlace
    <3> QED
      BY <1>0, <2>1, <3>1, QuotientsFall DEF Rrf
  <2>2. CASE ~In(list, c)
    BY <2>2 DEF Rrf
  <2> QED
    BY <2>1, <2>2
<1>2. CASE In(list, b)
  <2>1. PICK x \in Nat \ {0} : x = RrfC + Rank(list, a)
    BY <1>0, <1>2, RankIsItsPlace
  <2>2. PICK y \in Nat \ {0} : y = RrfC + Rank(list, b)
    BY <1>0, <1>2, RankIsItsPlace
  <2>3. x <= y
    BY <1>0, <1>2, <2>1, <2>2, RankIsItsPlace
  <2>4. Unit \div y <= Unit \div x
    BY <1>0, <2>3, QuotientsFall
  <2> QED
    BY <1>1, <1>2, <2>1, <2>2, <2>4 DEF Rrf
<1>3. CASE ~In(list, b)
  BY <1>1, <1>3 DEF Rrf
<1> QED
  BY <1>2, <1>3

\* In a strict total order of a finite set the elements are told apart by how
\* many come before them, and there is one for every number.
LEMMA CountedOrder ==
    ASSUME NEW H, IsFiniteSet(H), NEW R \in SUBSET (H \X H),
           \A a \in H : <<a, a>> \notin R,
           \A a, b, c \in H : <<a, b>> \in R /\ <<b, c>> \in R => <<a, c>> \in R,
           \A a, b \in H : a = b \/ <<a, b>> \in R \/ <<b, a>> \in R
    PROVE  /\ \A c \in H : Cardinality({b \in H : <<b, c>> \in R}) \in 0..Cardinality(H) - 1
           /\ \A a, b \in H : <<a, b>> \in R =>
                Cardinality({d \in H : <<d, a>> \in R}) < Cardinality({d \in H : <<d, b>> \in R})
           /\ \A n \in 1..Cardinality(H) :
                \E c \in H : Cardinality({b \in H : <<b, c>> \in R}) = n - 1
<1> DEFINE D(c) == {b \in H : <<b, c>> \in R}
<1>0. Cardinality(H) \in Nat
  BY FS_CardinalityType
<1>1. \A c \in H : IsFiniteSet(D(c)) /\ Cardinality(D(c)) \in 0..Cardinality(H) - 1
  <2> SUFFICES ASSUME NEW c \in H
               PROVE  IsFiniteSet(D(c)) /\ Cardinality(D(c)) \in 0..Cardinality(H) - 1
    OBVIOUS
  <2>1. IsFiniteSet(H \ {c}) /\ Cardinality(H \ {c}) = Cardinality(H) - 1
    BY FS_RemoveElement
  <2>2. D(c) \in SUBSET (H \ {c})
    OBVIOUS
  <2>3. IsFiniteSet(D(c)) /\ Cardinality(D(c)) <= Cardinality(H \ {c})
    BY <2>1, <2>2, FS_Subset
  <2>4. Cardinality(D(c)) \in Nat
    BY <2>3, FS_CardinalityType
  <2> QED
    BY <1>0, <2>1, <2>3, <2>4
<1>2. \A a, b \in H : <<a, b>> \in R => Cardinality(D(a)) < Cardinality(D(b))
  <2> SUFFICES ASSUME NEW a \in H, NEW b \in H, <<a, b>> \in R
               PROVE  Cardinality(D(a)) < Cardinality(D(b))
    OBVIOUS
  <2>1. D(a) \in SUBSET D(b) /\ a \in D(b) /\ a \notin D(a)
    OBVIOUS
  <2>2. Cardinality(D(a)) <= Cardinality(D(b)) /\ Cardinality(D(b)) # Cardinality(D(a))
    BY <1>1, <2>1, FS_Subset
  <2>3. Cardinality(D(a)) \in Nat /\ Cardinality(D(b)) \in Nat
    BY <1>1, FS_CardinalityType
  <2> HIDE DEF D
  <2> QED
    BY <2>2, <2>3
<1>3. PICK f : f = [c \in H |-> Cardinality(D(c))]
  OBVIOUS
<1>4. f \in [H -> 0..Cardinality(H) - 1]
  BY <1>1, <1>3
<1>5. \A a, b \in H : f[a] = f[b] => a = b
  <2> SUFFICES ASSUME NEW a \in H, NEW b \in H, a # b
               PROVE  f[a] # f[b]
    OBVIOUS
  <2>1. Cardinality(D(a)) < Cardinality(D(b)) \/ Cardinality(D(b)) < Cardinality(D(a))
    BY <1>2, ZenonT(40)
  <2> HIDE DEF D
  <2> QED
    BY <1>0, <1>1, <1>3, <2>1
<1>6. f \in Injection(H, 0..Cardinality(H) - 1)
  BY <1>4, <1>5, Fun_IsInj
<1>7. IsFiniteSet(0..Cardinality(H) - 1) /\ Cardinality(0..Cardinality(H) - 1) = Cardinality(H)
  <2>1. PICK n \in Nat : n = Cardinality(H)
    BY <1>0
  <2>2. IsFiniteSet(0..n - 1) /\ Cardinality(0..n - 1) = n
    BY FS_Interval
  <2> QED
    BY <2>1, <2>2
<1>8. f \in Surjection(H, 0..Cardinality(H) - 1)
  BY <1>6, <1>7, FS_Injection
<1>9. \A n \in 1..Cardinality(H) : \E c \in H : Cardinality(D(c)) = n - 1
  <2> SUFFICES ASSUME NEW n \in 1..Cardinality(H)
               PROVE  \E c \in H : Cardinality(D(c)) = n - 1
    OBVIOUS
  <2>1. n - 1 \in 0..Cardinality(H) - 1
    BY <1>0
  <2>2. PICK c \in H : f[c] = n - 1
    BY <1>8, <2>1 DEF Surjection
  <2> QED
    BY <1>3, <2>2
<1> QED
  BY <1>1, <1>2, <1>9

Hits(keyword, vector) == {c \in Chunks : In(keyword, c) \/ In(vector, c)}

Before(keyword, vector, a, b) ==
    \/ RrfScore(keyword, vector, a) > RrfScore(keyword, vector, b)
    \/ /\ RrfScore(keyword, vector, a) = RrfScore(keyword, vector, b)
       /\ Entered(keyword, vector, a) < Entered(keyword, vector, b)

FuseOrder(keyword, vector) ==
    {w \in Hits(keyword, vector) \X Hits(keyword, vector) : Before(keyword, vector, w[1], w[2])}

LEMMA ScoresAre ==
    ASSUME NEW keyword, IsChannel(keyword), NEW vector, IsChannel(vector), NEW c
    PROVE  RrfScore(keyword, vector, c) \in Nat
<1>1. Rrf(keyword, c) \in Nat
  <2>1. In(keyword, c) => Rank(keyword, c) <= Rank(keyword, c)
    BY RankIsItsPlace
  <2> QED
    BY <2>1, RrfFalls
<1>2. Rrf(vector, c) \in Nat
  <2>1. In(vector, c) => Rank(vector, c) <= Rank(vector, c)
    BY RankIsItsPlace
  <2> QED
    BY <2>1, RrfFalls
<1> QED
  BY <1>1, <1>2 DEF RrfScore

\* No two chunks enter the map at the same time.
LEMMA EnteredApart ==
    ASSUME NEW keyword, IsChannel(keyword), NEW vector, IsChannel(vector),
           NEW a \in Hits(keyword, vector), NEW b \in Hits(keyword, vector)
    PROVE  /\ Entered(keyword, vector, a) \in Nat
           /\ Entered(keyword, vector, b) \in Nat
           /\ Entered(keyword, vector, a) = Entered(keyword, vector, b) => a = b
<1>1. Len(keyword) \in Nat
  BY DEF IsChannel
<1>2. /\ In(keyword, a) \/ In(vector, a)
      /\ In(keyword, b) \/ In(vector, b)
  BY DEF Hits
<1>3. ASSUME NEW c, In(keyword, c) \/ In(vector, c)
      PROVE  Entered(keyword, vector, c) \in Nat
  BY <1>1, <1>3, RankIsItsPlace DEF Entered
<1>4. ASSUME Entered(keyword, vector, a) = Entered(keyword, vector, b)
      PROVE  a = b
  <2>1. CASE In(keyword, a) /\ In(keyword, b)
    BY <1>4, <2>1, RankIsItsPlace DEF Entered
  <2>2. CASE In(keyword, a) /\ ~In(keyword, b)
    <3>1. In(vector, b)
      BY <1>2, <2>2
    <3> QED
      BY <1>1, <1>4, <2>2, <3>1, RankIsItsPlace DEF Entered
  <2>3. CASE ~In(keyword, a) /\ In(keyword, b)
    <3>1. In(vector, a)
      BY <1>2, <2>3
    <3> QED
      BY <1>1, <1>4, <2>3, <3>1, RankIsItsPlace DEF Entered
  <2>4. CASE ~In(keyword, a) /\ ~In(keyword, b)
    <3>1. In(vector, a) /\ In(vector, b)
      BY <1>2, <2>4
    <3>2. /\ Rank(vector, a) \in Nat /\ Rank(vector, b) \in Nat
          /\ vector[Rank(vector, a)] = a /\ vector[Rank(vector, b)] = b
      BY <3>1, RankIsItsPlace
    <3>3. Rank(vector, a) = Rank(vector, b)
      BY <1>1, <1>4, <2>4, <3>2 DEF Entered
    <3> QED
      BY <3>2, <3>3
  <2> QED
    BY <2>1, <2>2, <2>3, <2>4
<1> QED
  BY <1>2, <1>3, <1>4

\* The order of fusion is strict and total on the chunks found.
LEMMA FuseOrders ==
    ASSUME NEW keyword, IsChannel(keyword), NEW vector, IsChannel(vector)
    PROVE  LET H == Hits(keyword, vector)
               R == FuseOrder(keyword, vector)
           IN  /\ IsFiniteSet(H) /\ R \in SUBSET (H \X H)
               /\ \A a \in H : <<a, a>> \notin R
               /\ \A a, b, c \in H : <<a, b>> \in R /\ <<b, c>> \in R => <<a, c>> \in R
               /\ \A a, b \in H : a = b \/ <<a, b>> \in R \/ <<b, a>> \in R
<1> DEFINE H == Hits(keyword, vector)
           R == FuseOrder(keyword, vector)
<1>1. IsFiniteSet(H)
  BY RetrievalAssumption, FS_Subset DEF Hits
<1>2. R \in SUBSET (H \X H)
  BY DEF FuseOrder
<1>3. \A a, b \in H : <<a, b>> \in R <=> Before(keyword, vector, a, b)
  BY DEF FuseOrder
<1>4. \A a \in H : RrfScore(keyword, vector, a) \in Nat /\ Entered(keyword, vector, a) \in Nat
  BY ScoresAre, EnteredApart
<1>5. \A a \in H : ~Before(keyword, vector, a, a)
  BY <1>4 DEF Before
<1>6. \A a, b, c \in H : Before(keyword, vector, a, b) /\ Before(keyword, vector, b, c)
                           => Before(keyword, vector, a, c)
  BY <1>4 DEF Before
<1>7. \A a, b \in H : a = b \/ Before(keyword, vector, a, b) \/ Before(keyword, vector, b, a)
  <2> SUFFICES ASSUME NEW a \in H, NEW b \in H, a # b
               PROVE  Before(keyword, vector, a, b) \/ Before(keyword, vector, b, a)
    OBVIOUS
  <2>1. Entered(keyword, vector, a) # Entered(keyword, vector, b)
    BY EnteredApart
  <2> QED
    BY <1>4, <2>1 DEF Before
<1> HIDE DEF H, R
<1>8. /\ \A a \in H : <<a, a>> \notin R
      /\ \A a, b, c \in H : <<a, b>> \in R /\ <<b, c>> \in R => <<a, c>> \in R
      /\ \A a, b \in H : a = b \/ <<a, b>> \in R \/ <<b, a>> \in R
  BY <1>3, <1>5, <1>6, <1>7
<1> QED
  BY <1>1, <1>2, <1>8 DEF H, R

HitType == [id : Chunks, score : Nat]

\* What fusion makes of two lists.
LEMMA FusedInOrder ==
    ASSUME NEW keyword, IsChannel(keyword), NEW vector, IsChannel(vector),
           NEW list, list = RrfFuse(keyword, vector)
    PROVE  /\ list \in Seq(HitType)
           /\ {list[n].id : n \in DOMAIN list} = Hits(keyword, vector)
           /\ \A m, n \in DOMAIN list : m # n => list[m].id # list[n].id
           /\ \A m, n \in DOMAIN list : Before(keyword, vector, list[m].id, list[n].id) => m < n
<1>1. PICK H : H = Hits(keyword, vector)
  OBVIOUS
<1>2. PICK R : R = FuseOrder(keyword, vector)
  OBVIOUS
<1>3. /\ IsFiniteSet(H) /\ R \in SUBSET (H \X H)
      /\ \A a \in H : <<a, a>> \notin R
      /\ \A a, b, c \in H : <<a, b>> \in R /\ <<b, c>> \in R => <<a, c>> \in R
      /\ \A a, b \in H : a = b \/ <<a, b>> \in R \/ <<b, a>> \in R
  BY <1>1, <1>2, FuseOrders
<1> DEFINE before(c) == {b \in H : <<b, c>> \in R}
           count(c) == Cardinality(before(c))
<1>4. /\ \A c \in H : count(c) \in 0..Cardinality(H) - 1
      /\ \A a, b \in H : <<a, b>> \in R => count(a) < count(b)
      /\ \A n \in 1..Cardinality(H) : \E c \in H : count(c) = n - 1
  BY <1>3, CountedOrder, ZenonT(40)
<1>5. PICK N \in Nat : N = Cardinality(H)
  BY <1>3, FS_CardinalityType
<1> DEFINE at(n) == CHOOSE c \in H : count(c) = n - 1
<1>6. list = [n \in 1..N |-> [id |-> at(n), score |-> RrfScore(keyword, vector, at(n))]]
  <2>1. \A c \in H : {b \in H : Before(keyword, vector, b, c)} = before(c)
    BY <1>1, <1>2 DEF FuseOrder
  <2>2. \A n : at(n) = CHOOSE c \in H :
                         Cardinality({b \in H : Before(keyword, vector, b, c)}) = n - 1
    BY <2>1
  <2>3. list = LET there(n) == CHOOSE c \in H :
                                 Cardinality({b \in H : Before(keyword, vector, b, c)}) = n - 1
               IN  [n \in 1..Cardinality(H) |->
                      [id |-> there(n), score |-> RrfScore(keyword, vector, there(n))]]
    BY <1>1 DEF RrfFuse, Before, Hits
  <2> HIDE DEF at
  <2> QED
    BY <1>5, <2>2, <2>3
<1>7. \A n \in 1..N : at(n) \in H /\ count(at(n)) = n - 1
  <2> HIDE DEF count
  <2> QED
    BY <1>4, <1>5
<1> HIDE DEF at, count, before
<1>8. \A n \in 1..N : list[n].id = at(n) /\ list[n].score = RrfScore(keyword, vector, at(n))
  BY <1>6
<1>9. H \subseteq Chunks
  BY <1>1 DEF Hits
<1>10. list \in Seq(HitType) /\ DOMAIN list = 1..N
  <2>1. \A n \in 1..N : [id |-> at(n), score |-> RrfScore(keyword, vector, at(n))] \in HitType
    <3> SUFFICES ASSUME NEW n \in 1..N
                 PROVE  [id |-> at(n), score |-> RrfScore(keyword, vector, at(n))] \in HitType
      OBVIOUS
    <3>1. at(n) \in Chunks
      BY <1>7, <1>9
    <3>2. RrfScore(keyword, vector, at(n)) \in Nat
      BY ScoresAre
    <3> QED
      BY <3>1, <3>2 DEF HitType
  <2>2. list \in [1..N -> HitType]
    BY <1>6, <2>1
  <2> QED
    BY <2>2
<1>11. {list[n].id : n \in DOMAIN list} = H
  <2>1. ASSUME NEW c \in H
        PROVE  \E n \in 1..N : list[n].id = c
    <3>1. PICK n \in 1..N : n = count(c) + 1
      BY <1>4, <1>5
    <3>2. at(n) \in H /\ count(at(n)) = count(c)
      BY <1>4, <1>5, <1>7, <3>1
    <3>3. at(n) = c
      <4>1. ASSUME <<at(n), c>> \in R \/ <<c, at(n)>> \in R
            PROVE  FALSE
        BY <1>4, <1>5, <3>2, <4>1
      <4> QED
        BY <1>3, <3>2, <4>1
    <3> QED
      BY <1>8, <3>3
  <2>2. \A n \in 1..N : list[n].id \in H
    BY <1>7, <1>8
  <2> QED
    BY <1>10, <2>1, <2>2
<1>12. ASSUME NEW m \in 1..N, NEW n \in 1..N, m # n
       PROVE  list[m].id # list[n].id
  BY <1>7, <1>8, <1>12
<1>13. ASSUME NEW m \in 1..N, NEW n \in 1..N, Before(keyword, vector, list[m].id, list[n].id)
       PROVE  m < n
  <2>1. at(m) \in H /\ at(n) \in H /\ Before(keyword, vector, at(m), at(n))
    BY <1>7, <1>8, <1>13
  <2>2. <<at(m), at(n)>> \in R
    BY <1>1, <1>2, <2>1 DEF FuseOrder
  <2>3. count(at(m)) < count(at(n))
    BY <1>4, <2>1, <2>2
  <2> QED
    BY <1>7, <2>3
<1> QED
  BY <1>1, <1>10, <1>11, <1>12, <1>13

\* A chunk that no channel puts behind another enters fusion ahead of it.
LEMMA AheadIsBefore ==
    ASSUME NEW keyword, IsChannel(keyword), NEW vector, IsChannel(vector),
           NEW a, NEW b \in Hits(keyword, vector),
           In(keyword, b) => In(keyword, a) /\ Rank(keyword, a) < Rank(keyword, b),
           In(vector, b) => In(vector, a) /\ Rank(vector, a) < Rank(vector, b)
    PROVE  Before(keyword, vector, a, b)
<1>1. ASSUME NEW list, IsChannel(list),
             In(list, b) => In(list, a) /\ Rank(list, a) < Rank(list, b)
      PROVE  Rrf(list, a) \in Nat /\ Rrf(list, b) \in Nat /\ Rrf(list, b) <= Rrf(list, a)
  <2>1. In(list, b) => In(list, a) /\ Rank(list, a) <= Rank(list, b)
    BY <1>1, RankIsItsPlace
  <2> QED
    BY <1>1, <2>1, RrfFalls
<1>2. RrfScore(keyword, vector, b) <= RrfScore(keyword, vector, a)
  <2>1. Rrf(keyword, a) \in Nat /\ Rrf(keyword, b) \in Nat /\ Rrf(keyword, b) <= Rrf(keyword, a)
    BY <1>1
  <2>2. Rrf(vector, a) \in Nat /\ Rrf(vector, b) \in Nat /\ Rrf(vector, b) <= Rrf(vector, a)
    BY <1>1
  <2> QED
    BY <2>1, <2>2 DEF RrfScore
<1>3. RrfScore(keyword, vector, a) \in Nat /\ RrfScore(keyword, vector, b) \in Nat
  BY ScoresAre
<1>4. Entered(keyword, vector, a) < Entered(keyword, vector, b)
  <2>1. CASE In(keyword, b)
    BY <2>1 DEF Entered
  <2>2. CASE ~In(keyword, b)
    <3>1. In(vector, b) /\ In(vector, a) /\ Rank(vector, a) < Rank(vector, b)
      BY <2>2 DEF Hits
    <3>2. /\ Len(keyword) \in Nat /\ Rank(vector, a) \in Nat \ {0} /\ Rank(vector, b) \in Nat \ {0}
          /\ In(keyword, a) => Rank(keyword, a) \in 1..Len(keyword)
      BY <3>1, RankIsItsPlace
    <3> QED
      BY <2>2, <3>1, <3>2 DEF Entered
  <2> QED
    BY <2>1, <2>2
<1> QED
  BY <1>2, <1>3, <1>4 DEF Before

-----------------------------------------------------------------------------
(* The answer: what is taken from the fused list keeps its chunks apart. *)

\* Chunks of the fused list, each at most once.
FusedIds == {fused[n].id : n \in DOMAIN fused}

GoodHits(hits) ==
    /\ hits \in Seq(HitType)
    /\ \A i, j \in DOMAIN hits : i # j => hits[i].id # hits[j].id
    /\ \A i \in DOMAIN hits : hits[i].id \in FusedIds

LEMMA FirstHitsAreGood ==
    ASSUME NEW hits, GoodHits(hits), NEW n \in Nat
    PROVE  GoodHits(FirstHits(hits, n)) /\ Len(FirstHits(hits, n)) <= n
<1>0. hits \in Seq(HitType) /\ Len(hits) \in Nat /\ DOMAIN hits = 1..Len(hits)
  BY DEF GoodHits
<1>1. PICK m \in Nat : m = (IF Len(hits) < n THEN Len(hits) ELSE n)
  BY <1>0
<1>2. m <= Len(hits) /\ m <= n
  <2>1. PICK l \in Nat : l = Len(hits)
    BY <1>0
  <2>2. m = IF l < n THEN l ELSE n
    BY <1>1, <2>1
  <2>3. m <= l /\ m <= n
    BY <2>2
  <2> QED
    BY <2>1, <2>3
<1>3. PICK first : first = FirstHits(hits, n) /\ first = SubSeq(hits, 1, m)
  BY <1>1 DEF FirstHits
<1>4. /\ first \in Seq(HitType) /\ Len(first) = m
      /\ \A i \in 1..m : i \in DOMAIN hits /\ first[i] = hits[i]
  <2>1. \A i \in 1..m : hits[i] \in HitType
    BY <1>0, <1>2
  <2>2. /\ first \in Seq(HitType) /\ Len(first) = IF 1 <= m THEN m - 1 + 1 ELSE 0
        /\ \A i \in 1..m - 1 + 1 : first[i] = hits[1 + i - 1]
    BY <1>3, <2>1, SubSeqProperties
  <2> QED
    BY <1>0, <1>2, <2>2
<1>5. DOMAIN first = 1..m
  BY <1>4
<1>6. GoodHits(first)
  BY <1>4, <1>5 DEF GoodHits
<1> QED
  BY <1>2, <1>3, <1>4, <1>6

\* What the reranker answers about the chunks it was sent.
LEMMA KnownIsGood ==
    ASSUME GoodHits(fused), NEW answer \in Reranked
    PROVE  GoodHits(Known(answer))
<1>1. PICK N \in Nat : N = Len(fused) /\ DOMAIN fused = 1..N
  BY DEF GoodHits
<1>2. PICK T : T = [index : 0..N, score : Scores]
  OBVIOUS
<1>3. answer \in Seq(T)
  <2>1. PICK sets : sets = {[1..k -> [index : 0..Len(fused), score : Scores]] :
                               k \in 1..Len(FirstHits(fused, search.topK))}
    OBVIOUS
  <2>2. answer \in UNION sets
    BY <2>1, Zenon DEF Reranked
  <2>3. PICK k \in 1..Len(FirstHits(fused, search.topK)) : answer \in [1..k -> T]
    BY <1>1, <1>2, <2>1, <2>2
  <2>4. k \in Nat
    OBVIOUS
  <2> QED
    BY <2>3, <2>4
<1>4. \A i, j \in DOMAIN answer : i < j => answer[i].index # answer[j].index
  BY DEF Reranked
<1>5. PICK S : S = [index : 0..N - 1, score : Scores]
  OBVIOUS
<1>6. PICK items : items = Only(answer, S)
  OBVIOUS
<1>7. items \in Seq(T \cap S)
  BY <1>3, <1>6, OnlyIsASeq
<1>8. TakenInOrder(items, answer, Len(answer))
  BY <1>3, <1>6, OnlyKeepsOrder
<1>9. PICK L \in Nat : L = Len(items) /\ DOMAIN items = 1..L
  BY <1>7
<1>10. PICK at \in [1..L -> 1..Len(answer)] :
         /\ \A i \in 1..L : items[i] = answer[at[i]]
         /\ \A i, j \in 1..L : i < j => at[i] < at[j]
  BY <1>8, <1>9 DEF TakenInOrder
<1>11. \A i, j \in 1..L : i < j => items[i].index # items[j].index
  <2> SUFFICES ASSUME NEW i \in 1..L, NEW j \in 1..L, i < j
               PROVE  items[i].index # items[j].index
    OBVIOUS
  <2>1. at[i] \in DOMAIN answer /\ at[j] \in DOMAIN answer /\ at[i] < at[j]
    BY <1>3, <1>10
  <2> QED
    BY <1>4, <1>10, <2>1
<1>12. \A i \in 1..L : items[i].index \in 0..N - 1 /\ items[i].score \in Nat
  <2> SUFFICES ASSUME NEW i \in 1..L
               PROVE  items[i].index \in 0..N - 1 /\ items[i].score \in Nat
    OBVIOUS
  <2>1. items[i] \in S
    BY <1>7, <1>9
  <2> QED
    BY <1>5, <2>1, RetrievalAssumption
<1>13. PICK known : known = [i \in 1..L |-> [id |-> fused[items[i].index + 1].id,
                                              score |-> items[i].score]]
  OBVIOUS
<1>14. Known(answer) = known
  BY <1>1, <1>5, <1>6, <1>9, <1>13 DEF Known
<1>15. \A i \in 1..L : /\ items[i].index + 1 \in DOMAIN fused
                       /\ known[i].id = fused[items[i].index + 1].id
                       /\ known[i] \in HitType
  <2> SUFFICES ASSUME NEW i \in 1..L
               PROVE  /\ items[i].index + 1 \in DOMAIN fused
                      /\ known[i].id = fused[items[i].index + 1].id
                      /\ known[i] \in HitType
    OBVIOUS
  <2>1. PICK k \in DOMAIN fused : k = items[i].index + 1
    BY <1>1, <1>12
  <2>2. fused[k] \in HitType
    BY DEF GoodHits
  <2>3. fused[k].id \in Chunks /\ items[i].score \in Nat
    BY <1>12, <2>2 DEF HitType
  <2>4. known[i] = [id |-> fused[k].id, score |-> items[i].score]
    BY <1>13, <2>1
  <2> QED
    BY <2>1, <2>3, <2>4 DEF HitType
<1>16. known \in Seq(HitType) /\ DOMAIN known = 1..L
  <2>1. known \in [1..L -> HitType]
    BY <1>13, <1>15
  <2> QED
    BY <2>1
<1>17. \A i, j \in 1..L : i < j => known[i].id # known[j].id
  <2> SUFFICES ASSUME NEW i \in 1..L, NEW j \in 1..L, i < j
               PROVE  known[i].id # known[j].id
    OBVIOUS
  <2>1. PICK k \in DOMAIN fused : k = items[i].index + 1
    BY <1>15
  <2>2. PICK l \in DOMAIN fused : l = items[j].index + 1
    BY <1>15
  <2>3. k # l
    <3>1. PICK a \in Nat : a = items[i].index
      <4>1. items[i].index \in 0..N - 1
        BY <1>12
      <4> QED
        BY <4>1
    <3>2. PICK b \in Nat : b = items[j].index
      <4>1. items[j].index \in 0..N - 1
        BY <1>12
      <4> QED
        BY <4>1
    <3>3. a # b
      BY <1>11, <3>1, <3>2
    <3>4. k = a + 1 /\ l = b + 1
      BY <2>1, <2>2, <3>1, <3>2
    <3> QED
      BY <3>3, <3>4
  <2>4. fused[k].id # fused[l].id
    BY <2>3 DEF GoodHits
  <2> QED
    BY <1>15, <2>1, <2>2, <2>4
<1>18. \A i, j \in 1..L : i # j => known[i].id # known[j].id
  <2> SUFFICES ASSUME NEW i \in 1..L, NEW j \in 1..L, i # j
               PROVE  known[i].id # known[j].id
    OBVIOUS
  <2>1. i < j \/ j < i
    OBVIOUS
  <2> QED
    BY <1>17, <2>1
<1>19. \A i \in 1..L : known[i].id \in FusedIds
  BY <1>15 DEF FusedIds
<1>20. GoodHits(known)
  BY <1>16, <1>18, <1>19 DEF GoodHits
<1> QED
  BY <1>14, <1>20

LEMMA RelevantIsGood ==
    ASSUME NEW hits, GoodHits(hits)
    PROVE  GoodHits(Relevant(hits))
<1>1. PICK S : S = [id : Chunks, score : {s \in Scores : s >= MinScore}]
  OBVIOUS
<1>2. PICK some : some = Only(hits, S)
  OBVIOUS
<1>3. hits \in Seq(HitType)
  BY DEF GoodHits
<1>4. some \in Seq(HitType \cap S)
  BY <1>2, <1>3, OnlyIsASeq
<1>5. PICK L \in Nat : L = Len(some) /\ DOMAIN some = 1..L
  BY <1>4
<1>6. TakenInOrder(some, hits, Len(hits))
  BY <1>2, <1>3, OnlyKeepsOrder
<1>7. PICK at \in [1..L -> 1..Len(hits)] :
        /\ \A i \in 1..L : some[i] = hits[at[i]]
        /\ \A i, j \in 1..L : i < j => at[i] < at[j]
  BY <1>5, <1>6 DEF TakenInOrder
<1>8. \A i \in 1..L : at[i] \in DOMAIN hits /\ some[i] = hits[at[i]] /\ at[i] \in Nat
  BY <1>3, <1>7
<1>9. \A i, j \in 1..L : i # j => at[i] # at[j]
  <2> SUFFICES ASSUME NEW i \in 1..L, NEW j \in 1..L, i # j
               PROVE  at[i] # at[j]
    OBVIOUS
  <2>1. i < j \/ j < i
    OBVIOUS
  <2> QED
    BY <1>7, <1>8, <2>1
<1>10. \A i, j \in 1..L : i # j => some[i].id # some[j].id
  BY <1>8, <1>9 DEF GoodHits
<1>11. \A i \in 1..L : some[i].id \in FusedIds
  BY <1>8 DEF GoodHits
<1>12. some \in Seq(HitType)
  <2>1. \A i \in 1..L : some[i] \in HitType
    BY <1>4, <1>5
  <2>2. some \in [1..L -> HitType]
    BY <1>4, <1>5, <2>1
  <2> QED
    BY <2>2
<1> QED
  BY <1>1, <1>2, <1>5, <1>10, <1>11, <1>12 DEF GoodHits, Relevant

SearchInv ==
    /\ search \in [stage : {"asked", "fused", "done"}, topK : Nat,
                   keyword : Seq(Chunks), vector : Seq(Chunks)]
    /\ search.stage = "asked" => fused = <<>>
    /\ search.stage # "asked" =>
         /\ IsChannel(search.keyword) /\ IsChannel(search.vector)
         /\ fused = RrfFuse(search.keyword, search.vector)
    /\ GoodHits(found) /\ Len(found) <= search.topK

LEMMA EmptyIsGood == GoodHits(<<>>) /\ Len(<<>>) = 0
<1>1. <<>> \in Seq(HitType) /\ DOMAIN <<>> = {} /\ Len(<<>>) = 0
  OBVIOUS
<1> QED
  BY <1>1 DEF GoodHits

LEMMA SearchInvInit == RetrievalInit => SearchInv
<1> SUFFICES ASSUME RetrievalInit
             PROVE  SearchInv
  OBVIOUS
<1>1. PICK s : s = <<>> /\ s \in Seq(Chunks)
  <2>1. <<>> \in Seq(Chunks)
    OBVIOUS
  <2> QED
    BY <2>1
<1>2. search = [stage |-> "asked", topK |-> 0, keyword |-> s, vector |-> s]
  BY <1>1 DEF RetrievalInit
<1>3. /\ search \in [stage : {"asked", "fused", "done"}, topK : Nat,
                     keyword : Seq(Chunks), vector : Seq(Chunks)]
      /\ search.stage = "asked" /\ search.topK = 0
  BY <1>1, <1>2
<1>4. fused = <<>> /\ found = <<>>
  BY DEF RetrievalInit
<1> QED
  BY <1>3, <1>4, EmptyIsGood DEF SearchInv

LEMMA SearchInvNext == SearchInv /\ [RetrievalNext]_retrievalVars => SearchInv'
<1> SUFFICES ASSUME SearchInv, [RetrievalNext]_retrievalVars
             PROVE  SearchInv'
  OBVIOUS
<1>1. CASE UNCHANGED retrievalVars
  BY <1>1 DEF retrievalVars, SearchInv, GoodHits, FusedIds
<1>2. ASSUME NEW k \in TopKs, SearchHybrid(k)
      PROVE  SearchInv'
  <2>1. PICK keyword \in Channel, vector \in Channel :
          /\ search' = [stage |-> "fused", topK |-> k, keyword |-> keyword, vector |-> vector]
          /\ fused' = RrfFuse(keyword, vector)
    BY <1>2 DEF SearchHybrid
  <2>2. IsChannel(keyword) /\ IsChannel(vector)
    BY ChannelsAre
  <2>3. keyword \in Seq(Chunks) /\ vector \in Seq(Chunks) /\ k \in Nat
    BY <2>2, RetrievalAssumption DEF IsChannel
  <2>4. /\ search' \in [stage : {"asked", "fused", "done"}, topK : Nat,
                        keyword : Seq(Chunks), vector : Seq(Chunks)]
        /\ search'.stage = "fused" /\ search'.topK = k
        /\ search'.keyword = keyword /\ search'.vector = vector
    BY <2>1, <2>3
  <2>5. found' = <<>>
    <3>1. search.stage = "asked" /\ UNCHANGED found
      BY <1>2 DEF SearchHybrid
    <3>2. DOMAIN found = {}
      <4>1. fused = <<>>
        BY <3>1 DEF SearchInv
      <4>2. DOMAIN fused = {}
        BY <4>1
      <4>3. FusedIds = {}
        BY <4>2 DEF FusedIds
      <4> QED
        BY <4>3 DEF SearchInv, GoodHits
    <3>3. found \in Seq(HitType)
      BY DEF SearchInv, GoodHits
    <3> QED
      BY <3>1, <3>2, <3>3
  <2>6. GoodHits(found)' /\ Len(found') <= search'.topK
    <3>1. <<>> \in Seq(HitType) /\ DOMAIN <<>> = {} /\ Len(<<>>) = 0
      OBVIOUS
    <3> QED
      BY <2>3, <2>4, <2>5, <3>1 DEF GoodHits
  <2> QED
    BY <2>1, <2>2, <2>4, <2>6 DEF SearchInv, IsChannel
<1>3. CASE Rerank
  <2>1. search.stage = "fused" /\ UNCHANGED fused
    BY <1>3 DEF Rerank
  <2>2. /\ IsChannel(search.keyword) /\ IsChannel(search.vector)
        /\ fused = RrfFuse(search.keyword, search.vector) /\ search.topK \in Nat
    BY <2>1 DEF SearchInv
  <2>3. GoodHits(fused)
    <3>1. PICK keyword : keyword = search.keyword
      OBVIOUS
    <3>2. PICK vector : vector = search.vector
      OBVIOUS
    <3>3. /\ fused \in Seq(HitType)
          /\ \A m, n \in DOMAIN fused : m # n => fused[m].id # fused[n].id
      BY <2>2, <3>1, <3>2, FusedInOrder
    <3> QED
      BY <3>3 DEF GoodHits, FusedIds
  <2>4. GoodHits(found') /\ Len(found') <= search.topK
    <3>1. CASE found' = FirstHits(fused, search.topK)
      BY <2>2, <2>3, <3>1, FirstHitsAreGood
    <3>2. ASSUME NEW answer \in Reranked,
                 found' = FirstHits(IF Known(answer) = <<>> THEN fused ELSE Relevant(Known(answer)),
                                    search.topK)
          PROVE  GoodHits(found') /\ Len(found') <= search.topK
      <4>1. PICK hits : hits = (IF Known(answer) = <<>> THEN fused ELSE Relevant(Known(answer)))
        OBVIOUS
      <4>2. GoodHits(hits)
        BY <2>3, <4>1, KnownIsGood, RelevantIsGood
      <4> QED
        BY <2>2, <3>2, <4>1, <4>2, FirstHitsAreGood
    <3> QED
      BY <1>3, <3>1, <3>2 DEF Rerank
  <2>5. GoodHits(found)'
    BY <2>1, <2>4 DEF GoodHits, FusedIds
  <2>6. /\ search' \in [stage : {"asked", "fused", "done"}, topK : Nat,
                        keyword : Seq(Chunks), vector : Seq(Chunks)]
        /\ search'.stage = "done" /\ search'.topK = search.topK
        /\ search'.keyword = search.keyword /\ search'.vector = search.vector
    BY <1>3 DEF SearchInv, Rerank
  <2>7. IsChannel(search'.keyword) /\ IsChannel(search'.vector)
    BY <2>2, <2>6
  <2> QED
    BY <2>1, <2>2, <2>4, <2>5, <2>6, <2>7 DEF SearchInv, IsChannel
<1> QED
  BY <1>1, <1>2, <1>3 DEF RetrievalNext

LEMMA SearchAnswers == SearchInv => SearchKeepsOrder
<1> SUFFICES ASSUME SearchInv, search.stage # "asked"
             PROVE  SearchKeepsOrder
  BY DEF SearchKeepsOrder
<1>1. PICK k : k = search.keyword
  OBVIOUS
<1>2. PICK v : v = search.vector
  OBVIOUS
<1>3. IsChannel(k) /\ IsChannel(v) /\ fused = RrfFuse(k, v)
  BY <1>1, <1>2 DEF SearchInv
<1>4. /\ {fused[n].id : n \in DOMAIN fused} = Hits(k, v)
      /\ \A m, n \in DOMAIN fused : m # n => fused[m].id # fused[n].id
      /\ \A m, n \in DOMAIN fused : Before(k, v, fused[m].id, fused[n].id) => m < n
  BY <1>3, FusedInOrder
<1>5. ASSUME NEW m \in DOMAIN fused, NEW n \in DOMAIN fused,
             In(k, fused[n].id) =>
               In(k, fused[m].id) /\ Rank(k, fused[m].id) < Rank(k, fused[n].id),
             In(v, fused[n].id) =>
               In(v, fused[m].id) /\ Rank(v, fused[m].id) < Rank(v, fused[n].id)
      PROVE  m < n
  <2>1. fused[n].id \in Hits(k, v)
    BY <1>4
  <2>2. Before(k, v, fused[m].id, fused[n].id)
    BY <1>3, <1>5, <2>1, AheadIsBefore
  <2> QED
    BY <1>4, <2>2
<1>6. /\ Len(found) <= search.topK
      /\ \A i, j \in DOMAIN found : i # j => found[i].id # found[j].id
      /\ \A i \in DOMAIN found : \E n \in DOMAIN fused : fused[n].id = found[i].id
  BY DEF SearchInv, GoodHits, FusedIds
<1>7. {fused[n].id : n \in DOMAIN fused} = {c \in Chunks : In(k, c) \/ In(v, c)}
  BY <1>4 DEF Hits
<1> QED
  BY <1>1, <1>2, <1>4, <1>5, <1>6, <1>7 DEF SearchKeepsOrder

LEMMA SearchesKeepOrder == RetrievalInit /\ [][RetrievalNext]_retrievalVars => []SearchKeepsOrder
BY SearchInvInit, SearchInvNext, SearchAnswers, PTL

\* What is fused and found are chunks with a score.
LEMMA SearchIsTyped == SearchInv => RetrievalTypeOK
<1> SUFFICES ASSUME SearchInv
             PROVE  RetrievalTypeOK
  OBVIOUS
<1>1. search.stage \in {"asked", "fused", "done"}
  BY DEF SearchInv
<1>2. fused \in Seq(HitType)
  <2>1. CASE search.stage = "asked"
    <3>1. <<>> \in Seq(HitType)
      OBVIOUS
    <3> QED
      BY <2>1, <3>1 DEF SearchInv
  <2>2. CASE search.stage # "asked"
    <3>1. PICK k : k = search.keyword
      OBVIOUS
    <3>2. PICK v : v = search.vector
      OBVIOUS
    <3>3. IsChannel(k) /\ IsChannel(v) /\ fused = RrfFuse(k, v)
      BY <2>2, <3>1, <3>2 DEF SearchInv
    <3> QED
      BY <3>3, FusedInOrder
  <2> QED
    BY <2>1, <2>2
<1>3. found \in Seq(HitType)
  BY DEF SearchInv, GoodHits
<1>4. \A i \in DOMAIN fused : fused[i] \in HitType
  BY <1>2
<1>5. \A i \in DOMAIN found : found[i] \in HitType
  BY <1>3
<1> QED
  BY <1>1, <1>4, <1>5 DEF RetrievalTypeOK, HitType

LEMMA SearchStaysTyped == RetrievalInit /\ [][RetrievalNext]_retrievalVars => []RetrievalTypeOK
BY SearchInvInit, SearchInvNext, SearchIsTyped, PTL

-----------------------------------------------------------------------------
(***************************************************************************)
(* Parsing                                                                 *)
(***************************************************************************)

\* The k-th element of t is that at place[k] of seqs[piece[k]]; the elements
\* come in the order of the first n of seqs, and none of them is missing.
JoinedAt(t, seqs, n, piece, place) ==
    /\ piece \in [1..Len(t) -> 1..n] /\ place \in [1..Len(t) -> Nat]
    /\ \A i \in 1..Len(t) : place[i] \in DOMAIN seqs[piece[i]]
                            /\ t[i] = seqs[piece[i]][place[i]]
    /\ \A i, j \in 1..Len(t) :
          i < j => \/ piece[i] < piece[j]
                   \/ (piece[i] = piece[j] /\ place[i] < place[j])
    /\ \A p \in 1..n : \A q \in DOMAIN seqs[p] :
          \E i \in 1..Len(t) : piece[i] = p /\ place[i] = q

Joined(t, seqs, n) == \E piece, place : JoinedAt(t, seqs, n, piece, place)

Flattens(f, seqs, n) ==
    f = [i \in 1..n |-> IF i = 1 THEN seqs[i] ELSE f[i - 1] \o seqs[i]]

LEMMA FlattensAt ==
    ASSUME NEW f, NEW seqs, NEW n \in Nat, NEW i \in 1..n, Flattens(f, seqs, n)
    PROVE  f[i] = IF i = 1 THEN seqs[i] ELSE f[i - 1] \o seqs[i]
<1> DEFINE h(x) == IF x = 1 THEN seqs[x] ELSE f[x - 1] \o seqs[x]
<1>1. f = [x \in 1..n |-> h(x)]
  BY DEF Flattens
<1> HIDE DEF h
<1>2. f[i] = h(i)
  BY <1>1
<1> QED
  BY <1>2 DEF h

LEMMA FlattenExists ==
    ASSUME NEW seqs, NEW n \in Nat
    PROVE  \E f : Flattens(f, seqs, n)
<1> DEFINE Bad == {k \in Nat : ~\E f : Flattens(f, seqs, k)}
<1>1. SUFFICES ASSUME Bad # {} PROVE FALSE
  OBVIOUS
<1>2. PICK m \in Bad : \A k \in Bad : m <= k
  BY <1>1, LeastNatural
<1>3. CASE m = 0
  <2> DEFINE g == [i \in 1..0 |-> <<>>]
  <2>1. Flattens(g, seqs, 0)
    BY DEF Flattens
  <2> QED
    BY <1>3, <2>1
<1>4. CASE m # 0
  <2>1. m - 1 \in Nat /\ m - 1 \notin Bad
    BY <1>2, <1>4
  <2>2. PICK f : Flattens(f, seqs, m - 1)
    BY <2>1
  <2> DEFINE g == [i \in 1..m |-> IF i = 1 THEN seqs[i] ELSE f[i - 1] \o seqs[i]]
  <2>3. \A i \in 1..m - 1 : i \in 1..m /\ g[i] = f[i]
    BY <2>1, <2>2, FlattensAt
  <2>4. \A i \in 1..m : i # 1 => i - 1 \in 1..m - 1
    BY <2>1
  <2>5. Flattens(g, seqs, m)
    BY <2>3, <2>4 DEF Flattens
  <2> QED
    BY <2>5
<1> QED
  BY <1>3, <1>4

\* One more sequence comes after those that are joined.
LEMMA JoinOneMore ==
    ASSUME NEW T, NEW seqs, NEW n \in Nat, NEW t \in Seq(T), NEW s \in Seq(T),
           seqs[n + 1] = s, Joined(t, seqs, n)
    PROVE  Joined(t \o s, seqs, n + 1)
<1>1. PICK piece, place : JoinedAt(t, seqs, n, piece, place)
  BY DEF Joined
<1>2. PICK a \in Nat : a = Len(t)
  OBVIOUS
<1>3. PICK b \in Nat : b = Len(s)
  OBVIOUS
<1>4. PICK u \in Seq(T) : u = t \o s
  <2>1. t \o s \in Seq(T)
    OBVIOUS
  <2> QED
    BY <2>1
<1>5. /\ Len(u) = a + b
      /\ \A i \in 1..a : u[i] = t[i]
      /\ \A i \in 1..b : u[a + i] = s[i]
  BY <1>2, <1>3, <1>4
<1>6. PICK newPiece : newPiece = [i \in 1..a + b |-> IF i <= a THEN piece[i] ELSE n + 1]
  OBVIOUS
<1>7. PICK newPlace : newPlace = [i \in 1..a + b |-> IF i <= a THEN place[i] ELSE i - a]
  OBVIOUS
<1>8. \A i \in 1..a + b : i \in 1..a \/ (i - a \in 1..b /\ ~(i <= a) /\ i = a + (i - a))
  OBVIOUS
<1>9. \A i \in 1..a : /\ newPiece[i] = piece[i] /\ newPlace[i] = place[i]
                      /\ piece[i] \in 1..n /\ place[i] \in Nat
                      /\ place[i] \in DOMAIN seqs[piece[i]] /\ t[i] = seqs[piece[i]][place[i]]
  <2>1. \A i \in 1..a : newPiece[i] = piece[i] /\ newPlace[i] = place[i]
    BY <1>6, <1>7
  <2>2. \A i \in 1..a : /\ piece[i] \in 1..n /\ place[i] \in Nat
                        /\ place[i] \in DOMAIN seqs[piece[i]]
                        /\ t[i] = seqs[piece[i]][place[i]]
    BY <1>1, <1>2 DEF JoinedAt
  <2> QED
    BY <2>1, <2>2
<1>10. \A i \in 1..a + b : i \notin 1..a => newPiece[i] = n + 1 /\ newPlace[i] = i - a
  BY <1>6, <1>7
<1>11. DOMAIN s = 1..b
  BY <1>3
<1>12. newPiece \in [1..Len(u) -> 1..n + 1] /\ newPlace \in [1..Len(u) -> Nat]
  <2>1. \A i \in 1..a + b : newPiece[i] \in 1..n + 1 /\ newPlace[i] \in Nat
    BY <1>8, <1>9, <1>10
  <2> QED
    BY <1>5, <1>6, <1>7, <2>1
<1>13. ASSUME NEW i \in 1..Len(u)
       PROVE  newPlace[i] \in DOMAIN seqs[newPiece[i]] /\ u[i] = seqs[newPiece[i]][newPlace[i]]
  <2>1. CASE i \in 1..a
    BY <1>5, <1>9, <2>1
  <2>2. CASE i \notin 1..a
    <3>1. i - a \in 1..b /\ u[i] = s[i - a]
      BY <1>5, <1>8, <1>13, <2>2
    <3> QED
      BY <1>5, <1>10, <1>11, <2>2, <3>1
  <2> QED
    BY <2>1, <2>2
<1>14. ASSUME NEW i \in 1..Len(u), NEW j \in 1..Len(u), i < j
       PROVE  \/ newPiece[i] < newPiece[j]
              \/ (newPiece[i] = newPiece[j] /\ newPlace[i] < newPlace[j])
  <2>0. i \in 1..a + b /\ j \in 1..a + b
    BY <1>5
  <2>1. CASE i \in 1..a /\ j \in 1..a
    BY <1>1, <1>2, <1>9, <1>14, <2>1 DEF JoinedAt
  <2>2. CASE i \in 1..a /\ j \notin 1..a
    BY <1>9, <1>10, <2>0, <2>2, SMTT(30)
  <2>3. CASE i \notin 1..a
    <3>1. j \notin 1..a
      BY <1>14, <2>0, <2>3
    <3> QED
      BY <1>10, <1>14, <2>0, <2>3, <3>1
  <2> QED
    BY <2>1, <2>2, <2>3
<1>15. ASSUME NEW p \in 1..n + 1, NEW q \in DOMAIN seqs[p]
       PROVE  \E i \in 1..Len(u) : newPiece[i] = p /\ newPlace[i] = q
  <2>1. CASE p \in 1..n
    <3>1. PICK i \in 1..a : piece[i] = p /\ place[i] = q
      BY <1>1, <1>2, <2>1 DEF JoinedAt
    <3>2. i \in 1..Len(u)
      BY <1>5
    <3> QED
      BY <1>9, <3>1, <3>2
  <2>2. CASE p \notin 1..n
    <3>1. p = n + 1 /\ q \in 1..b
      BY <1>11, <2>2
    <3>2. a + q \in 1..Len(u) /\ a + q \notin 1..a /\ (a + q) - a = q
      BY <1>5, <3>1
    <3>3. newPiece[a + q] = p /\ newPlace[a + q] = q
      BY <1>5, <1>10, <3>1, <3>2
    <3> QED
      BY <3>2, <3>3
  <2> QED
    BY <2>1, <2>2
<1>16. JoinedAt(u, seqs, n + 1, newPiece, newPlace)
  BY <1>12, <1>13, <1>14, <1>15 DEF JoinedAt
<1> QED
  BY <1>4, <1>16 DEF Joined

\* FlattenSeq joins the sequences in their order and drops nothing.
LEMMA FlattenJoins ==
    ASSUME NEW T, NEW seqs \in Seq(Seq(T))
    PROVE  FlattenSeq(seqs) \in Seq(T) /\ Joined(FlattenSeq(seqs), seqs, Len(seqs))
<1>0. \A t : Len(t) = 0 => Joined(t, seqs, 0)
  <2> SUFFICES ASSUME NEW t, Len(t) = 0
               PROVE  Joined(t, seqs, 0)
    OBVIOUS
  <2>1. PICK none : none = [i \in {} |-> 0]
    OBVIOUS
  <2>2. none \in [1..Len(t) -> 1..0] /\ none \in [1..Len(t) -> Nat] /\ 1..Len(t) = {}
    BY <2>1
  <2>3. JoinedAt(t, seqs, 0, none, none)
    BY <2>2 DEF JoinedAt
  <2> QED
    BY <2>3 DEF Joined
<1>1. CASE Len(seqs) = 0
  <2>1. FlattenSeq(seqs) = seqs
    BY <1>1 DEF FlattenSeq
  <2>2. seqs = <<>>
    BY <1>1, EmptySeq
  <2>3. seqs \in Seq(T)
    BY <2>2
  <2> QED
    BY <1>0, <1>1, <2>1, <2>3
<1>2. CASE Len(seqs) # 0
  <2> DEFINE f == CHOOSE g : Flattens(g, seqs, Len(seqs))
             Bad == {k \in 1..Len(seqs) : ~(f[k] \in Seq(T) /\ Joined(f[k], seqs, k))}
  <2>1. Flattens(f, seqs, Len(seqs))
    <3>1. Len(seqs) \in Nat
      OBVIOUS
    <3>2. \E g : Flattens(g, seqs, Len(seqs))
      BY <3>1, FlattenExists, Zenon
    <3> QED
      BY <3>2
  <2>2. FlattenSeq(seqs) = f[Len(seqs)]
    BY <1>2 DEF FlattenSeq, Flattens
  <2> HIDE DEF f
  <2>3. Bad = {}
    <3> SUFFICES ASSUME Bad # {} PROVE FALSE
      OBVIOUS
    <3>0. Bad \in SUBSET Nat
      OBVIOUS
    <3>1. PICK m \in Bad : \A k \in Bad : m <= k
      BY <3>0, LeastNatural
    <3>2. seqs[m] \in Seq(T) /\ m \in 1..Len(seqs)
      OBVIOUS
    <3>3. f[m] = IF m = 1 THEN seqs[m] ELSE f[m - 1] \o seqs[m]
      BY <2>1, <3>2, FlattensAt
    <3>4. CASE m = 1
      <4>1. <<>> \in Seq(T) /\ Len(<<>>) = 0 /\ 0 + 1 = 1
        OBVIOUS
      <4>2. Joined(<<>>, seqs, 0)
        BY <1>0, <4>1
      <4>3. Joined(<<>> \o seqs[1], seqs, 0 + 1)
        BY <3>2, <3>4, <4>1, <4>2, JoinOneMore
      <4>4. <<>> \o seqs[1] = seqs[1]
        BY <3>2, <3>4, ConcatEmptySeq
      <4>5. Joined(f[m], seqs, m) /\ f[m] \in Seq(T)
        BY <3>2, <3>3, <3>4, <4>3, <4>4
      <4> QED
        BY <4>5
    <3>5. CASE m # 1
      <4>1. m - 1 \in 1..Len(seqs) /\ m - 1 \notin Bad /\ m - 1 \in Nat /\ (m - 1) + 1 = m
        BY <3>1, <3>5
      <4>2. f[m - 1] \in Seq(T) /\ Joined(f[m - 1], seqs, m - 1)
        BY <4>1
      <4>3. Joined(f[m - 1] \o seqs[m], seqs, m)
        BY <3>2, <4>1, <4>2, JoinOneMore
      <4>4. f[m - 1] \o seqs[m] \in Seq(T)
        BY <3>2, <4>2
      <4>5. Joined(f[m], seqs, m) /\ f[m] \in Seq(T)
        BY <3>3, <3>5, <4>3, <4>4
      <4> QED
        BY <4>5
    <3> QED
      BY <3>4, <3>5
  <2>4. Len(seqs) \in 1..Len(seqs)
    BY <1>2
  <2> QED
    BY <2>2, <2>3, <2>4
<1> QED
  BY <1>1, <1>2

LEMMA UptoIs ==
    ASSUME NEW S, NEW n \in Nat, NEW s
    PROVE  s \in Upto(S, n) <=> s \in Seq(S) /\ Len(s) <= n
<1>1. ASSUME s \in Upto(S, n)
      PROVE  s \in Seq(S) /\ Len(s) <= n
  <2>1. PICK k \in 0..n : s \in [1..k -> S]
    BY <1>1 DEF Upto
  <2> QED
    BY <2>1
<1>2. ASSUME s \in Seq(S), Len(s) <= n
      PROVE  s \in Upto(S, n)
  <2>1. Len(s) \in 0..n /\ s \in [1..Len(s) -> S]
    BY <1>2
  <2> QED
    BY <2>1 DEF Upto
<1> QED
  BY <1>1, <1>2

\* Block b is one of the sequence s.
Among(b, s) == \E i \in DOMAIN s : s[i] = b

LEMMA AmongBoth ==
    ASSUME NEW T, NEW s \in Seq(T), NEW t \in Seq(T), NEW b
    PROVE  Among(b, s \o t) <=> (Among(b, s) \/ Among(b, t))
<1>1. PICK m \in Nat : m = Len(s)
  OBVIOUS
<1>2. PICK n \in Nat : n = Len(t)
  OBVIOUS
<1>3. PICK u : u = s \o t
  OBVIOUS
<1>4. /\ DOMAIN s = 1..m /\ DOMAIN t = 1..n /\ DOMAIN u = 1..m + n
      /\ \A i \in 1..m : u[i] = s[i]
      /\ \A i \in 1..n : u[m + i] = t[i]
  BY <1>1, <1>2, <1>3
<1>5. /\ \A i \in 1..m : i \in 1..m + n
      /\ \A i \in 1..n : m + i \in 1..m + n
      /\ \A i \in 1..m + n : i \in 1..m \/ (i - m \in 1..n /\ m + (i - m) = i)
  OBVIOUS
<1>6. Among(b, s) => Among(b, u)
  BY <1>4, <1>5 DEF Among
<1>7. Among(b, t) => Among(b, u)
  BY <1>4, <1>5 DEF Among
<1>8. Among(b, u) => Among(b, s) \/ Among(b, t)
  <2> SUFFICES ASSUME NEW i \in 1..m + n, u[i] = b
               PROVE  Among(b, s) \/ Among(b, t)
    BY <1>4 DEF Among
  <2>1. CASE i \in 1..m
    BY <1>4, <2>1 DEF Among
  <2>2. CASE i \notin 1..m
    <3>1. PICK k \in 1..n : i = m + k
      BY <1>5, <2>2
    <3>2. k \in DOMAIN t /\ t[k] = b
      BY <1>4, <3>1
    <3> QED
      BY <3>2 DEF Among
  <2> QED
    BY <2>1, <2>2
<1> QED
  BY <1>3, <1>6, <1>7, <1>8

LEMMA AmongJoined ==
    ASSUME NEW T, NEW seqs \in Seq(Seq(T)), NEW b
    PROVE  Among(b, FlattenSeq(seqs)) <=> \E p \in DOMAIN seqs : Among(b, seqs[p])
<1>1. PICK t \in Seq(T) : t = FlattenSeq(seqs)
  BY FlattenJoins
<1>2. PICK piece, place : JoinedAt(t, seqs, Len(seqs), piece, place)
  BY <1>1, FlattenJoins DEF Joined
<1>3. DOMAIN t = 1..Len(t) /\ DOMAIN seqs = 1..Len(seqs)
  OBVIOUS
<1>4. ASSUME Among(b, t)
      PROVE  \E p \in DOMAIN seqs : Among(b, seqs[p])
  <2>1. PICK i \in 1..Len(t) : t[i] = b
    BY <1>3, <1>4 DEF Among
  <2>2. /\ piece[i] \in DOMAIN seqs /\ place[i] \in DOMAIN seqs[piece[i]]
        /\ seqs[piece[i]][place[i]] = b
    BY <1>2, <1>3, <2>1 DEF JoinedAt
  <2> QED
    BY <2>2 DEF Among
<1>5. ASSUME NEW p \in DOMAIN seqs, Among(b, seqs[p])
      PROVE  Among(b, t)
  <2>1. PICK q \in DOMAIN seqs[p] : seqs[p][q] = b
    BY <1>5 DEF Among
  <2>2. PICK i \in 1..Len(t) : piece[i] = p /\ place[i] = q
    BY <1>2, <1>3 DEF JoinedAt
  <2>3. t[i] = b
    BY <1>2, <2>1, <2>2 DEF JoinedAt
  <2> QED
    BY <1>3, <2>3 DEF Among
<1> QED
  BY <1>1, <1>4, <1>5

-----------------------------------------------------------------------------
(* PDF *)

PdfBlock == [kind : {"text", "image", "table"}, at : Nat, n : Nat]

\* The place of a block within its page: the text, then the images.
Within(b) == IF b.kind = "text" THEN 0 ELSE b.n
Earlier(a, b) == \/ a.at < b.at
                 \/ (a.at = b.at /\ Within(a) < Within(b))
InPlaces(s) == \A i, j \in DOMAIN s : i < j => Earlier(s[i], s[j])

LEMMA FirstThen ==
    ASSUME NEW T, NEW s \in Seq(T), NEW t \in Seq(T), InPlaces(s), InPlaces(t),
           \A i \in DOMAIN s, j \in DOMAIN t : Earlier(s[i], t[j])
    PROVE  InPlaces(s \o t)
<1>1. PICK m \in Nat : m = Len(s)
  OBVIOUS
<1>2. PICK n \in Nat : n = Len(t)
  OBVIOUS
<1>3. PICK u : u = s \o t
  OBVIOUS
<1>4. /\ DOMAIN s = 1..m /\ DOMAIN t = 1..n /\ DOMAIN u = 1..m + n
      /\ \A i \in 1..m : u[i] = s[i]
      /\ \A i \in 1..n : u[m + i] = t[i]
  BY <1>1, <1>2, <1>3
<1>5. \A i \in 1..m + n : i \in 1..m \/ \E k \in 1..n : i = m + k
  <2> SUFFICES ASSUME NEW i \in 1..m + n, i \notin 1..m
               PROVE  \E k \in 1..n : i = m + k
    OBVIOUS
  <2>1. i - m \in 1..n /\ i = m + (i - m)
    OBVIOUS
  <2> QED
    BY <2>1
<1>6. ASSUME NEW i \in 1..m + n, NEW j \in 1..m + n, i < j
      PROVE  Earlier(u[i], u[j])
  <2>1. CASE i \in 1..m /\ j \in 1..m
    BY <1>4, <1>6, <2>1 DEF InPlaces
  <2>2. CASE i \in 1..m /\ j \notin 1..m
    <3>1. PICK k \in 1..n : j = m + k
      BY <1>5, <2>2
    <3> QED
      BY <1>4, <2>2, <3>1
  <2>3. CASE i \notin 1..m
    <3>1. PICK k \in 1..n : i = m + k
      BY <1>5, <2>3
    <3>2. j \notin 1..m
      BY <1>6, <3>1
    <3>3. PICK l \in 1..n : j = m + l
      BY <1>5, <3>2
    <3>4. k < l
      BY <1>6, <3>1, <3>3
    <3>5. Earlier(t[k], t[l])
      BY <1>4, <3>4 DEF InPlaces
    <3> QED
      BY <1>4, <3>1, <3>3, <3>5
  <2> QED
    BY <2>1, <2>2, <2>3
<1> QED
  BY <1>3, <1>4, <1>6 DEF InPlaces

\* Pages that follow one another, each in its places.
LEMMA JoinedInPlaces ==
    ASSUME NEW T, NEW seqs \in Seq(Seq(T)),
           \A p \in DOMAIN seqs : InPlaces(seqs[p]) /\ \A q \in DOMAIN seqs[p] : seqs[p][q].at = p
    PROVE  InPlaces(FlattenSeq(seqs))
<1>1. PICK t \in Seq(T) : t = FlattenSeq(seqs)
  BY FlattenJoins
<1>2. PICK piece, place : JoinedAt(t, seqs, Len(seqs), piece, place)
  BY <1>1, FlattenJoins DEF Joined
<1>3. DOMAIN t = 1..Len(t) /\ DOMAIN seqs = 1..Len(seqs)
  OBVIOUS
<1>4. \A i \in 1..Len(t) : /\ piece[i] \in DOMAIN seqs /\ place[i] \in DOMAIN seqs[piece[i]]
                           /\ t[i] = seqs[piece[i]][place[i]] /\ t[i].at = piece[i]
  <2>1. \A i \in 1..Len(t) : /\ piece[i] \in DOMAIN seqs /\ place[i] \in DOMAIN seqs[piece[i]]
                             /\ t[i] = seqs[piece[i]][place[i]]
    BY <1>2, <1>3 DEF JoinedAt
  <2> QED
    BY <2>1
<1>5. ASSUME NEW i \in 1..Len(t), NEW j \in 1..Len(t), i < j
      PROVE  Earlier(t[i], t[j])
  <2>1. \/ piece[i] < piece[j]
        \/ (piece[i] = piece[j] /\ place[i] < place[j])
    BY <1>2, <1>5 DEF JoinedAt
  <2>2. CASE piece[i] < piece[j]
    BY <1>4, <2>2 DEF Earlier
  <2>3. CASE piece[i] = piece[j] /\ place[i] < place[j]
    <3>1. InPlaces(seqs[piece[i]])
      BY <1>4
    <3> QED
      BY <1>4, <2>3, <3>1 DEF InPlaces
  <2> QED
    BY <2>1, <2>2, <2>3
<1> QED
  BY <1>1, <1>3, <1>5 DEF InPlaces

\* The images of a page that were uploaded, in their order.
LEMMA UploadedAre ==
    ASSUME NEW page \in PageType
    PROVE  /\ Uploaded(page) \in Seq(Nat)
           /\ \A i, j \in DOMAIN Uploaded(page) : i < j => Uploaded(page)[i] < Uploaded(page)[j]
           /\ \A n : (\E i \in DOMAIN Uploaded(page) : Uploaded(page)[i] = n)
                        <=> (n \in DOMAIN page.images /\ page.images[n] = "good")
<1>1. page.images \in Seq({"good", "small", "lost"})
  BY UptoIs, ParsingAssumption DEF PageType
<1>2. PICK m \in Nat : m = Len(page.images) /\ DOMAIN page.images = 1..m
  BY <1>1
<1>3. PICK s : s = [i \in 1..m |-> i]
  OBVIOUS
<1>4. /\ s \in Seq(1..m) /\ Len(s) = m /\ DOMAIN s = 1..m
      /\ \A i \in 1..m : s[i] = i
  BY <1>3
<1>5. PICK G : G = {i \in 1..m : page.images[i] = "good"}
  OBVIOUS
<1>6. PICK u : u = Only(s, G)
  OBVIOUS
<1>7. u = Uploaded(page)
  BY <1>2, <1>3, <1>5, <1>6 DEF Uploaded
<1>8. u \in Seq((1..m) \cap G)
  BY <1>4, <1>6, OnlyIsASeq
<1>9. PICK at \in [1..Len(u) -> 1..m] :
        /\ \A i \in 1..Len(u) : u[i] = s[at[i]]
        /\ \A i, j \in 1..Len(u) : i < j => at[i] < at[j]
  BY <1>4, <1>6, OnlyKeepsOrder DEF TakenInOrder
<1>10. \A i, j \in DOMAIN u : i < j => u[i] < u[j]
  BY <1>4, <1>8, <1>9, SMTT(30)
<1>11. ASSUME NEW n \in 1..m, page.images[n] = "good"
       PROVE  \E i \in DOMAIN u : u[i] = n
  <2>1. n \in DOMAIN s /\ s[n] = n /\ s[n] \in G
    BY <1>4, <1>5, <1>11
  <2> QED
    BY <1>4, <1>6, <2>1, OnlyKeepsAll
<1>12. \A i \in DOMAIN u : u[i] \in 1..m /\ page.images[u[i]] = "good"
  BY <1>5, <1>8
<1>13. u \in Seq(Nat)
  BY <1>8
<1> QED
  BY <1>2, <1>7, <1>10, <1>11, <1>12, <1>13

GoodImage(pdf, p, n) ==
    /\ p \in DOMAIN pdf.pages /\ n \in DOMAIN pdf.pages[p].images
    /\ pdf.pages[p].images[n] = "good" /\ ~pdf.unread

LEMMA PagesAre ==
    ASSUME NEW pdf \in PdfType
    PROVE  /\ pdf.pages \in Seq(PageType) /\ Len(pdf.pages) <= Pages /\ pdf.tables \in Nat
           /\ \A p \in DOMAIN pdf.pages : p \in Nat /\ 1 <= p /\ p <= Pages
<1>1. pdf.pages \in Seq(PageType) /\ Len(pdf.pages) <= Pages
  BY UptoIs, ParsingAssumption DEF PdfType
<1>2. pdf.tables \in Nat
  BY DEF PdfType
<1>3. PICK n \in Nat : n = Len(pdf.pages) /\ DOMAIN pdf.pages = 1..n
  BY <1>1
<1>4. \A p \in 1..n : p \in Nat /\ 1 <= p /\ p <= Pages
  <2>1. Pages \in Nat
    BY ParsingAssumption
  <2>2. n <= Pages
    BY <1>1, <1>3
  <2> QED
    BY <2>1, <2>2
<1> QED
  BY <1>1, <1>2, <1>3, <1>4

LEMMA ImagesOfPage ==
    ASSUME NEW pdf \in PdfType, NEW p \in DOMAIN pdf.pages
    PROVE  /\ PageImages(pdf, p) \in Seq(PdfBlock)
           /\ InPlaces(PageImages(pdf, p))
           /\ \A i \in DOMAIN PageImages(pdf, p) :
                 PageImages(pdf, p)[i].at = p /\ PageImages(pdf, p)[i].kind = "image"
           /\ \A n : Among(Block("image", p, n), PageImages(pdf, p)) <=> GoodImage(pdf, p, n)
<1>0. PICK page \in PageType : page = pdf.pages[p] /\ p \in Nat
  BY PagesAre
<1>1. CASE pdf.unread
  <2>1. PageImages(pdf, p) = <<>>
    BY <1>1 DEF PageImages
  <2>2. <<>> \in Seq(PdfBlock) /\ DOMAIN <<>> = {}
    OBVIOUS
  <2> QED
    BY <1>1, <2>1, <2>2 DEF InPlaces, Among, GoodImage
<1>2. CASE ~pdf.unread
  <2>1. PICK u \in Seq(Nat) : u = Uploaded(page)
    BY UploadedAre
  <2>2. PICK s : s = [i \in DOMAIN u |-> Block("image", p, u[i])]
    OBVIOUS
  <2>3. PageImages(pdf, p) = s
    BY <1>0, <1>2, <2>1, <2>2 DEF PageImages
  <2>4. DOMAIN u = 1..Len(u) /\ DOMAIN s = 1..Len(u)
    BY <2>2
  <2>5. \A i \in DOMAIN s : /\ s[i] = Block("image", p, u[i]) /\ u[i] \in Nat
                            /\ s[i] \in PdfBlock
                            /\ s[i].at = p /\ s[i].kind = "image" /\ s[i].n = u[i]
    BY <1>0, <2>2, <2>4 DEF Block, PdfBlock
  <2>6. s \in Seq(PdfBlock)
    BY <2>2, <2>4, <2>5
  <2>7. \A i, j \in DOMAIN s : i < j => u[i] < u[j]
    BY <2>1, <2>4, UploadedAre
  <2>8. InPlaces(s)
    <3>1. ASSUME NEW i \in DOMAIN s, NEW j \in DOMAIN s, i < j
          PROVE  Earlier(s[i], s[j])
      <4>1. Within(s[i]) = u[i] /\ Within(s[j]) = u[j]
        BY <2>5 DEF Within
      <4> QED
        BY <2>5, <2>7, <3>1, <4>1 DEF Earlier
    <3> QED
      BY <3>1 DEF InPlaces
  <2>9. ASSUME NEW n
        PROVE  Among(Block("image", p, n), s) <=> GoodImage(pdf, p, n)
    <3>1. Among(Block("image", p, n), s) <=> \E i \in DOMAIN u : u[i] = n
      BY <2>4, <2>5 DEF Among, Block
    <3>2. (\E i \in DOMAIN u : u[i] = n)
                <=> (n \in DOMAIN page.images /\ page.images[n] = "good")
      BY <2>1, UploadedAre
    <3> QED
      BY <1>0, <1>2, <3>1, <3>2 DEF GoodImage
  <2> QED
    BY <2>3, <2>5, <2>6, <2>8, <2>9
<1> QED
  BY <1>1, <1>2

LEMMA TextOfPage ==
    ASSUME NEW pdf \in PdfType, NEW p \in DOMAIN pdf.pages
    PROVE  /\ PageText(pdf, p) \in Seq(PdfBlock)
           /\ InPlaces(PageText(pdf, p))
           /\ \A i \in DOMAIN PageText(pdf, p) : PageText(pdf, p)[i] = Block("text", p, 0)
           /\ Among(Block("text", p, 0), PageText(pdf, p)) <=> pdf.pages[p].text
<1>0. p \in Nat
  BY PagesAre
<1>1. CASE pdf.pages[p].text
  <2>1. Block("text", p, 0) \in PdfBlock
    BY <1>0 DEF Block, PdfBlock
  <2>2. PageText(pdf, p) = <<Block("text", p, 0)>>
    BY <1>1 DEF PageText
  <2> QED
    BY <1>1, <2>1, <2>2 DEF InPlaces, Among
<1>2. CASE ~pdf.pages[p].text
  <2>1. PageText(pdf, p) = <<>>
    BY <1>2 DEF PageText
  <2>2. <<>> \in Seq(PdfBlock) /\ DOMAIN <<>> = {}
    OBVIOUS
  <2> QED
    BY <1>2, <2>1, <2>2 DEF InPlaces, Among
<1> QED
  BY <1>1, <1>2

\* A page is its text and then its images.
LEMMA PieceOfPage ==
    ASSUME NEW pdf \in PdfType, NEW p \in DOMAIN pdf.pages,
           NEW s, s = PageText(pdf, p) \o PageImages(pdf, p)
    PROVE  /\ s \in Seq(PdfBlock) /\ InPlaces(s)
           /\ \A i \in DOMAIN s : s[i].at = p /\ s[i].kind \in {"text", "image"}
           /\ \A n : Among(Block("image", p, n), s) <=> GoodImage(pdf, p, n)
           /\ pdf.pages[p].text => Among(Block("text", p, 0), s)
<1>1. PICK t \in Seq(PdfBlock) : t = PageText(pdf, p)
  BY TextOfPage
<1>2. PICK m \in Seq(PdfBlock) : m = PageImages(pdf, p)
  BY ImagesOfPage
<1>3. s = t \o m /\ s \in Seq(PdfBlock)
  BY <1>1, <1>2
<1>4. \A i \in DOMAIN t : t[i] = Block("text", p, 0) /\ t[i].at = p /\ t[i].kind = "text"
  <2>1. \A i \in DOMAIN t : t[i] = Block("text", p, 0)
    BY <1>1, TextOfPage
  <2> QED
    BY <2>1 DEF Block
<1>5. \A i \in DOMAIN m : m[i].at = p /\ m[i].kind = "image" /\ m[i] \in PdfBlock
  BY <1>2, ImagesOfPage
<1>6. \A b : Among(b, s) <=> (Among(b, t) \/ Among(b, m))
  BY <1>3, AmongBoth
<1>7. \A i \in DOMAIN s : s[i].at = p /\ s[i].kind \in {"text", "image"}
  <2>1. \A i \in DOMAIN s : Among(s[i], s)
    BY DEF Among
  <2>2. \A i \in DOMAIN s : Among(s[i], t) \/ Among(s[i], m)
    BY <1>6, <2>1
  <2> QED
    BY <1>4, <1>5, <2>2 DEF Among
<1>8. \A n : Among(Block("image", p, n), s) <=> GoodImage(pdf, p, n)
  <2>1. \A n : ~Among(Block("image", p, n), t)
    BY <1>4 DEF Among, Block
  <2> QED
    BY <1>2, <1>6, <2>1, ImagesOfPage
<1>9. pdf.pages[p].text => Among(Block("text", p, 0), s)
  BY <1>1, <1>6, TextOfPage
<1>10. InPlaces(s)
  <2>1. InPlaces(t) /\ InPlaces(m)
    BY <1>1, <1>2, TextOfPage, ImagesOfPage
  <2>2. \A i \in DOMAIN t, j \in DOMAIN m : Earlier(t[i], m[j])
    <3>1. ASSUME NEW i \in DOMAIN t, NEW j \in DOMAIN m
          PROVE  Earlier(t[i], m[j])
      <4>1. m[j].n > 0
        <5>1. m[j] = Block("image", p, m[j].n) /\ Among(m[j], m)
          BY <1>5 DEF Block, Among, PdfBlock
        <5>2. GoodImage(pdf, p, m[j].n)
          BY <1>2, <5>1, ImagesOfPage
        <5>3. pdf.pages[p].images \in Seq({"good", "small", "lost"})
          <6>1. pdf.pages[p] \in PageType
            BY PagesAre
          <6> QED
            BY <6>1, UptoIs, ParsingAssumption DEF PageType
        <5> QED
          BY <5>2, <5>3 DEF GoodImage
      <4>2. m[j].n \in Nat /\ Within(t[i]) = 0 /\ Within(m[j]) = m[j].n
        BY <1>4, <1>5 DEF Within, PdfBlock
      <4> QED
        BY <1>4, <1>5, <4>1, <4>2 DEF Earlier
    <3> QED
      BY <3>1
  <2> QED
    BY <1>3, <2>1, <2>2, FirstThen
<1> QED
  BY <1>3, <1>7, <1>8, <1>9, <1>10

\* What every body of a PDF is.
GoodBody(b, pdf) ==
    /\ b \in Seq(PdfBlock) /\ InPlaces(b)
    /\ \A i \in DOMAIN b : b[i].at <= Pages /\ b[i].kind \in {"text", "image"}
    /\ \A p, n : Among(Block("image", p, n), b) <=> GoodImage(pdf, p, n)
    /\ \A p \in DOMAIN pdf.pages : pdf.pages[p].text =>
          \E at \in {0, p} : Among(Block("text", at, 0), b)

\* Pages whose blocks are known one after another.
LEMMA PagedBody ==
    ASSUME NEW pdf \in PdfType, NEW b,
           b = FlattenSeq([p \in DOMAIN pdf.pages |-> PageText(pdf, p) \o PageImages(pdf, p)])
    PROVE  GoodBody(b, pdf)
<1>1. PICK seqs : seqs = [p \in DOMAIN pdf.pages |-> PageText(pdf, p) \o PageImages(pdf, p)]
  OBVIOUS
<1>2. PICK k \in Nat : DOMAIN pdf.pages = 1..k
  <2>1. pdf.pages \in Seq(PageType)
    BY PagesAre
  <2> QED
    BY <2>1
<1>3. /\ DOMAIN seqs = DOMAIN pdf.pages
      /\ \A p \in DOMAIN pdf.pages : seqs[p] = PageText(pdf, p) \o PageImages(pdf, p)
  BY <1>1
<1>4. \A p \in DOMAIN pdf.pages :
        /\ seqs[p] \in Seq(PdfBlock) /\ InPlaces(seqs[p])
        /\ \A i \in DOMAIN seqs[p] : seqs[p][i].at = p /\ seqs[p][i].kind \in {"text", "image"}
        /\ \A n : Among(Block("image", p, n), seqs[p]) <=> GoodImage(pdf, p, n)
        /\ pdf.pages[p].text => Among(Block("text", p, 0), seqs[p])
  BY <1>3, PieceOfPage
<1>5. seqs \in Seq(Seq(PdfBlock))
  <2>1. \A p \in 1..k : seqs[p] \in Seq(PdfBlock)
    BY <1>2, <1>4
  <2>2. seqs = [p \in 1..k |-> seqs[p]]
    BY <1>1, <1>2
  <2> QED
    BY <2>1, <2>2
<1>6. b = FlattenSeq(seqs) /\ b \in Seq(PdfBlock)
  BY <1>1, <1>5, FlattenJoins
<1>7. InPlaces(b)
  <2>1. \A p \in DOMAIN seqs :
            InPlaces(seqs[p]) /\ \A q \in DOMAIN seqs[p] : seqs[p][q].at = p
    BY <1>3, <1>4
  <2> QED
    BY <1>5, <1>6, <2>1, JoinedInPlaces
<1>8. \A x : Among(x, b) <=> \E p \in DOMAIN pdf.pages : Among(x, seqs[p])
  BY <1>3, <1>5, <1>6, AmongJoined
<1>9. ASSUME NEW i \in DOMAIN b
      PROVE  b[i].at <= Pages /\ b[i].kind \in {"text", "image"}
  <2>1. Among(b[i], b)
    BY DEF Among
  <2>2. PICK p \in DOMAIN pdf.pages : Among(b[i], seqs[p])
    BY <1>8, <2>1
  <2>3. b[i].at = p /\ b[i].kind \in {"text", "image"}
    BY <1>4, <2>2 DEF Among
  <2> QED
    BY <2>3, PagesAre
<1>10. ASSUME NEW p, NEW n
       PROVE  Among(Block("image", p, n), b) <=> GoodImage(pdf, p, n)
  <2>1. ASSUME NEW q \in DOMAIN pdf.pages, Among(Block("image", p, n), seqs[q])
        PROVE  p = q
    <3>1. PICK i \in DOMAIN seqs[q] : seqs[q][i] = Block("image", p, n)
      BY <2>1 DEF Among
    <3>2. seqs[q][i].at = q
      BY <1>4
    <3> QED
      BY <3>1, <3>2 DEF Block
  <2> QED
    BY <1>4, <1>8, <2>1 DEF GoodImage
<1>11. ASSUME NEW p \in DOMAIN pdf.pages, pdf.pages[p].text
       PROVE  \E at \in {0, p} : Among(Block("text", at, 0), b)
  BY <1>4, <1>8, <1>11
<1> QED
  BY <1>6, <1>7, <1>9, <1>10, <1>11 DEF GoodBody

\* Where the pages are not told apart the images follow the whole text.
LEMMA UnpagedBody ==
    ASSUME NEW pdf \in PdfType, NEW b,
           b = (IF \E p \in DOMAIN pdf.pages : pdf.pages[p].text
                THEN <<Block("text", 0, 0)>> ELSE <<>>)
               \o FlattenSeq([p \in DOMAIN pdf.pages |-> PageImages(pdf, p)])
    PROVE  GoodBody(b, pdf)
<1>1. PICK seqs : seqs = [p \in DOMAIN pdf.pages |-> PageImages(pdf, p)]
  OBVIOUS
<1>2. PICK k \in Nat : DOMAIN pdf.pages = 1..k
  <2>1. pdf.pages \in Seq(PageType)
    BY PagesAre
  <2> QED
    BY <2>1
<1>3. /\ DOMAIN seqs = DOMAIN pdf.pages
      /\ \A p \in DOMAIN pdf.pages : seqs[p] = PageImages(pdf, p)
  BY <1>1
<1>4. \A p \in DOMAIN pdf.pages :
        /\ seqs[p] \in Seq(PdfBlock) /\ InPlaces(seqs[p])
        /\ \A i \in DOMAIN seqs[p] : seqs[p][i].at = p /\ seqs[p][i].kind = "image"
        /\ \A n : Among(Block("image", p, n), seqs[p]) <=> GoodImage(pdf, p, n)
  BY <1>3, ImagesOfPage
<1>5. seqs \in Seq(Seq(PdfBlock))
  <2>1. \A p \in 1..k : seqs[p] \in Seq(PdfBlock)
    BY <1>2, <1>4
  <2>2. seqs = [p \in 1..k |-> seqs[p]]
    BY <1>1, <1>2
  <2> QED
    BY <2>1, <2>2
<1>6. PICK m \in Seq(PdfBlock) : m = FlattenSeq(seqs)
  BY <1>5, FlattenJoins
<1>7. InPlaces(m)
  <2>1. \A p \in DOMAIN seqs :
            InPlaces(seqs[p]) /\ \A q \in DOMAIN seqs[p] : seqs[p][q].at = p
    BY <1>3, <1>4
  <2> QED
    BY <1>5, <1>6, <2>1, JoinedInPlaces
<1>8. \A x : Among(x, m) <=> \E p \in DOMAIN pdf.pages : Among(x, seqs[p])
  BY <1>3, <1>5, <1>6, AmongJoined
<1>9. ASSUME NEW i \in DOMAIN m
      PROVE  m[i].at >= 1 /\ m[i].at <= Pages /\ m[i].at \in Nat /\ m[i].kind = "image"
  <2>1. Among(m[i], m)
    BY DEF Among
  <2>2. PICK p \in DOMAIN pdf.pages : Among(m[i], seqs[p])
    BY <1>8, <2>1
  <2>3. m[i].at = p /\ m[i].kind = "image"
    BY <1>4, <2>2 DEF Among
  <2> QED
    BY <2>3, PagesAre
<1>10. ASSUME NEW p, NEW n
       PROVE  Among(Block("image", p, n), m) <=> GoodImage(pdf, p, n)
  <2>1. ASSUME NEW q \in DOMAIN pdf.pages, Among(Block("image", p, n), seqs[q])
        PROVE  p = q
    <3>1. PICK i \in DOMAIN seqs[q] : seqs[q][i] = Block("image", p, n)
      BY <2>1 DEF Among
    <3>2. seqs[q][i].at = q
      BY <1>4
    <3> QED
      BY <3>1, <3>2 DEF Block
  <2> QED
    BY <1>4, <1>8, <2>1 DEF GoodImage
<1>11. PICK t : t = IF \E p \in DOMAIN pdf.pages : pdf.pages[p].text
                    THEN <<Block("text", 0, 0)>> ELSE <<>>
  OBVIOUS
<1>12. /\ t \in Seq(PdfBlock) /\ InPlaces(t)
       /\ \A i \in DOMAIN t : t[i] = Block("text", 0, 0) /\ t[i].at = 0 /\ t[i].kind = "text"
       /\ (\E p \in DOMAIN pdf.pages : pdf.pages[p].text) => Among(Block("text", 0, 0), t)
  <2>1. Block("text", 0, 0) \in PdfBlock
    BY DEF Block, PdfBlock
  <2>2. CASE t = <<Block("text", 0, 0)>>
    BY <2>1, <2>2 DEF InPlaces, Among, Block
  <2>3. CASE t = <<>> /\ ~\E p \in DOMAIN pdf.pages : pdf.pages[p].text
    <3>1. <<>> \in Seq(PdfBlock) /\ DOMAIN <<>> = {}
      OBVIOUS
    <3> QED
      BY <2>3, <3>1 DEF InPlaces
  <2> QED
    BY <1>11, <2>2, <2>3
<1>13. b = t \o m /\ b \in Seq(PdfBlock)
  BY <1>1, <1>6, <1>11, <1>12
<1>14. \A x : Among(x, b) <=> (Among(x, t) \/ Among(x, m))
  <2>1. t \in Seq(PdfBlock) /\ b = t \o m
    BY <1>12, <1>13
  <2>2. m \in Seq(PdfBlock)
    BY <1>6
  <2>3. \A x : Among(x, t \o m) <=> (Among(x, t) \/ Among(x, m))
    BY <2>1, <2>2, AmongBoth
  <2> QED
    BY <2>1, <2>3
<1>15. InPlaces(b)
  <2>1. \A i \in DOMAIN t, j \in DOMAIN m : Earlier(t[i], m[j])
    BY <1>9, <1>12 DEF Earlier
  <2> QED
    BY <1>6, <1>7, <1>12, <1>13, <2>1, FirstThen
<1>16. ASSUME NEW i \in DOMAIN b
       PROVE  b[i].at <= Pages /\ b[i].kind \in {"text", "image"}
  <2>1. Among(b[i], b)
    BY DEF Among
  <2>2. Among(b[i], t) \/ Among(b[i], m)
    BY <1>14, <2>1
  <2>3. CASE Among(b[i], t)
    <3>1. b[i].at = 0 /\ b[i].kind = "text"
      BY <1>12, <2>3 DEF Among
    <3>2. Pages \in Nat
      BY ParsingAssumption
    <3> QED
      BY <3>1, <3>2
  <2>4. CASE Among(b[i], m)
    <3>1. PICK l \in DOMAIN m : m[l] = b[i]
      BY <2>4 DEF Among
    <3> QED
      BY <1>9, <3>1
  <2> QED
    BY <2>2, <2>3, <2>4
<1>17. ASSUME NEW p, NEW n
       PROVE  Among(Block("image", p, n), b) <=> GoodImage(pdf, p, n)
  <2>1. ~Among(Block("image", p, n), t)
    BY <1>12 DEF Among, Block
  <2> QED
    BY <1>10, <1>14, <2>1
<1>18. ASSUME NEW p \in DOMAIN pdf.pages, pdf.pages[p].text
       PROVE  \E at \in {0, p} : Among(Block("text", at, 0), b)
  <2>1. Among(Block("text", 0, 0), b)
    BY <1>12, <1>14, <1>18
  <2> QED
    BY <2>1
<1> QED
  BY <1>13, <1>15, <1>16, <1>17, <1>18 DEF GoodBody

\* What a parsed PDF shows, the tables after everything else.
LEMMA PdfIsInOrder ==
    ASSUME NEW pdf \in PdfType, NEW s, s = ParsePdf(pdf)
    PROVE  /\ s \in Seq(PdfBlock) /\ InPlaces(s)
           /\ \A p, n : Among(Block("image", p, n), s) <=> GoodImage(pdf, p, n)
           /\ \A p \in DOMAIN pdf.pages : pdf.pages[p].text =>
                \E at \in {0, p} : Among(Block("text", at, 0), s)
<1>1. PICK b : b = PdfBody(pdf)
  OBVIOUS
<1>2. GoodBody(b, pdf)
  BY <1>1, PagedBody, UnpagedBody DEF PdfBody
<1>3. PICK k \in Nat : k = IF pdf.drawn THEN 0 ELSE pdf.tables
  BY PagesAre
<1>4. PICK t : t = [i \in 1..k |-> Block("table", Pages + 1, i)]
  OBVIOUS
<1>5. /\ t \in Seq(PdfBlock) /\ DOMAIN t = 1..k
      /\ \A i \in 1..k : t[i].kind = "table" /\ t[i].at = Pages + 1 /\ t[i].n = i
  <2>1. \A i \in 1..k : Block("table", Pages + 1, i) \in PdfBlock
    BY ParsingAssumption DEF Block, PdfBlock
  <2>2. t \in Seq(PdfBlock) /\ DOMAIN t = 1..k
    BY <1>4, <2>1
  <2> QED
    BY <1>4, <2>2 DEF Block
<1>6. s = b \o t
  <2>1. CASE pdf.drawn
    <3>1. t = <<>>
      <4>1. Len(t) = 0
        BY <1>3, <1>5, <2>1
      <4> QED
        BY <1>5, <4>1, EmptySeq
    <3> QED
      BY <1>1, <2>1, <3>1 DEF ParsePdf
  <2>2. CASE ~pdf.drawn
    BY <1>1, <1>3, <1>4, <2>2 DEF ParsePdf, Blocks
  <2> QED
    BY <2>1, <2>2
<1>7. \A x : Among(x, s) <=> (Among(x, b) \/ Among(x, t))
  BY <1>2, <1>5, <1>6, AmongBoth DEF GoodBody
<1>8. InPlaces(s)
  <2>1. InPlaces(t)
    BY <1>5 DEF InPlaces, Earlier, Within
  <2>2. ASSUME NEW i \in DOMAIN b, NEW j \in DOMAIN t
        PROVE  Earlier(b[i], t[j])
    <3>0. b[i] \in PdfBlock
      BY <1>2 DEF GoodBody
    <3>1. b[i].at <= Pages /\ b[i].at \in Nat /\ t[j].at = Pages + 1
      BY <1>2, <1>5, <3>0 DEF GoodBody, PdfBlock
    <3> QED
      BY <3>1, ParsingAssumption DEF Earlier
  <2>3. b \in Seq(PdfBlock) /\ t \in Seq(PdfBlock) /\ InPlaces(b)
    BY <1>2, <1>5 DEF GoodBody
  <2> QED
    BY <1>6, <2>1, <2>2, <2>3, FirstThen
<1>9. ASSUME NEW p, NEW n
      PROVE  Among(Block("image", p, n), s) <=> GoodImage(pdf, p, n)
  <2>1. ~Among(Block("image", p, n), t)
    BY <1>5 DEF Among, Block
  <2> QED
    BY <1>2, <1>7, <2>1 DEF GoodBody
<1>10. ASSUME NEW p \in DOMAIN pdf.pages, pdf.pages[p].text
       PROVE  \E at \in {0, p} : Among(Block("text", at, 0), s)
  BY <1>2, <1>7, <1>10 DEF GoodBody
<1>11. s \in Seq(PdfBlock)
  BY <1>2, <1>5, <1>6 DEF GoodBody
<1> QED
  BY <1>8, <1>9, <1>10, <1>11

\* The order, images and texts of a parsed PDF, as the property reads them.
LEMMA PdfKeepsOrder ==
    ASSUME file \in PdfType, markdown = ParsePdf(file)
    PROVE  PdfInOrder
<1> DEFINE place(b) == <<b.at, IF b.kind = "text" THEN 0 ELSE b.n>>
           before(a, b) == a[1] < b[1] \/ (a[1] = b[1] /\ a[2] < b[2])
           good(p, i) == p \in DOMAIN file.pages /\ i \in DOMAIN file.pages[p].images
                             /\ file.pages[p].images[i] = "good" /\ ~file.unread
           wanted == {at \in (1..Pages) \X (1..Images) : good(at[1], at[2])}
<1>1. /\ markdown \in Seq(PdfBlock) /\ InPlaces(markdown)
      /\ \A p, n : Among(Block("image", p, n), markdown) <=> GoodImage(file, p, n)
      /\ \A p \in DOMAIN file.pages : file.pages[p].text =>
           \E at \in {0, p} : Among(Block("text", at, 0), markdown)
  BY PdfIsInOrder
<1>2. \A i, j \in DOMAIN markdown : i < j => before(place(markdown[i]), place(markdown[j]))
  BY <1>1 DEF InPlaces, Earlier, Within
<1>3. \A p, i : GoodImage(file, p, i) <=> good(p, i)
  BY DEF GoodImage
<1>4. \A p, i : good(p, i) => p \in 1..Pages /\ i \in 1..Images
  <2> SUFFICES ASSUME NEW p, NEW i, good(p, i)
               PROVE  p \in 1..Pages /\ i \in 1..Images
    OBVIOUS
  <2>1. /\ file.pages \in Seq(PageType) /\ p \in DOMAIN file.pages
        /\ p \in Nat /\ 1 <= p /\ p <= Pages
    BY PagesAre
  <2>2. file.pages[p] \in PageType
    BY <2>1
  <2>3. /\ file.pages[p].images \in Seq({"good", "small", "lost"})
        /\ Len(file.pages[p].images) <= Images
    BY <2>2, UptoIs, ParsingAssumption DEF PageType
  <2>4. i \in 1..Len(file.pages[p].images) /\ Images \in Nat /\ Pages \in Nat
    BY <2>3, ParsingAssumption
  <2> QED
    BY <2>1, <2>3, <2>4
<1>5. {place(markdown[i]) : i \in Is("image")} = wanted
  <2>1. ASSUME NEW i \in Is("image")
        PROVE  place(markdown[i]) \in wanted
    <3>1. i \in DOMAIN markdown /\ markdown[i].kind = "image" /\ markdown[i] \in PdfBlock
      BY <1>1 DEF Is
    <3>2. markdown[i] = Block("image", markdown[i].at, markdown[i].n)
      BY <3>1 DEF Block, PdfBlock
    <3>3. good(markdown[i].at, markdown[i].n)
      BY <1>1, <1>3, <3>1, <3>2 DEF Among
    <3>4. place(markdown[i]) = <<markdown[i].at, markdown[i].n>>
      BY <3>1
    <3> HIDE DEF good
    <3> QED
      BY <1>4, <3>3, <3>4
  <2>2. ASSUME NEW w \in wanted
        PROVE  \E i \in Is("image") : place(markdown[i]) = w
    <3>1. PICK p \in 1..Pages, n \in 1..Images : w = <<p, n>>
      OBVIOUS
    <3>2. Among(Block("image", p, n), markdown)
      BY <1>1, <1>3, <3>1
    <3>3. PICK i \in DOMAIN markdown : markdown[i] = Block("image", p, n)
      BY <3>2 DEF Among
    <3>4. i \in Is("image") /\ place(markdown[i]) = w
      BY <3>1, <3>3 DEF Is, Block
    <3> QED
      BY <3>4
  <2> HIDE DEF wanted, place
  <2> QED
    BY <2>1, <2>2
<1>6. ASSUME NEW p \in DOMAIN file.pages, file.pages[p].text
      PROVE  \E i \in Is("text") : markdown[i].at \in {0, p}
  <2>1. PICK at \in {0, p} : Among(Block("text", at, 0), markdown)
    BY <1>1, <1>6
  <2>2. PICK i \in DOMAIN markdown : markdown[i] = Block("text", at, 0)
    BY <2>1 DEF Among
  <2> QED
    BY <2>2 DEF Is, Block
<1> QED
  BY <1>2, <1>5, <1>6 DEF PdfInOrder

-----------------------------------------------------------------------------
(* PPTX *)

PptxBlock == [kind : {"slide", "table", "title", "line"}, at : Nat, n : Nat \cup Seq({"a", "b", "c"})]

\* The slides are taken in the order of their numbers, each once.
LEMMA PathsAre ==
    ASSUME NEW deck \in PptxType
    PROVE  /\ SlidePaths(deck) \in Seq(DOMAIN deck.slides)
           /\ \A s \in DOMAIN deck.slides : s \in Nat /\ deck.slides[s] \in SlideType
           /\ \A i, j \in DOMAIN SlidePaths(deck) : i < j => SlidePaths(deck)[i] < SlidePaths(deck)[j]
           /\ \A s \in DOMAIN deck.slides : \E i \in DOMAIN SlidePaths(deck) : SlidePaths(deck)[i] = s
<1>1. PICK N \in SUBSET SlideNumbers : deck.slides \in [N -> SlideType]
  BY DEF PptxType
<1>2. DOMAIN deck.slides = N /\ \A s \in N : s \in Nat /\ deck.slides[s] \in SlideType
  BY <1>1, ParsingAssumption
<1>3. IsFiniteSet(N)
  BY ParsingAssumption, FS_Subset
<1>4. PICK c \in Nat : c = Cardinality(N)
  BY <1>3, FS_CardinalityType
<1>5. PICK R \in SUBSET (N \X N) : R = {w \in N \X N : w[1] < w[2]}
  OBVIOUS
<1>6. \A r, s \in N : <<r, s>> \in R <=> r < s
  BY <1>5
<1>7. \A s \in N : {r \in N : <<r, s>> \in R} = {r \in N : r < s}
  BY <1>6
<1>8. /\ IsFiniteSet(N) /\ R \in SUBSET (N \X N)
      /\ \A r \in N : <<r, r>> \notin R
      /\ \A r, s, t \in N : <<r, s>> \in R /\ <<s, t>> \in R => <<r, t>> \in R
      /\ \A r, s \in N : r = s \/ <<r, s>> \in R \/ <<s, r>> \in R
  BY <1>2, <1>3, <1>5, <1>6
<1> DEFINE before(s) == {r \in N : <<r, s>> \in R}
           count(s) == Cardinality(before(s))
           NumberOf(s) == Cardinality({r \in N : r < s})
<1>9. /\ \A s \in N : count(s) \in 0..Cardinality(N) - 1
      /\ \A r, s \in N : <<r, s>> \in R => count(r) < count(s)
      /\ \A n \in 1..Cardinality(N) : \E s \in N : count(s) = n - 1
  BY <1>8, CountedOrder, ZenonT(40)
<1>10. /\ \A s \in N : NumberOf(s) \in 0..c - 1
       /\ \A r, s \in N : r < s => NumberOf(r) < NumberOf(s)
       /\ \A n \in 1..c : \E s \in N : NumberOf(s) = n - 1
  <2>1. \A s \in N : count(s) = NumberOf(s)
    BY <1>7
  <2> HIDE DEF count, NumberOf
  <2> QED
    BY <1>4, <1>6, <1>9, <2>1
<1> HIDE DEF NumberOf
<1>11. PICK p : p = [n \in 1..c |-> CHOOSE s \in N : NumberOf(s) = n - 1]
  OBVIOUS
<1>12. p = SlidePaths(deck)
  BY <1>2, <1>4, <1>11 DEF SlidePaths, NumberOf
<1>13. \A n \in 1..c : p[n] \in N /\ NumberOf(p[n]) = n - 1
  BY <1>10, <1>11
<1>14. p \in Seq(N) /\ DOMAIN p = 1..c
  BY <1>11, <1>13
<1>15. ASSUME NEW i \in 1..c, NEW j \in 1..c, i < j
       PROVE  p[i] < p[j]
  <2>1. p[i] \in Nat /\ p[j] \in Nat /\ p[i] # p[j]
    BY <1>2, <1>13, <1>15
  <2>2. ~(p[j] < p[i])
    BY <1>10, <1>13, <1>15
  <2> QED
    BY <2>1, <2>2
<1>16. ASSUME NEW s \in N
       PROVE  \E i \in 1..c : p[i] = s
  <2>1. PICK i \in 1..c : i = NumberOf(s) + 1
    BY <1>10
  <2>2. NumberOf(p[i]) = NumberOf(s) /\ p[i] \in N
    BY <1>10, <1>13, <2>1
  <2>3. ~(p[i] < s) /\ ~(s < p[i])
    BY <1>10, <2>2
  <2> QED
    BY <1>2, <2>2, <2>3
<1> QED
  BY <1>2, <1>12, <1>14, <1>15, <1>16

Texts == {"a", "b", "c"}

LEMMA AmongIsRange == ASSUME NEW b, NEW s PROVE Among(b, s) <=> b \in Range(s)
BY DEF Among, Range

LEMMA SlidePartsAre ==
    ASSUME NEW slide \in SlideType
    PROVE  /\ slide.titles \in Seq(Seq(Texts)) /\ slide.others \in Seq(Texts)
           /\ slide.tables \in Nat
<1>1. slide.titles \in Seq({<<"a">>, <<"b">>, <<"a", "b">>}) /\ slide.others \in Seq({"a", "c"})
  BY UptoIs DEF SlideType
<1>2. slide.tables \in Nat
  BY DEF SlideType
<1>3. <<"a">> \in Seq(Texts) /\ <<"b">> \in Seq(Texts) /\ <<"a", "b">> \in Seq(Texts)
  BY DEF Texts
<1>4. slide.titles \in Seq(Seq(Texts))
  <2>1. PICK S : S = {<<"a">>, <<"b">>, <<"a", "b">>}
    OBVIOUS
  <2>2. PICK Q : Q = Seq(Texts)
    OBVIOUS
  <2>3. S \subseteq Q /\ slide.titles \in Seq(S)
    BY <1>1, <1>3, <2>1, <2>2
  <2>4. slide.titles \in Seq(Q)
    BY <2>3
  <2> QED
    BY <2>2, <2>4
<1>5. slide.others \in Seq(Texts)
  BY <1>1 DEF Texts
<1> QED
  BY <1>2, <1>4, <1>5

LEMMA ParagraphsAre ==
    ASSUME NEW slide \in SlideType
    PROVE  /\ Paragraphs(slide) \in Seq(Texts)
           /\ \A t : Among(t, Paragraphs(slide)) <=>
                \/ \E i \in DOMAIN slide.titles : Among(t, slide.titles[i])
                \/ Among(t, slide.others)
<1>1. PICK p \in Seq(Texts) : p = FlattenSeq(slide.titles)
  BY SlidePartsAre, FlattenJoins
<1>2. \A t : Among(t, p) <=> \E i \in DOMAIN slide.titles : Among(t, slide.titles[i])
  BY <1>1, SlidePartsAre, AmongJoined
<1>3. PICK o \in Seq(Texts) : o = slide.others
  BY SlidePartsAre
<1>4. Paragraphs(slide) = p \o o /\ p \o o \in Seq(Texts)
  BY <1>1, <1>3 DEF Paragraphs
<1>5. \A t : Among(t, p \o o) <=> (Among(t, p) \/ Among(t, o))
  BY <1>1, <1>3, AmongBoth
<1> QED
  BY <1>2, <1>3, <1>4, <1>5

\* A paragraph that is the whole of a title is not among the lines.
LEMMA LinesAre ==
    ASSUME NEW slide \in SlideType, NEW lines,
           lines = Only(Paragraphs(slide),
                        {t \in {"a", "b", "c"} : <<t>> \notin Range(slide.titles)})
    PROVE  /\ lines \in Seq(Texts)
           /\ \A t : Among(t, lines) <=>
                Among(t, Paragraphs(slide)) /\ ~Among(<<t>>, slide.titles)
<1>1. PICK p \in Seq(Texts) : p = Paragraphs(slide)
  BY ParagraphsAre
<1>2. PICK S : S = {t \in Texts : <<t>> \notin Range(slide.titles)}
  OBVIOUS
<1>3. lines = Only(p, S)
  BY <1>1, <1>2 DEF Texts
<1>4. lines \in Seq(Texts \cap S)
  BY <1>3, OnlyIsASeq
<1>5. \A t : t \in S <=> t \in Texts /\ ~Among(<<t>>, slide.titles)
  BY <1>2, AmongIsRange
<1>6. ASSUME NEW t, Among(t, lines)
      PROVE  Among(t, p) /\ t \in S
  <2>1. PICK i \in DOMAIN lines : lines[i] = t
    BY <1>6 DEF Among
  <2>2. t \in S
    BY <1>4, <2>1
  <2>3. PICK at \in [1..Len(lines) -> 1..Len(p)] : \A k \in 1..Len(lines) : lines[k] = p[at[k]]
    <3>1. TakenInOrder(lines, p, Len(p))
      BY <1>1, <1>3, OnlyKeepsOrder
    <3> QED
      BY <3>1 DEF TakenInOrder
  <2>4. i \in 1..Len(lines)
    BY <1>4
  <2>5. at[i] \in DOMAIN p /\ p[at[i]] = t
    BY <2>1, <2>3, <2>4
  <2> QED
    BY <2>2, <2>5 DEF Among
<1>7. ASSUME NEW t, Among(t, p), ~Among(<<t>>, slide.titles)
      PROVE  Among(t, lines)
  <2>1. PICK j \in DOMAIN p : p[j] = t
    BY <1>7 DEF Among
  <2>2. t \in Texts
    BY <2>1
  <2>3. p[j] \in S
    BY <1>5, <1>7, <2>1, <2>2
  <2>4. PICK i \in DOMAIN Only(p, S) : Only(p, S)[i] = p[j]
    BY <2>3, OnlyKeepsAll
  <2> QED
    BY <1>3, <2>1, <2>4 DEF Among
<1>8. lines \in Seq(Texts)
  BY <1>4
<1> QED
  BY <1>1, <1>5, <1>6, <1>7, <1>8

\* A line of a slide is one of its paragraphs that is not the whole of a title.
LineOf(b, slide, at) ==
    \E t : /\ b = Block("line", at, <<t>>)
           /\ Among(t, Paragraphs(slide)) /\ ~Among(<<t>>, slide.titles)

\* The blocks of a slide: its number, its tables, its titles and its lines.
LEMMA SlideIs ==
    ASSUME NEW slide \in SlideType, NEW at \in Nat, NEW s, s = Slide(slide, at)
    PROVE  /\ s \in Seq(PptxBlock)
           /\ \A i \in DOMAIN s : s[i].at = at
           /\ \A b : b.kind = "title" =>
                (Among(b, s) <=> \E n : b = Block("title", at, n) /\ Among(n, slide.titles))
           /\ \A b : b.kind = "line" => (Among(b, s) <=> LineOf(b, slide, at))
<1>1. PICK lines : lines = Only(Paragraphs(slide),
                                {t \in {"a", "b", "c"} : <<t>> \notin Range(slide.titles)})
  OBVIOUS
<1>2. /\ lines \in Seq(Texts)
      /\ \A t : Among(t, lines) <=>
            Among(t, Paragraphs(slide)) /\ ~Among(<<t>>, slide.titles)
  BY <1>1, LinesAre
<1>3. PICK titles \in Seq(Seq(Texts)) : titles = slide.titles
  BY SlidePartsAre
<1>4. PICK A : A = <<Block("slide", at, 0)>>
  OBVIOUS
<1>5. PICK k \in Nat : k = slide.tables
  BY SlidePartsAre
<1>6. PICK B : B = [i \in 1..k |-> Block("table", at, i)]
  OBVIOUS
<1>7. PICK C : C = [i \in DOMAIN titles |-> Block("title", at, titles[i])]
  OBVIOUS
<1>8. PICK D : D = [i \in DOMAIN lines |-> Block("line", at, <<lines[i]>>)]
  OBVIOUS
<1>9. s = ((A \o B) \o C) \o D
  BY <1>1, <1>3, <1>4, <1>5, <1>6, <1>7, <1>8 DEF Slide, Blocks
<1>10. /\ A \in Seq(PptxBlock)
       /\ \A b : Among(b, A) => b.kind = "slide" /\ b.at = at
  <2>1. Block("slide", at, 0) \in PptxBlock
    BY DEF Block, PptxBlock
  <2>2. A \in Seq(PptxBlock) /\ \A i \in DOMAIN A : A[i] = Block("slide", at, 0)
    BY <1>4, <2>1
  <2> QED
    BY <2>2 DEF Among, Block
<1>11. /\ B \in Seq(PptxBlock)
       /\ \A b : Among(b, B) => b.kind = "table" /\ b.at = at
  <2>1. \A i \in 1..k : Block("table", at, i) \in PptxBlock
    BY DEF Block, PptxBlock
  <2>2. B \in Seq(PptxBlock) /\ \A i \in DOMAIN B : B[i] = Block("table", at, i)
    BY <1>6, <2>1
  <2> QED
    BY <2>2 DEF Among, Block
<1>12. /\ C \in Seq(PptxBlock)
       /\ \A b : Among(b, C) <=> \E n : b = Block("title", at, n) /\ Among(n, titles)
  <2>1. \A n \in Seq(Texts) : Block("title", at, n) \in PptxBlock
    BY DEF Block, PptxBlock, Texts
  <2>2. DOMAIN titles = 1..Len(titles) /\ \A i \in DOMAIN titles : titles[i] \in Seq(Texts)
    OBVIOUS
  <2>3. C \in Seq(PptxBlock)
    BY <1>7, <2>1, <2>2
  <2>4. DOMAIN C = DOMAIN titles /\ \A i \in DOMAIN C : C[i] = Block("title", at, titles[i])
    BY <1>7
  <2>5. \A b : Among(b, C) => \E n : b = Block("title", at, n) /\ Among(n, titles)
    BY <2>4 DEF Among
  <2>6. \A n : Among(n, titles) => Among(Block("title", at, n), C)
    BY <2>4 DEF Among
  <2> QED
    BY <2>3, <2>5, <2>6
<1>13. /\ D \in Seq(PptxBlock)
       /\ \A b : Among(b, D) <=> \E t : b = Block("line", at, <<t>>) /\ Among(t, lines)
  <2>1. \A t \in Texts : Block("line", at, <<t>>) \in PptxBlock
    <3>1. \A t \in Texts : <<t>> \in Seq(Texts)
      OBVIOUS
    <3> QED
      BY <3>1 DEF Block, PptxBlock, Texts
  <2>2. DOMAIN lines = 1..Len(lines) /\ \A i \in DOMAIN lines : lines[i] \in Texts
    BY <1>2
  <2>3. D \in Seq(PptxBlock)
    BY <1>8, <2>1, <2>2
  <2>4. DOMAIN D = DOMAIN lines /\ \A i \in DOMAIN D : D[i] = Block("line", at, <<lines[i]>>)
    BY <1>8
  <2>5. \A b : Among(b, D) => \E t : b = Block("line", at, <<t>>) /\ Among(t, lines)
    BY <2>4 DEF Among
  <2>6. \A t : Among(t, lines) => Among(Block("line", at, <<t>>), D)
    BY <2>4 DEF Among
  <2> QED
    BY <2>3, <2>5, <2>6
<1>14. /\ s \in Seq(PptxBlock)
       /\ \A b : Among(b, s) <=> (Among(b, A) \/ Among(b, B) \/ Among(b, C) \/ Among(b, D))
  <2>1. PICK u \in Seq(PptxBlock) : u = A \o B
    <3>1. A \o B \in Seq(PptxBlock)
      BY <1>10, <1>11
    <3> QED
      BY <3>1
  <2>2. PICK v \in Seq(PptxBlock) : v = u \o C
    <3>1. u \o C \in Seq(PptxBlock)
      BY <1>12
    <3> QED
      BY <3>1
  <2>3. s = v \o D /\ s \in Seq(PptxBlock)
    BY <1>9, <1>13, <2>1, <2>2
  <2>4. \A b : Among(b, u) <=> (Among(b, A) \/ Among(b, B))
    BY <1>10, <1>11, <2>1, AmongBoth
  <2>5. \A b : Among(b, v) <=> (Among(b, u) \/ Among(b, C))
    BY <1>12, <2>2, AmongBoth
  <2>6. \A b : Among(b, s) <=> (Among(b, v) \/ Among(b, D))
    BY <1>13, <2>3, AmongBoth
  <2> QED
    BY <2>3, <2>4, <2>5, <2>6
<1>15. \A n : Block("title", at, n).kind = "title" /\ Block("title", at, n).at = at
              /\ Block("line", at, n).kind = "line" /\ Block("line", at, n).at = at
  BY DEF Block
<1>16. \A i \in DOMAIN s : s[i].at = at
  <2>1. \A i \in DOMAIN s : Among(s[i], s)
    BY DEF Among
  <2>2. \A b : Among(b, A) \/ Among(b, B) \/ Among(b, C) \/ Among(b, D) => b.at = at
    <3>1. \A b : Among(b, C) => b.at = at
      BY <1>12, <1>15
    <3>2. \A b : Among(b, D) => b.at = at
      BY <1>13, <1>15
    <3> QED
      BY <1>10, <1>11, <3>1, <3>2
  <2> QED
    BY <1>14, <2>1, <2>2
<1>17. ASSUME NEW b, b.kind = "title"
       PROVE  Among(b, s) <=> \E n : b = Block("title", at, n) /\ Among(n, slide.titles)
  BY <1>3, <1>10, <1>11, <1>12, <1>13, <1>14, <1>15, <1>17
<1>18. ASSUME NEW b, b.kind = "line"
       PROVE  Among(b, s) <=> LineOf(b, slide, at)
  BY <1>2, <1>10, <1>11, <1>12, <1>13, <1>14, <1>15, <1>18 DEF LineOf
<1> QED
  BY <1>14, <1>16, <1>17, <1>18

\* What a parsed slide deck shows.
LEMMA DeckKeepsOrder ==
    ASSUME file \in PptxType, markdown = ParsePptx(file)
    PROVE  SlidesInOrder /\ markdown \in Seq(PptxBlock)
<1>1. PICK paths : paths = SlidePaths(file)
  OBVIOUS
<1>2. /\ paths \in Seq(DOMAIN file.slides)
      /\ \A s \in DOMAIN file.slides : s \in Nat /\ file.slides[s] \in SlideType
      /\ \A i, j \in DOMAIN paths : i < j => paths[i] < paths[j]
      /\ \A s \in DOMAIN file.slides : \E i \in DOMAIN paths : paths[i] = s
  BY <1>1, PathsAre
<1>3. PICK k \in Nat : DOMAIN paths = 1..k
  BY <1>2
<1>4. PICK seqs : seqs = [i \in DOMAIN paths |-> Slide(file.slides[paths[i]], paths[i])]
  OBVIOUS
<1>5. /\ DOMAIN seqs = DOMAIN paths
      /\ \A i \in DOMAIN paths : /\ paths[i] \in DOMAIN file.slides
                                 /\ paths[i] \in Nat /\ file.slides[paths[i]] \in SlideType
                                 /\ seqs[i] = Slide(file.slides[paths[i]], paths[i])
  BY <1>2, <1>4
<1>6. \A i \in DOMAIN paths :
        /\ seqs[i] \in Seq(PptxBlock)
        /\ \A q \in DOMAIN seqs[i] : seqs[i][q].at = paths[i]
        /\ \A b : b.kind = "title" =>
             (Among(b, seqs[i]) <=>
                \E n : b = Block("title", paths[i], n) /\ Among(n, file.slides[paths[i]].titles))
        /\ \A b : b.kind = "line" =>
             (Among(b, seqs[i]) <=> LineOf(b, file.slides[paths[i]], paths[i]))
  <2> SUFFICES ASSUME NEW i \in DOMAIN paths
               PROVE  /\ seqs[i] \in Seq(PptxBlock)
                      /\ \A q \in DOMAIN seqs[i] : seqs[i][q].at = paths[i]
                      /\ \A b : b.kind = "title" =>
                           (Among(b, seqs[i]) <=>
                              \E n : /\ b = Block("title", paths[i], n)
                                     /\ Among(n, file.slides[paths[i]].titles))
                      /\ \A b : b.kind = "line" =>
                           (Among(b, seqs[i]) <=> LineOf(b, file.slides[paths[i]], paths[i]))
    BY Zenon
  <2>1. PICK slide \in SlideType : slide = file.slides[paths[i]]
    BY <1>5
  <2>2. PICK at \in Nat : at = paths[i]
    BY <1>5
  <2>3. PICK s : s = seqs[i]
    OBVIOUS
  <2>4. s = Slide(slide, at)
    BY <1>5, <2>1, <2>2, <2>3
  <2>5. /\ s \in Seq(PptxBlock)
        /\ \A q \in DOMAIN s : s[q].at = at
        /\ \A b : b.kind = "title" =>
             (Among(b, s) <=> \E n : b = Block("title", at, n) /\ Among(n, slide.titles))
        /\ \A b : b.kind = "line" => (Among(b, s) <=> LineOf(b, slide, at))
    BY <2>1, <2>2, <2>4, SlideIs, SMTT(30)
  <2> QED
    BY <2>1, <2>2, <2>3, <2>5
<1>7. seqs \in Seq(Seq(PptxBlock))
  <2>1. \A i \in 1..k : seqs[i] \in Seq(PptxBlock)
    BY <1>3, <1>6
  <2>2. seqs = [i \in 1..k |-> seqs[i]]
    BY <1>3, <1>4
  <2> QED
    BY <2>1, <2>2
<1>8. markdown = FlattenSeq(seqs)
  BY <1>1, <1>4 DEF ParsePptx
<1>9. markdown \in Seq(PptxBlock) /\ Joined(markdown, seqs, Len(seqs))
  BY <1>7, <1>8, FlattenJoins
<1>10. \A b : Among(b, markdown) <=> \E i \in DOMAIN paths : Among(b, seqs[i])
  BY <1>5, <1>7, <1>8, AmongJoined
<1>11. \A i, j \in DOMAIN markdown : i < j => markdown[i].at <= markdown[j].at
  <2>1. PICK piece, place : JoinedAt(markdown, seqs, Len(seqs), piece, place)
    BY <1>9 DEF Joined
  <2>2. DOMAIN markdown = 1..Len(markdown) /\ 1..Len(seqs) = DOMAIN paths
    BY <1>5, <1>7, <1>9
  <2>3. \A i \in DOMAIN markdown : /\ piece[i] \in DOMAIN paths
                                   /\ place[i] \in DOMAIN seqs[piece[i]]
                                   /\ markdown[i] = seqs[piece[i]][place[i]]
    BY <2>1, <2>2 DEF JoinedAt
  <2>4. \A i \in DOMAIN markdown : markdown[i].at = paths[piece[i]] /\ paths[piece[i]] \in Nat
    BY <1>5, <1>6, <2>3
  <2>5. \A i, j \in DOMAIN markdown : i < j => piece[i] < piece[j] \/ piece[i] = piece[j]
    BY <2>1, <2>2 DEF JoinedAt
  <2> QED
    BY <1>2, <2>3, <2>4, <2>5
\* The title and line blocks of a slide.
<1>12. ASSUME NEW s \in DOMAIN file.slides, NEW n
       PROVE  (\E i \in Is("title") : markdown[i].at = s /\ markdown[i].n = n)
                 <=> Among(n, file.slides[s].titles)
  <2>1. (\E i \in Is("title") : markdown[i].at = s /\ markdown[i].n = n)
            <=> Among(Block("title", s, n), markdown)
    <3>1. \A i \in DOMAIN markdown : markdown[i] \in PptxBlock
      BY <1>9
    <3>2. \A i \in DOMAIN markdown :
            (markdown[i].kind = "title" /\ markdown[i].at = s /\ markdown[i].n = n)
                <=> markdown[i] = Block("title", s, n)
      BY <3>1 DEF Block, PptxBlock
    <3> QED
      BY <3>2 DEF Is, Among
  <2>2. Block("title", s, n).kind = "title" /\ Block("title", s, n).at = s
        /\ Block("title", s, n).n = n
    BY DEF Block
  <2>3. \A q, m : Block("title", s, n) = Block("title", q, m) => q = s /\ m = n
    BY DEF Block
  <2>4. PICK i \in DOMAIN paths : paths[i] = s
    BY <1>2
  <2> QED
    BY <1>6, <1>10, <2>1, <2>2, <2>3, <2>4
<1>13. ASSUME NEW s \in DOMAIN file.slides, NEW n
       PROVE  (\E i \in Is("line") : markdown[i].at = s /\ markdown[i].n = n)
                 <=> \E t : /\ n = <<t>> /\ Among(t, Paragraphs(file.slides[s]))
                            /\ ~Among(<<t>>, file.slides[s].titles)
  <2>1. (\E i \in Is("line") : markdown[i].at = s /\ markdown[i].n = n)
            <=> Among(Block("line", s, n), markdown)
    <3>1. \A i \in DOMAIN markdown : markdown[i] \in PptxBlock
      BY <1>9
    <3>2. \A i \in DOMAIN markdown :
            (markdown[i].kind = "line" /\ markdown[i].at = s /\ markdown[i].n = n)
                <=> markdown[i] = Block("line", s, n)
      BY <3>1 DEF Block, PptxBlock
    <3> QED
      BY <3>2 DEF Is, Among
  <2>2. Block("line", s, n).kind = "line"
    BY DEF Block
  <2>3. \A q, m : Block("line", s, n) = Block("line", q, m) => q = s /\ m = n
    BY DEF Block
  <2>4. PICK i \in DOMAIN paths : paths[i] = s
    BY <1>2
  <2>5. Among(Block("line", s, n), markdown)
            => \E t : /\ n = <<t>> /\ Among(t, Paragraphs(file.slides[s]))
                      /\ ~Among(<<t>>, file.slides[s].titles)
    <3> SUFFICES ASSUME Among(Block("line", s, n), markdown)
                 PROVE  \E t : /\ n = <<t>> /\ Among(t, Paragraphs(file.slides[s]))
                               /\ ~Among(<<t>>, file.slides[s].titles)
      OBVIOUS
    <3>1. PICK j \in DOMAIN paths : Among(Block("line", s, n), seqs[j])
      BY <1>10
    <3>2. PICK t : /\ Block("line", s, n) = Block("line", paths[j], <<t>>)
                   /\ Among(t, Paragraphs(file.slides[paths[j]]))
                   /\ ~Among(<<t>>, file.slides[paths[j]].titles)
      BY <1>6, <2>2, <3>1 DEF LineOf
    <3>3. paths[j] = s /\ n = <<t>>
      BY <2>3, <3>2
    <3> QED
      BY <3>2, <3>3
  <2>6. ASSUME NEW t, n = <<t>>, Among(t, Paragraphs(file.slides[s])),
               ~Among(<<t>>, file.slides[s].titles)
        PROVE  Among(Block("line", s, n), markdown)
    <3>1. Among(Block("line", s, n), seqs[i])
      BY <1>6, <2>2, <2>4, <2>6 DEF LineOf
    <3> QED
      BY <1>10, <3>1
  <2> QED
    BY <2>1, <2>5, <2>6
<1>14. ASSUME NEW s \in DOMAIN file.slides, NEW t \in {"a", "b", "c"}
       PROVE  LET in(kind) == \E i \in Is(kind) : markdown[i].at = s /\ t \in Range(markdown[i].n)
              IN  t \in Range(Paragraphs(file.slides[s])) <=> in("title") \/ in("line")
  <2> DEFINE in(kind) == \E i \in Is(kind) : markdown[i].at = s /\ t \in Range(markdown[i].n)
  <2>1. PICK slide \in SlideType : slide = file.slides[s]
    BY <1>2
  <2>10. \A kind : in(kind) <=>
           \E n : (\E i \in Is(kind) : markdown[i].at = s /\ markdown[i].n = n) /\ Among(t, n)
    BY AmongIsRange
  <2> HIDE DEF in
  <2>11. \A n : (\E i \in Is("title") : markdown[i].at = s /\ markdown[i].n = n)
                  <=> Among(n, slide.titles)
    BY <1>12, <2>1
  <2>12. \A n : (\E i \in Is("line") : markdown[i].at = s /\ markdown[i].n = n)
                  <=> \E u : /\ n = <<u>> /\ Among(u, Paragraphs(slide))
                             /\ ~Among(<<u>>, slide.titles)
    <3>1. \A n : (\E i \in Is("line") : markdown[i].at = s /\ markdown[i].n = n)
                    <=> \E u : /\ n = <<u>> /\ Among(u, Paragraphs(file.slides[s]))
                               /\ ~Among(<<u>>, file.slides[s].titles)
      BY <1>13
    <3> QED
      BY <2>1, <3>1
  <2>2. in("title") <=> \E n : Among(n, slide.titles) /\ Among(t, n)
    BY <2>10, <2>11
  <2>3. in("line") <=> \E u : /\ Among(u, Paragraphs(slide)) /\ ~Among(<<u>>, slide.titles)
                              /\ Among(t, <<u>>)
    BY <2>10, <2>12
  <2>4. \A u : Among(t, <<u>>) <=> t = u
    BY DEF Among
  <2>5. Among(t, Paragraphs(slide)) <=>
            \/ \E n : Among(n, slide.titles) /\ Among(t, n)
            \/ Among(t, slide.others)
    <3>1. (\E n : Among(n, slide.titles) /\ Among(t, n))
              <=> \E i \in DOMAIN slide.titles : Among(t, slide.titles[i])
      BY DEF Among
    <3> QED
      BY <3>1, ParagraphsAre
  <2>6. in("title") => Among(t, Paragraphs(slide))
    BY <2>2, <2>5
  <2>7. in("line") => Among(t, Paragraphs(slide))
    BY <2>3, <2>4
  <2>8. Among(t, Paragraphs(slide)) => in("title") \/ in("line")
    <3>1. CASE Among(<<t>>, slide.titles)
      BY <2>2, <2>4, <3>1
    <3>2. CASE ~Among(<<t>>, slide.titles)
      BY <2>3, <2>4, <3>2
    <3> QED
      BY <3>1, <3>2
  <2>9. t \in Range(Paragraphs(slide)) <=> in("title") \/ in("line")
    BY <2>6, <2>7, <2>8, AmongIsRange
  <2> QED
    BY <2>1, <2>9 DEF in
<1>15. ASSUME NEW i \in Is("title"), NEW j \in Is("line"), markdown[i].at = markdown[j].at
       PROVE  markdown[i].n # markdown[j].n
  <2>1. i \in DOMAIN markdown /\ Among(markdown[i], markdown)
    BY DEF Is, Among
  <2>2. markdown[i].at \in DOMAIN file.slides
    <3>1. PICK q \in DOMAIN paths : Among(markdown[i], seqs[q])
      BY <1>10, <2>1
    <3>2. markdown[i].at = paths[q]
      BY <1>6, <3>1 DEF Among
    <3> QED
      BY <1>5, <3>2
  <2>3. Among(markdown[i].n, file.slides[markdown[i].at].titles)
    BY <1>12, <2>2
  <2>4. ~Among(markdown[j].n, file.slides[markdown[i].at].titles)
    <3>1. j \in Is("line") /\ markdown[j].at = markdown[i].at
      BY <1>15
    <3>2. PICK t : /\ markdown[j].n = <<t>>
                   /\ ~Among(<<t>>, file.slides[markdown[i].at].titles)
      BY <1>13, <2>2, <3>1
    <3> QED
      BY <3>2
  <2> QED
    BY <2>3, <2>4
<1>16. SlidesInOrder
  BY <1>11, <1>14, <1>15 DEF SlidesInOrder
<1> QED
  BY <1>9, <1>16

-----------------------------------------------------------------------------
(* XLSX *)

\* The longest row gives the sheet its width.
LEMMA WidthIs ==
    ASSUME NEW rows \in Seq(Upto(Cells, Cols))
    PROVE  /\ Width(rows) \in Nat
           /\ \A r \in DOMAIN rows : rows[r] \in Seq(Cells) /\ Len(rows[r]) <= Width(rows)
<1> DEFINE Wide(w) == /\ \A r \in DOMAIN rows : Len(rows[r]) <= w
                      /\ w # 0 => \E r \in DOMAIN rows : Len(rows[r]) = w
           Enough == {w \in Nat : \A r \in DOMAIN rows : Len(rows[r]) <= w}
<1>0. Cols \in Nat
  BY ParsingAssumption
<1>1. \A r \in DOMAIN rows : /\ rows[r] \in Seq(Cells) /\ Len(rows[r]) \in Nat
                             /\ Len(rows[r]) <= Cols
  <2> SUFFICES ASSUME NEW r \in DOMAIN rows
               PROVE  rows[r] \in Seq(Cells) /\ Len(rows[r]) \in Nat /\ Len(rows[r]) <= Cols
    OBVIOUS
  <2>1. rows[r] \in Upto(Cells, Cols)
    OBVIOUS
  <2>2. rows[r] \in Seq(Cells) /\ Len(rows[r]) <= Cols
    BY <1>0, <2>1, UptoIs
  <2> QED
    BY <2>2
<1>2. Cols \in Enough
  BY <1>0, <1>1
<1>3. PICK w \in Enough : \A v \in Enough : w <= v
  BY <1>2, LeastNatural
<1>4. w \in 0..Cols
  BY <1>0, <1>2, <1>3
<1>5. ASSUME w # 0
      PROVE  \E r \in DOMAIN rows : Len(rows[r]) = w
  <2>1. w - 1 \in Nat /\ w - 1 \notin Enough
    <3>1. w \in Nat
      BY <1>4, <1>0
    <3> HIDE DEF Enough
    <3>2. ~(w <= w - 1)
      BY <3>1
    <3> QED
      BY <1>3, <1>5, <3>1, <3>2
  <2>2. PICK r \in DOMAIN rows : ~(Len(rows[r]) <= w - 1)
    BY <2>1
  <2>3. Len(rows[r]) <= w /\ Len(rows[r]) \in Nat
    BY <1>1, <1>3
  <2> QED
    BY <2>1, <2>2, <2>3
<1>6. Wide(w)
  BY <1>3, <1>5
<1>7. Width(rows) = CHOOSE v \in 0..Cols : Wide(v)
  BY DEF Width
<1>8. Width(rows) \in 0..Cols /\ Wide(Width(rows))
  <2> HIDE DEF Wide
  <2> QED
    BY <1>4, <1>6, <1>7
<1> QED
  BY <1>0, <1>1, <1>8

\* What a parsed sheet shows.
LEMMA SheetKeepsTable ==
    ASSUME file \in XlsxType, markdown = ParseXlsx(file)
    PROVE  /\ SheetIsTable
           /\ \A i \in DOMAIN markdown : DOMAIN markdown[i] = {"kind", "at", "n"}
<1>1. PICK all \in Seq(Upto(Cells, Cols)) : all = file.rows
  <2>1. file.rows \in Upto(Upto(Cells, Cols), Rows)
    BY DEF XlsxType
  <2>2. file.rows \in Seq(Upto(Cells, Cols))
    BY <2>1, UptoIs, ParsingAssumption
  <2> QED
    BY <2>2
<1>2. PICK S : S = Upto(Cells, Cols) \ {<<>>}
  OBVIOUS
<1>3. PICK rows : rows = Only(all, S)
  OBVIOUS
<1>4. rows \in Seq(Upto(Cells, Cols))
  <2>1. rows \in Seq(Upto(Cells, Cols) \cap S)
    BY <1>3, OnlyIsASeq
  <2> QED
    BY <2>1
<1>5. PICK W \in Nat : W = Width(rows)
  BY <1>4, WidthIs
<1> DEFINE shown(row) == [c \in 1..W |-> IF c <= Len(row) THEN CellToString(row[c]) ELSE ""]
<1>6. PICK B : B = [i \in DOMAIN rows |-> Block("row", i, shown(rows[i]))]
  OBVIOUS
<1>7. PICK A : A = <<Block("sheet", 0, 0)>>
  OBVIOUS
<1>8. markdown = A \o B
  BY <1>1, <1>2, <1>3, <1>5, <1>6, <1>7 DEF ParseXlsx
<1>9. PICK T : T = {Block("sheet", 0, 0)} \cup {Block("row", i, shown(rows[i])) : i \in DOMAIN rows}
  OBVIOUS
<1> HIDE DEF shown
<1>10. A \in Seq(T) /\ A = <<Block("sheet", 0, 0)>>
  BY <1>7, <1>9
<1>11. PICK k \in Nat : DOMAIN rows = 1..k
  BY <1>4
<1>12. B \in Seq(T) /\ DOMAIN B = DOMAIN rows
  BY <1>6, <1>9, <1>11
<1>13. markdown \in Seq(T)
  BY <1>8, <1>10, <1>12
<1>14. \A b : Among(b, markdown) <=> (Among(b, A) \/ Among(b, B))
  <2>1. A \in Seq(T) /\ B \in Seq(T)
    BY <1>10, <1>12
  <2> QED
    BY <1>8, <2>1, AmongBoth
<1>15. \A i \in DOMAIN markdown : DOMAIN markdown[i] = {"kind", "at", "n"}
  <2>1. \A b \in T : DOMAIN b = {"kind", "at", "n"}
    BY <1>9 DEF Block
  <2> QED
    BY <1>13, <2>1
<1>16. ASSUME NEW i \in Is("row")
       PROVE  Len(markdown[i].n) = W
  <2>1. markdown[i] \in T /\ markdown[i].kind = "row"
    BY <1>13 DEF Is
  <2>2. PICK r \in DOMAIN rows : markdown[i] = Block("row", r, shown(rows[r]))
    BY <1>9, <2>1 DEF Block
  <2>3. markdown[i].n = shown(rows[r])
    BY <2>2 DEF Block
  <2>4. PICK s : s = shown(rows[r])
    OBVIOUS
  <2>5. s = [c \in 1..W |-> s[c]]
    BY <2>4 DEF shown
  <2>6. PICK V : V = {s[c] : c \in 1..W}
    OBVIOUS
  <2>7. s \in [1..W -> V]
    BY <2>5, <2>6
  <2>8. s \in Seq(V) /\ Len(s) = W
    BY <2>7
  <2> QED
    BY <2>3, <2>4, <2>8
<1>17. ASSUME NEW r \in DOMAIN all, all[r] # <<>>
       PROVE  \E i \in Is("row") : \A c \in DOMAIN all[r] :
                  markdown[i].n[c] = CellToString(all[r][c])
  <2>1. all[r] \in S
    BY <1>2, <1>17
  <2>2. PICK q \in DOMAIN rows : rows[q] = all[r]
    BY <1>3, <2>1, OnlyKeepsAll
  <2>3. Among(Block("row", q, shown(rows[q])), markdown)
    BY <1>6, <1>12, <1>14 DEF Among
  <2>4. PICK i \in DOMAIN markdown : markdown[i] = Block("row", q, shown(rows[q]))
    BY <2>3 DEF Among
  <2>5. i \in Is("row") /\ markdown[i].n = shown(rows[q])
    BY <2>4 DEF Is, Block
  <2>6. rows[q] \in Seq(Cells) /\ Len(rows[q]) <= W
    BY <1>4, <1>5, WidthIs
  <2>7. ASSUME NEW c \in DOMAIN rows[q]
        PROVE  shown(rows[q])[c] = CellToString(rows[q][c])
    <3>1. c \in 1..W /\ c <= Len(rows[q])
      BY <2>6
    <3> QED
      BY <3>1 DEF shown
  <2> QED
    BY <2>2, <2>5, <2>7
<1>18. SheetIsTable
  BY <1>1, <1>16, <1>17 DEF SheetIsTable
<1> QED
  BY <1>15, <1>18

-----------------------------------------------------------------------------
\* A file that has been parsed was supported, and shows what its parser made.
ParsingInv ==
    /\ file \in PdfType \cup PptxType \cup XlsxType \cup OtherType
    /\ parsed \in {"no", "yes", "refused"}
    /\ markdown # <<>> => markdown = Markdown
    /\ parsed = "yes" => markdown # <<>>

LEMMA ParsingInvInit == ParsingInit => ParsingInv
BY DEF ParsingInit, ParsingInv

LEMMA ParsingInvNext == ParsingInv /\ [ParsingNext]_parsingVars => ParsingInv'
<1> SUFFICES ASSUME ParsingInv, [ParsingNext]_parsingVars
             PROVE  ParsingInv'
  OBVIOUS
<1>1. CASE Parse
  <2>1. file' = file /\ (markdown' = Markdown \/ markdown' = <<>>)
    BY <1>1 DEF Parse
  <2>2. Markdown' = Markdown
    BY <2>1 DEF Markdown
  <2>3. parsed' \in {"yes", "refused"} /\ (parsed' = "yes" => markdown' # <<>>)
    BY <1>1 DEF Parse
  <2> QED
    BY <2>1, <2>2, <2>3 DEF ParsingInv
<1>2. CASE UNCHANGED parsingVars
  <2>1. file' = file /\ markdown' = markdown /\ parsed' = parsed
    BY <1>2 DEF parsingVars
  <2>2. Markdown' = Markdown
    BY <2>1 DEF Markdown
  <2> QED
    BY <2>1, <2>2 DEF ParsingInv
<1> QED
  BY <1>1, <1>2 DEF ParsingNext

LEMMA ParsingIsGood == ParsingInv => ParsingTypeOK /\ ParsedInOrder
<1> SUFFICES ASSUME ParsingInv
             PROVE  ParsingTypeOK /\ ParsedInOrder
  OBVIOUS
<1>0. /\ file \in PdfType => file.format = "pdf"
      /\ file \in PptxType => file.format = "pptx"
      /\ file \in XlsxType => file.format = "xlsx"
      /\ file \in OtherType => file.format \notin {"pdf", "pptx", "xlsx"}
      /\ file \in PdfType \cup PptxType \cup XlsxType \cup OtherType
  BY DEF ParsingInv, PdfType, PptxType, XlsxType, OtherType
<1>1. CASE markdown = <<>>
  <2>1. DOMAIN <<>> = {} /\ parsed # "yes" /\ parsed \in {"no", "yes", "refused"}
    BY <1>1 DEF ParsingInv
  <2> QED
    BY <1>1, <2>1 DEF ParsingTypeOK, ParsedInOrder
<1>2. CASE markdown # <<>>
  <2>0. markdown = Markdown /\ parsed \in {"no", "yes", "refused"}
    BY <1>2 DEF ParsingInv
  <2>1. CASE file \in PdfType
    <3>1. markdown = ParsePdf(file)
      BY <1>0, <2>0, <2>1 DEF Markdown
    <3>2. PdfInOrder /\ markdown \in Seq(PdfBlock)
      BY <2>1, <3>1, PdfKeepsOrder, PdfIsInOrder
    <3>3. \A i \in DOMAIN markdown : DOMAIN markdown[i] = {"kind", "at", "n"}
      <4>1. \A b \in PdfBlock : DOMAIN b = {"kind", "at", "n"}
        BY DEF PdfBlock
      <4> QED
        BY <3>2, <4>1
    <3> QED
      BY <1>0, <2>0, <2>1, <3>2, <3>3 DEF ParsingTypeOK, ParsedInOrder
  <2>2. CASE file \in PptxType
    <3>1. markdown = ParsePptx(file)
      BY <1>0, <2>0, <2>2 DEF Markdown
    <3>2. SlidesInOrder /\ markdown \in Seq(PptxBlock)
      BY <2>2, <3>1, DeckKeepsOrder
    <3>3. \A i \in DOMAIN markdown : DOMAIN markdown[i] = {"kind", "at", "n"}
      <4>1. \A b \in PptxBlock : DOMAIN b = {"kind", "at", "n"}
        BY DEF PptxBlock
      <4> QED
        BY <3>2, <4>1
    <3> QED
      BY <1>0, <2>0, <2>2, <3>2, <3>3 DEF ParsingTypeOK, ParsedInOrder
  <2>3. CASE file \in XlsxType
    <3>1. markdown = ParseXlsx(file)
      BY <1>0, <2>0, <2>3 DEF Markdown
    <3> QED
      BY <1>0, <2>0, <2>3, <3>1, SheetKeepsTable DEF ParsingTypeOK, ParsedInOrder
  <2>4. CASE file \in OtherType
    <3>1. markdown = ParseOther(file)
      BY <1>0, <2>0, <2>4 DEF Markdown
    <3>2. markdown = <<Block("text", 0, 0)>>
      BY <1>2, <3>1 DEF ParseOther
    <3>3. \A i \in DOMAIN markdown : DOMAIN markdown[i] = {"kind", "at", "n"}
      BY <3>2 DEF Block
    <3> QED
      BY <1>0, <2>0, <2>4, <3>3 DEF ParsingTypeOK, ParsedInOrder
  <2> QED
    BY <1>0, <2>1, <2>2, <2>3, <2>4
<1> QED
  BY <1>1, <1>2

LEMMA ParsingStaysGood ==
    ParsingInit /\ [][ParsingNext]_parsingVars => [](ParsingTypeOK /\ ParsedInOrder)
BY ParsingInvInit, ParsingInvNext, ParsingIsGood, PTL

-----------------------------------------------------------------------------
(***************************************************************************)
(* The services side by side.  A step is one of a single service, and leaves *)
(* the others as they are: what holds of a service alone holds of it here.   *)
(***************************************************************************)

LEMMA EachStarts ==
    Init => /\ AccountsInit /\ RolesInit /\ TeamsInit
            /\ ParsingInit /\ ChunkInit /\ RetrievalInit
BY DEF Init

LEMMA EachGoesOn ==
    [Next]_<<part, accountsVars, rolesVars, teamsVars, parsingVars, chunkVars, retrievalVars>> =>
        /\ [AccountsNext]_accountsVars /\ [RolesNext]_rolesVars /\ [TeamsNext]_teamsVars
        /\ [ParsingNext]_parsingVars /\ [ChunkNext]_chunkVars
        /\ [RetrievalNext]_retrievalVars
BY DEF Next

\* Rows, requests, chunks and results stay of their types: a row that was
\* loaded is saved as the row of someone, a permission that is granted is in
\* its table, a chunk lies in its text.
THEOREM ServicesTypeCorrect == Spec => []ServicesTypeOK
<1>1. AccountsTypeOK /\ RolesTypeOK /\ TeamsTypeOK /\ ParsingTypeOK /\ ChunkTypeOK
        /\ RetrievalTypeOK => ServicesTypeOK
  BY DEF ServicesTypeOK
<1> QED
  BY <1>1, EachStarts, EachGoesOn, AccountsStayTyped, RolesStayTyped, TeamsStayTyped,
     ParsingStaysGood, ChunksStayTyped, SearchStaysTyped, PTL DEF Spec

\* However requests overlap, links expire and an administrator changes rows,
\* who registered to be activated by mail is let in only after opening the
\* link that was mailed.
THEOREM ActivationNeedsLink == Spec => []ActivationByLink
BY EachStarts, EachGoesOn, AccountsByLink, PTL DEF Spec

\* Requests that do not overlap leave accounts with different names, a code
\* that reset one password, and users with the permissions last asked for
\* their roles; what is loaded for a user opens no handler to anybody but an
\* administrator.
THEOREM TurnsTakeEffect == Spec => []RequestsTakeEffect
<1>1. AccountsInTurn /\ (PermissionsInTurn /\ OnlyAdminsPass) => RequestsTakeEffect
  BY DEF RequestsTakeEffect
<1> QED
  BY <1>1, EachStarts, EachGoesOn, AccountsTakeTurns, RolesTakeTurns, PTL DEF Spec

\* Whatever parents the clients gave their teams, getTree ends, and shows no
\* team twice and none below one that is disabled or gone.
THEOREM TreeAlwaysFinite == Spec => []TreeIsFinite
BY TreeEnds, PTL

\* What is written for a document covers its text without a gap, whatever the
\* size and the overlap of the chunks and the order the answers come in, each
\* chunk with its own vector.
THEOREM AlwaysIndexedWhole == Spec => []IndexedWhole
BY EachStarts, EachGoesOn, ChunksStayWhole, PTL DEF Spec

\* Fusion and reranking show each chunk at most once, none that was not found,
\* and none behind a chunk that it is ahead of in every channel.
THEOREM SearchAlwaysOrdered == Spec => []SearchKeepsOrder
BY EachStarts, EachGoesOn, SearchesKeepOrder, PTL DEF Spec

\* What is made of a file keeps the order of its pages, slides and cells, and
\* loses none of them, whichever images fail and however ragged the rows are.
THEOREM ParsedAlwaysInOrder == Spec => []ParsedInOrder
BY EachStarts, EachGoesOn, ParsingStaysGood, PTL DEF Spec
=============================================================================
