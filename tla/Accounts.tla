------------------------------ MODULE Accounts ------------------------------
(***************************************************************************)
(* Registration, activation by mail, login, password reset and user          *)
(* administration: AuthService with EmailActivationService (links in Redis), *)
(* PasswordResetService (codes in memory) and UserService (rows of kh_user). *)
(* A request takes a step per database or mail call, and the row it loaded   *)
(* is saved whole.  Passwords are left out: who logs in knows the password.  *)
(* The second Redis key of a link, email:activation:user, is read only when  *)
(* a link is made for a user who has one, which no caller asks for.          *)
(***************************************************************************)
EXTENDS Naturals, FiniteSets

CONSTANTS
    Users,      \* ids of accounts, given out once
    Names,      \* user names
    Calls,      \* requests under way at a time
    MaxCodes    \* bound: reset codes made

ASSUME AccountsAssumption == MaxCodes \in Nat

VARIABLES
    accounts,   \* the row of each user, NoRow before it is inserted
    links,      \* users with a live activation link
    code,       \* the reset code of the one mail address: [number, age]
    calls,      \* what each request is doing
    tokens,     \* the kinds of JWT each user holds that have not expired
    alone,      \* whether no two requests overlap and none is cut short
    post,       \* what arrived by mail: links (of users) and code numbers
    awaited,    \* history: users registered to be activated by mail
    opened,     \* history: users whose link was consumed
    resets      \* history: how many passwords each code has reset

accountsVars == <<accounts, links, code, calls, tokens, alone, post, awaited, opened, resets>>

\* mail: the row has the mail address, which several rows may have.  What a
\* row marked deleted holds is never read again.
RowType == [name : Names, mail : BOOLEAN, status : 0..1, verified : 0..1, deleted : {FALSE}]
NoRow == [deleted |-> TRUE, inserted |-> FALSE]
Removed == [deleted |-> TRUE, inserted |-> TRUE]
Idle == [op |-> "idle"]

\* A code is cooling for 60 s and valid for 10 min; then it is as good as none.
Ages == {"none", "cooling", "valid"}

Live(u) == ~accounts[u].deleted
NameTaken(n) == \E u \in Users : Live(u) /\ accounts[u].name = n
ByMail == {u \in Users : Live(u) /\ accounts[u].mail}

AccountsTypeOK ==
    /\ \A u \in Users : accounts[u] \in RowType \cup {NoRow, Removed}
    /\ links \subseteq Users
    /\ code \in [number : 0..MaxCodes, age : Ages]
    /\ tokens \in [Users -> SUBSET {"access", "refresh"}]
    /\ post \in [links : SUBSET Users, codes : SUBSET (1..MaxCodes)]
    /\ \A c \in Calls : "row" \in DOMAIN calls[c] =>
           calls[c].user \in Users /\ calls[c].row \in RowType \cup {Removed}

AccountsInit ==
    /\ accounts = [u \in Users |-> NoRow]
    /\ links = {}
    /\ code = [number |-> 0, age |-> "none"]
    /\ calls = [c \in Calls |-> Idle]
    /\ tokens = [u \in Users |-> {}]
    /\ alone \in BOOLEAN
    /\ post = [links |-> {}, codes |-> {}]
    /\ awaited = {} /\ opened = {} /\ resets = [n \in 1..MaxCodes |-> 0]

-----------------------------------------------------------------------------
MayStart(c) == calls[c] = Idle /\ (alone => \A d \in Calls : calls[d] = Idle)
Go(c, state) == calls' = [calls EXCEPT ![c] = state]
Put(u, row) == accounts' = [accounts EXCEPT ![u] = row]

\* The name is looked up, then the password is hashed.  An administrator may
\* create a user (create), or register one without activation; REQUIRE_EMAIL_
\* VERIFICATION asks those who register themselves for an address.
FindName(c) ==
    /\ MayStart(c)
    /\ \E n \in Names, kind \in {"create", "register", "activated"}, mail \in BOOLEAN :
        /\ ~NameTaken(n)
        /\ kind = "activated" => mail
        /\ Go(c, [op |-> "insert", kind |-> kind, name |-> n, mail |-> mail])
    /\ UNCHANGED <<accounts, links, code, tokens, alone, post, awaited, opened, resets>>

\* create leaves emailVerified to its default.
NewRow(kind, name, mail) ==
    [name |-> name, mail |-> mail, deleted |-> FALSE,
     status |-> IF kind = "activated" THEN 0 ELSE 1,
     verified |-> IF kind = "register" THEN 1 ELSE 0]

Insert(c) ==
    LET call == calls[c] IN
    /\ call.op = "insert"
    /\ \E u \in Users :
        /\ accounts[u] = NoRow
        /\ Put(u, NewRow(call.kind, call.name, call.mail))
        /\ IF call.kind = "activated"
           THEN awaited' = awaited \cup {u} /\ Go(c, [op |-> "link", user |-> u])
           ELSE awaited' = awaited /\ Go(c, Idle)
    /\ UNCHANGED <<links, code, tokens, alone, post, opened, resets>>

CreateToken(c) ==
    /\ calls[c].op = "link"
    /\ links' = links \cup {calls[c].user}
    /\ Go(c, [calls[c] EXCEPT !.op = "mail"])
    /\ UNCHANGED <<accounts, code, tokens, alone, post, awaited, opened, resets>>

\* A mail that fails has its link deleted.
SendActivation(c) ==
    /\ calls[c].op = "mail"
    /\ \/ post' = [post EXCEPT !.links = @ \cup {calls[c].user}] /\ Go(c, Idle)
       \/ post' = post /\ Go(c, [calls[c] EXCEPT !.op = "unlink"])
    /\ UNCHANGED <<accounts, links, code, tokens, alone, awaited, opened, resets>>

DeleteByToken(c) ==
    /\ calls[c].op = "unlink"
    /\ links' = links \ {calls[c].user}
    /\ Go(c, Idle)
    /\ UNCHANGED <<accounts, code, tokens, alone, post, awaited, opened, resets>>

-----------------------------------------------------------------------------
(* verifyEmail *)

ReadToken(c) ==
    /\ MayStart(c)
    /\ \E u \in post.links \cap links : Go(c, [op |-> "consume", user |-> u])
    /\ UNCHANGED <<accounts, links, code, tokens, alone, post, awaited, opened, resets>>

ConsumeToken(c) ==
    /\ calls[c].op = "consume"
    /\ links' = links \ {calls[c].user}
    /\ opened' = opened \cup {calls[c].user}
    /\ Go(c, [calls[c] EXCEPT !.op = "activate"])
    /\ UNCHANGED <<accounts, code, tokens, alone, post, awaited, resets>>

\* An unknown user is refused, an active one told so.
FindForActivation(c) ==
    LET u == calls[c].user IN
    /\ calls[c].op = "activate"
    /\ IF Live(u) /\ accounts[u].verified = 0
       THEN Go(c, [op |-> "save", user |-> u,
                   row |-> [accounts[u] EXCEPT !.verified = 1, !.status = 1]])
       ELSE Go(c, Idle)
    /\ UNCHANGED <<accounts, links, code, tokens, alone, post, awaited, opened, resets>>

-----------------------------------------------------------------------------
(* updateUser and deleteUser *)

Changed(row) == {[row EXCEPT !.status = s] : s \in 0..1}
                    \cup {[row EXCEPT !.mail = TRUE], Removed}

FindForChange(c) ==
    /\ MayStart(c)
    /\ \E u \in Users : /\ Live(u)
                        /\ \E row \in Changed(accounts[u]) \ {accounts[u]} :
                             Go(c, [op |-> "save", user |-> u, row |-> row])
    /\ UNCHANGED <<accounts, links, code, tokens, alone, post, awaited, opened, resets>>

Save(c) ==
    /\ calls[c].op = "save"
    /\ Put(calls[c].user, calls[c].row)
    /\ Go(c, Idle)
    /\ UNCHANGED <<links, code, tokens, alone, post, awaited, opened, resets>>

-----------------------------------------------------------------------------
(* Login and JWT *)

\* Mutant: the address need not be verified when the account is enabled
CanLogin_Enabled(u) == Live(u) /\ accounts[u].status = 1

CanLogin(u) == Live(u) /\ accounts[u].verified = 1 /\ accounts[u].status = 1

Login(u) ==
    /\ CanLogin(u)
    /\ tokens' = [tokens EXCEPT ![u] = {"access", "refresh"}]
    /\ UNCHANGED <<accounts, links, code, calls, alone, post, awaited, opened, resets>>

\* buildAuthUser, for a refresh and for every request that is not public.
Admitted(u, kind) == kind \in tokens[u] /\ Live(u) /\ accounts[u].status = 1

Refresh(u) ==
    /\ Admitted(u, "refresh")
    /\ tokens' = [tokens EXCEPT ![u] = {"access", "refresh"}]
    /\ UNCHANGED <<accounts, links, code, calls, alone, post, awaited, opened, resets>>

-----------------------------------------------------------------------------
(* Password reset *)

AskCode(c) ==
    /\ MayStart(c)
    /\ code.age # "cooling"
    /\ Go(c, [op |-> "code", known |-> ByMail # {}])
    /\ UNCHANGED <<accounts, links, code, tokens, alone, post, awaited, opened, resets>>

\* Codes are random: different numbers stand for different codes.
SetCode(c) ==
    /\ calls[c].op = "code" /\ code.number < MaxCodes
    /\ code' = [number |-> code.number + 1, age |-> "cooling"]
    /\ \/ post' = [post EXCEPT !.codes = @ \cup {code.number + 1}] /\ calls[c].known
       \/ post' = post      \* nobody to send it to, or the mail failed
    /\ Go(c, Idle)
    /\ UNCHANGED <<accounts, links, tokens, alone, awaited, opened, resets>>

\* A code is verified, and a row with the address loaded: any, if several.
VerifyCode(c) ==
    /\ MayStart(c)
    /\ code.number \in post.codes /\ code.age \in {"cooling", "valid"}
    /\ \E u \in ByMail : Go(c, [op |-> "reset", user |-> u, row |-> accounts[u],
                                code |-> code.number])
    /\ UNCHANGED <<accounts, links, code, tokens, alone, post, awaited, opened, resets>>

ResetPassword(c) ==
    /\ calls[c].op = "reset"
    /\ Put(calls[c].user, calls[c].row)
    /\ resets' = [resets EXCEPT ![calls[c].code] = IF @ < 2 THEN @ + 1 ELSE 2]
    /\ Go(c, [op |-> "forget"])
    /\ UNCHANGED <<links, code, tokens, alone, post, awaited, opened>>

\* Mutant: the code stays valid until it expires
DeleteCode_Stays(c) ==
    /\ calls[c].op = "forget"
    /\ Go(c, Idle)
    /\ UNCHANGED <<accounts, links, code, tokens, alone, post, awaited, opened, resets>>

DeleteCode(c) ==
    /\ calls[c].op = "forget"
    /\ code' = [code EXCEPT !.age = "none"]
    /\ Go(c, Idle)
    /\ UNCHANGED <<accounts, links, tokens, alone, post, awaited, opened, resets>>

-----------------------------------------------------------------------------
(* Time passes: codes age, links and tokens expire, an access token (2 h)   *)
(* before the refresh token (7 d) made with it.                             *)
Expire ==
    /\ \/ /\ code.age \in {"cooling", "valid"}
          /\ code' = [code EXCEPT !.age = IF @ = "cooling" THEN "valid" ELSE "none"]
          /\ UNCHANGED <<links, tokens>>
       \/ /\ \E u \in links : links' = links \ {u}
          /\ UNCHANGED <<code, tokens>>
       \/ /\ \E u \in Users :
                /\ tokens[u] # {}
                /\ tokens' = [tokens EXCEPT ![u] = IF "access" \in @ THEN {"refresh"} ELSE {}]
          /\ UNCHANGED <<code, links>>
    /\ UNCHANGED <<accounts, calls, alone, post, awaited, opened, resets>>

\* A restart forgets the code and the requests; links are in Redis.
Restart ==
    /\ alone => \A c \in Calls : calls[c] = Idle
    /\ code' = [code EXCEPT !.age = "none"]
    /\ calls' = [c \in Calls |-> Idle]
    /\ UNCHANGED <<accounts, links, tokens, alone, post, awaited, opened, resets>>

AccountsNext ==
    \/ \E c \in Calls :
        \/ FindName(c) \/ Insert(c) \/ CreateToken(c) \/ SendActivation(c) \/ DeleteByToken(c)
        \/ ReadToken(c) \/ ConsumeToken(c) \/ FindForActivation(c)
        \/ FindForChange(c) \/ Save(c)
        \/ AskCode(c) \/ SetCode(c) \/ VerifyCode(c) \/ ResetPassword(c) \/ DeleteCode(c)
    \/ \E u \in Users : Login(u) \/ Refresh(u)
    \/ Expire
    \/ Restart

-----------------------------------------------------------------------------
\* Who registered to be activated by mail holds a token, or is let in, only
\* after a link sent to that address was opened, whatever an administrator
\* changed in the meantime and however requests overlap.
ActivationByLink == \A u \in awaited : tokens[u] # {} => u \in opened \cap post.links

\* When requests do not overlap, two live accounts never share a name and a
\* reset code resets one password.
AccountsInTurn ==
    alone => /\ \A u, v \in Users : u # v /\ Live(u) /\ Live(v) =>
                    accounts[u].name # accounts[v].name
             /\ \A n \in 1..MaxCodes : resets[n] <= 1
=============================================================================
