------------------------------- MODULE Teams -------------------------------
(***************************************************************************)
(* The team tree: TeamService.  The parent of a team is whatever the client  *)
(* says but the team itself; a row that was loaded is saved whole.           *)
(***************************************************************************)
EXTENDS Naturals, Sequences, FiniteSets

CONSTANTS
    TeamIds,    \* ids of teams, given out once
    Root,       \* parentId '0'
    Editors     \* requests under way at a time

ASSUME TeamsAssumption == Root \notin TeamIds /\ IsFiniteSet(TeamIds)

VARIABLES
    teams,      \* the row of each team, NoTeam before it is inserted
    editors     \* what each request is doing

teamsVars == <<teams, editors>>

TeamType == [parent : TeamIds \cup {Root}, status : 0..1, deleted : BOOLEAN]
NoTeam == [deleted |-> TRUE]
NotEditing == [at |-> "idle"]

TeamsTypeOK ==
    /\ \A t \in TeamIds : teams[t] \in TeamType \cup {NoTeam}
    /\ \A e \in Editors : /\ editors[e].at \in {"idle", "count", "save"}
                          /\ editors[e].at # "idle" => editors[e].row \in TeamType

TeamsInit ==
    /\ teams = [t \in TeamIds |-> NoTeam]
    /\ editors = [e \in Editors |-> NotEditing]

-----------------------------------------------------------------------------
CreateTeam ==
    /\ \E t \in TeamIds, p \in TeamIds \cup {Root}, s \in 0..1 :
        /\ teams[t] = NoTeam /\ p # t
        /\ teams' = [teams EXCEPT ![t] = [parent |-> p, status |-> s, deleted |-> FALSE]]
    /\ UNCHANGED editors

EditTo(e, state) == editors' = [editors EXCEPT ![e] = state] /\ UNCHANGED teams

FindForUpdate(e) ==
    /\ editors[e] = NotEditing
    /\ \E t \in TeamIds, p \in TeamIds \cup {Root}, s \in 0..1 :
        /\ ~teams[t].deleted /\ p # t
        /\ EditTo(e, [at |-> "save", team |-> t,
                      row |-> [teams[t] EXCEPT !.parent = p, !.status = s]])

FindForDelete(e) ==
    /\ editors[e] = NotEditing
    /\ \E t \in TeamIds :
        /\ ~teams[t].deleted
        /\ EditTo(e, [at |-> "count", team |-> t, row |-> [teams[t] EXCEPT !.deleted = TRUE]])

Children(t) == {c \in TeamIds : ~teams[c].deleted /\ teams[c].parent = t}

CountChildren(e) ==
    /\ editors[e].at = "count"
    /\ EditTo(e, IF Children(editors[e].team) = {} THEN [editors[e] EXCEPT !.at = "save"]
                 ELSE NotEditing)

SaveTeam(e) ==
    /\ editors[e].at = "save"
    /\ teams' = [teams EXCEPT ![editors[e].team] = editors[e].row]
    /\ editors' = [editors EXCEPT ![e] = NotEditing]

TeamsNext ==
    \/ CreateTeam
    \/ \E e \in Editors : FindForUpdate(e) \/ FindForDelete(e) \/ CountChildren(e) \/ SaveTeam(e)

-----------------------------------------------------------------------------
(* getTree: the roots, and below each team the listed teams it is parent of. *)
(* Placed[n] holds the path of each node the recursion makes at depth n.     *)

Listed == {t \in TeamIds : ~teams[t].deleted /\ teams[t].status = 1}

\* Mutant: every listed team is a root as well
Roots_All == Listed

Roots == {t \in Listed : teams[t].parent = Root}

Placed == LET at[n \in 1..Cardinality(TeamIds) + 1] ==
                  IF n = 1 THEN {<<t>> : t \in Roots}
                  ELSE UNION {{Append(path, c) : c \in Listed \cap Children(path[n - 1])} :
                                  path \in at[n - 1]}
          IN  at

-----------------------------------------------------------------------------
\* Whatever the rows, cycles included, getTree ends, shows no team twice, and
\* shows a team only when it and all teams above it are live and enabled.
TreeIsFinite ==
    LET n == Cardinality(TeamIds)
        shown == UNION {Placed[d] : d \in 1..n}
    IN  /\ Placed[n + 1] = {}
        /\ \A p, q \in shown : p[Len(p)] = q[Len(q)] => p = q
        /\ \A p \in shown : \A i \in DOMAIN p :
             p[i] \in Listed /\ teams[p[i]].parent = IF i = 1 THEN Root ELSE p[i - 1]
=============================================================================
