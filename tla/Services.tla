------------------------------ MODULE Services ------------------------------
(***************************************************************************)
(* Services that share no state, side by side: a behaviour is one of         *)
(* accounts, roles, teams, the parsers, chunk indexing or a search.          *)
(***************************************************************************)
EXTENDS Accounts, Roles, Teams, DocumentParsing, ChunkIndexing, Retrieval

VARIABLE part

AJob == CHOOSE j \in [length : Lengths, size : ChunkSizes, overlap : Overlaps,
                      batch : BatchSizes, stage : {"cut"}] : TRUE
AFile == CHOOSE f \in OtherType : TRUE

\* The parts that do not run have one of their initial states.
Init ==
    /\ part \in {"accounts", "roles", "teams", "parsing", "chunking", "search"}
    /\ AccountsInit /\ (part # "accounts" => alone)
    /\ RolesInit /\ (part # "roles" => apart /\ \A m \in Members : userRoles[m] = {})
    /\ TeamsInit
    /\ ChunkInit /\ (part # "chunking" => job = AJob)
    /\ RetrievalInit
    /\ ParsingInit /\ (part # "parsing" => file = AFile)

Next ==
    \/ /\ part = "accounts" /\ AccountsNext
       /\ UNCHANGED <<part, rolesVars, teamsVars, parsingVars, chunkVars, retrievalVars>>
    \/ /\ part = "roles" /\ RolesNext
       /\ UNCHANGED <<part, accountsVars, teamsVars, parsingVars, chunkVars, retrievalVars>>
    \/ /\ part = "teams" /\ TeamsNext
       /\ UNCHANGED <<part, accountsVars, rolesVars, parsingVars, chunkVars, retrievalVars>>
    \/ /\ part = "parsing" /\ ParsingNext
       /\ UNCHANGED <<part, accountsVars, rolesVars, teamsVars, chunkVars, retrievalVars>>
    \/ /\ part = "chunking" /\ ChunkNext
       /\ UNCHANGED <<part, accountsVars, rolesVars, teamsVars, parsingVars, retrievalVars>>
    \/ /\ part = "search" /\ RetrievalNext
       /\ UNCHANGED <<part, accountsVars, rolesVars, teamsVars, parsingVars, chunkVars>>

Spec == Init /\ [][Next]_<<part, accountsVars, rolesVars, teamsVars, parsingVars,
                          chunkVars, retrievalVars>>

-----------------------------------------------------------------------------
\* Every service keeps its rows, requests and results of their types.
ServicesTypeOK ==
    /\ AccountsTypeOK /\ RolesTypeOK /\ TeamsTypeOK
    /\ ParsingTypeOK /\ ChunkTypeOK /\ RetrievalTypeOK

\* Requests that neither overlap nor are cut short leave accounts, reset codes
\* and role permissions as they promised.  The permissions are loaded; they
\* open no handler, which only administrators pass.
RequestsTakeEffect == AccountsInTurn /\ PermissionsInTurn /\ OnlyAdminsPass
=============================================================================
