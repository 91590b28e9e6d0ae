------------------------------- MODULE Roles -------------------------------
(***************************************************************************)
(* Roles and permissions: RbacSeedService, which fills the tables when the   *)
(* process starts, RbacService, which replaces the permissions of a role in  *)
(* two statements, and PermissionsGuard, which is to read them and does not. *)
(***************************************************************************)
EXTENDS Naturals, FiniteSets

CONSTANTS
    RoleCodes, PermissionCodes,
    Reviewer, Admin,        \* two of RoleCodes
    DocumentList,           \* one of PermissionCodes
    Undefined,              \* what a field that is not there reads as
    Members,                \* users
    Setters                 \* setRolePermissions requests under way at a time

ASSUME RolesAssumption ==
    /\ {Reviewer, Admin} \subseteq RoleCodes /\ DocumentList \in PermissionCodes
    /\ Undefined \notin PermissionCodes

VARIABLES
    roles,          \* the roles that have a row
    permissions,    \* the permissions that have a row
    granted,        \* rows of kh_role_permission: [role, permission, by]
    userRoles,      \* rows of kh_user_role
    booting,        \* what the starting process has left to do, or "up"
    setters,        \* what each request is doing
    apart,          \* whether requests neither overlap nor are cut short
    asked           \* history: what each role was last given

rolesVars == <<roles, permissions, granted, userRoles, booting, setters, apart, asked>>

NotSetting == [at |-> "idle"]

RolesTypeOK ==
    /\ roles \subseteq RoleCodes /\ permissions \subseteq PermissionCodes
    /\ granted \subseteq [role : roles, permission : permissions, by : Setters \cup {"seed"}]
    /\ userRoles \in [Members -> SUBSET RoleCodes]
    /\ booting \in {"roles", "permissions", "defaults", "up"}
    /\ \A s \in Setters : setters[s].at \in {"idle", "delete", "insert"}

\* No code writes kh_user_role: what it holds was put there by hand.
RolesInit ==
    /\ roles = {} /\ permissions = {} /\ granted = {}
    /\ userRoles \in [Members -> SUBSET RoleCodes]
    /\ booting = "roles"
    /\ setters = [s \in Setters |-> NotSetting]
    /\ apart \in BOOLEAN
    /\ asked = [r \in RoleCodes |-> {}]

-----------------------------------------------------------------------------
(* onModuleInit, a row at a time *)

EnsureRoles ==
    /\ booting = "roles"
    /\ IF roles = RoleCodes
       THEN booting' = "permissions" /\ roles' = roles
       ELSE booting' = booting /\ \E r \in RoleCodes \ roles : roles' = roles \cup {r}
    /\ UNCHANGED <<permissions, granted, userRoles, setters, apart, asked>>

EnsurePermissions ==
    /\ booting = "permissions"
    /\ IF permissions = PermissionCodes
       THEN booting' = "defaults" /\ permissions' = permissions
       ELSE /\ booting' = booting
            /\ \E p \in PermissionCodes \ permissions : permissions' = permissions \cup {p}
    /\ UNCHANGED <<roles, granted, userRoles, setters, apart, asked>>

Of(role) == {row \in granted : row.role = role}

\* Every start gives a reviewer without permissions the first one.
EnsureEditorDefaults ==
    /\ booting = "defaults"
    /\ booting' = "up"
    /\ IF Of(Reviewer) = {}
       THEN /\ granted' = granted \cup
                    {[role |-> Reviewer, permission |-> DocumentList, by |-> "seed"]}
            /\ asked' = [asked EXCEPT ![Reviewer] = {DocumentList}]
       ELSE UNCHANGED <<granted, asked>>
    /\ UNCHANGED <<roles, permissions, userRoles, setters, apart>>

-----------------------------------------------------------------------------
(* setRolePermissions *)

FindRole(s) ==
    /\ booting = "up" /\ setters[s] = NotSetting
    /\ apart => \A t \in Setters : setters[t] = NotSetting
    /\ \E r \in RoleCodes, codes \in SUBSET PermissionCodes :
         setters' = [setters EXCEPT ![s] = [at |-> "delete", role |-> r, codes |-> codes]]
    /\ UNCHANGED <<roles, permissions, granted, userRoles, booting, apart, asked>>

DeleteOld(s) ==
    /\ setters[s].at = "delete"
    /\ granted' = granted \ Of(setters[s].role)
    /\ setters' = [setters EXCEPT ![s].at = "insert"]
    /\ UNCHANGED <<roles, permissions, userRoles, booting, apart, asked>>

InsertNew(s) ==
    LET set == setters[s] IN
    /\ set.at = "insert"
    /\ granted' = granted \cup {[role |-> set.role, permission |-> p, by |-> s] : p \in set.codes}
    /\ asked' = [asked EXCEPT ![set.role] = set.codes]
    /\ setters' = [setters EXCEPT ![s] = NotSetting]
    /\ UNCHANGED <<roles, permissions, userRoles, booting, apart>>

\* setUserRoles looks up the user and the roles and writes nothing.
SetUserRoles ==
    /\ booting = "up"
    /\ UNCHANGED rolesVars

RolesRestart ==
    /\ apart => \A s \in Setters : setters[s] = NotSetting
    /\ booting' = "roles"
    /\ setters' = [s \in Setters |-> NotSetting]
    /\ UNCHANGED <<roles, permissions, granted, userRoles, apart, asked>>

RolesNext ==
    \/ EnsureRoles \/ EnsurePermissions \/ EnsureEditorDefaults
    \/ \E s \in Setters : FindRole(s) \/ DeleteOld(s) \/ InsertNew(s)
    \/ SetUserRoles
    \/ RolesRestart

-----------------------------------------------------------------------------
(* loadRolesAndPermissions and PermissionsGuard.  A user without rows in     *)
(* kh_user_role has the roles of the account, and no permissions.            *)

LoadPermissions(user) ==
    {row.permission : row \in {g \in granted : g.role \in userRoles[user]}}

OwnRoles(user, accountRoles) ==
    IF userRoles[user] = {} THEN accountRoles ELSE userRoles[user]

\* The decorator keeps the codes themselves; the guard takes them for rows of
\* kh_permission and reads the field permissionCode, which a string has not.
CodeRead(code) == Undefined

\* A handler with the decorator: an administrator passes, anybody else needs
\* one of the codes read.
CanActivate(user, accountRoles, required) ==
    \/ Admin \in OwnRoles(user, accountRoles)
    \/ \E code \in required : CodeRead(code) \in LoadPermissions(user)

-----------------------------------------------------------------------------
\* When requests do not overlap, the permissions a request is given for its
\* user (loadRolesAndPermissions) are those last given to the roles of that
\* user, across restarts; after a start a reviewer who was given nothing has
\* the default again.
PermissionsInTurn ==
    apart /\ booting = "up" /\ (\A s \in Setters : setters[s] = NotSetting) =>
        \A user \in Members, p \in PermissionCodes :
            p \in LoadPermissions(user) <=> \E r \in userRoles[user] : p \in asked[r]

\* Nobody but an administrator passes a handler that asks for permissions,
\* whatever is granted and however requests overlap or are cut short.
OnlyAdminsPass ==
    \A user \in Members, accountRoles \in SUBSET RoleCodes, required \in SUBSET PermissionCodes :
        CanActivate(user, accountRoles, required) => Admin \in OwnRoles(user, accountRoles)
=============================================================================
