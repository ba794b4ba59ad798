------------------------------- MODULE Access -------------------------------
(***************************************************************************)
(* Who may do what: user/user.go, auth/auth.go, the role checks of         *)
(* pkg/workspace/workspace.go and the middleware of rest/rest.go.          *)
(*                                                                         *)
(* A user is [email, roles], a workspace of the cached list is             *)
(* [roles, hide].  A role is a tuple of words: the code joins strings, and *)
(* two roles are equal when the strings are.  The list itself is a         *)
(* function of names, NoWorkspace where it has no entry.                   *)
(***************************************************************************)
EXTENDS Sequences

CONSTANT NoWorkspace

\* The role of the owner of a workspace, u.GetEmail() + CustomRolePattern + "owner".
OwnerRole(u) == <<u.email, "--$", "owner">>
AdminRole(r) == Append(r, "-admin")

HasOwnership(u, rs) == \E i \in DOMAIN rs : rs[i] = OwnerRole(u)
UserHasRole(u, r) == r \in u.roles

\* Mutant: only the last role of a list counts.
FulfilsLast(rs, u) == rs # <<>> /\ UserHasRole(u, rs[Len(rs)])

\* The inner loop: every role of the list is held; an empty list gives nothing.
FulfilsAll(rs, u) == rs # <<>> /\ \A i \in DOMAIN rs : UserHasRole(u, rs[i])

UserHasAccess(w, u) ==
    \E i \in DOMAIN w.roles :
        HasOwnership(u, w.roles[i]) \/ FulfilsAll(w.roles[i], u)

UserHasAdminAccess(w, u) ==
    \E i \in DOMAIN w.roles :
        \/ HasOwnership(u, w.roles[i])
        \/ FulfilsAll([k \in DOMAIN w.roles[i] |-> AdminRole(w.roles[i][k])], u)

\* GetWorkspacePermissions
AccessLevel(list, n, u) ==
    [user  |-> list[n] # NoWorkspace /\ UserHasAccess(list[n], u),
     admin |-> list[n] # NoWorkspace /\ UserHasAdminAccess(list[n], u)]

\* GetVolumePermissions, and GetSecretPermissions, which has the same table.
GetPermissions(level, action) ==
    IF action \in {"read", "list"} THEN level.user \/ level.admin ELSE level.admin

Authorize(list, n, u, action) == GetPermissions(AccessLevel(list, n, u), action)

\* NewAuthorizationContext: the workspaces a request may see.
Visible(list, u) ==
    [n \in DOMAIN list |->
        IF list[n] # NoWorkspace /\ (UserHasAccess(list[n], u) \/ ~list[n].hide)
        THEN list[n] ELSE NoWorkspace]

CheckWorkspaceAccess(ctx, n, u) ==
    ctx[n] # NoWorkspace /\ UserHasAccess(ctx[n], u)
=============================================================================
