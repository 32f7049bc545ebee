----------------------------- MODULE Authorization -----------------------------
(***************************************************************************)
(* Who may do what in an organization                                      *)
(* (apps/api/internal/domain/authorization/authorization.go): a constant   *)
(* table of permissions per role, looked up with the role of the user's    *)
(* membership (store/postgres/authorization.go).  No code of the           *)
(* repository changes a membership.                                        *)
(***************************************************************************)

CONSTANTS
    Users,        \* who a request may come from
    Memberships,  \* their organization_memberships rows, joined with organization and user
    NoMember      \* no row; the role of nobody

Roles   == {"owner", "admin", "editor", "viewer"}
Reading == {"organization:read", "event:read", "photo:read", "search:execute", "download:execute"}
Writing == {"event:write", "photo:write"}

\* permissionsByRole.
PermissionsOf == [role \in Roles |->
    IF role = "viewer" THEN Reading
    ELSE IF role = "editor" THEN Reading \cup Writing
    ELSE Reading \cup Writing \cup {"organization:manage"}]

\* A role that is not in the table allows nothing.
Allows(role, permission) == role \in Roles /\ permission \in PermissionsOf[role]

\* The three rows whose status the lookup asks for.
Joined == {"membership", "organization", "user"}

Membership == [role : Roles, active : SUBSET Joined]

FindMembership(user) ==
    IF Memberships[user] # NoMember /\ Memberships[user].active = Joined
    THEN Memberships[user].role ELSE NoMember

\* Authenticated, a member of the organization, and of a role that allows it.
Authorize(user, permission) == user \in Users /\ Allows(FindMembership(user), permission)

=============================================================================
