------------------------------ MODULE UserAccess ------------------------------
(***************************************************************************)
(* Users, roles and access grants (services/user_access.py,                *)
(* services/permissions.py, services/auth.py, services/bootstrap.py).      *)
(*                                                                         *)
(* A request is authenticated, checks what its actor may do, and prepares  *)
(* the columns it changes from the rows it has read without a lock; the    *)
(* commit writes these columns into whatever the rows hold by then.  There *)
(* is one grant for a user, a role and an organization (NoOrg: for all);   *)
(* it is revived rather than inserted twice.                               *)
(*                                                                         *)
(* Grants limited to a registry are left out, as are names and passwords.  *)
(***************************************************************************)
EXTENDS Organizations

BusinessRoles == {"administrator", "organization_administrator",
                  "subordinate_organization_administrator"}

CONSTANTS
  Users, Admin,    \* rows of users; the one the command line makes superuser
  OldRoles,        \* roles of earlier versions: codes the seeds do not have
  NoChange, NoProfile,
  Targets,         \* bound: users whose rows are changed
  Keys,            \* bound: keys of grants, [user, role, org]
  Periods,         \* bound: validity of a grant
  MaxTime,         \* bound: the clock
  MaxChanges       \* bound: changes that are made

ASSUME AccessAssumption ==
  /\ Admin \in Users /\ Targets \subseteq Users /\ BusinessRoles \cap OldRoles = {}
  /\ Keys \subseteq [user : Users, role : BusinessRoles \cup OldRoles, org : Orgs \cup {NoOrg}]
  \* every grant a profile asks for has its key
  /\ [user : Targets, role : {"organization_administrator"}, org : {NoOrg}] \subseteq Keys
  /\ [user : Targets, role : {"subordinate_organization_administrator"}, org : Orgs] \subseteq Keys
  /\ Periods \subseteq (0..(MaxTime + 1)) \X (0..(MaxTime + 1))
  /\ MaxTime \in Nat /\ MaxChanges \in Nat

VARIABLES
  users,           \* [status, archived, super, flag]; flag: can_manage_access
  roles,           \* roles that are not archived
  grants,          \* [state, desc, from, to] of each key
  now,
  change,          \* what each request is about to write
  changes,         \* how many were begun
  profile,         \* the role profile last given to each user
  late             \* grants written by a request whose role was archived meanwhile

accessVars == <<users, roles, grants, now, change, changes, profile, late>>

Global == {"administrator", "organization_administrator"}

\* CORE_ROLE_SEEDS; roles of earlier versions managed everything but users.
Permits(role, permission) ==
  CASE role = "administrator" -> TRUE
    [] role = "organization_administrator" -> permission # "access_grants.manage"
    [] role = "subordinate_organization_administrator" -> permission = "organizations.manage"
    [] OTHER -> permission # "users.manage"

Forever == MaxTime + 1
NoGrant == [state |-> "none", desc |-> TRUE, from |-> 0, to |-> Forever]
NewUser == [status |-> "active", archived |-> FALSE, super |-> FALSE, flag |-> FALSE]
Granted == [NoGrant EXCEPT !.state = "live"]

\* _user_is_active: tested at every request (get_user_from_token)
UserIsActive(u) == users[u].status = "active" /\ ~users[u].archived

IsSuper(u) == UserIsActive(u) /\ users[u].super

InForce(k) == grants[k].state = "live" /\ grants[k].from <= now /\ now < grants[k].to

GrantsOf(u) == {k \in Keys : k.user = u /\ InForce(k)}

Below(a) == {o \in Orgs : OrgIsActive(o) /\ \E row \in closure : row.ancestor = a /\ row.descendant = o}

\* get_organization_scope_ids: any grant, whatever became of its role
ScopeOf(u) ==
  IF IsSuper(u) \/ \E k \in GrantsOf(u) : k.org = NoOrg
  THEN {o \in Orgs : OrgIsActive(o)}
  ELSE UNION {IF grants[k].desc THEN Below(k.org) ELSE {k.org} : k \in GrantsOf(u)}

CanSee(u, o) == OrgIsActive(o) /\ o \in ScopeOf(u)

\* _active_access_grants_with_permission
Giving(u, permission) == {k \in GrantsOf(u) : k.role \in roles /\ Permits(k.role, permission)}

\* Mutant: every grant covers the organizations below its own.
CoversBranch(k, o) ==
  k.org \in {NoOrg, o} \/ \E row \in closure : row.ancestor = k.org /\ row.descendant = o

\* _grant_covers_organization
Covers(k, o) == \/ k.org \in {NoOrg, o}
                \/ grants[k].desc /\ \E row \in closure : row.ancestor = k.org /\ row.descendant = o

\* has_permission with an organization
Manages(u, permission, o) ==
  /\ OrgIsActive(o)
  /\ \/ IsSuper(u)
     \/ IF permission = "access_grants.manage" /\ UserIsActive(u) /\ users[u].flag
        THEN CanSee(u, o)
        ELSE \E k \in Giving(u, permission) : Covers(k, o)

\* has_permission without one
Has(u, permission) ==
  \/ IsSuper(u)
  \/ permission = "access_grants.manage" /\ UserIsActive(u) /\ users[u].flag
  \/ Giving(u, permission) # {}

AccessInit ==
  /\ users = [u \in Users |-> [status |-> IF u = Admin THEN "active" ELSE "none",
                               archived |-> FALSE, super |-> u = Admin, flag |-> FALSE]]
  /\ roles = BusinessRoles \cup OldRoles
  /\ grants = [k \in Keys |-> NoGrant]
  /\ now = 0
  /\ change = [c \in Clerks |-> NoChange]
  /\ profile = [u \in Users |-> NoProfile]
  /\ late = {}
  /\ changes = 0

-----------------------------------------------------------------------------
(* What a request prepares *)

\* The columns of new that differ from old: those an UPDATE sets
Changed(old, new) == [x \in {y \in DOMAIN new : new[y] # old[y]} |-> new[x]]

\* The row once they are set
Updated(row, set) == [x \in DOMAIN row |-> IF x \in DOMAIN set THEN set[x] ELSE row[x]]

NoGrants == [k \in {} |-> NoGrant]
Only(k, grant) == [q \in {k} |-> grant]

\* new: the user's row and some of its grants
Prepare(c, u, row, written, given) ==
  /\ change[c] = NoChange /\ u \in Targets
  /\ changes < MaxChanges /\ changes' = changes + 1
  /\ change' = [change EXCEPT ![c] =
       [user |-> u, isNew |-> users[u].status = "none", row |-> Changed(users[u], row),
        grants |-> [k \in DOMAIN written |-> Changed(grants[k], written[k])],
        inserts |-> {k \in DOMAIN written : grants[k].state = "none"},
        given |-> given, fresh |-> TRUE]]
  /\ UNCHANGED <<users, roles, grants, now, profile, late>>

\* Mutant: a profile is added to the grants the user has.
ProfileAdds(u, role, scope) ==
  [k \in {q \in Keys : q.user = u /\ q.role = role /\ q.org \in scope} |-> Granted]

\* _apply_role_profile: business grants in force are archived, those of the
\* profile inserted or revived without limits.
ProfileGrants(u, role, scope) ==
  LET old == {k \in GrantsOf(u) : k.role \in BusinessRoles /\ k.role \in roles}
      new == {k \in Keys : k.user = u /\ k.role = role /\ k.org \in scope}
  IN [k \in old \cup new |-> IF k \in new THEN Granted ELSE [grants[k] EXCEPT !.state = "archived"]]

\* The grants a profile asks for: none for an administrator, who is a superuser
ProfileScope(role, chosen) ==
  CASE role = "administrator" -> {}
    [] role = "organization_administrator" -> {NoOrg}
    [] OTHER -> chosen

\* _prepare_role_profile, _assert_actor_can_assign_role_profile
MayAssign(a, role, chosen) ==
  /\ (role \in Global) = (chosen = {})
  /\ \A o \in chosen : OrgIsActive(o)
  /\ BusinessRoles \subseteq roles
  /\ IsSuper(a) \/ /\ Has(a, "users.manage") /\ role \notin Global
                   /\ Has(a, "access_grants.manage")
                   /\ \A o \in chosen : Manages(a, "access_grants.manage", o)

\* list_users_for_actor, _assert_can_manage_existing_user
MayManageUser(a, u) ==
  IsSuper(a) \/ /\ Has(a, "users.manage") /\ ScopeOf(a) # {}
                /\ ~users[u].archived
                /\ \E k \in Keys : /\ k.user = u /\ grants[k].state = "live"
                                   /\ k.org \in ScopeOf(a) \cup {NoOrg}

\* _user_role_profile
ReadProfile(u) ==
  LET own == {k \in GrantsOf(u) : k.role \in BusinessRoles /\ k.role \in roles}
  IN IF users[u].super THEN [role |-> "administrator", orgs |-> {}]
     ELSE IF \E k \in own : k.role = "organization_administrator"
          THEN [role |-> "organization_administrator", orgs |-> {}]
     ELSE [role |-> "subordinate_organization_administrator",
           orgs |-> {k.org : k \in {q \in own : /\ q.role = "subordinate_organization_administrator"
                                                /\ q.org # NoOrg}}]

-----------------------------------------------------------------------------
(* Requests *)

\* Actors: their token names an active user.
Actors == {a \in Users : UserIsActive(a)}

\* create_user_for_actor, with a profile or without one
BeginCreateUser(c) ==
  \E u \in Targets, flag \in BOOLEAN :
    /\ users[u].status = "none"
    /\ \/ \E role \in BusinessRoles, chosen \in SUBSET Orgs :
            /\ {a \in Actors : /\ IsSuper(a) \/ (Has(a, "users.manage") /\ ~flag)
                               /\ MayAssign(a, role, chosen)} # {}
            /\ Prepare(c, u, [NewUser EXCEPT !.super = role = "administrator", !.flag = flag],
                       ProfileGrants(u, role, ProfileScope(role, chosen)),
                       [role |-> role, orgs |-> chosen])
       \/ /\ {a \in Actors : IsSuper(a) \/ (Has(a, "users.manage") /\ ~flag)} # {}
          /\ Prepare(c, u, [NewUser EXCEPT !.flag = flag], NoGrants, NoProfile)

\* update_user_for_actor without a profile
BeginUpdateUser(c) ==
  \E u \in Targets, status \in {"active", "disabled"}, super, flag \in BOOLEAN :
    /\ users[u].status # "none"
    /\ {a \in Actors : /\ MayManageUser(a, u)
                       /\ IsSuper(a) \/ (super = users[u].super /\ flag = users[u].flag)} # {}
    /\ Prepare(c, u, [users[u] EXCEPT !.status = status, !.super = super, !.flag = flag],
               NoGrants, NoProfile)

\* update_user_for_actor with one
BeginUpdateProfile(c) ==
  \E u \in Targets, role \in BusinessRoles, chosen \in SUBSET Orgs :
    /\ users[u].status # "none"
    /\ {a \in Actors : MayManageUser(a, u) /\ MayAssign(a, role, chosen)} # {}
    /\ Prepare(c, u, [users[u] EXCEPT !.super = role = "administrator"],
               ProfileGrants(u, role, ProfileScope(role, chosen)),
               [role |-> role, orgs |-> chosen])

\* archive_user_for_actor
BeginArchiveUser(c) == \E u \in Targets :
  /\ users[u].status # "none"
  /\ {a \in Actors \ {u} : MayManageUser(a, u)} # {}
  /\ Prepare(c, u, [users[u] EXCEPT !.status = "archived", !.archived = TRUE], NoGrants, NoProfile)

\* _actor_can_delegate_descendant_scope
MayDelegateBelow(a, o) ==
  IF users[a].flag THEN CanSee(a, o)
  ELSE \E k \in Giving(a, "access_grants.manage") :
         grants[k].desc /\ k.org # NoOrg /\ Covers(k, o)

\* _assert_scoped_actor_can_create_grant
MayGrant(a, role, o, desc) ==
  IsSuper(a) \/ /\ o # NoOrg /\ role \notin Global
                /\ Manages(a, "access_grants.manage", o)
                /\ desc => MayDelegateBelow(a, o)

\* create_access_grant_for_actor
BeginGrant(c) ==
  \E k \in Keys, desc \in BOOLEAN, p \in Periods :
    /\ users[k.user].status \notin {"none", "archived"} /\ ~users[k.user].archived
    /\ k.role \in roles /\ (k.org # NoOrg => OrgIsActive(k.org)) /\ p[1] < p[2]
    /\ {a \in Actors : MayGrant(a, k.role, k.org, desc)} # {}
    /\ Prepare(c, k.user, users[k.user],
               Only(k, [state |-> "live", desc |-> desc, from |-> p[1], to |-> p[2]]), NoProfile)

\* archive_access_grant_for_actor
BeginRevoke(c) == \E k \in Keys :
  /\ grants[k].state # "none"
  /\ {a \in Actors : IsSuper(a) \/ (k.org # NoOrg /\ Manages(a, "access_grants.manage", k.org))} # {}
  /\ Prepare(c, k.user, users[k.user], Only(k, [grants[k] EXCEPT !.state = "archived"]), NoProfile)

\* A row that was new to the request is there by now: a unique index refuses it.
Collides(c) ==
  \/ change[c].isNew /\ users[change[c].user].status # "none"
  \/ \E k \in change[c].inserts : grants[k].state # "none"

\* The others have prepared their changes from a row that is no longer there.
Outdated(u) ==
  [o \in Clerks |-> IF change[o] # NoChange /\ change[o].user = u
                    THEN [change[o] EXCEPT !.fresh = FALSE] ELSE change[o]]

CommitChange(c) ==
  LET u == change[c].user  written == change[c].grants IN
  /\ change[c] # NoChange /\ ~Collides(c)
  /\ users' = [users EXCEPT ![u] = Updated(users[u], change[c].row)]
  /\ grants' = [k \in Keys |-> IF k \in DOMAIN written THEN Updated(grants[k], written[k])
                               ELSE grants[k]]
  /\ profile' = [profile EXCEPT ![u] = IF change[c].fresh THEN change[c].given ELSE NoProfile]
  /\ late' = late \cup {k \in DOMAIN written : k.role \notin roles}
  /\ change' = [Outdated(u) EXCEPT ![c] = NoChange]
  /\ UNCHANGED <<roles, now, changes>>

RollBackChange(c) ==
  /\ change[c] # NoChange
  /\ change' = [change EXCEPT ![c] = NoChange]
  /\ UNCHANGED <<users, roles, grants, now, changes, profile, late>>

-----------------------------------------------------------------------------
(* The command line *)

\* Mutant: roles are archived, their grants are not.
GrantsAfterKept == grants

\* _archive_noncanonical_roles
GrantsAfterSeed ==
  [k \in Keys |-> IF k.role \in roles \cap OldRoles /\ grants[k].state = "live"
                  THEN [grants[k] EXCEPT !.state = "archived"] ELSE grants[k]]

\* seed_defaults
SeedDefaults ==
  /\ grants' = GrantsAfterSeed
  /\ roles' = BusinessRoles
  /\ UNCHANGED <<users, now, change, changes, profile, late>>

\* create_superadmin
CreateSuperadmin ==
  /\ users' = [users EXCEPT ![Admin] = [@ EXCEPT !.status = "active", !.archived = FALSE,
                                                 !.super = TRUE]]
  /\ profile' = [profile EXCEPT ![Admin] = NoProfile]
  /\ change' = Outdated(Admin)
  /\ UNCHANGED <<roles, grants, now, changes, late>>

Tick == /\ now < MaxTime /\ now' = now + 1
        /\ UNCHANGED <<users, roles, grants, change, changes, profile, late>>

AccessNext ==
  \/ \E c \in Clerks : \/ BeginCreateUser(c) \/ BeginUpdateUser(c) \/ BeginUpdateProfile(c)
                       \/ BeginArchiveUser(c) \/ BeginGrant(c) \/ BeginRevoke(c)
                       \/ CommitChange(c) \/ RollBackChange(c)
  \/ SeedDefaults \/ CreateSuperadmin \/ Tick

\* Users and grants over a tree that changes under them
AdministrationSpec ==
  /\ OrgInit /\ AccessInit
  /\ [][\/ OrgNext /\ UNCHANGED accessVars
        \/ AccessNext /\ UNCHANGED treeVars]_<<treeVars, accessVars>>

-----------------------------------------------------------------------------
(* Properties *)

\* Whoever may manage an organization is shown it: the two traversals of the
\* tree, by permission and by scope, agree also below archived organizations
\* and for users with several grants, the access flag or a limited time.
ManagersSee ==
  \A u \in Users, o \in Orgs, p \in {"organizations.manage", "access_grants.manage"} :
    Manages(u, p, o) => CanSee(u, o)

\* The scope does not look at roles.  Still nobody sees an organization only
\* through a role that was archived, unless the grant was committed by a
\* request that had read the role before.
SeenThroughRoles ==
  \A u \in Users, o \in Orgs :
    CanSee(u, o) /\ ~IsSuper(u) =>
      \E k \in GrantsOf(u) : Covers(k, o) /\ (k.role \in roles \/ k \in late)

\* A profile that was given is the profile that is read until a grant of the
\* user is changed, however many grants the user had and whatever the other
\* requests; grants limited in time that were not in force then are not its own.
ProfileIsExact ==
  \A u \in Users :
    profile[u] # NoProfile /\ (\A k \in Keys : k.user = u /\ grants[k].state = "live" =>
                                 grants[k].from = 0 /\ grants[k].to = Forever)
      => ReadProfile(u) = profile[u]
=============================================================================
