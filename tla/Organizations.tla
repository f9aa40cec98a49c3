----------------------------- MODULE Organizations -----------------------------
(***************************************************************************)
(* The tree of organizations and their units (services/organizations.py,   *)
(* models/organization.py).                                                *)
(*                                                                         *)
(* A request reads what its checks need without a lock and writes at its   *)
(* commit; between the two other requests commit.  The closure table holds *)
(* a row for each organization and each of its ancestors: permissions are  *)
(* decided by it alone (UserAccess).  Organizations are never moved, and   *)
(* archiving one leaves those below it active.                             *)
(*                                                                         *)
(* Names, types and codes are left out: each organization has a code of    *)
(* its own.  The default registry of a root is in RegistrySchema.          *)
(***************************************************************************)
EXTENDS Naturals, FiniteSets

CONSTANTS
  Clerks,          \* requests
  Orgs, Units,     \* rows of organizations and org_units, created or not
  NoOrg, NoUnit, NoTask

ASSUME OrganizationAssumption == /\ NoOrg \notin Orgs /\ NoUnit \notin Units
                                 /\ IsFiniteSet(Orgs)

VARIABLES
  orgs,            \* [state, parent]
  closure,         \* [ancestor, descendant, depth]
  units,           \* [state, org, parent, type]
  task,            \* what each request is about to write
  overtaken        \* departments created while their management was archived

treeVars == <<orgs, closure, units, task, overtaken>>

OrgIsActive(o) == o \in Orgs /\ orgs[o].state = "active"
UnitIsActive(u) == u \in Units /\ units[u].state = "active"

Row(a, d, depth) == [ancestor |-> a, descendant |-> d, depth |-> depth]

OrgInit ==
  /\ orgs = [o \in Orgs |-> [state |-> "none", parent |-> NoOrg]]
  /\ closure = {}
  /\ units = [u \in Units |-> [state |-> "none", org |-> NoOrg, parent |-> NoUnit,
                               type |-> "department"]]
  /\ task = [c \in Clerks |-> NoTask]
  /\ overtaken = {}

Prepares(c, what) == /\ task[c] = NoTask
                     /\ task' = [task EXCEPT ![c] = what]
                     /\ UNCHANGED <<orgs, closure, units, overtaken>>

IsNew(row, kind, id) == /\ row.state = "none"
                        /\ \A c \in Clerks : task[c] # NoTask =>
                             ~(task[c].op = kind /\ task[c].id = id)

\* _ensure_single_active_root_absent, create_root
BeginRoot(c) == \E o \in Orgs :
  /\ IsNew(orgs[o], "create", o)
  /\ ~\E r \in Orgs : OrgIsActive(r) /\ orgs[r].parent = NoOrg
  /\ Prepares(c, [op |-> "create", id |-> o, parent |-> NoOrg, rows |-> {Row(o, o, 0)}])

\* Mutant: only the parent is an ancestor.
ParentOnly(o, parent) == {Row(o, o, 0), Row(parent, o, 1)}

\* The rows of the parent, one deeper
Inherited(o, parent) ==
  {Row(o, o, 0)} \cup
  {Row(row.ancestor, o, row.depth + 1) : row \in {r \in closure : r.descendant = parent}}

\* create_child
BeginChild(c) == \E o, parent \in Orgs :
  /\ IsNew(orgs[o], "create", o) /\ OrgIsActive(parent)
  /\ Prepares(c, [op |-> "create", id |-> o, parent |-> parent, rows |-> Inherited(o, parent)])

\* archive_organization_for_actor
BeginArchiveOrg(c) == \E o \in Orgs :
  OrgIsActive(o) /\ Prepares(c, [op |-> "archive", id |-> o])

\* _validate_org_unit_parent
ParentFits(parent, org, type) ==
  parent = NoUnit \/ /\ type = "department"
                     /\ UnitIsActive(parent) /\ units[parent].org = org
                     /\ units[parent].type = "management"

\* create_org_unit
BeginUnit(c) == \E u \in Units, org \in Orgs, parent \in Units \cup {NoUnit},
                   type \in {"management", "department"} :
  /\ IsNew(units[u], "unit", u) /\ OrgIsActive(org) /\ ParentFits(parent, org, type)
  /\ Prepares(c, [op |-> "unit", id |-> u, org |-> org, parent |-> parent, type |-> type])

\* Mutant: the departments of a management stay.
UnitAlone(u) == {u}

\* archive_org_unit_for_actor: a management takes its active departments along.
WithDepartments(u) ==
  {u} \cup (IF units[u].type = "management"
            THEN {d \in Units : UnitIsActive(d) /\ units[d].parent = u} ELSE {})

BeginArchiveUnit(c) == \E u \in Units :
  UnitIsActive(u) /\ Prepares(c, [op |-> "close", ids |-> WithDepartments(u),
                                  read |-> {d \in Units : UnitIsActive(d)}])

CommitCreate(c) ==
  /\ task[c] # NoTask /\ task[c].op = "create"
  /\ orgs' = [orgs EXCEPT ![task[c].id] = [state |-> "active", parent |-> task[c].parent]]
  /\ closure' = closure \cup task[c].rows
  /\ task' = [task EXCEPT ![c] = NoTask]
  /\ UNCHANGED <<units, overtaken>>

CommitArchiveOrg(c) ==
  /\ task[c] # NoTask /\ task[c].op = "archive"
  /\ orgs' = [orgs EXCEPT ![task[c].id].state = "archived"]
  /\ task' = [task EXCEPT ![c] = NoTask]
  /\ UNCHANGED <<closure, units, overtaken>>

CommitUnit(c) ==
  /\ task[c] # NoTask /\ task[c].op = "unit"
  /\ units' = [units EXCEPT ![task[c].id] =
       [state |-> "active", org |-> task[c].org, parent |-> task[c].parent, type |-> task[c].type]]
  /\ overtaken' = IF task[c].parent # NoUnit /\ ~UnitIsActive(task[c].parent)
                  THEN overtaken \cup {task[c].id} ELSE overtaken
  /\ task' = [task EXCEPT ![c] = NoTask]
  /\ UNCHANGED <<orgs, closure>>

CommitArchiveUnit(c) ==
  /\ task[c] # NoTask /\ task[c].op = "close"
  /\ units' = [u \in Units |-> IF u \in task[c].ids THEN [units[u] EXCEPT !.state = "archived"]
                                                  ELSE units[u]]
  /\ overtaken' = overtaken \cup {u \in Units : /\ UnitIsActive(u) /\ u \notin task[c].read
                                              /\ units[u].parent \in task[c].ids}
  /\ task' = [task EXCEPT ![c] = NoTask]
  /\ UNCHANGED <<orgs, closure>>

RollBackTask(c) ==
  /\ task[c] # NoTask
  /\ task' = [task EXCEPT ![c] = NoTask]
  /\ UNCHANGED <<orgs, closure, units, overtaken>>

OrgNext ==
  \E c \in Clerks :
    \/ BeginRoot(c) \/ BeginChild(c) \/ BeginArchiveOrg(c) \/ CommitCreate(c) \/ CommitArchiveOrg(c)
    \/ BeginUnit(c) \/ BeginArchiveUnit(c) \/ CommitUnit(c) \/ CommitArchiveUnit(c)
    \/ RollBackTask(c)

OrgSpec == OrgInit /\ [][OrgNext]_treeVars

-----------------------------------------------------------------------------
(* Properties *)

Created == {o \in Orgs : orgs[o].state # "none"}

\* Ancestors at distance n, with the organizations below them
distance[n \in 0..Cardinality(Orgs)] ==
  IF n = 0 THEN {<<o, o>> : o \in Created}
  ELSE {<<orgs[p[1]].parent, p[2]>> : p \in {q \in distance[n - 1] : orgs[q[1]].parent # NoOrg}}

\* The closure table, which permissions are decided by, is what following
\* parents gives: every organization, created in whatever order and under
\* archived ancestors too, has a row for each of its ancestors at its distance.
ClosureFollowsParents ==
  closure = UNION {{Row(p[1], p[2], n) : p \in distance[n]} : n \in 0..Cardinality(Orgs)}

\* An active department is below an active management of its organization,
\* unless one was created while the other was archived.
DepartmentsFollowManagement ==
  \A u \in Units : UnitIsActive(u) /\ units[u].parent # NoUnit /\ u \notin overtaken =>
    /\ UnitIsActive(units[u].parent)
    /\ units[units[u].parent].type = "management" /\ units[u].type = "department"
    /\ units[units[u].parent].org = units[u].org
=============================================================================
