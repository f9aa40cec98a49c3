------------------------- MODULE Administration_proofs -------------------------
(***************************************************************************)
(* Proofs about Organizations and UserAccess, for any number of            *)
(* organizations, units, users, grants and requests.                       *)
(***************************************************************************)
EXTENDS UserAccess, FiniteSetTheorems, TLAPS

-----------------------------------------------------------------------------
(* The inductive invariant of the tree *)

Rows == [ancestor : Orgs, descendant : Orgs, depth : Nat]

Tasks ==
  [op : {"create"}, id : Orgs, parent : Orgs \cup {NoOrg}, rows : SUBSET Rows]
  \cup [op : {"archive"}, id : Orgs]
  \cup [op : {"unit"}, id : Units, org : Orgs, parent : Units \cup {NoUnit},
        type : {"management", "department"}]
  \cup [op : {"close"}, ids : SUBSET Units, read : SUBSET Units]

TreeTypeOK ==
  /\ orgs \in [Orgs -> [state : {"none", "active", "archived"}, parent : Orgs \cup {NoOrg}]]
  /\ closure \subseteq Rows
  /\ units \in [Units -> [state : {"none", "active", "archived"}, org : Orgs \cup {NoOrg},
                          parent : Units \cup {NoUnit}, type : {"management", "department"}]]
  /\ task \in [Clerks -> Tasks \cup {NoTask}]
  /\ overtaken \subseteq Units

Does(c, op) == task[c] # NoTask /\ task[c].op = op

\* The closure follows parents, upwards from each row and downwards to it.
RowsFollowParents ==
  /\ \A o \in Created : Row(o, o, 0) \in closure
  /\ \A o \in Created : orgs[o].parent # NoOrg => orgs[o].parent \in Created
  /\ \A r \in closure :
       /\ r.ancestor \in Created /\ r.descendant \in Created
       /\ r.depth < Cardinality(Created)
       /\ orgs[r.ancestor].parent # NoOrg =>
            Row(orgs[r.ancestor].parent, r.descendant, r.depth + 1) \in closure
       /\ \/ r = Row(r.descendant, r.descendant, 0)
          \/ \E q \in closure : /\ q.descendant = r.descendant /\ r.depth = q.depth + 1
                                /\ orgs[q.ancestor].parent = r.ancestor

\* What a creation is about to add: a new organization, the rows of its
\* parent as they are
CreationsAreNew ==
  \A c \in Clerks : Does(c, "create") =>
    /\ task[c].id \notin Created
    /\ \A d \in Clerks \ {c} : Does(d, "create") => task[d].id # task[c].id
    /\ IF task[c].parent = NoOrg THEN task[c].rows = {Row(task[c].id, task[c].id, 0)}
       ELSE task[c].parent \in Created /\ task[c].rows = Inherited(task[c].id, task[c].parent)

ArchivesAreThere == \A c \in Clerks : Does(c, "archive") => task[c].id \in Created

UnitIsThere(u) == u \in Units /\ units[u].state # "none"

\* A department's management has been one of its organization.
FitsBelow(parent, org, type) ==
  parent # NoUnit => /\ UnitIsThere(parent) /\ type = "department"
                     /\ units[parent].type = "management" /\ units[parent].org = org

\* What a request is about to write of units
UnitTasksFit ==
  \A c \in Clerks :
    /\ Does(c, "unit") =>
         /\ ~UnitIsThere(task[c].id)
         /\ \A d \in Clerks \ {c} : Does(d, "unit") => task[d].id # task[c].id
         /\ FitsBelow(task[c].parent, task[c].org, task[c].type)
    /\ Does(c, "close") =>
         /\ \A u \in task[c].ids \cup task[c].read : UnitIsThere(u)
         /\ \E m \in task[c].ids :
              /\ \A d \in task[c].ids \ {m} : units[d].type = "department"
              /\ units[m].type = "management" =>
                   \A u \in task[c].read \ task[c].ids : units[u].parent # m

UnitsFit ==
  /\ \A u \in Units : UnitIsThere(u) => FitsBelow(units[u].parent, units[u].org, units[u].type)
  /\ \A u \in Units : UnitIsActive(u) /\ units[u].parent # NoUnit /\ u \notin overtaken =>
       UnitIsActive(units[u].parent)

TreeIsSound ==
  /\ TreeTypeOK /\ RowsFollowParents /\ CreationsAreNew /\ ArchivesAreThere
  /\ UnitTasksFit /\ UnitsFit

-----------------------------------------------------------------------------
(* The inductive invariant of users and grants *)

UserRows == [status : {"none", "active", "disabled", "archived"}, archived : BOOLEAN,
             super : BOOLEAN, flag : BOOLEAN]
GrantRows == [state : {"none", "live", "archived"}, desc : BOOLEAN,
              from : 0..(MaxTime + 1), to : 0..(MaxTime + 1)]
Profiles == {p \in [role : BusinessRoles, orgs : SUBSET Orgs] :
               (p.role \in Global) = (p.orgs = {})}

\* Some columns of a row of S, with values a row of S may have
IsPartOf(set, S) == \A row \in S : Updated(row, set) \in S

\* Some grants of user u, with columns to be set
WritesGrants(written, u) ==
  /\ DOMAIN written \subseteq {k \in Keys : k.user = u}
  /\ \A k \in DOMAIN written : IsPartOf(written[k], GrantRows)

AccessTypeOK ==
  /\ users \in [Users -> UserRows]
  /\ BusinessRoles \subseteq roles /\ roles \subseteq BusinessRoles \cup OldRoles
  /\ grants \in [Keys -> GrantRows]
  /\ now \in 0..MaxTime
  /\ \A c \in Clerks : change[c] # NoChange =>
       /\ DOMAIN change[c] = {"user", "isNew", "row", "grants", "inserts", "given", "fresh"}
       /\ change[c].user \in Targets /\ IsPartOf(change[c].row, UserRows)
       /\ WritesGrants(change[c].grants, change[c].user)
       /\ change[c].given \in Profiles \cup {NoProfile}
  /\ DOMAIN change = Clerks
  /\ profile \in [Users -> Profiles \cup {NoProfile}]
  /\ \A u \in Users : profile[u] # NoProfile => u \in Targets

\* A grant of a role that was archived is archived with it, or came later.
NoStaleGrant ==
  \A k \in Keys : grants[k].state = "live" => k.role \in roles \/ k \in late

\* The grants a profile stands for
OwnKeys(u, p) ==
  {k \in Keys : k.user = u /\ k.role = p.role /\ k.org \in ProfileScope(p.role, p.orgs)}

\* A user's row and grants that are those of profile p, but for grants that
\* are limited in time
GivesProfile(u, p, row, rows) ==
  /\ row.super = (p.role = "administrator")
  /\ \A k \in Keys : k.user = u /\ k.role \in BusinessRoles =>
       /\ k \in OwnKeys(u, p) => rows[k] = Granted
       /\ rows[k].state = "live" /\ rows[k].from = 0 /\ rows[k].to = Forever => k \in OwnKeys(u, p)

\* The grants once some of their columns are set
WithGrants(written) ==
  [k \in Keys |-> IF k \in DOMAIN written THEN Updated(grants[k], written[k]) ELSE grants[k]]

\* A change prepared from the rows there are gives the profile it is for,
\* and a profile that was given is there.
ProfilesAreGiven ==
  /\ \A c \in Clerks :
       change[c] # NoChange /\ change[c].fresh /\ change[c].given # NoProfile =>
         GivesProfile(change[c].user, change[c].given,
                      Updated(users[change[c].user], change[c].row), WithGrants(change[c].grants))
  /\ \A u \in Users : profile[u] # NoProfile => GivesProfile(u, profile[u], users[u], grants)

AccessIsSound == AccessTypeOK /\ NoStaleGrant /\ ProfilesAreGiven

-----------------------------------------------------------------------------
(* The tree: requests that begin or end without writing *)

\* A task, by what it does
LEMMA TaskTypes ==
  ASSUME TreeTypeOK, NEW c \in Clerks, task[c] # NoTask
  PROVE  /\ task[c].op = "create" => /\ task[c].id \in Orgs /\ task[c].parent \in Orgs \cup {NoOrg}
                                     /\ task[c].rows \subseteq Rows
         /\ task[c].op = "archive" => task[c].id \in Orgs
         /\ task[c].op = "unit" => /\ task[c].id \in Units /\ task[c].org \in Orgs
                                   /\ task[c].parent \in Units \cup {NoUnit}
                                   /\ task[c].type \in {"management", "department"}
         /\ task[c].op = "close" => task[c].ids \subseteq Units /\ task[c].read \subseteq Units
<1>1. task[c] \in Tasks
  BY DEF TreeTypeOK
<1> QED
  BY <1>1 DEF Tasks

\* A request that prepares something, or drops it, leaves the tree alone.
LEMMA TasksAlone ==
  ASSUME TreeIsSound, NEW c \in Clerks, NEW what \in Tasks \cup {NoTask},
         UNCHANGED <<orgs, closure, units, overtaken>>, task' = [task EXCEPT ![c] = what],
         what # NoTask /\ what.op = "create" =>
           /\ what.id \notin Created
           /\ \A d \in Clerks \ {c} : Does(d, "create") => task[d].id # what.id
           /\ IF what.parent = NoOrg THEN what.rows = {Row(what.id, what.id, 0)}
              ELSE what.parent \in Created /\ what.rows = Inherited(what.id, what.parent),
         what # NoTask /\ what.op = "archive" => what.id \in Created,
         what # NoTask /\ what.op = "unit" =>
           /\ ~UnitIsThere(what.id)
           /\ \A d \in Clerks \ {c} : Does(d, "unit") => task[d].id # what.id
           /\ FitsBelow(what.parent, what.org, what.type),
         what # NoTask /\ what.op = "close" =>
           /\ \A u \in what.ids \cup what.read : UnitIsThere(u)
           /\ \E m \in what.ids :
                /\ \A d \in what.ids \ {m} : units[d].type = "department"
                /\ units[m].type = "management" => \A u \in what.read \ what.ids : units[u].parent # m
  PROVE  TreeIsSound'
<1>1. TreeTypeOK /\ RowsFollowParents /\ CreationsAreNew /\ UnitTasksFit /\ UnitsFit
  BY DEF TreeIsSound
<1>2. task'[c] = what /\ \A d \in Clerks \ {c} : task'[d] = task[d]
  BY <1>1 DEF TreeTypeOK
<1>3. TreeTypeOK'
  BY <1>1 DEF TreeTypeOK
<1>4. Created' = Created
  BY DEF Created
<1>5. RowsFollowParents'
  BY <1>1, <1>4 DEF RowsFollowParents
<1>6. CreationsAreNew'
  <2>1. \A o, p : Inherited(o, p)' = Inherited(o, p)
    BY DEF Inherited
  <2> QED
    BY <1>1, <1>2, <1>4, <2>1 DEF CreationsAreNew, Does
<1>7. UnitTasksFit'
  <2>1. ASSUME NEW d \in Clerks, Does(d, "unit")'
        PROVE  /\ ~UnitIsThere(task'[d].id)
               /\ \A e \in Clerks \ {d} : Does(e, "unit")' => task'[e].id # task'[d].id
               /\ FitsBelow(task'[d].parent, task'[d].org, task'[d].type)
    BY <1>1, <1>2, <2>1 DEF UnitTasksFit, Does
  <2>2. ASSUME NEW d \in Clerks, Does(d, "close")'
        PROVE  /\ \A u \in task'[d].ids \cup task'[d].read : UnitIsThere(u)
               /\ \E m \in task'[d].ids :
                    /\ \A e \in task'[d].ids \ {m} : units[e].type = "department"
                    /\ units[m].type = "management" =>
                         \A u \in task'[d].read \ task'[d].ids : units[u].parent # m
    BY <1>1, <1>2, <2>2 DEF UnitTasksFit, Does
  <2> QED
    BY <2>1, <2>2 DEF UnitTasksFit, UnitIsThere, FitsBelow
<1>8. UnitsFit'
  BY <1>1 DEF UnitsFit, UnitIsThere, UnitIsActive, FitsBelow
<1>9. ArchivesAreThere'
  BY <1>2, <1>4 DEF TreeIsSound, ArchivesAreThere, Does
<1> QED
  BY <1>3, <1>5, <1>6, <1>7, <1>8, <1>9 DEF TreeIsSound

LEMMA BeginCreateIsSound ==
  ASSUME TreeIsSound, NEW c \in Clerks, BeginRoot(c) \/ BeginChild(c)
  PROVE  TreeIsSound'
<1>1. TreeTypeOK /\ RowsFollowParents
  BY DEF TreeIsSound
<1>2. CASE BeginRoot(c)
  <2>1. PICK o \in Orgs : /\ IsNew(orgs[o], "create", o)
                          /\ Prepares(c, [op |-> "create", id |-> o, parent |-> NoOrg,
                                          rows |-> {Row(o, o, 0)}])
    BY <1>2 DEF BeginRoot
  <2> DEFINE what == [op |-> "create", id |-> o, parent |-> NoOrg, rows |-> {Row(o, o, 0)}]
  <2>2. what \in Tasks
    BY DEF Tasks, Row, Rows
  <2>3. o \notin Created /\ \A d \in Clerks \ {c} : Does(d, "create") => task[d].id # o
    BY <2>1 DEF IsNew, Does, Created
  <2>4. /\ what.op = "create" /\ what.id = o /\ what.parent = NoOrg /\ what.rows = {Row(o, o, 0)}
        /\ task' = [task EXCEPT ![c] = what] /\ UNCHANGED <<orgs, closure, units, overtaken>>
    BY <2>1 DEF Prepares
  <2> HIDE DEF what
  <2> QED
    BY <2>2, <2>3, <2>4, TasksAlone
<1>3. CASE BeginChild(c)
  <2>1. PICK o \in Orgs, parent \in Orgs :
          /\ IsNew(orgs[o], "create", o) /\ OrgIsActive(parent)
          /\ Prepares(c, [op |-> "create", id |-> o, parent |-> parent, rows |-> Inherited(o, parent)])
    BY <1>3 DEF BeginChild
  <2> DEFINE what == [op |-> "create", id |-> o, parent |-> parent, rows |-> Inherited(o, parent)]
  <2>2. what \in Tasks
    <3>1. \A r \in closure : r.ancestor \in Orgs /\ r.depth \in Nat
      BY <1>1 DEF TreeTypeOK, Rows
    <3>2. Inherited(o, parent) \subseteq Rows
      BY <3>1 DEF Inherited, Row, Rows
    <3> QED
      BY <3>2 DEF Tasks
  <2>3. /\ o \notin Created /\ \A d \in Clerks \ {c} : Does(d, "create") => task[d].id # o
        /\ parent \in Created /\ parent # NoOrg
    BY <2>1, OrganizationAssumption DEF IsNew, Does, Created, OrgIsActive
  <2>4. /\ what.op = "create" /\ what.id = o /\ what.parent = parent
        /\ what.rows = Inherited(o, parent)
        /\ task' = [task EXCEPT ![c] = what] /\ UNCHANGED <<orgs, closure, units, overtaken>>
    BY <2>1 DEF Prepares
  <2> HIDE DEF what
  <2> QED
    BY <2>2, <2>3, <2>4, TasksAlone
<1> QED
  BY <1>2, <1>3

LEMMA BeginArchiveOrgIsSound ==
  ASSUME TreeIsSound, NEW c \in Clerks, BeginArchiveOrg(c)
  PROVE  TreeIsSound'
<1>1. PICK o \in Orgs : OrgIsActive(o) /\ Prepares(c, [op |-> "archive", id |-> o])
  BY DEF BeginArchiveOrg
<1> DEFINE what == [op |-> "archive", id |-> o]
<1>2. what \in Tasks /\ what.op = "archive" /\ what.id \in Created
  BY <1>1 DEF Tasks, OrgIsActive, Created
<1>3. task' = [task EXCEPT ![c] = what] /\ UNCHANGED <<orgs, closure, units, overtaken>>
  BY <1>1 DEF Prepares
<1> HIDE DEF what
<1> QED
  BY <1>2, <1>3, TasksAlone

LEMMA BeginUnitIsSound ==
  ASSUME TreeIsSound, NEW c \in Clerks, BeginUnit(c)
  PROVE  TreeIsSound'
<1>1. PICK u \in Units, org \in Orgs, parent \in Units \cup {NoUnit},
           type \in {"management", "department"} :
        /\ IsNew(units[u], "unit", u) /\ ParentFits(parent, org, type)
        /\ Prepares(c, [op |-> "unit", id |-> u, org |-> org, parent |-> parent, type |-> type])
  BY DEF BeginUnit
<1> DEFINE what == [op |-> "unit", id |-> u, org |-> org, parent |-> parent, type |-> type]
<1>2. what \in Tasks
  BY DEF Tasks
<1>3. /\ ~UnitIsThere(u) /\ \A d \in Clerks \ {c} : Does(d, "unit") => task[d].id # u
      /\ FitsBelow(parent, org, type)
  BY <1>1 DEF IsNew, Does, UnitIsThere, ParentFits, FitsBelow, UnitIsActive
<1>4. /\ what.op = "unit" /\ what.id = u /\ what.org = org /\ what.parent = parent
      /\ what.type = type
      /\ task' = [task EXCEPT ![c] = what] /\ UNCHANGED <<orgs, closure, units, overtaken>>
  BY <1>1 DEF Prepares
<1> HIDE DEF what
<1> QED
  BY <1>2, <1>3, <1>4, TasksAlone

\* A management is archived with the departments it has, and they are departments.
LEMMA BeginArchiveUnitIsSound ==
  ASSUME TreeIsSound, NEW c \in Clerks, BeginArchiveUnit(c)
  PROVE  TreeIsSound'
<1>1. PICK m \in Units :
        /\ UnitIsActive(m)
        /\ Prepares(c, [op |-> "close", ids |-> WithDepartments(m),
                        read |-> {d \in Units : UnitIsActive(d)}])
  BY DEF BeginArchiveUnit
<1> DEFINE active == {d \in Units : UnitIsActive(d)}
           what == [op |-> "close", ids |-> WithDepartments(m), read |-> active]
<1>2. UnitsFit
  BY DEF TreeIsSound
<1>3. /\ WithDepartments(m) \subseteq Units /\ m \in WithDepartments(m)
      /\ \A u \in WithDepartments(m) \cup active : UnitIsThere(u)
  BY <1>1 DEF WithDepartments, UnitIsActive, UnitIsThere
<1>4. \A d \in WithDepartments(m) \ {m} : units[d].type = "department"
  <2>1. m # NoUnit
    BY <1>1, OrganizationAssumption
  <2> QED
    BY <1>2, <2>1 DEF WithDepartments, UnitIsActive, UnitIsThere, UnitsFit, FitsBelow
<1>5. units[m].type = "management" => \A u \in active \ WithDepartments(m) : units[u].parent # m
  BY DEF WithDepartments
<1>6. what \in Tasks
  BY <1>3 DEF Tasks
<1>7. /\ what.op = "close" /\ what.ids = WithDepartments(m) /\ what.read = active
      /\ task' = [task EXCEPT ![c] = what] /\ UNCHANGED <<orgs, closure, units, overtaken>>
  BY <1>1 DEF Prepares
<1> HIDE DEF what, active
<1> QED
  BY <1>3, <1>4, <1>5, <1>6, <1>7, TasksAlone, ZenonT(30)

LEMMA RollBackTaskIsSound ==
  ASSUME TreeIsSound, NEW c \in Clerks, RollBackTask(c)
  PROVE  TreeIsSound'
BY TasksAlone DEF RollBackTask

-----------------------------------------------------------------------------
(* The tree: commits *)

LEMMA CreatedIsFinite == IsFiniteSet(Created) /\ Cardinality(Created) \in Nat
<1>1. IsFiniteSet(Created)
  BY OrganizationAssumption, FS_Subset DEF Created
<1> QED
  BY <1>1, FS_CardinalityType

\* The rows of a new organization follow parents if those of its parent do.
LEMMA CommitCreateIsSound ==
  ASSUME TreeIsSound, NEW c \in Clerks, CommitCreate(c)
  PROVE  TreeIsSound'
<1> DEFINE o == task[c].id
           p == task[c].parent
           new == task[c].rows
<1>1. TreeTypeOK /\ RowsFollowParents /\ CreationsAreNew /\ UnitTasksFit /\ UnitsFit
  BY DEF TreeIsSound
<1>2. /\ Does(c, "create") /\ task' = [task EXCEPT ![c] = NoTask]
      /\ orgs' = [orgs EXCEPT ![o] = [state |-> "active", parent |-> p]]
      /\ closure' = closure \cup new /\ UNCHANGED <<units, overtaken>>
  BY DEF CommitCreate, Does
<1>3. o \in Orgs /\ p \in Orgs \cup {NoOrg} /\ new \subseteq Rows
  BY <1>1, <1>2, TaskTypes DEF Does
<1>4. /\ o \notin Created
      /\ \A d \in Clerks \ {c} : Does(d, "create") => task[d].id # o
      /\ IF p = NoOrg THEN new = {Row(o, o, 0)} ELSE p \in Created /\ new = Inherited(o, p)
  BY <1>1, <1>2 DEF CreationsAreNew
<1>5. /\ orgs'[o].state = "active" /\ orgs'[o].parent = p
      /\ \A x \in Orgs \ {o} : orgs'[x] = orgs[x]
  BY <1>1, <1>2, <1>3 DEF TreeTypeOK
<1>6. Created' = Created \cup {o} /\ Created \subseteq Orgs
  BY <1>3, <1>4, <1>5 DEF Created
<1>7. Cardinality(Created') = Cardinality(Created) + 1 /\ Cardinality(Created) \in Nat
  BY <1>4, <1>6, CreatedIsFinite, FS_AddElement
<1>8. TreeTypeOK'
  <2>1. orgs' \in [Orgs -> [state : {"none", "active", "archived"}, parent : Orgs \cup {NoOrg}]]
    BY <1>1, <1>2, <1>3 DEF TreeTypeOK
  <2>2. closure' \subseteq Rows /\ task' \in [Clerks -> Tasks \cup {NoTask}]
    BY <1>1, <1>2, <1>3 DEF TreeTypeOK
  <2> QED
    BY <1>1, <1>2, <2>1, <2>2 DEF TreeTypeOK
<1>9. \A r \in closure : /\ r \in Rows /\ r.depth \in Nat
                         /\ r.ancestor \in Created /\ r.descendant \in Created
                         /\ r.ancestor # o /\ r.descendant # o
  BY <1>1, <1>4 DEF TreeTypeOK, Rows, RowsFollowParents
\* What the new rows are
<1>10. Row(o, o, 0) \in new
  BY <1>4 DEF Inherited
<1>11. ASSUME NEW r \in new
       PROVE  \/ r = Row(o, o, 0)
              \/ /\ p \in Created
                 /\ \E q \in closure : q.descendant = p /\ r = Row(q.ancestor, o, q.depth + 1)
  BY <1>4 DEF Inherited
<1>12. ASSUME NEW q \in closure, q.descendant = p, p # NoOrg
       PROVE  Row(q.ancestor, o, q.depth + 1) \in new
  BY <1>4, <1>12 DEF Inherited
<1>13. RowsFollowParents'
  <2>1. \A x \in Created' : Row(x, x, 0) \in closure'
    BY <1>1, <1>2, <1>6, <1>10 DEF RowsFollowParents
  <2>2. \A x \in Created' : orgs'[x].parent # NoOrg => orgs'[x].parent \in Created'
    BY <1>1, <1>4, <1>5, <1>6 DEF RowsFollowParents
  <2>3. ASSUME NEW r \in closure'
        PROVE  /\ r.ancestor \in Created' /\ r.descendant \in Created'
               /\ r.depth < Cardinality(Created')
               /\ orgs'[r.ancestor].parent # NoOrg =>
                    Row(orgs'[r.ancestor].parent, r.descendant, r.depth + 1) \in closure'
               /\ \/ r = Row(r.descendant, r.descendant, 0)
                  \/ \E q \in closure' : /\ q.descendant = r.descendant /\ r.depth = q.depth + 1
                                         /\ orgs'[q.ancestor].parent = r.ancestor
    <3>1. CASE r \in closure
      <4>1. orgs'[r.ancestor] = orgs[r.ancestor]
        BY <1>5, <1>6, <1>9, <3>1
      <4>2. r.depth < Cardinality(Created')
        BY <1>1, <1>7, <1>9, <3>1 DEF RowsFollowParents
      <4>3. \/ r = Row(r.descendant, r.descendant, 0)
            \/ \E q \in closure' : /\ q.descendant = r.descendant /\ r.depth = q.depth + 1
                                   /\ orgs'[q.ancestor].parent = r.ancestor
        BY <1>1, <1>2, <1>5, <1>6, <1>9, <3>1 DEF RowsFollowParents
      <4> QED
        BY <1>1, <1>2, <1>6, <3>1, <4>1, <4>2, <4>3 DEF RowsFollowParents
    <3>2. CASE r = Row(o, o, 0)
      <4>1. r.ancestor = o /\ r.descendant = o /\ r.depth = 0
        BY <3>2 DEF Row
      <4>2. p # NoOrg => Row(p, o, 1) \in new
        <5> HAVE p # NoOrg
        <5>1. Row(p, p, 0) \in closure
          BY <1>1, <1>4 DEF RowsFollowParents
        <5> QED
          BY <1>12, <5>1 DEF Row
      <4> QED
        BY <1>2, <1>5, <1>6, <1>7, <3>2, <4>1, <4>2
    <3>3. ASSUME p \in Created, NEW q \in closure, q.descendant = p,
                 r = Row(q.ancestor, o, q.depth + 1)
          PROVE  /\ r.ancestor \in Created' /\ r.descendant \in Created'
                 /\ r.depth < Cardinality(Created')
                 /\ orgs'[r.ancestor].parent # NoOrg =>
                      Row(orgs'[r.ancestor].parent, r.descendant, r.depth + 1) \in closure'
                 /\ \E s \in closure' : /\ s.descendant = r.descendant /\ r.depth = s.depth + 1
                                        /\ orgs'[s.ancestor].parent = r.ancestor
      <4>1. r.ancestor = q.ancestor /\ r.descendant = o /\ r.depth = q.depth + 1 /\ p # NoOrg
        BY <1>6, <3>3, OrganizationAssumption DEF Row
      <4>2. r.ancestor \in Created /\ orgs'[r.ancestor] = orgs[r.ancestor]
        BY <1>5, <1>6, <1>9, <4>1
      <4>3. r.depth < Cardinality(Created')
        BY <1>1, <1>7, <1>9, <4>1 DEF RowsFollowParents
      <4>4. ASSUME orgs[r.ancestor].parent # NoOrg
            PROVE  Row(orgs[r.ancestor].parent, o, r.depth + 1) \in closure'
        <5>1. Row(orgs[q.ancestor].parent, p, q.depth + 1) \in closure
          BY <1>1, <3>3, <4>1, <4>4 DEF RowsFollowParents
        <5>2. Row(orgs[q.ancestor].parent, o, (q.depth + 1) + 1) \in new
          BY <1>12, <4>1, <5>1 DEF Row
        <5> QED
          BY <1>2, <4>1, <5>2
      <4>5. \E s \in closure' : /\ s.descendant = o /\ r.depth = s.depth + 1
                                /\ orgs'[s.ancestor].parent = r.ancestor
        <5>1. CASE q = Row(p, p, 0)
          <6>1. Row(o, o, 0).descendant = o /\ Row(o, o, 0).depth = 0 /\ Row(o, o, 0).ancestor = o
            BY DEF Row
          <6>2. r.depth = 1 /\ r.ancestor = p
            BY <4>1, <5>1 DEF Row
          <6>3. Row(o, o, 0) \in closure'
            BY <1>2, <1>10
          <6> QED
            BY <1>5, <6>1, <6>2, <6>3
        <5>2. ASSUME NEW t \in closure, t.descendant = p, q.depth = t.depth + 1,
                     orgs[t.ancestor].parent = q.ancestor
              PROVE  \E s \in closure' : /\ s.descendant = o /\ r.depth = s.depth + 1
                                         /\ orgs'[s.ancestor].parent = r.ancestor
          <6> DEFINE s == Row(t.ancestor, o, t.depth + 1)
          <6>1. s \in closure'
            BY <1>2, <1>12, <4>1, <5>2
          <6>2. s.descendant = o /\ s.ancestor = t.ancestor /\ s.depth = t.depth + 1
            BY DEF Row
          <6>3. orgs'[t.ancestor] = orgs[t.ancestor]
            BY <1>5, <1>6, <1>9
          <6> HIDE DEF s
          <6> QED
            BY <4>1, <5>2, <6>1, <6>2, <6>3
        <5> QED
          BY <1>1, <3>3, <5>1, <5>2 DEF RowsFollowParents
      <4> QED
        BY <1>6, <4>1, <4>2, <4>3, <4>4, <4>5
    <3> QED
      BY <1>2, <1>11, <3>1, <3>2, <3>3
  <2> QED
    BY <2>1, <2>2, <2>3 DEF RowsFollowParents
<1>14. CreationsAreNew'
  <2>1. task'[c] = NoTask /\ \A e \in Clerks \ {c} : task'[e] = task[e]
    BY <1>1, <1>2 DEF TreeTypeOK
  <2>2. ASSUME NEW x, NEW y \in Created PROVE Inherited(x, y)' = Inherited(x, y)
    <3>1. \A r \in new : r.descendant = o
      BY <1>11 DEF Row
    <3>2. {r \in closure' : r.descendant = y} = {r \in closure : r.descendant = y}
      BY <1>2, <1>4, <3>1
    <3> QED
      BY <3>2 DEF Inherited
  <2>3. ASSUME NEW d \in Clerks, Does(d, "create")'
        PROVE  /\ d # c /\ task'[d] = task[d]
               /\ task[d].id \notin Created /\ task[d].id # o
               /\ \A e \in Clerks \ {d} : Does(e, "create")' => task'[e].id # task'[d].id
               /\ IF task[d].parent = NoOrg THEN task[d].rows = {Row(task[d].id, task[d].id, 0)}
                  ELSE /\ task[d].parent \in Created
                       /\ task[d].rows = Inherited(task[d].id, task[d].parent)
    <3>1. d # c /\ task'[d] = task[d] /\ Does(d, "create")
      BY <2>1, <2>3 DEF Does
    <3>2. task[d].id # o
      BY <1>4, <3>1
    <3>3. \A e \in Clerks \ {d} : Does(e, "create")' => task'[e].id # task'[d].id
      BY <1>1, <2>1, <3>1 DEF CreationsAreNew, Does
    <3> QED
      BY <1>1, <3>1, <3>2, <3>3 DEF CreationsAreNew
  <2> QED
    BY <1>6, <2>2, <2>3 DEF CreationsAreNew
<1>15. UnitTasksFit' /\ UnitsFit'
  <2>1. task'[c] = NoTask /\ \A e \in Clerks \ {c} : task'[e] = task[e]
    BY <1>1, <1>2 DEF TreeTypeOK
  <2>2. UnitTasksFit'
    BY <1>1, <1>2, <2>1 DEF UnitTasksFit, Does, UnitIsThere, FitsBelow
  <2> QED
    BY <1>1, <1>2, <2>2 DEF UnitsFit, UnitIsThere, UnitIsActive, FitsBelow
<1>16. ArchivesAreThere'
  <2>1. task'[c] = NoTask /\ \A e \in Clerks \ {c} : task'[e] = task[e]
    BY <1>1, <1>2 DEF TreeTypeOK
  <2> QED
    BY <1>6, <2>1 DEF TreeIsSound, ArchivesAreThere, Does
<1> QED
  BY <1>8, <1>13, <1>14, <1>15, <1>16 DEF TreeIsSound

\* Archiving leaves the tree as it is.
LEMMA CommitArchiveOrgIsSound ==
  ASSUME TreeIsSound, NEW c \in Clerks, CommitArchiveOrg(c)
  PROVE  TreeIsSound'
<1> DEFINE o == task[c].id
<1>1. /\ TreeTypeOK /\ RowsFollowParents /\ CreationsAreNew /\ ArchivesAreThere
      /\ UnitTasksFit /\ UnitsFit
  BY DEF TreeIsSound
<1>2. /\ Does(c, "archive") /\ task' = [task EXCEPT ![c] = NoTask]
      /\ orgs' = [orgs EXCEPT ![o].state = "archived"]
      /\ UNCHANGED <<closure, units, overtaken>>
  BY DEF CommitArchiveOrg, Does
<1>3. o \in Created /\ o \in Orgs /\ task'[c] = NoTask /\ \A d \in Clerks \ {c} : task'[d] = task[d]
  BY <1>1, <1>2 DEF ArchivesAreThere, Created, TreeTypeOK
<1>4. /\ \A x \in Orgs : orgs'[x].parent = orgs[x].parent
      /\ \A x \in Orgs \ {o} : orgs'[x] = orgs[x]
      /\ orgs'[o].state = "archived"
  BY <1>1, <1>2, <1>3 DEF TreeTypeOK
<1>5. Created' = Created /\ Created \subseteq Orgs
  BY <1>3, <1>4 DEF Created
<1>6. TreeTypeOK'
  <2>1. orgs' \in [Orgs -> [state : {"none", "active", "archived"}, parent : Orgs \cup {NoOrg}]]
    BY <1>1, <1>2, <1>3 DEF TreeTypeOK
  <2> QED
    BY <1>1, <1>2, <2>1 DEF TreeTypeOK
<1>7. RowsFollowParents'
  <2>1. \A r \in closure : r.ancestor \in Orgs
    BY <1>1 DEF TreeTypeOK, Rows
  <2> QED
    BY <1>1, <1>2, <1>4, <1>5, <2>1 DEF RowsFollowParents
<1>8. CreationsAreNew' /\ ArchivesAreThere'
  <2>1. \A x, y : Inherited(x, y)' = Inherited(x, y)
    BY <1>2 DEF Inherited
  <2> QED
    BY <1>1, <1>3, <1>5, <2>1 DEF CreationsAreNew, ArchivesAreThere, Does
<1>9. UnitTasksFit' /\ UnitsFit'
  <2>1. UnitTasksFit'
    BY <1>1, <1>2, <1>3 DEF UnitTasksFit, Does, UnitIsThere, FitsBelow
  <2> QED
    BY <1>1, <1>2, <2>1 DEF UnitsFit, UnitIsThere, UnitIsActive, FitsBelow
<1> QED
  BY <1>6, <1>7, <1>8, <1>9 DEF TreeIsSound

\* Steps that change units alone
LEMMA OrganizationsStay ==
  ASSUME TreeIsSound, NEW c \in Clerks, task' = [task EXCEPT ![c] = NoTask],
         UNCHANGED <<orgs, closure>>
  PROVE  RowsFollowParents' /\ CreationsAreNew' /\ ArchivesAreThere'
<1>1. TreeTypeOK /\ RowsFollowParents /\ CreationsAreNew /\ ArchivesAreThere
  BY DEF TreeIsSound
<1>2. task'[c] = NoTask /\ \A d \in Clerks \ {c} : task'[d] = task[d]
  BY <1>1 DEF TreeTypeOK
<1>3. Created' = Created /\ \A x, y : Inherited(x, y)' = Inherited(x, y)
  BY DEF Created, Inherited
<1> QED
  BY <1>1, <1>2, <1>3 DEF RowsFollowParents, CreationsAreNew, ArchivesAreThere, Does

\* A department is created below a management of its organization, which is
\* active, or else it is overtaken.
LEMMA CommitUnitIsSound ==
  ASSUME TreeIsSound, NEW c \in Clerks, CommitUnit(c)
  PROVE  TreeIsSound'
<1> DEFINE u == task[c].id
           row == [state |-> "active", org |-> task[c].org, parent |-> task[c].parent,
                   type |-> task[c].type]
<1>1. TreeTypeOK /\ UnitTasksFit /\ UnitsFit
  BY DEF TreeIsSound
<1>2. /\ Does(c, "unit") /\ task' = [task EXCEPT ![c] = NoTask]
      /\ units' = [units EXCEPT ![u] = row]
      /\ overtaken' = IF task[c].parent # NoUnit /\ ~UnitIsActive(task[c].parent)
                      THEN overtaken \cup {u} ELSE overtaken
      /\ UNCHANGED <<orgs, closure>>
  BY DEF CommitUnit, Does
<1>3. /\ u \in Units /\ task[c].org \in Orgs /\ task[c].parent \in Units \cup {NoUnit}
      /\ task[c].type \in {"management", "department"}
      /\ task'[c] = NoTask /\ \A d \in Clerks \ {c} : task'[d] = task[d]
  BY <1>1, <1>2, TaskTypes DEF Does, TreeTypeOK
<1>4. /\ ~UnitIsThere(u) /\ \A d \in Clerks \ {c} : Does(d, "unit") => task[d].id # u
      /\ FitsBelow(task[c].parent, task[c].org, task[c].type)
  BY <1>1, <1>2 DEF UnitTasksFit
<1>5. /\ units'[u] = row /\ \A x \in Units \ {u} : units'[x] = units[x]
      /\ row.state = "active" /\ row.org = task[c].org /\ row.parent = task[c].parent
      /\ row.type = task[c].type
  BY <1>1, <1>2, <1>3 DEF TreeTypeOK
<1>6. TreeTypeOK'
  <2>1. row \in [state : {"none", "active", "archived"}, org : Orgs \cup {NoOrg},
                 parent : Units \cup {NoUnit}, type : {"management", "department"}]
    BY <1>3
  <2> HIDE DEF row
  <2> QED
    BY <1>1, <1>2, <1>3, <2>1 DEF TreeTypeOK
<1>7. \A x : UnitIsThere(x) => x # u /\ UnitIsThere(x)' /\ units'[x] = units[x]
  BY <1>4, <1>5 DEF UnitIsThere
<1>8. \A parent, org, type : FitsBelow(parent, org, type) => FitsBelow(parent, org, type)'
  BY <1>7 DEF FitsBelow
<1>9. UnitTasksFit'
  <2>1. ASSUME NEW d \in Clerks, Does(d, "unit")'
        PROVE  /\ d # c /\ task'[d] = task[d] /\ ~UnitIsThere(task[d].id)'
               /\ \A e \in Clerks \ {d} : Does(e, "unit")' => task'[e].id # task[d].id
               /\ FitsBelow(task[d].parent, task[d].org, task[d].type)
    <3>1. d # c /\ task'[d] = task[d] /\ Does(d, "unit")
      BY <1>3, <2>1 DEF Does
    <3>2. task[d].id \in Units /\ task[d].id # u
      BY <1>1, <1>4, <3>1, TaskTypes DEF Does
    <3>3. ~UnitIsThere(task[d].id)'
      BY <1>1, <1>5, <3>1, <3>2 DEF UnitTasksFit, UnitIsThere
    <3>4. \A e \in Clerks \ {d} : Does(e, "unit")' => task'[e].id # task[d].id
      BY <1>1, <1>3, <3>1 DEF UnitTasksFit, Does
    <3> QED
      BY <1>1, <3>1, <3>3, <3>4 DEF UnitTasksFit
  <2>2. ASSUME NEW d \in Clerks, Does(d, "close")'
        PROVE  /\ task'[d] = task[d]
               /\ \A x \in task[d].ids \cup task[d].read : UnitIsThere(x) /\ units'[x] = units[x]
               /\ \E m \in task[d].ids :
                    /\ \A e \in task[d].ids \ {m} : units[e].type = "department"
                    /\ units[m].type = "management" =>
                         \A x \in task[d].read \ task[d].ids : units[x].parent # m
    <3>1. d # c /\ task'[d] = task[d] /\ Does(d, "close")
      BY <1>3, <2>2 DEF Does
    <3> QED
      BY <1>1, <1>7, <3>1 DEF UnitTasksFit
  <2>3. ASSUME NEW d \in Clerks, Does(d, "close")'
        PROVE  /\ \A x \in task'[d].ids \cup task'[d].read : UnitIsThere(x)'
               /\ \E m \in task'[d].ids :
                    /\ \A e \in task'[d].ids \ {m} : units'[e].type = "department"
                    /\ units'[m].type = "management" =>
                         \A x \in task'[d].read \ task'[d].ids : units'[x].parent # m
    BY <1>7, <2>2, <2>3
  <2>4. ASSUME NEW d \in Clerks, Does(d, "unit")'
        PROVE  /\ ~UnitIsThere(task[d].id)' /\ task'[d] = task[d]
               /\ FitsBelow(task[d].parent, task[d].org, task[d].type)'
    BY <1>8, <2>1, <2>4
  <2> QED
    BY <2>1, <2>3, <2>4 DEF UnitTasksFit, UnitIsThere, FitsBelow
<1>10. UnitsFit'
  <2>1. ASSUME NEW x \in Units, UnitIsThere(x)'
        PROVE  FitsBelow(units'[x].parent, units'[x].org, units'[x].type)
    <3>1. CASE x = u
      BY <1>4, <1>5, <3>1
    <3>2. CASE x # u
      BY <1>1, <1>5, <2>1, <3>2 DEF UnitsFit, UnitIsThere
    <3> QED
      BY <3>1, <3>2
  <2>2. ASSUME NEW x \in Units, UnitIsThere(x)',
               units'[x].parent # NoUnit
        PROVE  /\ units'[x].parent \in Units /\ units'[units'[x].parent].state # "none"
               /\ units'[x].type = "department"
               /\ units'[units'[x].parent].type = "management"
               /\ units'[units'[x].parent].org = units'[x].org
    BY <1>7, <2>1, <2>2 DEF FitsBelow, UnitIsThere
  <2>3. ASSUME NEW x \in Units, UnitIsActive(x)', units'[x].parent # NoUnit, x \notin overtaken'
        PROVE  units'[x].parent \in Units /\ units'[units'[x].parent].state = "active"
    <3>1. CASE x = u
      <4>1. UnitIsActive(task[c].parent) /\ task[c].parent # u
        BY <1>2, <1>4, <1>5, <2>3, <3>1 DEF UnitIsActive, UnitIsThere
      <4> QED
        BY <1>5, <3>1, <4>1 DEF UnitIsActive
    <3>2. CASE x # u
      <4>1. UnitIsActive(x) /\ x \notin overtaken /\ units'[x] = units[x]
        BY <1>2, <1>5, <2>3, <3>2 DEF UnitIsActive
      <4>2. UnitIsActive(units[x].parent) /\ units[x].parent # u
        BY <1>1, <1>4, <2>3, <4>1 DEF UnitsFit, UnitIsActive, UnitIsThere
      <4> QED
        BY <1>5, <4>1, <4>2 DEF UnitIsActive
    <3> QED
      BY <3>1, <3>2
  <2> QED
    BY <2>2, <2>3 DEF UnitsFit, FitsBelow, UnitIsThere, UnitIsActive
<1> QED
  BY <1>2, <1>6, <1>9, <1>10, OrganizationsStay DEF TreeIsSound

\* A management takes along every department it had when it was read; those
\* that came meanwhile are overtaken.
LEMMA CommitArchiveUnitIsSound ==
  ASSUME TreeIsSound, NEW c \in Clerks, CommitArchiveUnit(c)
  PROVE  TreeIsSound'
<1> DEFINE ids == task[c].ids
           read == task[c].read
<1>1. TreeTypeOK /\ UnitTasksFit /\ UnitsFit
  BY DEF TreeIsSound
<1>2. /\ Does(c, "close") /\ task' = [task EXCEPT ![c] = NoTask]
      /\ units' = [u \in Units |-> IF u \in ids THEN [units[u] EXCEPT !.state = "archived"]
                                   ELSE units[u]]
      /\ overtaken' = overtaken \cup {u \in Units : /\ UnitIsActive(u) /\ u \notin read
                                                   /\ units[u].parent \in ids}
      /\ UNCHANGED <<orgs, closure>>
  BY DEF CommitArchiveUnit, Does
<1>3. /\ ids \subseteq Units /\ read \subseteq Units
      /\ task'[c] = NoTask /\ \A d \in Clerks \ {c} : task'[d] = task[d]
  BY <1>1, <1>2, TaskTypes DEF Does, TreeTypeOK
<1>4. /\ \A u \in ids \cup read : UnitIsThere(u)
      /\ \E m \in ids : /\ \A d \in ids \ {m} : units[d].type = "department"
                        /\ units[m].type = "management" => \A u \in read \ ids : units[u].parent # m
  BY <1>1, <1>2 DEF UnitTasksFit
<1>5. \A u \in Units : /\ units'[u].parent = units[u].parent /\ units'[u].org = units[u].org
                       /\ units'[u].type = units[u].type
                       /\ units'[u].state = IF u \in ids THEN "archived" ELSE units[u].state
  BY <1>1, <1>2 DEF TreeTypeOK
<1>6. TreeTypeOK'
  <2>1. units' \in [Units -> [state : {"none", "active", "archived"}, org : Orgs \cup {NoOrg},
                              parent : Units \cup {NoUnit}, type : {"management", "department"}]]
    BY <1>1, <1>2 DEF TreeTypeOK
  <2> QED
    BY <1>1, <1>2, <2>1 DEF TreeTypeOK
<1>7. \A u : UnitIsThere(u)' <=> UnitIsThere(u)
  BY <1>4, <1>5 DEF UnitIsThere
<1>8. \A parent, org, type : FitsBelow(parent, org, type)' <=> FitsBelow(parent, org, type)
  BY <1>5, <1>7 DEF FitsBelow, UnitIsThere
<1>9. UnitTasksFit'
  <2>1. ASSUME NEW d \in Clerks, Does(d, "unit")'
        PROVE  /\ task'[d] = task[d] /\ ~UnitIsThere(task[d].id)
               /\ \A e \in Clerks \ {d} : Does(e, "unit")' => task'[e].id # task[d].id
               /\ FitsBelow(task[d].parent, task[d].org, task[d].type)
    BY <1>1, <1>3, <2>1 DEF UnitTasksFit, Does
  <2>2. ASSUME NEW d \in Clerks, Does(d, "unit")'
        PROVE  /\ task'[d] = task[d] /\ ~UnitIsThere(task[d].id)'
               /\ FitsBelow(task[d].parent, task[d].org, task[d].type)'
    BY <1>7, <1>8, <2>1, <2>2
  <2>3. ASSUME NEW d \in Clerks, Does(d, "close")'
        PROVE  /\ task'[d] = task[d] /\ Does(d, "close")
               /\ task[d].ids \subseteq Units /\ task[d].read \subseteq Units
    BY <1>1, <1>3, <2>3, TaskTypes DEF Does
  <2>4. ASSUME NEW d \in Clerks, Does(d, "close")'
        PROVE  /\ \A u \in task'[d].ids \cup task'[d].read : u \in Units /\ units'[u].state # "none"
               /\ \E m \in task'[d].ids :
                    /\ \A e \in task'[d].ids \ {m} : units'[e].type = "department"
                    /\ units'[m].type = "management" =>
                         \A u \in task'[d].read \ task'[d].ids : units'[u].parent # m
    <3>1. /\ \A u \in task[d].ids \cup task[d].read : UnitIsThere(u)
          /\ \E m \in task[d].ids :
               /\ \A e \in task[d].ids \ {m} : units[e].type = "department"
               /\ units[m].type = "management" =>
                    \A u \in task[d].read \ task[d].ids : units[u].parent # m
      BY <1>1, <2>3, <2>4 DEF UnitTasksFit
    <3>2. \A u \in task[d].ids \cup task[d].read : u \in Units /\ units'[u].state # "none"
      BY <1>5, <3>1 DEF UnitIsThere
    <3> QED
      BY <1>5, <2>3, <2>4, <3>1, <3>2
  <2> QED
    BY <2>1, <2>2, <2>4 DEF UnitTasksFit, UnitIsThere, FitsBelow
<1>10. UnitsFit'
  <2>1. ASSUME NEW x \in Units, UnitIsThere(x)
        PROVE  FitsBelow(units[x].parent, units[x].org, units[x].type)
    BY <1>1, <2>1 DEF UnitsFit
  <2>2. ASSUME NEW x \in Units, UnitIsThere(x)', units'[x].parent # NoUnit
        PROVE  /\ units'[x].parent \in Units /\ units'[units'[x].parent].state # "none"
               /\ units'[x].type = "department"
               /\ units'[units'[x].parent].type = "management"
               /\ units'[units'[x].parent].org = units'[x].org
    <3>1. UnitIsThere(x) /\ units[x].parent # NoUnit /\ units'[x].parent = units[x].parent
      BY <1>5, <1>7, <2>2
    <3> QED
      BY <1>4, <1>5, <2>1, <3>1 DEF FitsBelow, UnitIsThere
  <2>3. ASSUME NEW x \in Units, UnitIsActive(x)', units'[x].parent # NoUnit, x \notin overtaken'
        PROVE  units'[x].parent \in Units /\ units'[units'[x].parent].state = "active"
    <3>1. /\ UnitIsActive(x) /\ UnitIsThere(x) /\ x \notin ids /\ x \notin overtaken
          /\ units'[x].parent = units[x].parent /\ units[x].parent # NoUnit
          /\ x \in read \/ units[x].parent \notin ids
      BY <1>2, <1>5, <2>3 DEF UnitIsActive, UnitIsThere
    <3>2. /\ units[x].parent \in Units /\ units[units[x].parent].state = "active"
          /\ units[units[x].parent].type = "management"
      BY <1>1, <2>1, <3>1 DEF UnitsFit, UnitIsActive, FitsBelow
    <3>3. units[x].parent \notin ids
      <4> SUFFICES ASSUME units[x].parent \in ids, x \in read PROVE FALSE
        BY <3>1
      <4> QED
        BY <1>4, <3>1, <3>2
    <3> QED
      BY <1>5, <3>1, <3>2, <3>3
  <2> QED
    BY <2>2, <2>3 DEF UnitsFit, FitsBelow, UnitIsThere, UnitIsActive
<1> QED
  BY <1>2, <1>6, <1>9, <1>10, OrganizationsStay DEF TreeIsSound

-----------------------------------------------------------------------------
(* Theorems about the tree *)

LEMMA TreeStartsSound == OrgInit => TreeIsSound
<1> SUFFICES ASSUME OrgInit PROVE TreeIsSound
  OBVIOUS
<1>1. /\ orgs = [o \in Orgs |-> [state |-> "none", parent |-> NoOrg]] /\ closure = {}
      /\ units = [u \in Units |-> [state |-> "none", org |-> NoOrg, parent |-> NoUnit,
                                   type |-> "department"]]
      /\ task = [c \in Clerks |-> NoTask] /\ overtaken = {}
  BY DEF OrgInit
<1>2. Created = {}
  BY <1>1 DEF Created
<1>3. TreeTypeOK
  BY <1>1 DEF TreeTypeOK
<1>4. RowsFollowParents
  BY <1>1, <1>2 DEF RowsFollowParents
<1>5. CreationsAreNew /\ ArchivesAreThere /\ UnitTasksFit
  BY <1>1 DEF CreationsAreNew, ArchivesAreThere, UnitTasksFit, Does
<1>6. UnitsFit
  BY <1>1 DEF UnitsFit, UnitIsThere, UnitIsActive
<1> QED
  BY <1>3, <1>4, <1>5, <1>6 DEF TreeIsSound

LEMMA TreeUnchangedIsSound ==
  ASSUME TreeIsSound, UNCHANGED treeVars
  PROVE  TreeIsSound'
<1>1. UNCHANGED <<orgs, closure, units, task, overtaken>>
  BY DEF treeVars
<1>2. Created' = Created /\ \A x, y : Inherited(x, y)' = Inherited(x, y)
  BY <1>1 DEF Created, Inherited
<1>3. TreeTypeOK' /\ RowsFollowParents'
  BY <1>1, <1>2 DEF TreeIsSound, TreeTypeOK, RowsFollowParents
<1>4. CreationsAreNew' /\ ArchivesAreThere'
  BY <1>1, <1>2 DEF TreeIsSound, CreationsAreNew, ArchivesAreThere, Does
<1>5. UnitTasksFit' /\ UnitsFit'
  BY <1>1 DEF TreeIsSound, UnitTasksFit, UnitsFit, Does, UnitIsThere, UnitIsActive, FitsBelow
<1> QED
  BY <1>3, <1>4, <1>5 DEF TreeIsSound

LEMMA TreeStaysSound == TreeIsSound /\ [OrgNext]_treeVars => TreeIsSound'
<1> SUFFICES ASSUME TreeIsSound, [OrgNext]_treeVars PROVE TreeIsSound'
  OBVIOUS
<1>1. ASSUME NEW c \in Clerks,
             \/ BeginRoot(c) \/ BeginChild(c) \/ BeginArchiveOrg(c) \/ CommitCreate(c)
             \/ CommitArchiveOrg(c) \/ BeginUnit(c) \/ BeginArchiveUnit(c) \/ CommitUnit(c)
             \/ CommitArchiveUnit(c) \/ RollBackTask(c)
      PROVE  TreeIsSound'
  BY <1>1, BeginCreateIsSound, BeginArchiveOrgIsSound, CommitCreateIsSound,
     CommitArchiveOrgIsSound, BeginUnitIsSound, BeginArchiveUnitIsSound, CommitUnitIsSound,
     CommitArchiveUnitIsSound, RollBackTaskIsSound
<1>2. CASE UNCHANGED treeVars
  BY <1>2, TreeUnchangedIsSound
<1> QED
  BY <1>1, <1>2 DEF OrgNext

\* The inductive invariant of the tree: the rows of an organization follow its
\* parents and a creation adds those of its parent; a unit is below a management.
THEOREM TreeIsAlwaysSound == OrgSpec => []TreeIsSound
BY TreeStartsSound, TreeStaysSound, PTL DEF OrgSpec

\* An active department is below an active management of its organization
\* unless it and the archiving overtook each other
\* (create_org_unit, archive_org_unit_for_actor).
THEOREM DepartmentsFollowManagementHolds == OrgSpec => []DepartmentsFollowManagement
<1>1. TreeIsSound => DepartmentsFollowManagement
  BY DEF TreeIsSound, UnitsFit, DepartmentsFollowManagement, FitsBelow, UnitIsThere, UnitIsActive
<1> QED
  BY <1>1, TreeIsAlwaysSound, PTL

-----------------------------------------------------------------------------
(* The closure and the distances along parents                             *)
(*                                                                         *)
(* What a recursive function is at every n is shown by the least n at      *)
(* which it would not be so.                                               *)

Itself == {<<o, o>> : o \in Created}
Above(pairs) == {<<orgs[p[1]].parent, p[2]>> : p \in {q \in pairs : orgs[q[1]].parent # NoOrg}}
Solves(g, m) == g = [n \in 0..m |-> IF n = 0 THEN Itself ELSE Above(g[n - 1])]

\* A set of numbers has a least one: the initial segments below them are
\* finite, and strict inclusion of finite sets is well founded.
LEMMA HasLeast ==
  ASSUME NEW S \in SUBSET Nat, S # {}
  PROVE  \E n \in S : \A m \in S : n <= m
<1> DEFINE T == {1..n : n \in S}
           R == StrictSubsetOrdering(Nat)
<1>1. T \subseteq FiniteSubsetsOf(Nat)
  <2>1. \A n \in Nat : IsFiniteSet(1..n) /\ 1..n \subseteq Nat
    BY FS_Interval
  <2> QED
    BY <2>1 DEF FiniteSubsetsOf
<1>2. T # {}
  OBVIOUS
<1>3. IsWellFoundedOn(R, FiniteSubsetsOf(Nat))
  BY FS_StrictSubsetOrderingWellFounded
<1>4. PICK s \in T : \A t \in T : <<t, s>> \notin R
  <2> HIDE DEF T, R
  <2> QED
    BY <1>1, <1>2, <1>3, WFMin
<1>5. PICK n \in S : s = 1..n
  OBVIOUS
<1>6. ASSUME NEW m \in S, ~(n <= m) PROVE FALSE
  <2>1. 1..m \in T /\ 1..m \subseteq 1..n /\ n \in 1..n /\ n \notin 1..m
    BY <1>6
  <2>2. <<1..m, 1..n>> \in R
    BY <2>1 DEF StrictSubsetOrdering
  <2> QED
    BY <1>4, <1>5, <2>1, <2>2
<1> QED
  BY <1>6
\* The equation of distance has a solution up to each number.
LEMMA SolutionExists == \A m \in Nat : \E g : Solves(g, m)
<1> DEFINE Bad == {m \in Nat : ~\E g : Solves(g, m)}
<1>1. ASSUME Bad # {} PROVE FALSE
  <2>1. PICK m \in Bad : \A k \in Bad : m <= k
    <3>1. Bad \in SUBSET Nat
      OBVIOUS
    <3> HIDE DEF Bad
    <3> QED
      BY <1>1, <3>1, HasLeast
  <2>2. m # 0
    <3>1. Solves([n \in 0..0 |-> Itself], 0)
      BY DEF Solves
    <3> QED
      BY <3>1, <2>1
  <2>3. m - 1 \in Nat /\ m - 1 \notin Bad
    BY <2>1, <2>2
  <2>4. PICK g : Solves(g, m - 1)
    BY <2>3
  <2>5. Solves([n \in 0..m |-> IF n = m THEN Above(g[m - 1]) ELSE g[n]], m)
    <3> DEFINE h == [n \in 0..m |-> IF n = m THEN Above(g[m - 1]) ELSE g[n]]
    <3>1. \A n \in 0..(m - 1) : g[n] = IF n = 0 THEN Itself ELSE Above(g[n - 1])
      BY <2>4 DEF Solves
    <3>2. \A n \in 0..m : h[n] = IF n = 0 THEN Itself ELSE Above(h[n - 1])
      BY <2>3, <2>2, <3>1
    <3>3. h = [n \in 0..m |-> IF n = 0 THEN Itself ELSE Above(h[n - 1])]
      BY <3>2
    <3> QED
      BY <3>3 DEF Solves
  <2> QED
    BY <2>1, <2>5
<1> QED
  BY <1>1

LEMMA DistanceUnfolds ==
  \A n \in 0..Cardinality(Orgs) :
    distance[n] = IF n = 0 THEN Itself ELSE Above(distance[n - 1])
<1>1. Cardinality(Orgs) \in Nat
  BY FS_CardinalityType, OrganizationAssumption
<1>2. \E g : g = [n \in 0..Cardinality(Orgs) |->
                    IF n = 0 THEN {<<o, o>> : o \in Created}
                    ELSE {<<orgs[p[1]].parent, p[2]>> :
                            p \in {q \in g[n - 1] : orgs[q[1]].parent # NoOrg}}]
  BY <1>1, SolutionExists DEF Solves, Itself, Above
<1>3. distance = [n \in 0..Cardinality(Orgs) |->
                    IF n = 0 THEN {<<o, o>> : o \in Created}
                    ELSE {<<orgs[p[1]].parent, p[2]>> :
                            p \in {q \in distance[n - 1] : orgs[q[1]].parent # NoOrg}}]
  BY <1>2 DEF distance
<1> QED
  BY <1>3 DEF Itself, Above

RowsAt(n) == {r \in closure : r.depth = n}
PairsAt(n) == {<<r.ancestor, r.descendant>> : r \in RowsAt(n)}

LEMMA PairsUnfold ==
  ASSUME TreeIsSound
  PROVE  /\ PairsAt(0) = Itself
         /\ \A n \in Nat : n # 0 => PairsAt(n) = Above(PairsAt(n - 1))
<1>1. RowsFollowParents /\ closure \subseteq Rows /\ Created \subseteq Orgs
  BY DEF TreeIsSound, TreeTypeOK, Created
<1>2. \A r \in closure : r.depth \in Nat /\ r.ancestor \in Created /\ r.descendant \in Created
  BY <1>1 DEF RowsFollowParents, Rows
<1>3. PairsAt(0) \subseteq Itself
  <2> SUFFICES ASSUME NEW r \in closure, r.depth = 0
               PROVE  <<r.ancestor, r.descendant>> \in Itself
    BY DEF PairsAt, RowsAt
  <2>1. r = Row(r.descendant, r.descendant, 0)
    BY <1>1, <1>2 DEF RowsFollowParents
  <2>2. r.ancestor = r.descendant
    BY <2>1 DEF Row
  <2> QED
    BY <1>2, <2>2 DEF Itself
<1>4. Itself \subseteq PairsAt(0)
  <2> SUFFICES ASSUME NEW o \in Created PROVE <<o, o>> \in PairsAt(0)
    BY DEF Itself
  <2>1. Row(o, o, 0) \in closure
    BY <1>1 DEF RowsFollowParents
  <2>2. Row(o, o, 0) \in RowsAt(0)
    BY <2>1 DEF RowsAt, Row
  <2> QED
    BY <2>2 DEF PairsAt, Row
<1>5. ASSUME NEW n \in Nat, n # 0 PROVE PairsAt(n) \subseteq Above(PairsAt(n - 1))
  <2> SUFFICES ASSUME NEW r \in closure, r.depth = n
               PROVE  <<r.ancestor, r.descendant>> \in Above(PairsAt(n - 1))
    BY DEF PairsAt, RowsAt
  <2>1. PICK q \in closure : /\ q.descendant = r.descendant /\ r.depth = q.depth + 1
                             /\ orgs[q.ancestor].parent = r.ancestor
    <3>1. r # Row(r.descendant, r.descendant, 0)
      BY <1>5 DEF Row
    <3> QED
      BY <1>1, <3>1 DEF RowsFollowParents
  <2>2. q \in RowsAt(n - 1) /\ r.ancestor # NoOrg
    BY <1>1, <1>2, <2>1, OrganizationAssumption DEF RowsAt
  <2>3. <<q.ancestor, q.descendant>> \in PairsAt(n - 1)
    BY <2>2 DEF PairsAt
  <2> HIDE DEF PairsAt
  <2> QED
    BY <2>1, <2>2, <2>3 DEF Above
<1>6. ASSUME NEW n \in Nat, n # 0 PROVE Above(PairsAt(n - 1)) \subseteq PairsAt(n)
  <2> SUFFICES ASSUME NEW q \in closure, q.depth = n - 1, orgs[q.ancestor].parent # NoOrg
               PROVE  <<orgs[q.ancestor].parent, q.descendant>> \in PairsAt(n)
    BY DEF PairsAt, RowsAt, Above
  <2>1. Row(orgs[q.ancestor].parent, q.descendant, n) \in closure
    <3>1. q.depth + 1 = n
      BY <1>6
    <3> QED
      BY <1>1, <3>1 DEF RowsFollowParents
  <2>2. Row(orgs[q.ancestor].parent, q.descendant, n) \in RowsAt(n)
    BY <2>1 DEF RowsAt, Row
  <2> QED
    BY <2>2 DEF PairsAt, Row
<1> QED
  BY <1>3, <1>4, <1>5, <1>6

LEMMA DistancesAreDepths ==
  ASSUME TreeIsSound
  PROVE  \A n \in 0..Cardinality(Orgs) : distance[n] = PairsAt(n)
<1>1. Cardinality(Orgs) \in Nat
  BY FS_CardinalityType, OrganizationAssumption
<1> DEFINE Bad == {n \in 0..Cardinality(Orgs) : distance[n] # PairsAt(n)}
<1>2. ASSUME Bad # {} PROVE FALSE
  <2>1. Bad \in SUBSET Nat
    BY <1>1
  <2>2. PICK m \in Bad : \A k \in Bad : m <= k
    <3> HIDE DEF Bad
    <3> QED
      BY <1>2, <2>1, HasLeast
  <2>3. m # 0
    BY <1>1, <2>2, DistanceUnfolds, PairsUnfold
  <2>4. m \in Nat /\ m - 1 \in 0..Cardinality(Orgs) /\ m - 1 \notin Bad
    BY <1>1, <2>2, <2>3
  <2>5. distance[m - 1] = PairsAt(m - 1)
    BY <2>4
  <2>6. distance[m] = Above(distance[m - 1]) /\ PairsAt(m) = Above(PairsAt(m - 1))
    BY <2>2, <2>3, <2>4, DistanceUnfolds, PairsUnfold
  <2> QED
    BY <2>2, <2>5, <2>6
<1> QED
  BY <1>2

\* The closure table has, for every organization, exactly its ancestors at
\* their distances, however many requests create organizations at a time
\* (create_root, create_child).
THEOREM ClosureFollowsParentsHolds == OrgSpec => []ClosureFollowsParents
<1>1. ASSUME TreeIsSound PROVE ClosureFollowsParents
  <2>1. \A r \in closure : r = Row(r.ancestor, r.descendant, r.depth) /\ r.depth \in Nat
    BY <1>1 DEF TreeIsSound, TreeTypeOK, Rows, Row
  <2>2. \A r \in closure : r.depth \in 0..Cardinality(Orgs)
    <3>1. Created \subseteq Orgs
      BY DEF Created
    <3>2. Cardinality(Created) <= Cardinality(Orgs) /\ Cardinality(Orgs) \in Nat
          /\ Cardinality(Created) \in Nat
      BY <3>1, FS_Subset, FS_CardinalityType, OrganizationAssumption
    <3>3. \A r \in closure : r.depth < Cardinality(Created)
      BY <1>1 DEF TreeIsSound, RowsFollowParents
    <3> QED
      BY <2>1, <3>2, <3>3
  <2>3. \A n \in 0..Cardinality(Orgs) : {Row(p[1], p[2], n) : p \in distance[n]} = RowsAt(n)
    <3> SUFFICES ASSUME NEW n \in 0..Cardinality(Orgs)
                 PROVE  {Row(p[1], p[2], n) : p \in PairsAt(n)} = RowsAt(n)
      BY <1>1, DistancesAreDepths
    <3>1. ASSUME NEW r \in RowsAt(n)
          PROVE  r \in {Row(p[1], p[2], n) : p \in PairsAt(n)}
      <4>1. <<r.ancestor, r.descendant>> \in PairsAt(n) /\ r = Row(r.ancestor, r.descendant, n)
        BY <2>1 DEF PairsAt, RowsAt
      <4> HIDE DEF PairsAt
      <4> QED
        BY <4>1
    <3>2. ASSUME NEW p \in PairsAt(n)
          PROVE  Row(p[1], p[2], n) \in RowsAt(n)
      <4>1. PICK r \in RowsAt(n) : p = <<r.ancestor, r.descendant>>
        BY DEF PairsAt
      <4>2. Row(p[1], p[2], n) = r
        BY <2>1, <4>1 DEF RowsAt
      <4> QED
        BY <4>2
    <3> HIDE DEF PairsAt, RowsAt
    <3> QED
      BY <3>1, <3>2
  <2>4. closure = UNION {RowsAt(n) : n \in 0..Cardinality(Orgs)}
    BY <2>2 DEF RowsAt
  <2> QED
    BY <2>3, <2>4 DEF ClosureFollowsParents
<1> QED
  BY <1>1, TreeIsAlwaysSound, PTL

-----------------------------------------------------------------------------
(* Users and grants: what a request prepares *)

\* Setting the columns that differ gives the new row; other rows stay rows.
LEMMA UserColumns ==
  ASSUME NEW old \in UserRows, NEW new \in UserRows
  PROVE  /\ Updated(old, Changed(old, new)) = new
         /\ IsPartOf(Changed(old, new), UserRows)
<1>1. \A row \in UserRows : DOMAIN row = {"status", "archived", "super", "flag"}
  BY DEF UserRows
<1>2. ASSUME NEW row \in UserRows
      PROVE  Updated(row, Changed(old, new)) \in UserRows
  <2> DEFINE res == Updated(row, Changed(old, new))
  <2>1. \A x \in {"status", "archived", "super", "flag"} :
          res[x] = new[x] \/ res[x] = row[x]
    BY <1>1 DEF Updated, Changed
  <2>2. res = [x \in {"status", "archived", "super", "flag"} |-> res[x]]
    BY <1>1 DEF Updated
  <2> HIDE DEF res
  <2>3. /\ res["status"] \in {"none", "active", "disabled", "archived"}
        /\ res["archived"] \in BOOLEAN /\ res["super"] \in BOOLEAN /\ res["flag"] \in BOOLEAN
    BY <2>1, <1>2 DEF UserRows
  <2> QED
    BY <2>2, <2>3 DEF UserRows, res
<1>3. Updated(old, Changed(old, new)) = new
  <2>1. Updated(old, Changed(old, new)) = [x \in DOMAIN new |-> new[x]]
    BY <1>1 DEF Updated, Changed
  <2> QED
    BY <2>1 DEF UserRows
<1> QED
  BY <1>2, <1>3 DEF IsPartOf

LEMMA GrantColumns ==
  ASSUME NEW old \in GrantRows, NEW new \in GrantRows
  PROVE  /\ Updated(old, Changed(old, new)) = new
         /\ IsPartOf(Changed(old, new), GrantRows)
<1>1. \A row \in GrantRows : DOMAIN row = {"state", "desc", "from", "to"}
  BY DEF GrantRows
<1>2. ASSUME NEW row \in GrantRows
      PROVE  Updated(row, Changed(old, new)) \in GrantRows
  <2> DEFINE res == Updated(row, Changed(old, new))
  <2>1. \A x \in {"state", "desc", "from", "to"} : res[x] = new[x] \/ res[x] = row[x]
    BY <1>1 DEF Updated, Changed
  <2>2. res = [x \in {"state", "desc", "from", "to"} |-> res[x]]
    BY <1>1 DEF Updated
  <2> HIDE DEF res
  <2>3. /\ res["state"] \in {"none", "live", "archived"} /\ res["desc"] \in BOOLEAN
        /\ res["from"] \in 0..(MaxTime + 1) /\ res["to"] \in 0..(MaxTime + 1)
    BY <2>1, <1>2 DEF GrantRows
  <2> QED
    BY <2>2, <2>3 DEF GrantRows, res
<1>3. Updated(old, Changed(old, new)) = new
  <2>1. Updated(old, Changed(old, new)) = [x \in DOMAIN new |-> new[x]]
    BY <1>1 DEF Updated, Changed
  <2> QED
    BY <2>1 DEF GrantRows
<1> QED
  BY <1>2, <1>3 DEF IsPartOf

\* The grants of a user once new ones are written over those there are
Over(written) == [k \in Keys |-> IF k \in DOMAIN written THEN written[k] ELSE grants[k]]

\* Whether a profile is given depends on the user's own business grants only.
LEMMA OwnGrantsDecide ==
  ASSUME NEW u, NEW p, NEW row, NEW rows, NEW row2, NEW rows2,
         GivesProfile(u, p, row, rows), row2.super = row.super,
         \A k \in Keys : k.user = u /\ k.role \in BusinessRoles => rows2[k] = rows[k]
  PROVE  GivesProfile(u, p, row2, rows2)
BY DEF GivesProfile

\* A request that prepares a change of rows it has read
LEMMA PrepareIsSound ==
  ASSUME AccessIsSound, NEW c \in Clerks, NEW u \in Users, NEW row \in UserRows,
         NEW written, NEW given \in Profiles \cup {NoProfile},
         Prepare(c, u, row, written, given),
         DOMAIN written \subseteq {k \in Keys : k.user = u},
         \A k \in DOMAIN written : written[k] \in GrantRows,
         given # NoProfile => GivesProfile(u, given, row, Over(written))
  PROVE  AccessIsSound'
<1> DEFINE columns == [k \in DOMAIN written |-> Changed(grants[k], written[k])]
           what == [user |-> u, isNew |-> users[u].status = "none", row |-> Changed(users[u], row),
                    grants |-> columns,
                    inserts |-> {k \in DOMAIN written : grants[k].state = "none"},
                    given |-> given, fresh |-> TRUE]
<1>1. AccessTypeOK /\ NoStaleGrant /\ ProfilesAreGiven
  BY DEF AccessIsSound
<1>2. /\ change' = [change EXCEPT ![c] = what] /\ u \in Targets
      /\ UNCHANGED <<users, roles, grants, now, profile, late>>
  BY DEF Prepare
<1>3. /\ change'[c] = what /\ \A d \in Clerks \ {c} : change'[d] = change[d]
      /\ DOMAIN change' = Clerks
  BY <1>1, <1>2 DEF AccessTypeOK
<1>4. /\ Updated(users[u], what.row) = row /\ IsPartOf(what.row, UserRows)
      /\ \A k \in DOMAIN written : /\ k \in Keys
                                   /\ Updated(grants[k], columns[k]) = written[k]
                                   /\ IsPartOf(columns[k], GrantRows)
  BY <1>1, UserColumns, GrantColumns DEF AccessTypeOK
<1>5. /\ DOMAIN what = {"user", "isNew", "row", "grants", "inserts", "given", "fresh"}
      /\ what.user = u /\ what.grants = columns /\ what.given = given /\ what.fresh = TRUE
      /\ DOMAIN columns = DOMAIN written
  OBVIOUS
<1>6. WithGrants(columns) = Over(written)
  BY <1>4, <1>5 DEF WithGrants, Over
<1> HIDE DEF what, columns
<1>7. AccessTypeOK'
  BY <1>1, <1>2, <1>3, <1>4, <1>5 DEF AccessTypeOK, WritesGrants
<1>8. NoStaleGrant'
  BY <1>1, <1>2 DEF NoStaleGrant
<1>9. ProfilesAreGiven'
  <2>1. ASSUME NEW d \in Clerks, change'[d] # NoChange, change'[d].fresh,
               change'[d].given # NoProfile
        PROVE  GivesProfile(change'[d].user, change'[d].given,
                            Updated(users[change'[d].user], change'[d].row),
                            WithGrants(change'[d].grants))
    <3>1. CASE d = c
      BY <1>3, <1>4, <1>5, <1>6, <2>1, <3>1
    <3>2. CASE d # c
      BY <1>1, <1>3, <2>1, <3>2 DEF ProfilesAreGiven
    <3> QED
      BY <3>1, <3>2
  <2>2. \A v, p, r, rows : GivesProfile(v, p, r, rows)' = GivesProfile(v, p, r, rows)
    BY DEF GivesProfile, OwnKeys
  <2>3. \A g : WithGrants(g)' = WithGrants(g)
    BY <1>2 DEF WithGrants
  <2> QED
    BY <1>1, <1>2, <2>1, <2>3 DEF ProfilesAreGiven, GivesProfile, OwnKeys, WithGrants
<1> QED
  BY <1>7, <1>8, <1>9 DEF AccessIsSound

LEMMA GrantedIsRow == Granted \in GrantRows /\ Granted.state = "live"
<1>1. MaxTime \in Nat
  BY AccessAssumption
<1>2. NoGrant \in GrantRows
  BY <1>1 DEF NoGrant, Forever, GrantRows
<1> QED
  BY <1>2 DEF Granted, GrantRows

\* The grants of a profile: those in force that are not its own are archived,
\* its own are there without limits.
LEMMA ProfileGrantsGive ==
  ASSUME AccessIsSound, NEW u \in Users, NEW role \in BusinessRoles, NEW chosen \in SUBSET Orgs,
         (role \in Global) = (chosen = {}), NEW row, row.super = (role = "administrator")
  PROVE  LET written == ProfileGrants(u, role, ProfileScope(role, chosen))
             given == [role |-> role, orgs |-> chosen]
         IN /\ given \in Profiles
            /\ DOMAIN written \subseteq {k \in Keys : k.user = u}
            /\ \A k \in DOMAIN written : written[k] \in GrantRows
            /\ GivesProfile(u, given, row, Over(written))
<1> DEFINE scope == ProfileScope(role, chosen)
           written == ProfileGrants(u, role, scope)
           given == [role |-> role, orgs |-> chosen]
           old == {k \in GrantsOf(u) : k.role \in BusinessRoles /\ k.role \in roles}
           new == {k \in Keys : k.user = u /\ k.role = role /\ k.org \in scope}
<1>1. AccessTypeOK
  BY DEF AccessIsSound
<1>2. given \in Profiles /\ given.role = role /\ OwnKeys(u, given) = new
  BY DEF Profiles, OwnKeys
<1>3. /\ DOMAIN written = old \cup new
      /\ \A k \in new : written[k] = Granted
      /\ \A k \in old : k \notin new => written[k] = [grants[k] EXCEPT !.state = "archived"]
  <2> HIDE DEF scope
  <2> QED
    BY DEF ProfileGrants
<1>4. old \subseteq {k \in Keys : k.user = u} /\ new \subseteq {k \in Keys : k.user = u}
  BY DEF GrantsOf
<1>5. \A k \in Keys : /\ grants[k] \in GrantRows
                      /\ [grants[k] EXCEPT !.state = "archived"] \in GrantRows
                      /\ [grants[k] EXCEPT !.state = "archived"].state = "archived"
  BY <1>1 DEF AccessTypeOK, GrantRows
<1> HIDE DEF written, old, new, given
<1>6. \A k \in DOMAIN written : written[k] \in GrantRows
  BY <1>3, <1>4, <1>5, GrantedIsRow
<1>7. ASSUME NEW k \in Keys, k.user = u, k.role \in BusinessRoles,
             Over(written)[k].state = "live", Over(written)[k].from = 0,
             Over(written)[k].to = Forever
      PROVE  k \in new
  <2>1. CASE k \in old
    <3> SUFFICES ASSUME k \notin new PROVE FALSE
      OBVIOUS
    <3>1. Over(written)[k] = written[k]
      BY <1>3, <2>1 DEF Over
    <3> QED
      BY <1>3, <1>5, <1>7, <2>1, <3>1
  <2>2. CASE k \notin old
    <3> SUFFICES ASSUME k \notin new PROVE FALSE
      OBVIOUS
    <3>1. Over(written)[k] = grants[k]
      BY <1>3, <2>2 DEF Over
    <3>2. now \in Nat /\ 0 <= now /\ now < Forever /\ BusinessRoles \subseteq roles
      BY <1>1, AccessAssumption DEF AccessTypeOK, Forever
    <3>3. InForce(k)
      BY <1>7, <3>1, <3>2 DEF InForce
    <3> QED
      BY <1>7, <2>2, <3>2, <3>3 DEF old, GrantsOf
  <2> QED
    BY <2>1, <2>2
<1>8. \A k \in Keys : k \in new => Over(written)[k] = Granted
  BY <1>3 DEF Over
<1>9. GivesProfile(u, given, row, Over(written))
  BY <1>2, <1>7, <1>8 DEF GivesProfile
<1> QED
  BY <1>2, <1>3, <1>4, <1>6, <1>9 DEF written, given

LEMMA UserTypes ==
  ASSUME AccessIsSound
  PROVE  /\ \A u \in Targets : u \in Users
         /\ \A u \in Users : users[u] \in UserRows
         /\ \A k \in Keys : grants[k] \in GrantRows /\ k.user \in Users
BY AccessAssumption DEF AccessIsSound, AccessTypeOK

LEMMA BeginCreateUserIsSound ==
  ASSUME AccessIsSound, NEW c \in Clerks, BeginCreateUser(c)
  PROVE  AccessIsSound'
<1>1. PICK u \in Targets, flag \in BOOLEAN :
        \/ \E role \in BusinessRoles, chosen \in SUBSET Orgs :
             /\ \E a \in Actors : MayAssign(a, role, chosen)
             /\ Prepare(c, u, [NewUser EXCEPT !.super = role = "administrator", !.flag = flag],
                        ProfileGrants(u, role, ProfileScope(role, chosen)),
                        [role |-> role, orgs |-> chosen])
        \/ Prepare(c, u, [NewUser EXCEPT !.flag = flag], NoGrants, NoProfile)
  BY DEF BeginCreateUser
<1>2. u \in Users
  BY UserTypes
<1>3. ASSUME NEW role \in BusinessRoles, NEW chosen \in SUBSET Orgs, NEW a \in Actors,
             MayAssign(a, role, chosen),
             Prepare(c, u, [NewUser EXCEPT !.super = role = "administrator", !.flag = flag],
                        ProfileGrants(u, role, ProfileScope(role, chosen)),
                        [role |-> role, orgs |-> chosen])
      PROVE  AccessIsSound'
  <2> DEFINE row == [NewUser EXCEPT !.super = role = "administrator", !.flag = flag]
             written == ProfileGrants(u, role, ProfileScope(role, chosen))
             given == [role |-> role, orgs |-> chosen]
  <2>1. row \in UserRows /\ row.super = (role = "administrator")
    BY DEF NewUser, UserRows
  <2>2. (role \in Global) = (chosen = {})
    BY <1>3 DEF MayAssign
  <2>3. /\ given \in Profiles
        /\ DOMAIN written \subseteq {k \in Keys : k.user = u}
        /\ \A k \in DOMAIN written : written[k] \in GrantRows
        /\ GivesProfile(u, given, row, Over(written))
    <3> HIDE DEF row
    <3> QED
      BY <1>2, <2>1, <2>2, ProfileGrantsGive
  <2>4. Prepare(c, u, row, written, given)
    BY <1>3
  <2> HIDE DEF row, written, given
  <2> QED
    BY <1>2, <2>1, <2>3, <2>4, PrepareIsSound
<1>4. ASSUME Prepare(c, u, [NewUser EXCEPT !.flag = flag], NoGrants, NoProfile)
      PROVE  AccessIsSound'
  <2>1. [NewUser EXCEPT !.flag = flag] \in UserRows
    BY DEF NewUser, UserRows
  <2>2. DOMAIN NoGrants = {}
    BY DEF NoGrants
  <2> QED
    BY <1>2, <1>4, <2>1, <2>2, PrepareIsSound
<1> QED
  BY <1>1, <1>3, <1>4

LEMMA BeginUpdateProfileIsSound ==
  ASSUME AccessIsSound, NEW c \in Clerks, BeginUpdateProfile(c)
  PROVE  AccessIsSound'
<1>1. PICK u \in Targets, role \in BusinessRoles, chosen \in SUBSET Orgs :
        /\ \E a \in Actors : MayAssign(a, role, chosen)
        /\ Prepare(c, u, [users[u] EXCEPT !.super = role = "administrator"],
                   ProfileGrants(u, role, ProfileScope(role, chosen)),
                   [role |-> role, orgs |-> chosen])
  BY DEF BeginUpdateProfile
<1> DEFINE row == [users[u] EXCEPT !.super = role = "administrator"]
           written == ProfileGrants(u, role, ProfileScope(role, chosen))
           given == [role |-> role, orgs |-> chosen]
<1>2. u \in Users /\ users[u] \in UserRows
  BY UserTypes
<1>3. row \in UserRows /\ row.super = (role = "administrator")
  BY <1>2 DEF UserRows
<1>4. (role \in Global) = (chosen = {})
  BY <1>1 DEF MayAssign
<1>5. /\ given \in Profiles
      /\ DOMAIN written \subseteq {k \in Keys : k.user = u}
      /\ \A k \in DOMAIN written : written[k] \in GrantRows
      /\ GivesProfile(u, given, row, Over(written))
  <2> HIDE DEF row
  <2> QED
    BY <1>2, <1>3, <1>4, ProfileGrantsGive
<1>6. Prepare(c, u, row, written, given)
  BY <1>1
<1> HIDE DEF row, written, given
<1> QED
  BY <1>2, <1>3, <1>5, <1>6, PrepareIsSound

LEMMA BeginUpdateUserIsSound ==
  ASSUME AccessIsSound, NEW c \in Clerks, BeginUpdateUser(c) \/ BeginArchiveUser(c)
  PROVE  AccessIsSound'
<1>1. PICK u \in Targets, row \in UserRows : Prepare(c, u, row, NoGrants, NoProfile)
  <2>1. \A u \in Targets : users[u] \in UserRows
    BY UserTypes
  <2>2. CASE BeginUpdateUser(c)
    <3>1. PICK u \in Targets, status \in {"active", "disabled"}, super \in BOOLEAN,
               flag \in BOOLEAN :
            Prepare(c, u, [users[u] EXCEPT !.status = status, !.super = super, !.flag = flag],
                    NoGrants, NoProfile)
      BY <2>2 DEF BeginUpdateUser
    <3>2. [users[u] EXCEPT !.status = status, !.super = super, !.flag = flag] \in UserRows
      BY <2>1 DEF UserRows
    <3> QED
      BY <3>1, <3>2
  <2>3. CASE BeginArchiveUser(c)
    <3>1. PICK u \in Targets :
            Prepare(c, u, [users[u] EXCEPT !.status = "archived", !.archived = TRUE],
                    NoGrants, NoProfile)
      BY <2>3 DEF BeginArchiveUser
    <3>2. [users[u] EXCEPT !.status = "archived", !.archived = TRUE] \in UserRows
      BY <2>1 DEF UserRows
    <3> QED
      BY <3>1, <3>2
  <2> QED
    BY <2>2, <2>3
<1>2. u \in Users /\ DOMAIN NoGrants = {}
  BY UserTypes DEF NoGrants
<1> QED
  BY <1>1, <1>2, PrepareIsSound

LEMMA BeginGrantIsSound ==
  ASSUME AccessIsSound, NEW c \in Clerks, BeginGrant(c) \/ BeginRevoke(c)
  PROVE  AccessIsSound'
<1>1. PICK k \in Keys, grant \in GrantRows :
        Prepare(c, k.user, users[k.user], Only(k, grant), NoProfile)
  <2>1. CASE BeginGrant(c)
    <3>1. PICK k \in Keys, desc \in BOOLEAN, p \in Periods :
            Prepare(c, k.user, users[k.user],
                    Only(k, [state |-> "live", desc |-> desc, from |-> p[1], to |-> p[2]]), NoProfile)
      BY <2>1 DEF BeginGrant
    <3>2. [state |-> "live", desc |-> desc, from |-> p[1], to |-> p[2]] \in GrantRows
      BY AccessAssumption DEF GrantRows
    <3> QED
      BY <3>1, <3>2
  <2>2. CASE BeginRevoke(c)
    <3>1. PICK k \in Keys :
            Prepare(c, k.user, users[k.user], Only(k, [grants[k] EXCEPT !.state = "archived"]),
                    NoProfile)
      BY <2>2 DEF BeginRevoke
    <3>2. grants[k] \in GrantRows
      BY UserTypes
    <3>3. [grants[k] EXCEPT !.state = "archived"] \in GrantRows
      BY <3>2 DEF GrantRows
    <3> QED
      BY <3>1, <3>3
  <2> QED
    BY <2>1, <2>2
<1>2. /\ k.user \in Users /\ users[k.user] \in UserRows
      /\ DOMAIN Only(k, grant) = {k} /\ Only(k, grant)[k] = grant
  BY UserTypes DEF Only
<1> QED
  BY <1>1, <1>2, PrepareIsSound

-----------------------------------------------------------------------------
(* Users and grants: what is written *)

\* The row and the business grants of one user are written, and the changes
\* prepared from them are no longer fresh: the profiles of the others stay.
LEMMA OthersKeepProfiles ==
  ASSUME AccessIsSound, NEW u \in Users, NEW v \in Users, v # u,
         users'[v] = users[v], NEW p, NEW row, NEW written,
         \A k \in Keys : k.user # u => grants'[k] = grants[k]
  PROVE  /\ GivesProfile(v, p, users[v], grants) => GivesProfile(v, p, users'[v], grants')
         /\ GivesProfile(v, p, row, WithGrants(written)) =>
              GivesProfile(v, p, row, [k \in Keys |-> IF k \in DOMAIN written
                                                      THEN Updated(grants'[k], written[k])
                                                      ELSE grants'[k]])
<1>1. ASSUME GivesProfile(v, p, users[v], grants)
      PROVE  GivesProfile(v, p, users'[v], grants')
  BY <1>1, OwnGrantsDecide
<1> DEFINE rows == [k \in Keys |-> IF k \in DOMAIN written THEN Updated(grants'[k], written[k])
                                   ELSE grants'[k]]
<1>2. \A k \in Keys : k.user = v => rows[k] = WithGrants(written)[k]
  BY DEF WithGrants
<1> HIDE DEF rows
<1>3. ASSUME GivesProfile(v, p, row, WithGrants(written))
      PROVE  GivesProfile(v, p, row, rows)
  BY <1>2, <1>3, OwnGrantsDecide
<1> QED
  BY <1>1, <1>3 DEF rows

\* Whoever has read the rows of user u has not read those that are there now.
LEMMA OutdatedChanges ==
  ASSUME AccessTypeOK, NEW u, NEW d \in Clerks, change[d] # NoChange
  PROVE  /\ Outdated(u)[d] # NoChange => change[d].user = u \/ Outdated(u)[d] = change[d]
         /\ change[d].user = u => ~Outdated(u)[d].fresh
         /\ DOMAIN Outdated(u)[d] = DOMAIN change[d]
         /\ Outdated(u)[d].user = change[d].user /\ Outdated(u)[d].row = change[d].row
         /\ Outdated(u)[d].grants = change[d].grants /\ Outdated(u)[d].given = change[d].given
<1>1. DOMAIN change[d] = {"user", "isNew", "row", "grants", "inserts", "given", "fresh"}
  BY DEF AccessTypeOK
<1> QED
  BY <1>1 DEF Outdated

LEMMA WrittenGrants ==
  ASSUME AccessTypeOK, NEW c \in Clerks, change[c] # NoChange
  PROVE  /\ WithGrants(change[c].grants) \in [Keys -> GrantRows]
         /\ \A k \in Keys : k.user # change[c].user => WithGrants(change[c].grants)[k] = grants[k]
         /\ change[c].user \in Users
         /\ Updated(users[change[c].user], change[c].row) \in UserRows
<1> DEFINE written == change[c].grants
<1>1. /\ DOMAIN written \subseteq {k \in Keys : k.user = change[c].user}
      /\ \A k \in DOMAIN written : IsPartOf(written[k], GrantRows)
      /\ change[c].user \in Users /\ IsPartOf(change[c].row, UserRows)
  BY AccessAssumption DEF AccessTypeOK, WritesGrants
<1>2. \A k \in Keys : WithGrants(written)[k] \in GrantRows
  BY <1>1 DEF WithGrants, IsPartOf, AccessTypeOK
<1>3. \A k \in Keys : k.user # change[c].user => WithGrants(written)[k] = grants[k]
  BY <1>1 DEF WithGrants
<1>4. WithGrants(written) \in [Keys -> GrantRows]
  BY <1>2 DEF WithGrants
<1>5. Updated(users[change[c].user], change[c].row) \in UserRows
  BY <1>1 DEF IsPartOf, AccessTypeOK
<1> QED
  BY <1>1, <1>3, <1>4, <1>5

LEMMA CommitChangeIsSound ==
  ASSUME AccessIsSound, NEW c \in Clerks, CommitChange(c)
  PROVE  AccessIsSound'
<1> DEFINE u == change[c].user
           written == change[c].grants
<1>1. AccessTypeOK /\ NoStaleGrant /\ ProfilesAreGiven
  BY DEF AccessIsSound
<1>2. /\ change[c] # NoChange
      /\ users' = [users EXCEPT ![u] = Updated(users[u], change[c].row)]
      /\ grants' = WithGrants(written)
      /\ profile' = [profile EXCEPT ![u] = IF change[c].fresh THEN change[c].given ELSE NoProfile]
      /\ late' = late \cup {k \in DOMAIN written : k.role \notin roles}
      /\ change' = [Outdated(u) EXCEPT ![c] = NoChange]
      /\ UNCHANGED <<roles, now, changes>>
  BY DEF CommitChange, WithGrants
<1>3. /\ u \in Users /\ u \in Targets
      /\ users'[u] = Updated(users[u], change[c].row) /\ users'[u] \in UserRows
      /\ \A v \in Users : v # u => users'[v] = users[v]
      /\ \A k \in Keys : k.user # u => grants'[k] = grants[k]
      /\ grants' \in [Keys -> GrantRows]
      /\ change[c].given \in Profiles \cup {NoProfile}
  BY <1>1, <1>2, WrittenGrants DEF AccessTypeOK
<1>4. ASSUME NEW d \in Clerks, change'[d] # NoChange
      PROVE  /\ d # c /\ change[d] # NoChange /\ change'[d] = Outdated(u)[d]
             /\ change[d].user = u => ~change'[d].fresh
             /\ change[d].user # u => change'[d] = change[d]
             /\ DOMAIN change'[d] = DOMAIN change[d]
             /\ change'[d].user = change[d].user /\ change'[d].row = change[d].row
             /\ change'[d].grants = change[d].grants /\ change'[d].given = change[d].given
  <2>1. d # c /\ change'[d] = Outdated(u)[d]
    BY <1>2, <1>4 DEF Outdated
  <2>2. change[d] # NoChange
    BY <1>4, <2>1 DEF Outdated
  <2> QED
    BY <1>1, <1>4, <2>1, <2>2, OutdatedChanges
<1> HIDE DEF u, written
<1>5. AccessTypeOK'
  <2>1. users' \in [Users -> UserRows]
    BY <1>1, <1>2, <1>3 DEF AccessTypeOK
  <2>2. profile' \in [Users -> Profiles \cup {NoProfile}]
        /\ \A v \in Users : profile'[v] # NoProfile => v \in Targets
    BY <1>1, <1>2, <1>3 DEF AccessTypeOK
  <2>3. DOMAIN change' = Clerks
    BY <1>2 DEF Outdated
  <2>4. ASSUME NEW d \in Clerks, change'[d] # NoChange
        PROVE  /\ DOMAIN change'[d] = {"user", "isNew", "row", "grants", "inserts", "given", "fresh"}
               /\ change'[d].user \in Targets /\ IsPartOf(change'[d].row, UserRows)
               /\ WritesGrants(change'[d].grants, change'[d].user)
               /\ change'[d].given \in Profiles \cup {NoProfile}
    BY <1>1, <1>4, <2>4 DEF AccessTypeOK
  <2> QED
    BY <1>1, <1>2, <1>3, <2>1, <2>2, <2>3, <2>4 DEF AccessTypeOK, WritesGrants, IsPartOf, Updated
<1>6. NoStaleGrant'
  BY <1>1, <1>2 DEF NoStaleGrant, WithGrants
<1>7. ASSUME NEW d \in Clerks, change'[d] # NoChange, change'[d].fresh,
             change'[d].given # NoProfile
      PROVE  GivesProfile(change'[d].user, change'[d].given,
                          Updated(users'[change'[d].user], change'[d].row),
                          [k \in Keys |-> IF k \in DOMAIN change'[d].grants
                                          THEN Updated(grants'[k], change'[d].grants[k])
                                          ELSE grants'[k]])
  <2> DEFINE v == change[d].user
             row == Updated(users[v], change[d].row)
             others == change[d].grants
             p == change[d].given
  <2>1. change'[d] = change[d] /\ v # u /\ change[d] # NoChange
    BY <1>4, <1>7
  <2>2. v \in Users /\ users'[v] = users[v]
    BY <1>1, <1>3, <2>1, WrittenGrants
  <2>3. GivesProfile(v, p, row, WithGrants(others))
    BY <1>1, <1>7, <2>1 DEF ProfilesAreGiven
  <2>4. row = Updated(users'[v], change'[d].row)
    BY <2>1, <2>2
  <2> HIDE DEF v, row, others, p
  <2>5. GivesProfile(v, p, row, [k \in Keys |-> IF k \in DOMAIN others
                                                THEN Updated(grants'[k], others[k])
                                                ELSE grants'[k]])
    BY <1>3, <2>1, <2>2, <2>3, OthersKeepProfiles
  <2> QED
    BY <2>1, <2>4, <2>5 DEF v, others, p
<1>8. ASSUME NEW v \in Users, profile'[v] # NoProfile
      PROVE  GivesProfile(v, profile'[v], users'[v], grants')
  <2>1. CASE v = u
    <3>1. change[c].fresh /\ profile'[v] = change[c].given
      BY <1>1, <1>2, <1>8, <2>1 DEF AccessTypeOK
    <3> QED
      BY <1>1, <1>2, <1>3, <1>8, <2>1, <3>1 DEF ProfilesAreGiven, u, written
  <2>2. CASE v # u
    <3>1. profile'[v] = profile[v] /\ users'[v] = users[v]
      BY <1>1, <1>2, <1>3, <2>2 DEF AccessTypeOK
    <3>2. GivesProfile(v, profile[v], users[v], grants)
      BY <1>1, <1>8, <3>1 DEF ProfilesAreGiven
    <3> QED
      BY <1>3, <2>2, <3>1, <3>2, OwnGrantsDecide
  <2> QED
    BY <2>1, <2>2
<1>9. ProfilesAreGiven'
  BY <1>7, <1>8 DEF ProfilesAreGiven, GivesProfile, OwnKeys, WithGrants, Updated
<1> QED
  BY <1>5, <1>6, <1>9 DEF AccessIsSound

LEMMA RollBackChangeIsSound ==
  ASSUME AccessIsSound, NEW c \in Clerks, RollBackChange(c)
  PROVE  AccessIsSound'
<1>1. /\ change' = [change EXCEPT ![c] = NoChange]
      /\ UNCHANGED <<users, roles, grants, now, changes, profile, late>>
  BY DEF RollBackChange
<1>2. AccessTypeOK /\ NoStaleGrant /\ ProfilesAreGiven
  BY DEF AccessIsSound
<1>3. DOMAIN change' = Clerks /\ \A d \in Clerks : change'[d] # NoChange => change'[d] = change[d]
  BY <1>1, <1>2 DEF AccessTypeOK
<1>4. AccessTypeOK'
  BY <1>1, <1>2, <1>3 DEF AccessTypeOK, WritesGrants
<1>5. NoStaleGrant'
  BY <1>1, <1>2 DEF NoStaleGrant
<1>6. ProfilesAreGiven'
  <2>1. ASSUME NEW d \in Clerks, change'[d] # NoChange, change'[d].fresh,
               change'[d].given # NoProfile
        PROVE  GivesProfile(change'[d].user, change'[d].given,
                            Updated(users[change'[d].user], change'[d].row),
                            WithGrants(change'[d].grants))
    BY <1>2, <1>3, <2>1 DEF ProfilesAreGiven
  <2> QED
    BY <1>1, <1>2, <2>1 DEF ProfilesAreGiven, GivesProfile, OwnKeys, WithGrants
<1> QED
  BY <1>4, <1>5, <1>6 DEF AccessIsSound

\* Grants of business roles are not touched.
LEMMA SeedDefaultsIsSound ==
  ASSUME AccessIsSound, SeedDefaults
  PROVE  AccessIsSound'
<1>1. /\ grants' = GrantsAfterSeed /\ roles' = BusinessRoles
      /\ UNCHANGED <<users, now, change, changes, profile, late>>
  BY DEF SeedDefaults
<1>2. AccessTypeOK /\ NoStaleGrant /\ ProfilesAreGiven
  BY DEF AccessIsSound
<1>3. \A k \in Keys : /\ grants[k] \in GrantRows
                      /\ [grants[k] EXCEPT !.state = "archived"] \in GrantRows
                      /\ [grants[k] EXCEPT !.state = "archived"].state = "archived"
  BY <1>2 DEF AccessTypeOK, GrantRows
<1>4. /\ grants' \in [Keys -> GrantRows]
      /\ \A k \in Keys : k.role \in BusinessRoles => grants'[k] = grants[k]
  BY <1>1, <1>3, AccessAssumption DEF GrantsAfterSeed
<1>5. AccessTypeOK'
  BY <1>1, <1>2, <1>4 DEF AccessTypeOK, WritesGrants
<1>6. NoStaleGrant'
  <2>1. ASSUME NEW k \in Keys, grants'[k].state = "live"
        PROVE  k.role \in BusinessRoles \/ k \in late
    <3>1. k.role \in BusinessRoles \cup OldRoles
      BY AccessAssumption
    <3>2. grants[k].state = "live" /\ ~(k.role \in roles \cap OldRoles)
      BY <1>1, <1>3, <2>1 DEF GrantsAfterSeed
    <3> QED
      BY <1>2, <3>1, <3>2 DEF NoStaleGrant
  <2> QED
    BY <1>1, <2>1 DEF NoStaleGrant
<1>7. ProfilesAreGiven'
  <2>1. ASSUME NEW d \in Clerks, change[d] # NoChange, change[d].fresh, change[d].given # NoProfile
        PROVE  GivesProfile(change[d].user, change[d].given,
                            Updated(users[change[d].user], change[d].row),
                            [k \in Keys |-> IF k \in DOMAIN change[d].grants
                                            THEN Updated(grants'[k], change[d].grants[k])
                                            ELSE grants'[k]])
    <3> DEFINE v == change[d].user
               p == change[d].given
               row == Updated(users[change[d].user], change[d].row)
               written == change[d].grants
               rows == [k \in Keys |-> IF k \in DOMAIN written THEN Updated(grants'[k], written[k])
                                       ELSE grants'[k]]
    <3>1. GivesProfile(v, p, row, WithGrants(written))
      BY <1>2, <2>1 DEF ProfilesAreGiven
    <3>2. \A k \in Keys : k.role \in BusinessRoles => rows[k] = WithGrants(written)[k]
      BY <1>4 DEF WithGrants
    <3> HIDE DEF v, p, row, written, rows
    <3>3. GivesProfile(v, p, row, rows)
      BY <3>1, <3>2, OwnGrantsDecide
    <3> QED
      BY <3>3 DEF v, p, row, written, rows
  <2>2. ASSUME NEW v \in Users, profile[v] # NoProfile
        PROVE  GivesProfile(v, profile[v], users[v], grants')
    <3>1. GivesProfile(v, profile[v], users[v], grants)
      BY <1>2, <2>2 DEF ProfilesAreGiven
    <3> QED
      BY <1>4, <3>1, OwnGrantsDecide
  <2> QED
    BY <1>1, <2>1, <2>2 DEF ProfilesAreGiven, GivesProfile, OwnKeys, WithGrants
<1> QED
  BY <1>5, <1>6, <1>7 DEF AccessIsSound

LEMMA CreateSuperadminIsSound ==
  ASSUME AccessIsSound, CreateSuperadmin
  PROVE  AccessIsSound'
<1>1. /\ users' = [users EXCEPT ![Admin] = [users[Admin] EXCEPT !.status = "active",
                                                               !.archived = FALSE, !.super = TRUE]]
      /\ profile' = [profile EXCEPT ![Admin] = NoProfile]
      /\ change' = Outdated(Admin)
      /\ UNCHANGED <<roles, grants, now, changes, late>>
  BY DEF CreateSuperadmin
<1>2. AccessTypeOK /\ NoStaleGrant /\ ProfilesAreGiven
  BY DEF AccessIsSound
<1>3. Admin \in Users /\ users[Admin] \in UserRows
  BY <1>2, AccessAssumption DEF AccessTypeOK
<1>4. [users[Admin] EXCEPT !.status = "active", !.archived = FALSE, !.super = TRUE] \in UserRows
  BY <1>3 DEF UserRows
<1>5. /\ users' \in [Users -> UserRows] /\ \A v \in Users : v # Admin => users'[v] = users[v]
      /\ profile' \in [Users -> Profiles \cup {NoProfile}]
      /\ \A v \in Users : profile'[v] # NoProfile => v # Admin /\ profile'[v] = profile[v]
  BY <1>1, <1>2, <1>3, <1>4 DEF AccessTypeOK
<1>6. ASSUME NEW d \in Clerks, change'[d] # NoChange
      PROVE  /\ change[d] # NoChange
             /\ change[d].user = Admin => ~change'[d].fresh
             /\ change[d].user # Admin => change'[d] = change[d]
             /\ DOMAIN change'[d] = DOMAIN change[d]
             /\ change'[d].user = change[d].user /\ change'[d].row = change[d].row
             /\ change'[d].grants = change[d].grants /\ change'[d].given = change[d].given
  <2>1. change[d] # NoChange /\ change'[d] = Outdated(Admin)[d]
    BY <1>1, <1>6 DEF Outdated
  <2> QED
    BY <1>2, <1>6, <2>1, OutdatedChanges
<1>7. AccessTypeOK'
  <2>1. DOMAIN change' = Clerks
    BY <1>1 DEF Outdated
  <2>2. ASSUME NEW d \in Clerks, change'[d] # NoChange
        PROVE  /\ DOMAIN change'[d] = {"user", "isNew", "row", "grants", "inserts", "given", "fresh"}
               /\ change'[d].user \in Targets /\ IsPartOf(change'[d].row, UserRows)
               /\ WritesGrants(change'[d].grants, change'[d].user)
               /\ change'[d].given \in Profiles \cup {NoProfile}
    BY <1>2, <1>6, <2>2 DEF AccessTypeOK
  <2> QED
    BY <1>1, <1>2, <1>5, <2>1, <2>2 DEF AccessTypeOK, WritesGrants, IsPartOf, Updated
<1>8. NoStaleGrant'
  BY <1>1, <1>2 DEF NoStaleGrant
<1>9. ProfilesAreGiven'
  <2>1. ASSUME NEW d \in Clerks, change'[d] # NoChange, change'[d].fresh,
               change'[d].given # NoProfile
        PROVE  GivesProfile(change'[d].user, change'[d].given,
                            Updated(users'[change'[d].user], change'[d].row),
                            WithGrants(change'[d].grants))
    <3>1. change'[d] = change[d] /\ change[d].user # Admin /\ change[d] # NoChange
      BY <1>6, <2>1
    <3>2. users'[change'[d].user] = users[change[d].user]
      BY <1>2, <1>5, <3>1, WrittenGrants
    <3> QED
      BY <1>2, <2>1, <3>1, <3>2 DEF ProfilesAreGiven
  <2>2. ASSUME NEW v \in Users, profile'[v] # NoProfile
        PROVE  GivesProfile(v, profile'[v], users'[v], grants)
    BY <1>2, <1>5, <2>2 DEF ProfilesAreGiven
  <2> QED
    BY <1>1, <2>1, <2>2, ZenonT(30) DEF ProfilesAreGiven, GivesProfile, OwnKeys, WithGrants
<1> QED
  BY <1>7, <1>8, <1>9 DEF AccessIsSound

LEMMA AccessAloneIsSound ==
  ASSUME AccessIsSound, UNCHANGED <<users, roles, grants, change, profile, late>>,
         now' \in 0..MaxTime
  PROVE  AccessIsSound'
<1>1. AccessTypeOK'
  BY DEF AccessIsSound, AccessTypeOK, WritesGrants
<1>2. NoStaleGrant' /\ ProfilesAreGiven'
  BY DEF AccessIsSound, NoStaleGrant, ProfilesAreGiven, GivesProfile, OwnKeys, WithGrants
<1> QED
  BY <1>1, <1>2 DEF AccessIsSound

LEMMA TickIsSound ==
  ASSUME AccessIsSound, Tick
  PROVE  AccessIsSound'
<1>1. now' \in 0..MaxTime
  BY AccessAssumption DEF Tick, AccessIsSound, AccessTypeOK
<1> QED
  BY <1>1, AccessAloneIsSound DEF Tick

-----------------------------------------------------------------------------
(* Theorems about users and grants *)

LEMMA AccessStartsSound == AccessInit => AccessIsSound
<1> SUFFICES ASSUME AccessInit PROVE AccessIsSound
  OBVIOUS
<1>1. /\ users \in [Users -> UserRows] /\ roles = BusinessRoles \cup OldRoles
      /\ grants = [k \in Keys |-> NoGrant] /\ now = 0 /\ late = {}
      /\ change = [c \in Clerks |-> NoChange] /\ profile = [u \in Users |-> NoProfile]
  BY DEF AccessInit, UserRows
<1>2. NoGrant \in GrantRows /\ NoGrant.state = "none"
  BY AccessAssumption DEF NoGrant, Forever, GrantRows
<1>3. AccessTypeOK
  BY <1>1, <1>2, AccessAssumption DEF AccessTypeOK
<1>4. NoStaleGrant /\ ProfilesAreGiven
  BY <1>1, <1>2 DEF NoStaleGrant, ProfilesAreGiven
<1> QED
  BY <1>3, <1>4 DEF AccessIsSound

LEMMA AccessStaysSound ==
  ASSUME AccessIsSound, AccessNext \/ UNCHANGED accessVars
  PROVE  AccessIsSound'
<1>1. ASSUME NEW c \in Clerks,
             \/ BeginCreateUser(c) \/ BeginUpdateUser(c) \/ BeginUpdateProfile(c)
             \/ BeginArchiveUser(c) \/ BeginGrant(c) \/ BeginRevoke(c)
             \/ CommitChange(c) \/ RollBackChange(c)
      PROVE  AccessIsSound'
  BY <1>1, BeginCreateUserIsSound, BeginUpdateUserIsSound, BeginUpdateProfileIsSound,
     BeginGrantIsSound, CommitChangeIsSound, RollBackChangeIsSound
<1>2. CASE SeedDefaults \/ CreateSuperadmin \/ Tick
  BY <1>2, SeedDefaultsIsSound, CreateSuperadminIsSound, TickIsSound
<1>3. CASE UNCHANGED accessVars
  BY <1>3, AccessAloneIsSound DEF accessVars, AccessIsSound, AccessTypeOK
<1> QED
  BY <1>1, <1>2, <1>3 DEF AccessNext

\* The inductive invariant of users and grants over a tree that changes under
\* them: a grant in force is of a role in use unless it came late, and a
\* profile that was given is in the rows (_apply_role_profile,
\* _archive_noncanonical_roles).
THEOREM AdministrationIsAlwaysSound == AdministrationSpec => [](TreeIsSound /\ AccessIsSound)
<1>1. OrgInit /\ AccessInit => TreeIsSound /\ AccessIsSound
  BY TreeStartsSound, AccessStartsSound
<1>2. TreeIsSound /\ AccessIsSound
      /\ [\/ OrgNext /\ UNCHANGED accessVars
          \/ AccessNext /\ UNCHANGED treeVars]_<<treeVars, accessVars>>
      => (TreeIsSound /\ AccessIsSound)'
  BY TreeStaysSound, AccessStaysSound, TreeUnchangedIsSound
<1> QED
  BY <1>1, <1>2, PTL DEF AdministrationSpec

\* Whoever may manage an organization is shown it (has_permission,
\* get_organization_scope_ids): a grant that covers an organization reaches it
\* through a row of the closure, the one of the organization itself included.
THEOREM ManagersSeeHolds == AdministrationSpec => []ManagersSee
<1>1. ASSUME TreeIsSound PROVE ManagersSee
  <2> SUFFICES ASSUME NEW u \in Users, NEW o \in Orgs,
                      NEW p \in {"organizations.manage", "access_grants.manage"}, Manages(u, p, o)
               PROVE  CanSee(u, o)
    BY DEF ManagersSee
  <2>1. OrgIsActive(o) /\ Row(o, o, 0) \in closure
    BY <1>1 DEF Manages, TreeIsSound, RowsFollowParents, Created, OrgIsActive
  <2>2. CASE IsSuper(u)
    BY <2>1, <2>2 DEF CanSee, ScopeOf
  <2>3. ASSUME NEW k \in Giving(u, p), Covers(k, o), ~IsSuper(u)
        PROVE  CanSee(u, o)
    <3>1. k \in GrantsOf(u)
      BY DEF Giving
    <3>2. CASE \E q \in GrantsOf(u) : q.org = NoOrg
      BY <2>1, <3>2 DEF CanSee, ScopeOf
    <3>3. CASE ~\E q \in GrantsOf(u) : q.org = NoOrg
      <4>1. ScopeOf(u) = UNION {IF grants[q].desc THEN Below(q.org) ELSE {q.org} : q \in GrantsOf(u)}
        BY <2>3, <3>3 DEF ScopeOf
      <4>2. o \in (IF grants[k].desc THEN Below(k.org) ELSE {k.org})
        <5>1. k.org = o \/ (grants[k].desc /\ \E r \in closure : r.ancestor = k.org /\ r.descendant = o)
          BY <2>3, <3>1, <3>3 DEF Covers
        <5>2. Row(o, o, 0).ancestor = o /\ Row(o, o, 0).descendant = o
          BY DEF Row
        <5> QED
          BY <2>1, <5>1, <5>2 DEF Below
      <4> QED
        BY <2>1, <3>1, <4>1, <4>2 DEF CanSee
    <3> QED
      BY <3>2, <3>3
  <2>4. CASE ~IsSuper(u) /\ p = "access_grants.manage" /\ UserIsActive(u) /\ users[u].flag
    BY <2>4 DEF Manages
  <2> QED
    BY <2>2, <2>3, <2>4 DEF Manages
<1> QED
  BY <1>1, AdministrationIsAlwaysSound, PTL

\* Nobody sees an organization only through a role that was archived, but for
\* grants that came late (get_organization_scope_ids, which asks no role).
THEOREM SeenThroughRolesHolds == AdministrationSpec => []SeenThroughRoles
<1>1. ASSUME AccessIsSound PROVE SeenThroughRoles
  <2> SUFFICES ASSUME NEW u \in Users, NEW o \in Orgs, CanSee(u, o), ~IsSuper(u)
               PROVE  \E k \in GrantsOf(u) : Covers(k, o) /\ (k.role \in roles \/ k \in late)
    BY DEF SeenThroughRoles
  <2>1. \A k \in GrantsOf(u) : k.role \in roles \/ k \in late
    BY <1>1 DEF AccessIsSound, NoStaleGrant, GrantsOf, InForce
  <2>2. \E k \in GrantsOf(u) : Covers(k, o)
    <3>1. CASE \E k \in GrantsOf(u) : k.org = NoOrg
      BY <3>1 DEF Covers
    <3>2. CASE ~\E k \in GrantsOf(u) : k.org = NoOrg
      <4>1. PICK k \in GrantsOf(u) : o \in (IF grants[k].desc THEN Below(k.org) ELSE {k.org})
        BY <3>2 DEF CanSee, ScopeOf
      <4> QED
        BY <4>1 DEF Covers, Below
    <3> QED
      BY <3>1, <3>2
  <2> QED
    BY <2>1, <2>2
<1> QED
  BY <1>1, AdministrationIsAlwaysSound, PTL

\* The profile that is read is the one that was given (_user_role_profile,
\* _apply_role_profile).
THEOREM ProfileIsExactHolds == AdministrationSpec => []ProfileIsExact
<1>1. ASSUME AccessIsSound PROVE ProfileIsExact
  <2> SUFFICES ASSUME NEW u \in Users, profile[u] # NoProfile,
                      \A k \in Keys : k.user = u /\ grants[k].state = "live" =>
                        grants[k].from = 0 /\ grants[k].to = Forever
               PROVE  ReadProfile(u) = profile[u]
    BY DEF ProfileIsExact
  <2> DEFINE p == profile[u]
             own == {k \in GrantsOf(u) : k.role \in BusinessRoles /\ k.role \in roles}
  <2>1. /\ p \in Profiles /\ u \in Targets /\ GivesProfile(u, p, users[u], grants)
        /\ BusinessRoles \subseteq roles /\ now \in Nat /\ now < Forever
    BY <1>1, AccessAssumption DEF AccessIsSound, AccessTypeOK, ProfilesAreGiven, Forever
  <2>2. p.role \in BusinessRoles /\ p.orgs \subseteq Orgs /\ (p.role \in Global) = (p.orgs = {})
        /\ p = [role |-> p.role, orgs |-> p.orgs]
    BY <2>1 DEF Profiles
  <2> HIDE DEF p
  <2>3. own = OwnKeys(u, p)
    <3>1. ASSUME NEW k \in own PROVE k \in OwnKeys(u, p)
      BY <2>1 DEF GrantsOf, InForce, GivesProfile
    <3>2. ASSUME NEW k \in OwnKeys(u, p) PROVE k \in own
      <4>1. k \in Keys /\ k.user = u /\ k.role \in BusinessRoles /\ grants[k] = Granted
        BY <2>1, <2>2 DEF OwnKeys, GivesProfile
      <4>2. Granted.state = "live" /\ Granted.from = 0 /\ Granted.to = Forever
        BY DEF Granted, NoGrant
      <4> QED
        BY <2>1, <4>1, <4>2 DEF GrantsOf, InForce
    <3> QED
      BY <3>1, <3>2
  <2>4. users[u].super = (p.role = "administrator")
    BY <2>1 DEF GivesProfile
  <2>5. CASE p.role = "administrator"
    BY <2>2, <2>4, <2>5 DEF ReadProfile, Global, p
  <2>6. CASE p.role = "organization_administrator"
    <3>1. [user |-> u, role |-> p.role, org |-> NoOrg] \in own
      BY <2>1, <2>3, <2>6, AccessAssumption DEF OwnKeys, ProfileScope
    <3> QED
      BY <2>2, <2>4, <2>6, <3>1 DEF ReadProfile, Global, p
  <2>7. CASE p.role = "subordinate_organization_administrator"
    <3>1. \A k \in own : k.role = p.role /\ k.org \in p.orgs
      BY <2>3, <2>7 DEF OwnKeys, ProfileScope
    <3>2. ASSUME NEW o \in p.orgs
          PROVE  /\ [user |-> u, role |-> p.role, org |-> o] \in own
                 /\ [user |-> u, role |-> p.role, org |-> o].org = o /\ o # NoOrg
      BY <2>1, <2>2, <2>3, <2>7, AccessAssumption, OrganizationAssumption DEF OwnKeys, ProfileScope
    <3> HIDE DEF own
    <3>3. {k.org : k \in {q \in own : /\ q.role = "subordinate_organization_administrator"
                                      /\ q.org # NoOrg}} = p.orgs
      BY <2>7, <3>1, <3>2, ZenonT(30)
    <3> QED
      BY <2>2, <2>4, <2>7, <3>1, <3>3 DEF ReadProfile, own, p
  <2> QED
    BY <2>2, <2>5, <2>6, <2>7 DEF BusinessRoles
<1> QED
  BY <1>1, AdministrationIsAlwaysSound, PTL

=============================================================================
