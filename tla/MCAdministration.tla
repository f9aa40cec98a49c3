--------------------------- MODULE MCAdministration ---------------------------
(* Instances for TLC of Organizations and UserAccess, and of the files of    *)
(* AttachmentStorage when the answer of a commit may be lost.  A behaviour   *)
(* is one of the tree and its units, one of users and grants over a tree     *)
(* that is given, with archived organizations in it, or one of files.        *)
EXTENDS UserAccess, AttachmentStorage, TLC

CONSTANTS Root, Child

VARIABLE which  \* the part that runs

\* What a profile gives, and grants of an earlier role
Key(role, org) == [user : Targets, role : {role}, org : {org}]
SmallKeys == Key("organization_administrator", NoOrg)
             \cup UNION {Key("subordinate_organization_administrator", o) : o \in Orgs}
             \cup Key("old", NoOrg) \cup Key("old", Root)
SmallPeriods == {<<0, 2>>, <<1, 2>>}

adminVars == <<which, treeVars, accessVars, vars>>

\* A root with an organization below it and a management
GivenTree ==
  /\ orgs = [o \in Orgs |-> CASE o = Root -> [state |-> "active", parent |-> NoOrg]
                            [] o = Child -> [state |-> "active", parent |-> Root]
                            [] OTHER -> [state |-> "none", parent |-> NoOrg]]
  /\ closure = {Row(Root, Root, 0), Row(Child, Child, 0), Row(Root, Child, 1)}
  /\ \E m \in Units :
       units = [u \in Units |-> IF u = m
         THEN [state |-> "active", org |-> Root, parent |-> NoUnit, type |-> "management"]
         ELSE [state |-> "none", org |-> NoOrg, parent |-> NoUnit, type |-> "department"]]
  /\ task = [c \in Clerks |-> NoTask]
  /\ overtaken = {}

\* Users whose profile is the branch of the root
GivenUsers ==
  LET given == [role |-> "subordinate_organization_administrator", orgs |-> {Root}]
  IN /\ users = [u \in Users |-> [NewUser EXCEPT !.super = u = Admin]]
     /\ roles = BusinessRoles \cup OldRoles
     /\ grants = [k \in Keys |-> IF k.role = given.role /\ k.org = Root THEN Granted ELSE NoGrant]
     /\ now = 0 /\ changes = 0 /\ late = {}
     /\ change = [c \in Clerks |-> NoChange]
     /\ profile = [u \in Users |-> IF u \in Targets THEN given ELSE NoProfile]

MCInit ==
  /\ Init
  /\ \/ which = "tree" /\ (OrgInit \/ GivenTree) /\ AccessInit
     \/ which = "access" /\ GivenTree /\ (AccessInit \/ GivenUsers)
     \/ which = "files" /\ OrgInit /\ AccessInit

MCNext ==
  \/ which = "tree" /\ OrgNext /\ UNCHANGED <<which, accessVars, vars>>
  \/ which = "access" /\ AccessNext /\ UNCHANGED <<which, treeVars, vars>>
  \/ which = "access" /\ UNCHANGED <<which, accessVars, vars>>
     /\ \E c \in Clerks : \/ changes = MaxChanges /\ BeginArchiveOrg(c)
                            /\ \A d \in Clerks : task[d] = NoTask
                         \/ CommitArchiveOrg(c)
  \/ which = "files" /\ Next /\ UNCHANGED <<which, treeVars, accessVars>>

MCSpec == MCInit /\ [][MCNext]_adminVars

\* Only one part runs, so one value may be a clerk of one part and a request of
\* another, or a unit and a storage key.
AdminSymmetry == Permutations(Clerks) \cup Permutations(Units)
=============================================================================
