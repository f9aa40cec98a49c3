------------------------------ MODULE References ------------------------------
(***************************************************************************)
(* Reference lists, their items, and the links through which a guest edits *)
(* the lists made with the link (services/references.py,                   *)
(* services/reference_edit_links.py, models/reference.py).                 *)
(*                                                                         *)
(* A session checks permissions and rows without a lock, and writes the    *)
(* columns it changes at its commit.  A list of an organization replaces,  *)
(* for that organization, the list of the same code a field is configured  *)
(* with; if it inherits, for those below it too.                           *)
(*                                                                         *)
(* Names, descriptions and positions are left out.  Items are numbered as  *)
(* they are created, the order lists are shown in.  The lists are those of *)
(* one registry: one of no registry is edited by superusers only, as one   *)
(* managed_by_system_only is.                                              *)
(***************************************************************************)
EXTENDS Naturals, FiniteSets, Sequences, TLC

CONSTANTS
  Editors,                  \* sessions that edit references
  Lists, CodeOf,            \* rows of reference_lists, created or not, and their codes
  MaxItems,                 \* bound: rows of reference_items
  Spellings, Normal,        \* labels, and what _normalize_import_label makes of them
  Orgs, Above,              \* the organizations above each, the nearest first
  Actors, Super, Managers,  \* superusers; those who manage the schema of the registry
  Manages, Scope,           \* organizations whose schema an actor manages; which it sees
  Links,                    \* rows of reference_edit_links
  NoOrg, NoLink, NoEdit,
  MaxEdits                  \* bound: edits that are begun

ASSUME ReferenceAssumption ==
  /\ Normal \in [Spellings -> Spellings \ {"own"}]
  /\ MaxItems \in Nat /\ MaxEdits \in Nat
  /\ Above \in [Orgs -> Seq(Orgs)]
  /\ Manages \in [Actors -> SUBSET Orgs] /\ Scope \in [Actors -> SUBSET Orgs]
  /\ NoOrg \notin Orgs /\ NoLink \notin Links

Items == 1..MaxItems

VARIABLES
  lists,   \* [state, owner, inherits, locked, system, via]
  items,   \* [state, list, label, code, parent, hand]; hand: edited since it was imported
  issued,  \* numbers of items handed out
  links,   \* [status, owner]
  edit,    \* what each session is about to write
  edits    \* edits begun, and changes of links, so far

refVars == <<lists, items, issued, links, edit, edits>>

NewList == [state |-> "none", owner |-> NoOrg, inherits |-> FALSE, locked |-> TRUE,
            system |-> FALSE, via |-> NoLink]
NoItem == [state |-> "none"]
NewItem(l, label, code, parent, hand) ==
  [state |-> "active", list |-> l, label |-> label, code |-> code, parent |-> parent, hand |-> hand]

RefInit(given, rows, opened) ==
  /\ lists = given
  /\ items = [x \in Items |-> IF x \in DOMAIN rows THEN rows[x] ELSE NoItem]
  /\ issued = Len(rows)
  /\ links = [k \in Links |-> [status |-> IF k \in opened THEN "active" ELSE "none", owner |-> NoOrg]]
  /\ edit = [e \in Editors |-> NoEdit]
  /\ edits = 0

-----------------------------------------------------------------------------
(* Reading *)

ListIsActive(l) == lists[l].state = "active"

\* list_items: by position, here by number
ActiveItems(l) == {x \in Items : items[x].state = "active" /\ items[x].list = l}

\* _reference_list_for_owner: the unique index leaves at most one.
OwnLists(base, org) ==
  {l \in Lists : ListIsActive(l) /\ CodeOf[l] = CodeOf[base] /\ lists[l].owner = org}

\* _nearest_inherited_reference_list
InheritedLists(base, org) ==
  LET from(n) == {l \in OwnLists(base, Above[org][n]) : lists[l].inherits}
      depths == {n \in DOMAIN Above[org] : from(n) # {}}
  IN IF depths = {} THEN {} ELSE from(CHOOSE n \in depths : \A m \in depths : n <= m)

\* Mutant: the list a field is configured with is always used.
Configured(base, aware, org) == base

\* resolve_effective_reference_list_for_field; aware is
\* _uses_organization_reference_resolution.
Effective(base, aware, org) ==
  IF ~aware THEN base
  ELSE CHOOSE l \in Lists :
         IF OwnLists(base, org) # {} THEN l \in OwnLists(base, org)
         ELSE IF InheritedLists(base, org) # {} THEN l \in InheritedLists(base, org)
         ELSE l = base

-----------------------------------------------------------------------------
(* Permissions *)

\* _require_reference_create_permission
MayCreate(a, owner) == IF owner = NoOrg THEN a \in Managers ELSE owner \in Manages[a]

\* _require_reference_edit_permission
MayEdit(a, l) ==
  /\ lists[l].system => a \in Super
  /\ \/ MayCreate(a, lists[l].owner)
     \/ /\ lists[l].owner # NoOrg /\ ~lists[l].locked
        /\ \E o \in Scope[a], n \in 1..Cardinality(Orgs) :
             n \in DOMAIN Above[o] /\ Above[o][n] = lists[l].owner

\* _require_active_token and _get_link_list
LinkMayEdit(k, l) == links[k].status = "active" /\ lists[l].via = k

MayWrite(w, l) ==
  /\ ListIsActive(l)
  /\ IF w \in Links THEN LinkMayEdit(w, l) ELSE MayEdit(w, l)

-----------------------------------------------------------------------------
(* Edits: checks *)

Begins(e, what) == /\ edit[e] = NoEdit /\ edits < MaxEdits
                   /\ edit' = [edit EXCEPT ![e] = what]
                   /\ edits' = edits + 1
                   /\ UNCHANGED <<lists, items, links>>

IsFree(l) == lists[l].state = "none" /\ \A e \in Editors : edit[e] # NoEdit =>
                                          ~(edit[e].table = "list" /\ edit[e].id = l)

\* create_reference_list_for_actor
BeginCreateList(e) == \E a \in Actors, l \in Lists, owner \in Orgs \cup {NoOrg},
                        inherits, locked, system \in BOOLEAN :
  /\ IsFree(l) /\ MayCreate(a, owner)
  /\ Begins(e, [table |-> "list", id |-> l, row |-> [state |-> "active", owner |-> owner,
        inherits |-> inherits, locked |-> locked, system |-> system, via |-> NoLink]])
  /\ UNCHANGED issued

\* create_public_reference_list: a code of its own, and the owner of the link
BeginPublicList(e) == \E k \in Links, l \in Lists :
  /\ IsFree(l) /\ links[k].status = "active"
  /\ Begins(e, [table |-> "list", id |-> l,
        row |-> [NewList EXCEPT !.state = "active", !.owner = links[k].owner, !.via = k]])
  /\ UNCHANGED issued

\* update_reference_list_for_actor: a new owner needs the permission to create there.
BeginUpdateList(e) == \E a \in Actors, l \in Lists :
  /\ MayWrite(a, l)
  /\ \E change \in {[owner |-> o] : o \in {o \in Orgs \cup {NoOrg} : MayCreate(a, o)}}
                   \cup {[inherits |-> b] : b \in BOOLEAN}
                   \cup {[locked |-> b] : b \in BOOLEAN} \cup {[system |-> b] : b \in BOOLEAN} :
       /\ change @@ lists[l] # lists[l]
       /\ Begins(e, [table |-> "list", id |-> l, row |-> change])
  /\ UNCHANGED issued

ArchivesList(e, w) == \E l \in Lists :
  /\ MayWrite(w, l)
  /\ Begins(e, [table |-> "list", id |-> l, row |-> [state |-> "archived"]])
  /\ UNCHANGED issued

\* archive_reference_list_for_actor, archive_public_reference_list
BeginArchiveList(e) == \E a \in Actors : ArchivesList(e, a)
BeginArchivePublicList(e) == \E k \in Links : ArchivesList(e, k)

\* With a code of its own; 0 stands for no parent.
CreatesItem(e, w) == \E l \in Lists, label \in Spellings, parent \in 0..MaxItems :
  /\ MayWrite(w, l) /\ parent \in {0} \cup ActiveItems(l)
  /\ issued < MaxItems /\ issued' = issued + 1
  /\ Begins(e, [table |-> "item", id |-> issued + 1, does |-> "create",
                row |-> NewItem(l, label, "own", parent, TRUE)])

\* create_reference_item_for_actor, create_public_reference_item
BeginCreateItem(e) == \E a \in Actors : CreatesItem(e, a)
BeginCreatePublicItem(e) == \E k \in Links : CreatesItem(e, k)

UpdatesItem(e, w) == \E x \in Items, label \in Spellings :
  /\ items[x].state = "active" /\ MayWrite(w, items[x].list) /\ label # items[x].label
  /\ Begins(e, [table |-> "item", id |-> x, does |-> "update", label |-> label])
  /\ UNCHANGED issued

\* update_reference_item_for_actor, update_public_reference_item
BeginUpdateItem(e) == \E a \in Actors : UpdatesItem(e, a)
BeginUpdatePublicItem(e) == \E k \in Links : UpdatesItem(e, k)

ArchivesItem(e, w) == \E x \in Items :
  /\ items[x].state = "active" /\ MayWrite(w, items[x].list)
  /\ Begins(e, [table |-> "item", id |-> x, does |-> "archive"])
  /\ UNCHANGED issued

\* archive_reference_item_for_actor, archive_public_reference_item
BeginArchiveItem(e) == \E a \in Actors : ArchivesItem(e, a)
BeginArchivePublicItem(e) == \E k \in Links : ArchivesItem(e, k)

-----------------------------------------------------------------------------
(* Edits: commits *)

\* uq_reference_lists_registry_owner_code_scope, archived lists included
IsUnique(l, row) ==
  \A m \in Lists \ {l} : lists[m].state # "none" =>
    CodeOf[m] # CodeOf[l] \/ lists[m].owner # (row @@ lists[l]).owner

CommitList(e) ==
  /\ edit[e] # NoEdit /\ edit[e].table = "list" /\ IsUnique(edit[e].id, edit[e].row)
  /\ lists' = [lists EXCEPT ![edit[e].id] = edit[e].row @@ @]
  /\ edit' = [edit EXCEPT ![e] = NoEdit]
  /\ UNCHANGED <<items, issued, links, edits>>

\* The columns an edit of an item writes; the others stay as they are by now.
ItemAfter(what, row) ==
  CASE what.does = "create"  -> what.row
    [] what.does = "update"  -> [row EXCEPT !.label = what.label, !.hand = TRUE]
    [] what.does = "archive" -> [row EXCEPT !.state = "archived"]

CommitItem(e) ==
  /\ edit[e] # NoEdit /\ edit[e].table = "item"
  /\ items' = [items EXCEPT ![edit[e].id] = ItemAfter(edit[e], items[edit[e].id])]
  /\ edit' = [edit EXCEPT ![e] = NoEdit]
  /\ UNCHANGED <<lists, issued, links, edits>>

\* Refused by the index, or failed
RollBackEdit(e) ==
  /\ edit[e] # NoEdit
  /\ edit' = [edit EXCEPT ![e] = NoEdit]
  /\ UNCHANGED <<lists, items, issued, links, edits>>

-----------------------------------------------------------------------------
(* Edit links *)

\* ReferenceEditLinkService.create_for_actor
CreateEditLink == \E a \in Managers, k \in Links, owner \in Orgs \cup {NoOrg} :
  /\ links[k].status = "none" /\ owner \in {NoOrg} \cup Scope[a]
  /\ links' = [links EXCEPT ![k] = [status |-> "active", owner |-> owner]]
  /\ edits < MaxEdits /\ edits' = edits + 1
  /\ UNCHANGED <<lists, items, issued, edit>>

\* close_for_actor by a manager of the schema, or the time it expires
EndEditLink == \E k \in Links, status \in {"closed", "expired"} :
  /\ links[k].status \in {"active"} \cup (IF status = "closed" THEN {"expired"} ELSE {})
  /\ links' = [links EXCEPT ![k].status = status]
  /\ edits < MaxEdits /\ edits' = edits + 1
  /\ UNCHANGED <<lists, items, issued, edit>>

RefNext ==
  \/ \E e \in Editors :
       \/ BeginCreateList(e) \/ BeginPublicList(e) \/ BeginUpdateList(e) \/ BeginArchiveList(e)
       \/ BeginCreateItem(e) \/ BeginUpdateItem(e) \/ BeginArchiveItem(e)
       \/ BeginArchivePublicList(e) \/ BeginCreatePublicItem(e) \/ BeginUpdatePublicItem(e)
       \/ BeginArchivePublicItem(e)
       \/ CommitList(e) \/ CommitItem(e) \/ RollBackEdit(e)
  \/ CreateEditLink \/ EndEditLink
=============================================================================
