---------------------------- MODULE RegistrySchema ----------------------------
(***************************************************************************)
(* The schema of one registry: its blocks and fields, its base card        *)
(* template, which must list the active fields, one ordinary template, and *)
(* the form layout an administrator saves                                  *)
(* (services/registry_schema.py, services/card_template_layout.py).        *)
(*                                                                         *)
(* A request reads rows without a lock and checks them, flushes its        *)
(* UPDATEs and INSERTs, which wait for row locks, refreshes the base       *)
(* template under the locks of the registry and of the template, writes    *)
(* the status of the cards that have become complete or incomplete, and    *)
(* commits, with all its locks until then:                                 *)
(*                                                                         *)
(*   idle -> flush -> refresh -> base -> sync -> card -> commit -> idle    *)
(*   idle -> reload -> flush -> sync ...    (base template, unlocked)      *)
(*   idle -> sync ...                       (a template, locked)           *)
(*   idle -> flush -> share -> commit       (a new card)                   *)
(*   idle -> flush -> commit                (a value of a locked card)     *)
(*                                                                         *)
(* A table is a column of the database: a request writes a partial         *)
(* function of each, so what it did not change stays as others left it.    *)
(* Codes, labels, positions, types and display settings are left out; a    *)
(* field is required or not and has a value in one card, of the base or of *)
(* the ordinary template.  CardLifecycle has the status a synchronization  *)
(* gives a card; here it may change it or leave it, and waits for its row. *)
(***************************************************************************)
EXTENDS Naturals

CONSTANTS
  Requests, Blocks, Fields, Layouts,
  BlockOf,         \* the block a field is created in
  MaxRequests      \* bound: requests that are started

ASSUME SchemaAssumption == /\ BlockOf \in [Fields -> Blocks]
                           /\ {"registry", "base", "template", "card"} \cap (Blocks \cup Fields) = {}
                           /\ "default" \notin Layouts
                           /\ MaxRequests \in Nat

VARIABLES
  db,          \* committed columns
  pc,          \* where each request is
  writes,      \* what it means to write, from flush on what it has locked
  reserved,    \* rows it has locked for update
  ensures,     \* it refreshes the base template
  syncs,       \* it synchronizes the cards of the registry
  copy,        \* schema of the base template it, or its client, has read
  started,     \* requests started so far
  overwritten  \* the fields of the base template were last written without its lock

schemaVars == <<db, pc, writes, reserved, ensures, syncs, copy, started, overwritten>>

-----------------------------------------------------------------------------
(* Rows *)

Columns == {"archived", "status", "block", "field", "required", "value", "base",
            "template", "members", "cards"}

NoRow == [id \in {} |-> id]
NoWrites == [column \in Columns |-> NoRow]

\* A column with one row, or with the row of one block or field
Row(column, id, value) == [NoWrites EXCEPT ![column] = [i \in {id} |-> value]]
One(column, value) == Row(column, "row", value)

\* The rows of column f where it has them, those of g elsewhere
Over(f, g) == [id \in DOMAIN f \cup DOMAIN g |-> IF id \in DOMAIN f THEN f[id] ELSE g[id]]

Applied(rows, w) == [column \in Columns |-> Over(w[column], rows[column])]
Both(v, w) == Applied(w, v)

\* What request r reads: its own writes over the committed rows
View(r) == Applied(db, writes[r])

\* _active_field_ids_for_registry: active fields of active blocks
Active(rows) == {f \in Fields : /\ rows.field[f] = "active"
                                /\ rows.block[BlockOf[f]] = "active"}

Schema(rows) == rows.base["row"]

\* _get_registry without include_archive
RegistryIsActive(rows) ==
  ~rows.archived["row"] /\ rows.status["row"] # "archived"

\* What the revision of a layout is a hash of: the saved layout or, while
\* there is none, the default one of the template's fields
Resolved(schema) == IF schema.layout = "default" THEN schema ELSE schema.layout

Single(value) == [i \in {"row"} |-> value]

Init ==
  /\ \E fields \in SUBSET Fields, blocks \in SUBSET Blocks, card \in {"none", "base"} :
       /\ \A f \in fields : BlockOf[f] \in blocks
       /\ db = [archived |-> Single(FALSE), status |-> Single("active"),
                block |-> [b \in Blocks |-> IF b \in blocks THEN "active" ELSE "none"],
                field |-> [f \in Fields |-> IF f \in fields THEN "active" ELSE "none"],
                required |-> [f \in Fields |-> FALSE],
                value |-> [f \in Fields |-> IF f \in fields /\ card # "none" THEN "empty" ELSE "none"],
                base |-> Single([fields |-> fields, layout |-> "default"]),
                template |-> Single("none"), members |-> Single({}), cards |-> Single(card)]
  /\ pc = [r \in Requests |-> "idle"]
  /\ writes = [r \in Requests |-> NoWrites]
  /\ reserved = [r \in Requests |-> {}]
  /\ ensures = [r \in Requests |-> FALSE]
  /\ syncs = [r \in Requests |-> FALSE]
  /\ copy = [r \in Requests |-> Schema(db)]
  /\ started = 0
  /\ overwritten = FALSE

-----------------------------------------------------------------------------
(* Row locks *)

\* The rows that the writes w change
Written(w) ==
  {row \in {"registry", "base", "template"} \cup Blocks \cup Fields :
     \/ row = "registry" /\ DOMAIN w.archived \cup DOMAIN w.status # {}
     \/ row = "base" /\ DOMAIN w.base # {}
     \/ row = "template" /\ DOMAIN w.template \cup DOMAIN w.members # {}
     \/ row \in DOMAIN w.block \cup DOMAIN w.field \cup DOMAIN w.required}

\* Its changes have been sent to the database.
IsFlushed(r) == pc[r] \in {"share", "refresh", "base", "sync", "card", "commit"}

\* Request s has changed or locked a row, and not committed.
Has(s, row) == \/ IsFlushed(s) /\ row \in Written(writes[s])
               \/ row \in reserved[s]

\* A new block, template or card refers to the registry,
Inserts(r) == \/ \E b \in DOMAIN writes[r].block : writes[r].block[b] = "active"
              \/ /\ DOMAIN writes[r].template # {}
                 /\ writes[r].template["row"] = "active"
              \/ /\ DOMAIN writes[r].cards # {}
                 /\ writes[r].cards["row"] # "none"

\* and a new card to its template.
Shares(s, row) == /\ pc[s] = "commit" /\ DOMAIN writes[s].cards # {}
                  /\ writes[s].cards["row"] = row

\* What request r needs next, request s has: an UPDATE needs the row; a
\* foreign key a row that is not FOR UPDATE; FOR UPDATE a row without
\* uncommitted foreign keys.
WaitsFor(r, s) ==
  /\ r # s
  /\ \/ /\ pc[r] = "flush"
        /\ \/ \E row \in Written(writes[r]) : Has(s, row)
           \/ /\ IsFlushed(s)
              /\ DOMAIN writes[r].value \cap DOMAIN writes[s].value # {}
           \/ Inserts(r) /\ "registry" \in reserved[s]
     \/ pc[r] = "share" /\ writes[r].cards["row"] \in reserved[s]
     \/ /\ pc[r] = "refresh"
        /\ Has(s, "registry") \/ (IsFlushed(s) /\ Inserts(s))
     \/ /\ pc[r] = "base"
        /\ Has(s, "base") \/ Shares(s, "base")
     \/ pc[r] = "card" /\ Has(s, "card")

Waits(r) == \E s \in Requests : WaitsFor(r, s)

-----------------------------------------------------------------------------
(* The beginning of a request: unlocked reads, checks, and what to write *)

Begin(r, w, locked, ensure, sync) ==
  /\ pc[r] = "idle" /\ started < MaxRequests
  /\ started' = started + 1
  /\ pc' = [pc EXCEPT ![r] = "flush"]
  /\ writes' = [writes EXCEPT ![r] = w]
  /\ reserved' = [reserved EXCEPT ![r] = locked]
  /\ ensures' = [ensures EXCEPT ![r] = ensure]
  /\ syncs' = [syncs EXCEPT ![r] = sync]
  /\ UNCHANGED <<db, copy, overwritten>>

\* A change of a block or a field: the base template is refreshed, the cards
\* are synchronized.
Change(r, w) == Begin(r, w, {}, TRUE, TRUE)

\* A change that does neither
Plain(r, w) == Begin(r, w, {}, FALSE, FALSE)

\* create_block_for_actor
CreateBlock(r) ==
  \E b \in Blocks : /\ RegistryIsActive(db) /\ db.block[b] = "none"
                    /\ Plain(r, Row("block", b, "active"))

\* archive_block_for_actor
ArchiveBlock(r) ==
  \E b \in Blocks : /\ db.block[b] = "active"
                    /\ Change(r, Row("block", b, "archived"))

\* create_field_for_actor
CreateField(r) ==
  \E f \in Fields, required \in BOOLEAN :
    /\ db.field[f] = "none" /\ db.block[BlockOf[f]] = "active"
    /\ Change(r, Both(Row("field", f, "active"), Row("required", f, required)))

\* update_block_for_actor: titles and positions are left out, the base
\* template is refreshed all the same; the cards are not synchronized.
UpdateBlock(r) == \E b \in Blocks : /\ db.block[b] = "active"
                                   /\ Begin(r, NoWrites, {}, TRUE, FALSE)

CanUpdate(f) == db.field[f] = "active" /\ db.block[BlockOf[f]] = "active"

\* update_field_for_actor writes the columns that differ from the field as
\* it was read.
UpdateField(r) ==
  \E f \in Fields, required, active \in BOOLEAN :
    LET w == IF required = db.required[f] THEN NoWrites
                                          ELSE Row("required", f, required)
    IN /\ CanUpdate(f)
       /\ Change(r, IF active THEN w ELSE Both(w, Row("field", f, "inactive")))

\* _archive_field_values deletes the values it finds empty.
EmptyValues(f) == IF db.value[f] = "empty" THEN Row("value", f, "none")
                                          ELSE NoWrites

\* archive_field_for_actor
ArchiveField(r) ==
  \E f \in Fields :
    /\ CanUpdate(f)
    /\ Change(r, Both(Row("field", f, "archived"), EmptyValues(f)))

\* create_card_template_for_actor
CreateTemplate(r) ==
  \E members \in SUBSET Active(db) :
    /\ RegistryIsActive(db) /\ db.template["row"] = "none"
    /\ Plain(r, Both(One("template", "active"), One("members", members)))

\* archive_card_template_for_actor, and update_card_template_for_actor with
\* is_active = False, which synchronizes the cards
EndTemplate(r) ==
  \E sync \in BOOLEAN :
    /\ db.template["row"] = "active"
    /\ Begin(r, One("template", "inactive"), {}, FALSE, sync)

\* update_registry_for_actor
UpdateRegistry(r) ==
  \E status \in {"draft", "active"} :
    /\ RegistryIsActive(db)
    /\ Plain(r, IF status = db.status["row"] THEN NoWrites
                                             ELSE One("status", status))

IsLive(rows) == rows.cards["row"] # "none"

\* archive_registry_for_actor of the default registry
ArchiveRegistry(r) ==
  /\ RegistryIsActive(db) /\ ~IsLive(db)
  /\ Plain(r, Both(One("archived", TRUE), One("status", "archived")))

\* Bound: one card
NoOtherCard == ~IsLive(db) /\ \A s \in Requests : DOMAIN writes[s].cards = {}

\* create_card inserts a card; the registry and the template are checked
\* without their locks.
CreateCard(r) ==
  \E template \in {"base", "template"} :
    /\ RegistryIsActive(db) /\ NoOtherCard
    /\ template = "template" => db.template["row"] = "active"
    /\ Plain(r, One("cards", template))

\* set_field_value_for_actor: the card is locked, the field is checked
\* without a lock.
SetValue(r) ==
  \E f \in Fields, v \in {"empty", "filled"} :
    /\ IsLive(db) /\ CanUpdate(f)
    /\ \A s \in Requests : ~Has(s, "card")
    /\ Begin(r, Row("value", f, v), {"card"}, FALSE, FALSE)

\* The client opens the layout: it keeps the revision it was shown.
OpenLayout(r) == /\ copy[r] # Schema(db) /\ pc[r] = "idle"
                 /\ copy' = [copy EXCEPT ![r] = Schema(db)]
                 /\ UNCHANGED <<db, pc, writes, reserved, ensures, syncs, started, overwritten>>

-----------------------------------------------------------------------------
(* Flush, refresh, commit *)

\* A second row with a code, or an id, that has been taken meanwhile
IsDuplicate(r) ==
  LET w == writes[r] IN
  \/ \E f \in DOMAIN w.field : w.field[f] = "active" /\ db.field[f] # "none"
  \/ \E b \in DOMAIN w.block : w.block[b] = "active" /\ db.block[b] # "none"
  \/ /\ DOMAIN w.template # {} /\ w.template["row"] = "active"
     /\ db.template["row"] # "none"

AfterFlush(r) == IF ensures[r] THEN "refresh"
                 ELSE IF DOMAIN writes[r].cards # {} THEN "share"
                 ELSE IF syncs[r] THEN "sync" ELSE "commit"

Flush(r) ==
  /\ pc[r] = "flush" /\ ~Waits(r) /\ ~IsDuplicate(r)
  /\ pc' = [pc EXCEPT ![r] = AfterFlush(r)]
  /\ UNCHANGED <<db, writes, reserved, ensures, syncs, copy, started, overwritten>>

\* The INSERT of a card refers to the registry, then to the template.
ShareTemplate(r) ==
  /\ pc[r] = "share" /\ ~Waits(r)
  /\ pc' = [pc EXCEPT ![r] = "commit"]
  /\ UNCHANGED <<db, writes, reserved, ensures, syncs, copy, started, overwritten>>

\* ensure_base_card_template_for_registry locks the registry ...
LockRegistry(r) ==
  /\ pc[r] = "refresh" /\ ~Waits(r)
  /\ RegistryIsActive(db)
  /\ reserved' = [reserved EXCEPT ![r] = @ \cup {"registry"}]
  /\ pc' = [pc EXCEPT ![r] = "base"]
  /\ UNCHANGED <<db, writes, ensures, syncs, copy, started, overwritten>>

\* Once the template is written the cards are synchronized, or not.
AfterBase(r) == IF syncs[r] THEN "sync" ELSE "commit"

\* Mutant: a merge that keeps only the field ids.
MembersOnly(schema, rows) == [schema EXCEPT !.fields = Active(rows),
                                            !.layout = "default"]

\* _base_card_template_field_schema, merge_card_template_field_ids
WithActiveFields(schema, rows) == [schema EXCEPT !.fields = Active(rows)]

\* Mutant: the template is not locked.
RefreshBaseUnlocked(r) ==
  LET schema == WithActiveFields(Schema(db), View(r))
  IN /\ pc[r] = "base"
     /\ writes' = [writes EXCEPT ![r] = Both(@, One("base", schema))]
     /\ copy' = [copy EXCEPT ![r] = Schema(db)]
     /\ pc' = [pc EXCEPT ![r] = AfterBase(r)]
     /\ UNCHANGED <<db, reserved, ensures, syncs, started, overwritten>>

\* ... then its base template, and merges the active fields into it.
RefreshBase(r) ==
  LET schema == WithActiveFields(Schema(db), View(r))
  IN /\ pc[r] = "base" /\ ~Waits(r)
     /\ reserved' = [reserved EXCEPT ![r] = @ \cup {"base"}]
     /\ writes' = [writes EXCEPT ![r] = Both(@, One("base", schema))]
     /\ copy' = [copy EXCEPT ![r] = Schema(db)]
     /\ pc' = [pc EXCEPT ![r] = AfterBase(r)]
     /\ UNCHANGED <<db, ensures, syncs, started, overwritten>>

\* synchronize_registry_card_lifecycles selects the cards without a lock.
\* One whose status or first activation changes is written ...
Synchronize(r) ==
  \E next \in {"commit", "card"} :
    /\ pc[r] = "sync"
    /\ next = "card" => IsLive(db)
    /\ pc' = [pc EXCEPT ![r] = next]
    /\ UNCHANGED <<db, writes, reserved, ensures, syncs, copy, started, overwritten>>

\* ... once nobody else has it.
WriteStatus(r) ==
  /\ pc[r] = "card" /\ ~Waits(r)
  /\ reserved' = [reserved EXCEPT ![r] = @ \cup {"card"}]
  /\ pc' = [pc EXCEPT ![r] = "commit"]
  /\ UNCHANGED <<db, writes, ensures, syncs, copy, started, overwritten>>

-----------------------------------------------------------------------------
(* update_card_template_for_actor and update_form_layout_for_actor *)

\* A row is locked, then read again and changed at once.
Locked(r, row, w, to) ==
  /\ pc[r] = "idle" /\ started < MaxRequests
  /\ \A s \in Requests : ~Has(s, row) /\ ~Shares(s, row)
  /\ started' = started + 1
  /\ reserved' = [reserved EXCEPT ![r] = {row}]
  /\ writes' = [writes EXCEPT ![r] = w]
  /\ pc' = [pc EXCEPT ![r] = to]
  /\ UNCHANGED <<db, ensures, syncs, overwritten>>

\* With a field schema the template is locked.
UpdateTemplate(r) ==
  \E members \in SUBSET Active(db) :
    /\ db.template["row"] = "active"
    /\ Locked(r, "template", One("members", members), "sync")
    /\ UNCHANGED copy

\* Mutant: the base template is refreshed with its own row locked.
UpdateBaseThenRefresh(r) ==
  /\ Locked(r, "base", NoWrites, "refresh")
  /\ UNCHANGED copy

\* Of the base template only the fields are refreshed.
UpdateBase(r) ==
  /\ Locked(r, "base", One("base", WithActiveFields(Schema(db), db)), "sync")
  /\ copy' = [copy EXCEPT ![r] = Schema(db)]

\* Without a field schema, a new name for instance, the base template is
\* read without a lock ...
RenameBase(r) ==
  /\ pc[r] = "idle" /\ started < MaxRequests
  /\ started' = started + 1
  /\ copy' = [copy EXCEPT ![r] = Schema(db)]
  /\ syncs' = [syncs EXCEPT ![r] = TRUE]
  /\ pc' = [pc EXCEPT ![r] = "reload"]
  /\ UNCHANGED <<db, writes, reserved, ensures, overwritten>>

\* ... then the active fields are; the column is written if it differs from
\* the copy.
RecomputeBase(r) ==
  LET schema == WithActiveFields(copy[r], db)
  IN /\ pc[r] = "reload"
     /\ writes' = [writes EXCEPT ![r] =
                     IF schema = copy[r] THEN NoWrites ELSE One("base", schema)]
     /\ pc' = [pc EXCEPT ![r] = "flush"]
     /\ UNCHANGED <<db, reserved, ensures, syncs, copy, started, overwritten>>

\* The revision the client sends is that of the template under its lock.
IsCurrent(r) == Resolved(copy[r]) = Resolved(Schema(db))

\* update_form_layout_for_actor with a layout for the revision in copy
SaveLayout(r) ==
  \E layout \in Layouts :
    /\ IsCurrent(r)
    /\ Locked(r, "base", One("base", [Schema(db) EXCEPT !.layout = layout]), "commit")
    /\ UNCHANGED copy

\* The card is dismissed or archived.
EndCard(r) == /\ IsLive(db)
              /\ Locked(r, "card", One("cards", "none"), "commit")
              /\ UNCHANGED copy

-----------------------------------------------------------------------------
(* The end of a request *)

Release(r) == /\ pc' = [pc EXCEPT ![r] = "idle"]
              /\ writes' = [writes EXCEPT ![r] = NoWrites]
              /\ reserved' = [reserved EXCEPT ![r] = {}]
              /\ ensures' = [ensures EXCEPT ![r] = FALSE]
              /\ syncs' = [syncs EXCEPT ![r] = FALSE]
              /\ UNCHANGED <<copy, started>>

\* It writes the base template and has not locked it.
Overwrites(r) == DOMAIN writes[r].base # {} /\ "base" \notin reserved[r]

Commit(r) ==
  /\ pc[r] = "commit"
  /\ db' = Applied(db, writes[r])
  /\ overwritten' = \/ Overwrites(r)
                    \/ overwritten /\ Schema(db)'.fields = Schema(db).fields
  /\ Release(r)

\* A refusal after the first read, a duplicate or an archived registry
\* found later, a lost client, a deadlock PostgreSQL has found: everything is
\* rolled back.
Fail(r) == /\ pc[r] # "idle"
           /\ Release(r)
           /\ UNCHANGED <<db, overwritten>>

Start(r) ==
  \/ CreateBlock(r) \/ UpdateBlock(r) \/ ArchiveBlock(r)
  \/ CreateField(r) \/ UpdateField(r) \/ ArchiveField(r)
  \/ CreateTemplate(r) \/ UpdateTemplate(r) \/ EndTemplate(r)
  \/ UpdateBase(r) \/ RenameBase(r) \/ OpenLayout(r) \/ SaveLayout(r)
  \/ UpdateRegistry(r) \/ ArchiveRegistry(r)
  \/ CreateCard(r) \/ EndCard(r) \/ SetValue(r)

Step(r) == \/ RecomputeBase(r) \/ Flush(r) \/ ShareTemplate(r) \/ LockRegistry(r)
           \/ RefreshBase(r) \/ Synchronize(r) \/ WriteStatus(r) \/ Commit(r)

Next == \E r \in Requests : Start(r) \/ Step(r) \/ Fail(r)

Spec == Init /\ [][Next]_schemaVars

-----------------------------------------------------------------------------
(* Properties *)

\* The base template lists exactly the active fields of active blocks,
\* whatever changes of blocks and fields overlap, unless an unlocked update
\* of the template has written it last
\* (ensure_base_card_template_for_registry).
BaseFollowsFields == ~overwritten => Schema(db).fields = Active(db)

\* A saved layout gives way only to a layout whose author was shown the one
\* it replaces, changes of fields keep it; only an unlocked update of the
\* template may bring back an older one (update_form_layout_for_actor,
\* merge_card_template_field_ids).
LayoutIsKept ==
  [][Schema(db)'.layout # Schema(db).layout =>
       \E r \in Requests :
         /\ pc[r] = "commit" /\ pc'[r] = "idle"
         /\ \/ Overwrites(r)
            \/ /\ Schema(db)'.layout # "default"
               /\ Resolved(copy[r]) = Resolved(Schema(db))]_schemaVars

\* Every request of S waits for one of S.
Circle(S) == S # {} /\ \A r \in S : \E s \in S : WaitsFor(r, s)

\* Requests wait for each other in a circle only at a card: one synchronizes
\* it with its schema change flushed, another has locked it before it came to
\* a row of that change, as a value of an archived field
\* (_synchronize_card_lifecycles, _lock_editable_card).  Rows of blocks and
\* fields, the registry and its templates are taken in one order by all.
CirclesMeetAtACard ==
  \A S \in SUBSET Requests : Circle(S) =>
    \E r, s \in S : pc[r] = "card" /\ pc[s] = "flush" /\ "card" \in reserved[s]

=============================================================================
