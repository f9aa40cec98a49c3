---------------------------- MODULE CardLifecycle ----------------------------
(***************************************************************************)
(* The life of registry cards: creation, field values, rows of repeatable  *)
(* blocks, moves, dismissal, archiving, transfer to a new card, and the    *)
(* status that follows from the mandatory fields (services/cards.py,       *)
(* services/card_events.py, the callers in services/registry_schema.py).   *)
(*                                                                         *)
(* A business operation locks its card before it reads anything, works and *)
(* commits: lock and work are one step, the commit another.  A change of   *)
(* the schema recomputes the status of every card of the registry from     *)
(* rows it selected without a lock:                                        *)
(*                                                                         *)
(*   idle -> commit -> idle        idle -> sync <-> wait,  sync -> idle    *)
(*                                                                         *)
(* Abstractions: a card has one field in its base block and one in each    *)
(* row of a repeatable block; a value is absent, empty or filled, its      *)
(* content is left out; organization and unit are one place; permissions   *)
(* and invalid input are the refusals of Fail; the date and the text of an *)
(* event are left out, an operation that needs a basis has one.            *)
(***************************************************************************)
EXTENDS Naturals, FiniteSets

CONSTANTS
  Cards,          \* ids of cards
  Requests,       \* transactions that may be in flight at the same time
  Instances,      \* rows of the repeatable block (card_block_instances)
  Places,         \* organization and unit of a card
  Modes,          \* required_mode of a field
  NoRequest,      \* "the row is not locked"
  NoCard,         \* no relation of type transferred_to
  MinInstances,   \* form_blocks.min_instances
  MaxEvents       \* bound: business events of one card

ASSUME ConstantsAssumption ==
  /\ NoRequest \notin Requests
  /\ NoCard \notin Cards
  /\ Places # {}
  /\ Modes \subseteq {"not_required", "required_on_publish", "required"}
  /\ "not_required" \in Modes
  /\ MinInstances \in Nat /\ MaxEvents \in Nat

VARIABLES
  card,           \* committed rows: cards, their values, events, relations
  mode,           \* committed required_mode of the two fields
  lock,           \* holder of the row lock of each card
  registryLock,   \* holder of the registry's row lock, to change the schema
  pc,             \* where each request is
  writes,         \* its uncommitted rows, meant for the cards it has locked
  newMode,        \* its uncommitted schema
  todo, loaded,   \* cards a synchronization has selected, as it loaded them
  next            \* the UPDATE a synchronization waits to make

locks == <<lock, registryLock>>
sync == <<newMode, todo, loaded, next>>
vars == <<card, mode, lock, registryLock, pc, writes,
          newMode, todo, loaded, next>>

-----------------------------------------------------------------------------
(* Rows *)

Lifecycles == {"none", "draft", "active", "dismissed", "archived", "superseded"}
Automatic == {"draft", "active"}
Terminal == {"dismissed", "archived", "superseded"}

\* No row of field_values; a row without a value; a row with one
Values == {"absent", "empty", "filled"}

CardRow == [lifecycle : Lifecycles, activated : BOOLEAN, archived : BOOLEAN,
            place : Places, base : Values,
            rows : [Instances -> {"none", "live", "archived"}],
            cells : [Instances -> Values],
            events : 0 .. MaxEvents, source : Cards \cup {NoCard}]

\* The field of the base block, and that of the repeatable block if any
Fields == {"base"} \cup IF Instances = {} THEN {} ELSE {"cell"}
Schema == [Fields -> Modes]

\* The schema of a request that does not change it
Unchanged == [f \in Fields |-> "not_required"]

AnyPlace == CHOOSE p \in Places : TRUE

\* The card create_card inserts, before defaults and synchronization
Blank(p) == [lifecycle |-> "draft", activated |-> FALSE, archived |-> FALSE,
             place |-> p, base |-> "absent",
             rows |-> [i \in Instances |-> "none"],
             cells |-> [i \in Instances |-> "absent"],
             events |-> 0, source |-> NoCard]

\* No card with this id yet
Absent == [Blank(AnyPlace) EXCEPT !.lifecycle = "none"]

Live(row) == {i \in Instances : row.rows[i] = "live"}

\* _get_or_create_field_value: a new row of field_values is an empty one,
\* _field_storage_snapshot reads it so.
Stored(value) == IF value = "absent" THEN "empty" ELSE value

\* What a user can change: _card_business_state and the collected fields
Content(row) == <<row.place, row.rows, Stored(row.base),
                  [i \in Instances |-> Stored(row.cells[i])]>>

-----------------------------------------------------------------------------
(* Rules *)

\* _get_editable_card
Editable(row) == row.lifecycle \in Automatic /\ ~row.archived

\* _missing_required_field_labels finds none
Complete(row, schema) ==
  /\ schema["base"] # "not_required" => row.base = "filled"
  /\ \A i \in Live(row) :
       schema["cell"] # "not_required" => row.cells[i] = "filled"

Derived(row, schema) == IF Complete(row, schema) THEN "active" ELSE "draft"

\* synchronize_card_lifecycle
Synchronized(row, schema) ==
  IF row.lifecycle \notin Automatic THEN row
  ELSE [row EXCEPT !.lifecycle = Derived(row, schema),
                   !.activated = @ \/ Complete(row, schema)]

\* Mutant: a card that fell back to draft needs no basis.
InForceIfActive(row) == row.lifecycle = "active"

\* The card has been active: a change needs a basis and leaves an event.
InForce(row) == row.activated \/ row.lifecycle = "active"

\* _active_card_change: one event when the operation changed something
Recorded(old, new) ==
  IF InForce(old) /\ \/ Content(new) # Content(old)
                     \/ new.lifecycle # old.lifecycle
    THEN [new EXCEPT !.events = @ + 1]
    ELSE new

-----------------------------------------------------------------------------
Init ==
  /\ card = [c \in Cards |-> Absent]
  /\ mode \in Schema
  /\ lock = [c \in Cards |-> NoRequest]
  /\ registryLock = NoRequest
  /\ pc = [r \in Requests |-> "idle"]
  /\ writes = [r \in Requests |-> [c \in Cards |-> Absent]]
  /\ newMode = [r \in Requests |-> Unchanged]
  /\ todo = [r \in Requests |-> {}]
  /\ loaded = [r \in Requests |-> [c \in Cards |-> Absent]]
  /\ next = [r \in Requests |-> NoCard]

\* Request r locks card c and leaves row to be committed.
Write(r, c, row) ==
  /\ pc[r] = "idle" /\ lock[c] = NoRequest
  /\ lock' = [lock EXCEPT ![c] = r]
  /\ writes' = [writes EXCEPT ![r] = [@ EXCEPT ![c] = row]]
  /\ pc' = [pc EXCEPT ![r] = "commit"]
  /\ UNCHANGED <<card, mode, registryLock, sync>>

-----------------------------------------------------------------------------
(* Creation *)

\* A new card refers to its registry: the foreign key holds a share of the
\* registry's row lock until the end of the transaction.
Inserting(r) == \E c \in Cards : lock[c] = r /\ card[c].lifecycle = "none"

Insert(r, c, row) == /\ card[c].lifecycle = "none" /\ registryLock = NoRequest
                     /\ Write(r, c, row)

\* create_card: values are the template's defaults
New(p, value) == Synchronized([Blank(p) EXCEPT !.base = value], mode)

CreateCard(r, c) ==
  \E p \in Places, v \in {"absent", "filled"} : Insert(r, c, New(p, v))

\* _preserve_draft_lifecycle: an explicit draft whatever its defaults
Preserved(row) == [row EXCEPT !.activated = FALSE, !.lifecycle = "draft"]

\* create_card_draft_for_actor, create_card_draft_with_public_link_for_actor
CreateDraft(r, c) ==
  \E p \in Places, v \in {"absent", "filled"} :
    Insert(r, c, Preserved(New(p, v)))

\* create_card_with_first_value_for_actor: no event, the draft is not in force
CreateWithFirstValue(r, c) ==
  \E p \in Places, v \in {"absent", "filled"} :
    Insert(r, c, Synchronized([Preserved(New(p, v)) EXCEPT !.base = "filled"],
                              mode))

-----------------------------------------------------------------------------
(* Business operations under _active_card_change *)

\* Mutant: the card is not tested after it was locked.
ChangeUnchecked(r, c, row) ==
  /\ Recorded(card[c], row).events <= MaxEvents
  /\ Write(r, c, Recorded(card[c], row))

\* Card c becomes row; the status is already synchronized where the
\* operation does so.
Change(r, c, row) ==
  /\ Editable(card[c])
  /\ Recorded(card[c], row).events <= MaxEvents
  /\ Write(r, c, Recorded(card[c], row))

\* _ensure_required_assignment_is_not_empty
Accepted(field, value) == mode[field] = "required" => value = "filled"

\* set_field_value_for_actor, set_field_values_for_actor and
\* set_field_value_from_public_link
SetBaseValue(r, c) ==
  \E v \in {"empty", "filled"} :
    /\ Accepted("base", v)
    /\ Change(r, c, Synchronized([card[c] EXCEPT !.base = v], mode))

SetCell(r, c) ==
  \E i \in Live(card[c]), v \in {"empty", "filled"} :
    /\ Accepted("cell", v)
    /\ Change(r, c, Synchronized([card[c] EXCEPT
                !.cells = [@ EXCEPT ![i] = v]], mode))

\* Mutant: a new row of the block does not synchronize the status.
CreateInstanceOnly(r, c) ==
  \E i \in Instances :
    /\ card[c].rows[i] = "none"
    /\ Change(r, c, [card[c] EXCEPT !.rows = [@ EXCEPT ![i] = "live"]])

\* create_block_instance_for_actor
CreateInstance(r, c) ==
  \E i \in Instances :
    /\ card[c].rows[i] = "none"
    /\ Change(r, c, Synchronized([card[c] EXCEPT
                !.rows = [@ EXCEPT ![i] = "live"]], mode))

\* archive_block_instance_for_actor; the values of the row stay
ArchiveInstance(r, c) ==
  \E i \in Live(card[c]) :
    /\ Cardinality(Live(card[c])) > MinInstances
    /\ Change(r, c, Synchronized([card[c] EXCEPT
                !.rows = [@ EXCEPT ![i] = "archived"]], mode))

\* update_card_for_actor with another unit
UpdateCard(r, c) ==
  \E p \in Places :
    Change(r, c, Synchronized([card[c] EXCEPT !.place = p], mode))

\* update_card_for_actor without it, which needs no basis
UpdateFlags(r, c) ==
  /\ Editable(card[c])
  /\ Write(r, c, Synchronized(card[c], mode))

\* move_card_organization_for_actor
MoveOrganization(r, c) ==
  \E p \in Places : Change(r, c, [card[c] EXCEPT !.place = p])

-----------------------------------------------------------------------------
(* The ends of a card *)

\* dismiss_card_for_actor, with an event of its own
Dismiss(r, c) ==
  /\ Editable(card[c]) /\ card[c].lifecycle = "active"
  /\ card[c].events < MaxEvents
  /\ Write(r, c, [card[c] EXCEPT !.lifecycle = "dismissed",
                                 !.events = @ + 1])

\* archive_card_for_actor
Archive(r, c) ==
  LET inForce == InForce(card[c]) \/ card[c].lifecycle = "dismissed"
      row == [card[c] EXCEPT !.lifecycle = "archived", !.archived = TRUE]
  IN /\ card[c].lifecycle \in Automatic \cup {"dismissed"}
     /\ ~card[c].archived
     /\ inForce => card[c].events < MaxEvents
     /\ Write(r, c, IF inForce THEN [row EXCEPT !.events = @ + 1] ELSE row)

\* _copy_card_values finds the new row of every value it copies
Copyable(row) == \A i \in Instances :
                   row.rows[i] = "archived" => row.cells[i] = "absent"

\* Mutant: the relation to the old card is not stored.
CopyUnlinked(c, p) ==
  [Synchronized(Blank(p), mode) EXCEPT
     !.base = card[c].base, !.cells = card[c].cells,
     !.rows = [i \in Instances |-> IF card[c].rows[i] = "live" THEN "live"
                                                              ELSE "none"]]

\* The copy of a card.  create_card has set its status, before it had
\* values; archived rows are not copied.
Copy(c, p) ==
  [Synchronized(Blank(p), mode) EXCEPT
     !.source = c, !.base = card[c].base, !.cells = card[c].cells,
     !.rows = [i \in Instances |-> IF card[c].rows[i] = "live" THEN "live"
                                                              ELSE "none"]]

\* transfer_card_for_actor.  It may have to wait for the registry with the
\* old card locked; the model takes both at once.
Transfer(r, c, n) ==
  LET old == Recorded(card[c], [card[c] EXCEPT !.lifecycle = "superseded"])
  IN /\ pc[r] = "idle"
     /\ Editable(card[c]) /\ old.events <= MaxEvents
     /\ Copyable(card[c])
     /\ c # n /\ card[n].lifecycle = "none" /\ registryLock = NoRequest
     /\ lock[c] = NoRequest /\ lock[n] = NoRequest
     /\ \E p \in Places :
          /\ lock' = [lock EXCEPT ![c] = r, ![n] = r]
          /\ writes' = [writes EXCEPT ![r] = [@ EXCEPT ![c] = old,
                                                       ![n] = Copy(c, p)]]
     /\ pc' = [pc EXCEPT ![r] = "commit"]
     /\ UNCHANGED <<card, mode, registryLock, sync>>

-----------------------------------------------------------------------------
(* Changes of the schema: synchronize_registry_card_lifecycles *)

\* create_field_for_actor, update_field_for_actor and the like change the
\* schema, lock the registry (ensure_base_card_template_for_registry), then
\* select its cards without locking them.
ChangeSchema(r) ==
  LET selected == {c \in Cards : card[c].lifecycle \in Automatic}
  IN /\ pc[r] = "idle" /\ registryLock = NoRequest
     /\ \A s \in Requests : ~Inserting(s)
     /\ registryLock' = r
     /\ \E f \in Fields, m \in Modes :
          newMode' = [newMode EXCEPT ![r] = [mode EXCEPT ![f] = m]]
     /\ todo' = [todo EXCEPT ![r] = selected]
     /\ loaded' = [loaded EXCEPT ![r] = [c \in Cards |->
                     IF c \in selected THEN card[c] ELSE Absent]]
     /\ pc' = [pc EXCEPT ![r] = "sync"]
     /\ UNCHANGED <<card, mode, lock, writes, next>>

\* The status of the next card is derived from its values as committed now.
SyncCard(r, c) ==
  LET copy == loaded[r][c]
      status == Derived(card[c], newMode[r])
  IN /\ pc[r] = "sync" /\ c \in todo[r]
     /\ IF status = copy.lifecycle /\ (status = "active" => copy.activated)
          THEN /\ todo' = [todo EXCEPT ![r] = @ \ {c}]
               /\ UNCHANGED <<pc, loaded, next>>
          ELSE /\ pc' = [pc EXCEPT ![r] = "wait"]
               /\ next' = [next EXCEPT ![r] = c]
               /\ loaded' = [loaded EXCEPT ![r] = [@ EXCEPT ![c] =
                    [copy EXCEPT !.lifecycle = status,
                                 !.activated = @ \/ status = "active"]]]
               /\ UNCHANGED todo
     /\ UNCHANGED <<card, mode, locks, writes, newMode>>

\* The UPDATE writes the two columns the synchronization may change; it
\* never clears the date of activation.
Merged(row, copy) == [row EXCEPT !.lifecycle = copy.lifecycle,
                                 !.activated = @ \/ copy.activated]

\* The UPDATE waits for the row.
SyncWrite(r) ==
  LET c == next[r] IN
  /\ pc[r] = "wait" /\ lock[c] = NoRequest
  /\ lock' = [lock EXCEPT ![c] = r]
  /\ writes' = [writes EXCEPT ![r] = [@ EXCEPT ![c] =
                                         Merged(card[c], loaded[r][c])]]
  /\ todo' = [todo EXCEPT ![r] = @ \ {c}]
  /\ next' = [next EXCEPT ![r] = NoCard]
  /\ pc' = [pc EXCEPT ![r] = "sync"]
  /\ UNCHANGED <<card, mode, registryLock, newMode, loaded>>

-----------------------------------------------------------------------------
(* The end of a transaction *)

Release(r) ==
  /\ lock' = [c \in Cards |-> IF lock[c] = r THEN NoRequest ELSE lock[c]]
  /\ registryLock' = IF registryLock = r THEN NoRequest ELSE registryLock
  /\ pc' = [pc EXCEPT ![r] = "idle"]
  /\ writes' = [writes EXCEPT ![r] = [c \in Cards |-> Absent]]
  /\ newMode' = [newMode EXCEPT ![r] = Unchanged]
  /\ todo' = [todo EXCEPT ![r] = {}]
  /\ loaded' = [loaded EXCEPT ![r] = [c \in Cards |-> Absent]]
  /\ next' = [next EXCEPT ![r] = NoCard]

Commit(r) ==
  /\ pc[r] = "commit" \/ (pc[r] = "sync" /\ todo[r] = {})
  /\ card' = [c \in Cards |-> IF lock[c] = r THEN writes[r][c] ELSE card[c]]
  /\ mode' = IF registryLock = r THEN newMode[r] ELSE mode
  /\ Release(r)

\* Any exception, or PostgreSQL breaking a deadlock of two synchronizations.
Fail(r) == pc[r] # "idle" /\ Release(r) /\ UNCHANGED <<card, mode>>

CardStep(r, c) ==
  \/ CreateCard(r, c) \/ CreateDraft(r, c) \/ CreateWithFirstValue(r, c)
  \/ SetBaseValue(r, c) \/ SetCell(r, c) \/ CreateInstance(r, c)
  \/ ArchiveInstance(r, c) \/ UpdateCard(r, c) \/ UpdateFlags(r, c)
  \/ MoveOrganization(r, c) \/ Dismiss(r, c) \/ Archive(r, c)
  \/ \E n \in Cards : Transfer(r, c, n)
  \/ SyncCard(r, c)

Next == \E r \in Requests :
  \/ \E c \in Cards : CardStep(r, c)
  \/ ChangeSchema(r) \/ SyncWrite(r) \/ Commit(r) \/ Fail(r)

Spec == Init /\ [][Next]_vars

\* One request at a time
InTurn == \A r, s \in Requests : pc[r] # "idle" /\ pc[s] # "idle" => r = s

InTurnSpec == Init /\ [][Next /\ InTurn']_vars

-----------------------------------------------------------------------------
(* Invariants *)

\* Types of the variables: the rows fit their tables.
TypeOK ==
  /\ card \in [Cards -> CardRow]
  /\ mode \in Schema
  /\ lock \in [Cards -> Requests \cup {NoRequest}]
  /\ registryLock \in Requests \cup {NoRequest}
  /\ pc \in [Requests -> {"idle", "commit", "sync", "wait"}]
  /\ writes \in [Requests -> [Cards -> CardRow]]
  /\ newMode \in [Requests -> Schema]
  /\ todo \in [Requests -> SUBSET Cards]
  /\ loaded \in [Requests -> [Cards -> CardRow]]
  /\ next \in [Requests -> Cards \cup {NoCard}]

\* A card that is or was in force has the date of its first activation, so
\* that the basis and the event of a change are never skipped by a detour
\* through draft (activated_at).
ActivationIsDated ==
  \A c \in Cards : card[c].lifecycle \in {"active", "dismissed"} =>
                     card[c].activated

\* A transfer is all or nothing: a superseded card has the copy that goes on
\* in its place.
SupersededHasCopy ==
  \A c \in Cards : card[c].lifecycle = "superseded" =>
                     \E n \in Cards : card[n].source = c

\* What a locked card may become, given the row it still has.
Justified(old, new) ==
  /\ new.lifecycle # "none"
  /\ new.lifecycle \in {"active", "dismissed"} => new.activated
  /\ old.source # NoCard => new.source = old.source
  /\ old.lifecycle # "none" /\ Content(new) # Content(old) =>
       old.lifecycle \in Automatic /\ ~old.archived
  /\ new.events \in {old.events, old.events + 1}
  /\ old.activated /\ Content(new) # Content(old) => new.events # old.events
  /\ old.activated /\ new.lifecycle # old.lifecycle
       /\ new.lifecycle \in Terminal => new.events # old.events
  /\ new.events # old.events => \/ Content(new) # Content(old)
                               \/ new.lifecycle # old.lifecycle

\* An id that is not in use has no history.
UnusedIds ==
  \A c \in Cards : card[c].lifecycle = "none" =>
    ~card[c].activated /\ card[c].events = 0 /\ card[c].source = NoCard

\* A request that supersedes a card holds its copy too.
CopiesArePending ==
  \A r \in Requests, c \in Cards :
    lock[c] = r /\ writes[r][c].lifecycle = "superseded" =>
      \E n \in Cards : lock[n] = r /\ writes[r][n].source = c

\* The status a synchronization waits to write is one it may write.
WaitsAreSound ==
  \A r \in Requests : pc[r] = "wait" =>
    /\ next[r] \in Cards
    /\ loaded[r][next[r]].lifecycle \in Automatic
    /\ loaded[r][next[r]].lifecycle = "active" => loaded[r][next[r]].activated

\* The inductive invariant: what is about to be committed is justified by the
\* row that is committed now, whatever has been committed since it was read.
Consistent ==
  /\ UnusedIds /\ ActivationIsDated /\ SupersededHasCopy
  /\ \A r \in Requests, c \in Cards :
       lock[c] = r => Justified(card[c], writes[r][c])
  /\ CopiesArePending /\ WaitsAreSound

\* A card that has been active once follows its mandatory fields from then on:
\* "If every mandatory field in the card template has a non-empty valid value,
\* the card lifecycle is active", otherwise draft.  A card never activated may
\* be an explicit draft.  The copy of a transferred card keeps the status it
\* had before its values were copied, until the next operation.
StatusFollowsFields ==
  \A c \in Cards :
    /\ card[c].activated /\ card[c].lifecycle \in Automatic
    /\ ~card[c].archived /\ card[c].source = NoCard
    => card[c].lifecycle = Derived(card[c], mode)

\* Every card that can be edited can be transferred: "transfer creates new
\* card in target organization".
EditableCanBeTransferred ==
  \A c \in Cards : Editable(card[c]) => Copyable(card[c])

-----------------------------------------------------------------------------
(* Action properties *)

\* What a user entered changes only while the card is editable: a write that
\* races with a dismissal, an archiving or a transfer does not land after it.
NoWriteAfterEnd ==
  [][\A c \in Cards :
       card[c].lifecycle # "none" /\ Content(card'[c]) # Content(card[c]) =>
         card[c].lifecycle \in Automatic /\ ~card[c].archived]_vars

\* Every operation that changes what a user entered on a card that has been
\* active, or ends it, leaves exactly one business event with its basis, and
\* an event stands for such a change or for a change of status.
OneEventPerChange ==
  [][\A c \in Cards :
       LET old == card[c]  new == card'[c] IN
       /\ new.events \in {old.events, old.events + 1}
       /\ old.activated /\ Content(new) # Content(old) =>
            new.events # old.events
       /\ old.activated /\ new.lifecycle # old.lifecycle
            /\ new.lifecycle \in Terminal => new.events # old.events
       /\ new.events # old.events =>
            \/ Content(new) # Content(old)
            \/ new.lifecycle # old.lifecycle]_vars

\* "Archived and superseded cards keep their terminal lifecycle and are not
\* reopened by completeness synchronization"; "the card cannot enter or leave
\* the terminal dismissed state".
EndsAreFinal ==
  [][\A c \in Cards : card[c].lifecycle \in Terminal =>
       card'[c].lifecycle \in Terminal]_vars
=============================================================================
