# Registry Engine: TLA+ models, checks and proofs

Registry Engine (`src/backend`, `src/frontend`) keeps registries of cards for a
municipality: an administrator designs a registry from blocks and fields, staff
fill cards in, and people outside fill or correct a card through a public link
whose changes a reviewer returns or approves.  A FastAPI application over
PostgreSQL (SQLAlchemy, one session per HTTP request) does the work; a React
client, an MCP server and a few scripts call it.

This directory holds models of that application in TLA+, the configurations
under which TLC checks them, and proofs that TLAPS checks.  All paths below are
relative to `src/`; services are under `backend/app/services/`.

## 1. How a request works, and why that is the hard part

The application has no in-memory state of its own.  Everything that can go
wrong between two users goes wrong between two database transactions:

* `api/dependencies.py:get_db_session` opens one session per request, commits
  when the handler returns and rolls back when it raises.  A few errors commit
  on purpose (an expiry that the request discovered must be stored although the
  request is refused).
* Isolation is READ COMMITTED and autoflush is off.  A row that was read stays
  in the session as it was read until it is read again with
  `populate_existing=True`; an UPDATE contains only the columns the session
  changed with respect to that copy.
* Services take row locks with `SELECT ... FOR UPDATE`.  A foreign key takes a
  share of the lock of the row it refers to, at the flush of the new row.
* An event or a log entry is a row of the same transaction: it is committed
  with what it reports, or not at all.
* Files are not rows: `services/attachments.py` writes them before the rows
  that name them and deletes them when the transaction rolls back.

Hence the shape of every model: the state is the committed rows, the row locks
and, for each request, a program counter and the copies it has read.  An action
is one read, one lock or one commit.

## 2. Inventory

| Component | State it keeps | Operations | Hard behaviour | Correct when | Model |
|---|---|---|---|---|---|
| Public links and review (`public_links.py`) | link rows: status, `can_view`, `can_edit`, counters, baseline, summary | create, preview, edit field, upload, submit, request changes, approve, disable, capture baseline, compare, status | races of token holder, reviewer, staff and time; expiry written by readers without a lock; a comparison of many statements | limits hold, no write after a closing, exact snapshots, no circle of waits but that of an expiry, the reviewer is told of each change | `PublicLink`, `ReviewProtocol`, `ReviewDiff` |
| Cards (`cards.py`, `card_events.py`) | card, values, rows of repeatable blocks, relations, business events | create, draft, set value(s), rows, move, update, dismiss, archive, transfer, synchronize | status derived from rows another transaction changes; detours over draft; all-or-nothing transfer | no write after the end, status follows mandatory fields, one event per change | `CardLifecycle` |
| Lists of cards (`cards.py`, `endpoints/cards.py`) | none | select, search, filter, sort, print | five statements and one per card, no lock | complete, and in the order of the names and dates that count | `CardListing` |
| Registry schema (`registry_schema.py`) | registries, blocks, fields, card templates, form layouts | create, update, archive, base templates, default registry, layouts | changes of fields against the base template that copies them; layouts saved for an older revision | the base template lists the active fields; a layout is replaced knowingly; circles of waits only at cards | `RegistrySchema`; synchronization of cards in `CardLifecycle` |
| Attachments (`attachments.py`) | `stored_files`, `card_attachments`, files on disk | create (staff, public), archive, read | files against commit, rollback and crashes; archive on a stale copy | a row never names a missing file; rolled back files are deleted | `AttachmentStorage`; upload counters in `PublicLink` |
| Card public access (`card_public_access.py`) | flags and per-field settings of a card | update | switched off while a public edit is in flight | no public write after it | flag in `PublicLink`, settings in `ReviewDiff` |
| Creation links (`card_creation_links.py`) | link rows with a template and organizations | create, close, read, create card or draft | creation races with closing, archived templates and organizations | no card after closing | `CreationLink` |
| Notifications (`card_change_notifications.py`) | subscriptions, notifications | subscribe, record, list, mark read, delete expired | grouping of a bulk save, subscriptions that change meanwhile | one notification per recipient and save, none to the author | `Notifications` |
| Audit (`audit.py`, `cli/audit_retention.py`) | audit events | record, list, delete expired | retention against writers and readers | notifications tell what the history has | `Notifications` |
| Documents (`documents.py`) | templates with versions, generated documents, files | create, version, generate, archive | two versions with one number; a format read before the lock; files against rows | the format is that of the latest version | `DocumentTemplates`; files in `AttachmentStorage` |
| Layout and print (`card_template_layout.py`, `card_template_projection.py`, `card_print.py`, the print studio of the frontend) | print views: items, sections, overlays | project, normalise, convert, synchronize, edit | millimetres from grid cells; sections derived once and stored | what a validated form places does not overlap, nothing printed gets lost | `PrintLayout` |
| Reports (`reports.py`) | templates with schema and defaults, runs, output files | create, update, archive, run | two updates check what the other replaces | defaults pass the check of a run without parameters | `ReportTemplates`; outputs in `AttachmentStorage` |
| Import and export of cards (`import_export.py`) | none; cards through the card service | template workbook, preview, commit, export | two readings in one transaction; items created by two imports | cards as filed, one item per label | `CardImport` |
| References (`references.py`, `reference_edit_links.py`) | lists, items, edit links | create, update, archive, by staff or by token | unlocked checks, codes that are unique | one item per label | `References` |
| Organizations (`organizations.py`) | tree, closure table, units | create, archive | closure copied while the parent changes | closure is what following parents gives | `Organizations` |
| Access (`permissions.py`, `user_access.py`, `auth.py`, `bootstrap.py`) | users, roles, grants | create, update, archive, profile, seed, check | a grant revived, archived and given at once; two traversals of one tree | managers see what they manage; a profile is what was given | `UserAccess` |
| Experience (`domain/*_experience.py`, `municipal_service_experience.py`) | a value of a card | calculate, save, enter, show | month ends, leap days, weights; a calculation opened long ago | totals never shrink from day to day; no calculation is lost | `WorkExperience` |
| Editors in the browser (`useBlockEditor.ts`, `CardsWorkspace.tsx`, `PublicLinkEditPage.tsx`) | the open session with its saved and typed values; the queue of one public save | open, type, blur, commit, cancel, leave, close a tab; mount, type, flush, save, restore | saves in the background: late, lost and refused answers, typing and navigation meanwhile, remounts | nothing typed is lost silently; what is shown as saved is stored | `BlockEditor`, `PublicEditor` |
| Export templates, text validation, MCP, endpoints, scripts, the rest of the frontend | saved columns, or none | formatting, mapping, presentation | | | not modelled (section 7) |

Interactions: the public link service calls the card and the attachment
services under its own locks; the card service calls the event, the audit and
(through the history) the notification service in the same transaction; the
schema service calls the card service to synchronize the status of every card
of a registry; import, creation links and transfer create cards through the
card service; documents read print views, print views read form layouts; scopes
and permissions of every service read the closure table of organizations.

## 3. Modules

| Module | Models | Extends |
|---|---|---|
| `ReviewProtocol` | what a public link promises its holder and the reviewer: phases and counted writes, no requests or locks; abstract | |
| `PublicLink` | `public_links.py`, the public half of `attachments.py`, the card row it shares with staff; implements `ReviewProtocol` | |
| `CardLifecycle` | `cards.py`, `card_events.py`, schema changes as they reach cards | |
| `AttachmentStorage` | files on disk, `attachments.py`, the files of `documents.py` and `reports.py`, values of type `file_ref` | |
| `RegistrySchema` | `registry_schema.py`, `card_template_layout.py` | |
| `DocumentTemplates` | templates, versions and documents of `documents.py` | |
| `PrintLayout` | geometry and life of a print view | |
| `CardListing`, `ReportTemplates` | lists of cards; `reports.py` | |
| `Organizations` | `organizations.py` | |
| `UserAccess` | `permissions.py`, `user_access.py`, `bootstrap.py` | `Organizations` |
| `References` | `references.py`, `reference_edit_links.py` | |
| `CardImport` | `import_export.py` | `References` |
| `CreationLink`, `Notifications`, `WorkExperience` | the services of these names | |
| `ReviewDiff` | `review_diff_for_actor` and what it reads | |
| `BlockEditor` | editing a card in place: `useBlockEditor.ts` and its callers | |
| `PublicEditor` | the editor of a field on the page of a link: `PublicFieldEditor` | |
| `PublicLink_proofs`, `AttachmentStorage_proofs`, `RegistrySchema_proofs` | theorems | the module of the name |
| `CardLifecycle_proofs` | theorems | `MCCardLifecycle` (one theorem is about the run's own specification) |
| `Administration_proofs` | theorems about organizations, users and grants | `UserAccess` |
| `Documents_proofs` | theorems about versions of templates, reports, print views and lists of cards | `DocumentTemplates`, `ReportTemplates`, `PrintLayout`, `CardListing` |
| `Editors_proofs` | theorems about the two editors | `BlockEditor`, `PublicEditor` |
| `Intake_proofs` | theorems about creation links, the comparison, the calculator, notifications, references and imports | `CreationLink`, `ReviewDiff`, `WorkExperience`, `Notifications`, `CardImport` |
| `MCPublicLink` | instances of `PublicLink`, `BlockEditor` and `PublicEditor` | these |
| `MCCardLifecycle`, `MCRegistrySchema` | instances for TLC | the module of the name |
| `MCAdministration`, `MCDocuments`, `MCIntake` | instances for TLC of several modules at once | see section 4 |

### PublicLink

State: `link` (the columns of `card_public_links` that the service tests or
sets), `card` (one card: open, dismissed or closed; `public_edit_enabled`
together with its implied view; one version number for all its content),
`audit` (what was written through each link), the locks (of a card also
`cardShare`, the shares that foreign keys take), the clock, and for each request `pc`, `op`, `target`, the row it loaded (`seen`), its copy with its
changes (`mine`) and its copy of the card (`mineCard`).

| Step | Action | Code |
|---|---|---|
| arrival | `Begin` | the endpoints of `api/v1/endpoints/public_links.py` and `cards.py` |
| read without a lock | `ReadLink` | `preview_public_link`, `validate_public_field_edit`, `validate_public_attachment_token` |
| a discovered expiry inserts its event, which takes a share of the card | `FlushExpiry` | `_expire_if_needed`, `audit.py:602`, `models/audit.py:49` |
| then, in the same flush, it writes the link, and waits for its row if it has not locked it | `UpdateLink` | the UPDATE of the unit of work |
| lock of the link | `LockLink` | `_public_link_for_token`, `_locked_public_link` |
| lock of the card and work | one action per operation, all through `LockCard` | the service methods named in the comments |
| end | `Commit`, `Fail` | `get_db_session` |
| a circle of waits is broken | `CancelDeadlocked`, in the fairness: a `Fail` | PostgreSQL |

An expiry comes to the card before the link, all others to the link before the card, so
the two can wait for each other; `CirclesAreExpiries` says that nothing else can.

`Updated` is the column-wise UPDATE of the unit of work: it is what lets a stale
copy overwrite some columns and leave others.  `Fail` may happen at every step
and stands for every exception, so permissions and invalid input need no action
of their own.

### CardLifecycle

State: `card` (life cycle, `activated_at` as a flag, `archived_at` as a flag,
place, the value of one base field, rows of one repeatable block with one value
each, number of business events, the card it was transferred from), `mode` (the
`required_mode` of the two fields), row locks of the cards and of the registry,
and for each request its uncommitted rows and the progress of a
synchronization.

A business operation locks its card before it reads anything else of it
(`_lock_editable_card`, `_active_card_change`), so lock, checks and work are one
action and `Commit` another.  A schema change (`ChangeSchema`) locks the registry
in `ensure_base_card_template_for_registry`, selects the draft and active cards
without locking them, and then, card by card, derives the status from the values
as committed at that moment (`SyncCard`) and waits for the row to write it
(`SyncWrite`): `synchronize_registry_card_lifecycles`.  A card that is being
inserted holds a share of the registry's lock through its foreign key
(`Inserting`).

`Synchronized` is `synchronize_card_lifecycle`, `Recorded` the end of
`_active_card_change`: exactly one event when an operation on a card that is or
was active changed something.

### AttachmentStorage

State: `files` on disk; the committed `storedFiles` and `card` (life cycle, the
state of each of its attachments and documents by the key of the file, the value
of one field of type `file_ref`); row locks of cards; and for each request its
step, its `work` (task, card, file, the row it read before it locked), its
uncommitted rows (`unsaved`) and `pending`, the files that
`session.info` lists for deletion.  `abandoned` is history: files that a crash or
an error of the disk left behind, which nobody promises to delete.

| Step | Action | Code |
|---|---|---|
| lock the card, if there is one | `BeginFile` | `create_attachment_for_actor`, `create_attachment_from_public_link`, `generate_document_for_actor`, `generate_report_for_actor` |
| write the bytes | `WriteFile`, `FailWrite` | `write_bytes`, `_remember_pending_storage_cleanup` |
| insert the rows | `StoreRows`, `FailInside` | the `try` block after `write_bytes` |
| archive: read, then lock and test | `ReadOwned`, `ArchiveOwned` | `archive_attachment_for_actor`, `archive_generated_document_for_actor` |
| set a reference | `SetFileRef` | `_ensure_active_attachment_reference` |
| transfer with attachments | `Transfer`, `Copied` | `transfer_card_for_actor`, `_copy_file_ref_attachment` |
| end of a card | `EndCard` | `dismiss_card_for_actor`, `archive_card_for_actor` |
| a schema change | `SelectCard`, `SynchronizeCard` | `synchronize_registry_card_lifecycles` |
| end | `CommitRows`, `Rollback`, `LoseAnswer`, `Crash` | `get_db_session`, the listeners `after_commit` and `after_rollback` |

`LoseAnswer` is a commit that the database executed and the application believes
failed; the constant `AnswersMayBeLost` says whether it can happen, so that the
properties it does not disturb are checked with it and the others without.
`CardLifecycle` models the life cycle of a card in full; here only what decides
whether a file may be written remains, the detour over a synchronization
included, because finding 1 lets a card reopen while an archiving waits.

### RegistrySchema

State: `db`, the committed columns of blocks, fields, the base template, an
ordinary template, the registry and one card; for each request where it is, what it means
to write, the rows it has locked and the copy of the base template it (or its
client) was shown.  A request checks on unlocked rows, flushes (waiting for the
rows), refreshes the base template under the locks of the registry and of the
template (`LockRegistry`, `RefreshBase`), synchronizes the cards (`Synchronize` selects,
`WriteStatus` waits for the card; `syncs` says which requests do), and commits with all
its locks until then.  Whether a status changes is decided by values that
`CardLifecycle` has, so `Synchronize` may write the card or leave it.  The insertion of a
card takes shares of the registry and then of its template (`ShareTemplate`).
`SetValue` and `EndCard` lock their card first.

`overwritten` is history: the base template was last
written by the rename of a template, which works on a copy it read without a lock
(`registry_schema.py:1194`).  `BaseFollowsFields` and `LayoutIsKept` hold up to
that.  Blocks, fields, the registry and templates are locked in one order, the card comes
last in a synchronization and first in a value: `CirclesMeetAtACard`.  The model has one card;
where there are several, two synchronizations that select them in different orders can meet
at them too, which `CardLifecycle` has.

### Documents, print and lists

`DocumentTemplates`: a request reads its template unlocked, takes the next number,
flushes (the number is unique, the second of two fails) and commits.  A print layout
is committed with the format the template had when it was read; `raced` marks the
templates that lost a format that way.

`PrintLayout`: a form layout of sections and fields on a grid of twelve columns,
its projection to A4, the view an administrator stores, converts, synchronizes or
edits in the studio.  The grid is in twelfths of a section, so a linked card has
144 columns.  Items, cells and overlays of a view are sets, as every rule about them is
about ids and rectangles and their order only paints; a form keeps its order, which
decides how far down an item is projected (`Places`, `Before`).  All of it is
one user's work: what is hard is the order of steps, not their concurrency.
A form comes into its template in two ways: the layout editor validates it (`SaveForm`), a
template that is created or updated brings any form with it (`PrintInit`, `StoreSchema`).
`savedAs` says which was last.  Coordinates are exact; the A4 projection rounds to a
thousandth of a millimetre, and only a linked card's items must not overlap.

`CardListing`: a page is made by the statements of `list_visible_cards` one after
the other, and cards, templates and grants change between any two.  The order is one of
the sequences that are sorted by the keys that were read (`Ordered`; ids make it unique).
Names and dates are in blocks of several rows, live or archived, with or without
a value.  A name is sorted and printed by the first live row that has one.  A date is sorted
by the first live row, if the card's template has the field, and printed by the first live
row that has one, in any template: `DateCounts` says where the two are one, and cards
whose date does not count come last whatever is printed of them, as
`README.md:116` and `test_card_list_sorting.py` say.  `ListSpec`
takes the cards and grants there are before the first request.  `steady` is history:
cards that stayed, that matched all along, that ever matched.

`ReportTemplates`: an update reads the template, checks schema and defaults
together and writes the columns it changes; a run merges and checks.  A parameter may be
absent, null, blank or a value: the check of types passes over null alone, what is
required may be neither (`Accepts`, `Missing`).  The selection of a kind then
needs parameters of its own and parses others, whatever the schema says
(`ReportKinds`, `Readable`: the detail of a card needs `card_id`), which no default is checked
for.  `mixed` is history: two updates overlapped.  Strings of spaces alone are left out.

### Administration

`Organizations` has the tree, the closure table and units; a request reads what its
checks need, and writes at its commit.  `UserAccess` extends it with users, roles,
grants of limited time, profiles, delegation and the seeds of the command line.
`Manages` is the permission, `CanSee` the scope: two traversals of one table in the
code, two operators here.  History: `overtaken` (a department created while its
management was being archived), `profile` (last given, forgotten when a grant
of the user changes otherwise), `late` (a grant committed after its role was
archived).

### Intake

`References` has lists, items and the links through which guests edit them;
`CardImport` extends it with workbooks.  An import reads the file twice, creates
items, validates, creates cards and commits; others commit between any two steps.
The session keeps rows of the template and its fields from the first reading
(`cache`).  `facts` is history: what was true of the references since the import
began, which is what `ImportedAsFiled` compares with.

`CreationLink`: a request holds the row of the link, from its checks to its commit.
`Notifications`: a save holds its card; its events are written one by one and
the subscribers looked up after them (bulk) or after the only one.
`WorkExperience`: calendar arithmetic as functions of days, and the writes of the
field by calculators (with the digest of what they opened) and others.  Its calendar begins
with `FirstYear` as the code's begins with the year 1: an amount that would count
from an earlier day is refused (`InCalendar`).
`ReviewDiff`: guests wait for the link, staff does not; `outset` and `watch` are
history: the card at the baseline, and what stayed, was had and was exposed since
the comparison began.

### BlockEditor and PublicEditor

`BlockEditor` has the server's values (`cells`, each with the session that sent it), what
the client last read (`cached`), the card on screen, at most one `session`, and every
request with what the server did (`served`) and what the client was told
(`answer`).  The two are apart: `PostFails` also stands for an answer that is lost while
the save is stored.  The effect that saves after a delay is `Save`, enabled while the
session is `due`; the promise that continues after it is `PostSucceeds` or
`PostFails`, which compare the number of the session (`IsAbout`).  `OpenField`,
`TypeValue`, `Blur`, `WriteBasis`, `CommitAndClose`, `Cancel` are the callbacks of the hook,
`Leave`, `Stay`, `DiscardAndLeave`, `SaveAndLeave`, `DiscardTab` the dialogs of
`CardsWorkspace.tsx`, `Refetch` whatever makes the client read the cards again.

`PublicEditor` has one field.  `Drained` is `drainSaveQueue`: `busy` is `savingRef` and
`queued` is `queuedSaveRef` of each editor that was made, because the loop of an editor
goes on after it is unmounted.  `Unmount` is a status that is asked for again, which takes
the form away; `Mount` reads a new preview.  `Activate` is a preview that is read while
the form stays, after a save was confirmed.

## 4. Runs

| Run | Module | Bounds | Question |
|---|---|---|---|
| `publink_safety` | `MCPublicLink` | the link: 1 link, 2 requests, limit 1 edit and 1 upload, clock 0..1, 3 writes; or the card in place: 2 cards, 2 fields of one block, 3 values, one of them refused, 2 sessions, 2 changes, 2 saves; or the page: 3 values, 2 editors, 3 changes, 3 requests | limits and counters (`UsageIsCounted`), who can wait in a circle (`CirclesAreExpiries`), writes racing a closing (`NoWriteAfterClose`), baseline and summary (`SnapshotsAreExact`), refinement (`ImplementsProtocol`); edits stay until they are stored or given up (`EditsAreKept`), what is shown as saved is (`CleanIsStored`, `SaveStateIsTrue`) |
| `publink_live` | `PublicLink` | 1 link, 2 requests, limit 1 edit and 1 upload, clock 0..1, 1 write | every request ends (`RequestsEnd`) |
| `cardlife_safety` | `MCCardLifecycle` | concurrent: 2 cards, 2 requests, no rows, 2 modes, 1 event; or sequential: 1 card, 1 request, 1 row, 2 places, 3 modes, 2 events | transfer all or nothing, no write after the end, one event per change; without concurrency also that the status follows the fields (`StatusFollowsFieldsAlone`) |
| `cardlife_ends`, `cardlife_transferable` | `CardLifecycle` | 2 cards, 2 requests | findings 1 and 2 of section 6 |
| `schema_safety` | `MCRegistrySchema` | 1 block, 2 fields, 1 card, 1 layout beside the default, 2 requests at a time, 4 in all (a card that is given counts as one) | the base template follows the fields, layouts are kept, circles of waits meet at a card (`CirclesMeetAtACard`) |
| `documents` | `MCDocuments` | one part at a time: 2 templates with 3 versions, 1 document and 2 requests; 5 form layouts, two of them invalid, with 1 text and 1 line; 2 fields on rectangles from a set of 64; 3 cards of up to 3 rows, 2 templates, 2 organizations, 9 kinds of request, 1 change; 1 report of 2 kinds with 2 parameters, 2 updates and 1 run | formats, geometry, what is printed, order of lists, defaults of reports |
| `print_view`, `form_layout`, `report_defaults` | `MCDocuments` | the parts of the print view and of the reports are where they fail | findings 3 to 5 of section 6 |
| `administration` | `MCAdministration` | the tree: 3 organizations, 2 units, 2 requests; or grants over a given tree: 1 user besides the superuser, 5 keys of grants, 2 periods, clock 0..1, 2 changes, then one archiving; or files of attachments and reports: 1 card, 3 storage keys, 2 requests, 1 reason, answers of commits may be lost | closure and units; scope, permission and profile agree; a file that no row names belongs to a request in flight (`UncommittedAreDeleted`) |
| `intake` | `MCIntake` | imports: 3 lists, 4 items, 3 spellings, 2 organizations, 3 workbooks, 2 imports, 1 edit; creation: 1 link, 2 organizations, 2 templates, 3 requests, 2 cards; notices: 2 users, 1 card, 1 link, 2 saves of 2 fields, 2 changes; experience: 17 days around the end of a leap year's March, 2 calculators, 1 other writer, 2 writes, 4 histories; comparison: 2 fields, 2 rows, 1 attachment, 3 changes; files: 2 cards, 2 storage keys, 2 requests, 2 reasons, no lost answers | one item per label, cards as filed, creation and closing, notifications, experience, the reviewer's comparison; rows keep their files, references resolve, new references are live, ended cards stay as they are |

`which` (and `part` in `MCCardLifecycle`) chooses in the initial state which part of a
run moves: the parts share no state, and interleaving them would only multiply
states.  `AttachmentStorage` is a part of two runs, because
`AnswersMayBeLost` is a constant: with lost answers in `administration`, without in `intake`.
Requests are interchangeable, so runs of safety properties declare them
symmetric where that pays; `publink_live` and the runs of findings do not.

Why the bounds are enough to be interesting.  Every race named in the hazards is
between two transactions: two requests suffice, and a third would only wait.
With limit 1 the counter is at its limit after the first write, so two racing
writes differ from one; the clock needs the two values before and at the expiry.
Three writes allow a write before the baseline, one between baseline and
submission, and one that must not be in the summary.  A transfer needs two
cards.  Two places, two values of a field and one row (absent, live, archived)
distinguish a change from none; one event more than the smallest case shows that
a second change is recorded too.  Two storage keys let two requests each
write a file, or one write while another archives; the third key in `administration` leaves
room for a file after two were abandoned.  Two reasons tell two archivings apart.  Rows
together with concurrency have too many states for one run: the sequential part of
`cardlife_safety` has the rows, the concurrent part the concurrency, and the theorems
of section 5 hold for both at once.

Two sessions let an answer meet the session after its own, two saves a save that is
sent while an older one is unanswered; of two fields one is saved without losing focus and
one may be withdrawn (`Withdrawn`).  Two editors of a page let the loop of the first run
beside the second; three changes put one save in flight, one in the queue and one in
the place of that one.

Four schema requests allow a change, a second that overlaps it, a rename between
their flushes and a layout after both.  Three organizations make a grandchild, whose
closure has a row of depth two with an archived ancestor in between; five keys hold
what two profiles give, and two old grants a profile must take away.  Three
workbooks pair the cases of a label: two spellings of one new label, a label that
two organizations share, and a list an organization replaces for those below it.
Three guests let one wait while one commits and one closes.  The 17 days of the
experience run (21 March to 6 April 2024) contain a month end, weights that round,
and amounts whose day does not exist in the month before.  Two fields, one in a
block of many rows, and three changes allow a row that is made after the baseline,
filled and archived while the comparison reads.  Three cards tell equal
names, missing names and different ones apart; three rows hold an archived one between two
live, or a first row without a value.

`CHECK_DEADLOCK FALSE` is set where the system really may stop under its bounds:
cards that have all ended, schema requests, imports, saves and versions used up, the last day
reached.  In `PublicLink` a request can always arrive (staff may edit flags), in
the editors the cards can be read again and the field focused or left, so deadlock is checked.

Every cap on a counter is a constant of the module and a guard: `MaxClock`,
`MaxVersion`, `MaxEvents`, `MaxRequests`, `MaxVersions`, `MaxDocuments`, `MaxShifts`,
`MaxUpdates`, `MaxRuns`, `MaxChanges`, `MaxTime`, `MaxItems`, `MaxEdits`,
`MaxImports`, `MaxLinked`, `MaxSaves`, `MaxFields`, `MaxToggles`, `MaxWrites`,
`MaxRows`, `MaxTurns`, `MaxSessions`, `MaxTyped`, `MaxMounts`, `MaxStrokes`, `MaxTries`.  Other bounds are sets: `Keys`, `Periods` and `Targets`
(grants that exist, their validity, users who are changed), `TextPositions` (where
the studio moves an item), `FirstDay`..`LastDay`.

### Fairness

Only `publink_live` needs it: `FairSpec` says that a request whose next step is
enabled again and again takes it (strong fairness of `Step(r)`, or of the
refusal that ends it once it holds the turn for the card).  A handler is
straight-line code that returns or raises, and PostgreSQL queues the waiters of
a row, so a lock that is released again and again is granted.  Strong fairness is
the queue: between two grants the row is locked, the step disabled.  Requests that wait
for each other in a circle are found by PostgreSQL's detector, which cancels one of
them: weak fairness of `CancelDeadlocked`.  `RequestsEnd` rests on it, as an expiry and a
request that holds the link do wait for each other.  Nothing is
assumed of clients, of time or of other failures.

## 5. Proofs

TLAPS proves, for every set of links and requests, every limit and every bound
(under `ConstantsAssumption`: sentinels differ from ids, limits are naturals):

| Theorem (`PublicLink_proofs`) | States |
|---|---|
| `TypeCorrect` | `Spec => []TypeOK` |
| `AlwaysConsistent` | `Spec => []Consistent`: the inductive invariant |
| `UsageAlwaysCounted` | `Spec => []UsageIsCounted` |
| `NoWriteLandsAfterClose` | `Spec => NoWriteAfterClose` |
| `SnapshotsStayExact` | `Spec => SnapshotsAreExact` |
| `OnlyExpiriesCircle` | `Spec => []CirclesAreExpiries`, for any number of requests |
| `TransactionsImplementProtocol` | `Spec => Protocol!Spec`, the refinement |

The argument.  `UsageIsCounted` is not inductive: a commit adds one to the copy a
request took when it locked the link, so it must be known that this copy is
still the row.  `Consistent` says so in three parts.  `LocksAreHeld`: a request
past `LockLink` is the holder, and every holder is such a request.  `CopyIsFresh`:
the holder's copy is the committed row, still editable and within the limit, and
a request that is not about to write leaves the counters alone.  `LinksExist` and
`MoveIsAllowed`: a link is created once, used after that, and a pending change of
status is an expiry or an allowed move from the committed status.  The only
writer without a lock at its read is an expiry, and the column-wise UPDATE keeps
it away from the counters: that is the step of the proof that depends on how
SQLAlchemy writes.  `SnapshotIsTaken` adds that who is about to change a baseline, or to
submit, holds the card and has the version it will leave.  `CirclesAreExpiries`: who has locked the card is about to commit and
waits for nobody, nor does an expiry of a link that was locked (`CardIsHeld`); so a
circle has a request that waits for a link, its holder waits for the card, and what holds that
is a share of an expiry that waits for a link in turn, whose holder waits for the card.  The refinement maps the status to its phase and the audit to the
protocol's counters; only `Commit` is a step of the protocol.

For every set of cards, requests, rows and places and every bound:

| Theorem (`CardLifecycle_proofs`) | States |
|---|---|
| `TypeCorrect` | `Spec => []TypeOK` |
| `AlwaysConsistent` | `Spec => []Consistent`: the inductive invariant |
| `AlwaysDated` | `Spec => []ActivationIsDated` |
| `TransfersAreWhole` | `Spec => []SupersededHasCopy` |
| `NoWriteLandsAfterEnd` | `Spec => NoWriteAfterEnd` |
| `EveryChangeHasItsEvent` | `Spec => OneEventPerChange` |
| `StatusAlwaysFollows` | `InTurnSpec => []StatusFollowsFields` |
| `StatusFollowsAloneHolds` | `MCSpec => []StatusFollowsFieldsAlone`, the property of the run |

The argument.  What matters about a card is decided when its row is locked and
becomes visible at the commit.  `Justified(old, new)` says what a locked row may
become; `Consistent` says that every uncommitted row of every lock holder is
justified by the row that is committed *now*.  It is kept because only the holder
commits a row, and it is established by each operation because each tests the row
after locking it.  A synchronization does not: it tests a copy.  Its write is
justified all the same as far as content and events go, because it writes two
columns only (`Merged`), and that is exactly why `NoWriteAfterEnd` holds while
`EndsAreFinal` does not.  `CopiesArePending` (who supersedes a card holds its copy)
makes `SupersededHasCopy` inductive, `UnusedIds` says that a creation starts from
nothing, and `WaitsAreSound` limits what a waiting synchronization may write.

That the status follows the fields is false when a write and a schema change overlap
(section 6), so it is proved of `InTurnSpec`, where a request begins when the one
before it has ended; each may still take as many steps as it likes.  `TurnInv` adds
that what a request is about to commit follows the fields, and `SynchronizesAlone`, the
loop invariant of a synchronization: the cards it has seen follow the schema it will
commit, those it has yet to see are as it loaded them.  Copies of transferred cards are
exempt because `transfer_card_for_actor` does not derive the status again after it has
copied the values (`cards.py:1816`).

For every set of cards, keys, requests, kinds and reasons:

| Theorem (`AttachmentStorage_proofs`) | States |
|---|---|
| `TypeCorrect` | `Spec => [](TypeOK /\ Coherent)`; `Coherent` is `Consistent` without `FilesAreKept` |
| `AlwaysConsistent` | `~AnswersMayBeLost => (Spec => []Consistent)` |
| `FilesAreSafe` | `~AnswersMayBeLost => (Spec => []RowsHaveFiles)` |
| `ReferencesAlwaysResolve` | `Spec => []ReferencesResolve` |
| `NewReferencesStayLive` | `Spec => NewReferencesAreLive` |
| `EndedCardsStay` | `Spec => EndedCardsAreReadOnly` |
| `OutputsAreCleaned` | `Spec => []UncommittedAreDeleted`, if no documents are generated |

The argument.  `RowsHaveFiles` needs to know whose files a rollback deletes:
`FilesAreKept` says that they are files of that request only, that these are on disk
and not stored yet, and that no two requests share one; a lost answer breaks
exactly this part, and it is the only part that theorems about rows do not need.
`TasksAreSound` ties each step to its task and its lock, `RowsAreSound` says that
rows to be committed refer to attachments whose files are stored or about to be,
and `WritesAreAllowed` that what a lock holder will commit is allowed over the row
as committed now, again because the row is tested after it was locked.  Archiving
tests the card under the lock and the attachment before it, which is why
`EndedCardsAreReadOnly` is a theorem although who archived first is not kept.

For every set of blocks, fields, layouts and requests (blocks, fields and the three
single rows have different names; every field has a block):

| Theorem (`RegistrySchema_proofs`) | States |
|---|---|
| `SchemaIsAlwaysSound` | `Spec => []SchemaIsSound`: the inductive invariant |
| `SchemaTypesHold` | `Spec => []SchemaTypeOK` |
| `BaseFollowsFieldsHolds` | `Spec => []BaseFollowsFields` |
| `LayoutIsKeptHolds` | `Spec => LayoutIsKept` |
| `CirclesMeetAtACardHolds` | `Spec => []CirclesMeetAtACard`, for any number of requests |

The argument.  The base template is recomputed from rows of which some are committed
and some the request's own, while others change theirs.  `WillFollow` says what a
request that holds the template is about to write: the fields that are active *once it
commits*.  It survives the commits of others because a commit that changes a block or
a field holds the template too (`FollowsItsSteps`, `OnlyCreates`), locks exclude each
other (`RowsAreApart`), and a request that holds neither only creates blocks, which
have no active field yet (`CreatesNew`, `FieldsHaveBlocks`).  `WillKeepLayout` is the
same for the layout.  `CirclesMeetAtACard` goes by the order of
locks: who has a card is about to commit or has yet to flush.  Without such a pair in the
circle nobody in it waits for a card; then nobody for a template, whose holders wait for cards
alone; then nobody for the registry, and so nobody for anything.

For every finite set of organizations, and every set of units, users, roles, grants
and clerks (`UserAccess`: every grant a profile asks for has its key, current and former
roles differ):

| Theorem (`Administration_proofs`) | States |
|---|---|
| `TreeIsAlwaysSound` | `OrgSpec => []TreeIsSound`: the inductive invariant of the tree |
| `DepartmentsFollowManagementHolds` | `OrgSpec => []DepartmentsFollowManagement` |
| `ClosureFollowsParentsHolds` | `OrgSpec => []ClosureFollowsParents` |
| `AdministrationIsAlwaysSound` | `AdministrationSpec => [](TreeIsSound /\ AccessIsSound)` |
| `ManagersSeeHolds` | `AdministrationSpec => []ManagersSee` |
| `SeenThroughRolesHolds` | `AdministrationSpec => []SeenThroughRoles` |
| `ProfileIsExactHolds` | `AdministrationSpec => []ProfileIsExact` |

The argument.  `ClosureFollowsParents` compares the table with what the parents give
step by step, a recursive function of the distance, and is not inductive: a creation
copies rows of the parent.  `RowsFollowParents` says it locally: each row of the table
is that of an organization itself or one step longer than another row, and upwards
each row has the row of the parent.  A creation keeps that
(`CreationsAreNew`: its rows are those the parent has now, as rows of an existing
organization never change), and table and function then agree at every distance, for the
least distance at which they differed would contradict it.  `UnitTasksFit` says the
same of units between check and commit, and where it fails the department is
`overtaken`.  `ProfilesAreGiven` says that a profile that a request is about to give is
exact once it is committed over the grants *as they are now*, as long as no other
request changed a grant of that user.

For every set of templates, reports and requests (schemas name only declared codes), every
form that counts from 1, and all cards (`SoundCards`: a record with rows of dates):

| Theorem (`Documents_proofs`) | States |
|---|---|
| `DocumentsAreAlwaysSound` | `DocumentSpec => []DocumentsAreSound`: the inductive invariant |
| `FormatFollowsLatestHolds` | `DocumentSpec => []FormatFollowsLatest` |
| `ReportsAreAlwaysSound` | `ReportSpec => []ReportsAreSound`: the inductive invariant |
| `DefaultsPassHolds` | `ReportSpec => []DefaultsPass` |
| `PrintIsAlwaysSound` | `PrintSpec => []PrintIsSound`: the inductive invariant |
| `LinkedFormAlwaysFits` | `PrintSpec => []LinkedFormFits` |
| `ConversionAlwaysKeepsPrintOnly` | `PrintSpec => ConversionKeepsPrintOnly` |
| `SyncAlwaysKeepsItems` | `PrintSpec => SyncKeepsItems` |
| `ListIsAlwaysSound` | `SoundCards(cards) => (ListSpec(cards, grants) => []ListIsSound)`: the inductive invariant |
| `ListIsInOrder` | `SoundCards(cards) => (ListSpec(cards, grants) => []ListedInOrder)` |

The argument.  `Numbered` (no gaps, the last version gives the format unless the template
is `raced`) is kept because a number is unique: `Alone` says that of the requests that work on
one template one at most has inserted its version.  An update of a report was
checked with a row it read unlocked; `DraftIsSound` says that it would still pass
over the row as it is, or another update overlapped and the report is `mixed`.

`PrintIsSound` says what every writer of a view keeps, none of which checks what another
one stored: ids of items differ, fields are fields of the card, the form passed its
validation if the layout editor saved it last; nothing else is said of a form that came with
its template, and the theorems about items hold for it too.  A validated form fits a linked card because an item's cell in a section becomes a cell of the
card (`ValidFormFits`: items of one section are scaled alike, items of two sections
stay inside sections that are apart).  What a document showed is a field or
print-only (`PrintedIsKept`), and the conversion keeps every overlay that is print-only.
A synchronization leaves one sourced item for each id of the form: the last of
the places of that id, which exists because places are numbered up to some number
(`Numbers`, `LastOfEachId`).

A list reads for each card its first row, its values to sort by and what it prints, each at
another moment.  `ListIsSound` says of a card that has stayed as it was (`steady.same`) that
each of these is what the card has *now*; so the key it was sorted by is the rank of what is
printed, which is picked by other code.  Of dates that is so where they count
(`FirstDateCounts`: the first live row has a value, or none has one), and elsewhere the key is empty.
The date is printed only while its field is
active: `DatesAreActive` ties that to the templates that have it.

For every set of values, fields, cards and any number of editors and requests (the
sentinels `NoSession` and `NoSave` are no records):

| Theorem (`Editors_proofs`) | States |
|---|---|
| `PublicEditorIsAlwaysSound` | `PublicEditorSpec => []PublicEditorIsSound`: the inductive invariant |
| `SaveStateIsTrueHolds` | `PublicEditorSpec => []SaveStateIsTrue` |
| `EditorIsAlwaysSound` | `EditorSpec => []EditorIsSound`: the inductive invariant |
| `CleanIsStoredHolds` | `EditorSpec => []CleanIsStored` |
| `EditsAreKeptHolds` | `EditorSpec => EditsAreKept` |

The argument.  What the screen says is true because the last request of an editor is
about what the screen shows.  `DrainsRun`: a loop runs exactly while its last request is
unanswered.  `LatestIsShown`, `SavedIsLast`: the save in the queue, or else the
unanswered request with the newest version, holds the text of the field.
`SavesAreShown` and `InitialIsTold` are the counterparts of the other editor, whose
`initial` is what each answer told.  `LastStored` and `LastWriter` tie the server's
value to the last request that was stored, or to one the client believes to have failed:
the exception the properties name.

For every set of links, organizations, users, cards and requests, and all dates of
the calendar's bounds:

| Theorem (`Intake_proofs`) | States |
|---|---|
| `CreationStaysSound` | `CreationSpec => []CreationIsSound`: the inductive invariant |
| `CardsAreCreatedWhileOpen` | `CreationSpec => CreatedWhileOpen` |
| `DiffIsAlwaysSound` | `DiffSpec => []DiffIsSound`: the inductive invariant |
| `DiffTellsChangesHolds` | `DiffSpec => []DiffTellsChanges` |
| `NoLostCalculationHolds` | `ExperienceSpec => NoLostCalculation` |
| `GrowthIsAlwaysSound` | `ExperienceSpec => []GrowthIsSound`: the inductive invariant |
| `ExperienceOnlyGrowsHolds` | `ExperienceSpec => []ExperienceOnlyGrows` |
| `EverySaveIsToldHolds` | `NoticeSpec => EverySaveIsTold` |
| `ItemsAreSoundThroughout` | `SoundRows(rows) => (ImportSpec(given, rows, opened) => []ItemsAreSound)`: the inductive invariant |
| `ItemsStandForLabels` | `SoundRows(rows) => (ImportSpec(given, rows, opened) => []OneItemPerLabel)` |
| `CardsAreAsFiled` | `SoundRows(rows) => (ImportSpec(given, rows, opened) => []ImportedAsFiled)` |

The argument.  A creation commits what it read when it came in.  `CreationIsSound`
says that the link still says the same: a request holds the row of its link
(`HoldsItsLink`), no link is held twice, and only the holder closes it, so what was
read stays (`ReadsHold`).  Templates and organizations may be archived all the
same, which the property does not deny.  `IsNumbered` makes ids of cards new.

A comparison reads several tables one after the other while the card changes.
`BaselineIsExact` says that the baseline has, for every row that is live, what the card
had when it was taken.  `ReaderIsSound` says of each statement that has run that its
values are among those the card has had since the comparison began, and that what was
there all the time is among them; the lines that are shown pair the two by field and
row, and rows are never made live again.

The calculator tests the value under the lock of its card: `ExperienceIsSound` says
that whoever holds the card has tested what is stored now, and that the others are idle.

That what it shows never shrinks is arithmetic, for every calendar, amount and set of
periods.  `StartOf` puts the months in order (`MonthsFollow`, `MonthsInOrder`), so moving a
date by months keeps the order of dates though it cuts the day at the month's end
(`ShiftInOrder`), and the whole years and months that fit before a day only grow
(`FromAnchorGrows`).  An interval may *lose* 30 days when they become a month, never more:
in months of 30 days it gives no less with every day (`DurationGrows`).  The merged
periods of a day are its longest runs of days served (`MergedIs`), and each goes over into one of
the next day that starts with it (`RunsGoOn`), another run into another
(`RunsDiffer`); so each of the parts that are added has one that is no less on the next day,
and the total does too (`TotalsGrow`, by a least set of parts for which it does not;
`SumSplits` says that the fold adds in any order).  After the service has ended, the cut periods
serve the days up to its end (`CalculatedStays`).  `GrowthIsSound` says what the steps
keep for that: a value that is stored or about to be has begun by today, its periods do not
conflict, and if the service has ended, the value had begun by then, for the test of
the dismissal was made under the lock of the card.

A save looks up its subscribers event by event, unlocked.  `SaveIsSound` puts what it
has found for each event between two sets: those who have followed the card or the link since
the save began, and those who have at some time (`steady`, `ever`).  `NumbersAreFresh`
makes what it commits distinct from all there is, and `InboxIsSound` says that
a notification and its events are of one age, so that retention, which deletes both by
age in one transaction, leaves no notification whose event is gone.

Of items that imports add no two stand for one label (items there were before are
`SoundRows`: codes are unique, imported ones are the label's).  A row of the table may be
committed or still an import's own: `CodesAreApart` says of both together that a list has a
code once, which the unique index gives, and `PlanIsSound` that what an import inserted and
what it still means to insert are for different labels.  `FilingIsSound` says that what an
import picked or wrote had its label, and was a choice of its field, at some moment while
the import ran (`Held`): the facts it collects only grow, and each reading adds those of
its moment.

Only model-checked, and why:

* `RequestsEnd`: liveness under fairness is out of this prover's reach.
* What the violation runs refute.

Only proved: `SchemaTypesHold` of the types alone, `TypeOK` of `CardLifecycle` and of
`AttachmentStorage`, and the inductive invariants of every `_proofs` module.

## 6. What the checks found

Properties a document states and the code does not keep.  Each has a run that
TLC must find violated, and an entry under `findings` in `PROJECT.json`.

1. **Ended cards reopened** (`EndsAreFinal`).  A schema change writes the status of
   cards it selected without a lock (`cards.py:2590`).
2. **Cards that cannot be transferred** (`EditableCanBeTransferred`).  A value in an
   archived row has no row to be copied to (`cards.py:3547`).
3. **Documents that do not show the view** (`DocumentsPrintTheView`).  Documents are
   rendered from the sections that were derived when the view was stored; a
   synchronization replaces the items alone (`card_template_layout.py:308`).
4. **Forms that were never validated** (`NewFormsAreValid`).  `README.md:173` says that
   every newly saved form keeps to the grid and that overflow and overlaps are rejected; a `form_layout` in the schema of a
   template that is created or updated is stored as it is (`registry_schema.py:1157`).
5. **Defaults that no run passes** (`NoBrokenDefaults`).  `README.md:763` says that invalid
   defaults are rejected "instead of storing broken run-form state"; two overlapping updates store a schema and defaults that were
   each checked with the other's old column (`reports.py:152`).

More consequences of the code are in the models without a run of their own.

Links and cards:

* a preview that read an active link at its expiry writes `expired` over `approved` or
  `disabled` when those committed before its flush (`public_links.py:749`); it omits
  `can_edit` when its copy already had it false, so an expired link may keep it true;
* a preview that finds its link expired holds a share of the card and waits for the link,
  while an edit, a return, an approval or a disabling holds the link and waits for the card: PostgreSQL cancels one
  of them (`public_links.py:770`, `audit.py:602`);
* the flag of public editing is tested on a copy read before the card's lock, so a
  public write may land after it was switched off (`public_links.py:701`);
* a transferred copy of an active card is a draft: its status is derived before its
  values are copied (`cards.py:1837`);
* a field write and a schema change that overlap read each other's old rows and leave
  a status that contradicts the fields (`cards.py:2584`): `StatusFollowsFieldsAlone` is
  about requests that come one at a time;
* in a comparison, a field opened to guests after the baseline seems to have changed
  from nothing, a field opened between two of its statements seems removed, and one
  closed after a guest changed it is missing;
* a list searches archived rows and removed fields too; archiving or recoding the
  field `fio` makes every list with a card of that template fail.

Files and documents:

* a generated document is not registered for deletion, so a rollback after its
  generation leaves the file (`documents.py:565`);
* when the answer of a commit is lost, the session deletes a file whose row is
  committed (`attachments.py:110`): `RowsHaveFiles` is checked and proved for
  `AnswersMayBeLost = FALSE`;
* the second of two concurrent archivings of an attachment tests a copy it read before
  the lock, and overwrites who archived it first (`attachments.py:386`);
* two requests that find no default print view both create one; a print layout
  may bring back the format a concurrent binary version had replaced (`raced`);
* a schema without `properties` ignores `required`; a null that is given overrides a
  default; a run may commit after its template is archived; a report on one card whose defaults
  pass still fails without `card_id` (`reports.py:800`);
* a blank default of a type that is not text is refused, though it counts as missing
  (`reports.py:1090`).

Schema and administration:

* a value that is set holds its card and waits for the row that the archiving of its field
  deletes, while the archiving synchronizes the card and waits for it: PostgreSQL cancels one
  (`cards.py:2047`, `registry_schema.py:1001`, `cards.py:2584`);
* `archive_field_for_actor` deletes a value that is filled in between its reading and
  its DELETE (`registry_schema.py:1001`); a card may be inserted while the
  default registry is archived; codes of fields are unique by an unlocked test only;
* two roots may be created at once (`organizations.py:471`); a department created while
  its management is archived stays active;
* two profiles given at once leave the union of both; grants not in force at the moment of a
  change survive it; the scope ignores roles, so a grant committed after its role was archived
  still shows organizations; granting a live grant that is being archived
  leaves it archived.

Editors in the browser:

* an invalid text stays in its control and never reaches the session
  (`FieldEditorControl.tsx:230`): closing the field drops it without a question;
  `EditsAreKept` is about values that reached the session;
* what is typed while a save is pending is dropped (`useBlockEditor.ts:110`);
  `docs/superpowers/plans/2026-07-14-card-input-organization-and-public-reference-links.md:81`
  asks to keep it and to save it next;
* a field that is not offered any more when it is to be sent is skipped, and shown as
  saved (`useBlockEditor.ts:164`); `EditsAreKept` excepts it;
* "do not save" in the dialog that closes a tab does not stop a save in flight; leaving
  a draft card gives up an edit whose save has failed, without a question;
* a session that was opened on a draft keeps its one field after the card was activated;
* a public save that waits for the loss of focus when the card becomes activated is never
  sent, and the field stays "saving" and locked until the page asks for the status again
  (`PublicLinkEditPage.tsx:844`);
* showing the window again asks for the status and remounts the form: what was
  typed and not sent is gone, and a save of the old editor may land after one of the new.

Intake:

* an import that is sent again creates every card again; two imports that insert the
  same labels in different orders deadlock, and one is rolled back whole;
* an item that was imported and then archived or renamed keeps its code: the preview calls
  the label new and every commit fails (`references.py:351`);
* the strict workbook offers the base list for a field whose list depends on the
  organization, while validation requires the list in force there; export leaves
  choices of archived or own items blank;
* a link whose organizations are all archived can be neither read nor closed, and a
  creation link with an archived card cannot be listed; nothing sets `expires_at`;
* the template or the organization of a creation link may be archived between check and
  commit;
* events that come through a public link are attributed to its creator, and only the
  creator can subscribe to it, so such a subscription never tells anything
  (`card_change_notifications.py:224`); a bulk save tells a subscriber who came or
  left meanwhile only some of its changes;
* filling a gap of one day between two periods of service can reduce the total (17 January to
  28 January and 30 January to 9 March 2023 give 1 month 22 days, with 29 January 1 month
  21 days), because each merged interval is counted in months and days of its own;
  from one day to the next the total never shrinks.

## 7. Not modelled

* Export templates: saved selections of columns with a unique name and no rule between
  two of them.
* Text validation: a pure predicate over strings and regular expressions.
* Value types and their coercion, file formats (DOCX, PDF, XLSX), fonts, labels, the
  presentation of history and errors: an output computed from an input, whose difficulty is
  wording and formats, which tests reach.
* The MCP server, the HTTP layer and the command line scripts but the seeds: they
  call the services and keep no state.
* The frontend but the editors of section 3 and the print studio: queries, forms and
  presentation of server state.  In the editors, rows of repeatable blocks, the date of a
  change and the wording of errors.
* Passwords, tokens, sessions, encryption: who an actor is is an input.
* Deployment scripts: wrappers around external tools.

Permissions are refusals except in `UserAccess`.  Deadlocks (of an expiry and a request that holds its link, of a schema change
and a value, a transfer or another synchronization, of two imports) are broken by
PostgreSQL: one of the two fails, which the models have, and nothing in the repository
promises an order of locks.  The content of an event, an audit record or a snapshot is reduced to which writes it
stands for.

## 8. Plan

What is left, in this order:

1. Abstract specifications still worth stating: a card seen by its reader (open, ended, its
   copy) that `CardLifecycle` implements except for finding 1; a file store that is atomic
   with the database, which `AttachmentStorage` implements when no answer is lost.
2. The composition of `RegistrySchema` with the values of `CardLifecycle`, for the deletion
   of values with their field.
