-------------------------- MODULE AttachmentStorage --------------------------
(***************************************************************************)
(* Files on disk against the rows that name them: attachments of cards,    *)
(* generated documents, report outputs, and the values of type file_ref    *)
(* that point to attachments (services/attachments.py, the file halves of  *)
(* services/documents.py, services/reports.py and services/cards.py).      *)
(*                                                                         *)
(* A request writes its file first, then its rows, then commits.  The list *)
(* of files to delete if the transaction rolls back is in the session:     *)
(*                                                                         *)
(*   idle -> write -> file -> commit -> idle        a file is produced     *)
(*   idle -> lock -> commit -> idle                 one is archived        *)
(*   idle -> sync -> commit -> idle                 the schema changed     *)
(*   idle -> commit -> idle                         everything else        *)
(*                                                                         *)
(* Abstractions: contents, names and scanners are left out (a scan that    *)
(* fails is FailInside); an attachment or a document is identified by its  *)
(* card and the key of its file; who archived it, when and why is one      *)
(* reason; a card has one field of type file_ref; permissions are the      *)
(* refusals of Rollback; draft and active cards are "open"; a              *)
(* synchronization after a change of the schema writes one card.           *)
(***************************************************************************)
EXTENDS Naturals, FiniteSets

CONSTANTS
  Cards,            \* ids of cards
  StorageKeys,      \* storage keys
  Requests,         \* transactions that may be in flight at the same time
  FileKinds,        \* what requests produce: attachment, document, report
  Reasons,          \* archived_at, archived_by and archive_reason
  NoRequest,        \* "the row is not locked"
  NoKey,            \* a request without a file, a file_ref without a value
  AnswersMayBeLost  \* the connection may break while a commit is answered

ASSUME ConstantsAssumption ==
  /\ NoRequest \notin Requests
  /\ NoKey \notin StorageKeys
  /\ Cards # {}
  /\ FileKinds \subseteq {"attachment", "document", "report"}
  /\ Reasons \cap {"none", "live"} = {}
  /\ AnswersMayBeLost \in BOOLEAN

VARIABLES
  files,            \* keys of the files on disk
  abandoned,        \* files left by a crash or by an error of the disk
  storedFiles,      \* committed rows of stored_files
  card,             \* committed rows: cards, card_attachments, file_ref values
  lock,             \* holder of the row lock of each card
  stage,            \* where each request is
  work,             \* its task, card and file, and the row it read before locking
  pending,          \* session.info: files to delete if it rolls back
  unsaved           \* its uncommitted rows, meant for the cards it has locked

disk == <<files, abandoned>>
rows == <<storedFiles, card>>
vars == <<files, abandoned, storedFiles, card, lock, stage, work, pending, unsaved>>

-----------------------------------------------------------------------------
(* Rows *)

\* An attachment or a document is absent, live, or archived for a reason.
States == {"none", "live"} \cup Reasons

\* The files a card owns: rows of card_attachments, of generated_documents
Owned == {"attachment", "document"}

Ended == {"dismissed", "superseded", "archived"}

CardRow == [state : {"none", "open"} \cup Ended, ref : StorageKeys \cup {NoKey},
            attachment : [StorageKeys -> States], document : [StorageKeys -> States]]

Absent == [state |-> "none", ref |-> NoKey,
           attachment |-> [k \in StorageKeys |-> "none"],
           document |-> [k \in StorageKeys |-> "none"]]

\* create_card
New == [Absent EXCEPT !.state = "open"]

AnyCard == CHOOSE c \in Cards : TRUE

NoWork == [task |-> "other", kind |-> "report", card |-> AnyCard,
           key |-> NoKey, seen |-> "none"]

\* _require_writable_card, _get_editable_card
Editable(row) == row.state = "open"

-----------------------------------------------------------------------------
Init ==
  /\ files = {} /\ abandoned = {} /\ storedFiles = {}
  /\ card = [c \in Cards |-> IF c = AnyCard THEN New ELSE Absent]
  /\ lock = [c \in Cards |-> NoRequest]
  /\ stage = [r \in Requests |-> "idle"]
  /\ work = [r \in Requests |-> NoWork]
  /\ pending = [r \in Requests |-> {}]
  /\ unsaved = [r \in Requests |-> [c \in Cards |-> Absent]]

Goto(r, step) == stage' = [stage EXCEPT ![r] = step]

\* Request r locks card c and leaves row to be committed.
Lock(r, c, row) ==
  /\ lock[c] = NoRequest
  /\ lock' = [lock EXCEPT ![c] = r]
  /\ unsaved' = [unsaved EXCEPT ![r] = [@ EXCEPT ![c] = row]]

\* The session ends: its locks, its files to delete and its rows are gone.
Release(r) ==
  /\ lock' = [c \in Cards |-> IF lock[c] = r THEN NoRequest ELSE lock[c]]
  /\ Goto(r, "idle")
  /\ work' = [work EXCEPT ![r] = NoWork]
  /\ pending' = [pending EXCEPT ![r] = {}]
  /\ unsaved' = [unsaved EXCEPT ![r] = [c \in Cards |-> Absent]]

-----------------------------------------------------------------------------
(* Producing a file *)

\* create_attachment_for_actor, create_attachment_from_public_link and
\* generate_document_for_actor lock their card and test it; a report locks
\* nothing.
BeginFile(r, c, kind) ==
  /\ stage[r] = "idle"
  /\ IF kind = "report" THEN UNCHANGED <<lock, unsaved>>
                        ELSE Editable(card[c]) /\ Lock(r, c, card[c])
  /\ work' = [work EXCEPT ![r] = [NoWork EXCEPT !.task = "file",
                                                !.kind = kind, !.card = c]]
  /\ Goto(r, "write")
  /\ UNCHANGED <<disk, rows, pending>>

\* Mutant: a report output is not registered, as before it was hardened.
RegisteredExceptReports(kind) == kind = "attachment"

\* Attachments and reports call _remember_pending_storage_cleanup, documents
\* do not.
Registered(kind) == kind \in {"attachment", "report"}

\* write_bytes under a new uuid4
WriteFile(r) ==
  /\ stage[r] = "write"
  /\ \E k \in StorageKeys \ (files \cup storedFiles) :
       /\ files' = files \cup {k}
       /\ work' = [work EXCEPT ![r] = [@ EXCEPT !.key = k]]
       /\ pending' = [pending EXCEPT ![r] =
            IF Registered(work[r].kind) THEN @ \cup {k} ELSE @]
  /\ Goto(r, "file")
  /\ UNCHANGED <<abandoned, rows, lock, unsaved>>

\* write_bytes fails with the file half written; nothing deletes it.
FailWrite(r) ==
  /\ stage[r] = "write"
  /\ \E k \in StorageKeys \ (files \cup storedFiles) :
       files' = files \cup {k} /\ abandoned' = abandoned \cup {k}
  /\ Release(r) /\ UNCHANGED rows

\* Row row owns file k, as the given kind, in the given state.
Marked(row, kind, k, state) == [row EXCEPT ![kind] = [@ EXCEPT ![k] = state]]

\* The rows of the file: stored_files and, unless it is a report, one of the
\* card
StoreRows(r) ==
  LET c == work[r].card
      row == Marked(unsaved[r][c], work[r].kind, work[r].key, "live")
  IN
  /\ stage[r] = "file"
  /\ unsaved' = IF work[r].kind \in Owned
                 THEN [unsaved EXCEPT ![r] = [@ EXCEPT ![c] = row]]
                 ELSE unsaved
  /\ Goto(r, "commit")
  /\ UNCHANGED <<disk, rows, lock, work, pending>>

-----------------------------------------------------------------------------
(* Attachments and documents of a card, and the values that refer to them *)

\* archive_attachment_for_actor and archive_generated_document_for_actor read
\* the row without a lock,
ReadOwned(r, c, kind, k) ==
  /\ stage[r] = "idle" /\ card[c][kind][k] # "none"
  /\ work' = [work EXCEPT ![r] = [task |-> "archive", kind |-> kind, card |-> c,
                                  key |-> k, seen |-> card[c][kind][k]]]
  /\ Goto(r, "lock")
  /\ UNCHANGED <<disk, rows, lock, pending, unsaved>>

\* Mutant: the card is not tested after it was locked.
ArchiveOwnedUnchecked(r) ==
  LET w == work[r] IN
  /\ stage[r] = "lock"
  /\ \E reason \in Reasons :
       Lock(r, w.card, IF w.seen # "live" THEN card[w.card]
                       ELSE Marked(card[w.card], w.kind, w.key, reason))
  /\ Goto(r, "commit")
  /\ UNCHANGED <<disk, rows, work, pending>>

\* then lock and test the card, and archive the row unless it was archived
\* when it was read.
ArchiveOwned(r) ==
  LET w == work[r] IN
  /\ stage[r] = "lock" /\ Editable(card[w.card])
  /\ \E reason \in Reasons :
       Lock(r, w.card, IF w.seen # "live" THEN card[w.card]
                       ELSE Marked(card[w.card], w.kind, w.key, reason))
  /\ Goto(r, "commit")
  /\ UNCHANGED <<disk, rows, work, pending>>

\* set_field_value_for_actor with a file_ref: cleared, or set to a live
\* attachment of the card (_ensure_active_attachment_reference)
SetFileRef(r, c) ==
  /\ stage[r] = "idle" /\ Editable(card[c])
  /\ \E k \in StorageKeys \cup {NoKey} :
       /\ k # NoKey => card[c].attachment[k] = "live"
       /\ Lock(r, c, [card[c] EXCEPT !.ref = k])
  /\ Goto(r, "commit")
  /\ UNCHANGED <<disk, rows, work, pending>>

\* Mutant: the value is copied, its attachment is not.
CopiedShallow(row) == [New EXCEPT !.ref = row.ref]

\* Mutant: a reference to an archived attachment is copied, not cleared.
CopiedWithArchived(row) ==
  IF row.ref = NoKey THEN New
  ELSE [New EXCEPT !.ref = row.ref, !.attachment = [@ EXCEPT
          ![row.ref] = row.attachment[row.ref]]]

\* _copy_file_ref_attachment: the new card gets a row of card_attachments for
\* the same stored file, and refers to it; a reference to an archived one is
\* cleared.
Copied(row) ==
  IF row.ref = NoKey \/ row.attachment[row.ref] # "live" THEN New
  ELSE [New EXCEPT !.ref = row.ref,
                   !.attachment = [@ EXCEPT ![row.ref] = "live"]]

\* transfer_card_for_actor
Transfer(r, c, n) ==
  /\ stage[r] = "idle" /\ c # n
  /\ Editable(card[c]) /\ card[n].state = "none"
  /\ lock[c] = NoRequest /\ lock[n] = NoRequest
  /\ lock' = [lock EXCEPT ![c] = r, ![n] = r]
  /\ unsaved' = [unsaved EXCEPT ![r] = [@ EXCEPT
                  ![c] = [card[c] EXCEPT !.state = "superseded"],
                  ![n] = Copied(card[c])]]
  /\ Goto(r, "commit")
  /\ UNCHANGED <<disk, rows, work, pending>>

\* dismiss_card_for_actor, and archive_card_for_actor, which takes dismissed
\* cards too
EndCard(r, c) ==
  /\ stage[r] = "idle"
  /\ \/ Editable(card[c])
        /\ Lock(r, c, [card[c] EXCEPT !.state = "dismissed"])
     \/ card[c].state \in {"open", "dismissed"}
        /\ Lock(r, c, [card[c] EXCEPT !.state = "archived"])
  /\ Goto(r, "commit")
  /\ UNCHANGED <<disk, rows, work, pending>>

\* synchronize_registry_card_lifecycles selects open cards without a lock;
SelectCard(r, c) ==
  /\ stage[r] = "idle" /\ card[c].state = "open"
  /\ work' = [work EXCEPT ![r] = [NoWork EXCEPT !.card = c]]
  /\ Goto(r, "sync")
  /\ UNCHANGED <<disk, rows, lock, pending, unsaved>>

\* its UPDATE of the status may reopen a card that ended meanwhile, unless
\* archived_at is set.
SynchronizeCard(r) ==
  LET c == work[r].card IN
  /\ stage[r] = "sync"
  /\ Lock(r, c, [card[c] EXCEPT !.state =
                   IF @ = "archived" THEN "archived" ELSE "open"])
  /\ Goto(r, "commit")
  /\ UNCHANGED <<disk, rows, work, pending>>

-----------------------------------------------------------------------------
(* The end of a transaction *)

\* The rows of request r become visible.
Publish(r) ==
  /\ storedFiles' = IF work[r].task = "file"
                      THEN storedFiles \cup {work[r].key} ELSE storedFiles
  /\ card' = [c \in Cards |-> IF lock[c] = r THEN unsaved[r][c] ELSE card[c]]

\* delete_bytes for each key in lost; an error of the disk is suppressed.
Delete(lost) ==
  \E kept \in SUBSET (lost \cap files) :
    /\ files' = files \ (lost \ kept)
    /\ abandoned' = abandoned \cup kept

\* after_commit: _clear_pending_storage_cleanups_after_commit
CommitRows(r) == stage[r] = "commit" /\ Publish(r) /\ Release(r) /\ UNCHANGED disk

\* A commit that fails, or an exception elsewhere than between write_bytes and
\* the last row; after_rollback: _run_pending_storage_cleanups_after_rollback
Rollback(r) ==
  /\ stage[r] \notin {"idle", "file"}
  /\ Delete(pending[r])
  /\ Release(r) /\ UNCHANGED rows

\* The commit succeeds, but the connection breaks before the answer arrives:
\* the session rolls back what is committed.
LoseAnswer(r) ==
  /\ AnswersMayBeLost /\ stage[r] = "commit"
  /\ Publish(r) /\ Delete(pending[r]) /\ Release(r)

\* Mutant: the exception is not raised again, and the request commits.
FailInsideSwallowed(r) ==
  /\ stage[r] = "file"
  /\ Delete({work[r].key})
  /\ pending' = [pending EXCEPT ![r] = {}]
  /\ Goto(r, "commit")
  /\ UNCHANGED <<rows, lock, work, unsaved>>

\* An exception between write_bytes and the last row: the file is deleted at
\* once, and not again by the rollback.
FailInside(r) ==
  /\ stage[r] = "file"
  /\ Delete({work[r].key})
  /\ Release(r) /\ UNCHANGED rows

\* Files of request r that are not committed yet
InFlight(r) == IF stage[r] \in {"file", "commit"} /\ work[r].task = "file"
                 THEN {work[r].key} ELSE {}

\* The server process dies with all its sessions.
Crash ==
  /\ \E r \in Requests : stage[r] # "idle"
  /\ abandoned' = abandoned \cup UNION {InFlight(r) : r \in Requests}
  /\ lock' = [c \in Cards |-> NoRequest]
  /\ stage' = [r \in Requests |-> "idle"]
  /\ work' = [r \in Requests |-> NoWork]
  /\ pending' = [r \in Requests |-> {}]
  /\ unsaved' = [r \in Requests |-> [c \in Cards |-> Absent]]
  /\ UNCHANGED <<files, rows>>

Step(r) ==
  \/ \E c \in Cards : \/ \E kind \in FileKinds : BeginFile(r, c, kind)
                      \/ \E kind \in Owned, k \in StorageKeys :
                           ReadOwned(r, c, kind, k)
                      \/ \E n \in Cards : Transfer(r, c, n)
                      \/ SetFileRef(r, c) \/ EndCard(r, c)
                      \/ SelectCard(r, c)
  \/ WriteFile(r) \/ FailWrite(r) \/ StoreRows(r) \/ ArchiveOwned(r)
  \/ SynchronizeCard(r)
  \/ CommitRows(r) \/ Rollback(r) \/ FailInside(r) \/ LoseAnswer(r)

Next == (\E r \in Requests : Step(r)) \/ Crash

Spec == Init /\ [][Next]_vars

-----------------------------------------------------------------------------
(* Properties *)

\* Types of the variables: the rows fit their tables.
TypeOK ==
  /\ files \subseteq StorageKeys /\ abandoned \subseteq StorageKeys
  /\ storedFiles \subseteq StorageKeys
  /\ card \in [Cards -> CardRow]
  /\ lock \in [Cards -> Requests \cup {NoRequest}]
  /\ stage \in [Requests -> {"idle", "write", "file", "lock", "sync",
                         "commit"}]
  /\ work \in [Requests -> [task : {"file", "archive", "other"},
                            kind : Owned \cup {"report"}, card : Cards,
                            key : StorageKeys \cup {NoKey}, seen : States]]
  /\ pending \in [Requests -> SUBSET StorageKeys]
  /\ unsaved \in [Requests -> [Cards -> CardRow]]

\* A request that produces a file of a card has locked the card, which is
\* open until the request ends; one that archives a row knows its file.
TasksAreSound ==
  \A r \in Requests :
    /\ stage[r] \in {"write", "file"} => work[r].task = "file"
    /\ stage[r] \in {"idle", "lock", "sync"} => work[r].task # "file"
    /\ stage[r] \in {"file", "commit"} /\ work[r].task = "file" =>
         work[r].key \in StorageKeys
    /\ work[r].task = "file" => work[r].kind \in FileKinds
    /\ stage[r] \in {"write", "file"} /\ work[r].kind \in Owned =>
         lock[work[r].card] = r /\ Editable(card[work[r].card])
    /\ stage[r] = "lock" =>
         /\ work[r].kind \in Owned /\ work[r].key \in StorageKeys
         /\ work[r].kind = "attachment" => work[r].key \in storedFiles

\* A row that refers to an attachment has it, and its attachments are stored.
Sound(row, stored) ==
  /\ row.ref # NoKey => row.attachment[row.ref] # "none"
  /\ \A k \in StorageKeys : row.attachment[k] # "none" => k \in stored

\* What is to be committed is sound once the files of the request are stored.
RowsAreSound ==
  \A c \in Cards :
    /\ Sound(card[c], storedFiles)
    /\ \A r \in Requests :
         lock[c] = r => Sound(unsaved[r][c], storedFiles \cup InFlight(r))

\* Old and new agree in everything but the status of the card.
SameFiles(old, new) ==
  new.ref = old.ref /\ new.attachment = old.attachment
                    /\ new.document = old.document

\* What one request may do to a card: nothing to the files of an ended one,
\* and no new reference to an attachment that is not live.
Allowed(old, new) ==
  /\ old.state \in Ended => SameFiles(old, new)
  /\ new.ref # old.ref /\ new.ref # NoKey => new.attachment[new.ref] = "live"

\* What is to be committed is allowed.
WritesAreAllowed ==
  \A c \in Cards, r \in Requests :
    lock[c] = r => Allowed(card[c], unsaved[r][c])

\* No file to be deleted is stored, or belongs to another request.
FilesAreKept ==
  /\ storedFiles \subseteq files
  /\ \A r \in Requests :
       pending[r] \subseteq InFlight(r) /\ InFlight(r) \subseteq files \ storedFiles
  /\ \A r, s \in Requests : r # s => InFlight(r) \cap InFlight(s) = {}

\* Requests in flight, the rows they hold and the files they wrote agree: the
\* induction hypothesis of the proofs.
Consistent == TasksAreSound /\ RowsAreSound /\ WritesAreAllowed /\ FilesAreKept

\* "Stored file bytes and stored_files metadata are retained indefinitely": a
\* committed row always has its file, whatever fails, rolls back or crashes.
RowsHaveFiles == storedFiles \subseteq files

\* A file that no row names belongs to a request in flight, unless a crash or
\* an error of the disk kept it from being deleted ("delete newly written
\* generated bytes if metadata persistence fails").
UncommittedAreDeleted ==
  \A k \in files : \/ k \in storedFiles \cup abandoned
                   \/ \E r \in Requests : k \in InFlight(r)

\* A value of type file_ref points to an attachment of its own card whose
\* bytes are stored, also after transfers.
ReferencesResolve ==
  \A c \in Cards : card[c].ref # NoKey =>
    card[c].attachment[card[c].ref] # "none" /\ card[c].ref \in storedFiles

\* A value of type file_ref never starts to point to an archived attachment,
\* although attachments are archived concurrently.
NewReferencesAreLive ==
  [][\A c \in Cards :
       card'[c].ref # card[c].ref /\ card'[c].ref # NoKey =>
         card'[c].attachment[card'[c].ref] = "live"]_vars

\* "Superseded cards are readable in archive scope, but not editable": uploads,
\* generations, archivings and new values that race with the end of a card
\* leave no trace in it while it is ended.
EndedCardsAreReadOnly ==
  [][\A c \in Cards :
       card[c].state \in Ended /\ card'[c].state \in Ended =>
         SameFiles(card[c], card'[c])]_vars
=============================================================================
