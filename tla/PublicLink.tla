------------------------------ MODULE PublicLink ------------------------------
(***************************************************************************)
(* Public links to one registry card: creation, direct editing by the      *)
(* holder of the token, the review cycle, disabling and expiry             *)
(* (services/public_links.py, the public half of services/attachments.py). *)
(*                                                                         *)
(* Every HTTP request is one database transaction (api/dependencies.py).   *)
(* A request reads rows, may wait for row locks, changes its own copy of   *)
(* the rows and commits them together with their audit events, or rolls    *)
(* back.  The model has one step per read or lock, so that every           *)
(* interleaving of two requests between them is explored:                  *)
(*                                                                         *)
(*   idle -> read -> link -> card -> commit -> idle                        *)
(*              |      \--> expire -->/                                     *)
(*              \-> flush -> update ->/                                    *)
(*                                                                         *)
(* The audit event of an expiry is inserted before its link is updated,    *)
(* and its foreign key takes a share of the lock of the card's row.        *)
(*                                                                         *)
(* Reads are READ COMMITTED.  An UPDATE writes the columns the request     *)
(* changed with respect to the row it loaded, whatever the row holds now.  *)
(*                                                                         *)
(* Abstractions: values of fields, attachments and their names are one     *)
(* version number of the card, raised by every write; draft and active are *)
(* "open", archived and superseded are "closed"; the card's public_edit    *)
(* flag stands for edit together with view, which update_card_for_actor    *)
(* keeps implied; permissions and invalid input are the refusals of Fail.  *)
(***************************************************************************)
EXTENDS Naturals

CONSTANTS
  Links,          \* public links of the card
  Requests,       \* transactions that may be in flight at the same time
  NoRequest,      \* "the row is not locked"
  NoVersion,      \* a snapshot column that is NULL
  MaxUses,        \* card_public_links.max_uses
  MaxUploads,     \* card_public_links.max_attachment_uploads
  ExpiresAt,      \* card_public_links.expires_at
  MaxClock,       \* bound: the clock stops here
  MaxVersion      \* bound: writes to the card stop here

ASSUME ConstantsAssumption ==
  /\ NoRequest \notin Requests
  /\ NoVersion \notin Nat
  /\ Links # {}
  /\ MaxUses \in Nat /\ MaxUploads \in Nat
  /\ ExpiresAt \in Nat /\ MaxClock \in Nat /\ MaxVersion \in Nat

VARIABLES
  link,           \* committed rows of card_public_links
  card,           \* committed row of cards
  audit,          \* committed audit events and rows written through each link
  linkLock,       \* holder of the row lock of each link
  cardLock,       \* holder of the row lock of the card (FOR UPDATE)
  cardShare,      \* holders of a share of it (FOR KEY SHARE), by a foreign key
  clock,          \* the database server's time
  pc, op, target, \* where each request is, its endpoint, its link
  seen, mine,     \* the link row it loaded, and its copy with its changes
  mineCard        \* its copy of the card row, valid under the card lock

rows == <<link, card, audit>>
locks == <<linkLock, cardLock, cardShare>>
request == <<pc, op, target, seen, mine, mineCard>>
vars == <<link, card, audit, linkLock, cardLock, cardShare, clock, pc, op,
          target, seen, mine, mineCard>>

-----------------------------------------------------------------------------
(* Rows *)

Statuses == {"none", "active", "submitted", "changes_requested", "approved",
             "disabled", "expired"}
EditableStatuses == {"active", "changes_requested"}
ExpirableStatuses == {"active", "changes_requested", "submitted"}
ClosedStatuses == {"approved", "disabled", "expired"}

\* Mutant: a link that was approved may still be returned for changes.
AllowedTransitionsReopen(status) ==
  CASE status \in EditableStatuses -> {"submitted", "disabled", "expired"}
    [] status = "submitted" -> {"changes_requested", "approved", "disabled",
                                "expired"}
    [] status = "approved" -> {"changes_requested"}
    [] OTHER -> {}

\* ALLOWED_PUBLIC_LINK_TRANSITIONS
AllowedTransitions(status) ==
  CASE status \in EditableStatuses -> {"submitted", "disabled", "expired"}
    [] status = "submitted" -> {"changes_requested", "approved", "disabled",
                                "expired"}
    [] OTHER -> {}

Versions == 0 .. MaxVersion

LinkRow == [status : Statuses, canView : BOOLEAN, canEdit : BOOLEAN,
            used : Nat, uploads : Nat,
            baseline : Versions \cup {NoVersion},
            summary : Versions \cup {NoVersion}]

CardRow == [lifecycle : {"open", "dismissed", "closed"},
            publicEdit : BOOLEAN, version : Versions]

\* No row with this id yet
AbsentLink == [status |-> "none", canView |-> FALSE, canEdit |-> FALSE,
               used |-> 0, uploads |-> 0,
               baseline |-> NoVersion, summary |-> NoVersion]

\* The row create_public_link_for_actor inserts
NewLink(base) == [status |-> "active", canView |-> TRUE, canEdit |-> TRUE,
                  used |-> 0, uploads |-> 0,
                  baseline |-> base, summary |-> NoVersion]

\* The target of a request that has none
AnyLink == CHOOSE l \in Links : TRUE

FirstCard == [lifecycle |-> "open", publicEdit |-> TRUE, version |-> 0]

\* The UPDATE of one column: written only when the copy differs from what
\* was loaded, otherwise the committed value stays.
Column(committed, loaded, copy) == IF copy = loaded THEN committed ELSE copy

Updated(row, loaded, copy) ==
  [status   |-> Column(row.status, loaded.status, copy.status),
   canView  |-> Column(row.canView, loaded.canView, copy.canView),
   canEdit  |-> Column(row.canEdit, loaded.canEdit, copy.canEdit),
   used     |-> Column(row.used, loaded.used, copy.used),
   uploads  |-> Column(row.uploads, loaded.uploads, copy.uploads),
   baseline |-> Column(row.baseline, loaded.baseline, copy.baseline),
   summary  |-> Column(row.summary, loaded.summary, copy.summary)]

-----------------------------------------------------------------------------
(* Endpoints *)

TokenWriteOps == {"edit", "upload"}
ReviewerOps == {"disable", "capture", "request_changes", "approve"}
CardOps == {"staff_edit", "set_public_edit", "dismiss", "archive"}
Ops == TokenWriteOps \cup ReviewerOps \cup CardOps
         \cup {"create", "submit", "status", "preview"}

\* What the request does first
FirstStep(o) ==
  CASE o \in TokenWriteOps \cup {"preview"} -> "read"
    [] o \in CardOps \cup {"create"} -> "card"
    [] OTHER -> "link"

Steps == {"idle", "read", "flush", "update", "link", "expire", "card", "commit"}

-----------------------------------------------------------------------------
(* Guards of the services, over a row that was read *)

Lapsed(row) == row.status \in ExpirableStatuses /\ ExpiresAt <= clock

\* Mutant: a status the CHECK constraint of the table does not know.
ExpiredMisspelt(row) == [row EXCEPT !.status = "lapsed", !.canView = FALSE,
                                    !.canEdit = FALSE]

\* _expire_if_needed
Expired(row) == [row EXCEPT !.status = "expired", !.canView = FALSE,
                            !.canEdit = FALSE]

\* _editable_public_link, _get_public_attachment_link
EditableLink(row) == row.status \in EditableStatuses /\ row.canEdit

\* Mutant: the limit itself is still available.
WithinQuotaOffByOne(o, row) == CASE o = "edit" -> row.used <= MaxUses
                                 [] o = "upload" -> row.uploads <= MaxUploads
                                 [] OTHER -> TRUE

\* _require_field_edit_usage_available,
\* _require_public_attachment_upload_available
WithinQuota(o, row) == CASE o = "edit" -> row.used < MaxUses
                         [] o = "upload" -> row.uploads < MaxUploads
                         [] OTHER -> TRUE

\* _lock_editable_card after the lock, _get_editable_card
EditableCard(row) == row.lifecycle = "open"

\* _card_allows_public_edit, and the check of the validate_* endpoints
AllowsPublicEdit(row) == row.lifecycle # "closed" /\ row.publicEdit

-----------------------------------------------------------------------------
Init ==
  /\ link = [l \in Links |-> AbsentLink]
  /\ card = FirstCard
  /\ audit = [l \in Links |-> [edits |-> 0, uploads |-> 0]]
  /\ linkLock = [l \in Links |-> NoRequest]
  /\ cardLock = NoRequest
  /\ cardShare = {}
  /\ clock = 0
  /\ pc = [r \in Requests |-> "idle"]
  /\ op = [r \in Requests |-> "status"]
  /\ target = [r \in Requests |-> AnyLink]
  /\ seen = [r \in Requests |-> AbsentLink]
  /\ mine = [r \in Requests |-> AbsentLink]
  /\ mineCard = [r \in Requests |-> FirstCard]

Goto(r, step) == pc' = [pc EXCEPT ![r] = step]

\* The end of a transaction releases its row locks and forgets its copies.
Release(r) ==
  /\ linkLock' = [l \in Links |-> IF linkLock[l] = r THEN NoRequest
                                                     ELSE linkLock[l]]
  /\ cardLock' = IF cardLock = r THEN NoRequest ELSE cardLock
  /\ cardShare' = cardShare \ {r}
  /\ pc' = [pc EXCEPT ![r] = "idle"]
  /\ op' = [op EXCEPT ![r] = "status"]
  /\ target' = [target EXCEPT ![r] = AnyLink]
  /\ seen' = [seen EXCEPT ![r] = AbsentLink]
  /\ mine' = [mine EXCEPT ![r] = AbsentLink]
  /\ mineCard' = [mineCard EXCEPT ![r] = FirstCard]
  /\ UNCHANGED clock

\* Mutant: a refused request is forgotten, and its transaction left open.
RollbackForgotten(r) == Goto(r, "idle") /\ UNCHANGED <<rows, locks, clock, op,
                                              target, seen, mine, mineCard>>

Rollback(r) == Release(r) /\ UNCHANGED rows

\* A request arrives.  A token or an id of a link exists once its creation
\* has committed; a new id is used by one creation only.
Begin(r) ==
  /\ pc[r] = "idle"
  /\ \E o \in Ops, l \in Links :
       /\ \/ o \in CardOps /\ l = AnyLink
          \/ /\ o = "create"
             /\ link[l].status = "none"
             /\ \A s \in Requests :
                  (pc[s] # "idle" /\ op[s] = "create") => target[s] # l
          \/ o \notin CardOps \cup {"create"} /\ link[l].status # "none"
       /\ op' = [op EXCEPT ![r] = o]
       /\ target' = [target EXCEPT ![r] = l]
       /\ Goto(r, FirstStep(o))
  /\ UNCHANGED <<rows, locks, clock, seen, mine, mineCard>>

\* preview_public_link, validate_public_field_edit and
\* validate_public_attachment_token read the link without a lock, and expire
\* it on their copy.  The card they read stays in the session: the checks of
\* its public flags later in the request see this copy again.
ReadLink(r) ==
  LET row == link[target[r]] IN
  /\ pc[r] = "read"
  /\ IF Lapsed(row)
       THEN /\ seen' = [seen EXCEPT ![r] = row]
            /\ mine' = [mine EXCEPT ![r] = Expired(row)]
            /\ Goto(r, "flush")
            /\ UNCHANGED <<rows, locks, clock, op, target, mineCard>>
       ELSE IF /\ op[r] \in TokenWriteOps
               /\ EditableLink(row)
               /\ op[r] = "edit" => WithinQuota("edit", row)
               /\ AllowsPublicEdit(card)
       THEN /\ Goto(r, "link")
            /\ UNCHANGED <<rows, locks, clock, op, target, seen, mine, mineCard>>
       ELSE Rollback(r)

\* record_system_event adds the audit event of an expiry and flushes: its
\* INSERT comes first, and the foreign key to the card waits for whoever has
\* the card's row locked.  The UPDATE of the link follows in the same flush.
FlushExpiry(r) ==
  /\ pc[r] \in {"flush", "expire"}
  /\ cardLock = NoRequest
  /\ cardShare' = cardShare \cup {r}
  /\ Goto(r, IF pc[r] = "flush" THEN "update" ELSE "commit")
  /\ UNCHANGED <<rows, linkLock, cardLock, clock, op, target, seen, mine, mineCard>>

\* That UPDATE waits for the row of a link the request has not locked.
UpdateLink(r) ==
  /\ pc[r] = "update"
  /\ linkLock[target[r]] = NoRequest
  /\ linkLock' = [linkLock EXCEPT ![target[r]] = r]
  /\ Goto(r, "commit")
  /\ UNCHANGED <<rows, cardLock, cardShare, clock, op, target, seen, mine, mineCard>>

\* Mutant: the token's row is read without FOR UPDATE.
LockLinkForgotten(r) ==
  /\ pc[r] = "link"
  /\ seen' = [seen EXCEPT ![r] = link[target[r]]]
  /\ mine' = [mine EXCEPT ![r] = link[target[r]]]
  /\ op[r] \in ReviewerOps \/ EditableLink(link[target[r]])
  /\ op[r] # "status" /\ WithinQuota(op[r], link[target[r]])
  /\ Goto(r, "card")
  /\ UNCHANGED <<rows, locks, clock, op, target, mineCard>>

\* SELECT ... FOR UPDATE of the link with populate_existing.  The endpoints
\* that hold a token check expiry at once; those of the reviewer lock the
\* card first.
LockLink(r) ==
  LET row == link[target[r]]
      checked == op[r] \in TokenWriteOps \cup {"submit", "status"}
  IN
  /\ pc[r] = "link"
  /\ linkLock[target[r]] = NoRequest
  /\ IF \/ op[r] \in ReviewerOps
        \/ checked /\ Lapsed(row)
        \/ op[r] # "status" /\ EditableLink(row) /\ WithinQuota(op[r], row)
       THEN /\ linkLock' = [linkLock EXCEPT ![target[r]] = r]
            /\ seen' = [seen EXCEPT ![r] = row]
            /\ mine' = [mine EXCEPT ![r] = IF checked /\ Lapsed(row)
                                             THEN Expired(row) ELSE row]
            /\ Goto(r, IF checked /\ Lapsed(row) THEN "expire" ELSE "card")
            /\ UNCHANGED <<rows, cardLock, cardShare, clock, op, target, mineCard>>
       ELSE Rollback(r)

\* Mutant: a dismissal goes on to update a link of the card.
LockCardThenLink(r, o, row, cardRow) ==
  /\ pc[r] = "card" /\ op[r] = o
  /\ cardLock = NoRequest /\ cardShare = {}
  /\ cardLock' = r
  /\ mine' = [mine EXCEPT ![r] = row]
  /\ mineCard' = [mineCard EXCEPT ![r] = cardRow]
  /\ Goto(r, IF o = "dismiss" THEN "update" ELSE "commit")
  /\ UNCHANGED <<rows, linkLock, cardShare, clock, op, target, seen>>

\* Mutant: the baseline is taken from a card that is not locked.
LockCardExceptCapture(r, o, row, cardRow) ==
  /\ pc[r] = "card" /\ op[r] = o
  /\ o # "capture" => cardLock = NoRequest /\ cardShare = {}
  /\ cardLock' = IF o = "capture" THEN cardLock ELSE r
  /\ mine' = [mine EXCEPT ![r] = row]
  /\ mineCard' = [mineCard EXCEPT ![r] = cardRow]
  /\ Goto(r, "commit")
  /\ UNCHANGED <<rows, linkLock, cardShare, clock, op, target, seen>>

\* SELECT ... FOR UPDATE of the card by operation o, which then changes its
\* copies of the link and of the card to row and cardRow.
LockCard(r, o, row, cardRow) ==
  /\ pc[r] = "card" /\ op[r] = o
  /\ cardLock = NoRequest /\ cardShare = {}
  /\ cardLock' = r
  /\ mine' = [mine EXCEPT ![r] = row]
  /\ mineCard' = [mineCard EXCEPT ![r] = cardRow]
  /\ Goto(r, "commit")
  /\ UNCHANGED <<rows, linkLock, cardShare, clock, op, target, seen>>

-----------------------------------------------------------------------------
(* Operations, from the moment they hold the card's lock *)

\* _require_not_expired of the reviewer's endpoints
ExpireForReviewer(r) ==
  /\ EditableCard(card) /\ Lapsed(mine[r])
  /\ \E o \in ReviewerOps : LockCard(r, o, Expired(mine[r]), card)

\* create_public_link_for_actor; the baseline only for a review link
CreatePublicLink(r) ==
  /\ EditableCard(card)
  /\ \E base \in {NoVersion, card.version} :
       LockCard(r, "create", NewLink(base), card)

\* disable_public_link_for_actor
DisablePublicLink(r) ==
  /\ EditableCard(card) /\ ~Lapsed(mine[r])
  /\ "disabled" \in AllowedTransitions(mine[r].status)
  /\ LockCard(r, "disable", [mine[r] EXCEPT !.status = "disabled",
                            !.canEdit = FALSE, !.canView = FALSE], card)

\* capture_review_baseline: review_enabled and the baseline are set together
CaptureReviewBaseline(r) ==
  /\ EditableCard(card) /\ ~Lapsed(mine[r])
  /\ mine[r].status = "active" /\ mine[r].baseline = NoVersion
  /\ LockCard(r, "capture", [mine[r] EXCEPT !.baseline = card.version], card)

\* submit_for_review
SubmitForReview(r) ==
  /\ AllowsPublicEdit(card) /\ EditableCard(card)
  /\ mine[r].canView /\ mine[r].baseline # NoVersion
  /\ "submitted" \in AllowedTransitions(mine[r].status)
  /\ LockCard(r, "submit", [mine[r] EXCEPT !.status = "submitted",
                !.canEdit = FALSE, !.summary = card.version], card)

\* request_changes_for_actor
RequestChanges(r) ==
  /\ EditableCard(card) /\ ~Lapsed(mine[r])
  /\ "changes_requested" \in AllowedTransitions(mine[r].status)
  /\ LockCard(r, "request_changes", [mine[r] EXCEPT
                !.status = "changes_requested",
                !.canView = TRUE, !.canEdit = TRUE], card)

\* approve_for_actor
Approve(r) ==
  /\ EditableCard(card) /\ ~Lapsed(mine[r])
  /\ "approved" \in AllowedTransitions(mine[r].status)
  /\ LockCard(r, "approve", [mine[r] EXCEPT !.status = "approved",
                            !.canView = FALSE, !.canEdit = FALSE], card)

\* edit_card_field_with_token: set_field_value_from_public_link locks the
\* card and checks its lifecycle again, not its public flags.
EditCardField(r) ==
  /\ EditableCard(card) /\ card.version < MaxVersion
  /\ LockCard(r, "edit", [mine[r] EXCEPT !.used = @ + 1],
              [card EXCEPT !.version = @ + 1])

\* create_attachment_from_public_link: the same for _require_writable_card
UploadAttachment(r) ==
  /\ EditableCard(card) /\ card.version < MaxVersion
  /\ LockCard(r, "upload", [mine[r] EXCEPT !.uploads = @ + 1],
              [card EXCEPT !.version = @ + 1])

\* set_field_value_for_actor and the other staff writes of a card's content
StaffEdit(r) ==
  /\ EditableCard(card) /\ card.version < MaxVersion
  /\ LockCard(r, "staff_edit", mine[r], [card EXCEPT !.version = @ + 1])

\* update_card_for_actor, as far as the public flags are concerned
SetPublicEdit(r) ==
  /\ EditableCard(card)
  /\ \E b \in BOOLEAN :
       LockCard(r, "set_public_edit", mine[r], [card EXCEPT !.publicEdit = b])

\* dismiss_card_for_actor
Dismiss(r) ==
  /\ EditableCard(card)
  /\ LockCard(r, "dismiss", mine[r],
              [card EXCEPT !.lifecycle = "dismissed", !.publicEdit = FALSE])

\* archive_card_for_actor, and a transfer, which supersedes the card
Archive(r) ==
  /\ card.lifecycle # "closed"
  /\ LockCard(r, "archive", mine[r], [card EXCEPT !.lifecycle = "closed"])

-----------------------------------------------------------------------------
\* The end of get_db_session: commit and release.
Commit(r) ==
  /\ pc[r] = "commit"
  /\ link' = [link EXCEPT ![target[r]] = Updated(@, seen[r], mine[r])]
  /\ card' = IF cardLock = r THEN mineCard[r] ELSE card
  /\ audit' = [audit EXCEPT ![target[r]] =
       [edits   |-> @.edits + IF op[r] = "edit" /\ cardLock = r THEN 1 ELSE 0,
        uploads |-> @.uploads
                      + IF op[r] = "upload" /\ cardLock = r THEN 1 ELSE 0]]
  /\ Release(r)

\* Any exception, a refused permission, invalid input or a lost connection:
\* the session rolls back.
Fail(r) == pc[r] # "idle" /\ Rollback(r)

\* Time passes, up to the bound.
Tick == /\ clock < MaxClock
        /\ clock' = clock + 1
        /\ UNCHANGED <<rows, locks, request>>

CardStep(r) ==
  \/ ExpireForReviewer(r) \/ CreatePublicLink(r) \/ DisablePublicLink(r)
  \/ CaptureReviewBaseline(r) \/ SubmitForReview(r) \/ RequestChanges(r)
  \/ Approve(r) \/ EditCardField(r) \/ UploadAttachment(r) \/ StaffEdit(r)
  \/ SetPublicEdit(r) \/ Dismiss(r) \/ Archive(r)

Step(r) == ReadLink(r) \/ FlushExpiry(r) \/ UpdateLink(r) \/ LockLink(r)
             \/ CardStep(r) \/ Commit(r)

Next == \/ \E r \in Requests : Begin(r) \/ Step(r) \/ Fail(r)
        \/ Tick

Spec == Init /\ [][Next]_vars

\* Request r waits for a row that s has locked, or has a share of.
WaitsFor(r, s) ==
  /\ r # s
  /\ \/ pc[r] \in {"link", "update"} /\ linkLock[target[r]] = s
     \/ pc[r] \in {"flush", "expire", "card"} /\ cardLock = s
     \/ pc[r] = "card" /\ s \in cardShare

\* The requests of S wait for each other in a circle, or in several.
Circle(S) == S # {} /\ \A r \in S : \E s \in S : WaitsFor(r, s)

\* PostgreSQL finds a circle and cancels a request that is part of it.
CancelDeadlocked ==
  \E S \in SUBSET Requests : Circle(S) /\ \E r \in S : Fail(r)

\* A handler that has its locks returns or raises; a lock that is released
\* again and again is granted, for PostgreSQL queues the waiters of a row.
\* Nothing is assumed of clients and of time.
Refuse(r) ==
  pc[r] = "card" /\ cardLock = NoRequest /\ cardShare = {} /\ Fail(r)

Fairness == /\ \A r \in Requests : SF_vars(Step(r) \/ Refuse(r))
            /\ WF_vars(CancelDeadlocked)

FairSpec == Spec /\ Fairness

-----------------------------------------------------------------------------
(* Invariants *)

\* Types of the variables: the rows fit their tables.
TypeOK ==
  /\ link \in [Links -> LinkRow]
  /\ card \in CardRow
  /\ audit \in [Links -> [edits : Nat, uploads : Nat]]
  /\ linkLock \in [Links -> Requests \cup {NoRequest}]
  /\ cardLock \in Requests \cup {NoRequest}
  /\ cardShare \subseteq Requests
  /\ clock \in Nat
  /\ pc \in [Requests -> Steps]
  /\ op \in [Requests -> Ops]
  /\ target \in [Requests -> Links]
  /\ seen \in [Requests -> LinkRow]
  /\ mine \in [Requests -> LinkRow]
  /\ mineCard \in [Requests -> CardRow]

\* Concurrent edits and uploads through one link never exceed its limits,
\* and none of them is lost from the counters: the counters of the row equal
\* the writes that were audited (used_count, attachment_upload_count).
UsageIsCounted ==
  \A l \in Links :
    /\ link[l].used = audit[l].edits /\ link[l].used <= MaxUses
    /\ link[l].uploads = audit[l].uploads /\ link[l].uploads <= MaxUploads

\* Requests wait for each other in a circle only where one has found a link
\* expired without its lock: it has the card's share and waits for the link,
\* whose holder waits for the card.  All the others lock the link first.
CirclesAreExpiries ==
  \A S \in SUBSET Requests : Circle(S) =>
    \E r, s \in S : /\ pc[r] = "update" /\ r \in cardShare
                    /\ pc[s] = "card" /\ linkLock[target[r]] = s

\* Request r has locked the row of its link.
LinkHolder(r) == /\ pc[r] \in {"expire", "card", "commit"}
                 /\ op[r] \notin CardOps \cup {"create"}

\* Request r is about to commit a write through its link.
Writing(r) == pc[r] = "commit" /\ op[r] \in TokenWriteOps /\ cardLock = r

\* The lock table and the requests agree: a row has the holder it should.
LocksAreHeld ==
  /\ \A r \in Requests : LinkHolder(r) => linkLock[target[r]] = r
  /\ \A l \in Links : linkLock[l] # NoRequest =>
       LinkHolder(linkLock[l]) /\ target[linkLock[l]] = l
  /\ \A r \in Requests :
       pc[r] \in {"read", "link", "flush", "update", "expire"} =>
         op[r] \notin CardOps \cup {"create"}

\* So do the lock of the card, whose holder commits next, and its shares,
\* which nobody has while it is locked.
CardIsHeld ==
  /\ cardLock # NoRequest => pc[cardLock] = "commit" /\ cardShare = {}
  /\ \A r \in cardShare : pc[r] \in {"update", "commit"}
  /\ \A r \in Requests : pc[r] = "update" => r \in cardShare

\* What a request has checked under its locks is still so when it commits:
\* its copy is the committed row, editable and within its limits.
CopyIsFresh(r) ==
  /\ LinkHolder(r) /\ pc[r] = "card" =>
       /\ seen[r] = link[target[r]] /\ mine[r] = seen[r]
       /\ op[r] \in TokenWriteOps =>
            EditableLink(seen[r]) /\ WithinQuota(op[r], seen[r])
  /\ Writing(r) =>
       /\ seen[r] = link[target[r]]
       /\ EditableLink(seen[r]) /\ WithinQuota(op[r], seen[r])
       /\ EditableCard(card)
       /\ op[r] = "edit" => mine[r] = [seen[r] EXCEPT !.used = @ + 1]
       /\ op[r] = "upload" => mine[r] = [seen[r] EXCEPT !.uploads = @ + 1]
  /\ ~Writing(r) =>
       mine[r].used = seen[r].used /\ mine[r].uploads = seen[r].uploads

Creating(r) == pc[r] # "idle" /\ op[r] = "create"
UsingLink(r) == pc[r] # "idle" /\ op[r] \notin CardOps \cup {"create"}

\* A link is used after its only creation has committed, and the requests
\* for the card write no link.
LinksExist ==
  /\ \A r \in Requests : UsingLink(r) =>
       /\ link[target[r]].status # "none"
       /\ pc[r] \notin {"read", "link"} => mine[r].status # "none"
  /\ \A r \in Requests : Creating(r) =>
       /\ link[target[r]].status = "none"
       /\ \A s \in Requests : Creating(s) /\ target[s] = target[r] => s = r
  /\ \A r \in Requests :
       /\ pc[r] = "idle" \/ op[r] \in CardOps => mine[r] = seen[r]
       /\ pc[r] = "idle" \/ Creating(r) => seen[r] = AbsentLink

\* What a request is about to do to the status of its link: an expiry, or a
\* move its service allows from the status the row still has.
MoveIsAllowed(r) ==
  /\ pc[r] \in {"flush", "update", "expire"} => mine[r].status = "expired"
  /\ pc[r] = "commit" /\ UsingLink(r) =>
       \/ mine[r].status = "expired"
       \/ /\ seen[r] = link[target[r]]
          /\ mine[r].status \in {seen[r].status}
                                 \cup AllowedTransitions(seen[r].status)
  /\ pc[r] = "commit" /\ Creating(r) => mine[r].status = "active"

\* The inductive invariant behind the limits and the writes: rows, locks and
\* copies are consistent in every state, whichever requests are in flight.
Consistent == /\ LocksAreHeld /\ CardIsHeld /\ LinksExist /\ UsageIsCounted
              /\ \A r \in Requests : CopyIsFresh(r) /\ MoveIsAllowed(r)

-----------------------------------------------------------------------------
(* Action properties *)

\* A write through a link that commits finds the link still editable and the
\* card still open: one that was in flight when the link was submitted,
\* closed or expired, or the card dismissed or archived, does not land.
NoWriteAfterClose ==
  [][\A l \in Links : audit'[l] # audit[l] =>
       EditableLink(link[l]) /\ EditableCard(card)]_vars

\* The baseline of a review and the summary of a submission are those of the
\* card as it is when they commit: no write slips in between.
SnapshotsAreExact ==
  [][\A l \in Links :
       /\ link'[l].baseline \in {link[l].baseline, card'.version}
       /\ link[l].status # "submitted" /\ link'[l].status = "submitted" =>
            link'[l].summary = card'.version]_vars

-----------------------------------------------------------------------------
(* Liveness *)

\* Every request that arrived ends, whatever locks it has to wait for: it
\* answers, or PostgreSQL cancels one of the requests it waits for in a circle.
RequestsEnd == \A r \in Requests : (pc[r] # "idle") ~> (pc[r] = "idle")

-----------------------------------------------------------------------------
(* Refinement *)

\* A link seen from outside: the three ways to be closed are one.
Phase(row) == IF row.status \in ClosedStatuses THEN "closed" ELSE row.status

Protocol == INSTANCE ReviewProtocol WITH
              phase <- [l \in Links |-> Phase(link[l])],
              written <- audit

\* Transactions on the rows implement the review protocol.
ImplementsProtocol == Protocol!Spec
=============================================================================
