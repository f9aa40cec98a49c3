--------------------------- MODULE PublicLink_proofs ---------------------------
(***************************************************************************)
(* Proofs about PublicLink, for any number of links and requests.          *)
(***************************************************************************)
EXTENDS PublicLink, TLAPS

USE DEF Statuses, EditableStatuses, ExpirableStatuses, TokenWriteOps,
        ReviewerOps, CardOps, Ops, Steps

\* What all the operations on a locked card have in common: the link's
\* counters move only with a write through the link, and such a write finds
\* the card open.
CardStepShape(r, row, cardRow) ==
  /\ \E o \in Ops : LockCard(r, o, row, cardRow)
  /\ op[r] \in TokenWriteOps =>
       /\ EditableCard(card)
       /\ op[r] = "edit" => row = [mine[r] EXCEPT !.used = @ + 1]
       /\ op[r] = "upload" => row = [mine[r] EXCEPT !.uploads = @ + 1]
  /\ op[r] \notin TokenWriteOps \cup {"create"} =>
       row.used = mine[r].used /\ row.uploads = mine[r].uploads
  /\ op[r] = "create" => row.used = 0 /\ row.uploads = 0
  /\ op[r] \in CardOps => row = mine[r]
  /\ mine[r].status # "none" => row.status # "none"
  /\ op[r] = "create" => row.status = "active"
  /\ op[r] # "create" =>
       row.status \in {mine[r].status} \cup AllowedTransitions(mine[r].status)

-----------------------------------------------------------------------------
(* Types *)

\* The row an absent link is given, and the card at the start, are rows.
LEMMA FirstRows == AbsentLink \in LinkRow /\ FirstCard \in CardRow
BY ConstantsAssumption DEF AbsentLink, FirstCard, LinkRow, CardRow, Versions

\* There is a link to be the target of a request that has none.
LEMMA AnyLinkIsLink == AnyLink \in Links
BY ConstantsAssumption DEF AnyLink

\* An UPDATE of a row yields a row.
LEMMA UpdatedType ==
  ASSUME NEW a \in LinkRow, NEW b \in LinkRow, NEW c \in LinkRow
  PROVE  Updated(a, b, c) \in LinkRow
BY DEF Updated, Column, LinkRow

\* Expiring a row yields a row.
LEMMA ExpiredType == ASSUME NEW a \in LinkRow PROVE Expired(a) \in LinkRow
BY DEF Expired, LinkRow

\* Every operation on a locked card has the common shape.
LEMMA CardStepHasShape ==
  ASSUME TypeOK, NEW r \in Requests, CardStep(r)
  PROVE  \E row \in LinkRow, cardRow \in CardRow : CardStepShape(r, row, cardRow)
<1>0. mine[r] \in LinkRow /\ card \in CardRow
  BY DEF TypeOK
<1>1. CASE ExpireForReviewer(r)
  <2>1. Expired(mine[r]) \in LinkRow
    BY <1>0, ExpiredType
  <2>2. Expired(mine[r]).used = mine[r].used
        /\ Expired(mine[r]).uploads = mine[r].uploads
        /\ Expired(mine[r]).status = "expired"
        /\ Expired(mine[r]).status \in AllowedTransitions(mine[r].status)
    BY <1>0, <1>1 DEF ExpireForReviewer, Lapsed, Expired, LinkRow,
                      AllowedTransitions
  <2>3. PICK o \in ReviewerOps : LockCard(r, o, Expired(mine[r]), card)
    BY <1>1 DEF ExpireForReviewer
  <2> QED
    BY <1>0, <2>1, <2>2, <2>3 DEF CardStepShape, LockCard
<1>2. CASE CreatePublicLink(r)
  <2>1. PICK base \in {NoVersion, card.version} :
          LockCard(r, "create", NewLink(base), card)
    BY <1>2 DEF CreatePublicLink
  <2>2. NewLink(base) \in LinkRow /\ NewLink(base).status = "active"
        /\ NewLink(base).used = 0 /\ NewLink(base).uploads = 0
    BY <1>0, <2>1 DEF NewLink, LinkRow, CardRow
  <2> QED
    BY <1>0, <2>1, <2>2 DEF CardStepShape, LockCard
<1>3. CASE DisablePublicLink(r)
  <2> DEFINE row == [mine[r] EXCEPT !.status = "disabled",
                              !.canEdit = FALSE, !.canView = FALSE]
  <2>1. row \in LinkRow
    BY <1>0, ConstantsAssumption DEF LinkRow, CardRow, Versions
  <2>2. row.used = mine[r].used /\ row.uploads = mine[r].uploads
        /\ (mine[r].status # "none" => row.status # "none")
        /\ row.status \in {mine[r].status} \cup AllowedTransitions(mine[r].status)
    BY <1>0, <1>3 DEF DisablePublicLink, LinkRow
  <2>3. LockCard(r, "disable", row, card)
    BY <1>3 DEF DisablePublicLink
  <2> QED
    BY <1>0, <2>1, <2>2, <2>3 DEF CardStepShape, LockCard
<1>4. CASE CaptureReviewBaseline(r)
  <2> DEFINE row == [mine[r] EXCEPT !.baseline = card.version]
  <2>1. row \in LinkRow
    BY <1>0, ConstantsAssumption DEF LinkRow, CardRow, Versions
  <2>2. row.used = mine[r].used /\ row.uploads = mine[r].uploads
        /\ (mine[r].status # "none" => row.status # "none")
        /\ row.status \in {mine[r].status} \cup AllowedTransitions(mine[r].status)
    BY <1>0, <1>4 DEF CaptureReviewBaseline, LinkRow
  <2>3. LockCard(r, "capture", row, card)
    BY <1>4 DEF CaptureReviewBaseline
  <2> QED
    BY <1>0, <2>1, <2>2, <2>3 DEF CardStepShape, LockCard
<1>5. CASE SubmitForReview(r)
  <2> DEFINE row == [mine[r] EXCEPT !.status = "submitted",
                              !.canEdit = FALSE, !.summary = card.version]
  <2>1. row \in LinkRow
    BY <1>0, ConstantsAssumption DEF LinkRow, CardRow, Versions
  <2>2. row.used = mine[r].used /\ row.uploads = mine[r].uploads
        /\ (mine[r].status # "none" => row.status # "none")
        /\ row.status \in {mine[r].status} \cup AllowedTransitions(mine[r].status)
    BY <1>0, <1>5 DEF SubmitForReview, LinkRow
  <2>3. LockCard(r, "submit", row, card)
    BY <1>5 DEF SubmitForReview
  <2> QED
    BY <1>0, <2>1, <2>2, <2>3 DEF CardStepShape, LockCard
<1>6. CASE RequestChanges(r)
  <2> DEFINE row == [mine[r] EXCEPT !.status = "changes_requested",
                              !.canView = TRUE, !.canEdit = TRUE]
  <2>1. row \in LinkRow
    BY <1>0, ConstantsAssumption DEF LinkRow, CardRow, Versions
  <2>2. row.used = mine[r].used /\ row.uploads = mine[r].uploads
        /\ (mine[r].status # "none" => row.status # "none")
        /\ row.status \in {mine[r].status} \cup AllowedTransitions(mine[r].status)
    BY <1>0, <1>6 DEF RequestChanges, LinkRow
  <2>3. LockCard(r, "request_changes", row, card)
    BY <1>6 DEF RequestChanges
  <2> QED
    BY <1>0, <2>1, <2>2, <2>3 DEF CardStepShape, LockCard
<1>7. CASE Approve(r)
  <2> DEFINE row == [mine[r] EXCEPT !.status = "approved",
                              !.canView = FALSE, !.canEdit = FALSE]
  <2>1. row \in LinkRow
    BY <1>0, ConstantsAssumption DEF LinkRow, CardRow, Versions
  <2>2. row.used = mine[r].used /\ row.uploads = mine[r].uploads
        /\ (mine[r].status # "none" => row.status # "none")
        /\ row.status \in {mine[r].status} \cup AllowedTransitions(mine[r].status)
    BY <1>0, <1>7 DEF Approve, LinkRow
  <2>3. LockCard(r, "approve", row, card)
    BY <1>7 DEF Approve
  <2> QED
    BY <1>0, <2>1, <2>2, <2>3 DEF CardStepShape, LockCard
<1>8. CASE EditCardField(r)
  <2> DEFINE row == [mine[r] EXCEPT !.used = @ + 1]
  <2> DEFINE cardRow == [card EXCEPT !.version = @ + 1]
  <2>1. row \in LinkRow /\ row.status = mine[r].status
    BY <1>0 DEF LinkRow
  <2>2. cardRow \in CardRow
    BY <1>0, <1>8, ConstantsAssumption DEF EditCardField, CardRow, Versions
  <2>3. LockCard(r, "edit", row, cardRow) /\ EditableCard(card)
    BY <1>8 DEF EditCardField
  <2> QED
    BY <2>1, <2>2, <2>3 DEF CardStepShape, LockCard
<1>9. CASE UploadAttachment(r)
  <2> DEFINE row == [mine[r] EXCEPT !.uploads = @ + 1]
  <2> DEFINE cardRow == [card EXCEPT !.version = @ + 1]
  <2>1. row \in LinkRow /\ row.status = mine[r].status
    BY <1>0 DEF LinkRow
  <2>2. cardRow \in CardRow
    BY <1>0, <1>9, ConstantsAssumption DEF UploadAttachment, CardRow, Versions
  <2>3. LockCard(r, "upload", row, cardRow) /\ EditableCard(card)
    BY <1>9 DEF UploadAttachment
  <2> QED
    BY <2>1, <2>2, <2>3 DEF CardStepShape, LockCard
<1>10. CASE StaffEdit(r)
  <2>1. [card EXCEPT !.version = @ + 1] \in CardRow
    BY <1>0, <1>10, ConstantsAssumption DEF StaffEdit, CardRow, Versions
  <2> QED
    BY <1>0, <1>10, <2>1 DEF StaffEdit, CardStepShape, LockCard
<1>11. CASE SetPublicEdit(r)
  <2>1. PICK b \in BOOLEAN : LockCard(r, "set_public_edit", mine[r],
                                      [card EXCEPT !.publicEdit = b])
    BY <1>11 DEF SetPublicEdit
  <2>2. [card EXCEPT !.publicEdit = b] \in CardRow
    BY <1>0 DEF CardRow
  <2> QED
    BY <1>0, <2>1, <2>2 DEF CardStepShape, LockCard
<1>12. CASE Dismiss(r)
  <2>1. [card EXCEPT !.lifecycle = "dismissed", !.publicEdit = FALSE] \in CardRow
    BY <1>0 DEF CardRow
  <2> QED
    BY <1>0, <1>12, <2>1 DEF Dismiss, CardStepShape, LockCard
<1>13. CASE Archive(r)
  <2>1. [card EXCEPT !.lifecycle = "closed"] \in CardRow
    BY <1>0 DEF CardRow
  <2> QED
    BY <1>0, <1>13, <2>1 DEF Archive, CardStepShape, LockCard
<1> QED
  BY <1>1, <1>2, <1>3, <1>4, <1>5, <1>6, <1>7, <1>8, <1>9, <1>10, <1>11,
     <1>12, <1>13 DEF CardStep

\* The end of a transaction keeps the types of what it resets.
LEMMA ReleaseType ==
  ASSUME TypeOK, NEW r \in Requests, Release(r)
  PROVE  /\ linkLock' \in [Links -> Requests \cup {NoRequest}]
         /\ cardLock' \in Requests \cup {NoRequest}
         /\ cardShare' \subseteq Requests
         /\ clock' \in Nat
         /\ pc' \in [Requests -> Steps]
         /\ op' \in [Requests -> Ops]
         /\ target' \in [Requests -> Links]
         /\ seen' \in [Requests -> LinkRow]
         /\ mine' \in [Requests -> LinkRow]
         /\ mineCard' \in [Requests -> CardRow]
BY FirstRows, AnyLinkIsLink DEF TypeOK, Release

\* A rolled back request keeps the types.
LEMMA RollbackType ==
  ASSUME TypeOK, NEW r \in Requests, Rollback(r) PROVE TypeOK'
BY ReleaseType DEF TypeOK, Rollback, rows

\* Every step keeps the types of the variables.
LEMMA TypeStep == TypeOK /\ [Next]_vars => TypeOK'
<1> SUFFICES ASSUME TypeOK, [Next]_vars PROVE TypeOK'
  OBVIOUS
<1>1. CASE UNCHANGED vars
  BY <1>1 DEF TypeOK, vars
<1>2. CASE Tick
  BY <1>2 DEF TypeOK, Tick, rows, locks, request
<1>3. ASSUME NEW r \in Requests, Begin(r) PROVE TypeOK'
  BY <1>3 DEF TypeOK, Begin, rows, locks, Goto, FirstStep
<1>4. ASSUME NEW r \in Requests, ReadLink(r) PROVE TypeOK'
  <2>1. link[target[r]] \in LinkRow /\ Expired(link[target[r]]) \in LinkRow
    BY ExpiredType DEF TypeOK
  <2>2. CASE Rollback(r)
    BY <2>2, RollbackType
  <2>3. CASE ~Rollback(r)
    BY <1>4, <2>1, <2>3 DEF TypeOK, ReadLink, rows, locks, Goto
  <2> QED
    BY <2>2, <2>3
<1>5. ASSUME NEW r \in Requests, FlushExpiry(r) \/ UpdateLink(r) PROVE TypeOK'
  <2>1. CASE FlushExpiry(r)
    BY <2>1 DEF TypeOK, FlushExpiry, rows, Goto
  <2>2. CASE UpdateLink(r)
    BY <2>2 DEF TypeOK, UpdateLink, rows, Goto
  <2> QED
    BY <1>5, <2>1, <2>2
<1>6. ASSUME NEW r \in Requests, LockLink(r) PROVE TypeOK'
  <2>1. link[target[r]] \in LinkRow /\ Expired(link[target[r]]) \in LinkRow
    BY ExpiredType DEF TypeOK
  <2>2. CASE Rollback(r)
    BY <2>2, RollbackType
  <2>3. CASE ~Rollback(r)
    <3>1. PICK copy \in LinkRow, step \in Steps :
            /\ linkLock' = [linkLock EXCEPT ![target[r]] = r]
            /\ seen' = [seen EXCEPT ![r] = link[target[r]]]
            /\ mine' = [mine EXCEPT ![r] = copy]
            /\ pc' = [pc EXCEPT ![r] = step]
            /\ UNCHANGED <<rows, cardLock, cardShare, clock, op, target, mineCard>>
      BY <1>6, <2>1, <2>3 DEF LockLink, Goto
    <3> QED
      BY <2>1, <3>1 DEF TypeOK, rows
  <2> QED
    BY <2>2, <2>3
<1>7. ASSUME NEW r \in Requests, CardStep(r) PROVE TypeOK'
  <2>1. PICK row \in LinkRow, cardRow \in CardRow : CardStepShape(r, row, cardRow)
    BY <1>7, CardStepHasShape
  <2> QED
    BY <2>1 DEF TypeOK, CardStepShape, LockCard, Goto, rows
<1>8. ASSUME NEW r \in Requests, Commit(r) PROVE TypeOK'
  <2>1. Updated(link[target[r]], seen[r], mine[r]) \in LinkRow
    BY UpdatedType DEF TypeOK
  <2>2. link' \in [Links -> LinkRow] /\ card' \in CardRow
    BY <1>8, <2>1 DEF TypeOK, Commit
  <2>3. audit' \in [Links -> [edits : Nat, uploads : Nat]]
    BY <1>8 DEF TypeOK, Commit
  <2> QED
    BY <1>8, <2>2, <2>3, ReleaseType DEF TypeOK, Commit
<1>9. ASSUME NEW r \in Requests, Fail(r) PROVE TypeOK'
  BY <1>9, RollbackType DEF Fail
<1> QED
  BY <1>1, <1>2, <1>3, <1>4, <1>5, <1>6, <1>7, <1>8, <1>9 DEF Next, Step

\* The variables have their types in every state of every behaviour: the rows
\* written by services/public_links.py stay within their tables.
THEOREM TypeCorrect == Spec => []TypeOK
<1>1. Init => TypeOK
  BY FirstRows, AnyLinkIsLink, ConstantsAssumption DEF Init, TypeOK
<1> QED
  BY <1>1, TypeStep, PTL DEF Spec

-----------------------------------------------------------------------------
(* Locks, copies and counters *)

USE DEF LocksAreHeld, CardIsHeld, LinksExist, UsageIsCounted, LinkHolder, Writing,
        UsingLink, Creating

\* A request stays consistent while its own state, its link under its lock
\* and the card under its lock do not change.
LEMMA UntouchedStaysFresh ==
  ASSUME NEW s \in Requests, CopyIsFresh(s),
         pc'[s] = pc[s], op'[s] = op[s], target'[s] = target[s],
         seen'[s] = seen[s], mine'[s] = mine[s],
         (cardLock' = s) <=> (cardLock = s),
         LinkHolder(s) => link'[target[s]] = link[target[s]],
         Writing(s) => card' = card
  PROVE  CopyIsFresh(s)'
BY DEF CopyIsFresh, EditableLink, EditableCard, WithinQuota

\* So does what it is about to do to its link.
LEMMA UntouchedStaysAllowed ==
  ASSUME NEW s \in Requests, MoveIsAllowed(s),
         pc'[s] = pc[s], op'[s] = op[s], target'[s] = target[s],
         seen'[s] = seen[s], mine'[s] = mine[s],
         LinkHolder(s) => link'[target[s]] = link[target[s]]
  PROVE  MoveIsAllowed(s)'
BY DEF MoveIsAllowed, AllowedTransitions

\* The lock of the card and its shares stay with whom they should while a
\* request that has neither moves on to a step that needs neither.
LEMMA CardStaysHeld ==
  ASSUME TypeOK, CardIsHeld, UNCHANGED <<cardLock, cardShare>>,
         NEW r \in Requests, NEW step \in Steps, pc' = [pc EXCEPT ![r] = step],
         pc[r] \notin {"commit", "update"}, step # "update"
  PROVE  CardIsHeld'
<1>1. cardLock # r /\ r \notin cardShare
  BY ConstantsAssumption
<1>2. \A s \in Requests : s # r => pc'[s] = pc[s]
  BY DEF TypeOK
<1>3. pc'[r] = step /\ cardShare \subseteq Requests /\ cardLock \in Requests \cup {NoRequest}
  BY DEF TypeOK
<1> QED
  BY <1>1, <1>2, <1>3

\* A rollback leaves the others as they were and forgets the request.
LEMMA RollbackConsistent ==
  ASSUME TypeOK, Consistent, NEW r \in Requests, Rollback(r)
  PROVE  Consistent'
<1> USE DEF Rollback, Release, rows, TypeOK
<1>1. LocksAreHeld'
  BY ConstantsAssumption DEF Consistent
<1>10. CardIsHeld'
  BY ConstantsAssumption DEF Consistent
<1>2. LinksExist'
  BY DEF Consistent
<1>3. UsageIsCounted'
  BY DEF Consistent
<1>4. ASSUME NEW s \in Requests PROVE CopyIsFresh(s)'
  <2>1. CASE s = r
    BY <2>1 DEF CopyIsFresh, AbsentLink
  <2>2. CASE s # r
    BY <2>2, UntouchedStaysFresh, ConstantsAssumption DEF Consistent
  <2> QED
    BY <2>1, <2>2
<1>5. ASSUME NEW s \in Requests PROVE MoveIsAllowed(s)'
  <2>1. CASE s = r
    BY <2>1 DEF MoveIsAllowed
  <2>2. CASE s # r
    BY <2>2, UntouchedStaysAllowed DEF Consistent
  <2> QED
    BY <2>1, <2>2
<1> QED
  BY <1>1, <1>2, <1>3, <1>4, <1>5, <1>10 DEF Consistent

\* A request that arrives holds nothing and has copied nothing.
LEMMA BeginConsistent ==
  ASSUME TypeOK, Consistent, NEW r \in Requests, Begin(r)
  PROVE  Consistent'
<1> USE DEF Begin, FirstStep, Goto, rows, locks, TypeOK
<1>1. LocksAreHeld'
  BY ConstantsAssumption DEF Consistent
<1>10. CardIsHeld'
  BY ConstantsAssumption DEF Consistent
<1>2. LinksExist'
  BY DEF Consistent
<1>3. UsageIsCounted'
  BY DEF Consistent
<1>4. ASSUME NEW s \in Requests PROVE CopyIsFresh(s)'
  <2>1. CASE s = r
    BY <2>1, ConstantsAssumption
    DEF Consistent, CopyIsFresh, EditableLink, EditableCard, WithinQuota
  <2>2. CASE s # r
    BY <2>2, UntouchedStaysFresh, ConstantsAssumption DEF Consistent
  <2> QED
    BY <2>1, <2>2
<1>5. ASSUME NEW s \in Requests PROVE MoveIsAllowed(s)'
  <2>1. CASE s = r
    BY <2>1 DEF MoveIsAllowed
  <2>2. CASE s # r
    BY <2>2, UntouchedStaysAllowed DEF Consistent
  <2> QED
    BY <2>1, <2>2
<1> QED
  BY <1>1, <1>2, <1>3, <1>4, <1>5, <1>10 DEF Consistent

\* The flush of an expiry takes a share of a card nobody has locked, then the
\* lock of a link nobody holds; its copies stay.
LEMMA FlushConsistent ==
  ASSUME TypeOK, Consistent, NEW r \in Requests, FlushExpiry(r) \/ UpdateLink(r)
  PROVE  Consistent'
<1> USE DEF FlushExpiry, UpdateLink, Goto, rows, locks, TypeOK
<1>1. LocksAreHeld'
  <2>1. CASE FlushExpiry(r)
    BY <2>1, ConstantsAssumption DEF Consistent
  <2>2. CASE UpdateLink(r)
    BY <2>2, ConstantsAssumption DEF Consistent
  <2> QED
    BY <2>1, <2>2
<1>10. CardIsHeld'
  <2>1. CASE FlushExpiry(r)
    BY <2>1, ConstantsAssumption DEF Consistent
  <2>2. CASE UpdateLink(r)
    BY <2>2, ConstantsAssumption DEF Consistent
  <2> QED
    BY <2>1, <2>2
<1>2. LinksExist'
  <2>1. CASE FlushExpiry(r)
    BY <2>1 DEF Consistent
  <2>2. CASE UpdateLink(r)
    BY <2>2 DEF Consistent
  <2> QED
    BY <2>1, <2>2
<1>3. UsageIsCounted'
  BY DEF Consistent
<1>4. ASSUME NEW s \in Requests PROVE CopyIsFresh(s)'
  <2>1. CASE s = r
    BY <2>1, ConstantsAssumption
    DEF Consistent, CopyIsFresh, EditableLink, EditableCard, WithinQuota
  <2>2. CASE s # r
    BY <2>2, UntouchedStaysFresh, ConstantsAssumption DEF Consistent
  <2> QED
    BY <2>1, <2>2
<1>5. ASSUME NEW s \in Requests PROVE MoveIsAllowed(s)'
  <2>1. CASE s = r
    BY <2>1 DEF Consistent, MoveIsAllowed
  <2>2. CASE s # r
    BY <2>2, UntouchedStaysAllowed DEF Consistent
  <2> QED
    BY <2>1, <2>2
<1> QED
  BY <1>1, <1>2, <1>3, <1>4, <1>5, <1>10 DEF Consistent

\* An unlocked read copies the link only to expire it, and takes no lock.
LEMMA ReadConsistent ==
  ASSUME TypeOK, Consistent, NEW r \in Requests, ReadLink(r)
  PROVE  Consistent'
<1> USE DEF ReadLink, Goto, rows, locks, TypeOK
<1>1. CASE Rollback(r)
  BY <1>1, RollbackConsistent
<1>2. CASE ~Rollback(r) /\ Lapsed(link[target[r]])
  <2>0. LET e == Expired(link[target[r]])
        IN e.used = link[target[r]].used /\ e.uploads = link[target[r]].uploads
           /\ e.status = "expired"
    BY DEF Expired, LinkRow
  <2>1. LocksAreHeld'
    <3>1. /\ pc[r] = "read" /\ pc' = [pc EXCEPT ![r] = "flush"]
          /\ UNCHANGED <<linkLock, op, target>>
      BY <1>2
    <3> HIDE DEF ReadLink
    <3> QED
      BY <3>1, ConstantsAssumption DEF Consistent
  <2>10. CardIsHeld'
    BY <1>2, CardStaysHeld DEF Consistent
  <2>2. LinksExist'
    BY <1>2, <2>0 DEF Consistent
  <2>3. UsageIsCounted'
    BY <1>2 DEF Consistent
  <2>4. ASSUME NEW s \in Requests PROVE CopyIsFresh(s)'
    <3>1. CASE s = r
      BY <1>2, <2>0, <3>1 DEF Consistent, CopyIsFresh
    <3>2. CASE s # r
      BY <1>2, <3>2, UntouchedStaysFresh DEF Consistent
    <3> QED
      BY <3>1, <3>2
  <2>5. ASSUME NEW s \in Requests PROVE MoveIsAllowed(s)'
    <3>1. CASE s = r
      BY <1>2, <2>0, <3>1 DEF MoveIsAllowed
    <3>2. CASE s # r
      BY <1>2, <3>2, UntouchedStaysAllowed DEF Consistent
    <3> QED
      BY <3>1, <3>2
  <2> QED
    BY <2>1, <2>2, <2>3, <2>4, <2>5, <2>10 DEF Consistent
<1>3. CASE ~Rollback(r) /\ ~Lapsed(link[target[r]])
  <2>1. LocksAreHeld'
    BY <1>3, ConstantsAssumption DEF Consistent
  <2>10. CardIsHeld'
    BY <1>3, CardStaysHeld DEF Consistent
  <2>2. LinksExist'
    BY <1>3 DEF Consistent
  <2>3. UsageIsCounted'
    BY <1>3 DEF Consistent
  <2>4. ASSUME NEW s \in Requests PROVE CopyIsFresh(s)'
    <3>1. CASE s = r
      BY <1>3, <3>1 DEF Consistent, CopyIsFresh
    <3>2. CASE s # r
      BY <1>3, <3>2, UntouchedStaysFresh DEF Consistent
    <3> QED
      BY <3>1, <3>2
  <2>5. ASSUME NEW s \in Requests PROVE MoveIsAllowed(s)'
    <3>1. CASE s = r
      BY <1>3, <3>1 DEF MoveIsAllowed
    <3>2. CASE s # r
      BY <1>3, <3>2, UntouchedStaysAllowed DEF Consistent
    <3> QED
      BY <3>1, <3>2
  <2> QED
    BY <2>1, <2>2, <2>3, <2>4, <2>5, <2>10 DEF Consistent
<1> QED
  BY <1>1, <1>2, <1>3

\* A request that locks its link holds a copy of the committed row, or of
\* that row expired.
LEMMA LockLinkConsistent ==
  ASSUME TypeOK, Consistent, NEW r \in Requests, LockLink(r)
  PROVE  Consistent'
<1> USE DEF LockLink, Goto, rows, locks, TypeOK
<1>1. CASE Rollback(r)
  BY <1>1, RollbackConsistent
<1>2. CASE ~Rollback(r)
  <2> DEFINE row == link[target[r]]
  <2>0. Expired(row).used = row.used /\ Expired(row).uploads = row.uploads
        /\ Expired(row).status = "expired"
    BY DEF Expired, LinkRow
  <2>1. /\ pc[r] = "link" /\ linkLock[target[r]] = NoRequest
        /\ linkLock' = [linkLock EXCEPT ![target[r]] = r]
        /\ seen' = [seen EXCEPT ![r] = row]
        /\ UNCHANGED <<link, card, audit, cardLock, cardShare, op, target>>
    BY <1>2
  <2>2. PICK copy, step :
          /\ mine' = [mine EXCEPT ![r] = copy]
          /\ pc' = [pc EXCEPT ![r] = step]
          /\ \/ copy = row /\ step = "card"
                /\ (op[r] \in TokenWriteOps =>
                      EditableLink(row) /\ WithinQuota(op[r], row))
             \/ copy = Expired(row) /\ step = "expire" /\ op[r] \notin ReviewerOps
    BY <1>2
  <2> HIDE DEF LockLink, row
  <2>3. LocksAreHeld'
    BY <2>1, <2>2, ConstantsAssumption DEF Consistent
  <2>10. CardIsHeld'
    BY <2>1, <2>2, CardStaysHeld DEF Consistent
  <2>4. LinksExist'
    BY <2>0, <2>1, <2>2 DEF Consistent, row
  <2>5. UsageIsCounted'
    BY <2>1 DEF Consistent
  <2>6. ASSUME NEW s \in Requests PROVE CopyIsFresh(s)'
    <3>1. CASE s = r
      <4>1. CASE copy = row /\ step = "card"
        BY <2>1, <2>2, <3>1, <4>1, ConstantsAssumption
        DEF Consistent, CopyIsFresh, EditableLink, WithinQuota, row
      <4>2. CASE copy = Expired(row) /\ step = "expire"
        BY <2>0, <2>1, <2>2, <3>1, <4>2, ConstantsAssumption
        DEF Consistent, CopyIsFresh, row
      <4> QED
        BY <2>2, <4>1, <4>2
    <3>2. CASE s # r
      <4>1. /\ pc'[s] = pc[s] /\ op'[s] = op[s] /\ target'[s] = target[s]
            /\ seen'[s] = seen[s] /\ mine'[s] = mine[s]
        BY <2>1, <2>2, <3>2
      <4> QED
        BY <2>1, <4>1, UntouchedStaysFresh DEF Consistent
    <3> QED
      BY <3>1, <3>2
  <2>7. ASSUME NEW s \in Requests PROVE MoveIsAllowed(s)'
    <3>1. CASE s = r
      BY <2>0, <2>1, <2>2, <3>1 DEF Consistent, MoveIsAllowed
    <3>2. CASE s # r
      <4>1. /\ pc'[s] = pc[s] /\ op'[s] = op[s] /\ target'[s] = target[s]
            /\ seen'[s] = seen[s] /\ mine'[s] = mine[s]
        BY <2>1, <2>2, <3>2
      <4> QED
        BY <2>1, <4>1, UntouchedStaysAllowed DEF Consistent
    <3> QED
      BY <3>1, <3>2
  <2> QED
    BY <2>3, <2>4, <2>5, <2>6, <2>7, <2>10 DEF Consistent
<1> QED
  BY <1>1, <1>2

\* A request that locks the card has checked all it is about to commit.
LEMMA CardStepConsistent ==
  ASSUME TypeOK, Consistent, NEW r \in Requests, CardStep(r)
  PROVE  Consistent'
<1> USE DEF LockCard, Goto, rows, TypeOK
<1>0. PICK row \in LinkRow, cardRow \in CardRow : CardStepShape(r, row, cardRow)
  BY CardStepHasShape
<1>1. LocksAreHeld'
  BY <1>0, ConstantsAssumption DEF Consistent, CardStepShape
<1>10. CardIsHeld'
  BY <1>0, ConstantsAssumption DEF Consistent, CardStepShape
<1>2. LinksExist'
  BY <1>0 DEF Consistent, CardStepShape
<1>3. UsageIsCounted'
  BY <1>0 DEF Consistent, CardStepShape
<1>4. ASSUME NEW s \in Requests PROVE CopyIsFresh(s)'
  <2>1. CASE s = r
    <3>1. /\ pc[r] = "card" /\ pc'[r] = "commit" /\ op'[r] = op[r]
          /\ mine'[r] = row /\ seen'[r] = seen[r] /\ cardLock' = r
          /\ link' = link /\ card' = card /\ target' = target
      BY <1>0 DEF CardStepShape
    <3>2. CASE op[r] \in TokenWriteOps
      BY <1>0, <2>1, <3>1, <3>2
      DEF CardStepShape, Consistent, CopyIsFresh, EditableLink, EditableCard,
          WithinQuota
    <3>3. CASE op[r] = "create"
      BY <1>0, <2>1, <3>1, <3>3
      DEF CardStepShape, Consistent, CopyIsFresh, AbsentLink
    <3>4. CASE op[r] \notin TokenWriteOps \cup {"create"}
      BY <1>0, <2>1, <3>1, <3>4 DEF CardStepShape, Consistent, CopyIsFresh
    <3> QED
      BY <3>2, <3>3, <3>4
  <2>2. CASE s # r
    BY <1>0, <2>2, UntouchedStaysFresh, ConstantsAssumption
    DEF CardStepShape, Consistent
  <2> QED
    BY <2>1, <2>2
<1>5. ASSUME NEW s \in Requests PROVE MoveIsAllowed(s)'
  <2>1. CASE s = r
    <3>1. /\ pc[r] = "card" /\ pc'[r] = "commit" /\ op'[r] = op[r]
          /\ mine'[r] = row /\ seen'[r] = seen[r]
          /\ link' = link /\ target' = target
      BY <1>0 DEF CardStepShape
    <3>2. UsingLink(r) => seen[r] = link[target[r]] /\ mine[r] = seen[r]
      BY <3>1 DEF Consistent, CopyIsFresh
    <3> QED
      BY <1>0, <2>1, <3>1, <3>2
      DEF CardStepShape, MoveIsAllowed, AllowedTransitions
  <2>2. CASE s # r
    BY <1>0, <2>2, UntouchedStaysAllowed DEF CardStepShape, Consistent
  <2> QED
    BY <2>1, <2>2
<1> QED
  BY <1>1, <1>2, <1>3, <1>4, <1>5, <1>10 DEF Consistent

\* A commit writes the counters and the audit together, and touches no row
\* that another request has locked.
LEMMA CommitConsistent ==
  ASSUME TypeOK, Consistent, NEW r \in Requests, Commit(r)
  PROVE  Consistent'
<1> USE DEF Commit, Release, TypeOK
<1> DEFINE l == target[r]
<1> DEFINE row == Updated(link[l], seen[r], mine[r])
<1>1. /\ link' = [link EXCEPT ![l] = row]
      /\ row.status = Column(link[l].status, seen[r].status, mine[r].status)
      /\ row.used = Column(link[l].used, seen[r].used, mine[r].used)
      /\ row.uploads = Column(link[l].uploads, seen[r].uploads, mine[r].uploads)
  BY DEF Updated
<1>2. op[r] \in CardOps => link'[l] = link[l]
  BY <1>1 DEF Consistent, Updated, Column, LinkRow
<1>3. ASSUME NEW s \in Requests, s # r, LinkHolder(s)
      PROVE  link'[target[s]] = link[target[s]]
  <2>1. CASE op[r] \in CardOps
    BY <1>1, <1>2, <2>1
  <2>2. CASE op[r] = "create"
    BY <1>1, <1>3, <2>2 DEF Consistent
  <2>3. CASE op[r] \notin CardOps \cup {"create"}
    BY <1>1, <1>3, <2>3 DEF Consistent
  <2> QED
    BY <2>1, <2>2, <2>3
<1>4. LocksAreHeld'
  BY ConstantsAssumption DEF Consistent
<1>10. CardIsHeld'
  BY ConstantsAssumption DEF Consistent
<1>5. LinksExist'
  <2>1. ASSUME NEW s \in Requests, s # r, UsingLink(s)
        PROVE  link'[target[s]].status # "none"
    BY <1>1, <2>1 DEF Consistent, Column
  <2>2. ASSUME NEW s \in Requests, s # r, Creating(s)
        PROVE  link'[target[s]].status = "none"
    BY <1>1, <1>2, <2>2 DEF Consistent
  <2> QED
    BY <2>1, <2>2 DEF Consistent
<1>6. UsageIsCounted'
  <2>1. CASE Writing(r)
    <3>0. seen[r] = link[l] /\ link[l] \in LinkRow
      BY <2>1 DEF Consistent, CopyIsFresh
    <3>1. CASE op[r] = "edit"
      <4>1. mine[r] = [seen[r] EXCEPT !.used = @ + 1] /\ seen[r].used < MaxUses
        BY <2>1, <3>1 DEF Consistent, CopyIsFresh, WithinQuota
      <4>2. mine[r].used = link[l].used + 1 /\ mine[r].uploads = link[l].uploads
        BY <3>0, <4>1 DEF LinkRow
      <4>3. link'[l].used = link[l].used + 1 /\ link'[l].uploads = link[l].uploads
        BY <1>1, <3>0, <4>2 DEF Column, LinkRow
      <4>4. audit'[l] = [audit[l] EXCEPT !.edits = @ + 1]
        BY <2>1, <3>1
      <4> QED
        <5>1. /\ link[l].used = audit[l].edits /\ link[l].used <= MaxUses
              /\ link[l].uploads = audit[l].uploads
              /\ link[l].uploads <= MaxUploads
          BY DEF Consistent
        <5>2. /\ link'[l].used = audit'[l].edits /\ link'[l].used <= MaxUses
              /\ link'[l].uploads = audit'[l].uploads
              /\ link'[l].uploads <= MaxUploads
          BY <3>0, <4>1, <4>3, <4>4, <5>1, ConstantsAssumption DEF LinkRow
        <5>3. ASSUME NEW k \in Links, k # l
              PROVE  link'[k] = link[k] /\ audit'[k] = audit[k]
          BY <1>1, <4>4, <5>3
        <5> QED
          BY <5>2, <5>3 DEF Consistent
    <3>2. CASE op[r] = "upload"
      <4>1. mine[r] = [seen[r] EXCEPT !.uploads = @ + 1] /\ seen[r].uploads < MaxUploads
        BY <2>1, <3>2 DEF Consistent, CopyIsFresh, WithinQuota
      <4>2. mine[r].uploads = link[l].uploads + 1 /\ mine[r].used = link[l].used
        BY <3>0, <4>1 DEF LinkRow
      <4>3. link'[l].uploads = link[l].uploads + 1 /\ link'[l].used = link[l].used
        BY <1>1, <3>0, <4>2 DEF Column, LinkRow
      <4>4. audit'[l] = [audit[l] EXCEPT !.uploads = @ + 1]
        BY <2>1, <3>2
      <4> QED
        <5>1. /\ link[l].used = audit[l].edits /\ link[l].used <= MaxUses
              /\ link[l].uploads = audit[l].uploads
              /\ link[l].uploads <= MaxUploads
          BY DEF Consistent
        <5>2. /\ link'[l].used = audit'[l].edits /\ link'[l].used <= MaxUses
              /\ link'[l].uploads = audit'[l].uploads
              /\ link'[l].uploads <= MaxUploads
          BY <3>0, <4>1, <4>3, <4>4, <5>1, ConstantsAssumption DEF LinkRow
        <5>3. ASSUME NEW k \in Links, k # l
              PROVE  link'[k] = link[k] /\ audit'[k] = audit[k]
          BY <1>1, <4>4, <5>3
        <5> QED
          BY <5>2, <5>3 DEF Consistent
    <3> QED
      BY <2>1, <3>1, <3>2
  <2>2. CASE ~Writing(r)
    <3>1. link'[l].used = link[l].used /\ link'[l].uploads = link[l].uploads
      BY <1>1, <2>2 DEF Consistent, CopyIsFresh, Column
    <3>2. audit'[l] = [edits |-> audit[l].edits, uploads |-> audit[l].uploads]
      BY <2>2
    <3> QED
      BY <1>1, <3>1, <3>2 DEF Consistent
  <2> QED
    BY <2>1, <2>2
<1>7. ASSUME NEW s \in Requests PROVE CopyIsFresh(s)'
  <2>1. CASE s = r
    BY <2>1 DEF CopyIsFresh, AbsentLink
  <2>2. CASE s # r
    BY <1>3, <2>2, UntouchedStaysFresh, ConstantsAssumption, SMTT(20) DEF Consistent
  <2> QED
    BY <2>1, <2>2
<1>8. ASSUME NEW s \in Requests PROVE MoveIsAllowed(s)'
  <2>1. CASE s = r
    BY <2>1 DEF MoveIsAllowed
  <2>2. CASE s # r
    BY <1>3, <2>2, UntouchedStaysAllowed DEF Consistent
  <2> QED
    BY <2>1, <2>2
<1> QED
  BY <1>4, <1>5, <1>6, <1>7, <1>8, <1>10 DEF Consistent

\* Every step keeps rows, locks and copies consistent.
LEMMA ConsistentStep == TypeOK /\ Consistent /\ [Next]_vars => Consistent'
<1> SUFFICES ASSUME TypeOK, Consistent, [Next]_vars PROVE Consistent'
  OBVIOUS
<1>1. CASE UNCHANGED vars
  BY <1>1, UntouchedStaysFresh, UntouchedStaysAllowed DEF Consistent, vars
<1>2. CASE Tick
  BY <1>2, UntouchedStaysFresh, UntouchedStaysAllowed
  DEF Consistent, Tick, rows, locks, request
<1>3. ASSUME NEW r \in Requests, Begin(r) \/ Step(r) \/ Fail(r)
      PROVE  Consistent'
  BY <1>3, BeginConsistent, ReadConsistent, FlushConsistent, LockLinkConsistent,
     CardStepConsistent, CommitConsistent, RollbackConsistent DEF Step, Fail
<1> QED
  BY <1>1, <1>2, <1>3 DEF Next

\* Rows, locks and copies are consistent in every state, for any number of
\* links and of requests in flight.
THEOREM AlwaysConsistent == Spec => []Consistent
<1>1. Init => Consistent
  BY ConstantsAssumption
  DEF Init, Consistent, CopyIsFresh, MoveIsAllowed, AbsentLink
<1> QED
  BY <1>1, ConsistentStep, TypeCorrect, PTL DEF Spec

\* Neither max_uses nor max_attachment_uploads is ever exceeded, and no use of
\* a link is lost from its counters, however many requests race.
THEOREM UsageAlwaysCounted == Spec => []UsageIsCounted
<1>1. Consistent => UsageIsCounted
  BY DEF Consistent
<1> QED
  BY <1>1, AlwaysConsistent, PTL

-----------------------------------------------------------------------------
(* Writes after a submission or a closing *)

\* Only the commit of a write through a link changes what is audited of it.
LEMMA AuditedWrite ==
  ASSUME TypeOK, [Next]_vars, NEW l \in Links, audit'[l] # audit[l]
  PROVE  \E r \in Requests : Commit(r) /\ Writing(r) /\ target[r] = l
<1>1. PICK r \in Requests : Commit(r)
  <2>1. ASSUME NEW r \in Requests, CardStep(r) PROVE audit' = audit
    <3>1. PICK row \in LinkRow, cardRow \in CardRow :
            CardStepShape(r, row, cardRow)
      BY <2>1, CardStepHasShape
    <3> QED
      BY <3>1 DEF CardStepShape, LockCard, rows
  <2> QED
    BY <2>1 DEF Next, Step, vars, Begin, ReadLink, FlushExpiry, UpdateLink, LockLink, Fail,
                Rollback, Tick, rows
<1>2. target[r] = l
  BY <1>1 DEF Commit, TypeOK
<1>3. ASSUME ~Writing(r) PROVE FALSE
  <2>1. audit'[l] = [edits |-> audit[l].edits + 0,
                     uploads |-> audit[l].uploads + 0]
    BY <1>1, <1>2, <1>3 DEF Commit, TypeOK
  <2> QED
    BY <2>1 DEF TypeOK
<1> QED
  BY <1>1, <1>2, <1>3

\* No edit and no upload lands once the link is submitted, closed or expired,
\* or the card dismissed or archived: the request that checked before either
\* holds the lock the other side waits for, or sees what it committed.
THEOREM NoWriteLandsAfterClose == Spec => NoWriteAfterClose
<1>1. TypeOK /\ Consistent /\ [Next]_vars =>
        [\A l \in Links : audit'[l] # audit[l] =>
           EditableLink(link[l]) /\ EditableCard(card)]_vars
  <2> SUFFICES ASSUME TypeOK, Consistent, [Next]_vars, NEW l \in Links,
                      audit'[l] # audit[l]
               PROVE  EditableLink(link[l]) /\ EditableCard(card)
    OBVIOUS
  <2>1. PICK r \in Requests : Commit(r) /\ Writing(r) /\ target[r] = l
    BY AuditedWrite
  <2> QED
    BY <2>1 DEF Consistent, CopyIsFresh
<1> QED
  BY <1>1, TypeCorrect, AlwaysConsistent, PTL DEF Spec, NoWriteAfterClose

-----------------------------------------------------------------------------
(* Deadlock *)

\* Requests wait for each other in a circle only where one has found a link
\* expired without its lock, for any number of links and of requests: whoever
\* has the card locked waits for nothing, and whoever has a link's row locked
\* waits at most for the card.
THEOREM OnlyExpiriesCircle == Spec => []CirclesAreExpiries
<1>1. TypeOK /\ Consistent => CirclesAreExpiries
  <2> SUFFICES ASSUME TypeOK, Consistent, NEW S \in SUBSET Requests, S # {},
                      \A r \in S : \E s \in S : WaitsFor(r, s)
               PROVE  \E r, s \in S : /\ pc[r] = "update" /\ r \in cardShare
                                      /\ pc[s] = "card" /\ linkLock[target[r]] = s
    BY DEF CirclesAreExpiries, Circle
  <2>1. ASSUME NEW r \in S PROVE cardLock # r /\ pc[r] # "commit"
    <3>1. PICK s \in S : WaitsFor(r, s)
      OBVIOUS
    <3> QED
      BY <3>1, ConstantsAssumption DEF WaitsFor, Consistent
  <2>2. ASSUME NEW r \in S
        PROVE  \/ pc[r] \in {"link", "update"} /\ \E s \in S : linkLock[target[r]] = s
               \/ pc[r] = "card" /\ \E s \in S : pc[s] = "update"
    <3>1. PICK s \in S : WaitsFor(r, s)
      OBVIOUS
    <3>2. s \in cardShare => pc[s] = "update"
      BY <2>1 DEF Consistent
    <3> QED
      BY <2>1, <3>1, <3>2 DEF WaitsFor
  <2>3. ASSUME NEW r \in S, NEW s \in S, linkLock[target[r]] = s
        PROVE  pc[s] = "card"
    <3>1. LinkHolder(s)
      BY <2>3, ConstantsAssumption DEF Consistent, TypeOK
    <3> QED
      BY <2>1, <2>2, <3>1
  <2>4. PICK r \in S : pc[r] = "update"
    BY <2>2, <2>3
  <2>5. PICK s \in S : linkLock[target[r]] = s
    BY <2>2, <2>4
  <2> QED
    BY <2>3, <2>4, <2>5 DEF Consistent
<1> QED
  BY <1>1, TypeCorrect, AlwaysConsistent, PTL

-----------------------------------------------------------------------------
(* Refinement *)

PhaseOf == [l \in Links |-> Phase(link[l])]

\* A step that changes neither a row nor the audit is invisible outside.
LEMMA InvisibleStep ==
  ASSUME UNCHANGED <<link, audit>> PROVE UNCHANGED Protocol!vars
BY DEF Protocol!vars, Phase

\* A commit is one step of the protocol, or is invisible.
LEMMA CommitStep ==
  ASSUME TypeOK, Consistent, NEW r \in Requests, Commit(r)
  PROVE  [Protocol!Next]_(Protocol!vars)
<1> DEFINE l == target[r]
<1> DEFINE row == Updated(link[l], seen[r], mine[r])
<1>0. /\ link' = [link EXCEPT ![l] = row] /\ l \in Links
      /\ link[l] \in LinkRow /\ seen[r] \in LinkRow /\ mine[r] \in LinkRow
      /\ row.status = Column(link[l].status, seen[r].status, mine[r].status)
      /\ pc[r] = "commit"
  BY DEF Commit, TypeOK, Updated
<1>1. ASSUME ~Writing(r) PROVE audit' = audit
  <2>1. audit'[l] = [edits |-> audit[l].edits + 0,
                     uploads |-> audit[l].uploads + 0]
    BY <1>1 DEF Commit, TypeOK
  <2>2. audit'[l] = audit[l]
    BY <2>1 DEF TypeOK
  <2> QED
    BY <2>2 DEF Commit, TypeOK
<1> HIDE DEF row
<1>2. PhaseOf' = [PhaseOf EXCEPT ![l] = Phase(row)]
  <2>1. ASSUME NEW k \in Links
        PROVE  Phase(link'[k]) = IF k = l THEN Phase(row) ELSE Phase(link[k])
    BY <1>0 DEF TypeOK
  <2> QED
    BY <1>0, <2>1 DEF PhaseOf
<1>3. CASE Writing(r)
  <2>1. seen[r] = link[l] /\ EditableLink(link[l]) /\ WithinQuota(op[r], link[l])
    BY <1>3 DEF Consistent, CopyIsFresh
  <2>2. row.status = link[l].status
    <3>1. /\ op[r] = "edit" => mine[r] = [seen[r] EXCEPT !.used = @ + 1]
          /\ op[r] = "upload" => mine[r] = [seen[r] EXCEPT !.uploads = @ + 1]
      BY <1>3 DEF Consistent, CopyIsFresh
    <3>2. mine[r].status = seen[r].status
      BY <1>0, <1>3, <3>1 DEF LinkRow
    <3> QED
      BY <1>0, <2>1, <3>2 DEF Column
  <2>3. PhaseOf' = PhaseOf
    BY <1>2, <2>2 DEF PhaseOf, Phase
  <2>4. PhaseOf[l] \in {"active", "changes_requested"}
    BY <1>0, <2>1 DEF PhaseOf, Phase, EditableLink, ClosedStatuses
  <2>5. CASE op[r] = "edit"
    <3>1. audit' = [audit EXCEPT ![l].edits = @ + 1]
      <4>1. audit' = [audit EXCEPT ![l] =
                        [edits |-> audit[l].edits + 1,
                         uploads |-> audit[l].uploads + 0]]
        BY <1>3, <2>5 DEF Commit, TypeOK
      <4>2. [edits |-> audit[l].edits + 1,
             uploads |-> audit[l].uploads + 0]
              = [audit[l] EXCEPT !.edits = @ + 1]
        BY <1>0 DEF TypeOK
      <4> QED
        BY <4>1, <4>2
    <3>2. audit[l].edits < MaxUses
      BY <1>0, <2>1, <2>5 DEF WithinQuota, Consistent
    <3> QED
      BY <1>0, <2>3, <2>4, <3>1, <3>2
      DEF Protocol!Next, Protocol!Edit, Protocol!Editing, PhaseOf
  <2>6. CASE op[r] = "upload"
    <3>1. audit' = [audit EXCEPT ![l].uploads = @ + 1]
      <4>1. audit' = [audit EXCEPT ![l] =
                        [edits |-> audit[l].edits + 0,
                         uploads |-> audit[l].uploads + 1]]
        BY <1>3, <2>6 DEF Commit, TypeOK
      <4>2. [edits |-> audit[l].edits + 0,
             uploads |-> audit[l].uploads + 1]
              = [audit[l] EXCEPT !.uploads = @ + 1]
        BY <1>0 DEF TypeOK
      <4> QED
        BY <4>1, <4>2
    <3>2. audit[l].uploads < MaxUploads
      BY <1>0, <2>1, <2>6 DEF WithinQuota, Consistent
    <3> QED
      BY <1>0, <2>3, <2>4, <3>1, <3>2
      DEF Protocol!Next, Protocol!Upload, Protocol!Editing, PhaseOf
  <2> QED
    BY <1>3, <2>5, <2>6
<1>4. CASE ~Writing(r) /\ op[r] \in CardOps
  <2>1. row.status = link[l].status
    BY <1>0, <1>4 DEF Consistent, Column
  <2> QED
    BY <1>1, <1>2, <1>4, <2>1 DEF PhaseOf, Phase, Protocol!vars
<1>5. CASE op[r] = "create"
  <2>1. link[l].status = "none" /\ seen[r].status = "none"
        /\ mine[r].status = "active"
    BY <1>0, <1>5 DEF Consistent, MoveIsAllowed, AbsentLink
  <2>2. PhaseOf[l] = "none" /\ Phase(row) = "active"
    BY <1>0, <2>1 DEF PhaseOf, Phase, Column, ClosedStatuses
  <2> QED
    BY <1>0, <1>1, <1>2, <1>5, <2>2
    DEF Protocol!Next, Protocol!Open, Protocol!Move, PhaseOf
<1>6. CASE ~Writing(r) /\ op[r] \notin CardOps \cup {"create"}
  <2>0. link[l].status # "none" /\ link[l].status \in Statuses
    BY <1>0, <1>6 DEF Consistent, LinkRow
  <2>1. CASE row.status = link[l].status
    BY <1>1, <1>2, <1>6, <2>1 DEF PhaseOf, Phase, Protocol!vars
  <2>2. CASE row.status # link[l].status /\ mine[r].status = "expired"
    <3>1. Phase(row) = "closed"
      BY <1>0, <2>2 DEF Phase, Column, ClosedStatuses
    <3>2. PhaseOf[l] \in {"active", "changes_requested", "submitted", "closed"}
      BY <1>0, <2>0 DEF PhaseOf, Phase, ClosedStatuses
    <3>3. CASE PhaseOf[l] = "closed"
      BY <1>0, <1>1, <1>2, <1>6, <3>1, <3>3 DEF PhaseOf, Protocol!vars
    <3>4. CASE PhaseOf[l] # "closed"
      BY <1>0, <1>1, <1>2, <1>6, <3>1, <3>2, <3>4
      DEF Protocol!Next, Protocol!Close, Protocol!Move, Protocol!Editing, PhaseOf
    <3> QED
      BY <3>3, <3>4
  <2>3. CASE row.status # link[l].status /\ mine[r].status # "expired"
    <3>1. seen[r] = link[l]
          /\ row.status \in AllowedTransitions(link[l].status)
      BY <1>0, <1>6, <2>3 DEF Consistent, MoveIsAllowed, Column
    <3>2. CASE link[l].status \in EditableStatuses
      <4>1. PhaseOf[l] \in {"active", "changes_requested"}
            /\ Phase(row) \in {"submitted", "closed"}
        BY <1>0, <3>1, <3>2 DEF PhaseOf, Phase, ClosedStatuses, AllowedTransitions
      <4> QED
        BY <1>0, <1>1, <1>2, <1>6, <4>1
        DEF Protocol!Next, Protocol!Submit, Protocol!Close, Protocol!Move,
            Protocol!Editing, PhaseOf
    <3>3. CASE link[l].status = "submitted"
      <4>1. PhaseOf[l] = "submitted"
            /\ Phase(row) \in {"changes_requested", "closed"}
        BY <1>0, <3>1, <3>3 DEF PhaseOf, Phase, ClosedStatuses, AllowedTransitions
      <4> QED
        BY <1>0, <1>1, <1>2, <1>6, <4>1
        DEF Protocol!Next, Protocol!Return, Protocol!Close, Protocol!Move, PhaseOf
    <3> QED
      BY <3>1, <3>2, <3>3 DEF AllowedTransitions
  <2> QED
    BY <2>1, <2>2, <2>3
<1> QED
  BY <1>3, <1>4, <1>5, <1>6

\* The transactions implement the review protocol of the links: whatever
\* races, the holder of a token and the reviewer see only its moves.
THEOREM TransactionsImplementProtocol == Spec => ImplementsProtocol
<1>1. Init => Protocol!Init
  BY DEF Init, Protocol!Init, Phase, AbsentLink, ClosedStatuses
<1>2. TypeOK /\ Consistent /\ [Next]_vars => [Protocol!Next]_(Protocol!vars)
  <2> SUFFICES ASSUME TypeOK, Consistent, [Next]_vars
               PROVE  [Protocol!Next]_(Protocol!vars)
    OBVIOUS
  <2>1. CASE \E r \in Requests : Commit(r)
    BY <2>1, CommitStep
  <2>2. CASE ~\E r \in Requests : Commit(r)
    <3>1. ASSUME NEW r \in Requests, CardStep(r) PROVE UNCHANGED <<link, audit>>
      <4>1. PICK row \in LinkRow, cardRow \in CardRow :
              CardStepShape(r, row, cardRow)
        BY <3>1, CardStepHasShape
      <4> QED
        BY <4>1 DEF CardStepShape, LockCard, rows
    <3>2. UNCHANGED <<link, audit>>
      BY <2>2, <3>1 DEF Next, Step, vars, Begin, ReadLink, FlushExpiry, UpdateLink, LockLink,
                        Fail, Rollback, Tick, rows
    <3> QED
      BY <3>2, InvisibleStep
  <2> QED
    BY <2>1, <2>2
<1> QED
  BY <1>1, <1>2, TypeCorrect, AlwaysConsistent, PTL
  DEF Spec, ImplementsProtocol, Protocol!Spec

-----------------------------------------------------------------------------
(* Snapshots *)

\* A request that is about to change the baseline, or to submit, has the card,
\* and what it snapshots is the card as it will leave it.
SnapshotIsTaken(r) ==
  /\ pc[r] \in {"flush", "update", "expire"} => mine[r].baseline = seen[r].baseline
  /\ pc[r] = "commit" =>
       /\ mine[r].baseline # seen[r].baseline =>
            cardLock = r /\ mine[r].baseline = mineCard[r].version
       /\ mine[r].status = "submitted" /\ seen[r].status # "submitted" =>
            cardLock = r /\ mine[r].summary = mineCard[r].version

\* It stays so while the request and its lock of the card do not change.
LEMMA UntouchedStaysTaken ==
  ASSUME NEW s \in Requests, SnapshotIsTaken(s),
         pc'[s] = pc[s], seen'[s] = seen[s], mine'[s] = mine[s], mineCard'[s] = mineCard[s],
         cardLock = s => cardLock' = s
  PROVE  SnapshotIsTaken(s)'
BY DEF SnapshotIsTaken

\* Every operation on a locked card takes the snapshot of that card, or none.
LEMMA CardStepTakes ==
  ASSUME TypeOK, Consistent, NEW r \in Requests, CardStep(r)
  PROVE  SnapshotIsTaken(r)'
<1>1. /\ mine[r] \in LinkRow /\ seen[r] \in LinkRow /\ card \in CardRow
      /\ pc[r] = "card" => IF op[r] = "create" THEN seen[r] = AbsentLink ELSE mine[r] = seen[r]
  BY DEF TypeOK, Consistent, CopyIsFresh
<1>2. ASSUME NEW o, NEW row, NEW cardRow, LockCard(r, o, row, cardRow)
      PROVE  /\ pc[r] = "card" /\ op[r] = o
             /\ pc'[r] = "commit" /\ cardLock' = r /\ seen'[r] = seen[r]
             /\ mine'[r] = row /\ mineCard'[r] = cardRow
  BY <1>2 DEF LockCard, Goto, TypeOK
<1>3. CASE ExpireForReviewer(r)
  <2>1. PICK o \in ReviewerOps : LockCard(r, o, Expired(mine[r]), card)
    BY <1>3 DEF ExpireForReviewer
  <2>2. Expired(mine[r]).baseline = mine[r].baseline /\ Expired(mine[r]).status = "expired"
    BY <1>1 DEF Expired, LinkRow
  <2>3. mine[r] = seen[r]
    BY <1>1, <1>2, <2>1
  <2> QED
    BY <1>2, <2>1, <2>2, <2>3 DEF SnapshotIsTaken
<1>4. CASE CreatePublicLink(r)
  <2>1. PICK base \in {NoVersion, card.version} : LockCard(r, "create", NewLink(base), card)
    BY <1>4 DEF CreatePublicLink
  <2>2. /\ seen[r].baseline = NoVersion
        /\ NewLink(base).baseline = base /\ NewLink(base).status = "active"
    BY <1>1, <1>2, <2>1 DEF AbsentLink, NewLink
  <2> QED
    BY <1>2, <2>1, <2>2 DEF SnapshotIsTaken
<1>5. CASE DisablePublicLink(r) \/ RequestChanges(r) \/ Approve(r)
  <2> DEFINE disabled == [mine[r] EXCEPT !.status = "disabled", !.canEdit = FALSE, !.canView = FALSE]
             returned == [mine[r] EXCEPT !.status = "changes_requested",
                                         !.canView = TRUE, !.canEdit = TRUE]
             approved == [mine[r] EXCEPT !.status = "approved", !.canView = FALSE, !.canEdit = FALSE]
  <2>0. /\ disabled.baseline = mine[r].baseline /\ disabled.status = "disabled"
        /\ returned.baseline = mine[r].baseline /\ returned.status = "changes_requested"
        /\ approved.baseline = mine[r].baseline /\ approved.status = "approved"
    BY <1>1 DEF LinkRow
  <2>1. PICK row : /\ LockCard(r, op[r], row, card) /\ op[r] # "create"
                   /\ row.baseline = mine[r].baseline /\ row.status # "submitted"
    <3>1. \/ LockCard(r, "disable", disabled, card) /\ op[r] = "disable"
          \/ LockCard(r, "request_changes", returned, card) /\ op[r] = "request_changes"
          \/ LockCard(r, "approve", approved, card) /\ op[r] = "approve"
      BY <1>5, <1>2 DEF DisablePublicLink, RequestChanges, Approve
    <3> HIDE DEF disabled, returned, approved
    <3> QED
      BY <2>0, <3>1
  <2>2. mine[r] = seen[r]
    BY <1>1, <1>2, <2>1
  <2> QED
    BY <1>2, <2>1, <2>2 DEF SnapshotIsTaken
<1>6. CASE CaptureReviewBaseline(r)
  <2>1. LockCard(r, "capture", [mine[r] EXCEPT !.baseline = card.version], card)
    BY <1>6 DEF CaptureReviewBaseline
  <2>2. /\ [mine[r] EXCEPT !.baseline = card.version].baseline = card.version
        /\ [mine[r] EXCEPT !.baseline = card.version].status = mine[r].status
    BY <1>1 DEF LinkRow
  <2>3. mine[r] = seen[r]
    BY <1>1, <1>2, <2>1
  <2> QED
    BY <1>2, <2>1, <2>2, <2>3, ZenonT(30) DEF SnapshotIsTaken
<1>7. CASE SubmitForReview(r)
  <2> DEFINE row == [mine[r] EXCEPT !.status = "submitted", !.canEdit = FALSE,
                                    !.summary = card.version]
  <2>1. LockCard(r, "submit", row, card)
    BY <1>7 DEF SubmitForReview
  <2>2. row.baseline = mine[r].baseline /\ row.summary = card.version
    BY <1>1 DEF LinkRow
  <2>3. mine[r] = seen[r]
    BY <1>1, <1>2, <2>1
  <2> QED
    BY <1>2, <2>1, <2>2, <2>3 DEF SnapshotIsTaken
<1>8. CASE EditCardField(r) \/ UploadAttachment(r)
  <2>1. PICK row, cardRow :
          /\ LockCard(r, op[r], row, cardRow) /\ op[r] # "create"
          /\ row.baseline = mine[r].baseline /\ row.status = mine[r].status
    <3>1. /\ [mine[r] EXCEPT !.used = @ + 1].baseline = mine[r].baseline
          /\ [mine[r] EXCEPT !.used = @ + 1].status = mine[r].status
          /\ [mine[r] EXCEPT !.uploads = @ + 1].baseline = mine[r].baseline
          /\ [mine[r] EXCEPT !.uploads = @ + 1].status = mine[r].status
      BY <1>1 DEF LinkRow
    <3>2. \E cardRow :
            \/ /\ LockCard(r, "edit", [mine[r] EXCEPT !.used = @ + 1], cardRow)
               /\ op[r] = "edit"
            \/ /\ LockCard(r, "upload", [mine[r] EXCEPT !.uploads = @ + 1], cardRow)
               /\ op[r] = "upload"
      BY <1>8, <1>2 DEF EditCardField, UploadAttachment
    <3> QED
      BY <3>1, <3>2
  <2>2. mine[r] = seen[r]
    BY <1>1, <1>2, <2>1
  <2> QED
    BY <1>2, <2>1, <2>2 DEF SnapshotIsTaken
<1>9. CASE StaffEdit(r) \/ SetPublicEdit(r) \/ Dismiss(r) \/ Archive(r)
  <2>1. PICK cardRow : LockCard(r, op[r], mine[r], cardRow) /\ op[r] # "create"
    BY <1>9, <1>2 DEF StaffEdit, SetPublicEdit, Dismiss, Archive
  <2>2. mine[r] = seen[r]
    BY <1>1, <1>2, <2>1
  <2> QED
    BY <1>2, <2>1, <2>2 DEF SnapshotIsTaken
<1> QED
  BY <1>3, <1>4, <1>5, <1>6, <1>7, <1>8, <1>9 DEF CardStep

\* Every step keeps it so of every request.
LEMMA SnapshotsStep ==
  ASSUME TypeOK, Consistent, \A r \in Requests : SnapshotIsTaken(r), [Next]_vars
  PROVE  \A r \in Requests : SnapshotIsTaken(r)'
<1>1. CASE UNCHANGED vars \/ Tick
  BY <1>1, UntouchedStaysTaken DEF vars, Tick, locks, request
<1>2. ASSUME NEW r \in Requests, NEW s \in Requests, s # r, Begin(r) \/ Step(r) \/ Fail(r)
      PROVE  SnapshotIsTaken(s)'
  <2>1. /\ pc'[s] = pc[s] /\ seen'[s] = seen[s] /\ mine'[s] = mine[s]
        /\ mineCard'[s] = mineCard[s]
        /\ cardLock = s => cardLock' = s
    <3>1. CASE CardStep(r)
      <4>1. PICK o, row, cardRow : LockCard(r, o, row, cardRow)
        BY <3>1, CardStepHasShape DEF CardStepShape
      <4> QED
        BY <1>2, <4>1, ConstantsAssumption DEF LockCard, Goto, TypeOK
    <3>2. CASE Commit(r) \/ Fail(r)
      BY <1>2, <3>2 DEF Commit, Fail, Rollback, Release, TypeOK
    <3>3. CASE Begin(r) \/ ReadLink(r) \/ FlushExpiry(r) \/ UpdateLink(r) \/ LockLink(r)
      BY <1>2, <3>3 DEF Begin, ReadLink, FlushExpiry, UpdateLink, LockLink, Rollback, Release, Goto, TypeOK,
                        locks
    <3> QED
      BY <1>2, <3>1, <3>2, <3>3 DEF Step
  <2> QED
    BY <2>1, UntouchedStaysTaken
<1>3. ASSUME NEW r \in Requests, Begin(r) \/ Step(r) \/ Fail(r) PROVE SnapshotIsTaken(r)'
  <2>1. \A row \in LinkRow : /\ Expired(row).baseline = row.baseline
                             /\ Expired(row).status = "expired"
    BY DEF Expired, LinkRow
  <2>2. CASE Begin(r) \/ Rollback(r) \/ Commit(r) \/ Fail(r)
    <3>1. pc'[r] \in {"idle", "read", "card", "link"}
      BY <2>2 DEF Begin, Commit, Fail, Rollback, Release, Goto, FirstStep, TypeOK
    <3> QED
      BY <3>1 DEF SnapshotIsTaken
  <2>3. CASE ReadLink(r)
    <3>1. CASE /\ seen' = [seen EXCEPT ![r] = link[target[r]]]
               /\ mine' = [mine EXCEPT ![r] = Expired(link[target[r]])]
               /\ Goto(r, "flush")
      BY <2>1, <3>1 DEF SnapshotIsTaken, Goto, TypeOK
    <3>2. CASE Goto(r, "link")
      BY <3>2 DEF SnapshotIsTaken, Goto, TypeOK
    <3> QED
      BY <2>2, <2>3, <3>1, <3>2 DEF ReadLink
  <2>4. CASE FlushExpiry(r) \/ UpdateLink(r)
    <3>1. /\ pc[r] \in {"flush", "update", "expire"} /\ pc'[r] \in {"update", "commit"}
          /\ seen'[r] = seen[r] /\ mine'[r] = mine[r]
      BY <2>4 DEF FlushExpiry, UpdateLink, Goto, TypeOK
    <3>2. mine[r].status = "expired"
      BY <3>1 DEF Consistent, MoveIsAllowed
    <3> QED
      BY <3>1, <3>2 DEF SnapshotIsTaken
  <2>5. CASE LockLink(r)
    <3>1. CASE Rollback(r)
      BY <2>2, <3>1
    <3>2. CASE ~Rollback(r)
      <4>1. \/ pc'[r] = "card"
            \/ /\ seen'[r] = link[target[r]] /\ mine'[r] = Expired(link[target[r]])
               /\ pc'[r] = "expire"
        BY <2>5, <3>2 DEF LockLink, Goto, TypeOK
      <4>2. link[target[r]] \in LinkRow
        BY DEF TypeOK
      <4> QED
        BY <2>1, <4>1, <4>2 DEF SnapshotIsTaken
    <3> QED
      BY <3>1, <3>2
  <2> QED
    BY <1>3, <2>2, <2>3, <2>4, <2>5, CardStepTakes DEF Step
<1> QED
  BY <1>1, <1>2, <1>3 DEF Next

\* The baseline of a review and the summary of a submission are of the card as
\* their commits leave it, however many writes wait for the card meanwhile.
THEOREM SnapshotsStayExact == Spec => SnapshotsAreExact
<1> DEFINE Taken == \A r \in Requests : SnapshotIsTaken(r)
<1>1. Init => Taken
  BY DEF Init, SnapshotIsTaken
<1>2. TypeOK /\ Consistent /\ Taken /\ [Next]_vars => Taken'
  BY SnapshotsStep
<1>3. ASSUME TypeOK, Consistent, Taken, [Next]_vars, NEW l \in Links
      PROVE  /\ link'[l].baseline \in {link[l].baseline, card'.version}
             /\ link[l].status # "submitted" /\ link'[l].status = "submitted" =>
                  link'[l].summary = card'.version
  <2>1. CASE link' = link
    BY <2>1
  <2>2. ASSUME NEW r \in Requests, Commit(r), target[r] = l
        PROVE  /\ link'[l].baseline \in {link[l].baseline, card'.version}
               /\ link[l].status # "submitted" /\ link'[l].status = "submitted" =>
                    link'[l].summary = card'.version
    <3>1. /\ link'[l].baseline = Column(link[l].baseline, seen[r].baseline, mine[r].baseline)
          /\ link'[l].status = Column(link[l].status, seen[r].status, mine[r].status)
          /\ link'[l].summary = Column(link[l].summary, seen[r].summary, mine[r].summary)
          /\ cardLock = r => card' = mineCard[r]
      <4>1. /\ link' = [link EXCEPT ![l] = Updated(link[l], seen[r], mine[r])]
            /\ cardLock = r => card' = mineCard[r]
        BY <2>2 DEF Commit
      <4>2. link'[l] = Updated(link[l], seen[r], mine[r])
        BY <1>3, <4>1 DEF TypeOK
      <4> QED
        BY <4>1, <4>2 DEF Updated
    <3>2. SnapshotIsTaken(r) /\ MoveIsAllowed(r) /\ pc[r] = "commit"
      BY <1>3, <2>2 DEF Consistent, Commit
    <3>3. link'[l].baseline \in {link[l].baseline, card'.version}
      BY <3>1, <3>2 DEF Column, SnapshotIsTaken
    <3>4. ASSUME link[l].status # "submitted", link'[l].status = "submitted"
          PROVE  link'[l].summary = card'.version
      <4>1. /\ mine[r].status = "submitted" /\ seen[r].status # "submitted"
        BY <3>1, <3>4 DEF Column
      <4>2. mine[r].summary = card'.version
        BY <3>1, <3>2, <4>1 DEF SnapshotIsTaken
      <4>3. UsingLink(r)
        <5>1. op[r] \notin CardOps
          BY <1>3, <3>2, <4>1 DEF Consistent
        <5>2. op[r] # "create"
          BY <3>2, <4>1 DEF MoveIsAllowed
        <5> QED
          BY <3>2, <5>1, <5>2
      <4>4. seen[r] = link[l]
        BY <2>2, <3>2, <4>1, <4>3 DEF MoveIsAllowed
      <4> QED
        BY <3>1, <4>2, <4>4 DEF Column
    <3> QED
      BY <3>3, <3>4
  <2>3. \/ link' = link
        \/ \E r \in Requests : Commit(r)
    <3>1. ASSUME NEW r \in Requests, CardStep(r) PROVE link' = link
      BY <1>3, <3>1, CardStepHasShape DEF CardStepShape, LockCard, rows
    <3> QED
      BY <1>3, <3>1 DEF Next, Step, vars, Begin, ReadLink, FlushExpiry, UpdateLink, LockLink, Fail,
                        Rollback, Tick, rows
  <2>4. ASSUME NEW r \in Requests, Commit(r), target[r] # l PROVE link'[l] = link[l]
    BY <1>3, <2>4 DEF Commit, TypeOK
  <2> QED
    BY <2>1, <2>2, <2>3, <2>4
<1>4. TypeOK /\ Consistent /\ Taken /\ [Next]_vars =>
        [\A l \in Links :
           /\ link'[l].baseline \in {link[l].baseline, card'.version}
           /\ link[l].status # "submitted" /\ link'[l].status = "submitted" =>
                link'[l].summary = card'.version]_vars
  BY <1>3
<1> QED
  BY <1>1, <1>2, <1>4, TypeCorrect, AlwaysConsistent, PTL DEF Spec, SnapshotsAreExact

=============================================================================
