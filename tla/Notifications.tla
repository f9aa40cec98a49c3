----------------------------- MODULE Notifications -----------------------------
(***************************************************************************)
(* History events of cards, the notifications made of them for those who   *)
(* subscribed to a card or to a public link, and their retention           *)
(* (services/audit.py, services/card_change_notifications.py,              *)
(* cli/audit_retention.py).                                                *)
(*                                                                         *)
(* A save holds the row of its card until it commits.  Its events are      *)
(* written one by one; subscribers are looked up for each event after the  *)
(* last one of a bulk save, or right after the only one of another save,   *)
(* and what is found is grouped by recipient.  Subscriptions are looked up *)
(* without a lock and are unique in the table.                             *)
(*                                                                         *)
(* Left out: the wording of changes, which hides fields that are not       *)
(* normal; technical events; events of status changes, which tell nobody.  *)
(***************************************************************************)
EXTENDS Naturals, FiniteSets, Sequences

CONSTANTS
  Readers,                \* users
  Folders,                \* cards
  Shares, FolderOf, Author,  \* public links, the card of each, and who created it
  Clerks,                 \* requests
  MaxSaves, MaxFields, MaxToggles,  \* bounds: saves, events of one, other changes
  NoShare

ASSUME NotificationAssumption ==
  /\ FolderOf \in [Shares -> Folders] /\ Author \in [Shares -> Readers]
  /\ {MaxSaves, MaxFields, MaxToggles} \subseteq Nat /\ NoShare \notin Shares

VARIABLES
  subs,     \* subscriptions: [user, on], on a card or a link
  sees,     \* the cards each user may see
  history,  \* events that are committed: [save, n, old]
  inbox,    \* notifications that are committed: [save, user, folder, changes, read]
  desk,     \* what each request is doing
  steady,   \* subscriptions there ever since the save of a request began
  ever,     \* those that have been there since
  saves, toggles

noticeVars == <<subs, sees, history, inbox, desk, steady, ever, saves, toggles>>

Resting == [doing |-> "nothing"]
Targets == Folders \cup Shares

NoticeInit ==
  /\ subs \in SUBSET {[user |-> u, on |-> x] : u \in Readers, x \in Folders}
  /\ sees = [u \in Readers |-> Folders]
  /\ history = {} /\ inbox = {} /\ saves = 0 /\ toggles = 0
  /\ desk = [p \in Clerks |-> Resting]
  /\ steady = [p \in Clerks |-> {}] /\ ever = [p \in Clerks |-> {}]

Goes(p, to) == desk' = [desk EXCEPT ![p] = to]

-----------------------------------------------------------------------------
(* A save *)

\* record_user_event and record_public_link_event: an event through a link is
\* attributed to the author of the link, whoever the guest is.
EffectiveActor(actor, share) == IF share = NoShare THEN actor ELSE Author[share]

\* set_field_values_for_actor, with one event for each field, or a change
\* with one event, by a user or through a link; the row of the card is locked.
BeginSave(p) == \E a \in Readers, x \in Folders, s \in Shares \cup {NoShare}, n \in 1..MaxFields :
  /\ desk[p] = Resting /\ saves < MaxSaves
  /\ s = NoShare => x \in sees[a]
  /\ s # NoShare => FolderOf[s] = x /\ n = 1 /\ a = Author[s]
  /\ \A q \in Clerks : desk[q].doing = "saves" => desk[q].folder # x
  /\ saves' = saves + 1
  /\ Goes(p, [doing |-> "saves", id |-> saves + 1, folder |-> x, share |-> s, total |-> n,
              actor |-> EffectiveActor(a, s), events |-> 0, told |-> 0, found |-> <<>>])
  /\ UNCHANGED <<subs, sees, history, inbox, toggles>>

\* _record; the event joins notification_batch.
WriteEvent(p) ==
  /\ desk[p].doing = "saves" /\ desk[p].events < desk[p].total
  /\ Goes(p, [desk[p] EXCEPT !.events = @ + 1])
  /\ UNCHANGED <<subs, sees, history, inbox, saves, toggles>>

\* Mutant: whoever saved is told as well.
RecipientsAll(work) == {s.user : s \in {s \in subs : s.on \in {work.folder, work.share}}}

\* The users to be told of an event: a set, so none of them twice
Recipients(work) ==
  {s.user : s \in {s \in subs : s.on \in {work.folder, work.share}}} \ {work.actor}

\* record_card_history_events: one event of the batch
Tell(p) ==
  LET work == desk[p]
      n == work.told + 1
  IN /\ work.doing = "saves" /\ work.events = work.total /\ work.told < work.total
     /\ Goes(p, [work EXCEPT !.told = n,
          !.found = Append(@, Recipients(work))])
     /\ UNCHANGED <<subs, sees, history, inbox, saves, toggles>>

\* grouped_changes: a notification for each recipient, with the events that
\* found it subscribed
Notices(work) ==
  {[save |-> work.id, user |-> u, folder |-> work.folder, read |-> FALSE, old |-> FALSE,
    changes |-> {n \in DOMAIN work.found : u \in work.found[n]}] :
   u \in UNION {work.found[n] : n \in DOMAIN work.found}}

CommitSave(p) ==
  /\ desk[p].doing = "saves" /\ desk[p].told = desk[p].total
  /\ history' = history \cup {[save |-> desk[p].id, n |-> n, old |-> FALSE] : n \in 1..desk[p].total}
  /\ inbox' = inbox \cup Notices(desk[p])
  /\ Goes(p, Resting)
  /\ UNCHANGED <<subs, sees, saves, toggles>>

\* A value is refused, a statement or a commit fails: the unique index of
\* subscriptions, a notification that has been deleted.
EndDesk(p) ==
  /\ desk[p] # Resting /\ Goes(p, Resting)
  /\ UNCHANGED <<subs, sees, history, inbox, saves, toggles>>

-----------------------------------------------------------------------------
(* Subscriptions and the inbox *)

Toggles == toggles < MaxToggles /\ toggles' = toggles + 1

\* _require_card_visibility, _require_public_link_creator
MaySubscribe(u, x) == IF x \in Shares THEN Author[x] = u ELSE x \in sees[u]

\* set_card_subscription_for_actor, set_public_link_subscription_for_creator;
\* asking for what is there already changes nothing.
BeginToggle(p) == \E u \in Readers, x \in Targets, enabled \in BOOLEAN :
  /\ desk[p] = Resting /\ MaySubscribe(u, x)
  /\ enabled # ([user |-> u, on |-> x] \in subs)
  /\ Goes(p, [doing |-> IF enabled THEN "subscribes" ELSE "unsubscribes",
              sub |-> [user |-> u, on |-> x]])
  /\ Toggles /\ UNCHANGED <<subs, sees, history, inbox, saves>>

CommitToggle(p) ==
  /\ \/ /\ desk[p].doing = "subscribes" /\ desk[p].sub \notin subs
        /\ subs' = subs \cup {desk[p].sub}
     \/ /\ desk[p].doing = "unsubscribes" /\ subs' = subs \ {desk[p].sub}
  /\ Goes(p, Resting)
  /\ UNCHANGED <<sees, history, inbox, saves, toggles>>

\* list_for_actor; _visible_notification_card_criteria
Listed(u) == {m \in inbox : m.user = u /\ m.folder \in sees[u]}

\* mark_read_for_actor of one, mark_all_read_for_actor of all that are listed
BeginRead(p) == \E u \in Readers :
  /\ desk[p] = Resting
  /\ LET unread == {m \in Listed(u) : ~m.read}
     IN \E those \in {{m} : m \in unread} \cup ({unread} \ {{}}) :
          Goes(p, [doing |-> "reads", those |-> {[save |-> m.save, user |-> u] : m \in those}])
  /\ Toggles /\ UNCHANGED <<subs, sees, history, inbox, saves>>

\* An update of a row that is gone fails.
CommitRead(p) ==
  /\ desk[p].doing = "reads"
  /\ LET isRead(m) == [save |-> m.save, user |-> m.user] \in desk[p].those
     IN /\ Cardinality({m \in inbox : isRead(m)}) = Cardinality(desk[p].those)
        /\ inbox' = {IF isRead(m) THEN [m EXCEPT !.read = TRUE] ELSE m : m \in inbox}
  /\ Goes(p, Resting)
  /\ UNCHANGED <<subs, sees, history, saves, toggles>>

-----------------------------------------------------------------------------
(* Retention, and what goes on around *)

\* CARD_HISTORY_RETENTION passes for all there is.
GrowOld ==
  /\ inbox # {} /\ \E e \in history : ~e.old
  /\ history' = {[e EXCEPT !.old = TRUE] : e \in history}
  /\ inbox' = {[m EXCEPT !.old = TRUE] : m \in inbox}
  /\ UNCHANGED <<subs, sees, desk, saves, toggles>>

\* delete_expired_events and delete_expired_notifications, one transaction
Retain ==
  /\ \E e \in history : e.old
  /\ history' = {e \in history : ~e.old} /\ inbox' = {m \in inbox : ~m.old}
  /\ UNCHANGED <<subs, sees, desk, saves, toggles>>

\* A grant ends or starts.
ChangeSight ==
  /\ \E u \in Readers, x \in Folders :
       sees' = [sees EXCEPT ![u] = IF x \in @ THEN @ \ {x} ELSE @ \cup {x}]
  /\ Toggles /\ UNCHANGED <<subs, history, inbox, desk, saves>>

\* steady and ever follow the subscriptions while a save runs.
NoticeNext ==
  /\ \/ GrowOld \/ Retain \/ ChangeSight
     \/ \E p \in Clerks : \/ BeginSave(p) \/ WriteEvent(p) \/ Tell(p) \/ CommitSave(p) \/ EndDesk(p)
                          \/ BeginToggle(p) \/ CommitToggle(p) \/ BeginRead(p) \/ CommitRead(p)
  /\ steady' = [p \in Clerks |-> IF desk'[p].doing # "saves" THEN {}
                                 ELSE IF desk[p].doing = "saves" THEN steady[p] \cap subs' ELSE subs]
  /\ ever' = [p \in Clerks |-> IF desk'[p].doing # "saves" THEN {}
                               ELSE IF desk[p].doing = "saves" THEN ever[p] \cup subs' ELSE subs]

NoticeSpec == NoticeInit /\ [][NoticeNext]_noticeVars

-----------------------------------------------------------------------------
(* Properties *)

\* The notifications that a step leaves, and the requests whose save it ends
Told == {m \in inbox' : \A o \in inbox : o.save # m.save}
Savers == {p \in Clerks : desk[p].doing = "saves" /\ desk'[p] = Resting /\ history' # history}

Follows(u, those, work) == \E s \in those : s.user = u /\ s.on \in {work.folder, work.share}

\* What the save of a request leaves to a user
ToldAsDue(p, u) ==
  LET mine == {m \in Told : m.user = u}
  IN /\ Cardinality(mine) <= 1
     /\ mine # {} => Follows(u, ever[p], desk[p]) /\ u # desk[p].actor
     /\ Follows(u, steady[p], desk[p]) /\ u # desk[p].actor =>
          \E m \in mine : m.changes = 1..desk[p].total

SaveIsTold ==
  /\ Told # {} => Savers # {}
  /\ \A p \in Savers : \A u \in Readers : ToldAsDue(p, u)
  /\ \A m \in inbox' : \A n \in m.changes : \E e \in history' : e.save = m.save /\ e.n = n

\* A save leaves one notification with all of its changes to everybody who is
\* subscribed to its card, or to the link it came through, while it runs, one
\* at most to those who subscribe or leave meanwhile, none to anyone else and
\* none to whom it is attributed to; nothing else leaves notifications, and
\* each tells only what the history has.
EverySaveIsTold == [][SaveIsTold]_noticeVars
=============================================================================
