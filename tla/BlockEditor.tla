----------------------------- MODULE BlockEditor -----------------------------
(***************************************************************************)
(* Editing a card in place in the browser (useBlockEditor.ts, its callers  *)
(* in FilledCardLayout.tsx and CardsWorkspace.tsx).  One user, who edits   *)
(* fields of the card on screen in a session: of one field, saved when the *)
(* field loses focus, while the card is a draft; of one block, saved with  *)
(* a basis when the user says so, once it was activated.  A save is sent   *)
(* in the background; the user goes on and may open another field, close   *)
(* the editor or leave the card before the answer, which may be lost.      *)
(*                                                                         *)
(* Rows of repeatable blocks, the date of a change, labels and the errors  *)
(* that are shown are left out; what other users write is not read by an   *)
(* open session and is left out too.                                       *)
(***************************************************************************)
EXTENDS Naturals, Sequences

CONSTANTS
  Cards, Fields,
  BlockOf,      \* the block of each field
  Immediate,    \* fields that are saved at once, without losing focus
  Withdrawn,    \* bound: fields that may stop being offered
  Values,       \* what a field can hold or be given
  Invalid,      \* values the client refuses to send
  Stored,       \* what every field holds at first
  NoSession,
  MaxSessions,  \* bound: fields that are opened
  MaxTyped,     \* bound: changes of a value
  MaxSaves      \* bound: requests

SomeValues == UNION {[fields -> Values] : fields \in SUBSET Fields}

\* The editor of some fields, and another that is to be opened after it
Sessions(others) ==
  [id : Nat, block : {BlockOf[f] : f \in Fields}, initial : SomeValues, values : SomeValues,
   basis : BOOLEAN, pending : BOOLEAN, next : others, closing : BOOLEAN, due : BOOLEAN]
AllSessions == Sessions(Sessions({NoSession}) \cup {NoSession})

ASSUME EditorAssumption ==
  /\ Immediate \subseteq Fields /\ Withdrawn \subseteq Fields
  /\ Invalid \subseteq Values /\ Stored \in Values \ Invalid
  /\ NoSession \notin Sessions({NoSession}) /\ NoSession \notin AllSessions
  /\ MaxSessions \in Nat /\ MaxTyped \in Nat /\ MaxSaves \in Nat

VARIABLES
  cells,      \* for each card and field the stored value, and the session that sent it
  cached,     \* the values of the cards as the client last read them
  needBasis, \* the cards that have been activated, as the client knows
  editable,  \* the fields it offers for editing
  onScreen,  \* the card on screen
  session,   \* the editor, if a field is open
  posts,     \* the requests sent, with what the server and the client know of them
  leaving,   \* the dialog shown before a dirty block is left
  opened, typed

editorVars == <<cells, cached, needBasis, editable, onScreen, session, posts, leaving, opened, typed>>

IsOpen == session # NoSession
IsPending == IF IsOpen THEN session.pending ELSE FALSE
NeedsBasis == onScreen \in needBasis
IsDirty(f) == session.values[f] # session.initial[f]
Dirty == \E f \in DOMAIN session.values : IsDirty(f)

\* createSession of fields of one block
Created(fields, block) ==
  LET initial == [f \in fields |-> cached[onScreen][f]]
  IN [id |-> opened + 1, block |-> block, initial |-> initial, values |-> initial,
      basis |-> FALSE, pending |-> FALSE, next |-> NoSession,
      closing |-> FALSE, due |-> FALSE]

EditorInit(card) ==
  /\ cells = [c \in Cards |-> [f \in Fields |-> [value |-> Stored, by |-> 0]]]
  /\ cached = [c \in Cards |-> [f \in Fields |-> Stored]]
  /\ needBasis = {} /\ editable = Fields
  /\ onScreen = card
  /\ session = NoSession /\ posts = <<>> /\ leaving = "no"
  /\ opened = 0 /\ typed = 0

-----------------------------------------------------------------------------
(* The user *)

\* The dialog covers the card.
Works == leaving = "no"

\* openField: a dirty field is saved first; a dirty or pending block stays.
OpenField(f) ==
  /\ Works /\ f \in editable /\ opened < MaxSessions
  /\ LET fields == IF NeedsBasis THEN {g \in editable : BlockOf[g] = BlockOf[f]} ELSE {f}
         new == Created(fields, BlockOf[f])
     IN \/ /\ IF IsOpen THEN ~Dirty ELSE TRUE
           /\ NeedsBasis /\ IsOpen => session.block # new.block
           /\ session' = new
        \/ /\ IsOpen /\ ~NeedsBasis
           /\ Dirty /\ f \notin DOMAIN session.values
           /\ session' = [session EXCEPT !.next = new, !.due = TRUE]
  /\ opened' = opened + 1
  /\ UNCHANGED <<cells, cached, needBasis, editable, onScreen, posts, leaving, typed>>

Edited(new) ==
  /\ session' = new
  /\ UNCHANGED <<cells, cached, needBasis, editable, onScreen, posts, leaving, opened>>

\* Mutant: a value is taken while a save is pending.
TypeValueWhilePending(f, v) ==
  /\ Works /\ IsOpen /\ typed < MaxTyped
  /\ f \in DOMAIN session.values /\ v # session.values[f]
  /\ Edited([session EXCEPT !.values[f] = v, !.due = ~NeedsBasis /\ f \in Immediate])
  /\ typed' = typed + 1

\* updateAndSave: what is typed while a save is pending is dropped.
TypeValue(f, v) ==
  /\ Works /\ IsOpen /\ typed < MaxTyped
  /\ ~session.pending /\ f \in DOMAIN session.values /\ v # session.values[f]
  /\ Edited([session EXCEPT !.values[f] = v, !.due = ~NeedsBasis /\ f \in Immediate])
  /\ typed' = typed + 1

\* flushPendingSave
Blur ==
  /\ Works /\ IsOpen /\ ~NeedsBasis
  /\ ~session.pending /\ Dirty
  /\ Edited([session EXCEPT !.due = TRUE]) /\ UNCHANGED typed

\* setBasisText
WriteBasis(written) ==
  /\ Works /\ IsOpen /\ NeedsBasis /\ ~session.pending
  /\ Edited([session EXCEPT !.basis = written]) /\ UNCHANGED typed

\* commitAndClose, by its button or by a pointer outside of all fields
CommitAndClose ==
  /\ Works /\ IsOpen /\ UNCHANGED typed
  /\ \/ /\ ~NeedsBasis /\ session.pending
        /\ Edited([session EXCEPT !.closing = TRUE])
     \/ ~NeedsBasis /\ ~Dirty /\ Edited(NoSession)
     \/ /\ NeedsBasis => session.basis
        /\ ~session.pending /\ Dirty
        /\ Edited([session EXCEPT !.closing = TRUE, !.next = NoSession, !.due = TRUE])

\* cancel: by the button of a block, or to open a calculator
Cancel == /\ Works /\ IsOpen /\ ~session.pending
          /\ NeedsBasis \/ ~Dirty
          /\ Edited(NoSession) /\ UNCHANGED typed

\* The tab is closed: a dirty editor is discarded, also while it is saved.
DiscardTab == /\ Works /\ IsOpen /\ Dirty
              /\ Edited(NoSession) /\ UNCHANGED typed

Unsaved == UNCHANGED <<cells, cached, needBasis, editable, posts, opened, typed>>

\* requestCardNavigation
Leave(c) ==
  /\ Works /\ c # onScreen /\ Unsaved
  /\ IF NeedsBasis /\ IsOpen /\ Dirty
     THEN leaving' = "asked" /\ UNCHANGED <<onScreen, session>>
     ELSE onScreen' = c /\ session' = NoSession /\ UNCHANGED leaving

Stay == /\ leaving = "asked" /\ ~IsPending
        /\ leaving' = "no"
        /\ Unsaved /\ UNCHANGED <<onScreen, session>>

DiscardAndLeave(c) ==
  /\ leaving = "asked" /\ ~IsPending
  /\ leaving' = "no" /\ onScreen' = c /\ session' = NoSession /\ Unsaved

-----------------------------------------------------------------------------
(* Saving *)

\* What save sends: the dirty fields the client still offers
Changed == {f \in DOMAIN session.values \cap editable : IsDirty(f)}
Refused == {f \in Changed : session.values[f] \in Invalid}

LacksBasis == NeedsBasis /\ ~session.basis

\* The editor as save leaves it before a request is answered
Saving == IF LacksBasis THEN session
          ELSE IF Refused # {} THEN [session EXCEPT !.due = FALSE]
          ELSE IF Changed = {} THEN session.next
          ELSE [session EXCEPT !.pending = TRUE]

IsSent == ~LacksBasis /\ Refused = {} /\ Changed # {}
IsNothing == ~LacksBasis /\ Changed = {}

\* saveValues: one request for the card on screen
Post == [by |-> session.id, card |-> onScreen, values |-> [f \in Changed |-> session.values[f]],
            skipped |-> {f \in DOMAIN session.values \ Changed : IsDirty(f)},
            served |-> "no", answer |-> "none"]

Send == IF IsSent THEN Len(posts) < MaxSaves /\ posts' = Append(posts, Post)
                  ELSE UNCHANGED posts

\* The timer of an automatic save, which waits for no time
Save ==
  /\ IsOpen /\ Dirty /\ ~session.pending /\ session.due
  /\ Send /\ session' = Saving
  /\ UNCHANGED <<cells, cached, needBasis, editable, onScreen, leaving, opened, typed>>

\* The dialog's "save and go": the card is left once the save has succeeded.
SaveAndLeave(c) ==
  /\ leaving = "asked" /\ IsOpen /\ ~session.pending /\ session.basis
  /\ c # onScreen /\ Send
  /\ IF IsNothing THEN session' = NoSession /\ onScreen' = c /\ leaving' = "no"
                  ELSE /\ session' = Saving /\ UNCHANGED onScreen
                       /\ leaving' = IF IsSent THEN "saving" ELSE leaving
  /\ UNCHANGED <<cells, cached, needBasis, editable, opened, typed>>

\* PATCH of the values of a card: all of them or none
ServePost(i, stored) ==
  /\ posts[i].served = "no"
  /\ posts' = [posts EXCEPT ![i].served = IF stored THEN "stored" ELSE "refused"]
  /\ cells' = IF stored
               THEN [cells EXCEPT ![posts[i].card] =
                       [f \in Fields |-> IF f \in DOMAIN posts[i].values
                                         THEN [value |-> posts[i].values[f], by |-> posts[i].by]
                                         ELSE @[f]]]
               ELSE cells
  /\ UNCHANGED <<cached, needBasis, editable, onScreen, session, leaving, opened, typed>>

\* Mutant: an answer is taken by any session that is open.
IsAboutAny(i) == IsOpen

IsAbout(i) == IsOpen /\ session.id = posts[i].by

ValuesOf(c) == [f \in Fields |-> cells[c][f].value]

\* The editor after its save has succeeded
AfterSave == IF session.next # NoSession THEN session.next
             ELSE IF session.closing THEN NoSession
             ELSE [session EXCEPT !.initial = session.values, !.pending = FALSE,
                                  !.due = FALSE]

\* The answer to a save that was stored.  The client reads the card again
\* before it goes on, or fails to.
PostSucceeds(i, c, again) ==
  /\ posts[i].served = "stored" /\ posts[i].answer = "none"
  /\ posts' = [posts EXCEPT ![i].answer = "told"]
  /\ cached' = IF again THEN [cached EXCEPT ![posts[i].card] = ValuesOf(posts[i].card)] ELSE cached
  /\ IF IsAbout(i) /\ leaving = "saving"
     THEN onScreen' = c /\ c # onScreen /\ session' = NoSession /\ leaving' = "no"
     ELSE /\ c = onScreen /\ UNCHANGED <<onScreen, leaving>>
          /\ session' = IF IsAbout(i) THEN AfterSave ELSE session
  /\ UNCHANGED <<cells, needBasis, editable, opened, typed>>

\* A save that was refused, or whose answer is lost, whatever becomes of it
PostFails(i) ==
  /\ posts[i].answer = "none"
  /\ posts' = [posts EXCEPT ![i].answer = "failed"]
  /\ session' = IF IsAbout(i) THEN [session EXCEPT !.pending = FALSE, !.due = FALSE]
                              ELSE session
  /\ leaving' = IF IsAbout(i) /\ leaving = "saving" THEN "asked" ELSE leaving
  /\ UNCHANGED <<cells, cached, needBasis, editable, onScreen, opened, typed>>

\* The client reads the cards again: another value, a card that has been
\* activated, a field it may not edit any more, or all of them again.
Refetch ==
  /\ cached' = [cached EXCEPT ![onScreen] = ValuesOf(onScreen)]
  /\ needBasis' \in {needBasis, needBasis \cup {onScreen}}
  /\ editable' \in {editable, Fields} \cup {editable \ {f} : f \in Withdrawn}
  /\ UNCHANGED <<cells, onScreen, session, posts, leaving, opened, typed>>

EditorNext ==
  \/ \E f \in Fields : OpenField(f) \/ \E v \in Values : TypeValue(f, v)
  \/ Blur \/ CommitAndClose \/ Cancel \/ DiscardTab \/ Stay \/ Save \/ Refetch
  \/ \E written \in BOOLEAN : WriteBasis(written)
  \/ \E c \in Cards : \/ Leave(c) \/ DiscardAndLeave(c) \/ SaveAndLeave(c)
  \/ \E i \in DOMAIN posts : \/ \E stored \in BOOLEAN : ServePost(i, stored)
                             \/ \E c \in Cards, again \in BOOLEAN : PostSucceeds(i, c, again)
                             \/ PostFails(i)

EditorSpec == (\E card \in Cards : EditorInit(card)) /\ [][EditorNext]_editorVars

-----------------------------------------------------------------------------
(* Properties *)

IsEdit(f) == IsOpen /\ f \in DOMAIN session.values /\ IsDirty(f)

IsKept(f) == /\ session' # NoSession /\ session'.id = session.id
             /\ session'.values[f] = session.values[f]
             /\ session'.initial[f] = session.initial[f]

GivesUp == DiscardTab \/ Cancel \/ \E c \in Cards : Leave(c) \/ DiscardAndLeave(c)

WasStored(f) == \E i \in DOMAIN posts : /\ posts[i].by = session.id
                                        /\ posts[i].served = "stored"
                                        /\ f \in DOMAIN posts[i].values
                                        /\ posts[i].values[f] = session.values[f]

WasSkipped(f) == \E i \in DOMAIN posts : posts[i].by = session.id /\ f \in posts[i].skipped

\* What a user typed stays in the editor until another value is typed, the
\* user gives it up or a save that sent it was stored, whatever is opened,
\* closed, refused or answered late in between; unless the field was not
\* offered any more when it was to be sent.
EditsAreKept ==
  [][\A f \in Fields : IsEdit(f) /\ ~IsKept(f) =>
       \/ GivesUp \/ \E v \in Values : TypeValue(f, v)
       \/ WasStored(f) \/ WasSkipped(f) \/ f \notin editable]_editorVars

\* A field that is shown as saved holds what its session sent last, unless a
\* save it believes to have failed was stored, or left the field out.
CleanIsStored ==
  IsOpen => \A f \in DOMAIN session.values :
    \/ IsDirty(f) \/ WasSkipped(f)
    \/ cells[onScreen][f].by = session.id => cells[onScreen][f].value = session.values[f]
    \/ \E i \in DOMAIN posts : /\ posts[i].by = session.id
                               /\ posts[i].answer = "failed" /\ posts[i].served = "stored"
=============================================================================
