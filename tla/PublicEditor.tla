---------------------------- MODULE PublicEditor ----------------------------
(***************************************************************************)
(* The editor of one field on the page of a public link                    *)
(* (PublicFieldEditor in PublicLinkEditPage.tsx).  What is typed while the *)
(* card is a draft goes to a queue of one save; the queue is drained when  *)
(* the field loses focus, by one request after the other, also after the   *)
(* editor is gone.  Once the card was activated a change is sent with its *)
(* basis, when the user says so.                                           *)
(*                                                                         *)
(* The page takes the editor away whenever it asks for the status of the   *)
(* link again, after a refusal or when its window is shown again, and      *)
(* makes a new one from a preview it reads then.  The name of the guest,   *)
(* the date of a change and the wording of errors are left out.            *)
(***************************************************************************)
EXTENDS Naturals, Sequences

CONSTANTS
  Contents,    \* what the field can hold or be given
  Unsendable,  \* values the client refuses to send
  Empty,       \* what the field holds at first
  NoEditor, NoSave,
  MaxMounts,   \* bound: editors the page makes
  MaxStrokes,     \* bound: changes of the value
  MaxTries      \* bound: requests

\* A save that waits
Saves == [value : Contents, version : Nat]

ASSUME PublicEditorAssumption ==
  /\ NoSave \notin Saves
  /\ Unsendable \subseteq Contents /\ Empty \in Contents \ Unsendable
  /\ MaxMounts \in Nat /\ MaxStrokes \in Nat /\ MaxTries \in Nat

VARIABLES
  public,     \* the stored value, and the editor that sent it
  activated,  \* the card was activated, as the page knows
  delayed,    \* the field waits for the loss of focus
  editor,     \* the editor on the page, if there is one
  queued,     \* for each editor that was made the save that waits
  busy,       \* the editors that drain their queue
  tries,      \* the requests, with what the server and the page know of them
  focused, overtaken, \* the field has focus; the card was activated while a save waited
  mounts, strokes

publicEditorVars ==
  <<public, activated, delayed, editor, queued, busy, tries, focused, overtaken, mounts, strokes>>

OnPage == editor # NoEditor
Me == editor.id
IsSaving == editor.state = "saving"

\* PublicFieldEditor as it is mounted
Mounted(value) == [id |-> mounts + 1, raw |-> value, confirmed |-> value, basis |-> FALSE,
                   dirty |-> FALSE, state |-> "idle", latest |-> 0]

PublicEditorInit(delays) ==
  /\ public = [value |-> Empty, by |-> 0]
  /\ activated = FALSE /\ delayed = delays
  /\ editor = NoEditor /\ queued = <<>> /\ busy = {} /\ tries = <<>>
  /\ focused = FALSE /\ overtaken = FALSE
  /\ mounts = 0 /\ strokes = 0

-----------------------------------------------------------------------------
(* The queue *)

GuestRequest(e, save) == [by |-> e, value |-> save.value, version |-> save.version,
                     served |-> "no", answer |-> "none"]

\* drainSaveQueue of editor e, with save next in its queue: it runs once, and
\* takes what it finds there until there is nothing.
Drained(e, save, requests) ==
  IF e \in busy \/ save = NoSave
  THEN /\ queued' = [queued EXCEPT ![e] = save]
       /\ tries' = requests /\ UNCHANGED busy
  ELSE /\ Len(requests) < MaxTries
       /\ queued' = [queued EXCEPT ![e] = NoSave]
       /\ tries' = Append(requests, GuestRequest(e, save))
       /\ busy' = busy \cup {e}

Waits(e, save) == /\ queued' = [queued EXCEPT ![e] = save]
                  /\ UNCHANGED <<busy, tries>>

\* updateRawValue.  A control that is being saved with a basis is disabled.
GuestTypes(v) ==
  /\ OnPage /\ strokes < MaxStrokes /\ v # editor.raw
  /\ ~(activated /\ (IsSaving \/ Me \in busy))
  /\ LET typed == [editor EXCEPT !.raw = v, !.dirty = TRUE]
         version == editor.latest + 1
     IN IF activated
        THEN /\ editor' = [typed EXCEPT !.state = "idle"]
             /\ UNCHANGED <<queued, busy, tries>>
        ELSE IF v \in Unsendable
        THEN /\ editor' = [typed EXCEPT !.latest = version, !.state = "error"]
             /\ Waits(Me, NoSave)
        ELSE /\ editor' = [typed EXCEPT !.latest = version, !.state = "saving"]
             /\ LET save == [value |-> v, version |-> version]
                IN IF delayed THEN Waits(Me, save) ELSE Drained(Me, save, tries)
  /\ focused' = TRUE /\ strokes' = strokes + 1
  /\ UNCHANGED <<public, activated, delayed, overtaken, mounts>>

Focus == /\ OnPage /\ ~focused /\ focused' = TRUE
         /\ UNCHANGED <<public, activated, delayed, editor, queued, busy, tries, overtaken,
                        mounts, strokes>>

\* flushPendingSave
LosesFocus ==
  /\ OnPage /\ focused /\ focused' = FALSE
  /\ IF activated THEN UNCHANGED <<queued, busy, tries>> ELSE Drained(Me, queued[Me], tries)
  /\ UNCHANGED <<public, activated, delayed, editor, overtaken, mounts, strokes>>

Edits == /\ OnPage /\ activated /\ editor.dirty /\ ~IsSaving
         /\ UNCHANGED <<public, activated, delayed, focused, overtaken, mounts, strokes>>

GuestWritesBasis == /\ Edits
              /\ editor' = [editor EXCEPT !.basis = ~editor.basis]
              /\ UNCHANGED <<queued, busy, tries>>

\* saveExplicitChange
GuestSaves ==
  /\ Edits /\ editor.basis /\ Me \notin busy
  /\ IF editor.raw \in Unsendable
     THEN editor' = [editor EXCEPT !.state = "error"] /\ UNCHANGED <<queued, busy, tries>>
     ELSE LET version == editor.latest + 1
          IN /\ editor' = [editor EXCEPT !.latest = version, !.state = "saving"]
             /\ Drained(Me, [value |-> editor.raw, version |-> version], tries)

\* The button that cancels a change
GuestRestores == /\ Edits
           /\ editor' = [editor EXCEPT !.raw = editor.confirmed, !.basis = FALSE,
                                       !.dirty = FALSE, !.state = "idle"]
           /\ UNCHANGED <<queued, busy, tries>>

-----------------------------------------------------------------------------
(* The server and the page *)

\* PATCH of the value of a field through the link
ServeGuest(i, stored) ==
  /\ tries[i].served = "no"
  /\ tries' = [tries EXCEPT ![i].served = IF stored THEN "stored" ELSE "refused"]
  /\ public' = IF stored THEN [value |-> tries[i].value, by |-> tries[i].by] ELSE public
  /\ UNCHANGED <<activated, delayed, editor, queued, busy, focused, overtaken, mounts, strokes>>

\* Mutant: the version of a save is not compared.
IsLatestOfAny(i) == /\ OnPage /\ Me = tries[i].by
                    /\ queued[Me] = NoSave

\* The answer is about what the field shows.
IsLatest(i) == /\ OnPage /\ Me = tries[i].by
               /\ tries[i].version = editor.latest /\ queued[Me] = NoSave

\* The drain of an editor goes on after an answer, or ends.
GoesOn(i, answer) ==
  LET e == tries[i].by
      requests == [tries EXCEPT ![i].answer = answer]
  IN IF queued[e] = NoSave
     THEN tries' = requests /\ busy' = busy \ {e} /\ UNCHANGED queued
     ELSE /\ Len(requests) < MaxTries
          /\ tries' = Append(requests, GuestRequest(e, queued[e]))
          /\ queued' = [queued EXCEPT ![e] = NoSave] /\ UNCHANGED busy

ConfirmGuest(i) ==
  /\ tries[i].served = "stored" /\ tries[i].answer = "none"
  /\ GoesOn(i, "told")
  /\ editor' = IF IsLatest(i)
               THEN [editor EXCEPT !.state = "saved", !.dirty = FALSE, !.basis = FALSE,
                                   !.confirmed = tries[i].value]
               ELSE editor
  /\ UNCHANGED <<public, activated, delayed, focused, overtaken, mounts, strokes>>

\* A refusal, or an answer that was lost, whatever becomes of the request
FailGuest(i) ==
  /\ tries[i].answer = "none"
  /\ GoesOn(i, "failed")
  /\ editor' = IF IsLatest(i) THEN [editor EXCEPT !.state = "error"] ELSE editor
  /\ UNCHANGED <<public, activated, delayed, focused, overtaken, mounts, strokes>>

\* The status is asked for: the editor is taken away, its queue is not.
Unmount == /\ OnPage /\ mounts < MaxMounts /\ editor' = NoEditor
           /\ focused' = FALSE /\ overtaken' = FALSE
           /\ UNCHANGED <<public, activated, delayed, queued, busy, tries, mounts, strokes>>

Mount == /\ ~OnPage /\ editor' = Mounted(public.value)
         /\ queued' = Append(queued, NoSave) /\ mounts' = mounts + 1
         /\ activated' \in {activated, TRUE}
         /\ UNCHANGED <<public, delayed, busy, tries, focused, overtaken, strokes>>

\* A preview read after some field was saved finds the card activated.
Activate == /\ OnPage /\ ~activated /\ activated' = TRUE
            /\ overtaken' = (queued[Me] # NoSave)
            /\ UNCHANGED <<public, delayed, editor, queued, busy, tries, focused, mounts, strokes>>

PublicEditorNext ==
  \/ \E v \in Contents : GuestTypes(v)
  \/ Focus \/ LosesFocus \/ GuestWritesBasis \/ GuestSaves \/ GuestRestores
  \/ \E i \in DOMAIN tries : (\E stored \in BOOLEAN : ServeGuest(i, stored)) \/ ConfirmGuest(i) \/ FailGuest(i)
  \/ Unmount \/ Mount \/ Activate

PublicEditorSpec ==
  (\E delays \in BOOLEAN : PublicEditorInit(delays)) /\ [][PublicEditorNext]_publicEditorVars

-----------------------------------------------------------------------------
(* Properties *)

\* What an editor stored last, if the server never kept a save the page
\* believes to have failed, is what it shows as saved; and what it shows as
\* being saved was sent, or waits for the field to lose focus, unless the card
\* was activated while it waited (then nothing sends it any more).
SaveStateIsTrue ==
  OnPage =>
    /\ editor.state = "saved" /\ public.by = Me =>
         \/ public.value = editor.raw
         \/ \E i \in DOMAIN tries : /\ tries[i].by = Me /\ tries[i].answer = "failed"
                                   /\ tries[i].served = "stored"
    /\ IsSaving => Me \in busy \/ focused \/ overtaken
=============================================================================
