----------------------------- MODULE MCPublicLink -----------------------------
(* Instances of PublicLink for TLC, and of what is edited in the browser: a   *)
(* behaviour of MCSpec is one of the requests to a link, one of the editor on *)
(* the page of a link, or one of a user who edits a card in place.            *)
EXTENDS PublicLink, BlockEditor, PublicEditor, TLC

CONSTANT OpenCard

VARIABLE which

\* Two fields of one block
MCBlockOf == [f \in Fields |-> "b"]

MCInit == /\ which \in {"link", "page", "card"}
          /\ Init /\ EditorInit(OpenCard)
          /\ \E delays \in {FALSE, which = "page"} : PublicEditorInit(delays)

MCNext ==
  /\ which' = which
  /\ \/ which = "link" /\ Next /\ UNCHANGED <<editorVars, publicEditorVars>>
     \/ which = "page" /\ PublicEditorNext /\ UNCHANGED <<vars, editorVars>>
     \/ which = "card" /\ EditorNext /\ UNCHANGED <<vars, publicEditorVars>>

MCSpec == MCInit /\ [][MCNext]_<<which, vars, editorVars, publicEditorVars>>

\* Requests are interchangeable: no definition tells one from another.
RequestSymmetry == Permutations(Requests)
=============================================================================
