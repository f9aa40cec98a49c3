---------------------------- MODULE ReviewProtocol ----------------------------
(***************************************************************************)
(* What a public link promises to its holder and to the reviewer, without  *)
(* requests, rows and locks: the holder writes while the link is open and  *)
(* within its limits, submits, and waits for the decision; the reviewer    *)
(* returns or approves what was submitted; a closed link stays closed.     *)
(***************************************************************************)
EXTENDS Naturals

CONSTANTS Links, MaxUses, MaxUploads

VARIABLES phase,    \* phase of each link
          written   \* edits and uploads that took effect through it

vars == <<phase, written>>

Editing == {"active", "changes_requested"}

Init == /\ phase = [l \in Links |-> "none"]
        /\ written = [l \in Links |-> [edits |-> 0, uploads |-> 0]]

\* The link moves from one of the phases in From to the phase to.
Move(l, From, to) == /\ phase[l] \in From
                     /\ phase' = [phase EXCEPT ![l] = to]
                     /\ UNCHANGED written

Open(l) == Move(l, {"none"}, "active")
Submit(l) == Move(l, Editing, "submitted")
Return(l) == Move(l, {"submitted"}, "changes_requested")
Close(l) == Move(l, Editing \cup {"submitted"}, "closed")

Edit(l) == /\ phase[l] \in Editing
           /\ written[l].edits < MaxUses
           /\ written' = [written EXCEPT ![l].edits = @ + 1]
           /\ UNCHANGED phase

Upload(l) == /\ phase[l] \in Editing
             /\ written[l].uploads < MaxUploads
             /\ written' = [written EXCEPT ![l].uploads = @ + 1]
             /\ UNCHANGED phase

Next == \E l \in Links : \/ Open(l) \/ Submit(l) \/ Return(l) \/ Close(l)
                         \/ Edit(l) \/ Upload(l)

Spec == Init /\ [][Next]_vars
=============================================================================
