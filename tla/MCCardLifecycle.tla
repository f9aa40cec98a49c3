--------------------------- MODULE MCCardLifecycle ---------------------------
(* Instances of CardLifecycle for TLC. *)
EXTENDS CardLifecycle, TLC

\* The part of the instance that is explored: two requests on two cards that
\* have a base block, or one request at a time on one card that may get a row
\* of a repeatable block, moves between places and has more events.
VARIABLE part

FirstCard == CHOOSE c \in Cards : TRUE

BaseOnly(rows) ==
  \A c \in Cards : /\ \A i \in Instances : rows[c].rows[i] = "none"
                   /\ rows[c].place = AnyPlace /\ rows[c].events <= 1

FewModes(schema) == schema["base"] # "required" /\ schema["cell"] = "not_required"

Concurrent ==
  /\ BaseOnly(card) /\ FewModes(mode)
  /\ \A r \in Requests : BaseOnly(writes[r]) /\ FewModes(newMode[r])

\* The other card is at most the copy of the first, and stays where it is.
IsCopy(rows, c) == /\ rows[c].lifecycle # "none" => rows[c].source # NoCard
                   /\ rows[c].place = AnyPlace /\ rows[c].events = 0
OneAtATime ==
  /\ InTurn
  /\ \A c \in Cards \ {FirstCard} :
       IsCopy(card, c) /\ \A r \in Requests : IsCopy(writes[r], c)

MCInit == Init /\ part \in {"concurrent", "sequential"}
MCNext == /\ Next /\ UNCHANGED part
          /\ part = "concurrent" => Concurrent'
          /\ part = "sequential" => OneAtATime'
MCSpec == MCInit /\ [][MCNext]_<<vars, part>>

\* Without concurrency, the status of a card that has been active follows its
\* mandatory fields, through every operation, change of the schema and detour
\* over draft (synchronize_card_lifecycle; StatusFollowsFields says it in full).
StatusFollowsFieldsAlone == part = "sequential" => StatusFollowsFields

\* Requests are interchangeable: no definition tells one from another.
RequestSymmetry == Permutations(Requests)
=============================================================================
