----------------------------- MODULE CreationLink -----------------------------
(***************************************************************************)
(* Links through which guests create cards (services/card_creation_links.py,*)
(* models/card_creation_link.py).                                          *)
(*                                                                         *)
(* A request that creates a card, or that reads or closes a link for a     *)
(* user, locks the row of the link until it ends (_locked_link,            *)
(* _public_link_for_token).  The template and the organizations are not    *)
(* locked: they may be archived between the checks and the commit.         *)
(* A created card is a draft, or active if the value it is created with     *)
(* was all it lacked (mandatory fields: CardLifecycle), and has a link of  *)
(* its own.  Everything a creation writes is inside a savepoint and        *)
(* commits with the request.                                               *)
(*                                                                         *)
(* Previews, tokens and their encryption are left out; no code sets an     *)
(* expiry, so the test of it never fails.                                  *)
(***************************************************************************)
EXTENDS Naturals, FiniteSets

CONSTANTS
  CreationLinks,      \* rows of card_creation_links
  Offices,            \* organizations
  CardTemplates,
  Stewards, Runs,     \* users, and the organizations whose cards each manages
  Guests,             \* requests, of guests and of users
  FillableFields,     \* fields a guest may fill, of each template
  MaxLinked,          \* bound: cards created
  Nobody

ASSUME CreationAssumption ==
  /\ Runs \in [Stewards -> SUBSET Offices] /\ MaxLinked \in Nat
  /\ Nobody \notin Guests

VARIABLES
  doors,     \* [state, template, offices, by]
  usable,    \* templates that are active
  staffed,   \* organizations that are active
  linked,    \* cards created: [id, link, template, office, status, value, child]
  holder,    \* the request that holds the row of each link
  visit      \* what each request is doing

creationVars == <<doors, usable, staffed, linked, holder, visit>>

Away == [doing |-> "nothing"]

CreationInit ==
  /\ doors = [k \in CreationLinks |-> [state |-> "none"]]
  /\ usable = CardTemplates /\ staffed = Offices /\ linked = {}
  /\ holder = [k \in CreationLinks |-> Nobody]
  /\ visit = [g \in Guests |-> Away]

\* _organizations_for_link: those that are active
OfficesOf(k) == doors[k].offices \cap staffed

\* _can_manage_organizations: all of them, and at least one
MayRun(a, offices) == offices # {} /\ offices \subseteq Runs[a]

\* create_for_actor
CreateDoor == \E a \in Stewards, k \in CreationLinks, t \in usable, offices \in SUBSET staffed :
  /\ doors[k].state = "none" /\ MayRun(a, offices)
  /\ doors' = [doors EXCEPT ![k] = [state |-> "open", template |-> t, offices |-> offices, by |-> a]]
  /\ UNCHANGED <<usable, staffed, linked, holder, visit>>

-----------------------------------------------------------------------------
(* The lock of the row *)

\* Mutant: the row is read and not locked.
LockDoorForgotten(g, k) == UNCHANGED holder

\* SELECT .. FOR UPDATE, read anew
LockDoor(g, k) == holder[k] = Nobody /\ holder' = [holder EXCEPT ![k] = g]

Unlocked(g) == [k \in CreationLinks |-> IF holder[k] = g THEN Nobody ELSE holder[k]]

Leave(g) == visit' = [visit EXCEPT ![g] = Away] /\ holder' = Unlocked(g)

-----------------------------------------------------------------------------
(* Creating a card *)

\* _require_public_link_open; the template must be active too.
Opens(k) == doors[k].state = "open" /\ doors[k].template \in usable

\* _selected_public_organization: one of several must be chosen, a single one is.
Selected(k, chosen) ==
  IF chosen = {} /\ Cardinality(OfficesOf(k)) = 1 THEN OfficesOf(k) ELSE chosen \cap OfficesOf(k)

\* _editable_public_template_field; a draft has no value.
Firsts(k) == FillableFields[doors[k].template] \cup {"draft"}

\* create_card_from_public_link and create_draft_from_public_link, up to
\* their last check
Enter(g) == \E k \in CreationLinks, chosen \in {{}} \cup {{o} : o \in Offices} :
  /\ visit[g] = Away /\ LockDoor(g, k) /\ doors[k].state # "none" /\ Opens(k)
  /\ \E office \in Selected(k, chosen), value \in Firsts(k) :
       visit' = [visit EXCEPT ![g] = [doing |-> "creates", link |-> k, office |-> office,
                   template |-> doors[k].template, by |-> doors[k].by, value |-> value]]
  /\ UNCHANGED <<doors, usable, staffed, linked>>

\* _create_public_card: the card, its link, the value and the relation, which
\* is unique for the card and for its link.  A draft stays one
\* (_preserve_draft_lifecycle); a value synchronizes the status.
StatusesFor(value) == IF value = "draft" THEN {"draft"} ELSE {"draft", "active"}
CreatedCard(g, id, life) ==
  [id |-> id, link |-> visit[g].link, template |-> visit[g].template, office |-> visit[g].office,
   status |-> life, value |-> visit[g].value,
   child |-> [card |-> id, status |-> "active", review |-> FALSE, by |-> visit[g].by]]

CommitCreation(g) ==
  /\ visit[g].doing = "creates" /\ Cardinality(linked) < MaxLinked
  /\ \E life \in StatusesFor(visit[g].value) :
       linked' = linked \cup {CreatedCard(g, Cardinality(linked) + 1, life)}
  /\ Leave(g)
  /\ UNCHANGED <<doors, usable, staffed>>

-----------------------------------------------------------------------------
(* Reading and closing a link *)

\* read_for_actor, close_for_actor: a link of archived organizations alone
\* can be neither read nor closed.
Attend(g) == \E a \in Stewards, k \in CreationLinks, doing \in {"reads", "closes"} :
  /\ visit[g] = Away /\ LockDoor(g, k)
  /\ doors[k].state # "none" /\ MayRun(a, OfficesOf(k))
  /\ doing = "closes" => doors[k].state = "open"
  /\ visit' = [visit EXCEPT ![g] = [doing |-> doing, link |-> k]]
  /\ UNCHANGED <<doors, usable, staffed, linked>>

CommitClose(g) ==
  /\ visit[g].doing = "closes"
  /\ doors' = [doors EXCEPT ![visit[g].link].state = "closed"]
  /\ Leave(g)
  /\ UNCHANGED <<usable, staffed, linked>>

\* The end of a reading; a refused value, a failed statement or commit
EndVisit(g) ==
  /\ visit[g] # Away /\ Leave(g)
  /\ UNCHANGED <<doors, usable, staffed, linked>>

\* A template or an organization is archived.
ArchiveAround ==
  /\ \/ \E t \in usable : usable' = usable \ {t} /\ UNCHANGED staffed
     \/ \E o \in staffed : staffed' = staffed \ {o} /\ UNCHANGED usable
  /\ UNCHANGED <<doors, linked, holder, visit>>

CreationNext ==
  \/ CreateDoor \/ ArchiveAround
  \/ \E g \in Guests : Enter(g) \/ CommitCreation(g) \/ Attend(g) \/ CommitClose(g) \/ EndVisit(g)

CreationSpec == CreationInit /\ [][CreationNext]_creationVars

-----------------------------------------------------------------------------
(* What every request relies on *)

DoorRows == [state : {"none"}] \cup
            [state : {"open", "closed"}, template : CardTemplates, offices : SUBSET Offices, by : Stewards]

Doings == [doing : {"nothing"}] \cup [doing : {"reads", "closes"}, link : CreationLinks] \cup
          [doing : {"creates"}, link : CreationLinks, office : Offices, template : CardTemplates,
           by : Stewards, value : {"draft"} \cup UNION {FillableFields[t] : t \in CardTemplates}]

\* Types of the rows of links, of their locks and of the requests
CreationTypeOK ==
  /\ doors \in [CreationLinks -> DoorRows]
  /\ usable \subseteq CardTemplates /\ staffed \subseteq Offices
  /\ holder \in [CreationLinks -> Guests \cup {Nobody}]
  /\ visit \in [Guests -> Doings]

\* A request holds the row of the link it works on.
HoldsItsLink(g) ==
  visit[g] # Away => holder[visit[g].link] = g /\ doors[visit[g].link].state # "none"

\* What a request that creates a card has read of its link is still so.
ReadsHold(g) ==
  visit[g].doing = "creates" =>
    LET door == doors[visit[g].link]
    IN /\ door.state = "open" /\ door.template = visit[g].template
       /\ visit[g].office \in door.offices /\ visit[g].by = door.by

\* Cards are numbered as they come.
IsNumbered == /\ IsFiniteSet(linked)
              /\ \A c \in linked : c.id \in 1..Cardinality(linked)

\* The induction hypothesis: links are not touched but by those who hold them.
CreationIsSound ==
  /\ CreationTypeOK /\ IsNumbered
  /\ \A g \in Guests : HoldsItsLink(g) /\ ReadsHold(g)

-----------------------------------------------------------------------------
(* Properties *)

\* However requests wait for each other, a card commits only while its link is
\* open, with the template of the link, in one of its organizations, and with
\* one working link made for it in the name of the link's author.
CreatedWhileOpen ==
  [][\A c \in linked' \ linked :
       /\ doors[c.link].state = "open" /\ doors'[c.link].state = "open"
       /\ c.template = doors[c.link].template /\ c.office \in doors[c.link].offices
       /\ c.child.card = c.id /\ c.child.by = doors[c.link].by
       /\ \A d \in linked : d.id # c.id]_creationVars
=============================================================================
