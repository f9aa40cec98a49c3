------------------------------ MODULE CardListing ------------------------------
(***************************************************************************)
(* The list of cards (services/cards.py list_visible_cards, and what        *)
(* api/v1/endpoints/cards.py _card_to_summary prints of each).             *)
(*                                                                         *)
(* The list is made by statements that hold no lock: the scope of the      *)
(* user, the cards, their fields, the first rows, the values to sort by,   *)
(* then for each card what is printed.  Meanwhile cards, rows, values,     *)
(* templates and grants change.                                            *)
(*                                                                         *)
(* A card has two values of interest: its name (the field "fio") and a     *)
(* date that is shown in lists, each in a block that may have many rows.   *)
(* Names are sorted and printed by the first row that has one; dates are   *)
(* sorted by the first row and printed by the first that has one, and      *)
(* printed of cards whose template lacks them too.  Other fields, and what *)
(* their values are called, are left out.                                  *)
(***************************************************************************)
EXTENDS Naturals, FiniteSets, Sequences, FiniteSetsExt

CONSTANTS
  ListedCards,            \* ids of cards, numbers: their order settles ties
  CardKinds, KindOf,      \* card templates, and that of each card
  Branches, UnderBranch,  \* organizations, and those below each
  Names, Dates,           \* texts and dates; "" is a text without letters
  Rank,                   \* the order of texts (without case) and dates; 0 is empty
  Requests,               \* what is asked for: see Asks
  MaxRequests, MaxShifts, \* bounds: lists that are asked for, changes of the data,
  MaxRows                 \* rows of a block of a card

ASSUME ListingAssumption ==
  /\ ListedCards \subseteq Nat /\ IsFiniteSet(ListedCards) /\ KindOf \in [ListedCards -> CardKinds]
  /\ "" \in Names /\ Rank[""] = 0 /\ {MaxRequests, MaxShifts, MaxRows} \subseteq Nat

VARIABLES
  entry,    \* cards: [place, state, name, date]; name and date are sequences of rows
  kindHas,  \* templates that have one active field "fio", those with the date, is it active
  allowed,  \* the organizations the user's grants give
  page,     \* the request
  steady,   \* while it runs: cards that stayed as they were, that always matched, that ever did
  asked, shifts

listVars == <<entry, kindHas, allowed, page, steady, asked, shifts>>

\* A row without a value (no field_values row) has "none".
NameRow(live, value) == [live |-> live, value |-> value]
None == "none"
NoPage == [step |-> "idle"]
NoSteady == [same |-> {}, due |-> {}, ever |-> {}]

\* Cards that have been filled, and grants
ListInit(cards, grants) ==
  /\ entry \in cards
  /\ kindHas = [name |-> CardKinds, date |-> CardKinds, active |-> TRUE]
  /\ allowed \in grants
  /\ page = NoPage /\ steady = NoSteady /\ asked = 0 /\ shifts = 0

-----------------------------------------------------------------------------
(* What is selected *)

\* _card_text_search_criterion: any value of the card, archived rows too
TextFound(c, text) == text = "" \/ \E n \in DOMAIN entry[c].name : entry[c].name[n].value = text

\* _field_filter_criterion, for the date; archived rows too
DateFound(c, on) == on = "any" \/ \E n \in DOMAIN entry[c].date : entry[c].date[n].value = on

\* The criteria of list_visible_cards
Matches(c, ask, scope) ==
  /\ entry[c].place \in scope
  /\ ask.archive \/ entry[c].state \notin {"archived", "superseded"}
  /\ ask.state = "any" \/ entry[c].state = ask.state
  /\ TextFound(c, ask.text) /\ DateFound(c, ask.on)

\* _filtered_organization_scope
Scope(wanted, below) ==
  LET seen == wanted \cap allowed
  IN IF wanted = {} THEN allowed
     ELSE IF below THEN (UNION {UnderBranch[o] : o \in seen}) \cap allowed ELSE seen

\* A request: the order, the text, date and status that are looked for, and the
\* organizations: the one it goes through, those wanted, with those below or not
Asks == [sort : {"id", "name", "date"}, down : BOOLEAN, text : Names, on : Dates \cup {"any"},
         archive : BOOLEAN,
         state : {"any", "draft", "active", "dismissed", "archived", "superseded"},
         through : SUBSET Branches, wanted : SUBSET Branches, below : BOOLEAN]
ASSUME RequestsAssumption == Requests \subseteq Asks

-----------------------------------------------------------------------------
(* The key of a card and what is printed of it *)

LiveIn(cells) == {n \in DOMAIN cells : cells[n].live}
FirstOf(set) == IF set = {} THEN 0 ELSE Min(set)

\* The first live row that has a value
ValuedRow(cells) == FirstOf({n \in LiveIn(cells) : cells[n].value # None})
ValueOf(cells, n) == IF n = 0 THEN "" ELSE cells[n].value

\* Mutant: rows that are archived count.
AnyNameToSortBy(cells) == ValueOf(cells, FirstOf({n \in DOMAIN cells : cells[n].value # None}))

\* _sort_visible_cards: the first value of the joined live rows
NameToSortBy(cells) == ValueOf(cells, ValuedRow(cells))

\* The value of the row that was found first, if it is still live
DateToSortBy(cells, first) ==
  IF first \in LiveIn(cells) /\ cells[first].value # None THEN cells[first].value ELSE ""

\* sorted(filled, reverse) + empty: the cards, each once, as their keys demand
Ordered(cards, key, down) ==
  LET rank(c) == Rank[key[c]]
      Before(a, b) ==
        CASE rank(a) = 0 \/ rank(b) = 0 -> IF rank(a) = rank(b) THEN a < b ELSE rank(b) = 0
          [] rank(a) = rank(b) -> a < b
          [] OTHER -> IF down THEN rank(a) > rank(b) ELSE rank(a) < rank(b)
  IN {order \in [1..Cardinality(cards) -> cards] :
        /\ \A c \in cards : \E i \in DOMAIN order : order[i] = c
        /\ \A i, j \in DOMAIN order : i < j => order[i] # order[j] /\ Before(order[i], order[j])}

\* card_display_value, list_display_fields_for_card
NameShown(c) == ValueOf(entry[c].name, ValuedRow(entry[c].name))
DateShown(c) == IF kindHas.active THEN ValueOf(entry[c].date, ValuedRow(entry[c].date)) ELSE ""

-----------------------------------------------------------------------------
(* The request *)

Reads == UNCHANGED <<entry, kindHas, allowed, asked, shifts>>

\* list_visible_cards_for_organization_for_actor takes an organization the user
\* must see; _validate_card_sort, get_organization_scope_ids
BeginList == \E ask \in Requests :
  /\ page = NoPage /\ asked < MaxRequests /\ asked' = asked + 1
  /\ ask.sort = "date" \/ ask.on # "any" => kindHas.active
  /\ page' = [step |-> "select", ask |-> ask,
              scope |-> IF ask.through \subseteq allowed THEN Scope(ask.wanted, ask.below) ELSE {}]
  /\ UNCHANGED <<entry, kindHas, allowed, shifts>>

\* Before the order is known, and after it
Gathered(at, cards, dated, first) ==
  [step |-> at, ask |-> page.ask, scope |-> page.scope, cards |-> cards,
   dated |-> dated, first |-> first]
Printing(order) ==
  [step |-> "print", ask |-> page.ask, scope |-> page.scope, order |-> order, printed |-> <<>>]
AllPrinted == Len(page.printed) = Len(page.order)

SelectCards ==
  /\ page.step = "select"
  /\ LET found == {c \in ListedCards : Matches(c, page.ask, page.scope)}
     IN IF page.ask.sort = "id" \/ found = {}
        THEN \E order \in Ordered(found, [c \in found |-> ""], FALSE) : page' = Printing(order)
        ELSE page' = Gathered("fields", found, {}, <<>>)
  /\ Reads

\* _require_single_fio_field; the date may be missing in a template
ReadFields ==
  /\ page.step = "fields"
  /\ LET kinds == {KindOf[c] : c \in page.cards} IN
       page' = IF page.ask.sort = "date"
               THEN Gathered("rows", page.cards, kinds \cap kindHas.date, <<>>)
               ELSE IF kinds \subseteq kindHas.name THEN Gathered("values", page.cards, {}, <<>>)
               ELSE [step |-> "failed"]
  /\ Reads

ReadFirstRows ==
  /\ page.step = "rows"
  /\ page' = Gathered("values", page.cards, page.dated,
                      [c \in page.cards |-> FirstOf(LiveIn(entry[c].date))])
  /\ Reads

SortKey(c) ==
  IF page.ask.sort = "name" THEN NameToSortBy(entry[c].name)
  ELSE IF KindOf[c] \in page.dated THEN DateToSortBy(entry[c].date, page.first[c]) ELSE ""

ReadSortValues ==
  /\ page.step = "values"
  /\ \E order \in Ordered(page.cards, [c \in page.cards |-> SortKey(c)], page.ask.down) :
       page' = Printing(order)
  /\ Reads

\* _card_to_summary, card after card
PrintCard ==
  /\ page.step = "print" /\ ~AllPrinted
  /\ LET c == page.order[Len(page.printed) + 1]
         line == [card |-> c, name |-> NameShown(c), date |-> DateShown(c)]
     IN page' = IF KindOf[c] \in kindHas.name
                THEN [page EXCEPT !.printed = Append(page.printed, line)]
                ELSE [step |-> "failed"]
  /\ Reads

LeaveList ==
  /\ page.step \in {"failed", "print"}
  /\ page.step = "print" => AllPrinted
  /\ page' = NoPage /\ Reads

-----------------------------------------------------------------------------
(* Changes of the data, each a transaction *)

Shift ==
  /\ page.step \notin {"idle", "failed"}
  /\ page.step = "print" => ~AllPrinted
  /\ shifts < MaxShifts /\ shifts' = shifts + 1
  /\ UNCHANGED <<page, asked>>
ShiftCards == Shift /\ UNCHANGED <<kindHas, allowed>>

WriteName == \E c \in ListedCards : \E n \in LiveIn(entry[c].name), v \in Names :
  ShiftCards /\ entry' = [entry EXCEPT ![c].name[n].value = v]
WriteDate == \E c \in ListedCards : \E n \in LiveIn(entry[c].date), v \in Dates \cup {""} :
  ShiftCards /\ entry' = [entry EXCEPT ![c].date[n].value = v]

\* create_block_instance_for_actor appends a row without values; a value that is
\* set where no row is live makes one (_get_or_create_block_instance).
Appends(cells, v) == Len(cells) < MaxRows /\ (v = None \/ LiveIn(cells) = {})
AddNameRow == \E c \in ListedCards, v \in Names \cup {None} :
  /\ Appends(entry[c].name, v)
  /\ ShiftCards /\ entry' = [entry EXCEPT ![c].name = Append(entry[c].name, NameRow(TRUE, v))]
AddDateRow == \E c \in ListedCards, v \in Dates \cup {"", None} :
  /\ Appends(entry[c].date, v)
  /\ ShiftCards /\ entry' = [entry EXCEPT ![c].date = Append(entry[c].date, NameRow(TRUE, v))]
ArchiveNameRow == \E c \in ListedCards : \E n \in LiveIn(entry[c].name) :
  ShiftCards /\ entry' = [entry EXCEPT ![c].name[n].live = FALSE]
ArchiveDateRow == \E c \in ListedCards : \E n \in LiveIn(entry[c].date) :
  ShiftCards /\ entry' = [entry EXCEPT ![c].date[n].live = FALSE]
MoveState == \E c \in ListedCards : \E to \in {"archived", "superseded"} :
  /\ entry[c].state \notin {"archived", "superseded"}
  /\ ShiftCards /\ entry' = [entry EXCEPT ![c].state = to]
Relocate == \E c \in ListedCards, o \in Branches :
  ShiftCards /\ entry' = [entry EXCEPT ![c].place = o]

\* A template loses one of the fields, or gets it: an active one.  The date is
\* archived.
ChangeKind == \E k \in CardKinds, f \in {"name", "date"} :
  /\ Shift /\ UNCHANGED <<entry, allowed>>
  /\ \/ k \in kindHas[f] /\ kindHas' = [kindHas EXCEPT ![f] = kindHas[f] \ {k}]
     \/ /\ k \notin kindHas[f] /\ (f = "date" => kindHas.active)
        /\ kindHas' = [kindHas EXCEPT ![f] = kindHas[f] \cup {k}]
RetireDate ==
  /\ Shift /\ UNCHANGED <<entry, allowed>>
  /\ kindHas.active /\ kindHas' = [kindHas EXCEPT !.active = FALSE]
Regrant == \E new \in SUBSET Branches :
  /\ Shift /\ UNCHANGED <<entry, kindHas>> /\ allowed' = new

Matching(ask, scope) == {c \in ListedCards : Matches(c, ask, scope)}
HasDate(has, c) == has.active /\ KindOf[c] \in has.date

\* Seen from outside, while the request runs
Watching ==
  steady' = CASE page'.step \in {"idle", "failed"} -> NoSteady
              [] page = NoPage -> LET now == Matching(page'.ask, page'.scope)
                                  IN [same |-> ListedCards, due |-> now, ever |-> now]
              [] OTHER ->
                   [same |-> {c \in steady.same : /\ entry'[c] = entry[c]
                                                  /\ HasDate(kindHas', c) = HasDate(kindHas, c)},
                    due |-> steady.due \cap Matching(page.ask, page.scope),
                    ever |-> steady.ever \cup Matching(page.ask, page.scope)]

ListNext ==
  /\ \/ BeginList \/ SelectCards \/ ReadFields \/ ReadFirstRows \/ ReadSortValues
     \/ PrintCard \/ LeaveList
     \/ WriteName \/ AddNameRow \/ ArchiveNameRow \/ WriteDate \/ AddDateRow \/ ArchiveDateRow
     \/ MoveState \/ Relocate \/ ChangeKind \/ RetireDate \/ Regrant
  /\ Watching

ListSpec(cards, grants) == ListInit(cards, grants) /\ [][ListNext]_listVars

-----------------------------------------------------------------------------
(* Properties *)

\* A date counts for the order where the card's template has the field and the
\* date that is shown is the one of the card's first row.
DateCounts(c) ==
  HasDate(kindHas, c) /\ ValuedRow(entry[c].date) = FirstOf(LiveIn(entry[c].date))

\* What a reader takes for the order of a line: what the list shows, if it counts
ShownRank(line) ==
  CASE page.ask.sort = "id" -> 0
    [] page.ask.sort = "name" -> Rank[line.name]
    [] OTHER -> IF DateCounts(line.card) THEN Rank[line.date] ELSE 0

InOrder(x, y) ==
  LET a == ShownRank(x) b == ShownRank(y)
  IN \/ a = b /\ x.card < y.card
     \/ a # 0 /\ b = 0
     \/ a # 0 /\ b # 0 /\ (IF page.ask.down THEN a > b ELSE a < b)

\* A list that is complete has every card that matched all along, once, and no
\* card that never did, and however the data changed while it was made, cards
\* that stayed as they were stand in the order of the names or dates the list
\* shows of them, equal ones by their ids, and last those without one, and
\* those whose date does not count: it is printed of a later row than the first,
\* or of a card whose template lacks the field (_sort_visible_cards agrees with
\* card_display_value and, of first rows, with list_display_fields_for_card;
\* README.md:116: a missing value there stays empty).
ListedInOrder ==
  page.step = "print" /\ AllPrinted =>
    LET lines == page.printed
        cards == {lines[i].card : i \in DOMAIN lines}
    IN /\ Cardinality(cards) = Len(lines)
       /\ steady.due \subseteq cards /\ cards \subseteq steady.ever
       /\ \A i, j \in DOMAIN lines :
            i < j /\ {lines[i].card, lines[j].card} \subseteq steady.same
              => InOrder(lines[i], lines[j])
=============================================================================
