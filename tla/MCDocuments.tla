----------------------------- MODULE MCDocuments -----------------------------
(* Instances for TLC of what users are shown and given.  A behaviour is one  *)
(* of the document templates and their versions, one of a print view, one    *)
(* form layout whose geometry is looked at, one of a list of cards, or one   *)
(* of the report templates.                                                  *)
EXTENDS DocumentTemplates, PrintLayout, CardListing, ReportTemplates, TLC

CONSTANTS Upper, Lower, KindA, KindB

VARIABLE which

TwoBlocks == <<<<"f1", "f2">>, <<"f3">>>>

Rect(row, column, span, rows) ==
  [row |-> row, column |-> column, span |-> span, rows |-> rows]
Section(rect, items) == [items |-> items] @@ rect
Field(id, rect) == [id |-> id] @@ rect

\* A field beside another, a field in a block of its own, and one not placed
FormWide == <<Section(Rect(1, 1, 6, 2), <<Field("f1", Rect(1, 1, 6, 1)),
                                          Field("f2", Rect(1, 7, 6, 1))>>),
              Section(Rect(1, 7, 6, 1), <<Field("f3", Rect(1, 1, 12, 1))>>)>>
FormTall == <<Section(Rect(1, 1, 12, 4), <<Field("f1", Rect(1, 1, 12, 1)),
                                           Field("f2", Rect(2, 1, 12, 1))>>)>>
\* One that lists a field twice
FormTwice == <<Section(Rect(1, 1, 12, 4), <<Field("f1", Rect(1, 1, 6, 1)),
                                            Field("f1", Rect(2, 7, 6, 1))>>)>>
\* One from before the grid of four rows, and one whose fields overlap
FormLong == <<Section(Rect(1, 1, 12, 4), <<Field("f1", Rect(1, 1, 12, 1)),
                                           Field("f3", Rect(5, 1, 12, 1))>>)>>
FormOverlap == <<Section(Rect(1, 1, 12, 1), <<Field("f2", Rect(1, 1, 9, 1)),
                                              Field("f3", Rect(1, 4, 9, 1))>>)>>
SmallForms == {FormWide, FormTall, FormTwice, FormLong, FormOverlap}

\* Candidates for a form layout, valid or not
Rects == {Rect(row, column, span, rows) :
            row \in {1, 4}, column \in {1, 4, 7, 10}, span \in {3, 6, 9, 12}, rows \in {1, 3}}
Corners == {Rect(1, 1, 12, 4), Rect(4, 10, 3, 1), Rect(2, 4, 6, 2)}

OneFieldEach == {<<Section(a, <<Field("f1", c)>>), Section(b, <<Field("f2", d)>>)>> :
                   a \in Rects, b \in Rects, c \in Corners, d \in Corners}
OneSection == {<<Section(Rect(2, 4, 6, 2), <<Field("f1", a), Field("f2", b)>>)>> :
                 a \in Rects, b \in Rects}

MCKindOf == [c \in ListedCards |-> IF c = 3 THEN KindB ELSE KindA]
MCUnder == [o \in Branches |-> IF o = Upper THEN Branches ELSE {o}]
MCRank == [v \in Names \cup Dates |->
             CASE v = "" -> 0 [] v \in {"a", "A", "d1"} -> 1 [] OTHER -> 2]

Live(value) == NameRow(TRUE, value)
NameCells == {<<>>, <<Live("a")>>, <<Live("A")>>, <<NameRow(FALSE, "b"), Live("A")>>,
              <<Live(None), Live("b")>>, <<Live(""), Live("a")>>}
DateCells == {<<>>, <<Live("d1")>>, <<Live("d2")>>, <<Live(None), Live("d2")>>,
              <<Live("d2"), NameRow(FALSE, "d1"), Live("d1")>>}
EntryOf(c, name, date) ==
  [place |-> IF c = 2 THEN Lower ELSE Upper, state |-> IF c = 3 THEN "archived" ELSE "active",
   name |-> name, date |-> date]
MCStartCards ==
  {[c \in ListedCards |-> EntryOf(c, n[c], <<>>)] : n \in [ListedCards -> NameCells]}
    \cup {[c \in ListedCards |-> EntryOf(c, <<Live("a")>>, d[c])] : d \in [ListedCards -> DateCells]}

Plain == [sort |-> "name", down |-> FALSE, text |-> "", on |-> "any", archive |-> TRUE, state |-> "any",
          through |-> {}, wanted |-> {}, below |-> TRUE]
MCRequests == {
  Plain, [Plain EXCEPT !.down = TRUE], [Plain EXCEPT !.sort = "id", !.text = "a"],
  [Plain EXCEPT !.on = "d2"],
  [Plain EXCEPT !.sort = "date"], [Plain EXCEPT !.sort = "date", !.down = TRUE],
  [Plain EXCEPT !.wanted = {Upper}, !.through = {Lower}], [Plain EXCEPT !.state = "archived"],
  [Plain EXCEPT !.wanted = {Upper}, !.below = FALSE, !.archive = FALSE]}

Schema(lists, accepts, required) ==
  [lists |-> lists, required |-> required,
   props |-> IF lists THEN {[code |-> "p", accepts |-> accepts]} ELSE {}]
MCSchemas == {NoSchema, Schema(TRUE, {1}, {}), Schema(TRUE, {1, 2, Blank}, {"q"}), Schema(FALSE, {}, {"p"})}
Par(p, q) == [c \in Codes |-> IF c = "p" THEN p ELSE q]
MCDefaults == {NoDefaults, NoParameters, Par(2, Absent), Par(1, 2), Par(Blank, 2)}

\* A list of cards reads "p" if there is one, the detail of a card needs "q".
MCKinds == {[needs |-> {}, parses |-> {[code |-> "p", accepts |-> {2}]}],
            [needs |-> {"q"}, parses |-> {[code |-> "q", accepts |-> {2}]}]}

NoCards == {[c \in ListedCards |-> EntryOf(c, <<>>, <<>>)]}

MCInit ==
  /\ which \in {"templates", "view", "geometry", "list", "reports"}
  /\ DocumentInit /\ ReportInit
  /\ IF which = "geometry"
     THEN /\ printFields = {} /\ view = NoView /\ savedAs = "layout"
          /\ form \in {f \in OneFieldEach \cup OneSection : ValidForm(f)}
     ELSE PrintInit /\ (which # "view" => form = NoForm)
  /\ ListInit(IF which = "list" THEN MCStartCards ELSE NoCards, {Branches})

MCNext ==
  /\ which' = which
  /\ \/ which = "templates" /\ DocumentNext /\ UNCHANGED <<printVars, listVars, reportVars>>
     \/ which = "view" /\ PrintNext /\ UNCHANGED <<documentVars, listVars, reportVars>>
     \/ which = "list" /\ ListNext /\ UNCHANGED <<documentVars, printVars, reportVars>>
     \/ which = "reports" /\ ReportNext /\ UNCHANGED <<documentVars, printVars, listVars>>

MCSpec == MCInit /\ [][MCNext]_<<which, documentVars, printVars, listVars, reportVars>>

DocumentSymmetry ==
  Permutations(Writers) \cup Permutations(Templates) \cup Permutations(CardTemplates)
    \cup Permutations(Drafters)
=============================================================================
