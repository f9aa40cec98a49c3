------------------------------ MODULE PrintLayout ------------------------------
(***************************************************************************)
(* The A4 print view of a card template                                    *)
(* (services/card_template_projection.py, services/card_print.py,          *)
(* services/card_template_layout.py, services/documents.py, and the studio *)
(* in features/registry/print).                                            *)
(*                                                                         *)
(* The form layout places fields on a grid.  It is projected to A4 items,  *)
(* from which the server derives the sections a document is printed from.  *)
(* Editing in the studio and the synchronization with the form change the  *)
(* items, the conversion links the view to the form, so that the form      *)
(* itself is expanded when a document is generated.                        *)
(*                                                                         *)
(* One page is modelled; columns are twelfths, heights millimetres.  A     *)
(* view has sets of items, sections and overlays: it is their ids that are *)
(* compared, their order only paints.  Block items, repeats and styles of  *)
(* older layouts are left out.  Concurrent writers of versions are in      *)
(* DocumentTemplates.                                                      *)
(***************************************************************************)
EXTENDS Integers, Sequences, FiniteSets

CONSTANTS
  BlockFields,     \* the fields of each block, in order
  Texts, Lines,    \* print-only items: page numbers and dates; lines and panels
  SavedForms,      \* form layouts an administrator may send, valid or not
  TextPositions,   \* bound: where the studio moves an item
  NoForm, NoView

IsList(s) == Len(s) \in Nat /\ DOMAIN s = 1..Len(s)

\* CardTemplateFormLayoutRead counts from 1.  No one refuses a form that lists
\* an item twice.
CountsFromOne(rect) == {rect.row, rect.rows, rect.column, rect.span} \subseteq Nat \ {0}

ASSUME PrintAssumption ==
  /\ TextPositions \subseteq Nat
  /\ IsList(BlockFields) /\ \A b \in DOMAIN BlockFields : IsList(BlockFields[b])
  /\ \A sections \in SavedForms :
       /\ IsList(sections)
       /\ \A s \in DOMAIN sections :
            /\ CountsFromOne(sections[s]) /\ IsList(sections[s].items)
            /\ \A i \in DOMAIN sections[s].items : CountsFromOne(sections[s].items[i])

VARIABLES
  printFields,     \* field_ids of the card template
  form,            \* its form_layout, NoForm if none was saved
  savedAs,         \* how that was saved last: as a layout or with the template
  view             \* layout_json of the latest version, NoView if there is none

printVars == <<printFields, form, savedAs, view>>

AllFields == UNION {{BlockFields[b][i] : i \in DOMAIN BlockFields[b]} : b \in DOMAIN BlockFields}

-----------------------------------------------------------------------------
(* Form layouts: sections on a grid of 12 columns and 4 rows, items on the *)
(* same grid inside a section                                              *)

\* _grid_rects_overlap, _rects_overlap
Apart(a, b) ==
  \/ a.column + a.span <= b.column \/ b.column + b.span <= a.column
  \/ a.row + a.rows <= b.row \/ b.row + b.rows <= a.row

AllApart(rects) == \A i, j \in DOMAIN rects : i # j => Apart(rects[i], rects[j])

\* Mutant: only the upper left corner is looked at.
CornerInGrid(rect) == rect.span \in {3, 6, 9, 12} /\ rect.column <= 12 /\ rect.row <= 4

\* validate_form_layout_geometry
InGrid(rect) == /\ rect.span \in {3, 6, 9, 12}
                /\ rect.column + rect.span - 1 <= 12
                /\ rect.row + rect.rows - 1 <= 4

ValidForm(sections) ==
  /\ AllApart(sections)
  /\ \A i \in DOMAIN sections :
       /\ InGrid(sections[i])
       /\ AllApart(sections[i].items)
       /\ \A j \in DOMAIN sections[i].items : InGrid(sections[i].items[j])

\* default_form_layout_for_blocks: one block under the other, one field a row
DefaultForm(fields) ==
  LET kept(b) == {i \in DOMAIN BlockFields[b] : BlockFields[b][i] \in fields}
      shown == {b \in DOMAIN BlockFields : kept(b) # {}}
  IN [b \in shown |->
        [row |-> Cardinality({n \in shown : n <= b}), rows |-> 1, column |-> 1, span |-> 12,
         items |-> [i \in kept(b) |->
           [id |-> BlockFields[b][i], row |-> Cardinality({n \in kept(b) : n <= i}), rows |-> 1,
            column |-> 1, span |-> 12]]]]

\* resolve_card_template_form_layout
ResolvedForm == IF form = NoForm THEN DefaultForm(printFields) ELSE form

\* The items of a form: a section and an item of it, in the order of both
Places(sections) == UNION {{k} \X DOMAIN sections[k].items : k \in DOMAIN sections}
ItemAt(sections, p) == sections[p[1]].items[p[2]]
Before(p, q) == p[1] < q[1] \/ (p[1] = q[1] /\ p[2] < q[2])
FormIds(sections) == {ItemAt(sections, p).id : p \in Places(sections)}

\* expand_linked_card_layout on a card of 144 by 16 units: a section of n
\* columns gives its items columns of n units, one of n rows rows of n units.
Expanded(sections) ==
  [p \in Places(sections) |->
     LET s == sections[p[1]]
         item == ItemAt(sections, p)
     IN [id |-> item.id,
         column |-> 12 * (s.column - 1) + s.span * (item.column - 1),
         span   |-> s.span * item.span,
         row    |-> 4 * (s.row - 1) + s.rows * (item.row - 1),
         rows   |-> s.rows * item.rows]]

-----------------------------------------------------------------------------
(* A4 layouts: items, the sections and overlays derived from them *)

TopMargin == 12
PageHeight == 297
RowHeight == 8
SectionRows == (PageHeight - 2 * TopMargin) \div RowHeight

Layout(items, sections, overlays) ==
  [items |-> items, sections |-> sections, overlays |-> overlays]

Ids(items) == {item.id : item \in items}
OneOfEachId(items) == \A a, b \in items : a.id = b.id => a = b
NoneOverlap(items) == \A a, b \in items : a # b => Apart(a, b)
Kinds(items, kinds) == {item \in items : item.kind \in kinds}
Flow(items) == Kinds(items, {"field", "page_number"})

\* An item that was not synchronized from the form has no source.
Item(id, kind, column, span, y, height) ==
  [id |-> id, kind |-> kind, column |-> column, span |-> span, row |-> y,
   rows |-> height, sourced |-> FALSE, override |-> FALSE]

\* project_form_layout_to_a4: 14 mm for each item passed, 8 for its row.  The
\* row restarts in every section.
ProjectedAt(sections, p) ==
  LET item == ItemAt(sections, p)
      passed == Cardinality({q \in Places(sections) : Before(q, p)})
  IN [Item(item.id, "field", item.column, item.span,
           TopMargin + 14 * passed + 8 * (item.row - 1), 12) EXCEPT !.sourced = TRUE]

Projected(sections) == {ProjectedAt(sections, p) : p \in Places(sections)}

\* Python's round of n / d, half to even
Rounded(n, d) == LET q == n \div d  twice == 2 * (n % d)
                 IN IF twice < d \/ (twice = d /\ q % 2 = 0) THEN q ELSE q + 1

\* The cell of an item in the default section
InSection(item, row, rows) ==
  [id |-> item.id, kind |-> item.kind, column |-> item.column, span |-> item.span,
   row |-> IF row < 1 THEN 1 ELSE row, rows |-> IF rows < 1 THEN 1 ELSE rows]

\* _normalize_legacy_items_to_sections: the flow items of the default section
Derived(items) ==
  {InSection(item, Rounded(item.row - TopMargin, RowHeight) + 1, Rounded(item.rows, RowHeight)) :
     item \in Flow(items)}

IsLinked(layout) == \E item \in layout.items : item.kind = "card_layout"

\* validate_card_print_layout
ItemsAccepted(items, fields) ==
  /\ OneOfEachId(items)
  /\ NoneOverlap(Kinds(items, {"field", "page_number", "card_layout"}))
  /\ \A item \in items : /\ item.row + item.rows <= PageHeight
                         /\ item.kind = "field" => item.id \in fields
  /\ Cardinality(Kinds(items, {"card_layout"})) <= 1

\* _normalize_sections
SectionsAccepted(flow, fields) ==
  /\ NoneOverlap(flow)
  /\ \A item \in flow : /\ item.row + item.rows - 1 <= SectionRows
                        /\ item.kind = "field" => item.id \in fields

\* Those of the first, and of the second what has another id (_merge_overlays)
MergedOverlays(first, second) == first \cup {item \in second : item.id \notin Ids(first)}

\* A layout without sections: they are derived and not validated.
StoreDerived(items, overlays, fields) ==
  /\ ItemsAccepted(items, fields)
  /\ view' = Layout(items, Derived(items), MergedOverlays(overlays, Kinds(items, {"line"})))

\* A layout with sections: they are kept.
Store(layout, fields) ==
  /\ ItemsAccepted(layout.items, fields)
  /\ SectionsAccepted(layout.sections, fields)
  /\ OneOfEachId(layout.overlays)
  /\ view' = layout

\* Mutant: only decorations are taken from the items.
PrintOnlyDecorations(layout) == MergedOverlays(layout.overlays, Kinds(layout.items, {"line"}))

\* _split_print_only_card_layout_items: overlays, then other items once, those
\* of the items first, then those of the sections
PrintOnly(layout) ==
  LET own(items) == {item \in items : item.kind \notin {"field", "card_layout"}}
  IN MergedOverlays(MergedOverlays(layout.overlays, own(layout.items)), own(layout.sections))

\* _expand_linked_card_layouts_for_generation, with the form of the moment
LinkedItems(layout) == FormIds(ResolvedForm) \cup Ids(PrintOnly(layout))

\* _card_print_items: once there are sections or overlays, items are not read.
FlatItems(layout) == IF layout.sections # {} \/ layout.overlays # {}
                     THEN Ids(layout.sections) \cup Ids(layout.overlays)
                     ELSE Ids(layout.items)

\* What a generated document shows, as DOCX and as PDF
Printed(layout) == IF IsLinked(layout) THEN LinkedItems(layout) ELSE FlatItems(layout)

\* A template as create_card_template_for_actor stores it: nobody looks at a
\* form_layout in its field_schema_json.
PrintInit == /\ printFields = AllFields
             /\ form \in SavedForms \cup {NoForm} /\ savedAs = "template"
             /\ view = NoView

-----------------------------------------------------------------------------
(* The server *)

\* _ensure_generation_print_view: the first document stores the default view.
CreateDefaultView ==
  /\ view = NoView
  /\ StoreDerived(Projected(ResolvedForm), {}, printFields)
  /\ UNCHANGED <<printFields, form, savedAs>>

\* create_card_print_template_for_actor, create_print_view_for_actor: a client
\* sends items of its own, a page number and a line among them.
CreateFromClient ==
  /\ view = NoView
  /\ \E text \in Texts, line \in Lines :
       StoreDerived(Projected(ResolvedForm) \cup {Item(text, "page_number", 1, 2, 274, 9),
                                                  Item(line, "line", 1, 6, 12, 1)},
                    {}, printFields)
  /\ UNCHANGED <<printFields, form, savedAs>>

\* projected_by_source: of the items with one id, the last
LastOfEachId(sections) ==
  {ProjectedAt(sections, p) : p \in {q \in Places(sections) :
     \A r \in Places(sections) : Before(q, r) => ItemAt(sections, r).id # ItemAt(sections, q).id}}

Orphans(items, sections) == {o \in items : ~o.sourced \/ o.id \notin FormIds(sections)}

\* Mutant: the projection replaces what a user has placed.
SyncedInPlace(items, sections) == LastOfEachId(sections) \cup Orphans(items, sections)

\* sync_print_view: items by source; an override keeps its place; items without
\* a source in the form follow.
Synced(items, sections) ==
  LET existing(id) == {o \in items : o.sourced /\ o.id = id}
      merged(p) == IF \E o \in existing(p.id) : o.override
                   THEN CHOOSE o \in existing(p.id) : TRUE ELSE p
  IN {merged(p) : p \in LastOfEachId(sections)} \cup Orphans(items, sections)

\* sync_print_view_from_form_layout: the other keys of the layout are kept, and
\* its sections are one of them.
SyncView ==
  /\ view # NoView
  /\ Store(Layout(Synced(view.items, ResolvedForm), view.sections, view.overlays), printFields)
  /\ UNCHANGED <<printFields, form, savedAs>>

\* convert_print_view_to_linked_card_for_actor: one linked card on the page,
\* everything that is not a field becomes an overlay.
LinkedCard(y, height) == Item("card", "card_layout", 1, 12, y, height)

ConvertView ==
  /\ view # NoView
  /\ StoreDerived({LinkedCard(TopMargin, PageHeight - 2 * TopMargin)}, PrintOnly(view), printFields)
  /\ UNCHANGED <<printFields, form, savedAs>>

\* update_form_layout_for_actor (RegistrySchema has its revisions)
SaveForm ==
  /\ \E sections \in SavedForms : ValidForm(sections) /\ form' = sections
  /\ savedAs' = "layout"
  /\ UNCHANGED <<printFields, view>>

\* update_card_template_for_actor with more than field_ids: what is sent replaces
\* the whole field_schema_json, its form_layout too, and only the ids of fields
\* are checked.  Bound: no field is put back on the template.
StoreSchema ==
  /\ printFields' \in SUBSET printFields
  /\ form' \in SavedForms \cup {NoForm} /\ savedAs' = "template"
  /\ UNCHANGED view

\* A field is archived: the template's field_ids are recomputed.
ArchivePrintField ==
  /\ \E f \in printFields : printFields' = printFields \ {f}
  /\ UNCHANGED <<form, savedAs, view>>

-----------------------------------------------------------------------------
(* The studio: it edits what it was sent and saves all of it.  Views that   *)
(* still hold fields are read-only there until they are converted.          *)

\* JavaScript's Math.round
RoundedUp(n, d) == (2 * n + d) \div (2 * d)

\* rectToSectionGrid
StudioSections(items) ==
  {InSection(item, RoundedUp(item.row - TopMargin, RowHeight) + 1, RoundedUp(item.rows, RowHeight)) :
     item \in Flow(items)}

\* normalizeLayoutGeometry: sections and overlays are derived while there are none.
StudioLayout(items, sections, overlays) ==
  Layout(items, IF sections # {} THEN sections ELSE StudioSections(items),
         IF overlays # {} THEN overlays ELSE Kinds(items, {"line"}))

SaveDraft(items, sections, overlays) ==
  /\ Store(StudioLayout(items, sections, overlays), printFields)
  /\ UNCHANGED <<printFields, form, savedAs>>

\* savePrintDraft on the virtual default view; without fields the studio
\* starts with a linked card (preparePrintLayout).
CreateFromStudio ==
  /\ view = NoView
  /\ LET items == Projected(ResolvedForm)
     IN SaveDraft(IF items = {} THEN {LinkedCard(26, 240)} ELSE items, {}, {})

CanEdit == view # NoView /\ IsLinked(view)

\* addPrintItem
AddText == CanEdit /\ \E id \in Texts :
  /\ id \notin Ids(view.items)
  /\ SaveDraft(view.items \cup {Item(id, "page_number", 1, 2, 274, 9)}, view.sections, view.overlays)

AddLine == CanEdit /\ \E id \in Lines :
  /\ id \notin Ids(view.overlays)
  /\ SaveDraft(view.items, view.sections, view.overlays \cup {Item(id, "line", 1, 6, 12, 1)})

\* updateSelectedPrintItem: an item of the list is moved and marked.
MoveItem == CanEdit /\ \E item \in view.items, y \in TextPositions :
  /\ item.kind # "card_layout"
  /\ SaveDraft((view.items \ {item}) \cup {[item EXCEPT !.row = y, !.override = TRUE]},
               view.sections, view.overlays)

\* A4LinkedCardCanvas: the linked card is moved and resized.
ResizeCard == CanEdit /\ \E item \in view.items :
  /\ item.kind = "card_layout"
  /\ SaveDraft((view.items \ {item}) \cup {LinkedCard(26, 240)}, view.sections, view.overlays)

\* removeSelectedPrintItem
RemoveItem == CanEdit /\ \E id \in (Ids(view.items) \cup Ids(view.overlays)) \ {"card"} :
  SaveDraft({item \in view.items : item.id # id}, view.sections,
            {item \in view.overlays : item.id # id})

PrintNext ==
  \/ CreateDefaultView \/ SyncView \/ ConvertView \/ SaveForm \/ StoreSchema
  \/ ArchivePrintField
  \/ CreateFromClient \/ CreateFromStudio
  \/ AddText \/ AddLine \/ MoveItem \/ ResizeCard \/ RemoveItem

PrintSpec == PrintInit /\ [][PrintNext]_printVars

-----------------------------------------------------------------------------
(* Properties *)

\* Converting a view to a linked card loses nothing of what its documents
\* showed besides fields: not what only a section or only an overlay holds.
ConversionKeepsPrintOnly ==
  [][ConvertView => Printed(view) \ AllFields \subseteq Printed(view')]_printVars

\* A synchronization leaves every item of the form on the page exactly once,
\* moves no item a user has placed and loses none that has no source.
SyncKeepsItems ==
  [][SyncView =>
       /\ \A id \in FormIds(ResolvedForm) :
            Cardinality({item \in view'.items : item.sourced /\ item.id = id}) = 1
       /\ \A item \in view.items :
            (item.override \/ ~item.sourced) => item \in view'.items]_printVars

\* The sections of a form, nested grids of their own, become parts of one linked
\* card: the items of a form that was saved as a layout stay inside it and do not
\* overlap on it, whatever sections they are in.
LinkedFormFits ==
  savedAs = "layout" =>
    LET placed == Expanded(form)
    IN /\ AllApart(placed)
       /\ \A p \in DOMAIN placed : /\ placed[p].column >= 0 /\ placed[p].row >= 0
                                   /\ placed[p].column + placed[p].span <= 144
                                   /\ placed[p].row + placed[p].rows <= 16

\* Every newly saved form layout fits the grid, and overflow and overlapping
\* blocks or fields are rejected (README.md, Contextual Card Layout Contract).
NewFormsAreValid ==
  [][form' \notin {form, NoForm} => ValidForm(form')]_printVars

\* A document shows the items and overlays of the view it is generated from
\* (PLANS.md: generation uses the selected print view).
DocumentsPrintTheView ==
  view # NoView =>
    Printed(view) =
      (Ids(view.items) \ {"card"}) \cup Ids(view.overlays)
        \cup (IF IsLinked(view) THEN FormIds(ResolvedForm) ELSE {})
=============================================================================
