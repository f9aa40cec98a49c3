------------------------------ MODULE CardImport ------------------------------
(***************************************************************************)
(* Cards created from a workbook, and workbooks made for it or of cards    *)
(* (services/import_export.py).                                            *)
(*                                                                         *)
(* A commit reads the workbook twice, the second time in a savepoint,      *)
(* creates the reference items it has planned, validates the values again  *)
(* and creates the cards, all in one transaction:                          *)
(*                                                                         *)
(*   idle -> read -> items -> cards -> idle                                *)
(*                                                                         *)
(* Other transactions commit between any two steps.  The session keeps the *)
(* rows of the template and of the fields from its first reading, so the   *)
(* second one sees fields that were archived, but neither new headers nor  *)
(* the end of the template; references and organizations it reads anew.    *)
(* An item another import has inserted and not committed is waited for.    *)
(*                                                                         *)
(* A cell is blank, a choice of a list, or a value of its own that can be  *)
(* read or cannot (a number, a date, an experience in three columns).      *)
(* Sheets, styles, limits of size and the hidden sheet are left out.       *)
(***************************************************************************)
EXTENDS References

CONSTANTS
  Importers, ImportActor,   \* sessions that import, and their users
  Fields, Source, NoList,   \* the columns, and the list a choice is made from
  Aware,                    \* fields whose list depends on the organization of the card
  Required, Defaulted,      \* required fields; those the template gives a value
  Manageable,               \* organizations in which importers manage cards
  Sheets,                   \* rows a user may fill in
  NoFile,
  MaxImports                \* bound: imports that are begun

ASSUME ImportAssumption == /\ Source \in [Fields -> Lists \cup {NoList}]
                           /\ Aware \subseteq Fields /\ Manageable \subseteq Orgs
                           /\ MaxImports \in Nat /\ IsFiniteSet(Fields)
                           /\ \A sheet \in Sheets : IsFiniteSet(DOMAIN sheet)
                           /\ \A sheet \in Sheets : \A n \in DOMAIN sheet :
                                \A f \in DOMAIN sheet[n].cells \cap Fields :
                                  Source[f] # NoList =>
                                    sheet[n].cells[f].text \in Spellings \cup {""}

VARIABLES
  template,  \* [active, members]
  headers,   \* of each field: the number of its current label or type
  fields,    \* active fields
  open,      \* active organizations
  cards,     \* imported cards that are committed
  file,      \* the workbook each importer has
  pc,
  cache,     \* rows its session keeps: [template, headers]
  picked,    \* the item of each cell that chooses one, 0 while it is to be created
  plan,      \* items to be created: a sequence of [list, label]
  made,      \* items it has created, not committed
  written,   \* cards it has created, not committed
  facts,     \* what was true of the references it saw, before this moment, since it began
  imports    \* imports begun so far

schemaOfImport == <<template, headers, fields, open>>
importVars == <<schemaOfImport, cards, file, pc, cache, picked, plan, made, written, facts, imports>>

Nothing == <<>>

ImportInit ==
  /\ template = [active |-> TRUE, members |-> Fields]
  /\ headers = [f \in Fields |-> 0]
  /\ fields = Fields /\ open = Orgs /\ cards = {}
  /\ file = [i \in Importers |-> NoFile]
  /\ pc = [i \in Importers |-> "idle"]
  /\ cache = [i \in Importers |-> Nothing]
  /\ picked = [i \in Importers |-> Nothing]
  /\ plan = [i \in Importers |-> <<>>]
  /\ made = [i \in Importers |-> Nothing]
  /\ written = [i \in Importers |-> {}]
  /\ facts = [i \in Importers |-> {}]
  /\ imports = 0

Choice(f) == Source[f] # NoList

-----------------------------------------------------------------------------
(* What a session sees: its own items too *)

RowOf(i, x) == IF x \in DOMAIN made[i] THEN made[i][x] ELSE items[x]
Seen(i, l) == {x \in Items : RowOf(i, x).state = "active" /\ RowOf(i, x).list = l}

\* _reference_labels: the second of two equal labels is shown with its code.
Shown(x, l) == [text |-> items[x].label,
                code |-> IF \E y \in ActiveItems(l) : y < x /\ items[y].label = items[x].label
                         THEN x ELSE 0]

\* _template_field_ids, _is_supported_field, _manageable_organizations
Selectable(t) == fields \cap t.members
Choosable == open \cap Manageable

-----------------------------------------------------------------------------
(* Making a workbook *)

\* import_template_xlsx_for_actor with the sheet a user fills in; the hidden
\* sheet carries the configuration and the headers (_write_metadata_sheet).
Download(i) == \E strict \in BOOLEAN, sheet \in Sheets :
  LET columns == UNION {DOMAIN sheet[n].cells : n \in DOMAIN sheet}
  IN /\ pc[i] = "idle" /\ file[i] = NoFile /\ imports < MaxImports
     /\ template.active /\ columns \subseteq Selectable(template)
     /\ \A n \in DOMAIN sheet : sheet[n].org \in Choosable
     /\ file' = [file EXCEPT ![i] = [importable |-> TRUE, strict |-> strict, rows |-> sheet,
           headers |-> [f \in columns |-> headers[f]],
           orgs |-> {sheet[n].org : n \in DOMAIN sheet}]]
     /\ UNCHANGED <<refVars, schemaOfImport, cards, pc, cache, picked, plan, made, written, imports>>

\* _display_column_value: a label of the configured list, or else nothing
Printed(card, f) ==
  LET x == card.values[f]
  IN IF ~Choice(f) THEN [text |-> "good", code |-> 0]
     ELSE IF x \in ActiveItems(Source[f]) THEN Shown(x, Source[f]) ELSE [text |-> "", code |-> 0]

\* export_xlsx_for_actor: the cards of an organization, not for import
Export(i) == \E org \in Choosable :
  LET shown == {c \in cards : c.org = org}
  IN /\ pc[i] = "idle" /\ file[i] = NoFile /\ template.active /\ shown # {}
     /\ file' = [file EXCEPT ![i] =
          [importable |-> FALSE,
           rows |-> {[f \in DOMAIN c.values |-> Printed(c, f)] : c \in shown}]]
     /\ UNCHANGED <<refVars, schemaOfImport, cards, pc, cache, picked, plan, made, written, imports>>

Discard(i) ==
  /\ pc[i] = "idle" /\ file[i] # NoFile /\ ~file[i].importable
  /\ file' = [file EXCEPT ![i] = NoFile]
  /\ UNCHANGED <<refVars, schemaOfImport, cards, pc, cache, picked, plan, made, written, imports>>

-----------------------------------------------------------------------------
(* Reading a workbook *)

\* _configuration_from_metadata: t and h are the template and the headers as
\* the session has them.
Fits(wb, t, h) ==
  /\ wb.importable /\ t.active
  /\ DOMAIN wb.headers \subseteq Selectable(t)
  /\ \A f \in DOMAIN wb.headers : wb.headers[f] = h[f]
  /\ wb.orgs \subseteq Choosable

\* _is_blank_cell: such a cell has no value, and a row of such cells is skipped.
Filled(row) == {f \in DOMAIN row.cells : row.cells[f].text # ""}
Rows(wb) == {n \in DOMAIN wb.rows : Filled(wb.rows[n]) # {}}

\* resolve_or_plan_global_import_item_for_actor: the list can be added to.
IsExtensible(i, l) ==
  /\ ListIsActive(l) /\ MayEdit(ImportActor[i], l) /\ lists[l].owner = NoOrg
  /\ \A x \in Seen(i, l) : RowOf(i, x).parent = 0

WithLabel(i, l, label) == {x \in Seen(i, l) : Normal[RowOf(i, x).label] = label}

\* _parse_import_value, _plan_global_import_references: the items a cell names
Named(i, wb, f, cell) ==
  IF wb.strict THEN {x \in ActiveItems(Source[f]) : Shown(x, Source[f]) = cell}
  ELSE WithLabel(i, Source[f], Normal[cell.text])

\* _ensure_reference_item_for_field
Belongs(i, f, org, x) == /\ x \in Seen(i, Effective(Source[f], f \in Aware, org))
                         /\ f \in Aware => ListIsActive(Source[f])

\* _read_import_workbook with _validate_import_rows: a cell without an error
CellFits(i, wb, f, row) ==
  LET cell == row.cells[f]
      named == Named(i, wb, f, cell)
  IN IF ~Choice(f) THEN cell.text = "good"
     ELSE /\ ~wb.strict => f \notin Aware /\ IsExtensible(i, Source[f])
          /\ Cardinality(named) \in (IF wb.strict THEN {1} ELSE {0, 1})
          /\ \A x \in named : Belongs(i, f, row.org, x)

AllFit(i, wb) ==
  \A n \in Rows(wb) : \A f \in Filled(wb.rows[n]) : CellFits(i, wb, f, wb.rows[n])

\* The cells that choose an item: a row and a column
ChoiceCells(wb) ==
  {c \in Rows(wb) \X Fields : Choice(c[2]) /\ c[2] \in Filled(wb.rows[c[1]])}

\* The item of each of them, 0 if there is none yet
Picks(i, wb) ==
  [c \in ChoiceCells(wb) |-> LET named == Named(i, wb, c[2], wb.rows[c[1]].cells[c[2]])
                         IN IF named = {} THEN 0 ELSE CHOOSE x \in named : TRUE]

\* planned_by_key: a list and a normalized label
PlanKey(wb, c) == [list |-> Source[c[2]], label |-> Normal[wb.rows[c[1]].cells[c[2]].text]]

\* _PlannedGlobalImportReference: what may be planned.  The first cell with a
\* key gives the spelling that becomes the label; keys follow the order of their
\* first rows.
Plans(wb, picks) ==
  LET cells == {c \in DOMAIN picks : picks[c] = 0}
      keys == {PlanKey(wb, c) : c \in cells}
      firsts == {s \in [1..Cardinality(keys) -> cells] :
        /\ \A m, n \in DOMAIN s : m < n => /\ PlanKey(wb, s[m]) # PlanKey(wb, s[n])
                                          /\ s[m][1] <= s[n][1]
        /\ \A c \in cells : \E n \in DOMAIN s : /\ PlanKey(wb, s[n]) = PlanKey(wb, c)
                                              /\ s[n][1] <= c[1]}
  IN {[n \in DOMAIN s |-> [list |-> PlanKey(wb, s[n]).list, label |-> PlanKey(wb, s[n]).label,
                           spelling |-> wb.rows[s[n][1]].cells[s[n][2]].text]] : s \in firsts}

-----------------------------------------------------------------------------
(* commit_import_xlsx_for_actor *)

\* The first reading, which the preview of the file is too
StartImport(i) ==
  /\ pc[i] = "idle" /\ file[i] # NoFile /\ imports < MaxImports
  /\ Fits(file[i], template, headers) /\ AllFit(i, file[i])
  /\ cache' = [cache EXCEPT ![i] = [template |-> template, headers |-> headers]]
  /\ pc' = [pc EXCEPT ![i] = "read"]
  /\ imports' = imports + 1
  /\ UNCHANGED <<refVars, schemaOfImport, cards, file, picked, plan, made, written>>

\* The second reading
Reread(i) ==
  /\ pc[i] = "read"
  /\ Fits(file[i], cache[i].template, cache[i].headers) /\ AllFit(i, file[i])
  /\ picked' = [picked EXCEPT ![i] = Picks(i, file[i])]
  /\ \E planned \in Plans(file[i], Picks(i, file[i])) : plan' = [plan EXCEPT ![i] = planned]
  /\ pc' = [pc EXCEPT ![i] = "items"]
  /\ UNCHANGED <<refVars, schemaOfImport, cards, file, cache, made, written, imports>>

\* Mutant: every item gets a code of its own.
RandomCode(label, x) == "own"

\* The digest of the normalized label
ImportCode(label, x) == label

\* The unique constraint on list and code, over committed rows
Holders(l, code) == {x \in Items : /\ items[x].state # "none" /\ items[x].list = l
                                   /\ items[x].code = code /\ code # "own"}

\* Another import has inserted the same row and not ended.
IsAwaited(i, l, code) == \E j \in Importers \ {i} : \E x \in DOMAIN made[j] :
  made[j][x].list = l /\ made[j][x].code = code /\ code # "own"

\* Every cell that waited for this key has item x.
Assigned(i, key, x) ==
  [c \in DOMAIN picked[i] |->
     IF picked[i][c] = 0 /\ PlanKey(file[i], c) = [list |-> key.list, label |-> key.label]
     THEN x ELSE picked[i][c]]

\* create_global_import_item_for_actor: a row of its own
InsertItem(i) ==
  /\ pc[i] = "items" /\ plan[i] # <<>>
  /\ LET next == Head(plan[i])
         x == issued + 1
         code == ImportCode(next.label, x)
     IN /\ IsExtensible(i, next.list) /\ issued < MaxItems
        /\ ~IsAwaited(i, next.list, code) /\ Holders(next.list, code) = {}
        /\ issued' = x
        /\ made' = [made EXCEPT ![i] =
             [y \in DOMAIN made[i] \cup {x} |->
                IF y = x THEN NewItem(next.list, next.spelling, code, 0, FALSE) ELSE made[i][y]]]
        /\ picked' = [picked EXCEPT ![i] = Assigned(i, next, x)]
  /\ plan' = [plan EXCEPT ![i] = Tail(@)]
  /\ UNCHANGED <<lists, items, links, edit, edits, schemaOfImport, cards, file, pc, cache,
                 written, imports>>

\* Its insert is refused: it takes the item that has the label by now.  There
\* is none if the item with its code was archived or renamed: the import fails.
ReuseItem(i) ==
  /\ pc[i] = "items" /\ plan[i] # <<>>
  /\ LET next == Head(plan[i])
         code == ImportCode(next.label, issued + 1)
         again == WithLabel(i, next.list, next.label)
     IN /\ IsExtensible(i, next.list) /\ Holders(next.list, code) # {}
        /\ Cardinality(again) = 1
        /\ picked' = [picked EXCEPT ![i] = Assigned(i, next, CHOOSE x \in again : TRUE)]
  /\ plan' = [plan EXCEPT ![i] = Tail(@)]
  /\ UNCHANGED <<refVars, schemaOfImport, cards, file, pc, cache, made, written, imports>>

\* synchronize_card_lifecycle, unless _row_has_empty_required_field
StatusOf(wb, t, row) ==
  IF \/ (DOMAIN wb.headers \cap Required) \ Filled(row) # {}
     \/ (Required \cap fields \cap t.members) \ (Filled(row) \cup Defaulted) # {}
  THEN "draft" ELSE "active"

\* Validates the values once more and creates a card for each row.
WriteCards(i) ==
  /\ pc[i] = "items" /\ plan[i] = <<>>
  /\ \A c \in DOMAIN picked[i] :
       Belongs(i, c[2], file[i].rows[c[1]].org, picked[i][c])
  /\ written' = [written EXCEPT ![i] =
       {LET row == file[i].rows[n]
        IN [import |-> imports, by |-> i, row |-> n, org |-> row.org,
            values |-> [f \in Filled(row) |-> IF Choice(f) THEN picked[i][<<n, f>>] ELSE 0],
            status |-> StatusOf(file[i], cache[i].template, row)] : n \in Rows(file[i])}]
  /\ pc' = [pc EXCEPT ![i] = "cards"]
  /\ UNCHANGED <<refVars, schemaOfImport, cards, file, cache, picked, plan, made, imports>>

Rest(i) == /\ pc' = [pc EXCEPT ![i] = "idle"]
           /\ cache' = [cache EXCEPT ![i] = Nothing]
           /\ picked' = [picked EXCEPT ![i] = Nothing]
           /\ plan' = [plan EXCEPT ![i] = <<>>]
           /\ made' = [made EXCEPT ![i] = Nothing]
           /\ written' = [written EXCEPT ![i] = {}]

\* The user keeps the file, and may import it again.
CommitImport(i) ==
  /\ pc[i] = "cards"
  /\ items' = [x \in Items |-> RowOf(i, x)]
  /\ cards' = cards \cup written[i]
  /\ Rest(i)
  /\ UNCHANGED <<lists, issued, links, edit, edits, schemaOfImport, file, imports>>

\* A reading or a validation that fails, or the deadlock of two imports that
\* insert two items in different order: nothing of it stays.
RollBackImport(i) ==
  /\ pc[i] # "idle"
  /\ Rest(i)
  /\ UNCHANGED <<refVars, schemaOfImport, cards, file, imports>>

-----------------------------------------------------------------------------
(* The schema and the organizations meanwhile *)

Meanwhile ==
  /\ \/ /\ \E f \in fields : \/ headers' = [headers EXCEPT ![f] = 1] /\ UNCHANGED fields
                             \/ fields' = fields \ {f} /\ UNCHANGED headers
        /\ UNCHANGED <<template, open>>
     \/ template.active /\ template' = [template EXCEPT !.active = FALSE]
        /\ UNCHANGED <<headers, fields, open>>
     \/ \E org \in open : open' = open \ {org} /\ UNCHANGED <<template, headers, fields>>
  /\ edits < MaxEdits /\ edits' = edits + 1
  /\ UNCHANGED <<lists, items, issued, links, edit, cards, file, pc, cache, picked, plan, made,
                 written, imports>>

ImportStep(i) ==
  \/ Download(i) \/ Export(i) \/ Discard(i) \/ StartImport(i) \/ Reread(i)
  \/ InsertItem(i) \/ ReuseItem(i) \/ WriteCards(i) \/ CommitImport(i) \/ RollBackImport(i)

\* The list a card of an organization chooses from: of the active lists with
\* the code of the configured one, its own, or the nearest that is inherited.
Proper(f, org) ==
  LET path == <<org>> \o Above[org]
      reach(l) == {n \in DOMAIN path : path[n] = lists[l].owner /\ (n = 1 \/ lists[l].inherits)}
      near == {l \in Lists : /\ ListIsActive(l) /\ CodeOf[l] = CodeOf[Source[f]]
                             /\ reach(l) # {}}
  IN IF f \notin Aware \/ near = {} THEN {Source[f]}
     ELSE {l \in near : \A m \in near : \A n \in reach(m) : \E k \in reach(l) : k <= n}

\* What holds of the references it sees: an active item of a list has a label;
\* a card of an organization may have an item in a field.
Holding(i) ==
  {<<"label", Normal[RowOf(i, x).label], x>> : x \in UNION {Seen(i, l) : l \in Lists}}
  \cup UNION {{<<"choice", f, org, x>> : x \in UNION {Seen(i, l) : l \in Proper(f, org)}} :
             f \in {g \in Fields : Choice(g)}, org \in Orgs}

ImportNext ==
  /\ \/ \E i \in Importers : ImportStep(i)
     \/ RefNext /\ UNCHANGED <<schemaOfImport, cards, file, pc, cache, picked, plan, made, written,
                               imports>>
     \/ Meanwhile
  /\ facts' = [i \in Importers |-> IF pc'[i] = "idle" THEN {} ELSE IF pc[i] = "idle" THEN {}
                                   ELSE facts[i] \cup Holding(i)]

ImportSpec(given, rows, opened) ==
  RefInit(given, rows, opened) /\ ImportInit /\ [][ImportNext]_<<refVars, importVars>>

-----------------------------------------------------------------------------
(* Properties *)

\* However imports run beside each other, no two of the items they add to a
\* list stand for one label, those renamed by hand left aside: the digest is
\* the code, and the loser of the race takes the item of the winner.
OneItemPerLabel ==
  \A x, y \in Items :
    /\ x # y /\ items[x].state = "active" /\ items[y].state = "active"
    /\ items[x].list = items[y].list /\ ~items[x].hand /\ ~items[y].hand
    => Normal[items[x].label] # Normal[items[y].label]

\* An import makes one card of each row that is filled in, in the organization
\* of the row; each choice is an item that, while the import ran, has been an
\* active item with the label of the cell, and one that field may have in a
\* card of that organization.
ImportedAsFiled ==
  \A i \in Importers : pc[i] = "cards" =>
    LET wb == file[i]
        held == facts[i] \cup Holding(i) IN
    /\ \A n \in Rows(wb) : Cardinality({c \in written[i] : c.row = n}) = 1
    /\ \A c \in written[i] :
         /\ c.row \in Rows(wb) /\ c.org = wb.rows[c.row].org
         /\ DOMAIN c.values = Filled(wb.rows[c.row])
         /\ \A f \in DOMAIN c.values : Choice(f) =>
              /\ <<"choice", f, c.org, c.values[f]>> \in held
              /\ <<"label", Normal[wb.rows[c.row].cells[f].text], c.values[f]>> \in held
=============================================================================
