------------------------------ MODULE ReviewDiff ------------------------------
(***************************************************************************)
(* What a reviewer is shown of the changes made through a public link      *)
(* (services/public_links.py review_diff_for_actor, _review_snapshot,      *)
(* services/card_public_access.py).                                        *)
(*                                                                         *)
(* PublicLink models the locks of the link and of the card with the card   *)
(* as a version number; here the card has values, rows of blocks and            *)
(* attachments.  A baseline is taken under both locks, at once.  The       *)
(* comparison holds the row of the link alone: guests wait for it, but     *)
(* staff changes the card between its statements.                          *)
(*                                                                         *)
(* Left out: labels and types of fields, the templates that take fields    *)
(* away (they act like a setting), when a value was changed: only that the *)
(* link has an event of it.                                                *)
(***************************************************************************)
EXTENDS Naturals, FiniteSets, Sequences

CONSTANTS
  DiffFields, BlockOf, Repeating,  \* fields, the block of each; blocks of many rows
  Papers,                          \* attachments
  Answers, Blank,                  \* values; Blank stands for None
  MaxRows, MaxTurns                \* bounds: rows of blocks, changes of the card

ASSUME DiffAssumption == /\ Repeating \subseteq {BlockOf[f] : f \in DiffFields}
                         /\ Blank \notin Answers /\ {MaxRows, MaxTurns} \subseteq Nat

VARIABLES
  blockRows, \* card_block_instances: a sequence of [block, live]
  answers,  \* field_values: [<<row, field>> -> value]
  access,   \* public access: the card's flag, and the fields whose settings allow it
  papers,   \* card_attachments: "none", "live" or "archived"
  cycle,    \* the link: [status, baseline]
  byGuest,  \* the values that have an event of the link
  reader,   \* the request that compares
  outset,    \* what the card was when the baseline was taken
  watch,    \* since the comparison began: fields always exposed, rows always live, values had
  turns

cardOfDiff == <<blockRows, answers, access, papers>>
diffVars == <<cardOfDiff, cycle, byGuest, reader, outset, watch, turns>>

NoBase == [fields |-> {}, papers |-> {}]
NoStart == [fields |-> <<>>, exposed |-> {}, papers |-> {}]
Unread == [step |-> "idle"]
NoWatch == [fields |-> {}, rows |-> {}, papers |-> {}, had |-> {}]

DiffInit ==
  /\ blockRows = <<>> /\ answers = <<>>
  /\ access \in [edit : {TRUE}, fields : SUBSET DiffFields]
  /\ papers = [p \in Papers |-> "none"]
  /\ cycle = [status |-> "active", baseline |-> NoBase, on |-> FALSE]
  /\ byGuest = {} /\ reader = Unread /\ outset = NoStart /\ watch = NoWatch /\ turns = 0

-----------------------------------------------------------------------------
(* The snapshot *)

\* public_editable_schema_rows_for_card
exposed == IF access.edit THEN access.fields ELSE {}

LiveRows(rs, b) == {n \in DOMAIN rs : rs[n].block = b /\ rs[n].live}

\* A block with no row counts as one that is empty, unless it repeats.
Slots(rs, b) == IF LiveRows(rs, b) = {} /\ b \notin Repeating THEN {0} ELSE LiveRows(rs, b)

ValueAt(vs, n, f) == IF <<n, f>> \in DOMAIN vs THEN vs[<<n, f>>] ELSE Blank

\* _review_snapshot, the fields
Snapshot(rs, vs, fs) ==
  UNION {{[field |-> f, row |-> n, value |-> ValueAt(vs, n, f)] : n \in Slots(rs, BlockOf[f])} :
         f \in fs}

LivePapers == {p \in Papers : papers[p] = "live"}

-----------------------------------------------------------------------------
(* The comparison *)

\* Mutant: the row is part of the key of every field.
KeyWithRow(item) == [field |-> item.field, row |-> item.row]

\* _field_snapshot_key: a block that does not repeat may get its row later.
DiffKey(item) == [field |-> item.field,
                  row |-> IF BlockOf[item.field] \in Repeating THEN item.row ELSE 0]

\* _snapshot_items_by_key
ItemsAt(items, key) == {item \in items : DiffKey(item) = key}
ValueIn(items, key) ==
  LET own == ItemsAt(items, key) IN IF own = {} THEN Blank ELSE (CHOOSE item \in own : TRUE).value

\* review_diff_for_actor, with _field_change_timestamps
Compared(base, now, eligible) ==
  LET keys == {DiffKey(item) : item \in {i \in base \cup now : i.field \in eligible}}
      changed(key) == ValueIn(base, key) # ValueIn(now, key)
  IN {[field |-> key.field, row |-> key.row, before |-> ValueIn(base, key), after |-> ValueIn(now, key),
       dated |-> changed(key) /\ \E item \in ItemsAt(now, key) : <<item.row, item.field>> \in byGuest] :
      key \in keys}

\* _attachment_diff
ComparedPapers(base, now) == [added |-> now \ base, archived |-> base \ now]

-----------------------------------------------------------------------------
(* The request that compares, statement by statement *)

LinkIsFree == reader = Unread

\* _locked_public_link; the fields that are exposed now
BeginCompare ==
  /\ reader = Unread /\ cycle.on
  /\ reader' = [step |-> "values", fields |-> exposed]
  /\ UNCHANGED <<cardOfDiff, cycle, byGuest, outset, turns>>

\* _field_values_by_instance
ReadValues ==
  /\ reader.step = "values"
  /\ reader' = [step |-> "rows", fields |-> reader.fields, values |-> answers]
  /\ UNCHANGED <<cardOfDiff, cycle, byGuest, outset, turns>>

\* _block_instances_for_card
ReadRows ==
  /\ reader.step = "rows"
  /\ reader' = [step |-> "papers", fields |-> reader.fields,
                items |-> Snapshot(blockRows, reader.values, reader.fields)]
  /\ UNCHANGED <<cardOfDiff, cycle, byGuest, outset, turns>>

ReadPapers ==
  /\ reader.step = "papers"
  /\ reader' = [step |-> "eligible", fields |-> reader.fields, items |-> reader.items,
                papers |-> ComparedPapers(cycle.baseline.papers, LivePapers)]
  /\ UNCHANGED <<cardOfDiff, cycle, byGuest, outset, turns>>

\* The settings are read again; the session may still have those it read.
ShowDiff ==
  /\ reader.step = "eligible"
  /\ \E eligible \in {reader.fields, exposed} :
       reader' = [step |-> "shown", papers |-> reader.papers,
                  diff |-> Compared(cycle.baseline.fields, reader.items, eligible)]
  /\ UNCHANGED <<cardOfDiff, cycle, byGuest, outset, turns>>

LeaveDiff ==
  /\ reader.step = "shown" /\ reader' = Unread
  /\ UNCHANGED <<cardOfDiff, cycle, byGuest, outset, turns>>

-----------------------------------------------------------------------------
(* The review; each of these holds the row of the link *)

\* capture_review_baseline, or a link that is made for a review
Capture ==
  /\ LinkIsFree /\ cycle.status = "active" /\ ~cycle.on
  /\ cycle' = [cycle EXCEPT !.on = TRUE, !.baseline =
       [fields |-> Snapshot(blockRows, answers, exposed), papers |-> LivePapers]]
  /\ outset' = [fields |-> answers, exposed |-> exposed, papers |-> LivePapers]
  /\ UNCHANGED <<cardOfDiff, byGuest, reader, turns>>

\* submit_for_review, request_changes_for_actor, approve_for_actor
MoveReview == \E move \in {<<"active", "submitted">>, <<"changes_requested", "submitted">>,
                           <<"submitted", "changes_requested">>, <<"submitted", "approved">>} :
  /\ LinkIsFree /\ cycle.on /\ cycle.status = move[1]
  /\ move[2] = "submitted" => access.edit
  /\ cycle' = [cycle EXCEPT !.status = move[2]]
  /\ UNCHANGED <<cardOfDiff, byGuest, reader, outset, turns>>

\* _editable_public_link, _resolve_public_edit_field
GuestMayEdit == LinkIsFree /\ cycle.status \in {"active", "changes_requested"}

-----------------------------------------------------------------------------
(* Changes of the card; each holds its lock and is one transaction *)

Turn == /\ reader.step # "shown" /\ turns < MaxTurns /\ turns' = turns + 1
        /\ UNCHANGED <<cycle, reader, outset>>

\* _resolve_block_instance_for_value: a row that is named, or a new one if
\* there is none
Writes(f, n, v) ==
  /\ \/ n \in LiveRows(blockRows, BlockOf[f]) /\ UNCHANGED blockRows
     \/ /\ LiveRows(blockRows, BlockOf[f]) = {} /\ n = Len(blockRows) + 1 /\ n <= MaxRows
        /\ blockRows' = Append(blockRows, [block |-> BlockOf[f], live |-> TRUE])
  /\ answers' = [k \in DOMAIN answers \cup {<<n, f>>} |-> IF k = <<n, f>> THEN v ELSE answers[k]]
  /\ Turn /\ UNCHANGED <<access, papers>>

\* edit_card_field_with_token, set_field_value_from_public_link
GuestWrites == \E f \in exposed, n \in 1..MaxRows, v \in Answers \cup {Blank} :
  /\ GuestMayEdit /\ Writes(f, n, v)
  /\ byGuest' = byGuest \cup {<<n, f>>}

\* set_field_value_for_actor
StaffWrites == \E f \in DiffFields, n \in 1..MaxRows, v \in Answers \cup {Blank} :
  /\ Writes(f, n, v) /\ UNCHANGED byGuest

\* create_block_instance_for_actor
AddRow == \E b \in {BlockOf[f] : f \in DiffFields} :
  /\ b \in Repeating \/ LiveRows(blockRows, b) = {}
  /\ Len(blockRows) < MaxRows /\ blockRows' = Append(blockRows, [block |-> b, live |-> TRUE])
  /\ Turn /\ UNCHANGED <<answers, access, papers, byGuest>>

\* archive_block_instance_for_actor
ArchiveRow == \E n \in DOMAIN blockRows :
  /\ blockRows[n].live /\ blockRows[n].block \in Repeating
  /\ blockRows' = [blockRows EXCEPT ![n].live = FALSE]
  /\ Turn /\ UNCHANGED <<answers, access, papers, byGuest>>

\* CardPublicAccessService.update_for_actor: settings of some fields, or the flag
SetExposed == \E new \in [edit : BOOLEAN, fields : SUBSET DiffFields] :
  /\ new # access /\ access' = new
  /\ Turn /\ UNCHANGED <<blockRows, answers, papers, byGuest>>

\* An upload by a guest or a user
Attach == \E p \in Papers :
  /\ papers[p] = "none" /\ papers' = [papers EXCEPT ![p] = "live"]
  /\ Turn /\ UNCHANGED <<blockRows, answers, access, byGuest>>

\* archive_attachment_for_actor
ArchivePaper == \E p \in Papers :
  /\ papers[p] = "live" /\ papers' = [papers EXCEPT ![p] = "archived"]
  /\ Turn /\ UNCHANGED <<blockRows, answers, access, byGuest>>

\* What there is for an observer of the comparison: values by field and row
Had == UNION {{<<f, n, ValueAt(answers, n, f)>> : n \in Slots(blockRows, BlockOf[f])} : f \in DiffFields}
AllLive == {n \in DOMAIN blockRows : blockRows[n].live}
WatchStart == [fields |-> exposed, rows |-> AllLive, papers |-> LivePapers, had |-> Had]

Watched ==
  watch' = CASE reader'.step = "idle" -> NoWatch
             [] reader = Unread -> WatchStart
             [] OTHER -> [fields |-> watch.fields \cap exposed, rows |-> watch.rows \cap AllLive,
                          papers |-> watch.papers \cap LivePapers, had |-> watch.had \cup Had]

DiffNext ==
  /\ \/ BeginCompare \/ ReadValues \/ ReadRows \/ ReadPapers \/ ShowDiff \/ LeaveDiff
     \/ Capture \/ MoveReview \/ GuestWrites \/ StaffWrites \/ AddRow \/ ArchiveRow
     \/ SetExposed \/ Attach \/ ArchivePaper
  /\ Watched

DiffSpec == DiffInit /\ [][DiffNext]_diffVars

-----------------------------------------------------------------------------
(* Properties *)

\* A value goes by its field, and by its row where a block may have many.
Same(f, n, field, row) == field = f /\ (BlockOf[f] \in Repeating => row = n)
LinesOf(f, n) == {e \in reader.diff : Same(f, n, e.field, e.row)}
HadAt(f, n) == {t[3] : t \in {t \in watch.had : Same(f, n, t[1], t[2])}}
AtStart(f, n) == {outset.fields[k] : k \in {k \in DOMAIN outset.fields : Same(f, n, k[2], k[1])}}
GuestWrote(f, n) == \E k \in byGuest : Same(f, n, k[2], k[1])
Stayed(f) == IF BlockOf[f] \in Repeating
             THEN {n \in watch.rows : blockRows[n].block = BlockOf[f]} ELSE {0}

\* Whatever staff does to the card while a reviewer's comparison runs: each
\* value of a field that stayed open to guests, in a row that stayed, is shown
\* once, as it was at the baseline and as it was at a moment of the comparison,
\* and a change a guest took part in has its date (review_diff_for_actor).  An
\* attachment that stayed is shown as added exactly when it came after.
DiffTellsChanges ==
  reader.step = "shown" =>
    /\ watch.papers \cap reader.papers.added = watch.papers \ outset.papers
    /\ watch.papers \cap reader.papers.archived = {}
    /\ \A f \in watch.fields \cap outset.exposed : \A n \in Stayed(f) :
       /\ Cardinality(LinesOf(f, n)) = 1
       /\ \A e \in LinesOf(f, n) :
            /\ e.after \in HadAt(f, n)
            /\ e.before \in (IF AtStart(f, n) = {} THEN {Blank} ELSE AtStart(f, n))
            /\ GuestWrote(f, n) /\ e.before # e.after => e.dated
=============================================================================
