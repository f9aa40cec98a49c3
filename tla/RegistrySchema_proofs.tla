------------------------ MODULE RegistrySchema_proofs ------------------------
(***************************************************************************)
(* Proofs about RegistrySchema, for any number of requests, blocks, fields *)
(* and layouts.                                                            *)
(***************************************************************************)
EXTENDS RegistrySchema, TLAPS

-----------------------------------------------------------------------------
(* The inductive invariant *)

\* Columns that have some of the rows S
PartialOf(S, T) == UNION {[D -> T] : D \in SUBSET S}

Schemas == [fields : SUBSET Fields, layout : Layouts \cup {"default"}]

Database ==
  [archived : [{"row"} -> BOOLEAN], status : [{"row"} -> {"draft", "active", "archived"}],
   block : [Blocks -> {"none", "active", "archived"}],
   field : [Fields -> {"none", "active", "inactive", "archived"}],
   required : [Fields -> BOOLEAN], value : [Fields -> {"none", "empty", "filled"}],
   base : [{"row"} -> Schemas], template : [{"row"} -> {"none", "active", "inactive"}],
   members : [{"row"} -> SUBSET Fields], cards : [{"row"} -> {"none", "base", "template"}]]

\* No block or field gets the state of a row there is not.
Writes ==
  [archived : PartialOf({"row"}, BOOLEAN),
   status : PartialOf({"row"}, {"draft", "active", "archived"}),
   block : PartialOf(Blocks, {"active", "archived"}),
   field : PartialOf(Fields, {"active", "inactive", "archived"}),
   required : PartialOf(Fields, BOOLEAN), value : PartialOf(Fields, {"none", "empty", "filled"}),
   base : PartialOf({"row"}, Schemas), template : PartialOf({"row"}, {"active", "inactive"}),
   members : PartialOf({"row"}, SUBSET Fields), cards : PartialOf({"row"}, {"none", "base", "template"})]

Steps == {"idle", "reload", "flush", "share", "refresh", "base", "sync", "card", "commit"}
LockedRows == {"registry", "base", "template", "card"}

\* Types of the committed rows and of what each request means to write
SchemaTypeOK ==
  /\ db \in Database
  /\ pc \in [Requests -> Steps]
  /\ writes \in [Requests -> Writes]
  /\ reserved \in [Requests -> SUBSET LockedRows]
  /\ ensures \in [Requests -> BOOLEAN] /\ syncs \in [Requests -> BOOLEAN]
  /\ copy \in [Requests -> Schemas]
  /\ started \in Nat /\ overwritten \in BOOLEAN

\* It has the locks of templates it takes; its last steps are those with cards.
IsEnding(r) == pc[r] \in {"sync", "card", "commit"}

WritesNothing(r) == \A column \in Columns : DOMAIN writes[r][column] = {}

\* What a request writes and has locked at each of its steps
FollowsItsSteps(r) ==
  /\ pc[r] \in {"idle", "reload"} => WritesNothing(r) /\ ~ensures[r] /\ reserved[r] = {}
  /\ "card" \in reserved[r] => pc[r] \in {"flush", "commit"}
  /\ pc[r] = "flush" => reserved[r] \subseteq {"card"}
  /\ pc[r] = "flush" /\ reserved[r] # {} =>
       ~ensures[r] /\ ~syncs[r] /\ DOMAIN writes[r].cards = {}
  /\ pc[r] \in {"share", "refresh"} => reserved[r] = {}
  /\ pc[r] = "base" => reserved[r] = {"registry"}
  /\ pc[r] \in {"refresh", "base"} => ensures[r]
  /\ pc[r] = "share" => ~ensures[r] /\ DOMAIN writes[r].cards # {}
  /\ ensures[r] /\ ~IsEnding(r) =>
       \A column \in {"base", "archived", "status"} : DOMAIN writes[r][column] = {}
  /\ ensures[r] /\ IsEnding(r) => "base" \in reserved[r]
  /\ IsEnding(r) /\ "base" \in reserved[r] => DOMAIN writes[r].base = {"row"}
  /\ DOMAIN writes[r].cards # {} => DOMAIN writes[r].base = {}

\* A request that refreshes the base template creates no block, template or
\* card; any other changes no field, and of blocks creates new ones only.
CreatesOrChanges(r) ==
  IF ensures[r]
    THEN /\ DOMAIN writes[r].template = {} /\ DOMAIN writes[r].cards = {}
         /\ \A b \in DOMAIN writes[r].block : writes[r].block[b] # "active"
    ELSE /\ DOMAIN writes[r].field = {}
         /\ \A b \in DOMAIN writes[r].block : writes[r].block[b] = "active"

\* A new block is new until its request commits.
CreatesNew(r) ==
  IsFlushed(r) => \A b \in DOMAIN writes[r].block :
                    writes[r].block[b] = "active" => db.block[b] = "none"

\* A field is active, or is made so, only in a block there is.
FieldsHaveBlocks ==
  \A f \in Fields :
    /\ db.field[f] = "active" => db.block[BlockOf[f]] # "none"
    /\ \A r \in Requests : /\ f \in DOMAIN writes[r].field
                           /\ writes[r].field[f] = "active"
                           => db.block[BlockOf[f]] # "none"

HoldsBase(r) == IsEnding(r) /\ ("base" \in reserved[r] \/ DOMAIN writes[r].base # {})

\* Locks of rows exclude each other.
RowsAreApart ==
  \A r \in Requests : \A s \in Requests \ {r} :
    /\ ~(HoldsBase(r) /\ HoldsBase(s))
    /\ IsFlushed(r) /\ IsFlushed(s) => DOMAIN writes[r].block \cap DOMAIN writes[s].block = {}

NewSchema(r) == writes[r].base["row"]
LocksBase(r) == IsEnding(r) /\ "base" \in reserved[r]

\* The fields a request is about to write to the locked template are those that
\* are active once it commits, or it keeps what an unlocked update has left.
WillFollow(r) ==
  LocksBase(r) => \/ NewSchema(r).fields = Active(View(r))
                  \/ overwritten /\ NewSchema(r).fields = Schema(db).fields

\* The layout it is about to write is the one there is, or is for that one.
WillKeepLayout(r) ==
  LocksBase(r) => \/ NewSchema(r).layout = Schema(db).layout
                  \/ /\ NewSchema(r).layout # "default"
                     /\ Resolved(copy[r]) = Resolved(Schema(db))

SchemaIsSound ==
  /\ SchemaTypeOK /\ FieldsHaveBlocks /\ RowsAreApart
  /\ \A r \in Requests : /\ FollowsItsSteps(r) /\ CreatesOrChanges(r) /\ CreatesNew(r)
                         /\ WillFollow(r) /\ WillKeepLayout(r)
  /\ BaseFollowsFields

-----------------------------------------------------------------------------
(* Lemmas on columns *)

\* A partial column is a function from some of the rows.
LEMMA PartialColumn ==
  ASSUME NEW S, NEW T, NEW f
  PROVE  f \in PartialOf(S, T) <=> DOMAIN f \subseteq S /\ f \in [DOMAIN f -> T]
<1>1. ASSUME f \in PartialOf(S, T) PROVE DOMAIN f \subseteq S /\ f \in [DOMAIN f -> T]
  <2>1. PICK D \in SUBSET S : f \in [D -> T]
    BY <1>1 DEF PartialOf
  <2> QED
    BY <2>1
<1>2. ASSUME DOMAIN f \subseteq S, f \in [DOMAIN f -> T] PROVE f \in PartialOf(S, T)
  BY <1>2 DEF PartialOf
<1> QED
  BY <1>1, <1>2

\* Rows written over a whole column, and over other written rows
LEMMA OverColumn ==
  ASSUME NEW S, NEW T, NEW U \in SUBSET T, NEW f \in PartialOf(S, U), NEW g \in [S -> T]
  PROVE  Over(f, g) \in [S -> T]
BY PartialColumn DEF Over

LEMMA OverWritten ==
  ASSUME NEW S, NEW T, NEW f \in PartialOf(S, T), NEW g \in PartialOf(S, T)
  PROVE  Over(f, g) \in PartialOf(S, T)
<1>1. Over(f, g) \in [DOMAIN f \cup DOMAIN g -> T]
  BY PartialColumn DEF Over
<1> QED
  BY <1>1, PartialColumn

\* The columns a request may write, by name
LEMMA WrittenColumns ==
  ASSUME NEW w \in Writes
  PROVE  /\ w.archived \in PartialOf({"row"}, BOOLEAN)
         /\ w.status \in PartialOf({"row"}, {"draft", "active", "archived"})
         /\ w.block \in PartialOf(Blocks, {"active", "archived"})
         /\ w.field \in PartialOf(Fields, {"active", "inactive", "archived"})
         /\ w.required \in PartialOf(Fields, BOOLEAN)
         /\ w.value \in PartialOf(Fields, {"none", "empty", "filled"})
         /\ w.base \in PartialOf({"row"}, Schemas)
         /\ w.template \in PartialOf({"row"}, {"active", "inactive"})
         /\ w.members \in PartialOf({"row"}, SUBSET Fields)
         /\ w.cards \in PartialOf({"row"}, {"none", "base", "template"})
BY DEF Writes

\* What is written keeps the types of the database.
LEMMA AppliedIsTyped ==
  ASSUME NEW rows \in Database, NEW w \in Writes
  PROVE  Applied(rows, w) \in Database
<1> DEFINE new == Applied(rows, w)
<1>1. /\ Over(w.archived, rows.archived) \in [{"row"} -> BOOLEAN]
      /\ Over(w.status, rows.status) \in [{"row"} -> {"draft", "active", "archived"}]
      /\ Over(w.required, rows.required) \in [Fields -> BOOLEAN]
      /\ Over(w.value, rows.value) \in [Fields -> {"none", "empty", "filled"}]
      /\ Over(w.base, rows.base) \in [{"row"} -> Schemas]
      /\ Over(w.members, rows.members) \in [{"row"} -> SUBSET Fields]
      /\ Over(w.cards, rows.cards) \in [{"row"} -> {"none", "base", "template"}]
  <2>1. /\ rows.archived \in [{"row"} -> BOOLEAN]
        /\ rows.status \in [{"row"} -> {"draft", "active", "archived"}]
        /\ rows.required \in [Fields -> BOOLEAN]
        /\ rows.value \in [Fields -> {"none", "empty", "filled"}]
        /\ rows.base \in [{"row"} -> Schemas]
        /\ rows.members \in [{"row"} -> SUBSET Fields]
        /\ rows.cards \in [{"row"} -> {"none", "base", "template"}]
    BY DEF Database
  <2> QED
    BY <2>1, WrittenColumns, OverColumn
<1>2. Over(w.block, rows.block) \in [Blocks -> {"none", "active", "archived"}]
  <2>1. rows.block \in [Blocks -> {"none", "active", "archived"}]
    BY DEF Database
  <2> QED
    BY <2>1, WrittenColumns, OverColumn
<1>3. Over(w.field, rows.field) \in [Fields -> {"none", "active", "inactive", "archived"}]
  <2>1. rows.field \in [Fields -> {"none", "active", "inactive", "archived"}]
    BY DEF Database
  <2> QED
    BY <2>1, WrittenColumns, OverColumn
<1>4. Over(w.template, rows.template) \in [{"row"} -> {"none", "active", "inactive"}]
  <2>1. rows.template \in [{"row"} -> {"none", "active", "inactive"}]
    BY DEF Database
  <2> QED
    BY <2>1, WrittenColumns, OverColumn
<1> QED
  BY <1>1, <1>2, <1>3, <1>4 DEF Applied, Columns, Database

LEMMA BothAreTyped ==
  ASSUME NEW v \in Writes, NEW w \in Writes
  PROVE  Both(v, w) \in Writes
<1>1. /\ Over(v.archived, w.archived) \in PartialOf({"row"}, BOOLEAN)
      /\ Over(v.status, w.status) \in PartialOf({"row"}, {"draft", "active", "archived"})
      /\ Over(v.block, w.block) \in PartialOf(Blocks, {"active", "archived"})
      /\ Over(v.field, w.field) \in PartialOf(Fields, {"active", "inactive", "archived"})
      /\ Over(v.required, w.required) \in PartialOf(Fields, BOOLEAN)
      /\ Over(v.value, w.value) \in PartialOf(Fields, {"none", "empty", "filled"})
      /\ Over(v.base, w.base) \in PartialOf({"row"}, Schemas)
      /\ Over(v.template, w.template) \in PartialOf({"row"}, {"active", "inactive"})
      /\ Over(v.members, w.members) \in PartialOf({"row"}, SUBSET Fields)
      /\ Over(v.cards, w.cards) \in PartialOf({"row"}, {"none", "base", "template"})
  BY WrittenColumns, OverWritten
<1> QED
  BY <1>1 DEF Both, Applied, Columns, Writes

\* A column of which nothing is written
LEMMA NothingIsWritten ==
  NoWrites \in Writes /\ \A column \in Columns : DOMAIN NoWrites[column] = {}
<1>1. \A S, T : NoRow \in PartialOf(S, T)
  BY PartialColumn DEF NoRow
<1>2. NoWrites \in Writes
  BY <1>1 DEF NoWrites, Columns, Writes
<1> QED
  BY <1>2 DEF NoWrites, NoRow

\* One row of one column
LEMMA RowIsWritten ==
  ASSUME NEW column \in Columns, NEW id, NEW value
  PROVE  /\ DOMAIN Row(column, id, value)[column] = {id}
         /\ Row(column, id, value)[column][id] = value
         /\ \A c \in Columns \ {column} : /\ Row(column, id, value)[c] = NoRow
                                          /\ DOMAIN Row(column, id, value)[c] = {}
BY DEF Row, NoWrites, NoRow

LEMMA RowsAreTyped ==
  /\ \A b \in Blocks, v \in {"active", "archived"} : Row("block", b, v) \in Writes
  /\ \A f \in Fields, v \in {"active", "inactive", "archived"} : Row("field", f, v) \in Writes
  /\ \A f \in Fields, v \in BOOLEAN : Row("required", f, v) \in Writes
  /\ \A f \in Fields, v \in {"none", "empty", "filled"} : Row("value", f, v) \in Writes
  /\ \A schema \in Schemas : One("base", schema) \in Writes
  /\ \A v \in {"active", "inactive"} : One("template", v) \in Writes
  /\ \A members \in SUBSET Fields : One("members", members) \in Writes
  /\ \A v \in {"none", "base", "template"} : One("cards", v) \in Writes
  /\ \A v \in {"draft", "active", "archived"} : One("status", v) \in Writes
  /\ \A v \in BOOLEAN : One("archived", v) \in Writes
<1>1. \A S, T : NoRow \in PartialOf(S, T)
  BY PartialColumn DEF NoRow
<1>2. \A S, T : \A id \in S, v \in T : [i \in {id} |-> v] \in PartialOf(S, T)
  BY PartialColumn
<1> USE <1>1, <1>2 DEF One, Row, NoWrites, Columns, Writes
<1>3. \A b \in Blocks, v \in {"active", "archived"} : Row("block", b, v) \in Writes
  OBVIOUS
<1>4. \A f \in Fields, v \in {"active", "inactive", "archived"} : Row("field", f, v) \in Writes
  OBVIOUS
<1>5. \A f \in Fields, v \in BOOLEAN : Row("required", f, v) \in Writes
  OBVIOUS
<1>6. \A f \in Fields, v \in {"none", "empty", "filled"} : Row("value", f, v) \in Writes
  OBVIOUS
<1>7. \A schema \in Schemas : One("base", schema) \in Writes
  OBVIOUS
<1>8. \A v \in {"active", "inactive"} : One("template", v) \in Writes
  OBVIOUS
<1>9. \A members \in SUBSET Fields : One("members", members) \in Writes
  OBVIOUS
<1>10. \A v \in {"none", "base", "template"} : One("cards", v) \in Writes
  OBVIOUS
<1>11. \A v \in {"draft", "active", "archived"} : One("status", v) \in Writes
  OBVIOUS
<1>12. \A v \in BOOLEAN : One("archived", v) \in Writes
  OBVIOUS
<1> QED
  BY <1>3, <1>4, <1>5, <1>6, <1>7, <1>8, <1>9, <1>10, <1>11, <1>12

\* The rows of a column written twice
LEMMA BothAreWritten ==
  ASSUME NEW v, NEW w, NEW column \in Columns
  PROVE  /\ DOMAIN Both(v, w)[column] = DOMAIN v[column] \cup DOMAIN w[column]
         /\ \A id \in DOMAIN Both(v, w)[column] :
              Both(v, w)[column][id] = IF id \in DOMAIN v[column] THEN v[column][id]
                                                                  ELSE w[column][id]
BY DEF Both, Applied, Over

\* What is read after a change
LEMMA AppliedIsRead ==
  ASSUME NEW rows \in Database, NEW w \in Writes
  PROVE  /\ \A f \in Fields : Applied(rows, w).field[f] =
              IF f \in DOMAIN w.field THEN w.field[f] ELSE rows.field[f]
         /\ \A b \in Blocks : Applied(rows, w).block[b] =
              IF b \in DOMAIN w.block THEN w.block[b] ELSE rows.block[b]
         /\ Schema(Applied(rows, w)) =
              IF DOMAIN w.base = {} THEN Schema(rows) ELSE w.base["row"]
<1>1. /\ DOMAIN rows.field = Fields /\ DOMAIN rows.block = Blocks /\ DOMAIN rows.base = {"row"}
  BY DEF Database
<1>2. DOMAIN w.field \subseteq Fields /\ DOMAIN w.block \subseteq Blocks /\ DOMAIN w.base \subseteq {"row"}
  BY WrittenColumns, PartialColumn
<1> QED
  BY <1>1, <1>2 DEF Applied, Over, Columns, Schema

-----------------------------------------------------------------------------
(* Steps of one request that leave the database as it is *)

Others(r) == \A s \in Requests \ {r} :
               /\ pc'[s] = pc[s] /\ writes'[s] = writes[s] /\ reserved'[s] = reserved[s]
               /\ ensures'[s] = ensures[s] /\ syncs'[s] = syncs[s] /\ copy'[s] = copy[s]

\* What request r is about to do is apart from what the others are.
StaysApart(r) == \A s \in Requests \ {r} :
  /\ ~(HoldsBase(r)' /\ HoldsBase(s))
  /\ IsFlushed(r)' /\ IsFlushed(s) => DOMAIN writes'[r].block \cap DOMAIN writes[s].block = {}

HasBlocks(w) == \A f \in DOMAIN w.field :
                  w.field[f] = "active" => db.block[BlockOf[f]] # "none"

LEMMA OthersKeepTheirParts ==
  ASSUME NEW r \in Requests, Others(r), UNCHANGED <<db, overwritten>>,
         NEW s \in Requests, s # r,
         FollowsItsSteps(s), CreatesOrChanges(s), CreatesNew(s), WillFollow(s), WillKeepLayout(s)
  PROVE  /\ FollowsItsSteps(s)' /\ CreatesOrChanges(s)' /\ CreatesNew(s)'
         /\ WillFollow(s)' /\ WillKeepLayout(s)'
<1>1. /\ pc'[s] = pc[s] /\ writes'[s] = writes[s] /\ reserved'[s] = reserved[s]
      /\ ensures'[s] = ensures[s] /\ syncs'[s] = syncs[s] /\ copy'[s] = copy[s] /\ db' = db /\ overwritten' = overwritten
  BY DEF Others
<1>2. FollowsItsSteps(s)'
  BY <1>1 DEF FollowsItsSteps, WritesNothing, IsEnding
<1>3. CreatesOrChanges(s)' /\ CreatesNew(s)'
  BY <1>1 DEF CreatesOrChanges, CreatesNew, IsFlushed
<1>4. WillFollow(s)'
  BY <1>1 DEF WillFollow, LocksBase, NewSchema, View, Schema, IsEnding
<1>5. WillKeepLayout(s)'
  BY <1>1 DEF WillKeepLayout, LocksBase, NewSchema, Schema, IsEnding
<1> QED
  BY <1>2, <1>3, <1>4, <1>5

LEMMA OneRequestMoves ==
  ASSUME SchemaIsSound, NEW r \in Requests, Others(r), UNCHANGED <<db, overwritten>>,
         SchemaTypeOK', FollowsItsSteps(r)', CreatesOrChanges(r)', CreatesNew(r)',
         WillFollow(r)', WillKeepLayout(r)', HasBlocks(writes'[r]), StaysApart(r)
  PROVE  SchemaIsSound'
<1>1. FieldsHaveBlocks'
  BY DEF SchemaIsSound, FieldsHaveBlocks, HasBlocks, Others
<1>2. RowsAreApart'
  <2>1. ASSUME NEW s \in Requests, s # r
        PROVE  (HoldsBase(s)' <=> HoldsBase(s)) /\ (IsFlushed(s)' <=> IsFlushed(s))
               /\ writes'[s] = writes[s]
    BY <2>1 DEF Others, HoldsBase, IsFlushed, IsEnding
  <2>2. ASSUME NEW s \in Requests, NEW t \in Requests \ {s}
        PROVE  /\ ~(HoldsBase(s)' /\ HoldsBase(t)')
               /\ IsFlushed(s)' /\ IsFlushed(t)' => DOMAIN writes'[s].block \cap DOMAIN writes'[t].block = {}
    <3>1. CASE s # r /\ t # r
      BY <2>1, <3>1 DEF SchemaIsSound, RowsAreApart
    <3>2. CASE s = r
      BY <2>1, <2>2, <3>2 DEF StaysApart
    <3>3. CASE t = r
      BY <2>1, <2>2, <3>3 DEF StaysApart
    <3> QED
      BY <3>1, <3>2, <3>3
  <2> QED
    BY <2>2 DEF RowsAreApart
<1>3. ASSUME NEW s \in Requests
      PROVE  /\ FollowsItsSteps(s)' /\ CreatesOrChanges(s)' /\ CreatesNew(s)'
             /\ WillFollow(s)' /\ WillKeepLayout(s)'
  BY OthersKeepTheirParts DEF SchemaIsSound
<1>4. BaseFollowsFields'
  BY DEF SchemaIsSound, BaseFollowsFields, Schema
<1> QED
  BY <1>1, <1>2, <1>3, <1>4 DEF SchemaIsSound

\* Columns that a change of blocks and fields leaves alone
Unwritten == {"base", "archived", "status", "template", "cards"}

\* A request that starts with unlocked reads has flushed nothing.
LEMMA BeginIsSound ==
  ASSUME SchemaIsSound, NEW r \in Requests, NEW w \in Writes, NEW locked \in SUBSET {"card"},
         NEW ensure \in BOOLEAN, NEW sync \in BOOLEAN,
         Begin(r, w, locked, ensure, sync), HasBlocks(w),
         IF ensure
           THEN /\ \A column \in Unwritten : DOMAIN w[column] = {}
                /\ \A b \in DOMAIN w.block : w.block[b] # "active"
                /\ locked = {}
           ELSE DOMAIN w.field = {} /\ \A b \in DOMAIN w.block : w.block[b] = "active",
         locked # {} => ~sync /\ DOMAIN w.cards = {},
         DOMAIN w.cards # {} => DOMAIN w.base = {}
  PROVE  SchemaIsSound'
<1>1. SchemaTypeOK /\ FollowsItsSteps(r)
  BY DEF SchemaIsSound
<1>2. /\ pc[r] = "idle" /\ pc'[r] = "flush" /\ writes'[r] = w /\ ensures'[r] = ensure
      /\ syncs'[r] = sync /\ reserved'[r] = locked /\ Others(r)
      /\ UNCHANGED <<db, copy, overwritten>>
  BY <1>1 DEF Begin, SchemaTypeOK, Others
<1>3. SchemaTypeOK'
  <2>1. locked \in SUBSET LockedRows
    BY DEF LockedRows
  <2> QED
    BY <1>1, <2>1 DEF Begin, SchemaTypeOK, Steps
<1>4. FollowsItsSteps(r)'
  BY <1>2 DEF FollowsItsSteps, Unwritten, IsEnding
<1>5. CreatesOrChanges(r)' /\ CreatesNew(r)' /\ WillFollow(r)' /\ WillKeepLayout(r)'
  BY <1>2 DEF CreatesOrChanges, Unwritten, CreatesNew, IsFlushed, WillFollow, WillKeepLayout, LocksBase, IsEnding
<1>6. StaysApart(r) /\ HasBlocks(writes'[r])
  BY <1>2 DEF StaysApart, HoldsBase, IsFlushed, IsEnding
<1> QED
  BY <1>2, <1>3, <1>4, <1>5, <1>6, OneRequestMoves

\* A row that another request does not have is in none of its changes.
LEMMA FreeRow ==
  ASSUME NEW s \in Requests, NEW row, ~Has(s, row)
  PROVE  /\ row \notin reserved[s]
         /\ row = "base" /\ IsFlushed(s) => DOMAIN writes[s].base = {}
         /\ row \in Blocks /\ IsFlushed(s) => row \notin DOMAIN writes[s].block
BY SchemaAssumption DEF Has, Written

\* The registry and the base template are written by their columns only.
LEMMA NamedRows ==
  ASSUME NEW w \in Writes
  PROVE  /\ "base" \in Written(w) => DOMAIN w.base # {}
         /\ "registry" \in Written(w) => DOMAIN w.archived \cup DOMAIN w.status # {}
<1>1. /\ DOMAIN w.block \subseteq Blocks /\ DOMAIN w.field \subseteq Fields
      /\ DOMAIN w.required \subseteq Fields
  BY WrittenColumns, PartialColumn
<1> QED
  BY <1>1, SchemaAssumption DEF Written

\* What it has flushed is new, and apart from what others have.
LEMMA FlushIsSound ==
  ASSUME SchemaIsSound, NEW r \in Requests, Flush(r)
  PROVE  SchemaIsSound'
<1> DEFINE w == writes[r]
<1>1. SchemaTypeOK /\ FollowsItsSteps(r) /\ CreatesOrChanges(r) /\ FieldsHaveBlocks /\ w \in Writes
  BY DEF SchemaIsSound, SchemaTypeOK
<1>2. /\ pc[r] = "flush" /\ pc'[r] = AfterFlush(r) /\ reserved[r] \subseteq {"card"} /\ Others(r)
      /\ UNCHANGED <<db, writes, reserved, ensures, syncs, copy, overwritten>>
  BY <1>1 DEF Flush, SchemaTypeOK, FollowsItsSteps, Others, IsEnding
<1>3. SchemaTypeOK'
  BY <1>1 DEF Flush, SchemaTypeOK, AfterFlush, Steps
<1>4. FollowsItsSteps(r)'
  BY <1>1, <1>2 DEF FollowsItsSteps, WritesNothing, AfterFlush, IsEnding
<1>5. CreatesOrChanges(r)' /\ WillFollow(r)' /\ WillKeepLayout(r)' /\ HasBlocks(writes'[r])
  <2>1. DOMAIN w.field \subseteq Fields
    BY <1>1, WrittenColumns, PartialColumn
  <2>2. CreatesOrChanges(r)'
    BY <1>1, <1>2 DEF CreatesOrChanges
  <2>3. ~LocksBase(r)'
    BY <1>2 DEF LocksBase, IsEnding
  <2> QED
    BY <1>1, <1>2, <2>1, <2>2, <2>3 DEF WillFollow, WillKeepLayout, HasBlocks, FieldsHaveBlocks
<1>6. CreatesNew(r)'
  BY <1>2 DEF Flush, IsDuplicate, CreatesNew
<1>7. \A s \in Requests \ {r} : \A row \in Written(w) : ~Has(s, row)
  BY <1>2 DEF Flush, Waits, WaitsFor
<1>8. StaysApart(r)
  <2>1. DOMAIN w.block \subseteq Blocks
    BY <1>1, WrittenColumns, PartialColumn
  <2>2. ASSUME NEW s \in Requests \ {r} PROVE ~(HoldsBase(r)' /\ HoldsBase(s))
    <3>1. ASSUME HoldsBase(r)' PROVE "base" \in Written(w)
      BY <1>2, <3>1 DEF HoldsBase, Written, IsEnding
    <3> QED
      BY <1>7, <2>2, <3>1, FreeRow DEF HoldsBase, IsFlushed, IsEnding
  <2>3. ASSUME NEW s \in Requests \ {r}, IsFlushed(s)
        PROVE  DOMAIN w.block \cap DOMAIN writes[s].block = {}
    <3>1. DOMAIN w.block \subseteq Written(w)
      BY <2>1 DEF Written
    <3> QED
      BY <1>7, <2>1, <2>3, <3>1, FreeRow
  <2> QED
    BY <1>2, <2>2, <2>3 DEF StaysApart
<1> QED
  BY <1>2, <1>3, <1>4, <1>5, <1>6, <1>8, OneRequestMoves

\* A step of a flushed request that writes nothing and leaves the base
\* template as it has it
LEMMA FlushedIsSound ==
  ASSUME SchemaIsSound, NEW r \in Requests, Others(r),
         UNCHANGED <<db, writes, ensures, copy, overwritten>>,
         SchemaTypeOK', FollowsItsSteps(r)', IsFlushed(r), LocksBase(r)' <=> LocksBase(r),
         HoldsBase(r)' => HoldsBase(r)
  PROVE  SchemaIsSound'
<1>1. /\ SchemaTypeOK /\ FollowsItsSteps(r) /\ CreatesOrChanges(r) /\ CreatesNew(r)
      /\ WillFollow(r) /\ WillKeepLayout(r)
      /\ FieldsHaveBlocks /\ RowsAreApart /\ writes[r] \in Writes
  BY DEF SchemaIsSound, SchemaTypeOK
<1>2. CreatesOrChanges(r)' /\ CreatesNew(r)'
  BY <1>1 DEF CreatesOrChanges, CreatesNew
<1>3. WillFollow(r)' /\ WillKeepLayout(r)'
  <2>1. WillFollow(r)'
    BY <1>1 DEF WillFollow, NewSchema, View, Schema
  <2>2. WillKeepLayout(r)'
    BY <1>1 DEF WillKeepLayout, NewSchema, Schema
  <2> QED
    BY <2>1, <2>2
<1>4. HasBlocks(writes'[r])
  <2>1. DOMAIN writes[r].field \subseteq Fields
    BY <1>1, WrittenColumns, PartialColumn
  <2> QED
    BY <1>1, <2>1 DEF HasBlocks, FieldsHaveBlocks
<1>5. StaysApart(r)
  BY <1>1 DEF StaysApart, RowsAreApart
<1> QED
  BY <1>2, <1>3, <1>4, <1>5, OneRequestMoves

\* The lock of the registry alone
LEMMA LockRegistryIsSound ==
  ASSUME SchemaIsSound, NEW r \in Requests, LockRegistry(r)
  PROVE  SchemaIsSound'
<1>1. SchemaTypeOK /\ FollowsItsSteps(r)
  BY DEF SchemaIsSound
<1>2. /\ pc[r] = "refresh" /\ pc'[r] = "base" /\ reserved[r] = {} /\ reserved'[r] = {"registry"}
      /\ Others(r) /\ UNCHANGED <<db, writes, ensures, syncs, copy, overwritten>>
  BY <1>1 DEF LockRegistry, SchemaTypeOK, FollowsItsSteps, Others, IsEnding
<1>3. SchemaTypeOK'
  BY <1>1 DEF LockRegistry, SchemaTypeOK, Steps, LockedRows
<1>4. FollowsItsSteps(r)'
  BY <1>1, <1>2 DEF FollowsItsSteps, WritesNothing, IsEnding
<1>5. IsFlushed(r) /\ ~LocksBase(r) /\ ~LocksBase(r)' /\ ~HoldsBase(r)'
  BY <1>2 DEF IsFlushed, LocksBase, HoldsBase, IsEnding
<1> QED
  BY <1>2, <1>3, <1>4, <1>5, FlushedIsSound

\* The share of a new card in its template
LEMMA ShareTemplateIsSound ==
  ASSUME SchemaIsSound, NEW r \in Requests, ShareTemplate(r)
  PROVE  SchemaIsSound'
<1>1. SchemaTypeOK /\ FollowsItsSteps(r)
  BY DEF SchemaIsSound
<1>2. /\ pc[r] = "share" /\ pc'[r] = "commit" /\ reserved[r] = {} /\ reserved'[r] = {}
      /\ Others(r) /\ UNCHANGED <<db, writes, ensures, syncs, copy, overwritten>>
      /\ ~ensures[r] /\ DOMAIN writes[r].base = {}
  BY <1>1 DEF ShareTemplate, SchemaTypeOK, FollowsItsSteps, Others, IsEnding
<1>3. SchemaTypeOK'
  BY <1>1 DEF ShareTemplate, SchemaTypeOK, Steps
<1>4. FollowsItsSteps(r)'
  BY <1>1, <1>2 DEF FollowsItsSteps, WritesNothing, IsEnding
<1>5. IsFlushed(r) /\ ~LocksBase(r) /\ ~LocksBase(r)' /\ ~HoldsBase(r)'
  BY <1>2 DEF IsFlushed, LocksBase, HoldsBase, IsEnding
<1> QED
  BY <1>2, <1>3, <1>4, <1>5, FlushedIsSound

\* The synchronization of the cards keeps what the request has.
LEMMA SynchronizeIsSound ==
  ASSUME SchemaIsSound, NEW r \in Requests, Synchronize(r) \/ WriteStatus(r)
  PROVE  SchemaIsSound'
<1>1. SchemaTypeOK /\ FollowsItsSteps(r)
  BY DEF SchemaIsSound
<1>2. /\ pc[r] \in {"sync", "card"} /\ pc'[r] \in {"card", "commit"}
      /\ reserved'[r] \in {reserved[r], reserved[r] \cup {"card"}}
      /\ pc'[r] = "card" => reserved'[r] = reserved[r]
      /\ Others(r) /\ UNCHANGED <<db, writes, ensures, syncs, copy, overwritten>>
  BY <1>1 DEF Synchronize, WriteStatus, SchemaTypeOK, Others
<1>3. SchemaTypeOK'
  BY <1>1 DEF Synchronize, WriteStatus, SchemaTypeOK, Steps, LockedRows
<1>4. FollowsItsSteps(r)'
  BY <1>1, <1>2 DEF FollowsItsSteps, WritesNothing, IsEnding
<1>5. IsFlushed(r) /\ (LocksBase(r)' <=> LocksBase(r)) /\ (HoldsBase(r)' => HoldsBase(r))
  BY <1>2 DEF IsFlushed, LocksBase, HoldsBase, IsEnding
<1> QED
  BY <1>2, <1>3, <1>4, <1>5, FlushedIsSound

\* The same fields and blocks have the same active fields.
LEMMA SameActive ==
  ASSUME NEW rows, NEW others,
         \A f \in Fields : rows.field[f] = others.field[f],
         \A b \in Blocks : rows.block[b] = others.block[b]
  PROVE  Active(rows) = Active(others)
BY SchemaAssumption DEF Active

\* A change of the base template alone
LEMMA BaseIsWritten ==
  ASSUME NEW schema \in Schemas
  PROVE  /\ One("base", schema) \in Writes
         /\ DOMAIN One("base", schema).base = {"row"} /\ One("base", schema).base["row"] = schema
         /\ \A column \in Columns \ {"base"} : DOMAIN One("base", schema)[column] = {}
<1>1. "base" \in Columns
  BY DEF Columns
<1> QED
  BY <1>1, RowIsWritten, RowsAreTyped DEF One

LEMMA SchemasAreTyped ==
  ASSUME SchemaTypeOK
  PROVE  /\ Schema(db) \in Schemas
         /\ \A rows \in Database : Schema(rows) \in Schemas
         /\ \A schema \in Schemas : \A rows :
              /\ WithActiveFields(schema, rows) \in Schemas
              /\ WithActiveFields(schema, rows).fields = Active(rows)
              /\ WithActiveFields(schema, rows).layout = schema.layout
         /\ \A schema \in Schemas, layout \in Layouts :
              /\ [schema EXCEPT !.layout = layout] \in Schemas
              /\ [schema EXCEPT !.layout = layout].fields = schema.fields
              /\ [schema EXCEPT !.layout = layout].layout = layout
<1>1. \A rows \in Database : Schema(rows) \in Schemas
  BY DEF Database, Schema
<1>2. \A schema \in Schemas : \A rows :
        /\ WithActiveFields(schema, rows) \in Schemas
        /\ WithActiveFields(schema, rows).fields = Active(rows)
        /\ WithActiveFields(schema, rows).layout = schema.layout
  BY DEF Schemas, WithActiveFields, Active
<1> QED
  BY <1>1, <1>2 DEF SchemaTypeOK, Schemas

\* Under the lock it writes the fields active once it commits, and the layout
\* there is.
LEMMA RefreshBaseIsSound ==
  ASSUME SchemaIsSound, NEW r \in Requests, RefreshBase(r)
  PROVE  SchemaIsSound'
<1> DEFINE schema == WithActiveFields(Schema(db), View(r))
           w == Both(writes[r], One("base", schema))
<1>1. /\ SchemaTypeOK /\ FollowsItsSteps(r) /\ CreatesOrChanges(r) /\ CreatesNew(r)
      /\ FieldsHaveBlocks /\ RowsAreApart /\ writes[r] \in Writes /\ db \in Database
  BY DEF SchemaIsSound, SchemaTypeOK
<1>2. /\ pc[r] = "base" /\ pc'[r] \in {"sync", "commit"} /\ reserved[r] = {"registry"}
      /\ reserved'[r] = {"registry", "base"} /\ writes'[r] = w
      /\ Others(r) /\ UNCHANGED <<db, ensures, syncs, overwritten>>
      /\ ensures[r] /\ DOMAIN writes[r].base = {} /\ DOMAIN writes[r].cards = {}
  BY <1>1 DEF RefreshBase, AfterBase, SchemaTypeOK, FollowsItsSteps, CreatesOrChanges, Others, Columns, IsEnding
<1>3. schema \in Schemas /\ schema.fields = Active(View(r)) /\ schema.layout = Schema(db).layout
  BY <1>1, SchemasAreTyped
<1>4. /\ One("base", schema) \in Writes /\ w \in Writes
      /\ \A column \in Columns \ {"base"} : DOMAIN w[column] = DOMAIN writes[r][column]
      /\ \A column \in Columns \ {"base"} : \A id \in DOMAIN writes[r][column] :
           w[column][id] = writes[r][column][id]
      /\ DOMAIN w.base = {"row"} /\ w.base["row"] = schema
  <2>1. One("base", schema) \in Writes /\ w \in Writes
    BY <1>1, <1>3, BaseIsWritten, BothAreTyped
  <2>2. ASSUME NEW column \in Columns \ {"base"}
        PROVE  /\ DOMAIN w[column] = DOMAIN writes[r][column]
               /\ \A id \in DOMAIN writes[r][column] : w[column][id] = writes[r][column][id]
    <3>1. DOMAIN One("base", schema)[column] = {}
      BY <1>3, BaseIsWritten
    <3>2. DOMAIN w[column] = DOMAIN writes[r][column] \cup DOMAIN One("base", schema)[column]
      BY BothAreWritten
    <3>3. DOMAIN w[column] = DOMAIN writes[r][column]
      BY <3>1, <3>2
    <3> QED
      BY <3>3, BothAreWritten
  <2>3. DOMAIN w.base = {"row"} /\ w.base["row"] = schema
    BY <1>2, <1>3, BaseIsWritten, BothAreWritten DEF Columns
  <2> QED
    BY <2>1, <2>2, <2>3
<1>5. /\ DOMAIN w.block = DOMAIN writes[r].block /\ DOMAIN w.field = DOMAIN writes[r].field
      /\ \A b \in DOMAIN w.block : w.block[b] = writes[r].block[b]
      /\ \A f \in DOMAIN w.field : w.field[f] = writes[r].field[f]
  BY <1>4 DEF Columns
<1>6. SchemaTypeOK'
  <2>1. copy' \in [Requests -> Schemas]
    BY <1>1, SchemasAreTyped DEF RefreshBase, SchemaTypeOK
  <2> QED
    BY <1>1, <1>4, <2>1 DEF RefreshBase, AfterBase, SchemaTypeOK, Steps, LockedRows
<1>7. FollowsItsSteps(r)' /\ CreatesOrChanges(r)'
  <2>1. DOMAIN w.cards = {} /\ DOMAIN w.template = {}
    BY <1>1, <1>2, <1>4 DEF CreatesOrChanges, Columns
  <2>2. FollowsItsSteps(r)'
    BY <1>2, <1>4, <2>1 DEF FollowsItsSteps, IsEnding
  <2>3. CreatesOrChanges(r)'
    BY <1>1, <1>2, <1>5, <2>1 DEF CreatesOrChanges
  <2> QED
    BY <2>2, <2>3
<1>8. CreatesNew(r)'
  BY <1>1, <1>2, <1>5 DEF CreatesNew, IsFlushed
<1>9. WillFollow(r)'
  <2>1. /\ \A f \in Fields : View(r).field[f] = Applied(db, w).field[f]
        /\ \A b \in Blocks : View(r).block[b] = Applied(db, w).block[b]
    BY <1>1, <1>4, <1>5, AppliedIsRead DEF View
  <2>2. Active(View(r)) = Active(Applied(db, w))
    BY <2>1, SameActive
  <2>3. View(r)' = Applied(db, w)
    BY <1>2 DEF View
  <2> QED
    BY <1>2, <1>3, <1>4, <2>2, <2>3 DEF WillFollow, NewSchema
<1>10. WillKeepLayout(r)'
  BY <1>2, <1>3, <1>4 DEF WillKeepLayout, NewSchema, Schema
<1>11. HasBlocks(writes'[r])
  <2>1. DOMAIN writes[r].field \subseteq Fields
    BY <1>1, WrittenColumns, PartialColumn
  <2> QED
    BY <1>1, <1>2, <1>5, <2>1 DEF HasBlocks, FieldsHaveBlocks
<1>12. StaysApart(r)
  <2>1. \A s \in Requests \ {r} : ~HoldsBase(s)
    <3>1. \A s \in Requests \ {r} : ~Has(s, "base")
      BY <1>2 DEF RefreshBase, Waits, WaitsFor
    <3> QED
      BY <3>1, FreeRow DEF HoldsBase, IsFlushed, IsEnding
  <2>2. IsFlushed(r) /\ \A s \in Requests \ {r} : IsFlushed(s) =>
          DOMAIN writes'[r].block \cap DOMAIN writes[s].block = {}
    BY <1>1, <1>2, <1>5 DEF RowsAreApart, IsFlushed
  <2> QED
    BY <2>1, <2>2 DEF StaysApart
<1> QED
  BY <1>2, <1>6, <1>7, <1>8, <1>9, <1>10, <1>11, <1>12, OneRequestMoves

\* A change made at once under the lock of a template that is free
LEMMA LockedIsSound ==
  ASSUME SchemaIsSound, NEW r \in Requests, NEW row \in {"base", "template", "card"},
         NEW w \in Writes, NEW to \in {"sync", "commit"},
         Locked(r, row, w, to), row = "card" => to = "commit", copy' \in [Requests -> Schemas],
         \A s \in Requests \ {r} : copy'[s] = copy[s],
         DOMAIN w.field = {}, DOMAIN w.block = {},
         row # "base" => DOMAIN w.base = {},
         row = "base" =>
           /\ DOMAIN w.base = {"row"} /\ DOMAIN w.cards = {}
           /\ w.base["row"].fields \in {Active(db), Schema(db).fields}
           /\ \/ w.base["row"].layout = Schema(db).layout
              \/ /\ w.base["row"].layout # "default"
                 /\ Resolved(copy'[r]) = Resolved(Schema(db))
  PROVE  SchemaIsSound'
<1>1. SchemaTypeOK /\ FollowsItsSteps(r) /\ BaseFollowsFields /\ db \in Database
  BY DEF SchemaIsSound, SchemaTypeOK
<1>2. /\ pc[r] = "idle" /\ pc'[r] = to /\ reserved'[r] = {row} /\ writes'[r] = w
      /\ ~ensures[r] /\ Others(r) /\ UNCHANGED <<db, ensures, syncs, overwritten>>
  BY <1>1 DEF Locked, SchemaTypeOK, FollowsItsSteps, Others, IsEnding
<1>3. SchemaTypeOK'
  BY <1>1 DEF Locked, SchemaTypeOK, Steps, LockedRows
<1>4. FollowsItsSteps(r)' /\ CreatesOrChanges(r)' /\ CreatesNew(r)' /\ HasBlocks(writes'[r])
  <2>1. FollowsItsSteps(r)'
    BY <1>2 DEF FollowsItsSteps, IsEnding
  <2> QED
    BY <1>2, <2>1 DEF CreatesOrChanges, CreatesNew, HasBlocks
<1>5. WillFollow(r)'
  <2>1. CASE row = "base"
    <3>1. Active(View(r)') = Active(db)
      <4>1. View(r)' = Applied(db, w)
        BY <1>2 DEF View
      <4> QED
        BY <1>1, <4>1, AppliedIsRead, SameActive
    <3>2. NewSchema(r)' = w.base["row"] /\ Schema(db)' = Schema(db) /\ overwritten' = overwritten
      BY <1>2 DEF NewSchema, Schema
    <3>3. \/ NewSchema(r)'.fields = Active(View(r)')
          \/ overwritten' /\ NewSchema(r)'.fields = Schema(db)'.fields
      BY <1>1, <2>1, <3>1, <3>2 DEF BaseFollowsFields
    <3>4. Active(View(r)') = Active(View(r))'
      BY DEF Active
    <3> QED
      BY <3>3, <3>4 DEF WillFollow
  <2>2. CASE row # "base"
    BY <1>2, <2>2 DEF WillFollow, LocksBase, IsEnding
  <2> QED
    BY <2>1, <2>2
<1>6. WillKeepLayout(r)'
  <2>1. CASE row = "base"
    BY <1>2, <2>1 DEF WillKeepLayout, NewSchema, Schema
  <2>2. CASE row # "base"
    BY <1>2, <2>2 DEF WillKeepLayout, LocksBase, IsEnding
  <2> QED
    BY <2>1, <2>2
<1>7. StaysApart(r)
  <2>1. ASSUME NEW s \in Requests \ {r} PROVE ~(HoldsBase(r)' /\ HoldsBase(s))
    <3>1. CASE row = "base"
      BY <3>1, FreeRow DEF Locked, HoldsBase, IsFlushed, IsEnding
    <3>2. CASE row # "base"
      BY <1>2, <3>2 DEF HoldsBase, IsEnding
    <3> QED
      BY <3>1, <3>2
  <2> QED
    BY <1>2, <2>1 DEF StaysApart
<1> QED
  BY <1>2, <1>3, <1>4, <1>5, <1>6, <1>7, OneRequestMoves

\* A step that leaves a request with nothing flushed and nothing locked
LEMMA UnflushedIsSound ==
  ASSUME SchemaIsSound, NEW r \in Requests, Others(r), UNCHANGED <<db, overwritten>>,
         SchemaTypeOK', FollowsItsSteps(r)', pc'[r] \in {"idle", "reload", "flush"},
         CreatesOrChanges(r)', HasBlocks(writes'[r])
  PROVE  SchemaIsSound'
<1>1. CreatesNew(r)' /\ WillFollow(r)' /\ WillKeepLayout(r)' /\ StaysApart(r)
  BY DEF CreatesNew, WillFollow, WillKeepLayout, LocksBase, StaysApart, HoldsBase, IsFlushed, IsEnding
<1> QED
  BY <1>1, OneRequestMoves

\* The base template is read without a lock ...
LEMMA RenameBaseIsSound ==
  ASSUME SchemaIsSound, NEW r \in Requests, RenameBase(r)
  PROVE  SchemaIsSound'
<1>1. SchemaTypeOK /\ FollowsItsSteps(r) /\ CreatesOrChanges(r)
  BY DEF SchemaIsSound
<1>2. /\ pc[r] = "idle" /\ pc'[r] = "reload" /\ Others(r)
      /\ UNCHANGED <<db, writes, reserved, ensures, overwritten>>
  BY <1>1 DEF RenameBase, SchemaTypeOK, Others
<1>3. SchemaTypeOK'
  BY <1>1, SchemasAreTyped DEF RenameBase, SchemaTypeOK, Steps
<1>4. FollowsItsSteps(r)' /\ CreatesOrChanges(r)' /\ HasBlocks(writes'[r])
  BY <1>1, <1>2 DEF FollowsItsSteps, WritesNothing, CreatesOrChanges, HasBlocks, Columns, IsEnding
<1> QED
  BY <1>2, <1>3, <1>4, UnflushedIsSound

\* ... and written from the copy, if at all.
LEMMA RecomputeBaseIsSound ==
  ASSUME SchemaIsSound, NEW r \in Requests, RecomputeBase(r)
  PROVE  SchemaIsSound'
<1> DEFINE schema == WithActiveFields(copy[r], db)
           w == IF schema = copy[r] THEN NoWrites ELSE One("base", schema)
<1>1. SchemaTypeOK /\ FollowsItsSteps(r) /\ CreatesOrChanges(r) /\ copy[r] \in Schemas
  BY DEF SchemaIsSound, SchemaTypeOK
<1>2. schema \in Schemas
  BY <1>1, SchemasAreTyped
<1>3. w \in Writes /\ DOMAIN w.field = {} /\ DOMAIN w.block = {} /\ DOMAIN w.cards = {}
  BY <1>2, NothingIsWritten, BaseIsWritten DEF Columns
<1>4. /\ pc[r] = "reload" /\ pc'[r] = "flush" /\ writes'[r] = w /\ Others(r) /\ reserved'[r] = {}
      /\ ~ensures'[r] /\ UNCHANGED <<db, reserved, ensures, syncs, copy, overwritten>>
  BY <1>1 DEF RecomputeBase, SchemaTypeOK, FollowsItsSteps, Others, IsEnding
<1>5. SchemaTypeOK'
  BY <1>1, <1>3 DEF RecomputeBase, SchemaTypeOK, Steps
<1>6. FollowsItsSteps(r)' /\ CreatesOrChanges(r)' /\ HasBlocks(writes'[r])
  BY <1>3, <1>4 DEF FollowsItsSteps, CreatesOrChanges, HasBlocks, IsEnding
<1> QED
  BY <1>4, <1>5, <1>6, UnflushedIsSound

\* The client reads the template while it has no request.
LEMMA OpenLayoutIsSound ==
  ASSUME SchemaIsSound, NEW r \in Requests, OpenLayout(r)
  PROVE  SchemaIsSound'
<1>1. SchemaTypeOK /\ FollowsItsSteps(r) /\ CreatesOrChanges(r)
  BY DEF SchemaIsSound
<1>2. /\ pc[r] = "idle" /\ Others(r)
      /\ UNCHANGED <<db, pc, writes, reserved, ensures, syncs, overwritten>>
  BY <1>1 DEF OpenLayout, SchemaTypeOK, Others
<1>3. SchemaTypeOK'
  BY <1>1, SchemasAreTyped DEF OpenLayout, SchemaTypeOK
<1>4. FollowsItsSteps(r)' /\ CreatesOrChanges(r)' /\ HasBlocks(writes'[r])
  BY <1>1, <1>2 DEF FollowsItsSteps, WritesNothing, CreatesOrChanges, HasBlocks, Columns, IsEnding
<1> QED
  BY <1>2, <1>3, <1>4, UnflushedIsSound

\* A request that ends keeps nothing.
LEMMA ReleaseLeavesNothing ==
  ASSUME SchemaTypeOK, NEW r \in Requests, Release(r)
  PROVE  /\ Others(r) /\ pc'[r] = "idle" /\ writes'[r] = NoWrites /\ FollowsItsSteps(r)'
         /\ CreatesOrChanges(r)' /\ HasBlocks(writes'[r])
         /\ pc' \in [Requests -> Steps]
         /\ writes' \in [Requests -> Writes]
         /\ ensures' \in [Requests -> BOOLEAN] /\ syncs' \in [Requests -> BOOLEAN]
         /\ reserved' \in [Requests -> SUBSET LockedRows]
<1>1. /\ pc'[r] = "idle" /\ writes'[r] = NoWrites /\ reserved'[r] = {} /\ ~ensures'[r] /\ Others(r)
  BY DEF Release, SchemaTypeOK, Others
<1>2. \A column \in Columns : DOMAIN writes'[r][column] = {}
  BY <1>1, NothingIsWritten
<1>3. FollowsItsSteps(r)' /\ CreatesOrChanges(r)' /\ HasBlocks(writes'[r])
  BY <1>1, <1>2 DEF FollowsItsSteps, WritesNothing, CreatesOrChanges, HasBlocks, Columns, IsEnding
<1> QED
  BY <1>1, <1>3, NothingIsWritten DEF Release, SchemaTypeOK, Steps, LockedRows

LEMMA FailIsSound ==
  ASSUME SchemaIsSound, NEW r \in Requests, Fail(r)
  PROVE  SchemaIsSound'
<1>1. SchemaTypeOK /\ Release(r) /\ UNCHANGED <<db, overwritten>>
  BY DEF SchemaIsSound, Fail
<1>2. SchemaTypeOK'
  BY <1>1, ReleaseLeavesNothing DEF SchemaTypeOK, Release
<1> QED
  BY <1>1, <1>2, ReleaseLeavesNothing, UnflushedIsSound

-----------------------------------------------------------------------------
(* The commit *)

\* A request that neither refreshes nor writes the base template leaves the
\* active fields alone: the blocks it creates have no field yet.
LEMMA PlainCommitKeepsActive ==
  ASSUME SchemaIsSound, NEW r \in Requests, pc[r] = "commit", ~ensures[r],
         NEW w \in Writes, NEW rows \in Database, rows = Applied(db, w),
         NEW after \in Database, after = Applied(Applied(db, writes[r]), w),
         DOMAIN w.block \cap DOMAIN writes[r].block = {},
         \A f \in DOMAIN w.field : w.field[f] = "active" => db.block[BlockOf[f]] # "none"
  PROVE  Active(after) = Active(rows)
<1>1. /\ SchemaTypeOK /\ CreatesOrChanges(r) /\ CreatesNew(r) /\ FieldsHaveBlocks
      /\ db \in Database /\ writes[r] \in Writes
  BY DEF SchemaIsSound, SchemaTypeOK
<1>2. /\ DOMAIN writes[r].field = {}
      /\ \A b \in DOMAIN writes[r].block : db.block[b] = "none"
  BY <1>1 DEF CreatesOrChanges, CreatesNew, IsFlushed
<1>3. Applied(db, writes[r]) \in Database
  BY <1>1, AppliedIsTyped
<1>4. \A f \in Fields : /\ after.field[f] = rows.field[f]
                        /\ rows.field[f] = IF f \in DOMAIN w.field THEN w.field[f] ELSE db.field[f]
  BY <1>1, <1>2, <1>3, AppliedIsRead
<1>5. \A b \in Blocks : db.block[b] # "none" => after.block[b] = rows.block[b]
  BY <1>1, <1>2, <1>3, AppliedIsRead
<1>6. \A f \in Fields : rows.field[f] = "active" => db.block[BlockOf[f]] # "none"
  BY <1>1, <1>4 DEF FieldsHaveBlocks
<1> QED
  BY <1>4, <1>5, <1>6, SchemaAssumption DEF Active

LEMMA CommitIsSound ==
  ASSUME SchemaIsSound, NEW r \in Requests, Commit(r)
  PROVE  SchemaIsSound'
<1> DEFINE w == writes[r]
<1>1. /\ SchemaTypeOK /\ FollowsItsSteps(r) /\ CreatesOrChanges(r) /\ CreatesNew(r) /\ WillFollow(r)
      /\ FieldsHaveBlocks /\ RowsAreApart /\ BaseFollowsFields /\ w \in Writes /\ db \in Database
  BY DEF SchemaIsSound, SchemaTypeOK
<1>2. /\ pc[r] = "commit" /\ Release(r) /\ db' = Applied(db, w)
      /\ overwritten' = \/ Overwrites(r)
                        \/ overwritten /\ Schema(db)'.fields = Schema(db).fields
  BY DEF Commit
<1>3. db' \in Database
  BY <1>1, <1>2, AppliedIsTyped
<1>4. SchemaTypeOK'
  <2>1. overwritten' \in BOOLEAN
    BY <1>1, <1>2 DEF SchemaTypeOK, Overwrites
  <2>2. copy' \in [Requests -> Schemas] /\ started' \in Nat
    BY <1>1, <1>2 DEF SchemaTypeOK, Release
  <2> QED
    BY <1>1, <1>2, <1>3, <2>1, <2>2, ReleaseLeavesNothing DEF SchemaTypeOK
<1>5. DOMAIN w.block \subseteq Blocks /\ DOMAIN w.field \subseteq Fields /\ DOMAIN w.base \subseteq {"row"}
  BY <1>1, WrittenColumns, PartialColumn
<1>6. /\ \A f \in Fields : db'.field[f] = IF f \in DOMAIN w.field THEN w.field[f] ELSE db.field[f]
      /\ \A b \in Blocks : db'.block[b] = IF b \in DOMAIN w.block THEN w.block[b] ELSE db.block[b]
      /\ Schema(db)' = IF DOMAIN w.base = {} THEN Schema(db) ELSE NewSchema(r)
  BY <1>1, <1>2, AppliedIsRead DEF Schema, NewSchema
<1>7. \A b \in Blocks : db.block[b] # "none" => db'.block[b] # "none"
  BY <1>1, <1>6, WrittenColumns, PartialColumn
<1>8. FieldsHaveBlocks'
  <2>1. ASSUME NEW f \in Fields, db'.field[f] = "active" PROVE db'.block[BlockOf[f]] # "none"
    BY <1>1, <1>6, <1>7, <2>1, SchemaAssumption DEF FieldsHaveBlocks
  <2>2. ASSUME NEW f \in Fields, NEW s \in Requests, f \in DOMAIN writes'[s].field,
               writes'[s].field[f] = "active"
        PROVE  db'.block[BlockOf[f]] # "none"
    <3>1. s # r
      BY <1>1, <1>2, <2>2, ReleaseLeavesNothing, NothingIsWritten DEF Columns
    <3> QED
      BY <1>1, <1>2, <1>7, <2>2, <3>1, ReleaseLeavesNothing, SchemaAssumption
         DEF FieldsHaveBlocks, Others
  <2> QED
    BY <2>1, <2>2 DEF FieldsHaveBlocks
<1>9. ASSUME NEW s \in Requests \ {r}
      PROVE  /\ pc'[s] = pc[s] /\ writes'[s] = writes[s] /\ reserved'[s] = reserved[s]
             /\ ensures'[s] = ensures[s] /\ syncs'[s] = syncs[s] /\ copy'[s] = copy[s]
  BY <1>1, <1>2, ReleaseLeavesNothing DEF Others
<1>10. ~HoldsBase(r)' /\ ~IsFlushed(r)' /\ ~LocksBase(r)'
  BY <1>1, <1>2, ReleaseLeavesNothing DEF HoldsBase, IsFlushed, LocksBase, IsEnding
<1>11. RowsAreApart'
  <2>1. ASSUME NEW s \in Requests, NEW t \in Requests \ {s}
        PROVE  /\ ~(HoldsBase(s)' /\ HoldsBase(t)')
               /\ IsFlushed(s)' /\ IsFlushed(t)' =>
                    DOMAIN writes'[s].block \cap DOMAIN writes'[t].block = {}
    <3>1. CASE s # r /\ t # r
      BY <1>1, <1>9, <2>1, <3>1 DEF RowsAreApart, HoldsBase, IsFlushed, IsEnding
    <3>2. CASE s = r \/ t = r
      BY <1>10, <3>2
    <3> QED
      BY <3>1, <3>2
  <2> QED
    BY <2>1 DEF RowsAreApart
<1>12. ~HoldsBase(r) => /\ ~ensures[r] /\ Schema(db)' = Schema(db)
                        /\ overwritten' = overwritten
  BY <1>1, <1>2, <1>6 DEF HoldsBase, FollowsItsSteps, Overwrites, SchemaTypeOK, IsEnding
<1>13. ASSUME NEW s \in Requests \ {r}
       PROVE  /\ FollowsItsSteps(s)' /\ CreatesOrChanges(s)' /\ CreatesNew(s)'
              /\ WillFollow(s)' /\ WillKeepLayout(s)'
  <2>1. FollowsItsSteps(s) /\ CreatesOrChanges(s) /\ CreatesNew(s) /\ WillFollow(s) /\ WillKeepLayout(s)
    BY DEF SchemaIsSound
  <2>2. FollowsItsSteps(s)' /\ CreatesOrChanges(s)'
    BY <1>9, <2>1 DEF FollowsItsSteps, WritesNothing, CreatesOrChanges, IsEnding
  <2>3. writes[s] \in Writes /\ DOMAIN writes[s].block \subseteq Blocks
        /\ DOMAIN writes[s].field \subseteq Fields
    BY <1>1, WrittenColumns, PartialColumn DEF SchemaTypeOK
  <2>4. IsFlushed(s) => DOMAIN writes[s].block \cap DOMAIN w.block = {}
    BY <1>1, <1>2 DEF RowsAreApart, IsFlushed
  <2>5. CreatesNew(s)'
    <3> SUFFICES ASSUME IsFlushed(s), NEW b \in DOMAIN writes[s].block, writes[s].block[b] = "active"
                 PROVE  db'.block[b] = "none"
      BY <1>9 DEF CreatesNew, IsFlushed
    <3> QED
      BY <1>6, <2>1, <2>3, <2>4 DEF CreatesNew
  <2>6. WillFollow(s)' /\ WillKeepLayout(s)'
    <3>1. CASE ~LocksBase(s)
      BY <1>9, <3>1 DEF WillFollow, WillKeepLayout, LocksBase, IsEnding
    <3>2. CASE LocksBase(s)
      <4>1. ~HoldsBase(r) /\ IsFlushed(s)
        BY <1>1, <3>2 DEF RowsAreApart, HoldsBase, LocksBase, IsFlushed, IsEnding
      <4>2. Applied(db, writes[s]) \in Database /\ Applied(db', writes[s]) \in Database
        BY <1>1, <1>3, <2>3, AppliedIsTyped
      <4>3. \A f \in DOMAIN writes[s].field :
              writes[s].field[f] = "active" => db.block[BlockOf[f]] # "none"
        BY <1>1, <2>3 DEF FieldsHaveBlocks
      <4>4. Active(Applied(db', writes[s])) = Active(Applied(db, writes[s]))
        BY <1>2, <1>12, <2>3, <2>4, <4>1, <4>2, <4>3, PlainCommitKeepsActive
      <4>5. Active(View(s))' = Active(View(s))
        BY <1>9, <4>4 DEF View, Active
      <4>6. NewSchema(s)' = NewSchema(s) /\ Schema(db)' = Schema(db) /\ overwritten' = overwritten
        BY <1>9, <1>12, <4>1 DEF NewSchema
      <4>7. WillFollow(s)'
        BY <2>1, <3>2, <4>5, <4>6 DEF WillFollow
      <4>8. WillKeepLayout(s)'
        BY <1>9, <2>1, <3>2, <4>6 DEF WillKeepLayout
      <4> QED
        BY <4>7, <4>8
    <3> QED
      BY <3>1, <3>2
  <2> QED
    BY <2>2, <2>5, <2>6
<1>14. /\ FollowsItsSteps(r)' /\ CreatesOrChanges(r)' /\ CreatesNew(r)'
       /\ WillFollow(r)' /\ WillKeepLayout(r)'
  BY <1>1, <1>2, <1>10, ReleaseLeavesNothing DEF CreatesNew, WillFollow, WillKeepLayout
<1>15. BaseFollowsFields'
  <2>1. CASE ~HoldsBase(r)
    <3>1. Active(db') = Active(db)
      <4>1. /\ \A f \in Fields : db'.field[f] = db.field[f]
            /\ \A b \in Blocks : db.block[b] # "none" => db'.block[b] = db.block[b]
        BY <1>1, <1>2, <1>6, <1>12, <2>1 DEF CreatesOrChanges, CreatesNew, IsFlushed
      <4> QED
        BY <1>1, <4>1, SchemaAssumption DEF Active, FieldsHaveBlocks
    <3>2. Active(db)' = Active(db')
      BY DEF Active
    <3> QED
      BY <1>1, <1>12, <2>1, <3>1, <3>2 DEF BaseFollowsFields
  <2>2. CASE LocksBase(r)
    <3>1. Schema(db)' = NewSchema(r)
      BY <1>1, <1>6, <2>2 DEF FollowsItsSteps, LocksBase, IsEnding
    <3>2. Active(db)' = Active(View(r))
      BY <1>2 DEF View, Active
    <3>3. overwritten /\ NewSchema(r).fields = Schema(db).fields => overwritten'
      BY <1>2, <3>1
    <3> QED
      BY <1>1, <2>2, <3>1, <3>2, <3>3 DEF WillFollow, BaseFollowsFields
  <2>3. CASE Overwrites(r)
    BY <1>2, <2>3 DEF BaseFollowsFields
  <2> QED
    BY <1>2, <2>1, <2>2, <2>3 DEF HoldsBase, LocksBase, Overwrites, IsEnding
<1> QED
  BY <1>4, <1>8, <1>11, <1>13, <1>14, <1>15 DEF SchemaIsSound

-----------------------------------------------------------------------------
(* The requests, by what they write *)

LEMMA PlainIsSound ==
  ASSUME SchemaIsSound, NEW r \in Requests, NEW w \in Writes, Plain(r, w), DOMAIN w.field = {},
         \A b \in DOMAIN w.block : w.block[b] = "active",
         DOMAIN w.cards = {} \/ DOMAIN w.base = {}
  PROVE  SchemaIsSound'
<1>1. Begin(r, w, {}, FALSE, FALSE) /\ HasBlocks(w)
  BY DEF Plain, HasBlocks
<1> QED
  BY <1>1, BeginIsSound

LEMMA ChangeIsSound ==
  ASSUME SchemaIsSound, NEW r \in Requests, NEW w \in Writes, NEW sync \in BOOLEAN,
         Begin(r, w, {}, TRUE, sync), HasBlocks(w),
         \A column \in Unwritten : DOMAIN w[column] = {},
         \A b \in DOMAIN w.block : w.block[b] # "active"
  PROVE  SchemaIsSound'
<1>1. DOMAIN w.cards = {}
  BY DEF Unwritten
<1> QED
  BY <1>1, BeginIsSound

\* The columns a change of one field leaves alone
UnwrittenByFields == Unwritten \cup {"block"}

\* It writes no block, no field and not the base template.
IsPlain(w) == DOMAIN w.block = {} /\ DOMAIN w.field = {} /\ DOMAIN w.base = {}

LEMMA OneIsPlain ==
  ASSUME NEW column \in Columns \ {"block", "field", "base"}, NEW id, NEW value
  PROVE  IsPlain(Row(column, id, value))
BY RowIsWritten DEF Columns, IsPlain

LEMMA BothArePlain ==
  ASSUME NEW v, NEW w, IsPlain(v), IsPlain(w)
  PROVE  IsPlain(Both(v, w))
<1>1. /\ DOMAIN Both(v, w)["block"] = DOMAIN v["block"] \cup DOMAIN w["block"]
      /\ DOMAIN Both(v, w)["field"] = DOMAIN v["field"] \cup DOMAIN w["field"]
      /\ DOMAIN Both(v, w)["base"] = DOMAIN v["base"] \cup DOMAIN w["base"]
  BY BothAreWritten DEF Columns
<1> QED
  BY <1>1 DEF IsPlain

\* A change of one field, with something else of it
LEMMA FieldIsChanged ==
  ASSUME SchemaTypeOK, NEW f \in Fields, db.block[BlockOf[f]] # "none",
         NEW v \in Writes, NEW w \in Writes, DOMAIN v.field \cup DOMAIN w.field \subseteq {f},
         \A column \in UnwrittenByFields : DOMAIN v[column] = {} /\ DOMAIN w[column] = {}
  PROVE  /\ Both(v, w) \in Writes /\ HasBlocks(Both(v, w))
         /\ \A column \in UnwrittenByFields : DOMAIN Both(v, w)[column] = {}
<1>1. Both(v, w) \in Writes
  BY BothAreTyped
<1>2. \A column \in UnwrittenByFields \cup {"field"} :
        DOMAIN Both(v, w)[column] = DOMAIN v[column] \cup DOMAIN w[column]
  BY BothAreWritten DEF Columns, UnwrittenByFields, Unwritten
<1>3. \A column \in UnwrittenByFields : DOMAIN Both(v, w)[column] = {}
  BY <1>2
<1>4. DOMAIN Both(v, w).field \subseteq {f}
  BY <1>2
<1> QED
  BY <1>1, <1>3, <1>4 DEF HasBlocks

LEMMA FieldRow ==
  ASSUME NEW column \in {"field", "required", "value"}, NEW f, NEW value
  PROVE  /\ DOMAIN Row(column, f, value).field \subseteq {f}
         /\ \A c \in UnwrittenByFields : DOMAIN Row(column, f, value)[c] = {}
BY RowIsWritten DEF Columns, UnwrittenByFields, Unwritten

LEMMA NoRowOfAField ==
  ASSUME NEW f
  PROVE  /\ NoWrites \in Writes /\ DOMAIN NoWrites.field \subseteq {f} /\ DOMAIN NoWrites.block = {}
         /\ \A c \in UnwrittenByFields : DOMAIN NoWrites[c] = {}
BY NothingIsWritten DEF Columns, UnwrittenByFields, Unwritten

\* Such a change, begun
LEMMA FieldChangeIsSound ==
  ASSUME SchemaIsSound, NEW r \in Requests, NEW w \in Writes, Change(r, w), HasBlocks(w),
         \A column \in UnwrittenByFields : DOMAIN w[column] = {}
  PROVE  SchemaIsSound'
<1>1. /\ \A column \in Unwritten : DOMAIN w[column] = {}
      /\ DOMAIN w.block = {}
  BY DEF UnwrittenByFields
<1> QED
  BY <1>1, ChangeIsSound DEF Change

LEMMA CreateFieldIsSound ==
  ASSUME SchemaIsSound, NEW r \in Requests, CreateField(r)
  PROVE  SchemaIsSound'
<1>1. PICK f \in Fields, required \in BOOLEAN :
        /\ db.block[BlockOf[f]] = "active"
        /\ Change(r, Both(Row("field", f, "active"), Row("required", f, required)))
  BY DEF CreateField
<1>2. Row("field", f, "active") \in Writes /\ Row("required", f, required) \in Writes
  BY RowsAreTyped
<1>3. /\ DOMAIN Row("field", f, "active").field \cup DOMAIN Row("required", f, required).field \subseteq {f}
      /\ \A c \in UnwrittenByFields :
           DOMAIN Row("field", f, "active")[c] = {} /\ DOMAIN Row("required", f, required)[c] = {}
  BY FieldRow
<1> QED
  BY <1>1, <1>2, <1>3, FieldIsChanged, FieldChangeIsSound DEF SchemaIsSound

LEMMA UpdateFieldIsSound ==
  ASSUME SchemaIsSound, NEW r \in Requests, UpdateField(r)
  PROVE  SchemaIsSound'
<1>1. PICK f \in Fields, required \in BOOLEAN, active \in BOOLEAN :
        LET w == IF required = db.required[f] THEN NoWrites ELSE Row("required", f, required)
        IN /\ CanUpdate(f)
           /\ Change(r, IF active THEN w ELSE Both(w, Row("field", f, "inactive")))
  BY DEF UpdateField
<1> DEFINE w == IF required = db.required[f] THEN NoWrites ELSE Row("required", f, required)
<1>2. /\ w \in Writes /\ DOMAIN w.field \subseteq {f}
      /\ \A c \in UnwrittenByFields : DOMAIN w[c] = {}
  <2>1. Row("required", f, required) \in Writes
    BY RowsAreTyped
  <2> QED
    BY <2>1, FieldRow, NoRowOfAField
<1>3. /\ Row("field", f, "inactive") \in Writes /\ DOMAIN Row("field", f, "inactive").field \subseteq {f}
      /\ \A c \in UnwrittenByFields : DOMAIN Row("field", f, "inactive")[c] = {}
  BY RowsAreTyped, FieldRow
<1>4. SchemaTypeOK /\ db.block[BlockOf[f]] # "none"
  BY <1>1 DEF SchemaIsSound, CanUpdate
<1>5. CASE active
  <2>1. HasBlocks(w) /\ Change(r, w)
    BY <1>1, <1>2, <1>4, <1>5 DEF HasBlocks
  <2> QED
    BY <1>2, <2>1, FieldChangeIsSound
<1>6. CASE ~active
  <2>1. Change(r, Both(w, Row("field", f, "inactive")))
    BY <1>1, <1>6
  <2> HIDE DEF w
  <2> QED
    BY <1>2, <1>3, <1>4, <2>1, FieldIsChanged, FieldChangeIsSound
<1> QED
  BY <1>5, <1>6

LEMMA ArchiveFieldIsSound ==
  ASSUME SchemaIsSound, NEW r \in Requests, ArchiveField(r)
  PROVE  SchemaIsSound'
<1>1. PICK f \in Fields :
        CanUpdate(f) /\ Change(r, Both(Row("field", f, "archived"), EmptyValues(f)))
  BY DEF ArchiveField
<1>2. /\ EmptyValues(f) \in Writes /\ DOMAIN EmptyValues(f).field \subseteq {f}
      /\ \A c \in UnwrittenByFields : DOMAIN EmptyValues(f)[c] = {}
  <2>1. Row("value", f, "none") \in Writes
    BY RowsAreTyped
  <2> QED
    BY <2>1, FieldRow, NoRowOfAField DEF EmptyValues
<1>3. /\ Row("field", f, "archived") \in Writes /\ DOMAIN Row("field", f, "archived").field \subseteq {f}
      /\ \A c \in UnwrittenByFields : DOMAIN Row("field", f, "archived")[c] = {}
  BY RowsAreTyped, FieldRow
<1>4. SchemaTypeOK /\ db.block[BlockOf[f]] # "none"
  BY <1>1 DEF SchemaIsSound, CanUpdate
<1> QED
  BY <1>1, <1>2, <1>3, <1>4, FieldIsChanged, FieldChangeIsSound

LEMMA BlockChangeIsSound ==
  ASSUME SchemaIsSound, NEW r \in Requests, CreateBlock(r) \/ ArchiveBlock(r) \/ UpdateBlock(r)
  PROVE  SchemaIsSound'
<1>1. \A b \in Blocks, v \in {"active", "archived"} :
        /\ Row("block", b, v) \in Writes
        /\ DOMAIN Row("block", b, v).block = {b} /\ Row("block", b, v).block[b] = v
        /\ DOMAIN Row("block", b, v).field = {} /\ DOMAIN Row("block", b, v).cards = {}
        /\ \A column \in Unwritten : DOMAIN Row("block", b, v)[column] = {}
  BY RowsAreTyped, RowIsWritten DEF Columns, Unwritten
<1>2. CASE CreateBlock(r)
  <2>1. PICK b \in Blocks : Plain(r, Row("block", b, "active"))
    BY <1>2 DEF CreateBlock
  <2> QED
    BY <1>1, <2>1, PlainIsSound
<1>3. CASE ArchiveBlock(r)
  <2>1. PICK b \in Blocks : Begin(r, Row("block", b, "archived"), {}, TRUE, TRUE)
    BY <1>3 DEF ArchiveBlock, Change
  <2> DEFINE w == Row("block", b, "archived")
  <2>2. /\ w \in Writes /\ HasBlocks(w) /\ \A column \in Unwritten : DOMAIN w[column] = {}
        /\ \A c \in DOMAIN w.block : w.block[c] # "active"
    BY <1>1 DEF HasBlocks
  <2>3. Begin(r, w, {}, TRUE, TRUE)
    BY <2>1
  <2> HIDE DEF w
  <2> QED
    BY <2>2, <2>3, ChangeIsSound
<1>4. CASE UpdateBlock(r)
  <2>1. Begin(r, NoWrites, {}, TRUE, FALSE)
    BY <1>4 DEF UpdateBlock
  <2>2. /\ NoWrites \in Writes /\ HasBlocks(NoWrites) /\ DOMAIN NoWrites.block = {}
        /\ \A column \in Unwritten : DOMAIN NoWrites[column] = {}
    BY NothingIsWritten DEF HasBlocks, Columns, Unwritten
  <2> QED
    BY <2>1, <2>2, ChangeIsSound
<1> QED
  BY <1>2, <1>3, <1>4

\* A request with such writes only
LEMMA OtherRowIsSound ==
  ASSUME SchemaIsSound, NEW r \in Requests, NEW w \in Writes, NEW sync \in BOOLEAN,
         Begin(r, w, {}, FALSE, sync), IsPlain(w)
  PROVE  SchemaIsSound'
<1>1. HasBlocks(w) /\ DOMAIN w.field = {} /\ DOMAIN w.block = {} /\ DOMAIN w.base = {}
  BY DEF IsPlain, HasBlocks
<1> QED
  BY <1>1, BeginIsSound

LEMMA RegistryChangeIsSound ==
  ASSUME SchemaIsSound, NEW r \in Requests, UpdateRegistry(r) \/ ArchiveRegistry(r)
  PROVE  SchemaIsSound'
<1>1. \A v \in {"draft", "active", "archived"} : One("status", v) \in Writes /\ IsPlain(One("status", v))
  BY RowsAreTyped, OneIsPlain DEF One, Columns
<1>2. CASE UpdateRegistry(r)
  <2>1. PICK status \in {"draft", "active"} :
          Begin(r, IF status = db.status["row"] THEN NoWrites ELSE One("status", status),
                {}, FALSE, FALSE)
    BY <1>2 DEF UpdateRegistry, Plain
  <2>2. NoWrites \in Writes /\ IsPlain(NoWrites)
    BY NothingIsWritten DEF IsPlain, Columns
  <2> QED
    BY <1>1, <2>1, <2>2, OtherRowIsSound
<1>3. CASE ArchiveRegistry(r)
  <2>1. Begin(r, Both(One("archived", TRUE), One("status", "archived")), {}, FALSE, FALSE)
    BY <1>3 DEF ArchiveRegistry, Plain
  <2>2. One("archived", TRUE) \in Writes /\ IsPlain(One("archived", TRUE))
    BY RowsAreTyped, OneIsPlain DEF One, Columns
  <2> QED
    BY <1>1, <2>1, <2>2, BothAreTyped, BothArePlain, OtherRowIsSound
<1> QED
  BY <1>2, <1>3

LEMMA CardChangeIsSound ==
  ASSUME SchemaIsSound, NEW r \in Requests, CreateCard(r) \/ EndCard(r) \/ SetValue(r)
  PROVE  SchemaIsSound'
<1>1. \A v \in {"none", "base", "template"} : One("cards", v) \in Writes /\ IsPlain(One("cards", v))
  BY RowsAreTyped, OneIsPlain DEF One, Columns
<1>2. CASE CreateCard(r)
  <2>1. PICK template \in {"base", "template"} : Begin(r, One("cards", template), {}, FALSE, FALSE)
    BY <1>2 DEF CreateCard, Plain
  <2> QED
    BY <1>1, <2>1, OtherRowIsSound
<1>3. CASE EndCard(r)
  <2>1. Locked(r, "card", One("cards", "none"), "commit") /\ UNCHANGED copy
    BY <1>3 DEF EndCard
  <2>2. copy' \in [Requests -> Schemas]
    BY <2>1 DEF SchemaIsSound, SchemaTypeOK
  <2>3. /\ One("cards", "none") \in Writes /\ DOMAIN One("cards", "none").field = {}
        /\ DOMAIN One("cards", "none").block = {} /\ DOMAIN One("cards", "none").base = {}
    BY <1>1 DEF IsPlain
  <2> QED
    BY <2>1, <2>2, <2>3, LockedIsSound
<1>4. CASE SetValue(r)
  <2>1. PICK f \in Fields, v \in {"empty", "filled"} :
          Begin(r, Row("value", f, v), {"card"}, FALSE, FALSE)
    BY <1>4 DEF SetValue
  <2>2. Row("value", f, v) \in Writes
    BY RowsAreTyped
  <2>3. /\ DOMAIN Row("value", f, v).field = {} /\ DOMAIN Row("value", f, v).block = {}
        /\ DOMAIN Row("value", f, v).cards = {} /\ HasBlocks(Row("value", f, v))
    BY RowIsWritten DEF Columns, HasBlocks
  <2> QED
    BY <2>1, <2>2, <2>3, BeginIsSound
<1> QED
  BY <1>2, <1>3, <1>4

LEMMA TemplateChangeIsSound ==
  ASSUME SchemaIsSound, NEW r \in Requests, CreateTemplate(r) \/ UpdateTemplate(r) \/ EndTemplate(r)
  PROVE  SchemaIsSound'
<1>1. \A v \in {"active", "inactive"} : One("template", v) \in Writes /\ IsPlain(One("template", v))
  BY RowsAreTyped, OneIsPlain DEF One, Columns
<1>2. \A members \in SUBSET Active(db) : One("members", members) \in Writes /\ IsPlain(One("members", members))
  <2>1. \A members \in SUBSET Active(db) : members \in SUBSET Fields
    BY DEF Active
  <2> QED
    BY <2>1, RowsAreTyped, OneIsPlain DEF One, Columns
<1>3. CASE CreateTemplate(r)
  <2>1. PICK members \in SUBSET Active(db) :
          Begin(r, Both(One("template", "active"), One("members", members)), {}, FALSE, FALSE)
    BY <1>3 DEF CreateTemplate, Plain
  <2> QED
    BY <1>1, <1>2, <2>1, BothAreTyped, BothArePlain, OtherRowIsSound
<1>4. CASE UpdateTemplate(r)
  <2>1. PICK members \in SUBSET Active(db) :
          Locked(r, "template", One("members", members), "sync") /\ UNCHANGED copy
    BY <1>4 DEF UpdateTemplate
  <2>2. copy' \in [Requests -> Schemas]
    BY <2>1 DEF SchemaIsSound, SchemaTypeOK
  <2>3. /\ DOMAIN One("members", members).field = {} /\ DOMAIN One("members", members).block = {}
        /\ DOMAIN One("members", members).base = {}
    BY <1>2 DEF IsPlain
  <2> QED
    BY <1>2, <2>1, <2>2, <2>3, LockedIsSound
<1>5. CASE EndTemplate(r)
  BY <1>1, <1>5, OtherRowIsSound DEF EndTemplate
<1> QED
  BY <1>3, <1>4, <1>5

\* The fields of the base template, under its lock
LEMMA UpdateBaseIsSound ==
  ASSUME SchemaIsSound, NEW r \in Requests, UpdateBase(r)
  PROVE  SchemaIsSound'
<1> DEFINE schema == WithActiveFields(Schema(db), db)
<1>1. SchemaTypeOK /\ Schema(db) \in Schemas
  BY SchemasAreTyped DEF SchemaIsSound
<1>2. schema \in Schemas /\ schema.fields = Active(db) /\ schema.layout = Schema(db).layout
  BY <1>1, SchemasAreTyped
<1>3. Locked(r, "base", One("base", schema), "sync") /\ copy' = [copy EXCEPT ![r] = Schema(db)]
  BY DEF UpdateBase
<1>4. copy' \in [Requests -> Schemas] /\ \A s \in Requests \ {r} : copy'[s] = copy[s]
  BY <1>1, <1>3 DEF SchemaTypeOK
<1>5. /\ One("base", schema) \in Writes /\ One("base", schema).base["row"] = schema
      /\ DOMAIN One("base", schema).base = {"row"}
      /\ DOMAIN One("base", schema).field = {} /\ DOMAIN One("base", schema).block = {}
      /\ DOMAIN One("base", schema).cards = {}
  BY <1>2, BaseIsWritten DEF Columns
<1> HIDE DEF schema
<1> QED
  BY <1>2, <1>3, <1>4, <1>5, LockedIsSound

\* The layout, for the revision its author was shown
LEMMA SaveLayoutIsSound ==
  ASSUME SchemaIsSound, NEW r \in Requests, SaveLayout(r)
  PROVE  SchemaIsSound'
<1>1. SchemaTypeOK /\ Schema(db) \in Schemas
  BY SchemasAreTyped DEF SchemaIsSound
<1>2. PICK layout \in Layouts :
        /\ IsCurrent(r) /\ Locked(r, "base", One("base", [Schema(db) EXCEPT !.layout = layout]), "commit")
        /\ UNCHANGED copy
  BY DEF SaveLayout
<1> DEFINE schema == [Schema(db) EXCEPT !.layout = layout]
<1>3. /\ schema \in Schemas /\ schema.fields = Schema(db).fields
      /\ schema.layout = layout /\ layout # "default"
  BY <1>1, SchemasAreTyped, SchemaAssumption
<1>4. copy' \in [Requests -> Schemas] /\ \A s \in Requests \ {r} : copy'[s] = copy[s]
  BY <1>1, <1>2 DEF SchemaTypeOK
<1>5. /\ One("base", schema) \in Writes /\ One("base", schema).base["row"] = schema
      /\ DOMAIN One("base", schema).base = {"row"}
      /\ DOMAIN One("base", schema).field = {} /\ DOMAIN One("base", schema).block = {}
      /\ DOMAIN One("base", schema).cards = {}
  BY <1>3, BaseIsWritten DEF Columns
<1>6. Locked(r, "base", One("base", schema), "commit") /\ Resolved(copy'[r]) = Resolved(Schema(db))
  BY <1>2 DEF IsCurrent
<1> HIDE DEF schema
<1> QED
  BY <1>3, <1>4, <1>5, <1>6, LockedIsSound

-----------------------------------------------------------------------------
(* Theorems *)

LEMMA SchemaStartsSound == Init => SchemaIsSound
<1> SUFFICES ASSUME Init PROVE SchemaIsSound
  OBVIOUS
<1>1. PICK fields \in SUBSET Fields, blocks \in SUBSET Blocks, card \in {"none", "base"} :
       /\ \A f \in fields : BlockOf[f] \in blocks
       /\ db = [archived |-> Single(FALSE), status |-> Single("active"),
                block |-> [b \in Blocks |-> IF b \in blocks THEN "active" ELSE "none"],
                field |-> [f \in Fields |-> IF f \in fields THEN "active" ELSE "none"],
                required |-> [f \in Fields |-> FALSE],
                value |-> [f \in Fields |-> IF f \in fields /\ card # "none" THEN "empty" ELSE "none"],
                base |-> Single([fields |-> fields, layout |-> "default"]),
                template |-> Single("none"), members |-> Single({}), cards |-> Single(card)]
  BY DEF Init
<1>2. db \in Database /\ Schema(db) \in Schemas
  <2>1. [fields |-> fields, layout |-> "default"] \in Schemas
    BY DEF Schemas
  <2> QED
    BY <1>1, <2>1 DEF Database, Single, Schema
<1>3. SchemaTypeOK
  BY <1>2, NothingIsWritten DEF Init, SchemaTypeOK, Steps
<1>4. /\ \A r \in Requests : pc[r] = "idle" /\ ~ensures[r] /\ reserved[r] = {} /\ writes[r] = NoWrites
  BY DEF Init
<1>5. \A r \in Requests : /\ WritesNothing(r) /\ DOMAIN writes[r].block = {}
                           /\ DOMAIN writes[r].field = {} /\ DOMAIN writes[r].cards = {}
  BY <1>4, NothingIsWritten DEF WritesNothing, Columns
<1>6. FieldsHaveBlocks
  <2>1. \A f \in Fields : db.field[f] = "active" => db.block[BlockOf[f]] # "none"
    BY <1>1, SchemaAssumption
  <2> QED
    BY <1>5, <2>1 DEF FieldsHaveBlocks
<1>7. RowsAreApart
  BY <1>4 DEF RowsAreApart, HoldsBase, IsFlushed, IsEnding
<1>8. ASSUME NEW r \in Requests
      PROVE  /\ FollowsItsSteps(r) /\ CreatesOrChanges(r) /\ CreatesNew(r)
             /\ WillFollow(r) /\ WillKeepLayout(r)
  BY <1>4, <1>5 DEF FollowsItsSteps, CreatesOrChanges, CreatesNew, IsFlushed, WillFollow,
                    WillKeepLayout, LocksBase, IsEnding
<1>9. BaseFollowsFields
  <2>1. Active(db) = fields
    BY <1>1, SchemaAssumption DEF Active
  <2>2. Schema(db).fields = fields
    BY <1>1 DEF Schema, Single
  <2> QED
    BY <2>1, <2>2 DEF BaseFollowsFields
<1> QED
  BY <1>3, <1>6, <1>7, <1>8, <1>9 DEF SchemaIsSound

LEMMA SchemaStaysSound == SchemaIsSound /\ [Next]_schemaVars => SchemaIsSound'
<1> SUFFICES ASSUME SchemaIsSound, [Next]_schemaVars PROVE SchemaIsSound'
  OBVIOUS
<1>1. ASSUME NEW r \in Requests, Start(r) PROVE SchemaIsSound'
  <2>1. CASE CreateBlock(r) \/ UpdateBlock(r) \/ ArchiveBlock(r)
    BY <2>1, BlockChangeIsSound
  <2>2. CASE CreateField(r) \/ UpdateField(r) \/ ArchiveField(r)
    BY <2>2, CreateFieldIsSound, UpdateFieldIsSound, ArchiveFieldIsSound
  <2>3. CASE CreateTemplate(r) \/ UpdateTemplate(r) \/ EndTemplate(r)
    BY <2>3, TemplateChangeIsSound
  <2>4. CASE UpdateBase(r) \/ RenameBase(r) \/ OpenLayout(r) \/ SaveLayout(r)
    BY <2>4, UpdateBaseIsSound, RenameBaseIsSound, OpenLayoutIsSound, SaveLayoutIsSound
  <2>5. CASE UpdateRegistry(r) \/ ArchiveRegistry(r)
    BY <2>5, RegistryChangeIsSound
  <2>6. CASE CreateCard(r) \/ EndCard(r) \/ SetValue(r)
    BY <2>6, CardChangeIsSound
  <2> QED
    BY <1>1, <2>1, <2>2, <2>3, <2>4, <2>5, <2>6 DEF Start
<1>2. ASSUME NEW r \in Requests, Step(r) PROVE SchemaIsSound'
  BY <1>2, RecomputeBaseIsSound, FlushIsSound, ShareTemplateIsSound, LockRegistryIsSound,
     RefreshBaseIsSound, SynchronizeIsSound, CommitIsSound DEF Step
<1>3. CASE UNCHANGED schemaVars
  <2>1. /\ UNCHANGED <<db, overwritten>> /\ SchemaTypeOK' /\ FieldsHaveBlocks' /\ RowsAreApart'
    BY <1>3 DEF SchemaIsSound, schemaVars, SchemaTypeOK, FieldsHaveBlocks, RowsAreApart,
                HoldsBase, IsFlushed, IsEnding
  <2>2. ASSUME NEW r \in Requests
        PROVE  /\ FollowsItsSteps(r)' /\ CreatesOrChanges(r)' /\ CreatesNew(r)'
               /\ WillFollow(r)' /\ WillKeepLayout(r)'
    <3>1. FollowsItsSteps(r) /\ CreatesOrChanges(r) /\ CreatesNew(r) /\ WillFollow(r) /\ WillKeepLayout(r)
      BY DEF SchemaIsSound
    <3>2. FollowsItsSteps(r)' /\ CreatesOrChanges(r)' /\ CreatesNew(r)'
      BY <1>3, <3>1 DEF schemaVars, FollowsItsSteps, WritesNothing, CreatesOrChanges, CreatesNew, IsFlushed, IsEnding
    <3>3. WillFollow(r)' /\ WillKeepLayout(r)'
      BY <1>3, <3>1 DEF schemaVars, WillFollow, WillKeepLayout, LocksBase, NewSchema, View, Schema, IsEnding
    <3> QED
      BY <3>2, <3>3
  <2>3. BaseFollowsFields'
    BY <2>1 DEF SchemaIsSound, BaseFollowsFields, Schema
  <2> QED
    BY <2>1, <2>2, <2>3 DEF SchemaIsSound
<1> QED
  BY <1>1, <1>2, <1>3, FailIsSound DEF Next

\* The inductive invariant: what each request has read, written and locked at
\* its step, and why the base template then follows the fields.
THEOREM SchemaIsAlwaysSound == Spec => []SchemaIsSound
BY SchemaStartsSound, SchemaStaysSound, PTL DEF Spec

\* Rows, the writes of requests and their locks have the types of the code's
\* columns in every state.
THEOREM SchemaTypesHold == Spec => []SchemaTypeOK
BY SchemaIsAlwaysSound, PTL DEF SchemaIsSound

\* However changes of blocks, fields and templates overlap, the base template
\* lists the active fields unless an unlocked update has written it last
\* (ensure_base_card_template_for_registry).
THEOREM BaseFollowsFieldsHolds == Spec => []BaseFollowsFields
BY SchemaIsAlwaysSound, PTL DEF SchemaIsSound

\* Only a commit changes committed rows.
LEMMA OnlyCommitsWrite ==
  ASSUME NEW r \in Requests, Start(r) \/ Step(r) \/ Fail(r), ~Commit(r)
  PROVE  db' = db
<1>1. ASSUME Start(r) PROVE db' = db
  BY <1>1 DEF Start, CreateBlock, UpdateBlock, ArchiveBlock, CreateField, UpdateField,
              ArchiveField, CreateTemplate, UpdateTemplate, EndTemplate, UpdateBase, RenameBase,
              OpenLayout, SaveLayout, UpdateRegistry, ArchiveRegistry, CreateCard, EndCard,
              SetValue, Plain, Change, Begin, Locked
<1>2. ASSUME Step(r) PROVE db' = db
  BY <1>2 DEF Step, RecomputeBase, Flush, ShareTemplate, LockRegistry, RefreshBase,
              Synchronize, WriteStatus
<1> QED
  BY <1>1, <1>2 DEF Fail

\* A saved layout is replaced for the revision its author was shown, or by an
\* unlocked update of the template (update_form_layout_for_actor,
\* merge_card_template_field_ids).
THEOREM LayoutIsKeptHolds == Spec => LayoutIsKept
<1> DEFINE Kept ==
      Schema(db)'.layout # Schema(db).layout =>
        \E r \in Requests :
          /\ pc[r] = "commit" /\ pc'[r] = "idle"
          /\ \/ Overwrites(r)
             \/ /\ Schema(db)'.layout # "default"
                /\ Resolved(copy[r]) = Resolved(Schema(db))
<1>1. SchemaIsSound /\ [Next]_schemaVars => Kept
  <2> SUFFICES ASSUME SchemaIsSound, [Next]_schemaVars, Schema(db)'.layout # Schema(db).layout
               PROVE  \E r \in Requests :
                        /\ pc[r] = "commit" /\ pc'[r] = "idle"
                        /\ \/ Overwrites(r)
                           \/ /\ Schema(db)'.layout # "default"
                              /\ Resolved(copy[r]) = Resolved(Schema(db))
    OBVIOUS
  <2>1. PICK r \in Requests : Commit(r)
    <3>1. db' # db
      BY DEF Schema
    <3> QED
      BY <3>1, OnlyCommitsWrite DEF Next, schemaVars
  <2>2. /\ SchemaTypeOK /\ FollowsItsSteps(r) /\ WillKeepLayout(r) /\ pc[r] = "commit"
        /\ db \in Database /\ writes[r] \in Writes
    BY <2>1 DEF SchemaIsSound, SchemaTypeOK, Commit
  <2>3. pc'[r] = "idle"
    BY <2>1, <2>2, ReleaseLeavesNothing DEF Commit
  <2>4. Schema(db)' = IF DOMAIN writes[r].base = {} THEN Schema(db) ELSE NewSchema(r)
    BY <2>1, <2>2, AppliedIsRead DEF Commit, Schema, NewSchema
  <2>5. Overwrites(r) \/ LocksBase(r)
    BY <2>2, <2>4 DEF Overwrites, LocksBase, IsEnding
  <2> QED
    BY <2>2, <2>3, <2>4, <2>5 DEF WillKeepLayout
<1> QED
  BY <1>1, SchemaIsAlwaysSound, PTL DEF Spec, LayoutIsKept

\* Rows of blocks and fields, the registry and its templates are locked in one
\* order by all requests, so those that wait in a circle meet at a card that a
\* synchronization needs and a request that sets one of its values has.
THEOREM CirclesMeetAtACardHolds == Spec => []CirclesMeetAtACard
<1>1. SchemaIsSound => CirclesMeetAtACard
  <2> SUFFICES ASSUME SchemaIsSound, NEW S \in SUBSET Requests, Circle(S),
                      ~\E r, s \in S : pc[r] = "card" /\ pc[s] = "flush" /\ "card" \in reserved[s]
               PROVE  FALSE
    BY DEF CirclesMeetAtACard
  <2>1. /\ \A s \in S : FollowsItsSteps(s) /\ CreatesOrChanges(s)
        /\ S # {} /\ \A r \in S : \E s \in S : WaitsFor(r, s)
    BY DEF SchemaIsSound, Circle
  <2>2. \A r \in S : pc[r] \in {"flush", "share", "refresh", "base", "card"}
    BY <2>1 DEF WaitsFor
  <2>3. \A s \in S : "card" \notin Written(writes[s])
    BY SchemaAssumption DEF Written
  <2>4. \A r \in S : pc[r] # "card"
    <3> SUFFICES ASSUME NEW r \in S, pc[r] = "card" PROVE FALSE
      OBVIOUS
    <3>1. PICK s \in S : Has(s, "card")
      BY <2>1 DEF WaitsFor
    <3>2. "card" \in reserved[s]
      BY <2>3, <3>1 DEF Has
    <3> QED
      BY <2>1, <2>2, <3>2 DEF FollowsItsSteps, IsEnding
  <2>5. ASSUME NEW s \in S
        PROVE  /\ ~Has(s, "base") /\ ~Shares(s, "base")
               /\ "base" \notin reserved[s] /\ "template" \notin reserved[s]
    <3>1. "base" \notin reserved[s] /\ "template" \notin reserved[s] /\ ~Shares(s, "base")
      BY <2>1, <2>2, <2>4 DEF FollowsItsSteps, Shares, IsEnding
    <3>2. IsFlushed(s) => DOMAIN writes[s].base = {}
      BY <2>1, <2>2, <2>4 DEF FollowsItsSteps, IsFlushed, IsEnding
    <3>3. writes[s] \in Writes
      BY DEF SchemaIsSound, SchemaTypeOK
    <3> QED
      BY <3>1, <3>2, <3>3, NamedRows DEF Has
  <2>6. \A r \in S : pc[r] # "base"
    BY <2>1, <2>5 DEF WaitsFor
  <2>7. \A r \in S : pc[r] # "share"
    <3> SUFFICES ASSUME NEW r \in S, pc[r] = "share" PROVE FALSE
      OBVIOUS
    <3>1. writes[r].cards["row"] \in {"none", "base", "template"}
      <4>1. writes[r].cards \in PartialOf({"row"}, {"none", "base", "template"})
        BY WrittenColumns DEF SchemaIsSound, SchemaTypeOK
      <4>2. DOMAIN writes[r].cards # {}
        BY <2>1 DEF FollowsItsSteps, IsEnding
      <4> QED
        BY <4>1, <4>2, PartialColumn
    <3>2. PICK s \in S : writes[r].cards["row"] \in reserved[s]
      BY <2>1 DEF WaitsFor
    <3>3. reserved[s] \subseteq LockedRows
      BY DEF SchemaIsSound, SchemaTypeOK
    <3> QED
      BY <2>5, <3>1, <3>2, <3>3 DEF LockedRows
  <2>8. \A r \in S : pc[r] \in {"flush", "refresh"}
    BY <2>2, <2>4, <2>6, <2>7
  <2>9. ASSUME NEW s \in S
        PROVE  /\ reserved[s] \subseteq {"card"}
               /\ IsFlushed(s) => /\ ~Inserts(s)
                                  /\ "registry" \notin Written(writes[s])
    <3>1. reserved[s] \subseteq {"card"}
      BY <2>1, <2>8 DEF FollowsItsSteps, IsEnding
    <3>2. ASSUME IsFlushed(s)
          PROVE  /\ DOMAIN writes[s].archived = {} /\ DOMAIN writes[s].status = {} /\ ensures[s]
      BY <2>1, <2>8, <3>2 DEF FollowsItsSteps, IsFlushed, IsEnding
    <3>3. IsFlushed(s) => ~Inserts(s)
      BY <2>1, <3>2 DEF CreatesOrChanges, Inserts
    <3>4. writes[s] \in Writes
      BY DEF SchemaIsSound, SchemaTypeOK
    <3> QED
      BY <3>1, <3>2, <3>3, <3>4, NamedRows
  <2>10. \A r \in S : pc[r] # "refresh"
    BY <2>1, <2>9 DEF WaitsFor, Has
  <2>11. \A r, s \in S : ~WaitsFor(r, s)
    <3>1. \A s \in S : pc[s] = "flush" /\ ~IsFlushed(s)
      BY <2>8, <2>10 DEF IsFlushed
    <3> QED
      BY <2>3, <2>9, <3>1 DEF WaitsFor, Has
  <2> QED
    BY <2>1, <2>11
<1> QED
  BY <1>1, SchemaIsAlwaysSound, PTL
=============================================================================
