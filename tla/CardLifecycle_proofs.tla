------------------------- MODULE CardLifecycle_proofs -------------------------
(***************************************************************************)
(* Proofs about CardLifecycle, for any number of cards, requests, rows and *)
(* places and any bounds.                                                  *)
(***************************************************************************)
EXTENDS MCCardLifecycle, TLAPS

USE DEF Lifecycles, Automatic, Terminal, Values

-----------------------------------------------------------------------------
(* Rows *)

\* The content of a card is a function of four of its columns.
LEMMA ContentFrame ==
  ASSUME NEW x, NEW y, x.place = y.place, x.rows = y.rows,
         x.base = y.base, x.cells = y.cells
  PROVE  Content(x) = Content(y)
BY DEF Content

\* A blank card is a row without events, activation and source.
LEMMA BlankIsRow ==
  ASSUME NEW p \in Places
  PROVE  /\ Blank(p) \in CardRow
         /\ Blank(p).lifecycle = "draft" /\ ~Blank(p).activated
         /\ Blank(p).events = 0 /\ Blank(p).source = NoCard
BY ConstantsAssumption DEF Blank, CardRow

\* So is an unused id.
LEMMA AbsentIsRow ==
  /\ Absent \in CardRow
  /\ Absent.lifecycle = "none" /\ ~Absent.activated
  /\ Absent.events = 0 /\ Absent.source = NoCard
<1>1. AnyPlace \in Places
  BY ConstantsAssumption DEF AnyPlace
<1>2. Blank(AnyPlace) \in CardRow
      /\ ~Blank(AnyPlace).activated
      /\ Blank(AnyPlace).events = 0 /\ Blank(AnyPlace).source = NoCard
  BY <1>1, BlankIsRow
<1> QED
  BY <1>2 DEF Absent, CardRow

\* Synchronization touches the status and the activation of a draft or active
\* card, and dates what it activates.
LEMMA SynchronizedRow ==
  ASSUME NEW row \in CardRow, NEW schema, row.lifecycle \in Automatic
  PROVE  LET new == Synchronized(row, schema) IN
         /\ new \in CardRow
         /\ new.lifecycle \in Automatic
         /\ new.lifecycle = "active" => new.activated
         /\ new.place = row.place /\ new.rows = row.rows
         /\ new.base = row.base /\ new.cells = row.cells
         /\ new.events = row.events /\ new.source = row.source
         /\ new.archived = row.archived
<1>1. Derived(row, schema) \in Automatic
      /\ (Derived(row, schema) = "active" => Complete(row, schema))
  BY DEF Derived
<1>2. Synchronized(row, schema) =
        [row EXCEPT !.lifecycle = Derived(row, schema),
                    !.activated = @ \/ Complete(row, schema)]
  BY DEF Synchronized
<1> QED
  BY <1>1, <1>2 DEF CardRow

\* Recording changes the number of events, by one, when it must.
LEMMA RecordedRow ==
  ASSUME NEW old \in CardRow, NEW row \in CardRow, row.events = old.events,
         Recorded(old, row).events \in 0 .. MaxEvents
  PROVE  LET new == Recorded(old, row) IN
         /\ new \in CardRow
         /\ new.lifecycle = row.lifecycle /\ new.activated = row.activated
         /\ new.source = row.source
         /\ Content(new) = Content(row)
         /\ new.events \in {old.events, old.events + 1}
         /\ new.events # old.events =>
              Content(row) # Content(old) \/ row.lifecycle # old.lifecycle
         /\ /\ old.activated
            /\ Content(row) # Content(old) \/ row.lifecycle # old.lifecycle
            => new.events # old.events
<1> DEFINE changed == \/ Content(row) # Content(old)
                      \/ row.lifecycle # old.lifecycle
           raised == [row EXCEPT !.events = @ + 1]
<1>0. old.events \in Nat
  BY ConstantsAssumption DEF CardRow
<1>1. CASE InForce(old) /\ changed
  <2>1. Recorded(old, row) = raised
    BY <1>1 DEF Recorded
  <2>2. raised.events = old.events + 1 /\ raised.lifecycle = row.lifecycle
        /\ raised.activated = row.activated /\ raised.source = row.source
        /\ raised.place = row.place /\ raised.rows = row.rows
        /\ raised.base = row.base /\ raised.cells = row.cells
    BY DEF CardRow
  <2>3. Content(raised) = Content(row)
    BY <2>2, ContentFrame
  <2>4. raised \in CardRow
    BY <2>1, <2>2 DEF CardRow
  <2> HIDE DEF raised
  <2> QED
    BY <1>0, <1>1, <2>1, <2>2, <2>3, <2>4
<1>2. CASE ~(InForce(old) /\ changed)
  <2>1. Recorded(old, row) = row
    BY <1>2 DEF Recorded
  <2>2. old.activated => InForce(old)
    BY DEF InForce
  <2> QED
    BY <1>0, <1>2, <2>1, <2>2
<1> QED
  BY <1>1, <1>2

-----------------------------------------------------------------------------
(* Steps *)

Inv == TypeOK /\ Consistent

\* A request that locks a card and leaves a justified row, which supersedes
\* nothing, keeps the invariant.
LEMMA WriteStep ==
  ASSUME Inv, NEW r \in Requests, NEW c \in Cards, NEW row \in CardRow,
         Write(r, c, row), Justified(card[c], row),
         row.lifecycle # "superseded"
  PROVE  Inv'
<1>0. pc[r] = "idle" /\ lock[c] = NoRequest
      /\ lock' = [lock EXCEPT ![c] = r]
      /\ writes' = [writes EXCEPT ![r] = [@ EXCEPT ![c] = row]]
      /\ pc' = [pc EXCEPT ![r] = "commit"]
      /\ UNCHANGED <<card, mode, registryLock, newMode, todo, loaded, next>>
  BY DEF Write, sync
<1>1. TypeOK'
  BY <1>0 DEF Inv, TypeOK
<1>2. lock'[c] = r /\ writes'[r][c] = row
  BY <1>0 DEF Inv, TypeOK
<1>3. \A s \in Requests, x \in Cards : lock'[x] = s /\ x # c =>
        lock[x] = s /\ writes'[s][x] = writes[s][x]
  BY <1>0 DEF Inv, TypeOK
<1>4. \A s \in Requests, x \in Cards : lock[x] = s =>
        x # c /\ lock'[x] = s /\ writes'[s][x] = writes[s][x]
  BY <1>0, ConstantsAssumption DEF Inv, TypeOK
<1>5. \A s \in Requests, x \in Cards :
        lock'[x] = s => Justified(card'[x], writes'[s][x])
  <2> SUFFICES ASSUME NEW s \in Requests, NEW x \in Cards, lock'[x] = s
               PROVE  Justified(card[x], writes'[s][x])
    BY <1>0
  <2>1. CASE x = c
    BY <1>2, <2>1
  <2>2. CASE x # c
    BY <1>3, <2>2 DEF Inv, Consistent
  <2> QED
    BY <2>1, <2>2
<1>6. CopiesArePending'
  <2> SUFFICES ASSUME NEW s \in Requests, NEW x \in Cards, lock'[x] = s,
                      writes'[s][x].lifecycle = "superseded"
               PROVE  \E n \in Cards : lock'[n] = s /\ writes'[s][n].source = x
    BY DEF CopiesArePending
  <2>1. x # c
    BY <1>2
  <2>2. PICK n \in Cards : lock[n] = s /\ writes[s][n].source = x
    BY <1>3, <2>1 DEF Inv, Consistent, CopiesArePending
  <2> QED
    BY <1>4, <2>2
<1>7. WaitsAreSound'
  BY <1>0 DEF Inv, TypeOK, Consistent, WaitsAreSound
<1>8. UnusedIds' /\ ActivationIsDated' /\ SupersededHasCopy'
  BY <1>0 DEF Inv, Consistent, UnusedIds, ActivationIsDated, SupersededHasCopy
<1> QED
  BY <1>1, <1>5, <1>6, <1>7, <1>8 DEF Inv, Consistent

\* A new card, with whatever values and status, is justified.
LEMMA InsertStep ==
  ASSUME Inv, NEW r \in Requests, NEW c \in Cards, NEW row \in CardRow,
         Insert(r, c, row), row.lifecycle \in Automatic,
         row.lifecycle = "active" => row.activated,
         row.events = 0, row.source = NoCard
  PROVE  Inv'
<1>1. card[c].lifecycle = "none" /\ Write(r, c, row)
  BY DEF Insert
<1>2. ~card[c].activated /\ card[c].events = 0 /\ card[c].source = NoCard
  BY <1>1 DEF Inv, Consistent, UnusedIds
<1>3. Justified(card[c], row)
  BY <1>1, <1>2 DEF Justified
<1> QED
  BY <1>1, <1>3, WriteStep

\* A business operation that leaves a draft or active card is justified by the
\* event it records.
LEMMA ChangeStep ==
  ASSUME Inv, NEW r \in Requests, NEW c \in Cards, NEW row \in CardRow,
         Change(r, c, row), row.lifecycle \in Automatic,
         row.lifecycle = "active" => row.activated,
         row.events = card[c].events, row.source = card[c].source
  PROVE  Inv'
<1> DEFINE new == Recorded(card[c], row)
<1>0. card[c] \in CardRow
  BY DEF Inv, TypeOK
<1>1. Editable(card[c]) /\ new.events <= MaxEvents /\ Write(r, c, new)
  BY DEF Change
<1>2. new.events \in 0 .. MaxEvents
  <2>1. card[c].events \in Nat
    BY <1>0 DEF CardRow
  <2>2. new.events \in {row.events, row.events + 1}
    BY <2>1 DEF Recorded, CardRow
  <2> QED
    BY <1>1, <2>1, <2>2, ConstantsAssumption
<1>3. /\ new \in CardRow
      /\ new.lifecycle = row.lifecycle /\ new.activated = row.activated
      /\ new.source = row.source
      /\ Content(new) = Content(row)
      /\ new.events \in {card[c].events, card[c].events + 1}
      /\ new.events # card[c].events =>
           Content(row) # Content(card[c]) \/ row.lifecycle # card[c].lifecycle
      /\ /\ card[c].activated
         /\ Content(row) # Content(card[c])
              \/ row.lifecycle # card[c].lifecycle
         => new.events # card[c].events
  BY <1>0, <1>2, RecordedRow
<1>4. Justified(card[c], new)
  BY <1>1, <1>3 DEF Justified, Editable
<1> HIDE DEF new
<1> QED
  BY <1>1, <1>3, <1>4, WriteStep

\* The end of a transaction keeps what every other request holds.
LEMMA ReleaseStep ==
  ASSUME Inv, NEW r \in Requests, Release(r), mode' \in Schema,
         card' \in [Cards -> CardRow],
         \A x \in Cards : lock[x] # r => card'[x] = card[x],
         UnusedIds', ActivationIsDated', SupersededHasCopy'
  PROVE  Inv'
<1>0. lock' = [c \in Cards |-> IF lock[c] = r THEN NoRequest ELSE lock[c]]
      /\ registryLock' = (IF registryLock = r THEN NoRequest ELSE registryLock)
      /\ pc' = [pc EXCEPT ![r] = "idle"]
      /\ writes' = [writes EXCEPT ![r] = [c \in Cards |-> Absent]]
      /\ newMode' = [newMode EXCEPT ![r] = Unchanged]
      /\ todo' = [todo EXCEPT ![r] = {}]
      /\ loaded' = [loaded EXCEPT ![r] = [c \in Cards |-> Absent]]
      /\ next' = [next EXCEPT ![r] = NoCard]
  BY DEF Release
<1>1. Unchanged \in Schema
  BY ConstantsAssumption DEF Unchanged, Schema
<1>2. TypeOK'
  BY <1>0, <1>1, AbsentIsRow DEF Inv, TypeOK
<1>3. \A s \in Requests, x \in Cards : lock'[x] = s =>
        lock[x] = s /\ s # r /\ card'[x] = card[x]
        /\ writes'[s][x] = writes[s][x]
  BY <1>0, ConstantsAssumption DEF Inv, TypeOK
<1>4. \A s \in Requests, x \in Cards : lock[x] = s /\ s # r =>
        lock'[x] = s /\ writes'[s][x] = writes[s][x]
  BY <1>0 DEF Inv, TypeOK
<1>5. \A s \in Requests, x \in Cards :
        lock'[x] = s => Justified(card'[x], writes'[s][x])
  BY <1>3 DEF Inv, Consistent
<1>6. CopiesArePending'
  <2> SUFFICES ASSUME NEW s \in Requests, NEW x \in Cards, lock'[x] = s,
                      writes'[s][x].lifecycle = "superseded"
               PROVE  \E n \in Cards : lock'[n] = s /\ writes'[s][n].source = x
    BY DEF CopiesArePending
  <2>1. s # r /\ \E n \in Cards : lock[n] = s /\ writes[s][n].source = x
    BY <1>3 DEF Inv, Consistent, CopiesArePending
  <2> QED
    BY <1>4, <2>1
<1>7. WaitsAreSound'
  <2> SUFFICES ASSUME NEW s \in Requests, pc'[s] = "wait"
               PROVE  /\ next'[s] \in Cards
                      /\ loaded'[s][next'[s]].lifecycle \in Automatic
                      /\ loaded'[s][next'[s]].lifecycle = "active" =>
                           loaded'[s][next'[s]].activated
    BY DEF WaitsAreSound
  <2>1. s # r /\ pc[s] = "wait" /\ next'[s] = next[s] /\ loaded'[s] = loaded[s]
    BY <1>0 DEF Inv, TypeOK
  <2> QED
    BY <2>1 DEF Inv, Consistent, WaitsAreSound
<1> QED
  BY <1>2, <1>5, <1>6, <1>7 DEF Inv, Consistent

-----------------------------------------------------------------------------
(* Operations *)

\* What create_card inserts is a row that is new, with a status its values
\* justify; so is the draft made of it.
LEMMA NewRow ==
  ASSUME NEW p \in Places, NEW v \in Values
  PROVE  /\ New(p, v) \in CardRow
         /\ New(p, v).lifecycle \in Automatic
         /\ New(p, v).lifecycle = "active" => New(p, v).activated
         /\ New(p, v).events = 0 /\ New(p, v).source = NoCard
         /\ Preserved(New(p, v)) \in CardRow
         /\ Preserved(New(p, v)).lifecycle = "draft"
         /\ Preserved(New(p, v)).events = 0
         /\ Preserved(New(p, v)).source = NoCard
<1> DEFINE row == [Blank(p) EXCEPT !.base = v]
<1>1. row \in CardRow /\ row.lifecycle = "draft"
      /\ row.events = 0 /\ row.source = NoCard
  BY BlankIsRow DEF CardRow
<1>2. New(p, v) = Synchronized(row, mode)
  BY DEF New
<1> HIDE DEF row
<1>3. /\ New(p, v) \in CardRow
      /\ New(p, v).lifecycle \in Automatic
      /\ New(p, v).lifecycle = "active" => New(p, v).activated
      /\ New(p, v).events = 0 /\ New(p, v).source = NoCard
  BY <1>1, <1>2, SynchronizedRow
<1>4. /\ Preserved(New(p, v)) \in CardRow
      /\ Preserved(New(p, v)).lifecycle = "draft"
      /\ Preserved(New(p, v)).events = 0
      /\ Preserved(New(p, v)).source = NoCard
  BY <1>3 DEF Preserved, CardRow
<1> QED
  BY <1>3, <1>4

\* The three ways to create a card.
LEMMA CreationStep ==
  ASSUME Inv, NEW r \in Requests, NEW c \in Cards,
         CreateCard(r, c) \/ CreateDraft(r, c) \/ CreateWithFirstValue(r, c)
  PROVE  Inv'
<1>1. CASE CreateCard(r, c)
  <2>1. PICK p \in Places, v \in {"absent", "filled"} : Insert(r, c, New(p, v))
    BY <1>1 DEF CreateCard
  <2> QED
    BY <2>1, NewRow, InsertStep
<1>2. CASE CreateDraft(r, c)
  <2>1. PICK p \in Places, v \in {"absent", "filled"} :
          Insert(r, c, Preserved(New(p, v)))
    BY <1>2 DEF CreateDraft
  <2> QED
    BY <2>1, NewRow, InsertStep
<1>3. CASE CreateWithFirstValue(r, c)
  <2>1. PICK p \in Places, v \in {"absent", "filled"} :
          Insert(r, c, Synchronized([Preserved(New(p, v)) EXCEPT
                                       !.base = "filled"], mode))
    BY <1>3 DEF CreateWithFirstValue
  <2> DEFINE row == [Preserved(New(p, v)) EXCEPT !.base = "filled"]
  <2>2. v \in Values
    BY <2>1
  <2>3. row \in CardRow /\ row.lifecycle \in Automatic
        /\ row.events = 0 /\ row.source = NoCard
    BY <2>2, NewRow DEF CardRow
  <2>4. Insert(r, c, Synchronized(row, mode))
    BY <2>1
  <2> HIDE DEF row
  <2> QED
    BY <2>3, <2>4, SynchronizedRow, InsertStep
<1> QED
  BY <1>1, <1>2, <1>3

\* A change of values, rows or place followed by a synchronization.
LEMMA SynchronizedChange ==
  ASSUME Inv, NEW r \in Requests, NEW c \in Cards, NEW row \in CardRow,
         Change(r, c, Synchronized(row, mode)),
         row.lifecycle = card[c].lifecycle, row.events = card[c].events,
         row.source = card[c].source
  PROVE  Inv'
<1>1. row.lifecycle \in Automatic
  BY DEF Change, Editable
<1>2. LET new == Synchronized(row, mode) IN
      /\ new \in CardRow
      /\ new.lifecycle \in Automatic
      /\ new.lifecycle = "active" => new.activated
      /\ new.events = row.events /\ new.source = row.source
  BY <1>1, SynchronizedRow
<1> QED
  BY <1>2, ChangeStep

\* The operations under _active_card_change.
LEMMA BusinessStep ==
  ASSUME Inv, NEW r \in Requests, NEW c \in Cards,
         \/ SetBaseValue(r, c) \/ SetCell(r, c) \/ CreateInstance(r, c)
         \/ ArchiveInstance(r, c) \/ UpdateCard(r, c) \/ MoveOrganization(r, c)
  PROVE  Inv'
<1>0. card[c] \in CardRow
  BY DEF Inv, TypeOK
<1>1. CASE SetBaseValue(r, c)
  <2>1. PICK v \in {"empty", "filled"} :
          Change(r, c, Synchronized([card[c] EXCEPT !.base = v], mode))
    BY <1>1 DEF SetBaseValue
  <2> DEFINE row == [card[c] EXCEPT !.base = v]
  <2>2. row \in CardRow /\ row.lifecycle = card[c].lifecycle
        /\ row.events = card[c].events /\ row.source = card[c].source
    BY <1>0 DEF CardRow
  <2> HIDE DEF row
  <2> QED
    BY <2>1, <2>2, SynchronizedChange DEF row
<1>2. CASE SetCell(r, c)
  <2>1. PICK i \in Live(card[c]), v \in {"empty", "filled"} :
          Change(r, c, Synchronized([card[c] EXCEPT
            !.cells = [@ EXCEPT ![i] = v]], mode))
    BY <1>2 DEF SetCell
  <2> DEFINE row == [card[c] EXCEPT !.cells = [@ EXCEPT ![i] = v]]
  <2>2. row \in CardRow /\ row.lifecycle = card[c].lifecycle
        /\ row.events = card[c].events /\ row.source = card[c].source
    BY <1>0 DEF CardRow
  <2> QED
    BY <2>1, <2>2, SynchronizedChange
<1>3. CASE CreateInstance(r, c)
  <2>1. PICK i \in Instances :
          Change(r, c, Synchronized([card[c] EXCEPT
            !.rows = [@ EXCEPT ![i] = "live"]], mode))
    BY <1>3 DEF CreateInstance
  <2> DEFINE row == [card[c] EXCEPT !.rows = [@ EXCEPT ![i] = "live"]]
  <2>2. row \in CardRow /\ row.lifecycle = card[c].lifecycle
        /\ row.events = card[c].events /\ row.source = card[c].source
    BY <1>0 DEF CardRow
  <2> QED
    BY <2>1, <2>2, SynchronizedChange
<1>4. CASE ArchiveInstance(r, c)
  <2>1. PICK i \in Live(card[c]) :
          Change(r, c, Synchronized([card[c] EXCEPT
            !.rows = [@ EXCEPT ![i] = "archived"]], mode))
    BY <1>4 DEF ArchiveInstance
  <2> DEFINE row == [card[c] EXCEPT !.rows = [@ EXCEPT ![i] = "archived"]]
  <2>2. row \in CardRow /\ row.lifecycle = card[c].lifecycle
        /\ row.events = card[c].events /\ row.source = card[c].source
    BY <1>0 DEF CardRow
  <2> QED
    BY <2>1, <2>2, SynchronizedChange
<1>5. CASE UpdateCard(r, c)
  <2>1. PICK p \in Places :
          Change(r, c, Synchronized([card[c] EXCEPT !.place = p], mode))
    BY <1>5 DEF UpdateCard
  <2> DEFINE row == [card[c] EXCEPT !.place = p]
  <2>2. row \in CardRow /\ row.lifecycle = card[c].lifecycle
        /\ row.events = card[c].events /\ row.source = card[c].source
    BY <1>0 DEF CardRow
  <2> QED
    BY <2>1, <2>2, SynchronizedChange
<1>6. CASE MoveOrganization(r, c)
  <2>1. PICK p \in Places : Change(r, c, [card[c] EXCEPT !.place = p])
    BY <1>6 DEF MoveOrganization
  <2> DEFINE row == [card[c] EXCEPT !.place = p]
  <2>2. row \in CardRow /\ row.lifecycle = card[c].lifecycle
        /\ row.activated = card[c].activated
        /\ row.events = card[c].events /\ row.source = card[c].source
    BY <1>0 DEF CardRow
  <2>3. row.lifecycle \in Automatic
    BY <2>1, <2>2 DEF Change, Editable
  <2>4. row.lifecycle = "active" => row.activated
    BY <2>2 DEF Inv, Consistent, ActivationIsDated
  <2> HIDE DEF row
  <2> QED
    BY <2>1, <2>2, <2>3, <2>4, ChangeStep DEF row
<1> QED
  BY <1>1, <1>2, <1>3, <1>4, <1>5, <1>6

\* A save without a change of content, and the two ends of one card.
LEMMA EndStep ==
  ASSUME Inv, NEW r \in Requests, NEW c \in Cards,
         UpdateFlags(r, c) \/ Dismiss(r, c) \/ Archive(r, c)
  PROVE  Inv'
<1>0. card[c] \in CardRow /\ card[c].events \in Nat
  BY ConstantsAssumption DEF Inv, TypeOK, CardRow
<1>1. CASE UpdateFlags(r, c)
  <2> DEFINE new == Synchronized(card[c], mode)
  <2>1. Editable(card[c]) /\ Write(r, c, new)
    BY <1>1 DEF UpdateFlags
  <2>2. /\ new \in CardRow
        /\ new.lifecycle \in Automatic
        /\ new.lifecycle = "active" => new.activated
        /\ new.place = card[c].place /\ new.rows = card[c].rows
        /\ new.base = card[c].base /\ new.cells = card[c].cells
        /\ new.events = card[c].events /\ new.source = card[c].source
    BY <1>0, <2>1, SynchronizedRow DEF Editable
  <2> HIDE DEF new
  <2>3. Content(new) = Content(card[c])
    BY <2>2, ContentFrame
  <2>4. Justified(card[c], new)
    BY <1>0, <2>2, <2>3 DEF Justified
  <2> QED
    BY <2>1, <2>2, <2>4, WriteStep
<1>2. CASE Dismiss(r, c)
  <2> DEFINE new == [card[c] EXCEPT !.lifecycle = "dismissed", !.events = @ + 1]
  <2>1. card[c].lifecycle = "active" /\ card[c].events < MaxEvents
        /\ Write(r, c, new)
    BY <1>2 DEF Dismiss
  <2>2. card[c].activated
    BY <2>1 DEF Inv, Consistent, ActivationIsDated
  <2>3. /\ new \in CardRow
        /\ new.lifecycle = "dismissed" /\ new.activated = card[c].activated
        /\ new.place = card[c].place /\ new.rows = card[c].rows
        /\ new.base = card[c].base /\ new.cells = card[c].cells
        /\ new.events = card[c].events + 1 /\ new.source = card[c].source
    <3>1. card[c].events + 1 \in 0 .. MaxEvents
      BY <1>0, <2>1, ConstantsAssumption
    <3> QED
      BY <1>0, <3>1 DEF CardRow
  <2> HIDE DEF new
  <2>4. Content(new) = Content(card[c])
    BY <2>3, ContentFrame
  <2>5. Justified(card[c], new)
    BY <1>0, <2>1, <2>2, <2>3, <2>4 DEF Justified
  <2> QED
    BY <2>1, <2>3, <2>5, WriteStep
<1>3. CASE Archive(r, c)
  <2> DEFINE inForce == InForce(card[c]) \/ card[c].lifecycle = "dismissed"
             row == [card[c] EXCEPT !.lifecycle = "archived",
                                    !.archived = TRUE]
             new == IF inForce THEN [row EXCEPT !.events = @ + 1] ELSE row
  <2>1. card[c].lifecycle \in Automatic \cup {"dismissed"}
        /\ (inForce => card[c].events < MaxEvents) /\ Write(r, c, new)
    BY <1>3 DEF Archive
  <2>2. card[c].activated => inForce
    BY DEF InForce
  <2>3. /\ row \in CardRow
        /\ row.lifecycle = "archived" /\ row.activated = card[c].activated
        /\ row.place = card[c].place /\ row.rows = card[c].rows
        /\ row.base = card[c].base /\ row.cells = card[c].cells
        /\ row.events = card[c].events /\ row.source = card[c].source
    BY <1>0 DEF CardRow
  <2> HIDE DEF row, inForce
  <2>4. /\ new \in CardRow
        /\ new.lifecycle = "archived" /\ new.activated = card[c].activated
        /\ new.place = card[c].place /\ new.rows = card[c].rows
        /\ new.base = card[c].base /\ new.cells = card[c].cells
        /\ new.events \in {card[c].events, card[c].events + 1}
        /\ inForce => new.events = card[c].events + 1
        /\ new.source = card[c].source
    BY <1>0, <2>1, <2>3, ConstantsAssumption DEF CardRow
  <2> HIDE DEF new
  <2>5. Content(new) = Content(card[c])
    BY <2>4, ContentFrame
  <2>6. Justified(card[c], new)
    BY <1>0, <2>1, <2>2, <2>4, <2>5 DEF Justified
  <2> QED
    BY <2>1, <2>4, <2>6, WriteStep
<1> QED
  BY <1>1, <1>2, <1>3

\* What a transfer makes of the old card and of the new one.
LEMMA CopyRow ==
  ASSUME TypeOK, NEW c \in Cards, NEW p \in Places
  PROVE  /\ Copy(c, p) \in CardRow
         /\ Copy(c, p).lifecycle \in Automatic
         /\ Copy(c, p).lifecycle = "active" => Copy(c, p).activated
         /\ Copy(c, p).events = 0 /\ Copy(c, p).source = c
<1>0. card[c] \in CardRow
  BY DEF TypeOK
<1> DEFINE new == Synchronized(Blank(p), mode)
           live == [i \in Instances |-> IF card[c].rows[i] = "live"
                                          THEN "live" ELSE "none"]
<1>1. /\ new \in CardRow
      /\ new.lifecycle \in Automatic
      /\ new.lifecycle = "active" => new.activated
      /\ new.events = 0
  BY BlankIsRow, SynchronizedRow
<1>2. Copy(c, p) = [new EXCEPT !.source = c, !.base = card[c].base,
                               !.cells = card[c].cells, !.rows = live]
  BY DEF Copy
<1> HIDE DEF new
<1>3. live \in [Instances -> {"none", "live", "archived"}]
  OBVIOUS
<1> HIDE DEF live
<1>4. card[c].base \in Values /\ card[c].cells \in [Instances -> Values]
  BY <1>0 DEF CardRow
<1> DEFINE base == card[c].base
           cells == card[c].cells
<1> HIDE DEF base, cells
<1> DEFINE based == [new EXCEPT !.source = c, !.base = base]
<1>5. Copy(c, p) = [based EXCEPT !.cells = cells, !.rows = live]
  BY <1>2 DEF base, cells
<1>6. base \in Values /\ cells \in [Instances -> Values]
  BY <1>4 DEF base, cells
<1>7. /\ based \in CardRow
      /\ based.lifecycle = new.lifecycle /\ based.activated = new.activated
      /\ based.events = 0 /\ based.source = c
  BY <1>1, <1>6 DEF CardRow
<1> HIDE DEF based
<1>8. Copy(c, p) \in CardRow
  BY <1>3, <1>5, <1>6, <1>7 DEF CardRow
<1>9. /\ Copy(c, p).lifecycle = based.lifecycle
      /\ Copy(c, p).activated = based.activated
      /\ Copy(c, p).events = based.events /\ Copy(c, p).source = based.source
  BY <1>5, <1>7 DEF CardRow
<1> QED
  BY <1>1, <1>7, <1>8, <1>9

\* A transfer keeps the invariant: the copy is pending with the end it explains.
LEMMA TransferStep ==
  ASSUME Inv, NEW r \in Requests, NEW c \in Cards, NEW n \in Cards,
         Transfer(r, c, n)
  PROVE  Inv'
<1> DEFINE gone == [card[c] EXCEPT !.lifecycle = "superseded"]
           old == Recorded(card[c], gone)
<1>0. card[c] \in CardRow /\ card[n] \in CardRow /\ card[c].events \in Nat
  BY ConstantsAssumption DEF Inv, TypeOK, CardRow
<1>1. /\ pc[r] = "idle" /\ Editable(card[c]) /\ old.events <= MaxEvents
      /\ c # n /\ card[n].lifecycle = "none"
      /\ lock[c] = NoRequest /\ lock[n] = NoRequest
      /\ lock' = [lock EXCEPT ![c] = r, ![n] = r]
      /\ pc' = [pc EXCEPT ![r] = "commit"]
      /\ UNCHANGED <<card, mode, registryLock, newMode, todo, loaded, next>>
  BY DEF Transfer, sync
<1>2. PICK p \in Places :
        writes' = [writes EXCEPT ![r] = [@ EXCEPT ![c] = old,
                                                  ![n] = Copy(c, p)]]
  BY DEF Transfer
<1>3. /\ gone \in CardRow /\ gone.lifecycle = "superseded"
      /\ gone.activated = card[c].activated
      /\ gone.place = card[c].place /\ gone.rows = card[c].rows
      /\ gone.base = card[c].base /\ gone.cells = card[c].cells
      /\ gone.events = card[c].events /\ gone.source = card[c].source
  BY <1>0 DEF CardRow
<1>4. Content(gone) = Content(card[c])
  BY <1>3, ContentFrame
<1> HIDE DEF gone
<1>5. old.events \in 0 .. MaxEvents
  <2>1. old.events \in {gone.events, gone.events + 1}
    BY <1>0, <1>3 DEF Recorded, CardRow
  <2> QED
    BY <1>0, <1>1, <1>3, <2>1, ConstantsAssumption
<1>6. /\ old \in CardRow
      /\ old.lifecycle = gone.lifecycle /\ old.activated = gone.activated
      /\ old.source = gone.source
      /\ Content(old) = Content(gone)
      /\ old.events \in {card[c].events, card[c].events + 1}
      /\ old.events # card[c].events =>
           Content(gone) # Content(card[c])
             \/ gone.lifecycle # card[c].lifecycle
      /\ /\ card[c].activated
         /\ Content(gone) # Content(card[c])
              \/ gone.lifecycle # card[c].lifecycle
         => old.events # card[c].events
  BY <1>0, <1>3, <1>5, RecordedRow
<1>7. Justified(card[c], old)
  BY <1>1, <1>3, <1>4, <1>6 DEF Justified, Editable
<1> HIDE DEF old
<1>8. /\ Copy(c, p) \in CardRow
      /\ Copy(c, p).lifecycle \in Automatic
      /\ Copy(c, p).lifecycle = "active" => Copy(c, p).activated
      /\ Copy(c, p).events = 0 /\ Copy(c, p).source = c
  BY CopyRow DEF Inv
<1>9. Justified(card[n], Copy(c, p))
  <2>1. ~card[n].activated /\ card[n].events = 0 /\ card[n].source = NoCard
    BY <1>1 DEF Inv, Consistent, UnusedIds
  <2> QED
    BY <1>1, <1>8, <2>1 DEF Justified
<1>10. TypeOK'
  BY <1>1, <1>2, <1>6, <1>8 DEF Inv, TypeOK
<1>11. lock'[c] = r /\ lock'[n] = r
       /\ writes'[r][c] = old /\ writes'[r][n] = Copy(c, p)
  BY <1>1, <1>2 DEF Inv, TypeOK
<1>12. \A s \in Requests, x \in Cards : lock'[x] = s /\ x # c /\ x # n =>
         lock[x] = s /\ writes'[s][x] = writes[s][x]
  BY <1>1, <1>2 DEF Inv, TypeOK
<1>13. \A s \in Requests, x \in Cards : lock[x] = s =>
         lock'[x] = s /\ writes'[s][x] = writes[s][x]
  BY <1>1, <1>2, ConstantsAssumption DEF Inv, TypeOK
<1>14. \A s \in Requests, x \in Cards :
         lock'[x] = s => Justified(card'[x], writes'[s][x])
  <2> SUFFICES ASSUME NEW s \in Requests, NEW x \in Cards, lock'[x] = s
               PROVE  Justified(card[x], writes'[s][x])
    BY <1>1
  <2>1. CASE x \in {c, n}
    BY <1>7, <1>9, <1>11, <2>1
  <2>2. CASE x \notin {c, n}
    BY <1>12, <2>2 DEF Inv, Consistent
  <2> QED
    BY <2>1, <2>2
<1>15. CopiesArePending'
  <2> SUFFICES ASSUME NEW s \in Requests, NEW x \in Cards, lock'[x] = s,
                      writes'[s][x].lifecycle = "superseded"
               PROVE  \E y \in Cards : lock'[y] = s /\ writes'[s][y].source = x
    BY DEF CopiesArePending
  <2>1. CASE x = c
    BY <1>8, <1>11, <2>1
  <2>2. CASE x = n
    BY <1>8, <1>11, <2>2
  <2>3. CASE x \notin {c, n}
    BY <1>12, <1>13, <2>3 DEF Inv, Consistent, CopiesArePending
  <2> QED
    BY <2>1, <2>2, <2>3
<1>16. WaitsAreSound'
  BY <1>1 DEF Inv, TypeOK, Consistent, WaitsAreSound
<1>17. UnusedIds' /\ ActivationIsDated' /\ SupersededHasCopy'
  BY <1>1 DEF Inv, Consistent, UnusedIds, ActivationIsDated, SupersededHasCopy
<1> QED
  BY <1>10, <1>14, <1>15, <1>16, <1>17 DEF Inv, Consistent

-----------------------------------------------------------------------------
(* Synchronizations and the ends of transactions *)

\* A change of the schema touches no card and holds none.
LEMMA ChangeSchemaStep ==
  ASSUME Inv, NEW r \in Requests, ChangeSchema(r)
  PROVE  Inv'
<1> DEFINE selected == {c \in Cards : card[c].lifecycle \in Automatic}
<1>1. /\ registryLock' = r
      /\ todo' = [todo EXCEPT ![r] = selected]
      /\ loaded' = [loaded EXCEPT ![r] = [c \in Cards |->
                      IF c \in selected THEN card[c] ELSE Absent]]
      /\ pc' = [pc EXCEPT ![r] = "sync"]
      /\ UNCHANGED <<card, mode, lock, writes, next>>
  BY DEF ChangeSchema
<1>2. PICK f \in Fields, m \in Modes :
        newMode' = [newMode EXCEPT ![r] = [mode EXCEPT ![f] = m]]
  BY DEF ChangeSchema
<1>3. [mode EXCEPT ![f] = m] \in Schema
  BY DEF Inv, TypeOK, Schema
<1>4. selected \in SUBSET Cards
      /\ [c \in Cards |-> IF c \in selected THEN card[c] ELSE Absent]
           \in [Cards -> CardRow]
  BY AbsentIsRow DEF Inv, TypeOK
<1>5. TypeOK'
  <2> HIDE DEF selected
  <2> QED
    BY <1>1, <1>2, <1>3, <1>4 DEF Inv, TypeOK
<1>6. WaitsAreSound'
  <2> HIDE DEF selected
  <2> SUFFICES ASSUME NEW s \in Requests, pc'[s] = "wait"
               PROVE  /\ next'[s] \in Cards
                      /\ loaded'[s][next'[s]].lifecycle \in Automatic
                      /\ loaded'[s][next'[s]].lifecycle = "active" =>
                           loaded'[s][next'[s]].activated
    BY DEF WaitsAreSound
  <2>1. s # r /\ pc[s] = "wait" /\ next'[s] = next[s] /\ loaded'[s] = loaded[s]
    BY <1>1 DEF Inv, TypeOK
  <2> QED
    BY <2>1 DEF Inv, Consistent, WaitsAreSound
<1> QED
  BY <1>1, <1>5, <1>6 DEF Inv, Consistent, UnusedIds, ActivationIsDated,
                          SupersededHasCopy, CopiesArePending

\* Deriving the status of the next card touches only the copy of it.
LEMMA SyncCardStep ==
  ASSUME Inv, NEW r \in Requests, NEW c \in Cards, SyncCard(r, c)
  PROVE  Inv'
<1> DEFINE copy == loaded[r][c]
           status == Derived(card[c], newMode[r])
           new == [copy EXCEPT !.lifecycle = status,
                               !.activated = @ \/ status = "active"]
<1>0. copy \in CardRow /\ status \in Automatic
  BY DEF Inv, TypeOK, Derived
<1>1. UNCHANGED <<card, mode, lock, registryLock, writes, newMode>>
      /\ pc[r] = "sync"
  BY DEF SyncCard, locks
<1>2. CASE /\ todo' = [todo EXCEPT ![r] = @ \ {c}]
           /\ UNCHANGED <<pc, loaded, next>>
  <2>1. TypeOK'
    BY <1>1, <1>2 DEF Inv, TypeOK
  <2> QED
    BY <1>1, <1>2, <2>1 DEF Inv, Consistent, UnusedIds, ActivationIsDated,
                            SupersededHasCopy, CopiesArePending, WaitsAreSound
<1>3. CASE /\ pc' = [pc EXCEPT ![r] = "wait"]
           /\ next' = [next EXCEPT ![r] = c]
           /\ loaded' = [loaded EXCEPT ![r] = [@ EXCEPT ![c] = new]]
           /\ UNCHANGED todo
  <2>1. new \in CardRow /\ new.lifecycle = status
        /\ (new.lifecycle = "active" => new.activated)
    <3> HIDE DEF copy, status
    <3> QED
      BY <1>0 DEF CardRow
  <2> HIDE DEF new
  <2>2. TypeOK'
    BY <1>1, <1>3, <2>1 DEF Inv, TypeOK
  <2>3. WaitsAreSound'
    <3> SUFFICES ASSUME NEW s \in Requests, pc'[s] = "wait"
                 PROVE  /\ next'[s] \in Cards
                        /\ loaded'[s][next'[s]].lifecycle \in Automatic
                        /\ loaded'[s][next'[s]].lifecycle = "active" =>
                             loaded'[s][next'[s]].activated
      BY DEF WaitsAreSound
    <3>1. CASE s = r
      <4>1. next'[s] = c /\ loaded'[s][c] = new
        BY <1>3, <3>1 DEF Inv, TypeOK
      <4> QED
        BY <1>0, <2>1, <4>1
    <3>2. CASE s # r
      <4>1. pc[s] = "wait" /\ next'[s] = next[s] /\ loaded'[s] = loaded[s]
        BY <1>3, <3>2 DEF Inv, TypeOK
      <4> QED
        BY <4>1 DEF Inv, Consistent, WaitsAreSound
    <3> QED
      BY <3>1, <3>2
  <2> QED
    BY <1>1, <2>2, <2>3 DEF Inv, Consistent, UnusedIds, ActivationIsDated,
                            SupersededHasCopy, CopiesArePending
<1> QED
  BY <1>2, <1>3 DEF SyncCard

\* The row a synchronization writes is justified whatever the card has become
\* since it was selected: it changes no content.
LEMMA SyncWriteStep ==
  ASSUME Inv, NEW r \in Requests, SyncWrite(r)
  PROVE  Inv'
<1> DEFINE c == next[r]
           copy == loaded[r][c]
           new == Merged(card[c], copy)
<1>0. pc[r] = "wait" /\ lock[c] = NoRequest
      /\ lock' = [lock EXCEPT ![c] = r]
      /\ writes' = [writes EXCEPT ![r] = [@ EXCEPT ![c] = new]]
      /\ todo' = [todo EXCEPT ![r] = @ \ {c}]
      /\ next' = [next EXCEPT ![r] = NoCard]
      /\ pc' = [pc EXCEPT ![r] = "sync"]
      /\ UNCHANGED <<card, mode, registryLock, newMode, loaded>>
  BY DEF SyncWrite
<1>1. c \in Cards /\ copy.lifecycle \in Automatic
      /\ (copy.lifecycle = "active" => copy.activated)
  BY <1>0 DEF Inv, Consistent, WaitsAreSound
<1>2. card[c] \in CardRow /\ copy \in CardRow /\ card[c].events \in Nat
  BY <1>1, ConstantsAssumption DEF Inv, TypeOK, CardRow
<1> HIDE DEF c, copy
<1>3. /\ new \in CardRow /\ new.lifecycle = copy.lifecycle
      /\ new.activated = (card[c].activated \/ copy.activated)
      /\ new.place = card[c].place /\ new.rows = card[c].rows
      /\ new.base = card[c].base /\ new.cells = card[c].cells
      /\ new.events = card[c].events /\ new.source = card[c].source
  BY <1>1, <1>2 DEF Merged, CardRow
<1> HIDE DEF new
<1>4. Content(new) = Content(card[c])
  BY <1>3, ContentFrame
<1>5. Justified(card[c], new)
  BY <1>1, <1>2, <1>3, <1>4 DEF Justified
<1>6. TypeOK'
  BY <1>0, <1>1, <1>3 DEF Inv, TypeOK
<1>7. lock'[c] = r /\ writes'[r][c] = new
  BY <1>0, <1>1 DEF Inv, TypeOK
<1>8. \A s \in Requests, x \in Cards : lock'[x] = s /\ x # c =>
        lock[x] = s /\ writes'[s][x] = writes[s][x]
  BY <1>0, <1>1 DEF Inv, TypeOK
<1>9. \A s \in Requests, x \in Cards : lock[x] = s =>
        x # c /\ lock'[x] = s /\ writes'[s][x] = writes[s][x]
  BY <1>0, <1>1, ConstantsAssumption DEF Inv, TypeOK
<1>10. \A s \in Requests, x \in Cards :
         lock'[x] = s => Justified(card'[x], writes'[s][x])
  <2> SUFFICES ASSUME NEW s \in Requests, NEW x \in Cards, lock'[x] = s
               PROVE  Justified(card[x], writes'[s][x])
    BY <1>0
  <2>1. CASE x = c
    BY <1>5, <1>7, <2>1
  <2>2. CASE x # c
    BY <1>8, <2>2 DEF Inv, Consistent
  <2> QED
    BY <2>1, <2>2
<1>11. CopiesArePending'
  <2> SUFFICES ASSUME NEW s \in Requests, NEW x \in Cards, lock'[x] = s,
                      writes'[s][x].lifecycle = "superseded"
               PROVE  \E n \in Cards : lock'[n] = s /\ writes'[s][n].source = x
    BY DEF CopiesArePending
  <2>1. x # c
    BY <1>1, <1>3, <1>7
  <2>2. PICK n \in Cards : lock[n] = s /\ writes[s][n].source = x
    BY <1>8, <2>1 DEF Inv, Consistent, CopiesArePending
  <2> QED
    BY <1>9, <2>2
<1>12. WaitsAreSound'
  <2> SUFFICES ASSUME NEW s \in Requests, pc'[s] = "wait"
               PROVE  /\ next'[s] \in Cards
                      /\ loaded'[s][next'[s]].lifecycle \in Automatic
                      /\ loaded'[s][next'[s]].lifecycle = "active" =>
                           loaded'[s][next'[s]].activated
    BY DEF WaitsAreSound
  <2>1. s # r /\ pc[s] = "wait" /\ next'[s] = next[s] /\ loaded'[s] = loaded[s]
    BY <1>0 DEF Inv, TypeOK
  <2> QED
    BY <2>1 DEF Inv, Consistent, WaitsAreSound
<1>13. UnusedIds' /\ ActivationIsDated' /\ SupersededHasCopy'
  BY <1>0 DEF Inv, Consistent, UnusedIds, ActivationIsDated, SupersededHasCopy
<1> QED
  BY <1>6, <1>10, <1>11, <1>12, <1>13 DEF Inv, Consistent

\* What a commit does to one card: nothing, or something justified.
LEMMA CommittedRow ==
  ASSUME Inv, NEW r \in Requests, Commit(r), NEW c \in Cards
  PROVE  /\ lock[c] # r => card'[c] = card[c]
         /\ lock[c] = r => card'[c] = writes[r][c]
                           /\ Justified(card[c], card'[c])
BY DEF Inv, Consistent, Commit

\* A commit keeps the invariant.
LEMMA CommitStep ==
  ASSUME Inv, NEW r \in Requests, Commit(r)
  PROVE  Inv'
<1>0. /\ card' = [c \in Cards |-> IF lock[c] = r THEN writes[r][c] ELSE card[c]]
      /\ mode' = (IF registryLock = r THEN newMode[r] ELSE mode)
      /\ Release(r)
  BY DEF Commit
<1>1. card' \in [Cards -> CardRow] /\ mode' \in Schema
  BY <1>0 DEF Inv, TypeOK
<1>2. UnusedIds'
  <2> SUFFICES ASSUME NEW c \in Cards, card'[c].lifecycle = "none"
               PROVE  ~card'[c].activated /\ card'[c].events = 0
                      /\ card'[c].source = NoCard
    BY DEF UnusedIds
  <2>1. card'[c] = card[c]
    BY CommittedRow DEF Justified
  <2> QED
    BY <2>1 DEF Inv, Consistent, UnusedIds
<1>3. ActivationIsDated'
  <2> SUFFICES ASSUME NEW c \in Cards,
                      card'[c].lifecycle \in {"active", "dismissed"}
               PROVE  card'[c].activated
    BY DEF ActivationIsDated
  <2>1. CASE lock[c] = r
    BY <2>1, CommittedRow DEF Justified
  <2>2. CASE lock[c] # r
    BY <2>2, CommittedRow DEF Inv, Consistent, ActivationIsDated
  <2> QED
    BY <2>1, <2>2
<1>4. SupersededHasCopy'
  <2> SUFFICES ASSUME NEW c \in Cards, card'[c].lifecycle = "superseded"
               PROVE  \E n \in Cards : card'[n].source = c
    BY DEF SupersededHasCopy
  <2>1. CASE lock[c] = r
    <3>1. writes[r][c].lifecycle = "superseded"
      BY <2>1, CommittedRow
    <3>2. PICK n \in Cards : lock[n] = r /\ writes[r][n].source = c
      BY <2>1, <3>1 DEF Inv, Consistent, CopiesArePending
    <3> QED
      BY <3>2, CommittedRow
  <2>2. CASE lock[c] # r
    <3>1. PICK n \in Cards : card[n].source = c
      BY <2>2, CommittedRow DEF Inv, Consistent, SupersededHasCopy
    <3>2. c # NoCard
      BY ConstantsAssumption
    <3>3. card'[n].source = c
      BY <3>1, <3>2, CommittedRow DEF Justified
    <3> QED
      BY <3>3
  <2> QED
    BY <2>1, <2>2
<1>5. \A x \in Cards : lock[x] # r => card'[x] = card[x]
  BY CommittedRow
<1> QED
  BY <1>0, <1>1, <1>2, <1>3, <1>4, <1>5, ReleaseStep

\* A rollback keeps the invariant.
LEMMA FailStep ==
  ASSUME Inv, NEW r \in Requests, Fail(r)
  PROVE  Inv'
<1>1. Release(r) /\ UNCHANGED <<card, mode>>
  BY DEF Fail
<1>2. UnusedIds' /\ ActivationIsDated' /\ SupersededHasCopy'
  BY <1>1 DEF Inv, Consistent, UnusedIds, ActivationIsDated, SupersededHasCopy
<1> QED
  BY <1>1, <1>2, ReleaseStep DEF Inv, TypeOK

-----------------------------------------------------------------------------
(* Theorems *)

\* The start is consistent: no id is in use and nothing is locked.
LEMMA InitInv == Init => Inv
<1> SUFFICES ASSUME Init PROVE Inv
  OBVIOUS
<1>1. Unchanged \in Schema
  BY ConstantsAssumption DEF Unchanged, Schema
<1>2. TypeOK
  BY <1>1, AbsentIsRow DEF Init, TypeOK
<1>3. Consistent
  BY AbsentIsRow, ConstantsAssumption
  DEF Init, Consistent, UnusedIds, ActivationIsDated, SupersededHasCopy,
      CopiesArePending, WaitsAreSound
<1> QED
  BY <1>2, <1>3 DEF Inv

\* Every step of the system keeps the invariant.
LEMMA NextInv == Inv /\ [Next]_vars => Inv'
<1> SUFFICES ASSUME Inv, [Next]_vars PROVE Inv'
  OBVIOUS
<1>1. CASE UNCHANGED vars
  BY <1>1 DEF vars, Inv, TypeOK, Consistent, UnusedIds, ActivationIsDated,
              SupersededHasCopy, CopiesArePending, WaitsAreSound
<1>2. ASSUME NEW r \in Requests, NEW c \in Cards, CardStep(r, c) PROVE Inv'
  <2>1. CASE CreateCard(r, c) \/ CreateDraft(r, c) \/ CreateWithFirstValue(r, c)
    BY <2>1, CreationStep
  <2>2. CASE \/ SetBaseValue(r, c) \/ SetCell(r, c) \/ CreateInstance(r, c)
             \/ ArchiveInstance(r, c) \/ UpdateCard(r, c)
             \/ MoveOrganization(r, c)
    BY <2>2, BusinessStep
  <2>3. CASE UpdateFlags(r, c) \/ Dismiss(r, c) \/ Archive(r, c)
    BY <2>3, EndStep
  <2>4. CASE \E n \in Cards : Transfer(r, c, n)
    BY <2>4, TransferStep
  <2>5. CASE SyncCard(r, c)
    BY <2>5, SyncCardStep
  <2> QED
    BY <1>2, <2>1, <2>2, <2>3, <2>4, <2>5 DEF CardStep
<1>3. ASSUME NEW r \in Requests,
             ChangeSchema(r) \/ SyncWrite(r) \/ Commit(r) \/ Fail(r)
      PROVE  Inv'
  BY <1>3, ChangeSchemaStep, SyncWriteStep, CommitStep, FailStep
<1> QED
  BY <1>1, <1>2, <1>3 DEF Next

\* The invariant holds in every reachable state.
LEMMA SpecInv == Spec => []Inv
BY InitInv, NextInv, PTL DEF Spec

\* Rows, locks and the progress of requests keep their types.
THEOREM TypeCorrect == Spec => []TypeOK
BY SpecInv, PTL DEF Inv

\* What is about to be committed is justified by the row it will replace, in
\* spite of the synchronizations, which select cards without locking them.
THEOREM AlwaysConsistent == Spec => []Consistent
BY SpecInv, PTL DEF Inv

\* A card that is or was in force has the date of its first activation.
THEOREM AlwaysDated == Spec => []ActivationIsDated
<1>1. Inv => ActivationIsDated
  BY DEF Inv, Consistent
<1> QED
  BY <1>1, SpecInv, PTL

\* Transfers are all or nothing: a superseded card has its copy.
THEOREM TransfersAreWhole == Spec => []SupersededHasCopy
<1>1. Inv => SupersededHasCopy
  BY DEF Inv, Consistent
<1> QED
  BY <1>1, SpecInv, PTL

\* Only a commit changes a card, and to something its row justifies.
LEMMA StepIsJustified ==
  ASSUME Inv, [Next]_vars, NEW c \in Cards
  PROVE  card'[c] = card[c] \/ Justified(card[c], card'[c])
<1>1. CASE UNCHANGED vars
  BY <1>1 DEF vars
<1>2. ASSUME NEW r \in Requests, NEW x \in Cards, CardStep(r, x)
      PROVE  card' = card
  BY <1>2 DEF CardStep, CreateCard, CreateDraft, CreateWithFirstValue, Insert,
              SetBaseValue, SetCell, CreateInstance, ArchiveInstance,
              UpdateCard, UpdateFlags, MoveOrganization, Change, Write,
              Dismiss, Archive, Transfer, SyncCard
<1>3. ASSUME NEW r \in Requests, ChangeSchema(r) \/ SyncWrite(r) \/ Fail(r)
      PROVE  card' = card
  BY <1>3 DEF ChangeSchema, SyncWrite, Fail
<1>4. ASSUME NEW r \in Requests, Commit(r)
      PROVE  card'[c] = card[c] \/ Justified(card[c], card'[c])
  BY <1>4, CommittedRow
<1> QED
  BY <1>1, <1>2, <1>3, <1>4 DEF Next

\* No write lands on a card that has been dismissed, archived or superseded.
THEOREM NoWriteLandsAfterEnd == Spec => NoWriteAfterEnd
<1>1. Inv /\ [Next]_vars =>
        [\A c \in Cards :
           card[c].lifecycle # "none" /\ Content(card'[c]) # Content(card[c]) =>
             card[c].lifecycle \in Automatic /\ ~card[c].archived]_vars
  BY StepIsJustified DEF Justified
<1> QED
  BY <1>1, SpecInv, PTL DEF Spec, NoWriteAfterEnd

\* Every change of a card that has been active, and every end of one, leaves
\* exactly one business event.
THEOREM EveryChangeHasItsEvent == Spec => OneEventPerChange
<1>1. Inv /\ [Next]_vars =>
        [\A c \in Cards :
           LET old == card[c]  new == card'[c] IN
           /\ new.events \in {old.events, old.events + 1}
           /\ old.activated /\ Content(new) # Content(old) =>
                new.events # old.events
           /\ old.activated /\ new.lifecycle # old.lifecycle
                /\ new.lifecycle \in Terminal => new.events # old.events
           /\ new.events # old.events =>
                \/ Content(new) # Content(old)
                \/ new.lifecycle # old.lifecycle]_vars
  BY StepIsJustified DEF Justified
<1> QED
  BY <1>1, SpecInv, PTL DEF Spec, OneEventPerChange

-----------------------------------------------------------------------------
(* The status of a card, one request at a time *)

\* What StatusFollowsFields says of one card
Follows(row, schema) ==
  /\ row.activated /\ row.lifecycle \in Automatic
  /\ ~row.archived /\ row.source = NoCard
  => row.lifecycle = Derived(row, schema)

\* A synchronization has the registry to itself; it has yet to see the cards
\* in todo, which are as it loaded them but for the status it waits to write.
\* Every other card follows the schema it is about to commit.
SynchronizesAlone(r) ==
  /\ registryLock = r
  /\ pc[r] = "wait" => next[r] \in todo[r]
  /\ \A c \in Cards :
       /\ lock[c] = r => c \notin todo[r] /\ Follows(writes[r][c], newMode[r])
       /\ lock[c] # r /\ c \notin todo[r] => Follows(card[c], newMode[r])
       /\ c \in todo[r] =>
            IF pc[r] = "wait" /\ c = next[r]
            THEN loaded[r][c].lifecycle = Derived(card[c], newMode[r])
            ELSE loaded[r][c] = card[c]

TurnInv ==
  /\ InTurn
  /\ \A c \in Cards : Follows(card[c], mode)
  /\ \A r \in Requests :
       /\ pc[r] = "idle" => registryLock # r /\ \A c \in Cards : lock[c] # r
       /\ pc[r] = "commit" =>
            registryLock # r /\ \A c \in Cards : lock[c] = r => Follows(writes[r][c], mode)
       /\ pc[r] \in {"sync", "wait"} => SynchronizesAlone(r)

\* The status depends on the values and the rows alone.
LEMMA DerivedFrame ==
  ASSUME NEW x, NEW y, NEW schema, x.rows = y.rows, x.base = y.base, x.cells = y.cells
  PROVE  Derived(x, schema) = Derived(y, schema)
BY DEF Derived, Complete, Live

\* A synchronized row follows its fields.
LEMMA SynchronizedFollows ==
  ASSUME NEW row \in CardRow, NEW schema
  PROVE  Follows(Synchronized(row, schema), schema)
<1> DEFINE new == Synchronized(row, schema)
<1>1. CASE row.lifecycle \notin Automatic
  <2>1. new = row
    BY <1>1 DEF Synchronized
  <2> QED
    BY <1>1, <2>1 DEF Follows
<1>2. CASE row.lifecycle \in Automatic
  <2>1. new = [row EXCEPT !.lifecycle = Derived(row, schema),
                          !.activated = @ \/ Complete(row, schema)]
    BY <1>2 DEF Synchronized
  <2>2. new.lifecycle = Derived(row, schema)
    BY <2>1 DEF CardRow
  <2>3. new.rows = row.rows /\ new.base = row.base /\ new.cells = row.cells
    BY <1>2, SynchronizedRow
  <2> HIDE DEF new
  <2>4. Derived(new, schema) = Derived(row, schema)
    BY <2>3, DerivedFrame
  <2> QED
    BY <2>2, <2>4 DEF Follows, new
<1> QED
  BY <1>1, <1>2

\* Recording an event does not change what follows.
LEMMA RecordedFollows ==
  ASSUME NEW old \in CardRow, NEW row \in CardRow, NEW schema, Follows(row, schema)
  PROVE  Follows(Recorded(old, row), schema)
<1> DEFINE raised == [row EXCEPT !.events = @ + 1]
<1>1. raised.lifecycle = row.lifecycle /\ raised.activated = row.activated
      /\ raised.archived = row.archived /\ raised.source = row.source
      /\ raised.rows = row.rows /\ raised.base = row.base /\ raised.cells = row.cells
  BY DEF CardRow
<1>2. Recorded(old, row) \in {row, raised}
  BY DEF Recorded
<1> HIDE DEF raised
<1>3. Derived(raised, schema) = Derived(row, schema)
  BY <1>1, DerivedFrame
<1>4. Follows(raised, schema)
  BY <1>1, <1>3 DEF Follows
<1> QED
  BY <1>2, <1>4

\* A request that locks a card, alone, and leaves a row that follows the schema
LEMMA WriteInTurn ==
  ASSUME Inv, TurnInv, InTurn', NEW r \in Requests, NEW c \in Cards, NEW row \in CardRow,
         Write(r, c, row), Follows(row, mode)
  PROVE  TurnInv'
<1>0. pc[r] = "idle" /\ lock[c] = NoRequest
      /\ lock' = [lock EXCEPT ![c] = r]
      /\ writes' = [writes EXCEPT ![r] = [@ EXCEPT ![c] = row]]
      /\ pc' = [pc EXCEPT ![r] = "commit"]
      /\ UNCHANGED <<card, mode, registryLock, newMode, todo, loaded, next>>
  BY DEF Write, sync
<1>1. pc'[r] = "commit" /\ \A s \in Requests \ {r} : pc'[s] = pc[s]
  BY <1>0 DEF Inv, TypeOK
<1>2. \A s \in Requests \ {r} : pc[s] = "idle"
  BY <1>1 DEF InTurn
<1>3. writes'[r][c] = row
  BY <1>0 DEF Inv, TypeOK
<1>4. \A x \in Cards : lock'[x] = r => x = c
  BY <1>0 DEF Inv, TypeOK, TurnInv
<1>5. \A s \in Requests \ {r}, x \in Cards : lock'[x] # s
  BY <1>0, <1>2 DEF Inv, TypeOK, TurnInv
<1>6. registryLock' # r /\ \A s \in Requests \ {r} : registryLock' # s
  BY <1>0, <1>2 DEF TurnInv
<1>7. ASSUME NEW s \in Requests
      PROVE  /\ pc'[s] = "idle" => registryLock' # s /\ \A x \in Cards : lock'[x] # s
             /\ pc'[s] = "commit" =>
                  registryLock' # s /\ \A x \in Cards : lock'[x] = s => Follows(writes'[s][x], mode')
             /\ pc'[s] \in {"sync", "wait"} => FALSE
  <2>1. CASE s = r
    BY <2>1, <1>0, <1>1, <1>3, <1>4, <1>6
  <2>2. CASE s # r
    BY <2>2, <1>1, <1>2, <1>5, <1>6
  <2> QED
    BY <2>1, <2>2
<1>8. \A x \in Cards : Follows(card'[x], mode')
  BY <1>0 DEF TurnInv
<1> QED
  BY <1>7, <1>8 DEF TurnInv

LEMMA InsertInTurn ==
  ASSUME Inv, TurnInv, InTurn', NEW r \in Requests, NEW c \in Cards, NEW row \in CardRow,
         Insert(r, c, row), Follows(row, mode)
  PROVE  TurnInv'
BY WriteInTurn DEF Insert

LEMMA ChangeInTurn ==
  ASSUME Inv, TurnInv, InTurn', NEW r \in Requests, NEW c \in Cards, NEW row \in CardRow,
         Change(r, c, row), row.events = card[c].events, Follows(row, mode)
  PROVE  TurnInv'
<1> DEFINE new == Recorded(card[c], row)
<1>0. card[c] \in CardRow
  BY DEF Inv, TypeOK
<1>1. new.events <= MaxEvents /\ Write(r, c, new)
  BY DEF Change
<1>2. new \in CardRow
  <2>1. row.events \in Nat
    BY ConstantsAssumption DEF CardRow
  <2>2. new.events \in {row.events, row.events + 1}
    BY <2>1 DEF Recorded, CardRow
  <2>3. new.events \in 0 .. MaxEvents
    BY <1>1, <2>1, <2>2, ConstantsAssumption
  <2> QED
    BY <1>0, <2>3, RecordedRow
<1>3. Follows(new, mode)
  BY <1>0, RecordedFollows
<1> HIDE DEF new
<1> QED
  BY <1>1, <1>2, <1>3, WriteInTurn

\* A change of values, rows or place followed by a synchronization
LEMMA SynchronizedInTurn ==
  ASSUME Inv, TurnInv, InTurn', NEW r \in Requests, NEW c \in Cards, NEW row \in CardRow,
         Change(r, c, Synchronized(row, mode)),
         row.lifecycle = card[c].lifecycle, row.events = card[c].events
  PROVE  TurnInv'
<1> DEFINE new == Synchronized(row, mode)
<1>1. row.lifecycle \in Automatic
  BY DEF Change, Editable
<1>2. new \in CardRow /\ new.events = row.events
  BY <1>1, SynchronizedRow
<1>3. Follows(new, mode)
  BY SynchronizedFollows
<1> HIDE DEF new
<1> QED
  BY <1>2, <1>3, ChangeInTurn DEF new

\* The three ways to create a card: a new draft is not yet bound to follow.
LEMMA CreationInTurn ==
  ASSUME Inv, TurnInv, InTurn', NEW r \in Requests, NEW c \in Cards,
         CreateCard(r, c) \/ CreateDraft(r, c) \/ CreateWithFirstValue(r, c)
  PROVE  TurnInv'
<1>1. CASE CreateCard(r, c)
  <2>1. PICK p \in Places, v \in {"absent", "filled"} : Insert(r, c, New(p, v))
    BY <1>1 DEF CreateCard
  <2>2. [Blank(p) EXCEPT !.base = v] \in CardRow
    BY BlankIsRow DEF CardRow
  <2>3. Follows(New(p, v), mode)
    BY <2>2, SynchronizedFollows DEF New
  <2> QED
    BY <2>1, <2>3, NewRow, InsertInTurn
<1>2. CASE CreateDraft(r, c)
  <2>1. PICK p \in Places, v \in {"absent", "filled"} :
          Insert(r, c, Preserved(New(p, v)))
    BY <1>2 DEF CreateDraft
  <2>2. New(p, v) \in CardRow /\ Preserved(New(p, v)) \in CardRow
    BY NewRow
  <2>3. ~Preserved(New(p, v)).activated
    BY <2>2 DEF Preserved, CardRow
  <2>4. Follows(Preserved(New(p, v)), mode)
    BY <2>3 DEF Follows
  <2> QED
    BY <2>1, <2>2, <2>4, InsertInTurn
<1>3. CASE CreateWithFirstValue(r, c)
  <2>1. PICK p \in Places, v \in {"absent", "filled"} :
          Insert(r, c, Synchronized([Preserved(New(p, v)) EXCEPT
                                       !.base = "filled"], mode))
    BY <1>3 DEF CreateWithFirstValue
  <2> DEFINE row == [Preserved(New(p, v)) EXCEPT !.base = "filled"]
  <2>2. v \in Values
    BY <2>1
  <2>3. row \in CardRow /\ row.lifecycle \in Automatic
    BY <2>2, NewRow DEF CardRow
  <2>4. Insert(r, c, Synchronized(row, mode))
    BY <2>1
  <2> HIDE DEF row
  <2> QED
    BY <2>3, <2>4, SynchronizedRow, SynchronizedFollows, InsertInTurn
<1> QED
  BY <1>1, <1>2, <1>3

\* The operations under _active_card_change: all but a move synchronize, and
\* no mandatory field depends on the place.
LEMMA BusinessInTurn ==
  ASSUME Inv, TurnInv, InTurn', NEW r \in Requests, NEW c \in Cards,
         \/ SetBaseValue(r, c) \/ SetCell(r, c) \/ CreateInstance(r, c)
         \/ ArchiveInstance(r, c) \/ UpdateCard(r, c) \/ MoveOrganization(r, c)
  PROVE  TurnInv'
<1>0. card[c] \in CardRow
  BY DEF Inv, TypeOK
<1>1. CASE SetBaseValue(r, c)
  <2>1. PICK v \in {"empty", "filled"} :
          Change(r, c, Synchronized([card[c] EXCEPT !.base = v], mode))
    BY <1>1 DEF SetBaseValue
  <2> DEFINE row == [card[c] EXCEPT !.base = v]
  <2>2. row \in CardRow /\ row.lifecycle = card[c].lifecycle
        /\ row.events = card[c].events
    BY <1>0 DEF CardRow
  <2> HIDE DEF row
  <2> QED
    BY <2>1, <2>2, SynchronizedInTurn DEF row
<1>2. CASE SetCell(r, c)
  <2>1. PICK i \in Live(card[c]), v \in {"empty", "filled"} :
          Change(r, c, Synchronized([card[c] EXCEPT
            !.cells = [@ EXCEPT ![i] = v]], mode))
    BY <1>2 DEF SetCell
  <2> DEFINE row == [card[c] EXCEPT !.cells = [@ EXCEPT ![i] = v]]
  <2>2. row \in CardRow /\ row.lifecycle = card[c].lifecycle
        /\ row.events = card[c].events
    BY <1>0 DEF CardRow
  <2> QED
    BY <2>1, <2>2, SynchronizedInTurn
<1>3. CASE CreateInstance(r, c)
  <2>1. PICK i \in Instances :
          Change(r, c, Synchronized([card[c] EXCEPT
            !.rows = [@ EXCEPT ![i] = "live"]], mode))
    BY <1>3 DEF CreateInstance
  <2> DEFINE row == [card[c] EXCEPT !.rows = [@ EXCEPT ![i] = "live"]]
  <2>2. row \in CardRow /\ row.lifecycle = card[c].lifecycle
        /\ row.events = card[c].events
    BY <1>0 DEF CardRow
  <2> QED
    BY <2>1, <2>2, SynchronizedInTurn
<1>4. CASE ArchiveInstance(r, c)
  <2>1. PICK i \in Live(card[c]) :
          Change(r, c, Synchronized([card[c] EXCEPT
            !.rows = [@ EXCEPT ![i] = "archived"]], mode))
    BY <1>4 DEF ArchiveInstance
  <2> DEFINE row == [card[c] EXCEPT !.rows = [@ EXCEPT ![i] = "archived"]]
  <2>2. row \in CardRow /\ row.lifecycle = card[c].lifecycle
        /\ row.events = card[c].events
    BY <1>0 DEF CardRow
  <2> QED
    BY <2>1, <2>2, SynchronizedInTurn
<1>5. CASE UpdateCard(r, c)
  <2>1. PICK p \in Places :
          Change(r, c, Synchronized([card[c] EXCEPT !.place = p], mode))
    BY <1>5 DEF UpdateCard
  <2> DEFINE row == [card[c] EXCEPT !.place = p]
  <2>2. row \in CardRow /\ row.lifecycle = card[c].lifecycle
        /\ row.events = card[c].events
    BY <1>0 DEF CardRow
  <2> QED
    BY <2>1, <2>2, SynchronizedInTurn
<1>6. CASE MoveOrganization(r, c)
  <2>1. PICK p \in Places : Change(r, c, [card[c] EXCEPT !.place = p])
    BY <1>6 DEF MoveOrganization
  <2> DEFINE row == [card[c] EXCEPT !.place = p]
  <2>2. /\ row \in CardRow /\ row.events = card[c].events
        /\ row.lifecycle = card[c].lifecycle /\ row.activated = card[c].activated
        /\ row.archived = card[c].archived /\ row.source = card[c].source
        /\ row.rows = card[c].rows /\ row.base = card[c].base
        /\ row.cells = card[c].cells
    BY <1>0 DEF CardRow
  <2>3. Change(r, c, row)
    BY <2>1
  <2> HIDE DEF row
  <2>4. Derived(row, mode) = Derived(card[c], mode)
    BY <2>2, DerivedFrame
  <2>5. Follows(row, mode)
    BY <2>2, <2>4 DEF TurnInv, Follows
  <2> QED
    BY <2>2, <2>3, <2>5, ChangeInTurn
<1> QED
  BY <1>1, <1>2, <1>3, <1>4, <1>5, <1>6

\* A save without a change of content, and the ends, after which a card does
\* not follow its fields any more.
LEMMA EndInTurn ==
  ASSUME Inv, TurnInv, InTurn', NEW r \in Requests, NEW c \in Cards,
         UpdateFlags(r, c) \/ Dismiss(r, c) \/ Archive(r, c)
  PROVE  TurnInv'
<1>0. card[c] \in CardRow /\ card[c].events \in Nat
  BY ConstantsAssumption DEF Inv, TypeOK, CardRow
<1>1. CASE UpdateFlags(r, c)
  BY <1>0, <1>1, SynchronizedRow, SynchronizedFollows, WriteInTurn
  DEF UpdateFlags, Editable
<1>2. CASE Dismiss(r, c)
  <2> DEFINE new == [card[c] EXCEPT !.lifecycle = "dismissed", !.events = @ + 1]
  <2>1. card[c].events < MaxEvents /\ Write(r, c, new)
    BY <1>2 DEF Dismiss
  <2>2. card[c].events + 1 \in 0 .. MaxEvents
    BY <1>0, <2>1, ConstantsAssumption
  <2>3. new \in CardRow /\ new.lifecycle = "dismissed"
    BY <1>0, <2>2 DEF CardRow
  <2> HIDE DEF new
  <2>4. Follows(new, mode)
    BY <2>3 DEF Follows
  <2> QED
    BY <2>1, <2>3, <2>4, WriteInTurn
<1>3. CASE Archive(r, c)
  <2> DEFINE inForce == InForce(card[c]) \/ card[c].lifecycle = "dismissed"
             row == [card[c] EXCEPT !.lifecycle = "archived",
                                    !.archived = TRUE]
             new == IF inForce THEN [row EXCEPT !.events = @ + 1] ELSE row
  <2>1. (inForce => card[c].events < MaxEvents) /\ Write(r, c, new)
    BY <1>3 DEF Archive
  <2>2. /\ row \in CardRow /\ row.lifecycle = "archived"
        /\ row.events = card[c].events
    BY <1>0 DEF CardRow
  <2> HIDE DEF row, inForce
  <2>3. new \in CardRow /\ new.lifecycle = "archived"
    BY <1>0, <2>1, <2>2, ConstantsAssumption DEF CardRow
  <2> HIDE DEF new
  <2>4. Follows(new, mode)
    BY <2>3 DEF Follows
  <2> QED
    BY <2>1, <2>3, <2>4, WriteInTurn
<1> QED
  BY <1>1, <1>2, <1>3

\* A transfer ends the old card, and the new one is a copy.
LEMMA TransferInTurn ==
  ASSUME Inv, TurnInv, InTurn', NEW r \in Requests, NEW c \in Cards,
         NEW n \in Cards, Transfer(r, c, n)
  PROVE  TurnInv'
<1> DEFINE gone == [card[c] EXCEPT !.lifecycle = "superseded"]
           old == Recorded(card[c], gone)
<1>0. card[c] \in CardRow
  BY DEF Inv, TypeOK
<1>1. /\ pc[r] = "idle" /\ c # n
      /\ lock' = [lock EXCEPT ![c] = r, ![n] = r]
      /\ pc' = [pc EXCEPT ![r] = "commit"]
      /\ UNCHANGED <<card, mode, registryLock, newMode, todo, loaded, next>>
  BY DEF Transfer, sync
<1>2. PICK p \in Places :
        writes' = [writes EXCEPT ![r] = [@ EXCEPT ![c] = old,
                                                  ![n] = Copy(c, p)]]
  BY DEF Transfer
<1>3. gone.lifecycle = "superseded" /\ gone \in CardRow
  BY <1>0 DEF CardRow
<1> HIDE DEF gone
<1>4. old.lifecycle = "superseded"
  BY <1>3 DEF Recorded, CardRow
<1> HIDE DEF old
<1>5. Copy(c, p).source = c /\ c # NoCard
  BY CopyRow, ConstantsAssumption DEF Inv
<1>6. Follows(old, mode) /\ Follows(Copy(c, p), mode)
  BY <1>4, <1>5 DEF Follows
<1>7. writes'[r][c] = old /\ writes'[r][n] = Copy(c, p)
  BY <1>1, <1>2 DEF Inv, TypeOK
<1>8. pc'[r] = "commit" /\ \A s \in Requests \ {r} : pc'[s] = pc[s]
  BY <1>1 DEF Inv, TypeOK
<1>9. \A s \in Requests \ {r} : pc[s] = "idle"
  BY <1>8 DEF InTurn
<1>10. \A x \in Cards : lock'[x] = r => x \in {c, n}
  BY <1>1 DEF Inv, TypeOK, TurnInv
<1>11. \A s \in Requests \ {r}, x \in Cards : lock'[x] # s
  BY <1>1, <1>9 DEF Inv, TypeOK, TurnInv
<1>12. registryLock' # r /\ \A s \in Requests \ {r} : registryLock' # s
  BY <1>1, <1>9 DEF TurnInv
<1>13. ASSUME NEW s \in Requests
       PROVE  /\ pc'[s] = "idle" => registryLock' # s /\ \A x \in Cards : lock'[x] # s
              /\ pc'[s] = "commit" =>
                   registryLock' # s /\ \A x \in Cards : lock'[x] = s => Follows(writes'[s][x], mode')
              /\ pc'[s] \in {"sync", "wait"} => FALSE
  <2>1. CASE s = r
    BY <2>1, <1>1, <1>6, <1>7, <1>8, <1>10, <1>12
  <2>2. CASE s # r
    BY <2>2, <1>8, <1>9, <1>11, <1>12
  <2> QED
    BY <2>1, <2>2
<1>14. \A x \in Cards : Follows(card'[x], mode')
  BY <1>1 DEF TurnInv
<1> QED
  BY <1>13, <1>14 DEF TurnInv

\* A change of the schema selects every card that has to follow it.
LEMMA ChangeSchemaInTurn ==
  ASSUME Inv, TurnInv, InTurn', NEW r \in Requests, ChangeSchema(r)
  PROVE  TurnInv'
<1> DEFINE selected == {c \in Cards : card[c].lifecycle \in Automatic}
           copies == [c \in Cards |-> IF c \in selected THEN card[c] ELSE Absent]
<1>1. /\ pc[r] = "idle" /\ registryLock' = r
      /\ todo' = [todo EXCEPT ![r] = selected]
      /\ loaded' = [loaded EXCEPT ![r] = copies]
      /\ pc' = [pc EXCEPT ![r] = "sync"]
      /\ UNCHANGED <<card, mode, lock, writes, next>>
  BY DEF ChangeSchema
<1>2. pc'[r] = "sync" /\ \A s \in Requests \ {r} : pc'[s] = pc[s]
  BY <1>1 DEF Inv, TypeOK
<1>3. \A s \in Requests \ {r} : pc'[s] = "idle" /\ pc[s] = "idle"
  BY <1>2 DEF InTurn
<1>4. \A s \in Requests, x \in Cards : lock'[x] # s
  BY <1>1, <1>3 DEF TurnInv
<1>5. \A x \in Cards : x \notin selected => Follows(card[x], newMode'[r])
  BY DEF Follows
<1>6. \A x \in selected : copies[x] = card[x]
  OBVIOUS
<1>7. todo'[r] = selected /\ loaded'[r] = copies
  BY <1>1 DEF Inv, TypeOK
<1> HIDE DEF selected, copies
<1>8. SynchronizesAlone(r)'
  BY <1>1, <1>2, <1>4, <1>5, <1>6, <1>7 DEF SynchronizesAlone
<1>9. ASSUME NEW s \in Requests
      PROVE  /\ pc'[s] = "idle" => registryLock' # s /\ \A x \in Cards : lock'[x] # s
             /\ pc'[s] = "commit" =>
                  registryLock' # s /\ \A x \in Cards : lock'[x] = s => Follows(writes'[s][x], mode')
             /\ pc'[s] \in {"sync", "wait"} => SynchronizesAlone(s)'
  <2>1. CASE s = r
    BY <2>1, <1>2, <1>8
  <2>2. CASE s # r
    BY <2>2, <1>1, <1>3, <1>4
  <2> QED
    BY <2>1, <2>2
<1>10. \A x \in Cards : Follows(card'[x], mode')
  BY <1>1 DEF TurnInv
<1> QED
  BY <1>9, <1>10 DEF TurnInv

\* While request r synchronizes nobody else does anything.
LEMMA SynchronizationInTurn ==
  ASSUME Inv, TurnInv, InTurn', NEW r \in Requests, pc[r] # "idle",
         pc'[r] \in {"sync", "wait"}, \A s \in Requests \ {r} : pc'[s] = pc[s],
         UNCHANGED <<card, mode, registryLock>>,
         \A s \in Requests, x \in Cards : lock'[x] = s => lock[x] = s \/ s = r,
         SynchronizesAlone(r)'
  PROVE  TurnInv'
<1>1. \A s \in Requests \ {r} : pc[s] = "idle" /\ pc'[s] = "idle"
  BY DEF TurnInv, InTurn
<1>2. ASSUME NEW s \in Requests
      PROVE  /\ pc'[s] = "idle" => registryLock' # s /\ \A x \in Cards : lock'[x] # s
             /\ pc'[s] # "commit"
             /\ pc'[s] \in {"sync", "wait"} => SynchronizesAlone(s)'
  <2>1. CASE s = r
    BY <2>1
  <2>2. CASE s # r
    BY <2>2, <1>1 DEF TurnInv
  <2> QED
    BY <2>1, <2>2
<1>3. \A x \in Cards : Follows(card'[x], mode')
  BY DEF TurnInv
<1> QED
  BY <1>2, <1>3 DEF TurnInv

\* A card whose status is as it should be needs no UPDATE; the others get one.
LEMMA SyncCardInTurn ==
  ASSUME Inv, TurnInv, InTurn', NEW r \in Requests, NEW c \in Cards, SyncCard(r, c)
  PROVE  TurnInv'
<1> DEFINE copy == loaded[r][c]
           status == Derived(card[c], newMode[r])
           new == [copy EXCEPT !.lifecycle = status,
                               !.activated = @ \/ status = "active"]
<1>1. /\ pc[r] = "sync" /\ c \in todo[r]
      /\ UNCHANGED <<card, mode, lock, registryLock, writes, newMode>>
  BY DEF SyncCard, locks
<1>2. SynchronizesAlone(r)
  BY <1>1 DEF TurnInv
<1>3. copy = card[c] /\ copy \in CardRow
  BY <1>1, <1>2 DEF SynchronizesAlone, Inv, TypeOK
<1>4. CASE /\ status = copy.lifecycle
           /\ todo' = [todo EXCEPT ![r] = @ \ {c}]
           /\ UNCHANGED <<pc, loaded, next>>
  <2>1. todo'[r] = todo[r] \ {c}
    BY <1>4 DEF Inv, TypeOK
  <2>2. Follows(card[c], newMode[r])
    BY <1>3, <1>4 DEF Follows
  <2>3. SynchronizesAlone(r)'
    BY <1>1, <1>2, <1>4, <2>1, <2>2 DEF SynchronizesAlone
  <2> QED
    BY <1>1, <1>4, <2>3, SynchronizationInTurn
<1>5. CASE /\ pc' = [pc EXCEPT ![r] = "wait"]
           /\ next' = [next EXCEPT ![r] = c]
           /\ loaded' = [loaded EXCEPT ![r] = [@ EXCEPT ![c] = new]]
           /\ UNCHANGED todo
  <2>1. new.lifecycle = status
    BY <1>3 DEF CardRow
  <2> HIDE DEF new
  <2>2. /\ pc'[r] = "wait" /\ \A s \in Requests \ {r} : pc'[s] = pc[s]
        /\ next'[r] = c /\ loaded'[r][c] = new
        /\ \A x \in Cards \ {c} : loaded'[r][x] = loaded[r][x]
    BY <1>5 DEF Inv, TypeOK
  <2>3. SynchronizesAlone(r)'
    BY <1>1, <1>2, <1>5, <2>1, <2>2 DEF SynchronizesAlone
  <2> QED
    BY <1>1, <2>2, <2>3, SynchronizationInTurn
<1> QED
  BY <1>4, <1>5 DEF SyncCard

\* The UPDATE writes the status derived from the row as it still is.
LEMMA SyncWriteInTurn ==
  ASSUME Inv, TurnInv, InTurn', NEW r \in Requests, SyncWrite(r)
  PROVE  TurnInv'
<1> DEFINE c == next[r]
           new == Merged(card[c], loaded[r][c])
<1>1. pc[r] = "wait" /\ lock[c] = NoRequest
      /\ lock' = [lock EXCEPT ![c] = r]
      /\ writes' = [writes EXCEPT ![r] = [@ EXCEPT ![c] = new]]
      /\ todo' = [todo EXCEPT ![r] = @ \ {c}]
      /\ next' = [next EXCEPT ![r] = NoCard]
      /\ pc' = [pc EXCEPT ![r] = "sync"]
      /\ UNCHANGED <<card, mode, registryLock, newMode, loaded>>
  BY DEF SyncWrite
<1>2. SynchronizesAlone(r)
  BY <1>1 DEF TurnInv
<1>3. c \in todo[r] /\ c \in Cards
  BY <1>1, <1>2 DEF SynchronizesAlone, Inv, TypeOK
<1>4. loaded[r][c].lifecycle = Derived(card[c], newMode[r]) /\ card[c] \in CardRow
  BY <1>1, <1>2, <1>3 DEF SynchronizesAlone, Inv, TypeOK
<1>5. new.lifecycle = loaded[r][c].lifecycle /\ new.rows = card[c].rows
      /\ new.base = card[c].base /\ new.cells = card[c].cells
  BY <1>4 DEF Merged, CardRow
<1> HIDE DEF new, c
<1>6. Derived(new, newMode[r]) = Derived(card[c], newMode[r])
  BY <1>5, DerivedFrame
<1>7. Follows(new, newMode[r])
  BY <1>4, <1>5, <1>6 DEF Follows
<1>8. /\ pc'[r] = "sync" /\ \A s \in Requests \ {r} : pc'[s] = pc[s]
      /\ todo'[r] = todo[r] \ {c} /\ lock'[c] = r /\ writes'[r][c] = new
      /\ \A x \in Cards \ {c} : lock'[x] = lock[x] /\ writes'[r][x] = writes[r][x]
  BY <1>1, <1>3 DEF Inv, TypeOK
<1>9. c = next[r]
  BY DEF c
<1>10. SynchronizesAlone(r)'
  <2> SUFFICES ASSUME NEW x \in Cards
               PROVE  /\ lock'[x] = r => x \notin todo'[r] /\ Follows(writes'[r][x], newMode'[r])
                      /\ lock'[x] # r /\ x \notin todo'[r] => Follows(card'[x], newMode'[r])
                      /\ x \in todo'[r] => loaded'[r][x] = card'[x]
    BY <1>1, <1>2, <1>8 DEF SynchronizesAlone
  <2>1. CASE x = c
    BY <1>1, <1>7, <1>8, <2>1
  <2>2. CASE x # c
    BY <1>1, <1>2, <1>8, <1>9, <2>2 DEF SynchronizesAlone
  <2> QED
    BY <2>1, <2>2
<1>11. \A s \in Requests, x \in Cards : lock'[x] = s => lock[x] = s \/ s = r
  BY <1>8
<1> QED
  BY <1>1, <1>8, <1>10, <1>11, SynchronizationInTurn

\* The end of the only transaction leaves nothing behind.
LEMMA ReleaseInTurn ==
  ASSUME Inv, TurnInv, InTurn', NEW r \in Requests, pc[r] # "idle", Release(r),
         \A c \in Cards : Follows(card'[c], mode')
  PROVE  TurnInv'
<1>1. /\ lock' = [c \in Cards |-> IF lock[c] = r THEN NoRequest ELSE lock[c]]
      /\ registryLock' = (IF registryLock = r THEN NoRequest ELSE registryLock)
      /\ pc' = [pc EXCEPT ![r] = "idle"]
  BY DEF Release
<1>2. \A s \in Requests \ {r} : pc[s] = "idle"
  BY DEF TurnInv, InTurn
<1>3. \A s \in Requests : pc'[s] = "idle"
  BY <1>1, <1>2 DEF Inv, TypeOK
<1>4. \A s \in Requests : registryLock' # s /\ \A x \in Cards : lock'[x] # s
  BY <1>1, <1>2, ConstantsAssumption DEF TurnInv
<1> QED
  BY <1>3, <1>4 DEF TurnInv

\* A commit puts in force what follows the schema it commits.
LEMMA CommitInTurn ==
  ASSUME Inv, TurnInv, InTurn', NEW r \in Requests, Commit(r)
  PROVE  TurnInv'
<1>1. /\ pc[r] = "commit" \/ (pc[r] = "sync" /\ todo[r] = {})
      /\ card' = [c \in Cards |-> IF lock[c] = r THEN writes[r][c] ELSE card[c]]
      /\ mode' = (IF registryLock = r THEN newMode[r] ELSE mode)
      /\ Release(r)
  BY DEF Commit
<1>2. ASSUME NEW c \in Cards PROVE Follows(card'[c], mode')
  <2>1. CASE pc[r] = "commit"
    BY <1>1, <2>1 DEF TurnInv
  <2>2. CASE pc[r] = "sync" /\ todo[r] = {}
    <3>1. SynchronizesAlone(r)
      BY <2>2 DEF TurnInv
    <3> QED
      BY <1>1, <2>2, <3>1 DEF SynchronizesAlone
  <2> QED
    BY <1>1, <2>1, <2>2
<1> QED
  BY <1>1, <1>2, ReleaseInTurn

\* So does a rollback, which puts nothing in force.
LEMMA FailInTurn ==
  ASSUME Inv, TurnInv, InTurn', NEW r \in Requests, Fail(r)
  PROVE  TurnInv'
<1>1. pc[r] # "idle" /\ Release(r) /\ UNCHANGED <<card, mode>>
  BY DEF Fail
<1>2. \A c \in Cards : Follows(card'[c], mode')
  BY <1>1 DEF TurnInv
<1> QED
  BY <1>1, <1>2, ReleaseInTurn

\* Nothing is in use at the start.
LEMMA InitTurn == Init => TurnInv
<1> SUFFICES ASSUME Init PROVE TurnInv
  OBVIOUS
<1>1. \A c \in Cards : Follows(card[c], mode)
  BY AbsentIsRow DEF Init, Follows
<1> QED
  BY <1>1, ConstantsAssumption DEF Init, TurnInv, InTurn

\* Every step taken in turn keeps the invariant.
LEMMA NextTurn == Inv /\ TurnInv /\ [Next /\ InTurn']_vars => TurnInv'
<1> SUFFICES ASSUME Inv, TurnInv, [Next /\ InTurn']_vars PROVE TurnInv'
  OBVIOUS
<1>1. CASE UNCHANGED vars
  BY <1>1 DEF vars, TurnInv, InTurn, SynchronizesAlone
<1>2. ASSUME InTurn', NEW r \in Requests, NEW c \in Cards, CardStep(r, c)
      PROVE  TurnInv'
  <2>1. CASE CreateCard(r, c) \/ CreateDraft(r, c) \/ CreateWithFirstValue(r, c)
    BY <1>2, <2>1, CreationInTurn
  <2>2. CASE \/ SetBaseValue(r, c) \/ SetCell(r, c) \/ CreateInstance(r, c)
             \/ ArchiveInstance(r, c) \/ UpdateCard(r, c)
             \/ MoveOrganization(r, c)
    BY <1>2, <2>2, BusinessInTurn
  <2>3. CASE UpdateFlags(r, c) \/ Dismiss(r, c) \/ Archive(r, c)
    BY <1>2, <2>3, EndInTurn
  <2>4. CASE \E n \in Cards : Transfer(r, c, n)
    BY <1>2, <2>4, TransferInTurn
  <2>5. CASE SyncCard(r, c)
    BY <1>2, <2>5, SyncCardInTurn
  <2> QED
    BY <1>2, <2>1, <2>2, <2>3, <2>4, <2>5 DEF CardStep
<1>3. ASSUME InTurn', NEW r \in Requests,
             ChangeSchema(r) \/ SyncWrite(r) \/ Commit(r) \/ Fail(r)
      PROVE  TurnInv'
  BY <1>3, ChangeSchemaInTurn, SyncWriteInTurn, CommitInTurn, FailInTurn
<1> QED
  BY <1>1, <1>2, <1>3 DEF Next

\* One request at a time, a card that has been active follows its mandatory
\* fields for good: through every operation, every change of the schema, every
\* detour over draft, of any number of cards with any number of rows.
THEOREM StatusAlwaysFollows == InTurnSpec => []StatusFollowsFields
<1>1. [Next /\ InTurn']_vars => [Next]_vars
  OBVIOUS
<1>2. TurnInv => StatusFollowsFields
  BY DEF TurnInv, Follows, StatusFollowsFields
<1> QED
  BY <1>1, <1>2, InitInv, NextInv, InitTurn, NextTurn, PTL DEF InTurnSpec

\* The same of the instance that is checked: where requests take turns, the
\* status follows.
THEOREM StatusFollowsAloneHolds == MCSpec => []StatusFollowsFieldsAlone
<1> DEFINE Alone == part = "sequential" => TurnInv
<1>1. MCInit => Inv /\ Alone
  BY InitInv, InitTurn DEF MCInit
<1>2. Inv /\ [MCNext]_<<vars, part>> => Inv'
  BY NextInv DEF MCNext
<1>3. Inv /\ Alone /\ [MCNext]_<<vars, part>> => Alone'
  BY NextTurn DEF MCNext, OneAtATime
<1>4. Alone => StatusFollowsFieldsAlone
  BY DEF TurnInv, Follows, StatusFollowsFields, StatusFollowsFieldsAlone
<1> QED
  BY <1>1, <1>2, <1>3, <1>4, PTL DEF MCSpec
=============================================================================
