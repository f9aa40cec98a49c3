----------------------------- MODULE Intake_proofs -----------------------------
(***************************************************************************)
(* Proofs about what comes in and who is told: creation links, the         *)
(* comparison shown to a reviewer, the calculator of experience,           *)
(* notifications, and imports with the references they add.                *)
(***************************************************************************)
EXTENDS CreationLink, ReviewDiff, Notifications, WorkExperience, CardImport,
        FiniteSetTheorems, SequenceTheorems, WellFoundedInduction, TLAPS

-----------------------------------------------------------------------------
(* Creation links *)

\* A request that does something names a link.
LEMMA WorksOnALink ==
  ASSUME CreationTypeOK, NEW g \in Guests, visit[g] # Away
  PROVE  visit[g].link \in CreationLinks
BY DEF CreationTypeOK, Doings, Away

\* Two requests that hold their links hold different ones.
LEMMA LinksAreApart ==
  ASSUME NEW g \in Guests, NEW h \in Guests, g # h,
         visit[g] # Away, visit[h] # Away, HoldsItsLink(g), HoldsItsLink(h)
  PROVE  visit[g].link # visit[h].link
BY DEF HoldsItsLink

\* Numbers that are given out are not given again.
LEMMA NextNumberIsNew ==
  ASSUME IsNumbered
  PROVE  Cardinality(linked) \in Nat /\ \A d \in linked : d.id # Cardinality(linked) + 1
<1>1. Cardinality(linked) \in Nat
  BY FS_CardinalityType DEF IsNumbered
<1> QED
  BY <1>1 DEF IsNumbered

-----------------------------------------------------------------------------
(* Each kind of step *)

\* The links are as they were, and a request stays, starts or ends.
Undisturbed(h) == visit'[h] = visit[h] /\ doors'[visit[h].link] = doors[visit[h].link]
                  /\ holder'[visit[h].link] = holder[visit[h].link]

\* A request that is not disturbed keeps what it relies on.
LEMMA UndisturbedStays ==
  ASSUME NEW h \in Guests, HoldsItsLink(h), ReadsHold(h),
         visit[h] # Away => Undisturbed(h), visit[h] = Away => visit'[h] = Away
  PROVE  HoldsItsLink(h)' /\ ReadsHold(h)'
BY DEF HoldsItsLink, ReadsHold, Undisturbed, Away

\* A request that leaves gives back its link and no other.
LEMMA LeavingFreesOneLink ==
  ASSUME CreationTypeOK, NEW g \in Guests, Leave(g)
  PROVE  /\ visit' \in [Guests -> Doings] /\ visit'[g] = Away
         /\ \A h \in Guests \ {g} : visit'[h] = visit[h]
         /\ holder' \in [CreationLinks -> Guests \cup {Nobody}]
         /\ \A k \in CreationLinks : holder[k] # g => holder'[k] = holder[k]
<1>1. Away \in Doings
  BY DEF Away, Doings
<1> QED
  BY <1>1 DEF Leave, Unlocked, CreationTypeOK

\* A request that leaves disturbs nobody, if it changes no link but its own.
LEMMA LeavingIsSound ==
  ASSUME CreationIsSound, NEW g \in Guests, Leave(g), CreationTypeOK', IsNumbered',
         \A h \in Guests \ {g} : visit[h] # Away =>
           doors'[visit[h].link] = doors[visit[h].link]
  PROVE  CreationIsSound'
<1>1. HoldsItsLink(g)' /\ ReadsHold(g)'
  BY LeavingFreesOneLink DEF CreationIsSound, HoldsItsLink, ReadsHold, Away
<1>2. ASSUME NEW h \in Guests, h # g
      PROVE  HoldsItsLink(h)' /\ ReadsHold(h)'
  <2>1. HoldsItsLink(h) /\ ReadsHold(h) /\ visit'[h] = visit[h]
    BY <1>2, LeavingFreesOneLink DEF CreationIsSound
  <2>2. visit[h] # Away => Undisturbed(h)
    <3> HAVE visit[h] # Away
    <3>1. visit[h].link \in CreationLinks /\ holder[visit[h].link] = h
      BY <2>1, WorksOnALink DEF CreationIsSound, HoldsItsLink
    <3> QED
      BY <1>2, <2>1, <3>1, LeavingFreesOneLink DEF CreationIsSound, Undisturbed
  <2> QED
    BY <2>1, <2>2, UndisturbedStays
<1> QED
  BY <1>1, <1>2 DEF CreationIsSound

\* A request that takes a free link disturbs nobody.
LEMMA TakingIsSound ==
  ASSUME CreationIsSound, NEW g \in Guests, NEW k \in CreationLinks, NEW doing \in Doings,
         visit[g] = Away, LockDoor(g, k), visit' = [visit EXCEPT ![g] = doing],
         doors[k].state # "none", doing.link = k, doing # Away, UNCHANGED <<doors, usable, staffed, linked>>,
         doing.doing = "creates" =>
           /\ doors[k].state = "open" /\ doors[k].template = doing.template
           /\ doing.office \in doors[k].offices /\ doing.by = doors[k].by
  PROVE  CreationIsSound'
<1>1. /\ visit' \in [Guests -> Doings] /\ visit'[g] = doing
      /\ \A h \in Guests \ {g} : visit'[h] = visit[h]
  BY DEF CreationIsSound, CreationTypeOK
<1>2. /\ holder' \in [CreationLinks -> Guests \cup {Nobody}] /\ holder'[k] = g
      /\ \A l \in CreationLinks \ {k} : holder'[l] = holder[l]
  BY DEF CreationIsSound, CreationTypeOK, LockDoor
<1>3. CreationTypeOK' /\ IsNumbered'
  BY <1>1, <1>2 DEF CreationIsSound, CreationTypeOK, IsNumbered
<1>4. HoldsItsLink(g)' /\ ReadsHold(g)'
  BY <1>1, <1>2 DEF HoldsItsLink, ReadsHold
<1>5. ASSUME NEW h \in Guests, h # g
      PROVE  HoldsItsLink(h)' /\ ReadsHold(h)'
  <2>1. HoldsItsLink(h) /\ ReadsHold(h) /\ visit'[h] = visit[h]
    BY <1>1, <1>5 DEF CreationIsSound
  <2>2. visit[h] # Away => Undisturbed(h)
    <3> HAVE visit[h] # Away
    <3>1. visit[h].link \in CreationLinks /\ holder[visit[h].link] = h
      BY <2>1, WorksOnALink DEF CreationIsSound, HoldsItsLink
    <3>2. visit[h].link # k
      BY <3>1, CreationAssumption DEF LockDoor
    <3> QED
      BY <1>2, <2>1, <3>1, <3>2 DEF Undisturbed
  <2> QED
    BY <2>1, <2>2, UndisturbedStays
<1> QED
  BY <1>3, <1>4, <1>5 DEF CreationIsSound

\* What a creation adds is numbered as the next card.
LEMMA CreationIsNumbered ==
  ASSUME IsNumbered, NEW g \in Guests, NEW life,
         linked' = linked \cup {CreatedCard(g, Cardinality(linked) + 1, life)}
  PROVE  IsNumbered'
<1> DEFINE new == CreatedCard(g, Cardinality(linked) + 1, life)
<1>1. new.id = Cardinality(linked) + 1
  BY DEF CreatedCard
<1>2. Cardinality(linked) \in Nat /\ new \notin linked
  BY <1>1, NextNumberIsNew
<1>3. IsFiniteSet(linked') /\ Cardinality(linked') = Cardinality(linked) + 1
  BY <1>2, FS_AddElement DEF IsNumbered
<1>4. ASSUME NEW c \in linked' PROVE c.id \in 1..Cardinality(linked')
  <2>1. CASE c \in linked
    BY <1>2, <1>3, <2>1 DEF IsNumbered
  <2>2. CASE c = new
    BY <1>1, <1>2, <1>3, <2>2
  <2> QED
    BY <2>1, <2>2
<1> QED
  BY <1>3, <1>4 DEF IsNumbered

-----------------------------------------------------------------------------
(* Every step *)

\* Making a link touches none that exists.
LEMMA CreateDoorIsSound == ASSUME CreationIsSound, CreateDoor PROVE CreationIsSound'
<1>1. PICK a \in Stewards, k \in CreationLinks, t \in usable, offices \in SUBSET staffed :
        /\ doors[k].state = "none"
        /\ doors' = [doors EXCEPT ![k] = [state |-> "open", template |-> t, offices |-> offices, by |-> a]]
        /\ UNCHANGED <<usable, staffed, linked, holder, visit>>
  BY DEF CreateDoor
<1>2. CreationTypeOK' /\ IsNumbered'
  <2>1. [state |-> "open", template |-> t, offices |-> offices, by |-> a] \in DoorRows
    BY DEF CreationIsSound, CreationTypeOK, DoorRows
  <2> QED
    BY <1>1, <2>1 DEF CreationIsSound, CreationTypeOK, IsNumbered
<1>3. ASSUME NEW h \in Guests PROVE HoldsItsLink(h)' /\ ReadsHold(h)'
  <2>1. HoldsItsLink(h) /\ ReadsHold(h)
    BY DEF CreationIsSound
  <2>2. visit[h] # Away => Undisturbed(h)
    <3> HAVE visit[h] # Away
    <3>1. visit[h].link \in CreationLinks /\ visit[h].link # k
      BY <1>1, <2>1, WorksOnALink DEF CreationIsSound, HoldsItsLink
    <3> QED
      BY <1>1, <3>1 DEF CreationIsSound, CreationTypeOK, Undisturbed
  <2> QED
    BY <1>1, <2>1, <2>2, UndisturbedStays
<1> QED
  BY <1>2, <1>3 DEF CreationIsSound

\* Templates and organizations are archived without regard to links.
LEMMA ArchiveAroundIsSound == ASSUME CreationIsSound, ArchiveAround PROVE CreationIsSound'
<1>1. UNCHANGED <<doors, linked, holder, visit>> /\ usable' \subseteq usable /\ staffed' \subseteq staffed
  BY DEF ArchiveAround
<1> QED
  BY <1>1 DEF CreationIsSound, CreationTypeOK, IsNumbered, HoldsItsLink, ReadsHold

\* A guest comes in, with what the link says under its lock.
LEMMA EnterIsSound == ASSUME CreationIsSound, NEW g \in Guests, Enter(g) PROVE CreationIsSound'
<1>1. PICK k \in CreationLinks, chosen \in {{}} \cup {{o} : o \in Offices} :
        /\ visit[g] = Away /\ LockDoor(g, k) /\ doors[k].state # "none" /\ Opens(k)
        /\ \E office \in Selected(k, chosen), value \in Firsts(k) :
             visit' = [visit EXCEPT ![g] = [doing |-> "creates", link |-> k, office |-> office,
                         template |-> doors[k].template, by |-> doors[k].by, value |-> value]]
        /\ UNCHANGED <<doors, usable, staffed, linked>>
  BY DEF Enter
<1>2. PICK office \in Selected(k, chosen), value \in Firsts(k) :
        visit' = [visit EXCEPT ![g] = [doing |-> "creates", link |-> k, office |-> office,
                    template |-> doors[k].template, by |-> doors[k].by, value |-> value]]
  BY <1>1
<1> DEFINE doing == [doing |-> "creates", link |-> k, office |-> office,
                     template |-> doors[k].template, by |-> doors[k].by, value |-> value]
<1>3. /\ doors[k].state = "open" /\ doors[k].template \in CardTemplates
      /\ doors[k].offices \subseteq Offices /\ doors[k].by \in Stewards
  BY <1>1 DEF Opens, CreationIsSound, CreationTypeOK, DoorRows
<1>4. office \in doors[k].offices
  BY DEF Selected, OfficesOf
<1>5. value \in {"draft"} \cup UNION {FillableFields[t] : t \in CardTemplates}
  BY <1>3 DEF Firsts
<1>6. doing \in Doings /\ doing # Away
  BY <1>3, <1>4, <1>5 DEF Doings, Away
<1> QED
  BY <1>1, <1>2, <1>3, <1>4, <1>6, TakingIsSound

\* A user reads or closes a link.
LEMMA AttendIsSound == ASSUME CreationIsSound, NEW g \in Guests, Attend(g) PROVE CreationIsSound'
<1>1. PICK k \in CreationLinks, doing \in {"reads", "closes"} :
        /\ visit[g] = Away /\ LockDoor(g, k) /\ doors[k].state # "none"
        /\ visit' = [visit EXCEPT ![g] = [doing |-> doing, link |-> k]]
        /\ UNCHANGED <<doors, usable, staffed, linked>>
  BY DEF Attend
<1> DEFINE what == [doing |-> doing, link |-> k]
<1>2. what \in Doings /\ what # Away /\ what.doing # "creates"
  BY DEF Doings, Away
<1> QED
  BY <1>1, <1>2, TakingIsSound

\* A creation commits; the link stays as it was.
LEMMA CommitCreationIsSound ==
  ASSUME CreationIsSound, NEW g \in Guests, CommitCreation(g)
  PROVE  CreationIsSound'
<1>1. Leave(g) /\ UNCHANGED <<doors, usable, staffed>>
  BY DEF CommitCreation
<1>2. CreationTypeOK'
  BY <1>1, LeavingFreesOneLink DEF CreationIsSound, CreationTypeOK
<1>3. IsNumbered'
  BY CreationIsNumbered DEF CommitCreation, CreationIsSound
<1> QED
  BY <1>1, <1>2, <1>3, LeavingIsSound

\* A link is closed by the request that holds it, so no guest is inside.
LEMMA CommitCloseIsSound ==
  ASSUME CreationIsSound, NEW g \in Guests, CommitClose(g)
  PROVE  CreationIsSound'
<1> DEFINE k == visit[g].link
<1>1. /\ visit[g].doing = "closes" /\ Leave(g)
      /\ doors' = [doors EXCEPT ![k].state = "closed"] /\ UNCHANGED <<usable, staffed, linked>>
  BY DEF CommitClose
<1>2. visit[g] # Away /\ k \in CreationLinks
  BY <1>1, WorksOnALink DEF CreationIsSound, Away
<1>3. doors' \in [CreationLinks -> DoorRows]
  <2>1. doors[k] \in DoorRows /\ doors[k].state # "none"
    BY <1>2 DEF CreationIsSound, CreationTypeOK, HoldsItsLink
  <2>2. [doors[k] EXCEPT !.state = "closed"] \in DoorRows
    BY <2>1 DEF DoorRows
  <2> QED
    BY <1>1, <1>2, <2>2 DEF CreationIsSound, CreationTypeOK
<1>4. CreationTypeOK' /\ IsNumbered'
  BY <1>1, <1>3, LeavingFreesOneLink DEF CreationIsSound, CreationTypeOK, IsNumbered
<1>5. ASSUME NEW h \in Guests \ {g}, visit[h] # Away
      PROVE  doors'[visit[h].link] = doors[visit[h].link]
  <2>1. visit[h].link # k /\ visit[h].link \in CreationLinks
    BY <1>2, <1>5, LinksAreApart, WorksOnALink DEF CreationIsSound
  <2> QED
    BY <1>1, <2>1 DEF CreationIsSound, CreationTypeOK
<1> QED
  BY <1>1, <1>4, <1>5, LeavingIsSound

\* A request ends without having changed anything.
LEMMA EndVisitIsSound ==
  ASSUME CreationIsSound, NEW g \in Guests, EndVisit(g)
  PROVE  CreationIsSound'
<1>1. Leave(g) /\ UNCHANGED <<doors, usable, staffed, linked>>
  BY DEF EndVisit
<1>2. CreationTypeOK' /\ IsNumbered'
  BY <1>1, LeavingFreesOneLink DEF CreationIsSound, CreationTypeOK, IsNumbered
<1> QED
  BY <1>1, <1>2, LeavingIsSound

\* The induction: what requests rely on holds from the start and is kept.
LEMMA SoundFromTheStart == CreationInit => CreationIsSound
<1> SUFFICES ASSUME CreationInit PROVE CreationIsSound
  OBVIOUS
<1>1. CreationTypeOK
  BY DEF CreationInit, CreationTypeOK, DoorRows, Doings, Away
<1>2. IsNumbered
  BY FS_EmptySet DEF CreationInit, IsNumbered
<1>3. \A g \in Guests : HoldsItsLink(g) /\ ReadsHold(g)
  BY DEF CreationInit, HoldsItsLink, ReadsHold, Away
<1> QED
  BY <1>1, <1>2, <1>3 DEF CreationIsSound

\* Every step keeps it so.
LEMMA SoundAfterEachStep == CreationIsSound /\ [CreationNext]_creationVars => CreationIsSound'
<1> SUFFICES ASSUME CreationIsSound, [CreationNext]_creationVars PROVE CreationIsSound'
  OBVIOUS
<1>1. CASE CreateDoor
  BY <1>1, CreateDoorIsSound
<1>2. CASE ArchiveAround
  BY <1>2, ArchiveAroundIsSound
<1>3. CASE \E g \in Guests : Enter(g) \/ CommitCreation(g) \/ Attend(g) \/ CommitClose(g) \/ EndVisit(g)
  BY <1>3, EnterIsSound, CommitCreationIsSound, AttendIsSound, CommitCloseIsSound, EndVisitIsSound
<1>4. CASE UNCHANGED creationVars
  BY <1>4 DEF creationVars, CreationIsSound, CreationTypeOK, IsNumbered, HoldsItsLink, ReadsHold
<1> QED
  BY <1>1, <1>2, <1>3, <1>4 DEF CreationNext

-----------------------------------------------------------------------------
(* Theorems *)

\* The types, the locks and what requests have read agree in every state.
THEOREM CreationStaysSound == CreationSpec => []CreationIsSound
BY SoundFromTheStart, SoundAfterEachStep, PTL DEF CreationSpec

\* What one step may add to the cards.
LEMMA CreatedWhileOpenStep ==
  ASSUME CreationIsSound, [CreationNext]_creationVars, NEW c \in linked' \ linked
  PROVE  /\ doors[c.link].state = "open" /\ doors'[c.link].state = "open"
         /\ c.template = doors[c.link].template /\ c.office \in doors[c.link].offices
         /\ c.child.card = c.id /\ c.child.by = doors[c.link].by
         /\ \A d \in linked : d.id # c.id
<1>1. PICK g \in Guests : CommitCreation(g)
  BY DEF CreationNext, creationVars, CreateDoor, ArchiveAround, Enter, Attend, CommitClose, EndVisit
<1>2. PICK life \in StatusesFor(visit[g].value) :
        /\ c = CreatedCard(g, Cardinality(linked) + 1, life)
        /\ visit[g].doing = "creates" /\ doors' = doors
  BY <1>1 DEF CommitCreation
<1>3. ReadsHold(g)
  BY DEF CreationIsSound
<1>4. \A d \in linked : d.id # c.id
  BY <1>2, NextNumberIsNew DEF CreationIsSound, CreatedCard
<1> QED
  BY <1>2, <1>3, <1>4 DEF CreatedCard, ReadsHold

\* However many requests wait for each other on however many links, a card
\* commits only while its link is open and as the link says
\* (create_card_from_public_link, close_for_actor).
THEOREM CardsAreCreatedWhileOpen == CreationSpec => CreatedWhileOpen
<1>1. CreationIsSound /\ [CreationNext]_creationVars =>
        [\A c \in linked' \ linked :
           /\ doors[c.link].state = "open" /\ doors'[c.link].state = "open"
           /\ c.template = doors[c.link].template /\ c.office \in doors[c.link].offices
           /\ c.child.card = c.id /\ c.child.by = doors[c.link].by
           /\ \A d \in linked : d.id # c.id]_creationVars
  BY CreatedWhileOpenStep
<1> QED
  BY <1>1, CreationStaysSound, PTL DEF CreationSpec, CreatedWhileOpen

-----------------------------------------------------------------------------
(* What a reviewer compares *)

Blocks == {BlockOf[f] : f \in DiffFields}
Repeats(f) == BlockOf[f] \in Repeating

\* Rows of the block of their field
IsCell(k) == \E n \in DOMAIN blockRows : \E f \in DiffFields :
               k = <<n, f>> /\ blockRows[n].block = BlockOf[f]

\* A block that does not repeat has one row at most, and keeps it.
OneRow(rs) ==
  \A m \in DOMAIN rs : rs[m].block \notin Repeating =>
    rs[m].live /\ \A n \in DOMAIN rs : rs[n].block = rs[m].block => n = m
RowsAreSound ==
  /\ blockRows \in Seq([block : Blocks, live : BOOLEAN])
  /\ \A k \in DOMAIN answers \cup byGuest : IsCell(k)
  /\ access.fields \subseteq DiffFields
  /\ OneRow(blockRows)

\* Where a field has a value, or one that is shown
Places(f) == IF Repeats(f) THEN {n \in DOMAIN blockRows : blockRows[n].block = BlockOf[f]} ELSE {0}
KeyOf(f, n) == [field |-> f, row |-> n]

\* A value the card had at the baseline, Blank if it had none
StartAt(start, f, n) == {start[k] : k \in {k \in DOMAIN start : Same(f, n, k[2], k[1])}}
IsFrom(start, base, f, n) ==
  ValueIn(base, KeyOf(f, n)) \in
    (IF StartAt(start, f, n) = {} THEN {Blank} ELSE StartAt(start, f, n))

BaselineIsExact ==
  /\ cycle = [status |-> cycle.status, baseline |-> cycle.baseline, on |-> cycle.on]
  /\ cycle.on =>
    /\ outset.exposed \subseteq DiffFields /\ outset.papers = cycle.baseline.papers
    /\ \A k \in DOMAIN outset.fields : IsCell(k)
    /\ \A item \in cycle.baseline.fields : item.row = 0 \/ item.row \in DOMAIN blockRows
    /\ \A f \in outset.exposed : \A n \in Places(f) :
         (Repeats(f) => blockRows[n].live) =>
           IsFrom(outset.fields, cycle.baseline.fields, f, n)

\* The values that were read are values there were.
HadOnce(had, f, n, v) == \E t \in had : Same(f, n, t[1], t[2]) /\ t[3] = v
ValuesAreHad ==
  /\ \A k \in DOMAIN reader.values : IsCell(k)
  /\ \A f \in DiffFields :
       /\ Repeats(f) => \A n \in Places(f) \cap watch.rows :
                           HadOnce(watch.had, f, n, ValueAt(reader.values, n, f))
       /\ ~Repeats(f) => \A m \in Slots(blockRows, BlockOf[f]) :
                           HadOnce(watch.had, f, 0, ValueAt(reader.values, m, f))

\* So are the items, and each field that stayed has one in each row that stayed.
ItemsAreHad ==
  \A f \in watch.fields : \A n \in Stayed(f) :
    /\ ItemsAt(reader.items, KeyOf(f, n)) # {}
    /\ \A item \in ItemsAt(reader.items, KeyOf(f, n)) :
         HadOnce(watch.had, f, n, item.value)
    /\ \A k \in byGuest : Same(f, n, k[2], k[1]) =>
         \E item \in ItemsAt(reader.items, KeyOf(f, n)) : item.row = k[1] /\ item.field = k[2]

PapersAreTold ==
  /\ watch.papers \cap reader.papers.added = watch.papers \ outset.papers
  /\ watch.papers \cap reader.papers.archived = {}

ReaderIsSound ==
  /\ reader.step \in {"idle", "values", "rows", "papers", "eligible", "shown"}
  /\ reader.step = "idle" => reader = Unread
  /\ reader.step # "idle" => /\ cycle.on /\ watch.rows \subseteq DOMAIN blockRows
                             /\ watch.fields \subseteq DiffFields
  /\ reader.step \in {"values", "rows", "papers", "eligible"} => watch.fields \subseteq reader.fields
  /\ reader.step = "rows" => ValuesAreHad
  /\ reader.step \in {"papers", "eligible"} => ItemsAreHad
  /\ reader.step = "eligible" => PapersAreTold
  /\ DiffTellsChanges

DiffIsSound == RowsAreSound /\ BaselineIsExact /\ ReaderIsSound

-----------------------------------------------------------------------------

\* An item of a snapshot
LEMMA SnapshotIs ==
  ASSUME NEW rs, NEW vs, NEW fs, NEW item
  PROVE  item \in Snapshot(rs, vs, fs) <=>
           \E f \in fs : \E n \in Slots(rs, BlockOf[f]) :
             item = [field |-> f, row |-> n, value |-> ValueAt(vs, n, f)]
BY DEF Snapshot

\* The key of an item
LEMMA ItemsAtIs ==
  ASSUME NEW shown, NEW item, NEW f, NEW n
  PROVE  item \in ItemsAt(shown, KeyOf(f, n)) <=>
           /\ item \in shown /\ item.field = f
           /\ IF Repeats(f) THEN item.row = n ELSE n = 0
<1>1. DiffKey(item) = KeyOf(f, n) <=>
        item.field = f /\ (IF Repeats(item.field) THEN item.row ELSE 0) = n
  BY DEF DiffKey, KeyOf, Repeats
<1> QED
  BY <1>1 DEF ItemsAt

\* The value that is shown is that of an item, or Blank.
LEMMA ValueInIs ==
  ASSUME NEW shown, NEW key
  PROVE  /\ ItemsAt(shown, key) = {} => ValueIn(shown, key) = Blank
         /\ ItemsAt(shown, key) # {} => \E item \in ItemsAt(shown, key) : ValueIn(shown, key) = item.value
BY DEF ValueIn

\* The slots of a block: its live rows, or 0 for an empty one that does not repeat.
LEMMA SlotsAre ==
  ASSUME NEW rs, OneRow(rs), NEW f \in DiffFields
  PROVE  /\ Repeats(f) => Slots(rs, BlockOf[f]) =
                            {n \in DOMAIN rs : rs[n].block = BlockOf[f] /\ rs[n].live}
         /\ ~Repeats(f) => \/ /\ Slots(rs, BlockOf[f]) = {0}
                              /\ \A n \in DOMAIN rs : rs[n].block # BlockOf[f]
                           \/ \E m \in DOMAIN rs :
                                /\ Slots(rs, BlockOf[f]) = {m} /\ rs[m].block = BlockOf[f]
                                /\ \A n \in DOMAIN rs : rs[n].block = BlockOf[f] => n = m
<1>1. CASE Repeats(f)
  BY <1>1 DEF Slots, LiveRows, Repeats
<1>2. CASE ~Repeats(f) /\ LiveRows(rs, BlockOf[f]) = {}
  <2>1. Slots(rs, BlockOf[f]) = {0}
    BY <1>2 DEF Slots, Repeats
  <2>2. \A n \in DOMAIN rs : rs[n].block # BlockOf[f]
    BY <1>2 DEF LiveRows, OneRow, Repeats
  <2> QED
    BY <1>2, <2>1, <2>2
<1>3. CASE ~Repeats(f) /\ LiveRows(rs, BlockOf[f]) # {}
  <2>1. PICK m \in DOMAIN rs : rs[m].block = BlockOf[f] /\ rs[m].live
    BY <1>3 DEF LiveRows
  <2>2. \A n \in DOMAIN rs : rs[n].block = BlockOf[f] => n = m
    BY <1>3, <2>1 DEF OneRow, Repeats
  <2>3. LiveRows(rs, BlockOf[f]) = {m}
    BY <2>1, <2>2 DEF LiveRows
  <2> QED
    BY <1>3, <2>1, <2>2, <2>3 DEF Slots
<1> QED
  BY <1>1, <1>2, <1>3

-----------------------------------------------------------------------------
\* Rows stay in their block and are not revived.
Grows ==
  /\ DOMAIN blockRows \subseteq DOMAIN blockRows'
  /\ \A n \in DOMAIN blockRows : /\ blockRows'[n].block = blockRows[n].block
                                 /\ blockRows'[n].live => blockRows[n].live

\* A cell of the card stays one.
LEMMA CellsGrow == ASSUME Grows, NEW k, IsCell(k) PROVE IsCell(k)'
BY DEF Grows, IsCell

\* A row is added to a block that repeats or that is empty.
LEMMA AppendIsSound ==
  ASSUME RowsAreSound, NEW b \in Blocks,
         b \in Repeating \/ LiveRows(blockRows, b) = {},
         blockRows' = Append(blockRows, [block |-> b, live |-> TRUE])
  PROVE  /\ Grows
         /\ blockRows' \in Seq([block : Blocks, live : BOOLEAN])
         /\ Len(blockRows) + 1 \in DOMAIN blockRows' /\ blockRows'[Len(blockRows) + 1].block = b
         /\ OneRow(blockRows')
<1> DEFINE row == [block |-> b, live |-> TRUE]
           Lines == [block : Blocks, live : BOOLEAN]
           last == Len(blockRows) + 1
<1>1. row \in Lines /\ row.block = b /\ row.live
  OBVIOUS
<1>2. blockRows \in Seq(Lines) /\ blockRows' = Append(blockRows, row)
  BY DEF RowsAreSound
<1>3. \A n \in DOMAIN blockRows : blockRows[n].block = b => b \in Repeating
  BY DEF LiveRows, RowsAreSound, OneRow
<1> HIDE DEF row, Lines
<1>4. /\ DOMAIN blockRows' = DOMAIN blockRows \cup {last} /\ last \notin DOMAIN blockRows
      /\ blockRows'[last] = row /\ \A n \in DOMAIN blockRows : blockRows'[n] = blockRows[n]
      /\ blockRows' \in Seq(Lines)
  BY <1>1, <1>2
<1>5. Grows
  BY <1>4 DEF Grows
<1>6. ASSUME NEW m \in DOMAIN blockRows', blockRows'[m].block \notin Repeating
      PROVE  /\ blockRows'[m].live
             /\ \A n \in DOMAIN blockRows' : blockRows'[n].block = blockRows'[m].block => n = m
  BY <1>1, <1>3, <1>4, <1>6 DEF RowsAreSound, OneRow
<1> QED
  BY <1>1, <1>4, <1>5, <1>6 DEF Lines, OneRow

\* A write makes a row or finds one.
LEMMA WritesKeepRows ==
  ASSUME RowsAreSound, NEW f \in DiffFields, NEW n \in 1..MaxRows, NEW v, Writes(f, n, v),
         byGuest' \subseteq byGuest \cup {<<n, f>>}
  PROVE  RowsAreSound' /\ Grows
<1>1. BlockOf[f] \in Blocks
  BY DEF Blocks
<1>2. /\ Grows /\ n \in DOMAIN blockRows' /\ blockRows'[n].block = BlockOf[f]
      /\ blockRows' \in Seq([block : Blocks, live : BOOLEAN])
      /\ OneRow(blockRows')
  <2>1. CASE n \in LiveRows(blockRows, BlockOf[f]) /\ UNCHANGED blockRows
    BY <2>1 DEF RowsAreSound, LiveRows, Grows
  <2>2. CASE /\ LiveRows(blockRows, BlockOf[f]) = {} /\ n = Len(blockRows) + 1
             /\ blockRows' = Append(blockRows, [block |-> BlockOf[f], live |-> TRUE])
    BY <1>1, <2>2, AppendIsSound
  <2> QED
    BY <2>1, <2>2 DEF Writes
<1>3. IsCell(<<n, f>>)'
  BY <1>2 DEF IsCell
<1>4. \A k \in DOMAIN answers \cup byGuest : IsCell(k)'
  BY <1>2, CellsGrow DEF RowsAreSound
<1>5. DOMAIN answers' = DOMAIN answers \cup {<<n, f>>} /\ UNCHANGED access
  BY DEF Writes
<1> QED
  BY <1>2, <1>3, <1>4, <1>5 DEF RowsAreSound

CardTurns == \/ GuestWrites \/ StaffWrites \/ AddRow \/ ArchiveRow
             \/ SetExposed \/ Attach \/ ArchivePaper

\* A change of the card
LEMMA TurnsKeepRows ==
  ASSUME RowsAreSound, CardTurns
  PROVE  /\ RowsAreSound' /\ Grows /\ UNCHANGED <<cycle, reader, outset>>
         /\ reader.step # "shown" /\ (byGuest' = byGuest \/ reader = Unread)
<1>1. /\ UNCHANGED <<cycle, reader, outset>> /\ reader.step # "shown"
      /\ byGuest' = byGuest \/ reader = Unread
  BY DEF CardTurns, GuestWrites, StaffWrites, AddRow, ArchiveRow, SetExposed, Attach, ArchivePaper,
         Writes, Turn, GuestMayEdit, LinkIsFree
<1>2. ASSUME GuestWrites PROVE RowsAreSound' /\ Grows
  <2>1. PICK f \in exposed, n \in 1..MaxRows, v \in Answers \cup {Blank} :
          Writes(f, n, v) /\ byGuest' = byGuest \cup {<<n, f>>}
    BY <1>2 DEF GuestWrites
  <2>2. f \in DiffFields
    BY DEF exposed, RowsAreSound
  <2> QED
    BY <2>1, <2>2, WritesKeepRows
<1>3. ASSUME StaffWrites PROVE RowsAreSound' /\ Grows
  BY <1>3, WritesKeepRows DEF StaffWrites
<1>4. ASSUME AddRow PROVE RowsAreSound' /\ Grows
  <2>1. PICK b \in Blocks :
          /\ b \in Repeating \/ LiveRows(blockRows, b) = {}
          /\ blockRows' = Append(blockRows, [block |-> b, live |-> TRUE])
          /\ UNCHANGED <<answers, access, papers, byGuest>>
    BY <1>4 DEF AddRow, Blocks
  <2> QED
    BY <2>1, AppendIsSound, CellsGrow DEF RowsAreSound
<1>5. ASSUME ArchiveRow PROVE RowsAreSound' /\ Grows
  <2>1. PICK n \in DOMAIN blockRows :
          /\ blockRows[n].block \in Repeating
          /\ blockRows' = [blockRows EXCEPT ![n].live = FALSE]
          /\ UNCHANGED <<answers, access, papers, byGuest>>
    BY <1>5 DEF ArchiveRow
  <2> DEFINE row == [blockRows[n] EXCEPT !.live = FALSE]
             Lines == [block : Blocks, live : BOOLEAN]
  <2>2. row \in Lines /\ row.block = blockRows[n].block /\ row.live = FALSE
    <3> HIDE DEF Lines
    <3>1. blockRows \in Seq(Lines)
      BY DEF RowsAreSound, Lines
    <3>2. blockRows[n] \in Lines
      BY <3>1
    <3> QED
      BY <3>2 DEF Lines
  <2>3. blockRows' = [blockRows EXCEPT ![n] = row]
    BY <2>1
  <2> HIDE DEF row, Lines
  <2>4. blockRows \in Seq(Lines)
    BY DEF RowsAreSound, Lines
  <2>5. /\ blockRows' \in Seq(Lines) /\ DOMAIN blockRows' = DOMAIN blockRows
        /\ \A m \in DOMAIN blockRows : blockRows'[m] = IF m = n THEN row ELSE blockRows[m]
    BY <2>3, <2>4, <2>2
  <2>6. Grows
    BY <2>2, <2>5 DEF Grows
  <2>7. ASSUME NEW m \in DOMAIN blockRows', blockRows'[m].block \notin Repeating
        PROVE  /\ blockRows'[m].live
               /\ \A o \in DOMAIN blockRows' : blockRows'[o].block = blockRows'[m].block => o = m
    BY <2>1, <2>2, <2>5, <2>7 DEF RowsAreSound, OneRow
  <2> QED
    BY <2>1, <2>5, <2>6, <2>7, CellsGrow DEF RowsAreSound, OneRow, Lines
<1>6. ASSUME SetExposed \/ Attach \/ ArchivePaper PROVE RowsAreSound' /\ Grows
  BY <1>6 DEF SetExposed, Attach, ArchivePaper, RowsAreSound, Grows, IsCell
<1> QED
  BY <1>1, <1>2, <1>3, <1>4, <1>5, <1>6 DEF CardTurns

-----------------------------------------------------------------------------
\* Rows that come later do not touch the baseline.
LEMMA BaselineGrows ==
  ASSUME RowsAreSound, RowsAreSound', Grows, BaselineIsExact, UNCHANGED <<cycle, outset>>
  PROVE  BaselineIsExact'
<1> DEFINE base == cycle.baseline.fields
<1>1. ASSUME cycle.on, NEW f \in outset.exposed, NEW n \in Places(f)',
             Repeats(f) => blockRows'[n].live
      PROVE  IsFrom(outset.fields, base, f, n)
  <2>1. CASE n \in Places(f)
    BY <1>1, <2>1 DEF BaselineIsExact, Grows, Places
  <2>2. CASE n \notin Places(f)
    <3>1. Repeats(f) /\ n \in DOMAIN blockRows' /\ n \notin DOMAIN blockRows
      BY <1>1, <2>2 DEF Places, Grows
    <3>2. n # 0
      BY <3>1 DEF RowsAreSound
    <3>3. ItemsAt(base, KeyOf(f, n)) = {}
      BY <1>1, <3>1, <3>2, ItemsAtIs DEF BaselineIsExact
    <3>4. StartAt(outset.fields, f, n) = {}
      BY <1>1, <3>1 DEF StartAt, Same, Repeats, BaselineIsExact, IsCell
    <3> QED
      BY <3>3, <3>4, ValueInIs DEF IsFrom
  <2> QED
    BY <2>1, <2>2
<1>2. cycle.on => \A k \in DOMAIN outset.fields : IsCell(k)'
  BY CellsGrow DEF BaselineIsExact
<1>3. cycle.on => \A item \in base : item.row = 0 \/ item.row \in DOMAIN blockRows'
  BY DEF BaselineIsExact, Grows
<1> QED
  BY <1>1, <1>2, <1>3 DEF BaselineIsExact

\* The baseline has every value that was open to guests.
LEMMA CaptureIsExact ==
  ASSUME RowsAreSound, BaselineIsExact, Capture
  PROVE  BaselineIsExact'
<1> DEFINE base == Snapshot(blockRows, answers, exposed)
<1>1. /\ cycle' = [status |-> cycle.status, on |-> TRUE,
                   baseline |-> [fields |-> base, papers |-> LivePapers]]
      /\ outset' = [fields |-> answers, exposed |-> exposed, papers |-> LivePapers]
      /\ UNCHANGED blockRows
  BY DEF Capture, BaselineIsExact, cardOfDiff
<1>2. /\ cycle'.on /\ cycle'.baseline.fields = base /\ cycle'.baseline.papers = LivePapers
      /\ outset'.fields = answers /\ outset'.exposed = exposed /\ outset'.papers = LivePapers
      /\ cycle' = [status |-> cycle'.status, baseline |-> cycle'.baseline, on |-> cycle'.on]
  BY <1>1
<1>3. exposed \subseteq DiffFields
  BY DEF exposed, RowsAreSound
<1>4. \A item \in base : item.row = 0 \/ item.row \in DOMAIN blockRows
  BY SnapshotIs DEF Slots, LiveRows
<1>5. ASSUME NEW f \in exposed, NEW n \in Places(f), Repeats(f) => blockRows[n].live
      PROVE  IsFrom(answers, base, f, n)
  <2>2. PICK m \in Slots(blockRows, BlockOf[f]) :
          /\ Repeats(f) => m = n
          /\ \A o \in Slots(blockRows, BlockOf[f]) : Repeats(f) \/ o = m
          /\ \A o \in DOMAIN blockRows : blockRows[o].block = BlockOf[f] => Repeats(f) \/ o = m
    <3>1. CASE Repeats(f)
      <4>1. n \in Slots(blockRows, BlockOf[f])
        BY <1>3, <1>5, <3>1, SlotsAre DEF Places, RowsAreSound
      <4> QED
        BY <3>1, <4>1
    <3>2. CASE ~Repeats(f)
      <4>1. \/ /\ Slots(blockRows, BlockOf[f]) = {0}
               /\ \A o \in DOMAIN blockRows : blockRows[o].block # BlockOf[f]
            \/ \E m \in DOMAIN blockRows :
                 /\ Slots(blockRows, BlockOf[f]) = {m}
                 /\ \A o \in DOMAIN blockRows : blockRows[o].block = BlockOf[f] => o = m
        BY <1>3, <3>2, SlotsAre DEF RowsAreSound
      <4> QED
        BY <3>2, <4>1
    <3> QED
      BY <3>1, <3>2
  <2>3. \A k \in DOMAIN answers : Same(f, n, k[2], k[1]) <=> k = <<m, f>>
    <3>1. \A k \in DOMAIN answers : IsCell(k)
      BY DEF RowsAreSound
    <3>2. ASSUME NEW k \in DOMAIN answers PROVE Same(f, n, k[2], k[1]) <=> k = <<m, f>>
      <4>1. PICK o \in DOMAIN blockRows : \E g \in DiffFields :
                   k = <<o, g>> /\ blockRows[o].block = BlockOf[g]
        BY <3>1 DEF IsCell
      <4>2. PICK g \in DiffFields : k = <<o, g>> /\ blockRows[o].block = BlockOf[g]
        BY <4>1
      <4>3. k[1] = o /\ k[2] = g /\ (k = <<m, f>> <=> o = m /\ g = f)
        BY <4>2
      <4> QED
        BY <2>2, <4>2, <4>3 DEF Same, Repeats
    <3> QED
      BY <3>2
  <2>4. StartAt(answers, f, n) = IF <<m, f>> \in DOMAIN answers THEN {answers[<<m, f>>]} ELSE {}
    BY <2>3 DEF StartAt
  <2>5. ItemsAt(base, KeyOf(f, n)) = {[field |-> f, row |-> m, value |-> ValueAt(answers, m, f)]}
    <3>1. ASSUME NEW item
          PROVE  item \in ItemsAt(base, KeyOf(f, n)) <=>
                   item = [field |-> f, row |-> m, value |-> ValueAt(answers, m, f)]
      <4>1. item \in base <=> \E g \in exposed : \E o \in Slots(blockRows, BlockOf[g]) :
                                item = [field |-> g, row |-> o, value |-> ValueAt(answers, o, g)]
        BY SnapshotIs
      <4>2. item \in ItemsAt(base, KeyOf(f, n)) <=>
              item \in base /\ item.field = f /\ IF Repeats(f) THEN item.row = n ELSE n = 0
        BY ItemsAtIs
      <4>3. ~Repeats(f) => n = 0
        BY DEF Places
      <4> QED
        BY <2>2, <4>1, <4>2, <4>3
    <3> QED
      BY <3>1
  <2>6. ValueIn(base, KeyOf(f, n)) = ValueAt(answers, m, f)
    <3>1. PICK item \in ItemsAt(base, KeyOf(f, n)) : ValueIn(base, KeyOf(f, n)) = item.value
      BY <2>5, ValueInIs
    <3> QED
      BY <2>5, <3>1
  <2> QED
    BY <2>4, <2>6 DEF ValueAt, IsFrom
<1>6. \A k \in DOMAIN outset'.fields : IsCell(k)'
  BY <1>1, <1>2 DEF RowsAreSound, IsCell
<1>7. \A f : Places(f)' = Places(f)
  BY <1>1 DEF Places
<1> HIDE DEF base
<1> QED
  BY <1>1, <1>2, <1>3, <1>4, <1>5, <1>6, <1>7 DEF BaselineIsExact

-----------------------------------------------------------------------------
\* What is observed: what stays shrinks, what there was grows.
Shrinks ==
  /\ watch'.fields \subseteq watch.fields /\ watch'.rows \subseteq watch.rows
  /\ watch.had \subseteq watch'.had

\* What a value has had, as one fact about the log
LEMMA HadIs ==
  ASSUME NEW f, NEW n, NEW v
  PROVE  v \in HadAt(f, n) <=> HadOnce(watch.had, f, n, v)
BY DEF HadAt, HadOnce

\* What a reading has followed after a step
LEMMA WatchIs ==
  ASSUME Watched, reader # Unread, reader'.step # "idle"
  PROVE  /\ watch' = [fields |-> watch.fields \cap exposed, rows |-> watch.rows \cap AllLive,
                      papers |-> watch.papers \cap LivePapers, had |-> watch.had \cup Had]
         /\ Shrinks
<1>1. watch' = [fields |-> watch.fields \cap exposed, rows |-> watch.rows \cap AllLive,
                papers |-> watch.papers \cap LivePapers, had |-> watch.had \cup Had]
  BY DEF Watched
<1> QED
  BY <1>1 DEF Shrinks

\* Rows made after the reading had no value when it was made.
LEMMA ValuesStay ==
  ASSUME RowsAreSound, RowsAreSound', Grows, Shrinks, ValuesAreHad, reader' = reader,
         watch.rows \subseteq DOMAIN blockRows
  PROVE  ValuesAreHad'
<1>1. \A k \in DOMAIN reader.values : IsCell(k)'
  BY CellsGrow DEF ValuesAreHad
<1>2. \A f, n, v : HadOnce(watch.had, f, n, v) => HadOnce(watch.had, f, n, v)'
  BY DEF HadOnce, Shrinks
<1>3. ASSUME NEW f \in DiffFields, Repeats(f), NEW n \in Places(f)' \cap watch'.rows
      PROVE  HadOnce(watch.had, f, n, ValueAt(reader.values, n, f))
  <2>1. n \in Places(f) \cap watch.rows
    BY <1>3 DEF Shrinks, Places, Grows
  <2> QED
    BY <1>3, <2>1 DEF ValuesAreHad
<1>4. ASSUME NEW f \in DiffFields, ~Repeats(f), NEW m \in Slots(blockRows, BlockOf[f])'
      PROVE  HadOnce(watch.had, f, 0, ValueAt(reader.values, m, f))
  <2>1. OneRow(blockRows) /\ OneRow(blockRows')
    BY DEF RowsAreSound
  <2>2. \/ /\ Slots(blockRows, BlockOf[f]) = {0}
           /\ \A n \in DOMAIN blockRows : blockRows[n].block # BlockOf[f]
        \/ \E o \in DOMAIN blockRows :
             /\ Slots(blockRows, BlockOf[f]) = {o} /\ blockRows[o].block = BlockOf[f]
             /\ \A n \in DOMAIN blockRows : blockRows[n].block = BlockOf[f] => n = o
    BY <1>4, <2>1, SlotsAre
  <2>3. \/ /\ m = 0
           /\ \A n \in DOMAIN blockRows' : blockRows'[n].block # BlockOf[f]
        \/ /\ m \in DOMAIN blockRows' /\ blockRows'[m].block = BlockOf[f]
           /\ \A n \in DOMAIN blockRows' : blockRows'[n].block = BlockOf[f] => n = m
    BY <1>4, <2>1, SlotsAre
  <2>4. CASE m \in Slots(blockRows, BlockOf[f])
    BY <1>4, <2>4 DEF ValuesAreHad
  <2>5. CASE m \notin Slots(blockRows, BlockOf[f])
    <3>1. Slots(blockRows, BlockOf[f]) = {0} /\ m \notin DOMAIN blockRows
      BY <2>2, <2>3, <2>5 DEF Grows
    <3>2. 0 \notin DOMAIN blockRows
      BY DEF RowsAreSound
    <3>3. ValueAt(reader.values, m, f) = Blank /\ ValueAt(reader.values, 0, f) = Blank
      BY <3>1, <3>2 DEF ValueAt, ValuesAreHad, IsCell
    <3> QED
      BY <1>4, <3>1, <3>3 DEF ValuesAreHad
  <2> QED
    BY <2>4, <2>5
<1> QED
  BY <1>1, <1>2, <1>3, <1>4 DEF ValuesAreHad

\* Items that were read stay what they were.
LEMMA ItemsStay ==
  ASSUME Grows, Shrinks, ItemsAreHad, watch.rows \subseteq DOMAIN blockRows,
         reader'.items = reader.items, byGuest' = byGuest
  PROVE  ItemsAreHad'
<1>1. \A f, n, v : HadOnce(watch.had, f, n, v) => HadOnce(watch.had, f, n, v)'
  BY DEF HadOnce, Shrinks
<1>2. \A f : Stayed(f)' \subseteq Stayed(f)
  BY DEF Stayed, Shrinks, Grows
<1> QED
  BY <1>1, <1>2 DEF ItemsAreHad, ItemsAt, Shrinks

\* A value that is read is one that there is.
LEMMA ReadValuesIsSound ==
  ASSUME RowsAreSound, ReaderIsSound, ReadValues, Watched
  PROVE  ReaderIsSound'
<1>1. /\ reader.step = "values" /\ UNCHANGED <<blockRows, answers, cycle>>
      /\ reader' = [step |-> "rows", fields |-> reader.fields, values |-> answers]
  BY DEF ReadValues, cardOfDiff
<1>2. /\ reader'.step = "rows" /\ reader'.fields = reader.fields /\ reader'.values = answers
      /\ reader # Unread
  BY <1>1 DEF Unread
<1>3. /\ watch'.fields = watch.fields \cap exposed /\ watch'.rows = watch.rows \cap AllLive
      /\ watch'.had = watch.had \cup Had
  BY <1>2, WatchIs
<1>4. \A f \in DiffFields : \A n \in Slots(blockRows, BlockOf[f]) :
        <<f, n, ValueAt(answers, n, f)>> \in watch'.had
  BY <1>3 DEF Had
<1>5. ASSUME NEW f \in DiffFields, Repeats(f), NEW n \in Places(f) \cap watch'.rows
      PROVE  HadOnce(watch'.had, f, n, ValueAt(answers, n, f))
  <2>1. n \in Slots(blockRows, BlockOf[f])
    BY <1>3, <1>5, SlotsAre DEF Places, AllLive, RowsAreSound
  <2> QED
    BY <1>4, <2>1 DEF HadOnce, Same
<1>6. ASSUME NEW f \in DiffFields, ~Repeats(f), NEW m \in Slots(blockRows, BlockOf[f])
      PROVE  HadOnce(watch'.had, f, 0, ValueAt(answers, m, f))
  BY <1>4, <1>6 DEF HadOnce, Same, Repeats
<1>7. ValuesAreHad'
  BY <1>1, <1>2, <1>5, <1>6 DEF ValuesAreHad, Places, RowsAreSound, IsCell
<1> QED
  BY <1>1, <1>2, <1>3, <1>7 DEF ReaderIsSound, DiffTellsChanges

\* Every row that stays has its item, with a value that was read.
LEMMA ReadRowsIsSound ==
  ASSUME RowsAreSound, ReaderIsSound, ReadRows, Watched
  PROVE  ReaderIsSound'
<1> DEFINE shown == Snapshot(blockRows, reader.values, reader.fields)
<1>1. /\ reader.step = "rows" /\ UNCHANGED <<blockRows, byGuest, cycle>>
      /\ reader' = [step |-> "papers", fields |-> reader.fields, items |-> shown]
  BY DEF ReadRows, cardOfDiff
<1>2. /\ reader'.step = "papers" /\ reader'.fields = reader.fields /\ reader'.items = shown
      /\ reader # Unread
  BY <1>1 DEF Unread
<1>3. /\ watch'.fields = watch.fields \cap exposed /\ watch'.rows = watch.rows \cap AllLive
      /\ watch.had \subseteq watch'.had
  BY <1>2, WatchIs
<1>4. \A f, n, v : HadOnce(watch.had, f, n, v) => HadOnce(watch'.had, f, n, v)
  BY <1>3 DEF HadOnce
<1>5. ASSUME NEW f \in watch'.fields,
             NEW n \in (IF Repeats(f) THEN {m \in watch'.rows : blockRows[m].block = BlockOf[f]}
                                      ELSE {0})
      PROVE  /\ ItemsAt(shown, KeyOf(f, n)) # {}
             /\ \A item \in ItemsAt(shown, KeyOf(f, n)) : HadOnce(watch'.had, f, n, item.value)
             /\ \A k \in byGuest : Same(f, n, k[2], k[1]) =>
                  \E item \in ItemsAt(shown, KeyOf(f, n)) : item.row = k[1] /\ item.field = k[2]
  <2>1. f \in DiffFields /\ f \in reader.fields
    BY <1>1, <1>3 DEF ReaderIsSound
  <2>2. /\ Repeats(f) => n \in Slots(blockRows, BlockOf[f])
        /\ Slots(blockRows, BlockOf[f]) # {}
        /\ \A m \in DOMAIN blockRows :
             blockRows[m].block = BlockOf[f] /\ (Repeats(f) => m = n) => m \in Slots(blockRows, BlockOf[f])
    <3>1. CASE Repeats(f)
      <4>1. /\ n \in DOMAIN blockRows /\ blockRows[n].block = BlockOf[f] /\ blockRows[n].live
        BY <1>1, <1>3, <1>5, <3>1 DEF AllLive
      <4> QED
        BY <2>1, <3>1, <4>1, SlotsAre DEF RowsAreSound
    <3>2. CASE ~Repeats(f)
      <4>1. \/ /\ Slots(blockRows, BlockOf[f]) = {0}
               /\ \A o \in DOMAIN blockRows : blockRows[o].block # BlockOf[f]
            \/ \E m \in DOMAIN blockRows :
                 /\ Slots(blockRows, BlockOf[f]) = {m}
                 /\ \A o \in DOMAIN blockRows : blockRows[o].block = BlockOf[f] => o = m
        BY <2>1, <3>2, SlotsAre DEF RowsAreSound
      <4> QED
        BY <3>2, <4>1
    <3> QED
      BY <3>1, <3>2
  <2>3. ASSUME NEW m \in Slots(blockRows, BlockOf[f]), Repeats(f) => m = n
        PROVE  /\ HadOnce(watch'.had, f, n, ValueAt(reader.values, m, f))
               /\ [field |-> f, row |-> m, value |-> ValueAt(reader.values, m, f)]
                    \in ItemsAt(shown, KeyOf(f, n))
    <3>1. HadOnce(watch.had, f, n, ValueAt(reader.values, m, f))
      <4>1. ValuesAreHad
        BY <1>1 DEF ReaderIsSound
      <4>2. CASE Repeats(f)
        <5>1. n \in Places(f) \cap watch.rows /\ m = n
          BY <1>1, <1>3, <1>5, <2>3, <4>2 DEF Places, ReaderIsSound
        <5> QED
          BY <2>1, <4>1, <4>2, <5>1 DEF ValuesAreHad
      <4>3. CASE ~Repeats(f)
        BY <1>5, <2>1, <2>3, <4>1, <4>3 DEF ValuesAreHad
      <4> QED
        BY <4>2, <4>3
    <3>2. [field |-> f, row |-> m, value |-> ValueAt(reader.values, m, f)] \in shown
      BY <2>1, <2>3, SnapshotIs
    <3> QED
      BY <1>4, <1>5, <2>3, <3>1, <3>2, ItemsAtIs
  <2>4. ASSUME NEW item \in ItemsAt(shown, KeyOf(f, n))
        PROVE  \E m \in Slots(blockRows, BlockOf[f]) :
                 /\ Repeats(f) => m = n
                 /\ item = [field |-> f, row |-> m, value |-> ValueAt(reader.values, m, f)]
    <3>1. /\ item \in shown /\ item.field = f
          /\ Repeats(f) => item.row = n
      BY <2>4, ItemsAtIs
    <3>2. PICK g \in reader.fields : \E m \in Slots(blockRows, BlockOf[g]) :
                 item = [field |-> g, row |-> m, value |-> ValueAt(reader.values, m, g)]
      BY <3>1, SnapshotIs
    <3> QED
      BY <3>1, <3>2
  <2>5. \E m \in Slots(blockRows, BlockOf[f]) : Repeats(f) => m = n
    BY <2>2
  <2>6. ASSUME NEW k \in byGuest, Same(f, n, k[2], k[1])
        PROVE  \E item \in ItemsAt(shown, KeyOf(f, n)) : item.row = k[1] /\ item.field = k[2]
    <3>1. IsCell(k)
      BY DEF RowsAreSound
    <3>2. /\ k[1] \in DOMAIN blockRows /\ blockRows[k[1]].block = BlockOf[f] /\ k[2] = f
          /\ Repeats(f) => k[1] = n
      BY <2>6, <3>1 DEF IsCell, Same, Repeats
    <3>3. k[1] \in Slots(blockRows, BlockOf[f])
      BY <2>2, <3>2
    <3> QED
      BY <2>3, <3>2, <3>3
  <2> HIDE DEF shown
  <2>7. ItemsAt(shown, KeyOf(f, n)) # {}
    BY <2>3, <2>5
  <2>8. ASSUME NEW item \in ItemsAt(shown, KeyOf(f, n)) PROVE HadOnce(watch'.had, f, n, item.value)
    <3>1. PICK m \in Slots(blockRows, BlockOf[f]) :
            /\ Repeats(f) => m = n
            /\ item = [field |-> f, row |-> m, value |-> ValueAt(reader.values, m, f)]
      BY <2>4
    <3> QED
      BY <2>3, <3>1
  <2> QED
    BY <2>6, <2>7, <2>8
<1> HIDE DEF shown
<1>6. ItemsAreHad'
  <2>1. \A f : Stayed(f)' = IF Repeats(f) THEN {m \in watch'.rows : blockRows[m].block = BlockOf[f]}
                                          ELSE {0}
    BY <1>1 DEF Stayed, Repeats
  <2> QED
    BY <1>1, <1>2, <1>5, <2>1 DEF ItemsAreHad, ItemsAt
<1> QED
  BY <1>1, <1>2, <1>3, <1>6 DEF ReaderIsSound, DiffTellsChanges

\* Attachments that stay are those of the baseline or added after it.
LEMMA ReadPapersIsSound ==
  ASSUME RowsAreSound, BaselineIsExact, ReaderIsSound, ReadPapers, Watched
  PROVE  ReaderIsSound'
<1>1. /\ reader.step = "papers" /\ UNCHANGED <<blockRows, byGuest, cycle, outset>>
      /\ reader' = [step |-> "eligible", fields |-> reader.fields, items |-> reader.items,
                    papers |-> ComparedPapers(cycle.baseline.papers, LivePapers)]
  BY DEF ReadPapers, cardOfDiff
<1>2. /\ reader'.step = "eligible" /\ reader'.fields = reader.fields /\ reader'.items = reader.items
      /\ reader'.papers.added = LivePapers \ cycle.baseline.papers
      /\ reader'.papers.archived = cycle.baseline.papers \ LivePapers
      /\ reader # Unread
  BY <1>1 DEF Unread, ComparedPapers
<1>3. Shrinks /\ watch'.papers = watch.papers \cap LivePapers
  BY <1>2, WatchIs
<1>4. ItemsAreHad' /\ Grows
  BY <1>1, <1>2, <1>3, ItemsStay DEF ReaderIsSound, Grows
<1>5. PapersAreTold'
  BY <1>1, <1>2, <1>3 DEF PapersAreTold, BaselineIsExact, ReaderIsSound
<1> QED
  BY <1>1, <1>2, <1>3, <1>4, <1>5 DEF ReaderIsSound, DiffTellsChanges, Shrinks

\* The keys that are shown, and the line of each
KeysOf(base, now, eligible) == {DiffKey(item) : item \in {i \in base \cup now : i.field \in eligible}}
IsDated(base, now, key) ==
  /\ ValueIn(base, key) # ValueIn(now, key)
  /\ \E item \in ItemsAt(now, key) : <<item.row, item.field>> \in byGuest
LineOf(base, now, key) ==
  [field |-> key.field, row |-> key.row, before |-> ValueIn(base, key), after |-> ValueIn(now, key),
   dated |-> IsDated(base, now, key)]

\* The comparison has a line for each key.
LEMMA ComparedIs ==
  ASSUME NEW base, NEW now, NEW eligible
  PROVE  Compared(base, now, eligible) = {LineOf(base, now, key) : key \in KeysOf(base, now, eligible)}
BY DEF Compared, LineOf, IsDated, KeysOf

\* A field that stayed has one line in each row that stayed.
LEMMA LinesAre ==
  ASSUME NEW base, NEW now, NEW eligible, NEW f \in eligible, NEW n, ~Repeats(f) => n = 0,
         ItemsAt(now, KeyOf(f, n)) # {}
  PROVE  {e \in Compared(base, now, eligible) : Same(f, n, e.field, e.row)}
           = {LineOf(base, now, KeyOf(f, n))}
<1>1. KeyOf(f, n) \in KeysOf(base, now, eligible)
  <2>1. PICK item \in now : DiffKey(item) = KeyOf(f, n)
    BY DEF ItemsAt
  <2>2. item.field = f
    BY <2>1 DEF DiffKey, KeyOf
  <2> QED
    BY <2>1, <2>2 DEF KeysOf
<1>2. ASSUME NEW key \in KeysOf(base, now, eligible), Same(f, n, key.field, key.row)
      PROVE  key = KeyOf(f, n)
  <2>1. PICK item : key = DiffKey(item)
    BY DEF KeysOf
  <2>2. /\ key = [field |-> key.field, row |-> key.row]
        /\ key.field = item.field /\ (~Repeats(item.field) => key.row = 0)
    BY <2>1 DEF DiffKey, Repeats
  <2> QED
    BY <1>2, <2>2 DEF KeyOf, Same, Repeats
<1>3. \A key : LineOf(base, now, key).field = key.field /\ LineOf(base, now, key).row = key.row
  BY DEF LineOf
<1>4. Same(f, n, KeyOf(f, n).field, KeyOf(f, n).row)
  BY DEF KeyOf, Same
<1> QED
  BY <1>1, <1>2, <1>3, <1>4, ComparedIs

\* Every line tells what was and what is.
LEMMA ShowDiffIsSound ==
  ASSUME RowsAreSound, BaselineIsExact, ReaderIsSound, ShowDiff, Watched
  PROVE  ReaderIsSound'
<1> DEFINE base == cycle.baseline.fields
<1>1. PICK eligible \in {reader.fields, exposed} :
        reader' = [step |-> "shown", papers |-> reader.papers,
                   diff |-> Compared(base, reader.items, eligible)]
  BY DEF ShowDiff
<1>2. /\ reader.step = "eligible" /\ UNCHANGED <<blockRows, byGuest, cycle, outset>>
      /\ reader'.step = "shown" /\ reader'.papers = reader.papers
      /\ reader'.diff = Compared(base, reader.items, eligible)
      /\ reader # Unread
  BY <1>1 DEF ShowDiff, cardOfDiff, Unread
<1>3. /\ watch'.fields = watch.fields \cap exposed /\ watch'.rows = watch.rows \cap AllLive
      /\ watch'.papers = watch.papers \cap LivePapers /\ Shrinks
  BY <1>2, WatchIs
<1>4. ItemsAreHad /\ PapersAreTold /\ cycle.on
  BY <1>2 DEF ReaderIsSound
<1>5. /\ watch'.papers \cap reader.papers.added = watch'.papers \ outset.papers
      /\ watch'.papers \cap reader.papers.archived = {}
  BY <1>3, <1>4 DEF PapersAreTold
<1>6. ASSUME NEW f \in watch'.fields \cap outset.exposed, NEW n \in Stayed(f)'
      PROVE  /\ Cardinality(LinesOf(f, n)') = 1
             /\ \A e \in LinesOf(f, n)' :
                  /\ e.after \in HadAt(f, n)'
                  /\ e.before \in (IF AtStart(f, n) = {} THEN {Blank} ELSE AtStart(f, n))
                  /\ GuestWrote(f, n) /\ e.before # e.after => e.dated
  <2> DEFINE line == LineOf(base, reader.items, KeyOf(f, n))
  <2>1. /\ f \in eligible /\ f \in watch.fields /\ n \in Stayed(f) /\ (~Repeats(f) => n = 0)
        /\ n \in Places(f) /\ (Repeats(f) => blockRows[n].live)
    BY <1>2, <1>3 DEF ReaderIsSound, Stayed, Places, AllLive, Repeats
  <2>2. /\ ItemsAt(reader.items, KeyOf(f, n)) # {}
        /\ \A item \in ItemsAt(reader.items, KeyOf(f, n)) : HadOnce(watch.had, f, n, item.value)
        /\ \A k \in byGuest : Same(f, n, k[2], k[1]) =>
             \E item \in ItemsAt(reader.items, KeyOf(f, n)) : item.row = k[1] /\ item.field = k[2]
    BY <1>4, <2>1 DEF ItemsAreHad
  <2>3. LinesOf(f, n)' = {line}
    BY <1>2, <2>1, <2>2, LinesAre DEF LinesOf
  <2>4. line.after \in HadAt(f, n)'
    <3>1. PICK item \in ItemsAt(reader.items, KeyOf(f, n)) :
            ValueIn(reader.items, KeyOf(f, n)) = item.value
      BY <2>2, ValueInIs
    <3>2. HadOnce(watch.had, f, n, item.value) /\ line.after = item.value
      BY <2>2, <3>1 DEF LineOf
    <3>3. item.value \in {t[3] : t \in {t \in watch'.had : Same(f, n, t[1], t[2])}}
      BY <1>3, <3>2 DEF HadOnce, Shrinks
    <3> QED
      BY <3>2, <3>3 DEF HadAt
  <2>5. line.before \in (IF AtStart(f, n) = {} THEN {Blank} ELSE AtStart(f, n))
    <3>1. IsFrom(outset.fields, base, f, n)
      BY <1>4, <2>1 DEF BaselineIsExact
    <3> QED
      BY <3>1 DEF IsFrom, StartAt, AtStart, LineOf
  <2>6. GuestWrote(f, n) /\ line.before # line.after => line.dated
    <3>1. SUFFICES ASSUME NEW k \in byGuest, Same(f, n, k[2], k[1]), line.before # line.after
                   PROVE  line.dated
      BY DEF GuestWrote
    <3>2. PICK item \in ItemsAt(reader.items, KeyOf(f, n)) : item.row = k[1] /\ item.field = k[2]
      BY <2>2, <3>1
    <3>3. k = <<item.row, item.field>>
      BY <3>1, <3>2 DEF RowsAreSound, IsCell
    <3> QED
      BY <3>1, <3>2, <3>3 DEF LineOf, IsDated
  <2> HIDE DEF line
  <2> QED
    BY <2>3, <2>4, <2>5, <2>6, FS_Singleton
<1>7. DiffTellsChanges'
  <2>1. \A f, n : AtStart(f, n)' = AtStart(f, n) /\ GuestWrote(f, n)' = GuestWrote(f, n)
    BY <1>2 DEF AtStart, GuestWrote
  <2>2. outset' = outset
    BY <1>2
  <2> QED
    BY <1>2, <1>5, <1>6, <2>1, <2>2 DEF DiffTellsChanges
<1> QED
  BY <1>2, <1>3, <1>7 DEF ReaderIsSound, Shrinks

\* A comparison starts and ends; the review moves on between two of them.
LEMMA EndsOfReadingAreSound ==
  ASSUME DiffIsSound, BeginCompare \/ LeaveDiff \/ Capture \/ MoveReview, Watched
  PROVE  DiffIsSound'
<1>1. UNCHANGED <<blockRows, answers, access, byGuest>>
  BY DEF BeginCompare, LeaveDiff, Capture, MoveReview, cardOfDiff
<1>2. RowsAreSound' /\ Grows
  BY <1>1 DEF DiffIsSound, RowsAreSound, IsCell, Grows
<1>3. CASE BeginCompare
  <2>1. /\ reader' = [step |-> "values", fields |-> exposed] /\ reader = Unread /\ cycle.on
        /\ UNCHANGED <<cycle, outset>>
    BY <1>3 DEF BeginCompare
  <2>2. watch' = WatchStart /\ reader'.step = "values" /\ reader'.fields = exposed
    BY <2>1 DEF Watched
  <2>3. watch'.fields = exposed /\ watch'.rows = AllLive
    BY <2>2 DEF WatchStart
  <2>4. ReaderIsSound'
    BY <1>1, <2>1, <2>2, <2>3
       DEF DiffIsSound, ReaderIsSound, DiffTellsChanges, exposed, AllLive, RowsAreSound
  <2> QED
    BY <1>2, <2>1, <2>4, BaselineGrows DEF DiffIsSound
<1>4. CASE LeaveDiff
  <2>1. reader' = Unread /\ reader'.step = "idle" /\ UNCHANGED <<cycle, outset>>
    BY <1>4 DEF LeaveDiff, Unread
  <2>2. ReaderIsSound'
    BY <2>1 DEF ReaderIsSound, DiffTellsChanges
  <2> QED
    BY <1>2, <2>1, <2>2, BaselineGrows DEF DiffIsSound
<1>5. CASE Capture \/ MoveReview
  <2>1. reader = Unread /\ reader' = reader /\ reader'.step = "idle"
    BY <1>5 DEF Capture, MoveReview, LinkIsFree, Unread
  <2>2. ReaderIsSound'
    BY <2>1 DEF ReaderIsSound, DiffTellsChanges
  <2>3. CASE MoveReview
    <3>1. PICK new : cycle' = [cycle EXCEPT !.status = new]
      BY <2>3 DEF MoveReview
    <3>2. /\ cycle'.baseline = cycle.baseline /\ cycle'.on = cycle.on /\ outset' = outset
          /\ cycle' = [status |-> cycle'.status, baseline |-> cycle'.baseline, on |-> cycle'.on]
      BY <2>3, <3>1 DEF MoveReview, DiffIsSound, BaselineIsExact
    <3>3. BaselineIsExact'
      BY <1>1, <3>2 DEF DiffIsSound, BaselineIsExact, IsCell, Places
    <3> QED
      BY <1>2, <2>2, <3>3 DEF DiffIsSound
  <2> QED
    BY <1>2, <1>5, <2>2, <2>3, CaptureIsExact DEF DiffIsSound
<1> QED
  BY <1>3, <1>4, <1>5

\* The card changes while a comparison reads.
LEMMA TurnsAreSound ==
  ASSUME DiffIsSound, CardTurns, Watched
  PROVE  DiffIsSound'
<1>1. /\ RowsAreSound' /\ Grows /\ UNCHANGED <<cycle, reader, outset>>
      /\ reader.step # "shown" /\ (byGuest' = byGuest \/ reader = Unread)
  BY TurnsKeepRows DEF DiffIsSound
<1>2. BaselineIsExact'
  BY <1>1, BaselineGrows DEF DiffIsSound
<1>3. CASE reader.step = "idle"
  BY <1>1, <1>2, <1>3 DEF DiffIsSound, ReaderIsSound, DiffTellsChanges
<1>4. CASE reader.step # "idle"
  <2>1. reader # Unread /\ byGuest' = byGuest
    BY <1>1, <1>4 DEF Unread
  <2>2. Shrinks /\ watch'.papers = watch.papers \cap LivePapers
    BY <1>1, <1>4, <2>1, WatchIs
  <2>3. reader.step = "rows" => ValuesAreHad'
    BY <1>1, <1>4, <2>2, ValuesStay DEF DiffIsSound, ReaderIsSound
  <2>4. reader.step \in {"papers", "eligible"} => ItemsAreHad'
    BY <1>1, <1>4, <2>1, <2>2, ItemsStay DEF DiffIsSound, ReaderIsSound
  <2>5. reader.step = "eligible" => PapersAreTold'
    BY <1>1, <2>2 DEF DiffIsSound, ReaderIsSound, PapersAreTold
  <2>6. watch'.rows \subseteq DOMAIN blockRows' /\ watch'.fields \subseteq watch.fields
    BY <1>4, <1>1, <2>2 DEF DiffIsSound, ReaderIsSound, Shrinks, Grows
  <2> QED
    BY <1>1, <1>2, <1>4, <2>3, <2>4, <2>5, <2>6 DEF DiffIsSound, ReaderIsSound, DiffTellsChanges
<1> QED
  BY <1>3, <1>4

\* A card without rows, before the review.
LEMMA DiffInitIsSound == DiffInit => DiffIsSound
<1> SUFFICES ASSUME DiffInit PROVE DiffIsSound
  OBVIOUS
<1>1. /\ blockRows = <<>> /\ answers = <<>> /\ byGuest = {} /\ access.fields \subseteq DiffFields
      /\ reader = Unread /\ reader.step = "idle"
      /\ cycle = [status |-> "active", baseline |-> NoBase, on |-> FALSE]
  BY DEF DiffInit, Unread
<1>2. RowsAreSound
  BY <1>1 DEF RowsAreSound, OneRow
<1> QED
  BY <1>1, <1>2 DEF DiffIsSound, BaselineIsExact, ReaderIsSound, DiffTellsChanges

\* Every step keeps it so.
LEMMA DiffNextIsSound == DiffIsSound /\ [DiffNext]_diffVars => DiffIsSound'
<1> SUFFICES ASSUME DiffIsSound, [DiffNext]_diffVars PROVE DiffIsSound'
  OBVIOUS
<1>1. CASE UNCHANGED diffVars
  <2>1. UNCHANGED <<blockRows, answers, access, papers, cycle, byGuest, reader, outset, watch>>
    BY <1>1 DEF diffVars, cardOfDiff
  <2>2. RowsAreSound' /\ BaselineIsExact'
    BY <2>1 DEF DiffIsSound, RowsAreSound, BaselineIsExact, IsCell, Places
  <2>3. ValuesAreHad' = ValuesAreHad /\ ItemsAreHad' = ItemsAreHad /\ PapersAreTold' = PapersAreTold
    BY <2>1 DEF ValuesAreHad, ItemsAreHad, PapersAreTold, Places, IsCell, Stayed, Slots, ItemsAt
  <2>4. DiffTellsChanges' = DiffTellsChanges
    BY <2>1 DEF DiffTellsChanges, LinesOf, HadAt, AtStart, GuestWrote, Stayed
  <2> QED
    BY <2>1, <2>2, <2>3, <2>4 DEF DiffIsSound, ReaderIsSound
<1>2. CASE DiffNext
  <2>1. CASE ReadValues \/ ReadRows \/ ReadPapers \/ ShowDiff
    <3>1. UNCHANGED <<blockRows, answers, access, byGuest, cycle, outset>>
      BY <2>1 DEF ReadValues, ReadRows, ReadPapers, ShowDiff, cardOfDiff
    <3>2. RowsAreSound' /\ BaselineIsExact'
      BY <3>1 DEF DiffIsSound, RowsAreSound, BaselineIsExact, IsCell, Places
    <3> QED
      BY <1>2, <2>1, <3>2, ReadValuesIsSound, ReadRowsIsSound, ReadPapersIsSound, ShowDiffIsSound
         DEF DiffIsSound, DiffNext
  <2> QED
    BY <1>2, <2>1, EndsOfReadingAreSound, TurnsAreSound DEF DiffNext, CardTurns
<1> QED
  BY <1>1, <1>2

\* What a comparison has read of the card, and what the baseline has of it, is
\* told by their rows and keys, whatever staff does between its statements.
THEOREM DiffIsAlwaysSound == DiffSpec => []DiffIsSound
BY DiffInitIsSound, DiffNextIsSound, PTL DEF DiffSpec

\* A reviewer is shown each value that was open to guests all the time once, as
\* it was at the baseline and as it was at a moment of the comparison, with the
\* date of a change guests took part in, and each attachment that stayed.
THEOREM DiffTellsChangesHolds == DiffSpec => []DiffTellsChanges
<1>1. DiffIsSound => DiffTellsChanges
  BY DEF DiffIsSound, ReaderIsSound
<1> QED
  BY <1>1, DiffIsAlwaysSound, PTL

-----------------------------------------------------------------------------
(* The calculator of experience *)

\* A request that writes has the card, and what it has tested is still so.
WriteIsSound(s) ==
  /\ request[s] # Idle => \A r \in Sessions \ {s} : request[r] = Idle
  /\ request[s].doing = "writes" =>
       IF s \in Calculators THEN form[s] = stored ELSE stored.mode # "calculated"

ExperienceIsSound ==
  /\ request = [s \in Sessions |-> request[s]]
  /\ \A s \in Sessions : WriteIsSound(s)

\* Nobody writes at first.
LEMMA ExperienceInitIsSound == ExperienceInit => ExperienceIsSound
BY DEF ExperienceInit, ExperienceIsSound, WriteIsSound, Idle

\* Who gets the card has tested the value that is stored.
LEMMA HoldsIsSound ==
  ASSUME ExperienceIsSound, NEW s \in Sessions, NEW what, Holds(s, what),
         what.doing = "writes" =>
           IF s \in Calculators THEN form[s] = stored ELSE stored.mode # "calculated"
  PROVE  ExperienceIsSound'
BY DEF ExperienceIsSound, WriteIsSound, Holds

\* Every step keeps it so.
LEMMA ExperienceNextIsSound ==
  ExperienceIsSound /\ [ExperienceNext]_experienceVars => ExperienceIsSound'
<1> SUFFICES ASSUME ExperienceIsSound, [ExperienceNext]_experienceVars PROVE ExperienceIsSound'
  OBVIOUS
<1>1. CASE UNCHANGED experienceVars
  BY <1>1 DEF experienceVars, ExperienceIsSound, WriteIsSound
<1>2. CASE NextDay \/ ArchiveCard
  BY <1>2 DEF NextDay, ArchiveCard, ExperienceIsSound, WriteIsSound
<1>3. ASSUME NEW s \in Sessions, Commit(s) \/ GiveUp(s) PROVE ExperienceIsSound'
  <2>1. /\ request' = [request EXCEPT ![s] = Idle]
        /\ request[s] # Idle \/ stored' = stored
        /\ form' = [c \in Calculators |-> IF c = s THEN Closed ELSE form[c]]
    BY <1>3 DEF Commit, GiveUp, Idle
  <2>2. /\ \A r \in Sessions : request'[r] = IF r = s THEN Idle ELSE request[r]
        /\ Idle.doing # "writes"
    BY <2>1 DEF ExperienceIsSound, Idle
  <2>3. WriteIsSound(s)'
    BY <2>2 DEF WriteIsSound
  <2>4. ASSUME NEW r \in Sessions, r # s PROVE WriteIsSound(r)'
    <3>1. request'[r] = request[r] /\ WriteIsSound(r)
      BY <2>2, <2>4 DEF ExperienceIsSound
    <3>2. request'[r] # Idle => \A q \in Sessions \ {r} : request'[q] = Idle
      BY <2>2, <3>1 DEF WriteIsSound
    <3>3. CASE request[r].doing = "writes"
      <4>1. request[s] = Idle /\ stored' = stored
        BY <2>1, <2>2, <2>4, <3>1, <3>3 DEF WriteIsSound
      <4>2. r \in Calculators => form'[r] = form[r]
        BY <2>1, <2>4
      <4> QED
        BY <3>1, <3>2, <3>3, <4>1, <4>2 DEF WriteIsSound
    <3>4. CASE request[r].doing # "writes"
      BY <3>1, <3>2, <3>4 DEF WriteIsSound
    <3> QED
      BY <3>3, <3>4
  <2>5. request' = [r \in Sessions |-> request'[r]]
    BY <2>1 DEF ExperienceIsSound
  <2> QED
    BY <2>3, <2>4, <2>5 DEF ExperienceIsSound
<1>4. ASSUME NEW c \in Calculators, OpenForm(c) PROVE ExperienceIsSound'
  <2>1. /\ form[c] = Closed /\ form' = [form EXCEPT ![c] = stored]
        /\ UNCHANGED <<stored, request>>
    BY <1>4 DEF OpenForm
  <2>2. c \in Sessions
    BY DEF Sessions
  <2>3. ASSUME NEW s \in Sessions PROVE WriteIsSound(s)'
    <3>1. WriteIsSound(s)
      BY DEF ExperienceIsSound
    <3>2. s \in Calculators /\ form[s] = stored => form'[s] = stored
      BY <2>1
    <3> QED
      BY <2>1, <3>1, <3>2 DEF WriteIsSound
  <2> QED
    BY <2>1, <2>3 DEF ExperienceIsSound
<1>5. ASSUME NEW c \in Calculators, BeginCalculation(c) \/ BeginManual(c)
      PROVE  ExperienceIsSound'
  BY <1>5, HoldsIsSound DEF BeginCalculation, BeginManual, IsCurrent, Sessions
<1>6. ASSUME NEW w \in Writers, BeginPlain(w) \/ BeginDismiss(w) PROVE ExperienceIsSound'
  <2>1. w \in Sessions /\ w \notin Calculators
    BY <1>6, ExperienceAssumption DEF ExperienceAssumption, Sessions
  <2>2. CASE BeginPlain(w)
    BY <2>1, <2>2, HoldsIsSound DEF BeginPlain
  <2>3. CASE BeginDismiss(w)
    <3>1. PICK day : Holds(w, [doing |-> "dismisses", day |-> day])
      BY <2>3 DEF BeginDismiss
    <3> QED
      BY <2>1, <3>1, HoldsIsSound
  <2> QED
    BY <1>6, <2>2, <2>3
<1> QED
  BY <1>1, <1>2, <1>3, <1>4, <1>5, <1>6 DEF ExperienceNext

\* The calculator replaces only what its user has opened, and nothing else
\* replaces a calculation, whoever writes at the same time.
THEOREM NoLostCalculationHolds == ExperienceSpec => NoLostCalculation
<1>1. ASSUME ExperienceIsSound, [ExperienceNext]_experienceVars, stored' # stored
      PROVE  \E s \in Sessions :
               /\ request[s].doing = "writes" /\ stored' = request[s].value
               /\ IF s \in Calculators THEN form[s] = stored ELSE stored.mode # "calculated"
  <2>1. PICK s \in Sessions : Commit(s)
    BY <1>1 DEF experienceVars, ExperienceNext, NextDay, ArchiveCard, GiveUp, OpenForm,
                BeginCalculation, BeginManual, BeginPlain, BeginDismiss, Holds
  <2> QED
    BY <1>1, <2>1 DEF Commit, ExperienceIsSound, WriteIsSound
<1> QED
  BY <1>1, ExperienceInitIsSound, ExperienceNextIsSound, PTL DEF ExperienceSpec, NoLostCalculation

-----------------------------------------------------------------------------
(* Notifications *)

Followers(those, work) == {s.user : s \in {s \in those : s.on \in {work.folder, work.share}}}

Save == [doing : {"saves"}, id : Nat, folder : Folders, share : Shares \cup {NoShare},
         total : Nat \ {0}, actor : Readers, events : Nat, told : Nat,
         found : Seq(SUBSET Readers)]

\* A save that is under way: what it has found for each event lies between who
\* has been subscribed all the time and who has been at some time.
SaveIsSound(work, always, once, now) ==
  /\ work \in Save
  /\ work.told <= work.total /\ Len(work.found) = work.told
  /\ always \subseteq now /\ now \subseteq once
  /\ \A n \in 1..work.told :
       /\ work.found[n] \subseteq Followers(once, work) \ {work.actor}
       /\ Followers(always, work) \ {work.actor} \subseteq work.found[n]

Saving(p) == desk[p].doing = "saves"

\* Nothing is committed under the number of a save that is under way.
NumbersAreFresh ==
  /\ saves \in Nat
  /\ \A p \in Clerks : Saving(p) =>
       /\ desk[p].id \in 1..saves
       /\ \A e \in history \cup inbox : e.save # desk[p].id
       /\ \A q \in Clerks \ {p} : Saving(q) => desk[q].id # desk[p].id

Notification == [save : Nat, user : Readers, folder : Folders, read : BOOLEAN, old : BOOLEAN,
                 changes : SUBSET Nat]

\* A notification and the events it tells of age together.
InboxIsSound ==
  /\ history \subseteq [save : Nat, n : Nat, old : BOOLEAN]
  /\ inbox \subseteq Notification
  /\ \A e \in history \cup inbox : e.save <= saves
  /\ \A m \in inbox : \A e \in history : e.save = m.save => e.old = m.old
  /\ \A m \in inbox : \A n \in m.changes : \E e \in history : e.save = m.save /\ e.n = n

NoticesAreSound ==
  /\ desk = [p \in Clerks |-> desk[p]]
  /\ subs \subseteq [user : Readers, on : Targets]
  /\ \A p \in Clerks : Saving(p) =>
       SaveIsSound(desk[p], steady[p], ever[p], subs)
  /\ \A p \in Clerks : desk[p].doing = "subscribes" =>
       desk[p].sub \in [user : Readers, on : Targets]
  /\ NumbersAreFresh
  /\ InboxIsSound

\* Subscriptions come and go during a save.
LEMMA SaveGoesOn ==
  ASSUME NEW work, NEW always, NEW once, NEW now, NEW new, SaveIsSound(work, always, once, now)
  PROVE  SaveIsSound(work, always \cap new, once \cup new, new)
<1>1. /\ Followers(always \cap new, work) \subseteq Followers(always, work)
      /\ Followers(once, work) \subseteq Followers(once \cup new, work)
  BY DEF Followers
<1> QED
  BY <1>1 DEF SaveIsSound

\* Recipients of one more event
LEMMA SaveTells ==
  ASSUME NEW work, NEW always, NEW once, SaveIsSound(work, always, once, subs),
         subs \subseteq [user : Readers, on : Targets], work.told < work.total
  PROVE  SaveIsSound([work EXCEPT !.told = work.told + 1,
                                  !.found = Append(work.found, Recipients(work))],
                     always, once, subs)
<1> DEFINE list == Append(work.found, Recipients(work))
           next == [work EXCEPT !.told = work.told + 1, !.found = list]
<1>1. /\ work \in Save /\ work.told \in Nat /\ work.total \in Nat
      /\ work.found \in Seq(SUBSET Readers) /\ Len(work.found) = work.told
  BY DEF SaveIsSound, Save
<1>2. Recipients(work) = Followers(subs, work) \ {work.actor}
  BY DEF Recipients, Followers
<1>3. Recipients(work) \in SUBSET Readers
  BY <1>2 DEF Followers
<1>4. /\ list \in Seq(SUBSET Readers) /\ Len(list) = work.told + 1
      /\ list[work.told + 1] = Recipients(work)
      /\ \A n \in 1..work.told : list[n] = work.found[n]
  BY <1>1, <1>3
<1> HIDE DEF list
<1>5. /\ next \in Save
      /\ next.folder = work.folder /\ next.share = work.share /\ next.actor = work.actor
      /\ next.told = work.told + 1 /\ next.total = work.total /\ next.found = list
  <2> DEFINE rows == Seq(SUBSET Readers)
             n == work.told + 1
  <2>0. n \in Nat /\ list \in rows /\ next = [work EXCEPT !.told = n, !.found = list]
    BY <1>1, <1>4
  <2>1. next \in Save
    <3>1. work \in [doing : {"saves"}, id : Nat, folder : Folders, share : Shares \cup {NoShare},
                    total : Nat \ {0}, actor : Readers, events : Nat, told : Nat, found : rows]
      BY <1>1 DEF Save
    <3> HIDE DEF next, n, rows
    <3>2. next \in [doing : {"saves"}, id : Nat, folder : Folders, share : Shares \cup {NoShare},
                    total : Nat \ {0}, actor : Readers, events : Nat, told : Nat, found : rows]
      BY <2>0, <3>1
    <3> QED
      BY <3>2 DEF Save, rows
  <2>2. /\ next.folder = work.folder /\ next.share = work.share /\ next.actor = work.actor
        /\ next.total = work.total
    BY <1>1 DEF Save
  <2>3. next.told = work.told + 1
    BY <1>1 DEF Save
  <2>4. next.found = list
    BY <1>1 DEF Save
  <2> QED
    BY <2>1, <2>2, <2>3, <2>4
<1> HIDE DEF next
<1>6. /\ Followers(subs, work) \subseteq Followers(once, work)
      /\ Followers(always, work) \subseteq Followers(subs, work)
  BY DEF Followers, SaveIsSound
<1>7. ASSUME NEW n \in 1..(work.told + 1)
      PROVE  /\ list[n] \subseteq Followers(once, work) \ {work.actor}
             /\ Followers(always, work) \ {work.actor} \subseteq list[n]
  <2>1. CASE n = work.told + 1
    BY <1>2, <1>4, <1>6, <2>1
  <2>2. CASE n # work.told + 1
    <3>1. n \in 1..work.told /\ list[n] = work.found[n]
      BY <1>1, <1>4, <2>2
    <3> QED
      BY <3>1 DEF SaveIsSound
  <2> QED
    BY <2>1, <2>2
<1>8. \A those : Followers(those, next) = Followers(those, work)
  BY <1>5 DEF Followers
<1>9. SaveIsSound(next, always, once, subs)
  BY <1>1, <1>4, <1>5, <1>7, <1>8 DEF SaveIsSound
<1> QED
  BY <1>9 DEF list, next

\* How steady and ever follow
Followed ==
  /\ steady' = [p \in Clerks |-> IF desk'[p].doing # "saves" THEN {}
                                 ELSE IF desk[p].doing = "saves" THEN steady[p] \cap subs' ELSE subs]
  /\ ever' = [p \in Clerks |-> IF desk'[p].doing # "saves" THEN {}
                               ELSE IF desk[p].doing = "saves" THEN ever[p] \cup subs' ELSE subs]

\* A request that does not move keeps its save.
LEMMA DeskStays ==
  ASSUME NoticesAreSound, Followed, NEW p \in Clerks, desk'[p] = desk[p], Saving(p)
  PROVE  SaveIsSound(desk'[p], steady'[p], ever'[p], subs')
BY SaveGoesOn DEF NoticesAreSound, Followed, Saving

\* Time, retention and grants leave the requests alone.
LEMMA AroundIsSound ==
  ASSUME NoticesAreSound, Followed, GrowOld \/ Retain \/ ChangeSight
  PROVE  NoticesAreSound'
<1>1. UNCHANGED <<desk, subs, saves>>
  BY DEF GrowOld, Retain, ChangeSight
<1>2. \A p \in Clerks : Saving(p)' =>
        SaveIsSound(desk'[p], steady'[p], ever'[p], subs')
  BY <1>1, DeskStays DEF Saving
<1>3. InboxIsSound' /\ \A e \in history' \cup inbox' : \E o \in history \cup inbox : o.save = e.save
  <2>1. CASE GrowOld
    <3> DEFINE agedEvent(e) == [e EXCEPT !.old = TRUE]
               aged(m) == [m EXCEPT !.old = TRUE]
    <3>1. /\ history' = {agedEvent(e) : e \in history} /\ inbox' = {aged(m) : m \in inbox}
      BY <2>1 DEF GrowOld
    <3>2. \A e \in history : /\ agedEvent(e) \in [save : Nat, n : Nat, old : BOOLEAN]
                             /\ agedEvent(e).save = e.save /\ agedEvent(e).n = e.n
                             /\ agedEvent(e).old = TRUE
      BY DEF NoticesAreSound, InboxIsSound
    <3>3. \A m \in inbox : /\ aged(m) \in Notification
                           /\ aged(m).save = m.save /\ aged(m).changes = m.changes
                           /\ aged(m).old = TRUE
      BY DEF NoticesAreSound, InboxIsSound, Notification
    <3> HIDE DEF agedEvent, aged
    <3>4. /\ history' \subseteq [save : Nat, n : Nat, old : BOOLEAN]
          /\ inbox' \subseteq Notification
      BY <3>1, <3>2, <3>3
    <3>5. /\ \A e \in history' : e.old = TRUE /\ \E o \in history : o.save = e.save
          /\ \A m \in inbox' : m.old = TRUE /\ \E o \in inbox : o.save = m.save
      BY <3>1, <3>2, <3>3
    <3>6. \A e \in history' \cup inbox' : e.save <= saves'
      BY <1>1, <3>5 DEF NoticesAreSound, InboxIsSound
    <3>7. ASSUME NEW m \in inbox', NEW n \in m.changes
          PROVE  \E e \in history' : e.save = m.save /\ e.n = n
      <4>1. PICK o \in inbox : m = aged(o)
        BY <3>1, <3>7
      <4>2. PICK e \in history : e.save = o.save /\ e.n = n
        BY <3>3, <3>7, <4>1 DEF NoticesAreSound, InboxIsSound
      <4> QED
        BY <3>1, <3>2, <3>3, <4>1, <4>2
    <3> QED
      BY <3>4, <3>5, <3>6, <3>7 DEF InboxIsSound
  <2>2. CASE Retain
    BY <1>1, <2>2 DEF Retain, NoticesAreSound, InboxIsSound
  <2>3. CASE ChangeSight
    BY <1>1, <2>3 DEF ChangeSight, NoticesAreSound, InboxIsSound
  <2> QED
    BY <2>1, <2>2, <2>3
<1>4. NumbersAreFresh'
  BY <1>1, <1>3 DEF NoticesAreSound, NumbersAreFresh, Saving
<1> QED
  BY <1>1, <1>2, <1>3, <1>4 DEF NoticesAreSound

\* One more event
LEMMA SaveWrites ==
  ASSUME NEW work, NEW always, NEW once, NEW now, SaveIsSound(work, always, once, now)
  PROVE  SaveIsSound([work EXCEPT !.events = work.events + 1], always, once, now)
<1> DEFINE next == [work EXCEPT !.events = work.events + 1]
<1>1. /\ next \in Save
      /\ next.folder = work.folder /\ next.share = work.share /\ next.actor = work.actor
      /\ next.told = work.told /\ next.total = work.total /\ next.found = work.found
  BY DEF SaveIsSound, Save
<1> HIDE DEF next
<1>2. \A those : Followers(those, next) = Followers(those, work)
  BY <1>1 DEF Followers
<1>3. SaveIsSound(next, always, once, now)
  BY <1>1, <1>2 DEF SaveIsSound
<1> QED
  BY <1>3 DEF next

\* A step that leaves the notifications alone
LEMMA InboxStays ==
  ASSUME NoticesAreSound, UNCHANGED <<history, inbox>>, saves' \in Nat, saves <= saves'
  PROVE  /\ InboxIsSound'
         /\ \A e \in history' \cup inbox' : \E o \in history \cup inbox : o.save = e.save
<1>1. \A e \in history \cup inbox : e.save \in Nat /\ e.save <= saves
  BY DEF NoticesAreSound, InboxIsSound, Notification
<1>2. \A e \in history' \cup inbox' : e.save <= saves'
  BY <1>1 DEF NoticesAreSound, NumbersAreFresh
<1> QED
  BY <1>2 DEF NoticesAreSound, InboxIsSound

\* A step of one request, whose save, if it has one then, is as it should be;
\* what is new in the history or an inbox has the number of the save it ends.
LEMMA DeskMoves ==
  ASSUME NoticesAreSound, Followed, NEW p \in Clerks, NEW to, Goes(p, to),
         subs' \subseteq [user : Readers, on : Targets],
         saves' \in Nat, saves <= saves', InboxIsSound',
         \A e \in history' \cup inbox' :
           \/ \E o \in history \cup inbox : o.save = e.save
           \/ Saving(p) /\ e.save = desk[p].id /\ to.doing # "saves",
         to.doing = "subscribes" => to.sub \in [user : Readers, on : Targets],
         to.doing = "saves" => /\ SaveIsSound(to, steady'[p], ever'[p], subs')
                               /\ \/ Saving(p) /\ to.id = desk[p].id
                                  \/ to.id = saves' /\ saves' = saves + 1
  PROVE  NoticesAreSound'
<1>1. desk' = [desk EXCEPT ![p] = to] /\ desk = [q \in Clerks |-> desk[q]]
  BY DEF Goes, NoticesAreSound
<1>2. /\ desk'[p] = to /\ \A q \in Clerks \ {p} : desk'[q] = desk[q]
      /\ desk' = [q \in Clerks |-> desk'[q]]
  BY <1>1
<1>3. \A q \in Clerks : Saving(q)' => SaveIsSound(desk'[q], steady'[q], ever'[q], subs')
  BY <1>2, DeskStays DEF Saving
<1>4. \A q \in Clerks : desk'[q].doing = "subscribes" =>
        desk'[q].sub \in [user : Readers, on : Targets]
  BY <1>2 DEF NoticesAreSound
<1>5. NumbersAreFresh'
  <2>1. ASSUME NEW q \in Clerks, Saving(q)'
        PROVE  \/ Saving(q) /\ desk'[q].id = desk[q].id /\ (q = p => to.doing = "saves")
               \/ q = p /\ desk'[q].id = saves + 1 /\ saves' = saves + 1 /\ to.doing = "saves"
    BY <1>2, <2>1 DEF Saving
  <2>2. \A e \in history \cup inbox : e.save <= saves /\ e.save \in Nat
    BY DEF NoticesAreSound, InboxIsSound, Notification
  <2>3. \A q \in Clerks : Saving(q) =>
          /\ desk[q].id \in 1..saves /\ \A e \in history \cup inbox : e.save # desk[q].id
          /\ \A r \in Clerks \ {q} : Saving(r) => desk[r].id # desk[q].id
    BY DEF NoticesAreSound, NumbersAreFresh
  <2>4. saves \in Nat
    BY DEF NoticesAreSound, NumbersAreFresh
  <2>5. ASSUME NEW q \in Clerks, Saving(q)'
        PROVE  desk'[q].id \in 1..saves' /\ \A e \in history' \cup inbox' : e.save # desk'[q].id
    <3>1. desk'[q].id \in 1..saves'
      BY <2>1, <2>3, <2>4, <2>5
    <3>2. ASSUME NEW e \in history' \cup inbox' PROVE e.save # desk'[q].id
      <4>1. CASE \E o \in history \cup inbox : o.save = e.save
        BY <2>1, <2>2, <2>3, <2>4, <2>5, <4>1
      <4>2. CASE Saving(p) /\ e.save = desk[p].id /\ to.doing # "saves"
        BY <2>1, <2>3, <2>5, <4>2
      <4> QED
        BY <4>1, <4>2
    <3> QED
      BY <3>1, <3>2
  <2>6. \A q, r \in Clerks : Saving(q)' /\ Saving(r)' /\ q # r => desk'[q].id # desk'[r].id
    BY <2>1, <2>3, <2>4
  <2> QED
    BY <2>5, <2>6 DEF NumbersAreFresh, Saving
<1> QED
  BY <1>2, <1>3, <1>4, <1>5 DEF NoticesAreSound

\* Saves that begin or go on
LEMMA SavingIsSound ==
  ASSUME NoticesAreSound, Followed, NEW p \in Clerks, BeginSave(p) \/ WriteEvent(p) \/ Tell(p)
  PROVE  NoticesAreSound'
<1>1. /\ subs \subseteq [user : Readers, on : Targets] /\ saves \in Nat
      /\ desk = [q \in Clerks |-> desk[q]]
      /\ UNCHANGED <<history, inbox, subs>>
  BY DEF NoticesAreSound, NumbersAreFresh, BeginSave, WriteEvent, Tell
<1>2. CASE BeginSave(p)
  <2>1. PICK a \in Readers, x \in Folders, s \in Shares \cup {NoShare}, n \in 1..MaxFields :
          /\ desk[p] = Resting /\ saves' = saves + 1
          /\ Goes(p, [doing |-> "saves", id |-> saves + 1, folder |-> x, share |-> s, total |-> n,
                      actor |-> EffectiveActor(a, s), events |-> 0, told |-> 0, found |-> <<>>])
    BY <1>2 DEF BeginSave
  <2> DEFINE to == [doing |-> "saves", id |-> saves + 1, folder |-> x, share |-> s, total |-> n,
                    actor |-> EffectiveActor(a, s), events |-> 0, told |-> 0, found |-> <<>>]
  <2>2. EffectiveActor(a, s) \in Readers
    BY NotificationAssumption DEF NotificationAssumption, EffectiveActor
  <2>3. n \in Nat \ {0}
    BY NotificationAssumption DEF NotificationAssumption
  <2>4. to \in Save /\ to.told = 0 /\ to.found = <<>> /\ to.total = n /\ to.id = saves + 1
        /\ to.doing = "saves"
    BY <1>1, <2>2, <2>3 DEF Save
  <2>5. Goes(p, to)
    BY <2>1
  <2> HIDE DEF to
  <2>6. steady'[p] = subs' /\ ever'[p] = subs'
    BY <1>1, <2>1, <2>4, <2>5 DEF Followed, Goes, Resting
  <2>7. SaveIsSound(to, steady'[p], ever'[p], subs')
    BY <2>3, <2>4, <2>6 DEF SaveIsSound
  <2> QED
    BY <1>1, <2>1, <2>4, <2>5, <2>7, InboxStays, DeskMoves
<1>3. ASSUME WriteEvent(p) \/ Tell(p) PROVE NoticesAreSound'
  <2>1. Saving(p) /\ saves' = saves /\ SaveIsSound(desk[p], steady[p], ever[p], subs)
    BY <1>3 DEF NoticesAreSound, Saving, WriteEvent, Tell
  <2>2. PICK to : /\ Goes(p, to) /\ to.doing = "saves" /\ to.id = desk[p].id
                  /\ SaveIsSound(to, steady[p], ever[p], subs)
    <3>1. desk[p] \in Save /\ desk[p].told \in Nat /\ desk[p].total \in Nat
      BY <2>1 DEF SaveIsSound, Save
    <3>2. CASE WriteEvent(p)
      <4> DEFINE to == [desk[p] EXCEPT !.events = desk[p].events + 1]
      <4>1. Goes(p, to)
        BY <3>2 DEF WriteEvent
      <4>2. to.doing = "saves" /\ to.id = desk[p].id
        BY <3>1 DEF Save
      <4>3. SaveIsSound(to, steady[p], ever[p], subs)
        BY <2>1, SaveWrites
      <4> QED
        BY <4>1, <4>2, <4>3
    <3>3. CASE Tell(p)
      <4> DEFINE to == [desk[p] EXCEPT !.told = desk[p].told + 1,
                                       !.found = Append(desk[p].found, Recipients(desk[p]))]
      <4>1. Goes(p, to)
        BY <3>3 DEF Tell
      <4>2. to.doing = "saves" /\ to.id = desk[p].id
        BY <3>1 DEF Save
      <4>3. desk[p].told < desk[p].total
        BY <3>3 DEF Tell
      <4>4. SaveIsSound(to, steady[p], ever[p], subs)
        BY <1>1, <2>1, <4>3, SaveTells
      <4> QED
        BY <4>1, <4>2, <4>4
    <3> QED
      BY <1>3, <3>2, <3>3
  <2>3. steady'[p] = steady[p] \cap subs' /\ ever'[p] = ever[p] \cup subs'
    BY <1>1, <2>1, <2>2 DEF Followed, Goes, Saving
  <2>4. SaveIsSound(to, steady'[p], ever'[p], subs')
    BY <1>1, <2>2, <2>3, SaveGoesOn
  <2> QED
    BY <1>1, <2>1, <2>2, <2>4, InboxStays, DeskMoves
<1> QED
  BY <1>2, <1>3

\* Everything else that leaves the notifications alone
LEMMA OtherDesksAreSound ==
  ASSUME NoticesAreSound, Followed, NEW p \in Clerks,
         EndDesk(p) \/ BeginToggle(p) \/ CommitToggle(p) \/ BeginRead(p)
  PROVE  NoticesAreSound'
<1>1. /\ subs \subseteq [user : Readers, on : Targets] /\ saves \in Nat
      /\ UNCHANGED <<history, inbox, saves>>
  BY DEF NoticesAreSound, NumbersAreFresh, EndDesk, BeginToggle, CommitToggle, BeginRead
<1>2. PICK to : /\ Goes(p, to) /\ to.doing # "saves"
                /\ to.doing = "subscribes" => to.sub \in [user : Readers, on : Targets]
  <2>1. CASE EndDesk(p) \/ CommitToggle(p)
    BY <2>1 DEF EndDesk, CommitToggle, Resting
  <2>2. CASE BeginToggle(p)
    <3>1. PICK u \in Readers, x \in Targets, what \in {"subscribes", "unsubscribes"} :
            Goes(p, [doing |-> what, sub |-> [user |-> u, on |-> x]])
      BY <2>2 DEF BeginToggle
    <3> QED
      BY <3>1
  <2>3. CASE BeginRead(p)
    <3>1. PICK those : Goes(p, [doing |-> "reads", those |-> those])
      BY <2>3 DEF BeginRead
    <3> QED
      BY <3>1
  <2> QED
    BY <2>1, <2>2, <2>3
<1>3. subs' \subseteq [user : Readers, on : Targets]
  BY <1>1 DEF NoticesAreSound, EndDesk, BeginToggle, CommitToggle, BeginRead
<1> QED
  BY <1>1, <1>2, <1>3, InboxStays, DeskMoves

\* Marking what an inbox lists as read
LEMMA ReadIsSound ==
  ASSUME NoticesAreSound, Followed, NEW p \in Clerks, CommitRead(p)
  PROVE  /\ NoticesAreSound'
         /\ \A m \in inbox' : \E o \in inbox : o.save = m.save
         /\ history' = history
<1> DEFINE isRead(m) == [save |-> m.save, user |-> m.user] \in desk[p].those
           marked(m) == IF isRead(m) THEN [m EXCEPT !.read = TRUE] ELSE m
<1>1. /\ Goes(p, Resting) /\ UNCHANGED <<subs, history, saves>>
      /\ inbox' = {marked(m) : m \in inbox}
  BY DEF CommitRead
<1>2. \A m \in inbox : /\ marked(m) \in Notification
                       /\ marked(m).save = m.save /\ marked(m).changes = m.changes
                       /\ marked(m).old = m.old
  BY DEF NoticesAreSound, InboxIsSound, Notification
<1> HIDE DEF marked
<1>3. \A m \in inbox' : \E o \in inbox : /\ o.save = m.save /\ o.changes = m.changes
                                         /\ o.old = m.old /\ m \in Notification
  BY <1>1, <1>2
<1>4. InboxIsSound'
  <2>1. inbox' \subseteq Notification /\ \A e \in history' \cup inbox' : e.save <= saves'
    BY <1>1, <1>3 DEF NoticesAreSound, InboxIsSound
  <2>2. ASSUME NEW m \in inbox'
        PROVE  /\ \A e \in history' : e.save = m.save => e.old = m.old
               /\ \A n \in m.changes : \E e \in history' : e.save = m.save /\ e.n = n
    BY <1>1, <1>3 DEF NoticesAreSound, InboxIsSound
  <2> QED
    BY <1>1, <2>1, <2>2 DEF NoticesAreSound, InboxIsSound
<1>5. NoticesAreSound'
  BY <1>1, <1>3, <1>4, DeskMoves DEF NoticesAreSound, NumbersAreFresh, Resting
<1> QED
  BY <1>1, <1>3, <1>5

\* What a save leaves when it ends
LEMMA NoticesOfSave ==
  ASSUME NoticesAreSound, NEW p \in Clerks, CommitSave(p)
  PROVE  /\ Saving(p) /\ SaveIsSound(desk[p], steady[p], ever[p], subs)
         /\ desk[p].told = desk[p].total /\ desk[p].total \in Nat \ {0}
         /\ DOMAIN desk[p].found = 1..desk[p].total
         /\ \A m \in Notices(desk[p]) :
              /\ m \in Notification /\ m.save = desk[p].id /\ ~m.old
              /\ m.changes = 1..desk[p].total \cap m.changes
              /\ \E n \in 1..desk[p].total : m.user \in desk[p].found[n]
<1>1. /\ Saving(p) /\ desk[p].told = desk[p].total
      /\ SaveIsSound(desk[p], steady[p], ever[p], subs)
  BY DEF CommitSave, NoticesAreSound, Saving
<1>2. /\ desk[p].id \in Nat /\ desk[p].folder \in Folders /\ desk[p].total \in Nat \ {0}
      /\ desk[p].found \in Seq(SUBSET Readers) /\ Len(desk[p].found) = desk[p].total
  BY <1>1 DEF SaveIsSound, Save
<1>3. DOMAIN desk[p].found = 1..desk[p].total
  BY <1>2
<1>4. ASSUME NEW m \in Notices(desk[p])
      PROVE  /\ m \in Notification /\ m.save = desk[p].id /\ ~m.old
             /\ m.changes = 1..desk[p].total \cap m.changes
             /\ \E n \in 1..desk[p].total : m.user \in desk[p].found[n]
  <2> DEFINE changes(u) == {n \in DOMAIN desk[p].found : u \in desk[p].found[n]}
  <2>1. PICK u \in UNION {desk[p].found[n] : n \in DOMAIN desk[p].found} :
          m = [save |-> desk[p].id, user |-> u, folder |-> desk[p].folder, read |-> FALSE,
               old |-> FALSE, changes |-> changes(u)]
    BY DEF Notices
  <2>2. PICK n \in 1..desk[p].total : u \in desk[p].found[n]
    BY <1>3, <2>1
  <2>3. u \in Readers /\ changes(u) \subseteq 1..desk[p].total /\ changes(u) \in SUBSET Nat
    BY <1>2, <1>3, <2>2
  <2> HIDE DEF changes
  <2> QED
    BY <1>2, <2>1, <2>2, <2>3 DEF Notification
<1> QED
  BY <1>1, <1>2, <1>3, <1>4

\* The end of a save
LEMMA CommitIsSound ==
  ASSUME NoticesAreSound, Followed, NEW p \in Clerks, CommitSave(p)
  PROVE  NoticesAreSound'
<1> DEFINE id == desk[p].id
           total == desk[p].total
           event(n) == [save |-> id, n |-> n, old |-> FALSE]
           events == {event(n) : n \in 1..total}
           notes == Notices(desk[p])
<1>1. /\ Goes(p, Resting) /\ UNCHANGED <<subs, saves>>
      /\ history' = history \cup events /\ inbox' = inbox \cup notes
  BY DEF CommitSave
<1>2. /\ Saving(p) /\ total \in Nat
      /\ \A m \in notes : /\ m \in Notification /\ m.save = id /\ m.old = FALSE
                          /\ m.changes = 1..total \cap m.changes
  <2>1. \A m \in notes : m.old = FALSE
    BY NoticesOfSave DEF Notification
  <2> QED
    BY <2>1, NoticesOfSave
<1>3. /\ saves \in Nat /\ id \in Nat /\ id <= saves
      /\ \A e \in history \cup inbox : e.save # id
  BY <1>2 DEF NoticesAreSound, NumbersAreFresh
<1>4. \A e \in events : /\ e \in [save : Nat, n : Nat, old : BOOLEAN]
                        /\ e.save = id /\ e.old = FALSE
  <2>1. \A n \in Nat : event(n) \in [save : Nat, n : Nat, old : BOOLEAN]
    BY <1>3
  <2>2. \A n : event(n).save = id /\ event(n).old = FALSE
    OBVIOUS
  <2>3. \A e \in events : \E n \in Nat : e = event(n)
    BY <1>2
  <2> HIDE DEF event, events
  <2> QED
    BY <2>1, <2>2, <2>3
<1>5. \A n \in 1..total : \E e \in events : e.save = id /\ e.n = n
  <2>1. \A n \in 1..total : event(n) \in events /\ event(n).save = id /\ event(n).n = n
    OBVIOUS
  <2> HIDE DEF event
  <2> QED
    BY <2>1
<1> HIDE DEF event, id, total, events, notes
<1>6. InboxIsSound'
  <2>1. /\ history' \subseteq [save : Nat, n : Nat, old : BOOLEAN] /\ inbox' \subseteq Notification
        /\ \A e \in history' \cup inbox' : e.save <= saves'
    BY <1>1, <1>2, <1>3, <1>4 DEF NoticesAreSound, InboxIsSound
  <2>2. \A m \in inbox' : \A e \in history' : e.save = m.save => e.old = m.old
    BY <1>1, <1>2, <1>3, <1>4 DEF NoticesAreSound, InboxIsSound
  <2>3. ASSUME NEW m \in inbox', NEW n \in m.changes
        PROVE  \E e \in history' : e.save = m.save /\ e.n = n
    <3>1. CASE m \in inbox
      BY <1>1, <3>1 DEF NoticesAreSound, InboxIsSound
    <3>2. CASE m \in notes
      BY <1>1, <1>2, <1>5, <3>2
    <3> QED
      BY <1>1, <3>1, <3>2
  <2> QED
    BY <2>1, <2>2, <2>3 DEF InboxIsSound
<1>7. \A e \in history' \cup inbox' :
        \/ \E o \in history \cup inbox : o.save = e.save
        \/ Saving(p) /\ e.save = desk[p].id /\ Resting.doing # "saves"
  BY <1>1, <1>2, <1>4 DEF id, Resting
<1> QED
  BY <1>1, <1>3, <1>6, <1>7, DeskMoves DEF NoticesAreSound, Resting

\* There is nothing at first.
LEMMA NoticeInitIsSound == NoticeInit => NoticesAreSound
BY DEF NoticeInit, NoticesAreSound, NumbersAreFresh, InboxIsSound, Saving, Resting, Targets

\* A step keeps all of it so.
LEMMA NoticeNextIsSound == NoticesAreSound /\ [NoticeNext]_noticeVars => NoticesAreSound'
<1> SUFFICES ASSUME NoticesAreSound, [NoticeNext]_noticeVars PROVE NoticesAreSound'
  OBVIOUS
<1>1. CASE UNCHANGED noticeVars
  BY <1>1 DEF noticeVars, NoticesAreSound, NumbersAreFresh, InboxIsSound, Saving
<1>2. CASE NoticeNext
  <2>1. Followed
    BY <1>2 DEF NoticeNext, Followed
  <2>2. CASE GrowOld \/ Retain \/ ChangeSight
    BY <2>1, <2>2, AroundIsSound
  <2>3. ASSUME NEW p \in Clerks, BeginSave(p) \/ WriteEvent(p) \/ Tell(p) PROVE NoticesAreSound'
    BY <2>1, <2>3, SavingIsSound
  <2>4. ASSUME NEW p \in Clerks, EndDesk(p) \/ BeginToggle(p) \/ CommitToggle(p) \/ BeginRead(p)
        PROVE  NoticesAreSound'
    BY <2>1, <2>4, OtherDesksAreSound
  <2>5. ASSUME NEW p \in Clerks, CommitSave(p) \/ CommitRead(p) PROVE NoticesAreSound'
    BY <2>1, <2>5, CommitIsSound, ReadIsSound
  <2> QED
    BY <1>2, <2>2, <2>3, <2>4, <2>5 DEF NoticeNext
<1> QED
  BY <1>1, <1>2

\* A save that ends tells whom it should.
LEMMA CommitTells ==
  ASSUME NoticesAreSound, NoticesAreSound', NEW p \in Clerks, CommitSave(p)
  PROVE  SaveIsTold
<1> DEFINE work == desk[p]
           note(u) == [save |-> work.id, user |-> u, folder |-> work.folder, read |-> FALSE,
                       old |-> FALSE, changes |-> {n \in DOMAIN work.found : u \in work.found[n]}]
<1>1. /\ Saving(p) /\ SaveIsSound(work, steady[p], ever[p], subs)
      /\ work.told = work.total /\ work.total \in Nat \ {0}
      /\ DOMAIN work.found = 1..work.total
      /\ \A m \in Notices(work) : /\ m.save = work.id
                                  /\ \E n \in 1..work.total : m.user \in work.found[n]
  BY NoticesOfSave
<1>2. \A e \in history \cup inbox : e.save # work.id
  BY <1>1 DEF NoticesAreSound, NumbersAreFresh
<1>3. Told = Notices(work)
  BY <1>1, <1>2 DEF Told, CommitSave
<1>4. Savers = {p}
  <2>1. /\ desk' = [desk EXCEPT ![p] = Resting] /\ desk = [q \in Clerks |-> desk[q]]
    BY DEF CommitSave, Goes, NoticesAreSound
  <2>2. desk'[p] = Resting /\ \A q \in Clerks \ {p} : desk'[q] = desk[q]
    BY <2>1
  <2>3. history' # history
    <3>1. 1 \in 1..work.total
      BY <1>1
    <3>2. [save |-> work.id, n |-> 1, old |-> FALSE] \in history'
      BY <3>1 DEF CommitSave
    <3> QED
      BY <1>2, <3>2
  <2> QED
    BY <1>1, <2>2, <2>3 DEF Savers, Saving, Resting
<1>5. ASSUME NEW u \in Readers PROVE ToldAsDue(p, u)
  <2> DEFINE mine == {m \in Told : m.user = u}
  <2>1. mine \subseteq {note(u)}
    <3> SUFFICES ASSUME NEW m \in mine PROVE m = note(u)
      OBVIOUS
    <3>1. m \in Notices(work) /\ m.user = u
      BY <1>3
    <3>2. PICK v : m = note(v)
      BY <3>1 DEF Notices
    <3> QED
      BY <3>1, <3>2
  <2>2. Cardinality(mine) <= 1
    <3>1. IsFiniteSet({note(u)}) /\ Cardinality({note(u)}) = 1
      BY FS_Singleton
    <3> QED
      BY <2>1, <3>1, FS_Subset
  <2>3. ASSUME mine # {} PROVE Follows(u, ever[p], work) /\ u # work.actor
    <3>1. PICK n \in 1..work.told : u \in work.found[n]
      BY <1>1, <1>3, <2>3
    <3>2. u \in Followers(ever[p], work) \ {work.actor}
      BY <1>1, <3>1 DEF SaveIsSound
    <3> QED
      BY <3>2 DEF Followers, Follows
  <2>4. ASSUME Follows(u, steady[p], work), u # work.actor
        PROVE  \E m \in mine : m.changes = 1..work.total
    <3>1. u \in Followers(steady[p], work) \ {work.actor}
      BY <2>4 DEF Followers, Follows
    <3>2. \A n \in 1..work.total : u \in work.found[n]
      BY <1>1, <3>1 DEF SaveIsSound
    <3>3. u \in UNION {work.found[n] : n \in DOMAIN work.found}
      BY <1>1, <3>2
    <3>4. note(u) \in Notices(work)
      BY <3>3 DEF Notices
    <3>5. note(u).user = u /\ note(u).changes = 1..work.total
      BY <1>1, <3>2
    <3> HIDE DEF note, work
    <3> QED
      BY <1>3, <3>4, <3>5
  <2> QED
    BY <2>2, <2>3, <2>4 DEF ToldAsDue
<1> QED
  BY <1>4, <1>5 DEF SaveIsTold, NoticesAreSound, InboxIsSound

\* Every other step tells nobody.
LEMMA OthersTellNobody ==
  ASSUME NoticesAreSound, NoticesAreSound',
         history' = history \/ UNCHANGED desk,
         \A m \in inbox' : \E o \in inbox : o.save = m.save
  PROVE  SaveIsTold
<1>1. Told = {} /\ Savers = {}
  BY DEF Told, Savers, Resting
<1> QED
  BY <1>1 DEF SaveIsTold, NoticesAreSound, InboxIsSound

\* Whoever follows a card or a link while a save runs gets one notification
\* with all of its changes when it ends, nobody else gets any, and what is
\* told is in the history, whatever the other requests and retention do.
THEOREM EverySaveIsToldHolds == NoticeSpec => EverySaveIsTold
<1>1. ASSUME NoticesAreSound, NoticesAreSound', NoticeNext PROVE SaveIsTold
  <2>1. CASE GrowOld \/ Retain
    <3>1. UNCHANGED desk
      BY <2>1 DEF GrowOld, Retain
    <3>2. \A m \in inbox' : \E o \in inbox : o.save = m.save
      <4>1. CASE GrowOld
        <5>1. \A m \in inbox : [m EXCEPT !.old = TRUE].save = m.save
          BY DEF NoticesAreSound, InboxIsSound, Notification
        <5> QED
          BY <4>1, <5>1 DEF GrowOld
      <4>2. CASE Retain
        BY <4>2 DEF Retain
      <4> QED
        BY <2>1, <4>1, <4>2
    <3> QED
      BY <1>1, <3>1, <3>2, OthersTellNobody
  <2>2. CASE ChangeSight
    BY <1>1, <2>2, OthersTellNobody DEF ChangeSight
  <2>3. ASSUME NEW p \in Clerks,
               \/ BeginSave(p) \/ WriteEvent(p) \/ Tell(p)
               \/ EndDesk(p) \/ BeginToggle(p) \/ CommitToggle(p) \/ BeginRead(p)
        PROVE  SaveIsTold
    <3>1. UNCHANGED <<history, inbox>>
      BY <2>3 DEF BeginSave, WriteEvent, Tell, EndDesk, BeginToggle, CommitToggle, BeginRead
    <3> QED
      BY <1>1, <3>1, OthersTellNobody
  <2>4. ASSUME NEW p \in Clerks, CommitRead(p) PROVE SaveIsTold
    <3>1. Followed
      BY <1>1 DEF NoticeNext, Followed
    <3> QED
      BY <1>1, <2>4, <3>1, ReadIsSound, OthersTellNobody
  <2>5. ASSUME NEW p \in Clerks, CommitSave(p) PROVE SaveIsTold
    BY <1>1, <2>5, CommitTells
  <2> QED
    BY <1>1, <2>1, <2>2, <2>3, <2>4, <2>5 DEF NoticeNext
<1> QED
  BY <1>1, NoticeInitIsSound, NoticeNextIsSound, PTL DEF NoticeSpec, EverySaveIsTold

-----------------------------------------------------------------------------
(* Imports: what each step relies on *)

ItemRows == [state : {"active", "archived"}, list : Lists, label : Spellings,
             code : Spellings \cup {"own"}, parent : 0..MaxItems, hand : BOOLEAN]
PlanRows == {p \in [list : Lists, label : Spellings, spelling : Spellings] :
               Normal[p.spelling] = p.label}
ItemEdits ==
  [table : {"item"}, id : Items, does : {"create"}, row : {r \in ItemRows : r.hand /\ r.code = "own"}]
  \cup [table : {"item"}, id : Items, does : {"update"}, label : Spellings]
  \cup [table : {"item"}, id : Items, does : {"archive"}]

\* A workbook that can be imported was filled in for fields and organizations.
FilledIn(wb) ==
  /\ IsFiniteSet(DOMAIN wb.rows)
  /\ \A n \in DOMAIN wb.rows :
       /\ wb.rows[n].org \in Orgs /\ DOMAIN wb.rows[n].cells \subseteq Fields
       /\ \A f \in DOMAIN wb.rows[n].cells :
            Choice(f) => wb.rows[n].cells[f].text \in Spellings \cup {""}

\* Every import has something, if only nothing.
AreThere ==
  /\ DOMAIN file = Importers /\ DOMAIN pc = Importers /\ DOMAIN picked = Importers
  /\ DOMAIN plan = Importers /\ DOMAIN made = Importers /\ DOMAIN written = Importers

FilesAreFilledIn ==
  /\ fields \subseteq Fields /\ open \subseteq Orgs
  /\ AreThere
  /\ \A i \in Importers :
       /\ file[i] # NoFile /\ file[i].importable => FilledIn(file[i])
       /\ pc[i] \in {"idle", "read", "items", "cards"}
       /\ pc[i] # "idle" => file[i] # NoFile /\ file[i].importable

\* Items an import inserts, and those it still means to, stand for the labels
\* of its plan, each of them once.
PlanIsSound(i) ==
  /\ plan[i] \in Seq(PlanRows)
  /\ pc[i] \in {"idle", "read"} => made[i] = Nothing
  /\ \A x \in DOMAIN made[i] :
       /\ made[i][x] \in ItemRows
       /\ made[i][x].state = "active" /\ ~made[i][x].hand
       /\ made[i][x].code = Normal[made[i][x].label]
  /\ \A m, n \in DOMAIN plan[i] : m # n => \/ plan[i][m].list # plan[i][n].list
                                           \/ plan[i][m].label # plan[i][n].label
  /\ \A n \in DOMAIN plan[i], x \in DOMAIN made[i] :
       plan[i][n].list # made[i][x].list \/ plan[i][n].label # made[i][x].code

\* Each number is given out once.
NumbersAreApart ==
  /\ issued \in 0..MaxItems
  /\ items \in [Items -> ItemRows \cup {NoItem}] /\ DOMAIN edit = Editors
  /\ \A x \in Items : items[x] # NoItem => x <= issued
  /\ \A i \in Importers : \A x \in DOMAIN made[i] :
       /\ x \in 1..issued /\ items[x] = NoItem
       /\ \A j \in Importers \ {i} : x \notin DOMAIN made[j]
  /\ \A e \in Editors : edit[e] # NoEdit /\ edit[e].table = "item" =>
       /\ edit[e] \in ItemEdits
       /\ edit[e].does # "create" => items[edit[e].id] # NoItem
       /\ edit[e].does = "create" =>
            /\ edit[e].id <= issued /\ items[edit[e].id] = NoItem
            /\ \A i \in Importers : edit[e].id \notin DOMAIN made[i]
            /\ \A d \in Editors \ {e} :
                 edit[d] # NoEdit /\ edit[d].table = "item" => edit[d].id # edit[e].id

\* The row of number x, committed or not
IsRow(x, r) == \/ x \in Items /\ items[x] = r
               \/ \E i \in Importers : x \in DOMAIN made[i] /\ made[i][x] = r

\* uq_reference_items_list_code holds over what is inserted, too.
CodesAreApart ==
  /\ \A x \in Items : items[x] # NoItem /\ ~items[x].hand => items[x].code = Normal[items[x].label]
  /\ \A r, s \in ItemRows, x, y \in Items :
       /\ x # y /\ IsRow(x, r) /\ IsRow(y, s)
       /\ r.list = s.list /\ r.code = s.code
       => r.code = "own"

ItemsAreSound ==
  FilesAreFilledIn /\ (\A i \in Importers : PlanIsSound(i)) /\ NumbersAreApart /\ CodesAreApart

-----------------------------------------------------------------------------
(* Imports: what is filed *)

Held(i) == facts[i] \cup Holding(i)
TextOf(i, c) == file[i].rows[c[1]].cells[c[2]].text

\* Each item picked had the label of its cell while the import ran.
PicksAreSound(i) ==
  pc[i] \in {"items", "cards"} =>
    /\ DOMAIN picked[i] = ChoiceCells(file[i])
    /\ \A c \in DOMAIN picked[i] :
         picked[i][c] # 0 => <<"label", Normal[TextOf(i, c)], picked[i][c]>> \in Held(i)

CardsAreFiled(i) == pc[i] = "cards" =>
  /\ \A n \in Rows(file[i]) : Cardinality({c \in written[i] : c.row = n}) = 1
  /\ \A c \in written[i] :
       /\ c.row \in Rows(file[i]) /\ c.org = file[i].rows[c.row].org
       /\ DOMAIN c.values = Filled(file[i].rows[c.row])
       /\ \A f \in DOMAIN c.values : Choice(f) =>
            /\ <<"choice", f, c.org, c.values[f]>> \in Held(i)
            /\ <<"label", Normal[file[i].rows[c.row].cells[f].text], c.values[f]>> \in Held(i)

FilingIsSound == \A i \in Importers : PicksAreSound(i) /\ CardsAreFiled(i)

-----------------------------------------------------------------------------
(* Imports: steps of others *)

\* What an import has got is as it was.
Keeps(i) ==
  /\ file'[i] = file[i] /\ pc'[i] = pc[i] /\ picked'[i] = picked[i]
  /\ plan'[i] = plan[i] /\ made'[i] = made[i] /\ written'[i] = written[i]

\* An import changes nothing of what the others have got.
LEMMA OthersAreKept ==
  ASSUME AreThere, NEW i \in Importers, ImportStep(i)
  PROVE  AreThere' /\ \A j \in Importers \ {i} : Keeps(j)
<1> USE DEF AreThere, Keeps
<1>1. CASE Download(i) BY <1>1 DEF Download
<1>2. CASE Export(i) BY <1>2 DEF Export
<1>3. CASE Discard(i) BY <1>3 DEF Discard
<1>4. CASE StartImport(i) BY <1>4 DEF StartImport
<1>5. CASE Reread(i) BY <1>5 DEF Reread
<1>6. CASE InsertItem(i) BY <1>6 DEF InsertItem
<1>7. CASE ReuseItem(i) BY <1>7 DEF ReuseItem
<1>8. CASE WriteCards(i) BY <1>8 DEF WriteCards
<1>9. CASE CommitImport(i) BY <1>9 DEF CommitImport, Rest
<1>10. CASE RollBackImport(i) BY <1>10 DEF RollBackImport, Rest
<1> QED
  BY <1>1, <1>2, <1>3, <1>4, <1>5, <1>6, <1>7, <1>8, <1>9, <1>10 DEF ImportStep

\* An import that has nothing has no rows.
LEMMA NothingIsEmpty == DOMAIN Nothing = {} /\ <<>> \in Seq(PlanRows) /\ DOMAIN <<>> = {}
BY DEF Nothing

-----------------------------------------------------------------------------
(* Imports: files *)

\* import_template_xlsx_for_actor with the sheet a user fills in gives a file for
\* fields and organizations there are.
LEMMA DownloadFillsIn ==
  ASSUME FilesAreFilledIn, NEW i \in Importers, Download(i)
  PROVE  FilledIn(file'[i])
<1>1. PICK strict \in BOOLEAN, sheet \in Sheets :
        /\ UNION {DOMAIN sheet[n].cells : n \in DOMAIN sheet} \subseteq Selectable(template)
        /\ \A n \in DOMAIN sheet : sheet[n].org \in Choosable
        /\ file' = [file EXCEPT ![i] = [importable |-> TRUE, strict |-> strict, rows |-> sheet,
              headers |-> [f \in UNION {DOMAIN sheet[n].cells : n \in DOMAIN sheet} |-> headers[f]],
              orgs |-> {sheet[n].org : n \in DOMAIN sheet}]]
  BY DEF Download
<1>2. file'[i].rows = sheet
  BY <1>1 DEF FilesAreFilledIn, AreThere
<1>3. ASSUME NEW n \in DOMAIN sheet
      PROVE  sheet[n].org \in Orgs /\ DOMAIN sheet[n].cells \subseteq Fields
  BY <1>1 DEF FilesAreFilledIn, Choosable, Selectable
<1>4. ASSUME NEW n \in DOMAIN sheet, NEW f \in DOMAIN sheet[n].cells, Choice(f)
      PROVE  sheet[n].cells[f].text \in Spellings \cup {""}
  BY <1>3, <1>4, ImportAssumption DEF Choice
<1> QED
  BY <1>2, <1>3, <1>4, ImportAssumption DEF FilledIn

\* Files of others, and the fields and organizations there are
LEMMA OtherFilesStay ==
  ASSUME FilesAreFilledIn, AreThere', fields' \subseteq fields, open' \subseteq open,
         NEW i \in Importers,
         \A j \in Importers \ {i} : file'[j] = file[j] /\ pc'[j] = pc[j],
         file'[i] # NoFile /\ file'[i].importable => FilledIn(file'[i]),
         pc'[i] \in {"idle", "read", "items", "cards"},
         pc'[i] # "idle" => file'[i] # NoFile /\ file'[i].importable
  PROVE  FilesAreFilledIn'
<1>1. ASSUME NEW j \in Importers
      PROVE  /\ file'[j] # NoFile /\ file'[j].importable => FilledIn(file'[j])
             /\ pc'[j] \in {"idle", "read", "items", "cards"}
             /\ pc'[j] # "idle" => file'[j] # NoFile /\ file'[j].importable
  <2>1. CASE j = i BY <2>1
  <2>2. CASE j # i BY <2>2 DEF FilesAreFilledIn
  <2> QED BY <2>1, <2>2
<1> QED
  BY <1>1 DEF FilesAreFilledIn, FilledIn

\* Files stay so, whatever an import does.
LEMMA FilesStayFilledIn ==
  ASSUME FilesAreFilledIn, NEW i \in Importers, ImportStep(i)
  PROVE  FilesAreFilledIn'
<1>1. AreThere' /\ \A j \in Importers \ {i} : Keeps(j)
  BY OthersAreKept DEF FilesAreFilledIn
<1>2. fields' = fields /\ open' = open
  BY DEF ImportStep, Download, Export, Discard, StartImport, Reread, InsertItem, ReuseItem,
     WriteCards, CommitImport, RollBackImport, schemaOfImport
<1>3. CASE Download(i)
  <2>1. FilledIn(file'[i])
    BY <1>3, DownloadFillsIn
  <2>2. pc[i] = "idle" /\ pc' = pc
    BY <1>3 DEF Download
  <2>3. \A j \in Importers \ {i} : file'[j] = file[j] /\ pc'[j] = pc[j]
    BY <1>1 DEF Keeps
  <2>4. pc'[i] = "idle"
    BY <2>2
  <2> QED
    BY <1>1, <1>2, <2>1, <2>3, <2>4, OtherFilesStay
<1>4. CASE Export(i)
  <2>1. ~file'[i].importable /\ pc' = pc /\ pc[i] = "idle"
    BY <1>4 DEF Export, FilesAreFilledIn, AreThere
  <2> QED
    BY <1>1, <1>2, <2>1, OtherFilesStay DEF Keeps
<1>5. CASE Discard(i)
  <2>1. file'[i] = NoFile /\ pc' = pc /\ pc[i] = "idle"
    BY <1>5 DEF Discard, FilesAreFilledIn, AreThere
  <2> QED
    BY <1>1, <1>2, <2>1, OtherFilesStay DEF Keeps
<1>6. CASE StartImport(i)
  <2>1. /\ file' = file /\ file[i] # NoFile /\ file[i].importable /\ pc'[i] = "read"
    BY <1>6 DEF StartImport, FilesAreFilledIn, AreThere, Fits
  <2> QED
    BY <1>1, <1>2, <2>1, OtherFilesStay DEF Keeps, FilesAreFilledIn
<1>7. CASE Reread(i) \/ InsertItem(i) \/ ReuseItem(i) \/ WriteCards(i)
  <2>1. /\ file' = file /\ pc[i] # "idle" /\ pc'[i] \in {"items", "cards"}
    BY <1>7 DEF Reread, InsertItem, ReuseItem, WriteCards, FilesAreFilledIn, AreThere
  <2> QED
    BY <1>1, <1>2, <2>1, OtherFilesStay DEF Keeps, FilesAreFilledIn
<1>8. CASE CommitImport(i) \/ RollBackImport(i)
  <2>1. file' = file /\ pc'[i] = "idle"
    BY <1>8 DEF CommitImport, RollBackImport, Rest, FilesAreFilledIn, AreThere
  <2> QED
    BY <1>1, <1>2, <2>1, OtherFilesStay DEF Keeps, FilesAreFilledIn
<1> QED
  BY <1>3, <1>4, <1>5, <1>6, <1>7, <1>8 DEF ImportStep

-----------------------------------------------------------------------------
(* Imports: plans *)

\* What is planned: each key once, with a spelling of its label
LEMMA PlansAreSound ==
  ASSUME NEW i \in Importers, FilledIn(file[i]), NEW planned \in Plans(file[i], Picks(i, file[i]))
  PROVE  /\ planned \in Seq(PlanRows)
         /\ \A m, n \in DOMAIN planned : m # n => \/ planned[m].list # planned[n].list
                                                  \/ planned[m].label # planned[n].label
<1> DEFINE wb == file[i]
           cells == {c \in DOMAIN Picks(i, wb) : Picks(i, wb)[c] = 0}
           keys == {PlanKey(wb, c) : c \in cells}
           row(s, n) == [list |-> PlanKey(wb, s[n]).list, label |-> PlanKey(wb, s[n]).label,
                         spelling |-> wb.rows[s[n][1]].cells[s[n][2]].text]
           firsts == {s \in [1..Cardinality(keys) -> cells] :
             /\ \A m, n \in DOMAIN s : m < n => /\ PlanKey(wb, s[m]) # PlanKey(wb, s[n])
                                               /\ s[m][1] <= s[n][1]
             /\ \A c \in cells : \E n \in DOMAIN s : /\ PlanKey(wb, s[n]) = PlanKey(wb, c)
                                                   /\ s[n][1] <= c[1]}
<1>1. PICK s \in [1..Cardinality(keys) -> cells] :
        /\ \A m, n \in DOMAIN s : m < n => PlanKey(wb, s[m]) # PlanKey(wb, s[n])
        /\ planned = [n \in DOMAIN s |-> row(s, n)]
  <2>1. planned \in {[n \in DOMAIN s |-> row(s, n)] : s \in firsts}
    BY DEF Plans
  <2>2. PICK s \in firsts : planned = [n \in DOMAIN s |-> row(s, n)]
    <3> HIDE DEF firsts, row
    <3> QED
      BY <2>1
  <2>3. /\ s \in [1..Cardinality(keys) -> cells]
        /\ \A m, n \in DOMAIN s : m < n => PlanKey(wb, s[m]) # PlanKey(wb, s[n])
    <3> HIDE DEF cells, keys, row
    <3> QED
      OBVIOUS
  <2> HIDE DEF firsts, cells, keys, row
  <2> QED
    BY <2>2, <2>3
<1>2. ASSUME NEW c \in cells
      PROVE  /\ Source[c[2]] \in Lists
             /\ wb.rows[c[1]].cells[c[2]].text \in Spellings
             /\ Normal[wb.rows[c[1]].cells[c[2]].text] \in Spellings
  <2>1. c \in Rows(wb) \X Fields /\ Choice(c[2]) /\ c[2] \in Filled(wb.rows[c[1]])
    BY DEF Picks, ChoiceCells
  <2>2. Source[c[2]] \in Lists
    BY <2>1, ImportAssumption DEF Choice
  <2>3. wb.rows[c[1]].cells[c[2]].text \in Spellings
    BY <2>1 DEF FilledIn, Filled, Rows
  <2> QED
    BY <2>2, <2>3, ReferenceAssumption
<1>3. ASSUME NEW n \in DOMAIN s PROVE row(s, n) \in PlanRows
  <2>1. s[n] \in cells
    OBVIOUS
  <2> HIDE DEF cells
  <2> QED
    BY <1>2, <2>1 DEF PlanRows, PlanKey
<1> DEFINE size == Cardinality(keys)
<1>4. s \in [1..size -> cells]
  OBVIOUS
<1> HIDE DEF size
<1>7. size \in Nat
  <2>1. IsFiniteSet(cells)
    <3> DEFINE lines == DOMAIN wb.rows
               all == lines \X Fields
    <3>1. IsFiniteSet(lines)
      BY DEF FilledIn
    <3>2. IsFiniteSet(Fields)
      BY ImportAssumption
    <3>3. \A c \in cells : c \in ChoiceCells(wb)
      BY DEF Picks
    <3>4. \A c \in ChoiceCells(wb) : c \in Rows(wb) \X Fields
      BY DEF ChoiceCells
    <3>5. Rows(wb) \subseteq lines
      BY DEF Rows
    <3> HIDE DEF cells, lines
    <3>6. cells \in SUBSET all
      BY <3>3, <3>4, <3>5
    <3>7. IsFiniteSet(all)
      BY <3>1, <3>2, FS_Product
    <3> QED
      BY <3>6, <3>7, FS_Subset
  <2>2. IsFiniteSet(keys)
    <3> DEFINE key == [c \in cells |-> PlanKey(wb, c)]
    <3>1. key \in Surjection(cells, keys)
      <4> HIDE DEF cells
      <4> QED
        BY DEF Surjection
    <3> QED
      BY <2>1, <3>1, FS_Surjection
  <2> QED
    BY <2>2, FS_CardinalityType DEF size
<1> HIDE DEF cells, keys
<1>5. planned \in Seq(PlanRows)
  <2> HIDE DEF row
  <2>1. DOMAIN s = 1..size
    BY <1>4
  <2>2. planned \in [1..size -> PlanRows]
    BY <1>1, <1>3, <2>1
  <2> QED
    BY <1>7, <2>2, SeqDef
<1>6. ASSUME NEW m \in DOMAIN planned, NEW n \in DOMAIN planned, m # n
      PROVE  planned[m].list # planned[n].list \/ planned[m].label # planned[n].label
  <2> HIDE DEF row
  <2>1. m \in DOMAIN s /\ n \in DOMAIN s /\ m \in Int /\ n \in Int
    BY <1>1, <1>4, <1>7
  <2>2. PlanKey(wb, s[m]) # PlanKey(wb, s[n])
    BY <1>1, <1>6, <2>1
  <2>3. planned[m] = row(s, m) /\ planned[n] = row(s, n)
    BY <1>1, <2>1
  <2>4. /\ planned[m].list = PlanKey(wb, s[m]).list /\ planned[n].list = PlanKey(wb, s[n]).list
        /\ planned[m].label = PlanKey(wb, s[m]).label /\ planned[n].label = PlanKey(wb, s[n]).label
    <3>1. \A k : row(s, k).list = PlanKey(wb, s[k]).list /\ row(s, k).label = PlanKey(wb, s[k]).label
      BY DEF row
    <3> QED
      BY <2>3, <3>1
  <2> QED
    BY <2>2, <2>4 DEF PlanKey
<1> QED
  BY <1>5, <1>6

\* What a plan has got left when its first row is done
LEMMA TailIsSound ==
  ASSUME NEW p \in Seq(PlanRows), p # <<>>
  PROVE  /\ Head(p) \in PlanRows /\ Head(p) = p[1] /\ 1 \in DOMAIN p
         /\ Tail(p) \in Seq(PlanRows)
         /\ \A n \in DOMAIN Tail(p) : n + 1 \in DOMAIN p /\ Tail(p)[n] = p[n + 1] /\ n \in Nat /\ n > 0
<1>1. Len(p) \in Nat /\ DOMAIN p = 1..Len(p) /\ Len(p) # 0
  OBVIOUS
<1>2. Tail(p) \in Seq(PlanRows) /\ DOMAIN Tail(p) = 1..(Len(p) - 1)
  BY <1>1
<1> QED
  BY <1>1, <1>2

\* The row an import inserts for a row of its plan
Inserted(next, x) == NewItem(next.list, next.spelling, ImportCode(next.label, x), 0, FALSE)

LEMMA InsertedIsSound ==
  ASSUME NEW next \in PlanRows, NEW x
  PROVE  LET r == Inserted(next, x)
         IN /\ r \in ItemRows /\ r.state = "active" /\ ~r.hand
            /\ r.list = next.list /\ r.label = next.spelling /\ r.code = next.label
            /\ r.code = Normal[r.label] /\ r.code # "own"
<1>1. next.list \in Lists /\ next.spelling \in Spellings /\ next.label \in Spellings
      /\ Normal[next.spelling] = next.label
  BY DEF PlanRows
<1>2. next.label # "own" /\ 0 \in 0..MaxItems
  BY <1>1, ReferenceAssumption
<1> QED
  BY <1>1, <1>2 DEF ItemRows, NewItem, ImportCode, Inserted

\* An import that neither plans nor inserts
LEMMA KeptPlanIsSound ==
  ASSUME NEW i \in Importers, PlanIsSound(i), plan'[i] = plan[i], made'[i] = made[i],
         pc'[i] \in {"idle", "read"} => pc[i] \in {"idle", "read"}
  PROVE  PlanIsSound(i)'
BY DEF PlanIsSound

\* create_global_import_item_for_actor inserts what the plan says, and the rest of
\* the plan is of other keys.
LEMMA InsertIsPlanned ==
  ASSUME FilesAreFilledIn, NEW i \in Importers, PlanIsSound(i), InsertItem(i)
  PROVE  PlanIsSound(i)'
<1> DEFINE next == Head(plan[i])
           x == issued + 1
           new == Inserted(next, x)
<1>1. /\ pc[i] = "items" /\ plan[i] # <<>> /\ pc' = pc
      /\ plan' = [plan EXCEPT ![i] = Tail(plan[i])]
      /\ made' = [made EXCEPT ![i] =
           [y \in DOMAIN made[i] \cup {x} |-> IF y = x THEN new ELSE made[i][y]]]
  BY DEF Inserted, InsertItem
<1>2. /\ next \in PlanRows /\ next = plan[i][1] /\ 1 \in DOMAIN plan[i]
      /\ Tail(plan[i]) \in Seq(PlanRows)
      /\ \A n \in DOMAIN Tail(plan[i]) :
           n + 1 \in DOMAIN plan[i] /\ Tail(plan[i])[n] = plan[i][n + 1] /\ n \in Nat /\ n > 0
  BY <1>1, TailIsSound DEF PlanIsSound
<1>3. /\ new \in ItemRows /\ new.state = "active" /\ ~new.hand
      /\ new.list = next.list /\ new.code = next.label /\ new.code = Normal[new.label]
  <2> HIDE DEF next, x
  <2> QED
    BY <1>2, InsertedIsSound
<1>4. /\ plan'[i] = Tail(plan[i])
      /\ made'[i] = [y \in DOMAIN made[i] \cup {x} |-> IF y = x THEN new ELSE made[i][y]]
  BY <1>1 DEF FilesAreFilledIn, AreThere
<1> HIDE DEF new, next, x
<1>5. /\ DOMAIN made'[i] = DOMAIN made[i] \cup {x}
      /\ \A y \in DOMAIN made'[i] : made'[i][y] = new \/ (y \in DOMAIN made[i] /\ made'[i][y] = made[i][y])
  BY <1>4
<1>6. \A y \in DOMAIN made'[i] :
        /\ made'[i][y] \in ItemRows /\ made'[i][y].state = "active" /\ ~made'[i][y].hand
        /\ made'[i][y].code = Normal[made'[i][y].label]
  BY <1>3, <1>5 DEF PlanIsSound
<1>7. ASSUME NEW m \in DOMAIN plan'[i], NEW n \in DOMAIN plan'[i], m # n
      PROVE  plan'[i][m].list # plan'[i][n].list \/ plan'[i][m].label # plan'[i][n].label
  BY <1>2, <1>4, <1>7 DEF PlanIsSound
<1>8. ASSUME NEW n \in DOMAIN plan'[i], NEW y \in DOMAIN made'[i]
      PROVE  plan'[i][n].list # made'[i][y].list \/ plan'[i][n].label # made'[i][y].code
  <2>1. n + 1 \in DOMAIN plan[i] /\ n + 1 # 1 /\ plan'[i][n] = plan[i][n + 1]
    BY <1>2, <1>4
  <2>2. CASE made'[i][y] = new
    BY <1>2, <1>3, <2>1, <2>2 DEF PlanIsSound
  <2>3. CASE y \in DOMAIN made[i] /\ made'[i][y] = made[i][y]
    BY <2>1, <2>3 DEF PlanIsSound
  <2> QED
    BY <1>5, <2>2, <2>3
<1> QED
  BY <1>1, <1>2, <1>4, <1>6, <1>7, <1>8 DEF PlanIsSound

\* Plans stay so, whatever an import does.
LEMMA PlansStaySound ==
  ASSUME FilesAreFilledIn, NEW i \in Importers, PlanIsSound(i), ImportStep(i)
  PROVE  PlanIsSound(i)'
<1>1. CASE Download(i) \/ Export(i) \/ Discard(i)
  BY <1>1, KeptPlanIsSound DEF Download, Export, Discard
<1>2. CASE StartImport(i)
  BY <1>2, KeptPlanIsSound DEF StartImport
<1>3. CASE Reread(i)
  <2>1. PICK planned \in Plans(file[i], Picks(i, file[i])) : plan' = [plan EXCEPT ![i] = planned]
    BY <1>3 DEF Reread
  <2>2. plan'[i] = planned /\ made' = made /\ made[i] = Nothing /\ pc'[i] = "items"
    BY <1>3, <2>1 DEF Reread, FilesAreFilledIn, AreThere, PlanIsSound
  <2>3. FilledIn(file[i])
    BY <1>3 DEF Reread, FilesAreFilledIn
  <2> QED
    BY <2>2, <2>3, PlansAreSound, NothingIsEmpty DEF PlanIsSound
<1>4. CASE InsertItem(i)
  BY <1>4, InsertIsPlanned
<1>5. CASE ReuseItem(i)
  <2>1. /\ pc[i] = "items" /\ plan[i] # <<>> /\ pc' = pc /\ made' = made
        /\ plan'[i] = Tail(plan[i])
    BY <1>5 DEF ReuseItem, FilesAreFilledIn, AreThere
  <2>2. /\ Tail(plan[i]) \in Seq(PlanRows)
        /\ \A n \in DOMAIN Tail(plan[i]) :
             n + 1 \in DOMAIN plan[i] /\ Tail(plan[i])[n] = plan[i][n + 1] /\ n \in Nat
    BY <2>1, TailIsSound DEF PlanIsSound
  <2>3. ASSUME NEW m \in DOMAIN plan'[i], NEW n \in DOMAIN plan'[i], m # n
        PROVE  plan'[i][m].list # plan'[i][n].list \/ plan'[i][m].label # plan'[i][n].label
    BY <2>1, <2>2, <2>3 DEF PlanIsSound
  <2>4. ASSUME NEW n \in DOMAIN plan'[i], NEW x \in DOMAIN made[i]
        PROVE  plan'[i][n].list # made[i][x].list \/ plan'[i][n].label # made[i][x].code
    BY <2>1, <2>2 DEF PlanIsSound
  <2>5. \A x \in DOMAIN made[i] : /\ made[i][x] \in ItemRows
                                 /\ made[i][x].state = "active" /\ ~made[i][x].hand
                                 /\ made[i][x].code = Normal[made[i][x].label]
    BY DEF PlanIsSound
  <2>6. pc'[i] = "items" /\ made'[i] = made[i] /\ plan'[i] \in Seq(PlanRows)
    BY <2>1, <2>2
  <2> QED
    BY <2>3, <2>4, <2>5, <2>6 DEF PlanIsSound
<1>6. CASE WriteCards(i)
  <2>1. pc'[i] = "cards" /\ UNCHANGED <<plan, made>>
    BY <1>6 DEF WriteCards, FilesAreFilledIn, AreThere
  <2> QED
    BY <2>1, KeptPlanIsSound
<1>7. CASE CommitImport(i) \/ RollBackImport(i)
  <2>1. plan'[i] = <<>> /\ made'[i] = Nothing
    BY <1>7 DEF CommitImport, RollBackImport, Rest, FilesAreFilledIn, AreThere
  <2> QED
    BY <2>1, NothingIsEmpty DEF PlanIsSound
<1> QED
  BY <1>1, <1>2, <1>3, <1>4, <1>5, <1>6, <1>7 DEF ImportStep

-----------------------------------------------------------------------------
(* Imports: rows of items *)

ItemEdit(e) == edit[e] # NoEdit /\ edit[e].table = "item"

RowsAreApart == NumbersAreApart /\ CodesAreApart

\* A step that neither adds a row nor begins an edit of one
LEMMA SameRowsAreApart ==
  ASSUME RowsAreApart, UNCHANGED <<items, issued>>, DOMAIN edit' = Editors,
         \A e \in Editors : ItemEdit(e)' => edit'[e] = edit[e] /\ ItemEdit(e),
         \A i \in Importers : made'[i] = made[i] \/ made'[i] = Nothing
  PROVE  RowsAreApart'
<1>1. \A i \in Importers : \A x \in DOMAIN made'[i] : x \in DOMAIN made[i] /\ made'[i][x] = made[i][x]
  BY NothingIsEmpty
<1>2. NumbersAreApart'
  BY <1>1 DEF RowsAreApart, NumbersAreApart, ItemEdit
<1>3. \A x, r : IsRow(x, r)' => IsRow(x, r)
  BY <1>1 DEF IsRow
<1>4. CodesAreApart'
  BY <1>3 DEF RowsAreApart, CodesAreApart
<1> QED
  BY <1>2, <1>4 DEF RowsAreApart

\* An edit that begins takes a number that is new, or of a row that is committed.
LEMMA EditOfItemIsApart ==
  ASSUME RowsAreApart, NEW e \in Editors, NEW what,
         edit[e] = NoEdit, edit' = [edit EXCEPT ![e] = what], UNCHANGED <<items, made>>,
         \/ /\ what \in ItemEdits /\ what.does # "create" /\ items[what.id] # NoItem
            /\ issued' = issued
         \/ /\ what \in ItemEdits /\ what.does = "create" /\ what.id = issued + 1
            /\ issued < MaxItems /\ issued' = issued + 1
  PROVE  RowsAreApart'
<1>1. /\ DOMAIN edit' = Editors /\ edit'[e] = what
      /\ \A d \in Editors \ {e} : edit'[d] = edit[d]
  BY DEF RowsAreApart, NumbersAreApart
<1>2. CodesAreApart'
  BY DEF RowsAreApart, CodesAreApart, IsRow
<1>3. /\ issued \in 0..MaxItems /\ issued' \in 0..MaxItems /\ issued <= issued'
      /\ issued \in Nat /\ issued' \in Nat
  BY ReferenceAssumption DEF RowsAreApart, NumbersAreApart
<1>4. /\ items' \in [Items -> ItemRows \cup {NoItem}]
      /\ \A x \in Items : items'[x] # NoItem => x <= issued'
      /\ \A i \in Importers : \A x \in DOMAIN made'[i] :
           /\ x \in 1..issued' /\ items'[x] = NoItem
           /\ \A j \in Importers \ {i} : x \notin DOMAIN made'[j]
  BY <1>3 DEF RowsAreApart, NumbersAreApart, Items
<1>5. ASSUME NEW d \in Editors, ItemEdit(d)'
      PROVE  /\ edit'[d] \in ItemEdits /\ (edit'[d].does # "create" => items'[edit'[d].id] # NoItem)
             /\ edit'[d].does = "create" =>
                  /\ edit'[d].id <= issued' /\ items'[edit'[d].id] = NoItem
                  /\ \A i \in Importers : edit'[d].id \notin DOMAIN made'[i]
  <2>1. CASE d = e
    <3>1. CASE what.does # "create"
      BY <1>1, <2>1, <3>1
    <3>2. CASE what.does = "create"
      <4>1. what.id \in Items /\ what.id = issued + 1 /\ issued' = issued + 1
        BY <3>2, <1>3, ReferenceAssumption DEF Items
      <4>2. items[what.id] = NoItem
        BY <4>1, <1>3 DEF RowsAreApart, NumbersAreApart
      <4>3. \A i \in Importers : what.id \notin DOMAIN made[i]
        BY <4>1, <1>3 DEF RowsAreApart, NumbersAreApart
      <4> QED
        BY <1>1, <1>3, <2>1, <3>2, <4>1, <4>2, <4>3
    <3> QED
      BY <3>1, <3>2
  <2>2. CASE d # e
    <3>1. edit'[d] = edit[d] /\ ItemEdit(d)
      BY <1>1, <1>5, <2>2 DEF ItemEdit
    <3>2. edit[d] \in ItemEdits /\ (edit[d].does # "create" => items[edit[d].id] # NoItem)
      BY <3>1 DEF RowsAreApart, NumbersAreApart, ItemEdit
    <3>3. edit[d].id \in Nat
      <4>1. edit[d].id \in 1..MaxItems
        BY <3>2 DEF ItemEdits, Items
      <4> QED
        BY <4>1, ReferenceAssumption
    <3>4. edit[d].does = "create" =>
            /\ edit[d].id <= issued /\ items[edit[d].id] = NoItem
            /\ \A i \in Importers : edit[d].id \notin DOMAIN made[i]
      BY <3>1 DEF RowsAreApart, NumbersAreApart, ItemEdit
    <3>5. edit[d].does = "create" => edit[d].id <= issued'
      BY <1>3, <3>3, <3>4
    <3>6. edit'[d] \in ItemEdits /\ (edit'[d].does # "create" => items'[edit'[d].id] # NoItem)
      BY <3>1, <3>2
    <3>7. edit'[d].does = "create" =>
            /\ edit'[d].id <= issued' /\ items'[edit'[d].id] = NoItem
            /\ \A i \in Importers : edit'[d].id \notin DOMAIN made'[i]
      BY <3>1, <3>4, <3>5
    <3> QED
      BY <3>6, <3>7
  <2> QED BY <2>1, <2>2
<1>6. ASSUME NEW d \in Editors, ItemEdit(d)', edit'[d].does = "create",
             NEW c \in Editors, c # d, ItemEdit(c)'
      PROVE  edit'[c].id # edit'[d].id
  <2>1. \A b \in Editors \ {e} : ItemEdit(b)' =>
          /\ edit'[b] = edit[b] /\ ItemEdit(b) /\ edit[b].id \in Items
          /\ (edit[b].does # "create" => items[edit[b].id] # NoItem)
          /\ (edit[b].does = "create" => edit[b].id <= issued)
    BY <1>1 DEF RowsAreApart, NumbersAreApart, ItemEdit, ItemEdits
  <2>2. \A b \in Editors \ {e} : ItemEdit(b)' => edit'[b].id <= issued
    BY <2>1 DEF RowsAreApart, NumbersAreApart
  <2>3. CASE d = e
    BY <1>1, <1>3, <1>6, <2>2, <2>3
  <2>4. CASE c = e
    <3>1. CASE what.does = "create"
      BY <1>1, <1>3, <1>6, <2>2, <2>4, <3>1
    <3>2. CASE what.does # "create"
      <4>1. items[edit[d].id] = NoItem /\ edit'[d] = edit[d]
        BY <1>6, <2>1, <2>4 DEF RowsAreApart, NumbersAreApart, ItemEdit
      <4> QED
        BY <1>1, <2>4, <3>2, <4>1
    <3> QED BY <3>1, <3>2
  <2>5. CASE d # e /\ c # e
    BY <1>6, <2>1, <2>5 DEF RowsAreApart, NumbersAreApart, ItemEdit
  <2> QED BY <2>3, <2>4, <2>5
<1>7. NumbersAreApart'
  BY <1>1, <1>3, <1>4, <1>5, <1>6 DEF NumbersAreApart, ItemEdit
<1> QED
  BY <1>2, <1>7 DEF RowsAreApart

\* Codes stay apart if each row comes of one with its list and code, or has a
\* code of its own.
LEMMA CodesStayApart ==
  ASSUME CodesAreApart,
         \A x \in Items, r \in ItemRows : IsRow(x, r)' =>
           r.code = "own" \/ \E q \in ItemRows : IsRow(x, q) /\ q.list = r.list /\ q.code = r.code,
         \A x \in Items : items'[x] # NoItem /\ ~items'[x].hand => items'[x].code = Normal[items'[x].label]
  PROVE  CodesAreApart'
<1>1. ASSUME NEW r \in ItemRows, NEW s \in ItemRows, NEW x \in Items, NEW y \in Items,
             x # y, IsRow(x, r)', IsRow(y, s)', r.list = s.list, r.code = s.code, r.code # "own"
      PROVE  FALSE
  <2>1. PICK q \in ItemRows : IsRow(x, q) /\ q.list = r.list /\ q.code = r.code
    BY <1>1
  <2>2. PICK p \in ItemRows : IsRow(y, p) /\ p.list = s.list /\ p.code = s.code
    BY <1>1
  <2> QED
    BY <1>1, <2>1, <2>2 DEF CodesAreApart
<1> QED
  BY <1>1 DEF CodesAreApart

\* A number without a row
LEMMA NoItemIsNoRow == NoItem \notin ItemRows
<1> SUFFICES ASSUME NoItem \in ItemRows PROVE FALSE
  OBVIOUS
<1>1. NoItem.state \in {"active", "archived"}
  BY DEF ItemRows
<1> QED
  BY <1>1 DEF NoItem

\* The row an edit leaves
LEMMA ItemAfterIs ==
  ASSUME NEW what \in ItemEdits, NEW row,
         what.does # "create" => row \in ItemRows
  PROVE  /\ ItemAfter(what, row) \in ItemRows
         /\ IF what.does = "create"
            THEN ItemAfter(what, row).hand /\ ItemAfter(what, row).code = "own"
            ELSE /\ ItemAfter(what, row).list = row.list /\ ItemAfter(what, row).code = row.code
                 /\ ~ItemAfter(what, row).hand =>
                      ~row.hand /\ ItemAfter(what, row).label = row.label
<1>1. CASE what.does = "create"
  <2>1. ItemAfter(what, row) = what.row
    BY <1>1 DEF ItemAfter
  <2>2. what.row \in ItemRows /\ what.row.hand /\ what.row.code = "own"
    BY <1>1 DEF ItemEdits
  <2> QED
    BY <1>1, <2>1, <2>2
<1>2. CASE what.does = "update"
  <2>1. ItemAfter(what, row) = [row EXCEPT !.label = what.label, !.hand = TRUE]
    BY <1>2 DEF ItemAfter
  <2>2. what.label \in Spellings
    BY <1>2 DEF ItemEdits
  <2> QED
    BY <1>2, <2>1, <2>2 DEF ItemRows
<1>3. CASE what.does = "archive"
  <2>1. ItemAfter(what, row) = [row EXCEPT !.state = "archived"]
    BY <1>3 DEF ItemAfter
  <2> QED
    BY <1>3, <2>1 DEF ItemRows
<1> QED
  BY <1>1, <1>2, <1>3 DEF ItemEdits

\* The commit of an edit keeps the code of the row, or adds one with a code of its own.
LEMMA CommitItemIsApart ==
  ASSUME RowsAreApart, NEW e \in Editors, CommitItem(e), made' = made
  PROVE  RowsAreApart'
<1> DEFINE id == edit[e].id
           after == ItemAfter(edit[e], items[id])
<1>1. /\ ItemEdit(e) /\ items' = [items EXCEPT ![id] = after]
      /\ edit' = [edit EXCEPT ![e] = NoEdit] /\ issued' = issued
  BY DEF CommitItem, ItemEdit
<1>2. /\ edit[e] \in ItemEdits /\ id \in Items /\ items[id] \in ItemRows \cup {NoItem}
      /\ edit[e].does # "create" => items[id] # NoItem
      /\ edit[e].does = "create" => items[id] = NoItem /\ \A i \in Importers : id \notin DOMAIN made[i]
  BY <1>1 DEF RowsAreApart, NumbersAreApart, ItemEdit, ItemEdits
<1>3. /\ after \in ItemRows
      /\ IF edit[e].does = "create" THEN after.hand /\ after.code = "own"
         ELSE /\ after.list = items[id].list /\ after.code = items[id].code
              /\ ~after.hand => ~items[id].hand /\ after.label = items[id].label
  BY <1>2, ItemAfterIs
<1>4. /\ items' \in [Items -> ItemRows \cup {NoItem}] /\ items'[id] = after /\ after # NoItem
      /\ \A x \in Items \ {id} : items'[x] = items[x]
  BY <1>1, <1>2, <1>3, NoItemIsNoRow DEF RowsAreApart, NumbersAreApart
<1>5. /\ DOMAIN edit' = Editors
      /\ \A d \in Editors : ItemEdit(d)' => d # e /\ edit'[d] = edit[d] /\ ItemEdit(d)
  BY <1>1 DEF RowsAreApart, NumbersAreApart, ItemEdit
<1> HIDE DEF after
<1>6. id <= issued
  <2>1. CASE edit[e].does = "create"
    BY <1>1, <2>1 DEF RowsAreApart, NumbersAreApart, ItemEdit
  <2>2. CASE edit[e].does # "create"
    BY <1>2, <2>2 DEF RowsAreApart, NumbersAreApart
  <2> QED BY <2>1, <2>2
<1>7. \A i \in Importers : id \notin DOMAIN made[i]
  <2>1. CASE edit[e].does = "create"
    BY <1>2, <2>1
  <2>2. CASE edit[e].does # "create"
    BY <1>2, <2>2 DEF RowsAreApart, NumbersAreApart
  <2> QED BY <2>1, <2>2
<1> HIDE DEF id
<1>8. /\ \A x \in Items : items'[x] # NoItem => x <= issued'
      /\ \A i \in Importers : \A x \in DOMAIN made'[i] :
           /\ x \in 1..issued' /\ items'[x] = NoItem
           /\ \A j \in Importers \ {i} : x \notin DOMAIN made'[j]
  <2>1. \A x \in Items : items'[x] # NoItem => x <= issued'
    BY <1>1, <1>4, <1>6 DEF RowsAreApart, NumbersAreApart
  <2>2. ASSUME NEW i \in Importers, NEW x \in DOMAIN made[i]
        PROVE  /\ x \in 1..issued' /\ items'[x] = NoItem
               /\ \A j \in Importers \ {i} : x \notin DOMAIN made[j]
    <3>1. /\ x \in 1..issued /\ items[x] = NoItem
          /\ \A j \in Importers \ {i} : x \notin DOMAIN made[j]
      BY DEF RowsAreApart, NumbersAreApart
    <3>2. x \in Items /\ x # id
      BY <1>7, <3>1, ReferenceAssumption DEF RowsAreApart, NumbersAreApart, Items
    <3> QED
      BY <1>1, <1>4, <3>1, <3>2
  <2> QED
    BY <2>1, <2>2
<1>9. ASSUME NEW d \in Editors, ItemEdit(d)'
      PROVE  /\ edit'[d] \in ItemEdits
             /\ edit'[d].does # "create" => items'[edit'[d].id] # NoItem
             /\ edit'[d].does = "create" =>
                  /\ edit'[d].id <= issued' /\ items'[edit'[d].id] = NoItem
                  /\ \A i \in Importers : edit'[d].id \notin DOMAIN made'[i]
                  /\ \A c \in Editors \ {d} : ItemEdit(c)' => edit'[c].id # edit'[d].id
  <2>1. d # e /\ edit'[d] = edit[d] /\ ItemEdit(d)
    BY <1>5, <1>9
  <2>2. edit[d] \in ItemEdits /\ edit[d].id \in Items
    BY <2>1 DEF RowsAreApart, NumbersAreApart, ItemEdit, ItemEdits
  <2>3. edit[d].does # "create" => items'[edit[d].id] # NoItem
    BY <1>4, <2>1, <2>2 DEF RowsAreApart, NumbersAreApart, ItemEdit
  <2>4. ASSUME edit[d].does = "create"
        PROVE  /\ edit[d].id <= issued /\ items'[edit[d].id] = NoItem
               /\ \A i \in Importers : edit[d].id \notin DOMAIN made[i]
               /\ \A c \in Editors \ {d} : ItemEdit(c)' => edit'[c].id # edit[d].id
    <3>1. /\ edit[d].id <= issued /\ items[edit[d].id] = NoItem
          /\ \A i \in Importers : edit[d].id \notin DOMAIN made[i]
          /\ \A c \in Editors \ {d} : ItemEdit(c) => edit[c].id # edit[d].id
      BY <2>1, <2>4 DEF RowsAreApart, NumbersAreApart, ItemEdit
    <3>2. edit[d].id # id
      BY <1>1, <2>1, <3>1 DEF id
    <3> QED
      BY <1>4, <1>5, <2>2, <3>1, <3>2
  <2> QED
    BY <1>1, <2>1, <2>2, <2>3, <2>4
<1>10. NumbersAreApart'
  BY <1>1, <1>4, <1>5, <1>8, <1>9 DEF RowsAreApart, NumbersAreApart, ItemEdit
<1>11. ASSUME NEW x \in Items, NEW r \in ItemRows, IsRow(x, r)'
       PROVE  r.code = "own" \/ \E q \in ItemRows : IsRow(x, q) /\ q.list = r.list /\ q.code = r.code
  <2>1. CASE x = id /\ r = after
    <3>1. CASE edit[e].does = "create"
      BY <1>3, <2>1, <3>1
    <3>2. CASE edit[e].does # "create"
      <4>1. items[id] \in ItemRows /\ IsRow(id, items[id])
        BY <1>2, <3>2 DEF IsRow
      <4> QED
        BY <1>3, <2>1, <3>2, <4>1
    <3> QED BY <3>1, <3>2
  <2>2. CASE IsRow(x, r)
    BY <2>2
  <2> QED
    BY <1>4, <1>11, <2>1, <2>2 DEF IsRow
<1>12. ASSUME NEW x \in Items, items'[x] # NoItem, ~items'[x].hand
       PROVE  items'[x].code = Normal[items'[x].label]
  <2>1. CASE x # id
    BY <1>4, <1>12, <2>1 DEF RowsAreApart, CodesAreApart
  <2>2. CASE x = id
    <3>1. edit[e].does # "create" /\ items[id] # NoItem /\ ~items[id].hand
          /\ after.code = items[id].code /\ after.label = items[id].label
      BY <1>2, <1>3, <1>4, <1>12, <2>2
    <3> QED
      BY <1>2, <1>4, <2>2, <3>1 DEF RowsAreApart, CodesAreApart
  <2> QED BY <2>1, <2>2
<1> QED
  BY <1>10, <1>11, <1>12, CodesStayApart DEF RowsAreApart

\* The unique constraint, and the wait for rows of other imports, keep a row out
\* that has the code of another.
LEMMA InsertIsApart ==
  ASSUME FilesAreFilledIn, RowsAreApart, NEW i \in Importers, PlanIsSound(i), InsertItem(i)
  PROVE  RowsAreApart'
<1> DEFINE next == Head(plan[i])
           x == issued + 1
           new == Inserted(next, x)
<1>1. /\ plan[i] # <<>> /\ UNCHANGED <<items, edit>>
      /\ issued < MaxItems /\ issued' = x
      /\ ~IsAwaited(i, next.list, ImportCode(next.label, x))
      /\ Holders(next.list, ImportCode(next.label, x)) = {}
      /\ made' = [made EXCEPT ![i] =
           [y \in DOMAIN made[i] \cup {x} |-> IF y = x THEN new ELSE made[i][y]]]
  BY DEF Inserted, InsertItem
<1>2. /\ next \in PlanRows /\ next = plan[i][1] /\ 1 \in DOMAIN plan[i]
  BY <1>1, TailIsSound DEF PlanIsSound
<1>3. /\ new \in ItemRows /\ ~new.hand /\ new.list = next.list /\ new.code = next.label
      /\ new.code # "own" /\ ImportCode(next.label, x) = next.label
  BY <1>2, InsertedIsSound DEF ImportCode
<1>4. /\ made'[i] = [y \in DOMAIN made[i] \cup {x} |-> IF y = x THEN new ELSE made[i][y]]
      /\ \A j \in Importers \ {i} : made'[j] = made[j]
  BY <1>1 DEF FilesAreFilledIn, AreThere
<1>5. /\ issued \in Nat /\ MaxItems \in Nat /\ x \in Items /\ x \in Nat /\ x # 0
  BY <1>1, ReferenceAssumption DEF RowsAreApart, NumbersAreApart, Items
<1>6. /\ \A y \in Items : items[y] # NoItem => y # x
      /\ \A j \in Importers : x \notin DOMAIN made[j]
  BY <1>5 DEF RowsAreApart, NumbersAreApart
<1>7. \A y \in 1..issued : y \in 1..x /\ y # x /\ y \in Items
  BY <1>1, <1>5 DEF Items
<1>8. \A y \in Items : y <= issued => y <= x
  BY <1>5 DEF Items
<1> HIDE DEF new, next, x
<1>9. /\ DOMAIN made'[i] = DOMAIN made[i] \cup {x} /\ made'[i][x] = new
      /\ \A y \in DOMAIN made[i] : made'[i][y] = made[i][y]
  BY <1>4, <1>6
<1>10. \A j \in Importers : \A y : y \in DOMAIN made'[j] => y \in DOMAIN made[j] \/ (j = i /\ y = x)
  BY <1>4, <1>9
<1>11. NumbersAreApart'
  <2>1. issued' \in 0..MaxItems
    BY <1>1, <1>5 DEF Items
  <2>2. \A y \in Items : items'[y] # NoItem => y <= issued'
    BY <1>1, <1>8 DEF RowsAreApart, NumbersAreApart
  <2>3. ASSUME NEW j \in Importers, NEW y \in DOMAIN made'[j]
        PROVE  /\ y \in 1..issued' /\ items'[y] = NoItem
               /\ \A k \in Importers \ {j} : y \notin DOMAIN made'[k]
    <3>1. CASE y \in DOMAIN made[j]
      <4>1. /\ y \in 1..issued /\ items[y] = NoItem
            /\ \A k \in Importers \ {j} : y \notin DOMAIN made[k]
        BY <3>1 DEF RowsAreApart, NumbersAreApart
      <4> QED
        BY <1>1, <1>7, <1>10, <4>1
    <3>2. CASE j = i /\ y = x
      <4>1. x \in 1..x
        BY <1>5
      <4>2. \A k \in Importers \ {i} : x \notin DOMAIN made'[k]
        BY <1>4, <1>6
      <4> QED
        BY <1>1, <1>5, <1>6, <3>2, <4>1, <4>2
    <3> QED
      BY <1>10, <3>1, <3>2
  <2>4. ASSUME NEW e \in Editors, ItemEdit(e)
        PROVE  /\ edit[e] \in ItemEdits
               /\ edit[e].does # "create" => items[edit[e].id] # NoItem
               /\ edit[e].does = "create" =>
                    /\ edit[e].id <= x /\ items[edit[e].id] = NoItem
                    /\ \A j \in Importers : edit[e].id \notin DOMAIN made'[j]
                    /\ \A d \in Editors \ {e} : ItemEdit(d) => edit[d].id # edit[e].id
    <3>1. /\ edit[e] \in ItemEdits
          /\ edit[e].does # "create" => items[edit[e].id] # NoItem
          /\ edit[e].does = "create" =>
               /\ edit[e].id <= issued /\ items[edit[e].id] = NoItem
               /\ \A j \in Importers : edit[e].id \notin DOMAIN made[j]
               /\ \A d \in Editors \ {e} : ItemEdit(d) => edit[d].id # edit[e].id
      BY <2>4 DEF RowsAreApart, NumbersAreApart, ItemEdit
    <3>2. edit[e].id \in Items
      BY <3>1 DEF ItemEdits
    <3>3. edit[e].id <= issued => edit[e].id <= x /\ edit[e].id # x
      BY <1>5, <3>2 DEF Items, x
    <3> QED
      BY <1>10, <3>1, <3>2, <3>3
  <2> QED
    BY <1>1, <2>1, <2>2, <2>3, <2>4 DEF RowsAreApart, NumbersAreApart, ItemEdit
<1>12. \A y, r : IsRow(y, r)' => IsRow(y, r) \/ (y = x /\ r = new)
  <2> SUFFICES ASSUME NEW y, NEW r, IsRow(y, r)' PROVE IsRow(y, r) \/ (y = x /\ r = new)
    OBVIOUS
  <2>1. CASE y \in Items /\ items'[y] = r
    BY <1>1, <2>1 DEF IsRow
  <2>2. ASSUME NEW j \in Importers, y \in DOMAIN made'[j], made'[j][y] = r
        PROVE  IsRow(y, r) \/ (y = x /\ r = new)
    <3>1. CASE j = i
      BY <1>9, <2>2, <3>1 DEF IsRow
    <3>2. CASE j # i
      BY <1>4, <2>2, <3>2 DEF IsRow
    <3> QED
      BY <3>1, <3>2
  <2> QED
    BY <2>1, <2>2 DEF IsRow
<1>13. ASSUME NEW y \in Items, NEW s \in ItemRows, IsRow(y, s)
       PROVE  s.list # new.list \/ s.code # new.code
  <2>1. CASE items[y] = s
    <3>1. y \notin Holders(next.list, next.label)
      BY <1>1, <1>3
    <3>2. s.state # "none"
      BY DEF ItemRows
    <3> QED
      BY <1>3, <2>1, <3>1, <3>2 DEF Holders
  <2>2. CASE y \in DOMAIN made[i] /\ made[i][y] = s
    BY <1>2, <1>3, <2>2 DEF PlanIsSound
  <2>3. ASSUME NEW j \in Importers \ {i}, y \in DOMAIN made[j], made[j][y] = s
        PROVE  s.list # new.list \/ s.code # new.code
    BY <1>1, <1>3, <2>3 DEF IsAwaited
  <2> QED
    BY <1>13, <2>1, <2>2, <2>3 DEF IsRow
<1>14. ASSUME NEW r \in ItemRows, NEW s \in ItemRows, NEW y \in Items, NEW z \in Items,
              y # z, IsRow(y, r)', IsRow(z, s)', r.list = s.list, r.code = s.code
       PROVE  r.code = "own"
  <2>1. CASE IsRow(y, r) /\ IsRow(z, s)
    BY <1>14, <2>1 DEF RowsAreApart, CodesAreApart
  <2>2. CASE y = x /\ r = new
    <3>1. IsRow(z, s)
      BY <1>12, <1>14, <2>2
    <3> QED
      BY <1>13, <1>14, <2>2, <3>1
  <2>3. CASE z = x /\ s = new
    <3>1. IsRow(y, r)
      BY <1>12, <1>14, <2>3
    <3> QED
      BY <1>13, <1>14, <2>3, <3>1
  <2> QED
    BY <1>12, <1>14, <2>1, <2>2, <2>3
<1>15. CodesAreApart'
  BY <1>1, <1>14 DEF RowsAreApart, CodesAreApart
<1> QED
  BY <1>11, <1>15 DEF RowsAreApart

\* The commit of an import makes its rows those of all.
LEMMA CommitImportIsApart ==
  ASSUME FilesAreFilledIn, RowsAreApart, NEW i \in Importers, PlanIsSound(i), CommitImport(i)
  PROVE  RowsAreApart'
<1>1. /\ items' = [x \in Items |-> RowOf(i, x)] /\ UNCHANGED <<issued, edit>>
      /\ made'[i] = Nothing /\ \A j \in Importers \ {i} : made'[j] = made[j]
  BY DEF CommitImport, Rest, FilesAreFilledIn, AreThere
<1>2. \A x \in Items : items'[x] = IF x \in DOMAIN made[i] THEN made[i][x] ELSE items[x]
  BY <1>1 DEF RowOf
<1>3. \A x \in DOMAIN made[i] : made[i][x] \in ItemRows /\ made[i][x].code = Normal[made[i][x].label]
  BY DEF PlanIsSound
<1>4. \A j \in Importers : \A x \in DOMAIN made'[j] :
        j # i /\ x \in DOMAIN made[j] /\ made'[j][x] = made[j][x]
  BY <1>1, NothingIsEmpty
<1>5. \A x \in DOMAIN made[i] : x <= issued
  BY ReferenceAssumption DEF RowsAreApart, NumbersAreApart
<1>6. NumbersAreApart'
  <2>1. items' \in [Items -> ItemRows \cup {NoItem}]
    BY <1>1, <1>2, <1>3 DEF RowsAreApart, NumbersAreApart
  <2>2. \A x \in Items : items'[x] # NoItem => x <= issued'
    BY <1>1, <1>2, <1>5 DEF RowsAreApart, NumbersAreApart
  <2>3. ASSUME NEW j \in Importers, NEW x \in DOMAIN made'[j]
        PROVE  /\ x \in 1..issued' /\ items'[x] = NoItem
               /\ \A k \in Importers \ {j} : x \notin DOMAIN made'[k]
    <3>1. /\ x \in DOMAIN made[j] /\ j # i /\ x \in 1..issued /\ items[x] = NoItem
          /\ \A k \in Importers \ {j} : x \notin DOMAIN made[k]
      BY <1>4 DEF RowsAreApart, NumbersAreApart
    <3>2. x \in Items
      BY <3>1, ReferenceAssumption DEF RowsAreApart, NumbersAreApart, Items
    <3> QED
      BY <1>1, <1>2, <1>4, <3>1, <3>2
  <2>4. ASSUME NEW e \in Editors, ItemEdit(e)
        PROVE  /\ edit[e].does # "create" => items'[edit[e].id] # NoItem
               /\ edit[e].does = "create" =>
                    /\ items'[edit[e].id] = NoItem
                    /\ \A j \in Importers : edit[e].id \notin DOMAIN made'[j]
    <3>1. edit[e] \in ItemEdits /\ edit[e].id \in Items
      BY <2>4 DEF RowsAreApart, NumbersAreApart, ItemEdit, ItemEdits
    <3>2. /\ edit[e].does # "create" => items[edit[e].id] # NoItem
          /\ edit[e].does = "create" =>
               /\ items[edit[e].id] = NoItem
               /\ \A j \in Importers : edit[e].id \notin DOMAIN made[j]
      BY <2>4 DEF RowsAreApart, NumbersAreApart, ItemEdit
    <3> QED
      BY <1>2, <1>3, <1>4, <3>1, <3>2, NoItemIsNoRow
  <2> QED
    BY <1>1, <2>1, <2>2, <2>3, <2>4 DEF RowsAreApart, NumbersAreApart, ItemEdit
<1>7. \A x \in Items, r \in ItemRows : IsRow(x, r)' => IsRow(x, r)
  BY <1>2, <1>4 DEF IsRow
<1>8. \A x \in Items : items'[x] # NoItem /\ ~items'[x].hand => items'[x].code = Normal[items'[x].label]
  BY <1>2, <1>3 DEF RowsAreApart, CodesAreApart
<1> QED
  BY <1>6, <1>7, <1>8, CodesStayApart DEF RowsAreApart

-----------------------------------------------------------------------------
(* Imports: every step *)

\* Beginning an edit of an item, by a user or by a guest of an edit link
LEMMA BegunItemIsApart ==
  ASSUME RowsAreApart, NEW e \in Editors, NEW w,
         CreatesItem(e, w) \/ UpdatesItem(e, w) \/ ArchivesItem(e, w), made' = made
  PROVE  RowsAreApart'
<1>1. CASE CreatesItem(e, w)
  <2>1. PICK l \in Lists, label \in Spellings, parent \in 0..MaxItems :
          /\ issued < MaxItems /\ issued' = issued + 1
          /\ Begins(e, [table |-> "item", id |-> issued + 1, does |-> "create",
                        row |-> NewItem(l, label, "own", parent, TRUE)])
    BY <1>1 DEF CreatesItem
  <2> DEFINE what == [table |-> "item", id |-> issued + 1, does |-> "create",
                      row |-> NewItem(l, label, "own", parent, TRUE)]
  <2>2. what \in ItemEdits /\ what.does = "create" /\ what.id = issued + 1
    <3>1. issued + 1 \in Items
      BY <2>1, ReferenceAssumption DEF RowsAreApart, NumbersAreApart, Items
    <3>2. /\ NewItem(l, label, "own", parent, TRUE) \in ItemRows
          /\ NewItem(l, label, "own", parent, TRUE).hand
          /\ NewItem(l, label, "own", parent, TRUE).code = "own"
      BY DEF NewItem, ItemRows
    <3> HIDE DEF NewItem
    <3> QED
      BY <3>1, <3>2 DEF ItemEdits
  <2>3. edit[e] = NoEdit /\ edit' = [edit EXCEPT ![e] = what] /\ items' = items
    BY <2>1 DEF Begins
  <2> HIDE DEF what
  <2> QED
    BY <2>1, <2>2, <2>3, EditOfItemIsApart
<1>2. CASE UpdatesItem(e, w)
  <2>1. PICK x \in Items, label \in Spellings :
          /\ items[x].state = "active" /\ issued' = issued
          /\ Begins(e, [table |-> "item", id |-> x, does |-> "update", label |-> label])
    BY <1>2 DEF UpdatesItem
  <2> DEFINE what == [table |-> "item", id |-> x, does |-> "update", label |-> label]
  <2>2. what \in ItemEdits /\ what.does # "create" /\ items[what.id] # NoItem
    BY <2>1 DEF ItemEdits, NoItem
  <2>3. edit[e] = NoEdit /\ edit' = [edit EXCEPT ![e] = what] /\ items' = items
    BY <2>1 DEF Begins
  <2> HIDE DEF what
  <2> QED
    BY <2>1, <2>2, <2>3, EditOfItemIsApart
<1>3. CASE ArchivesItem(e, w)
  <2>1. PICK x \in Items :
          /\ items[x].state = "active" /\ issued' = issued
          /\ Begins(e, [table |-> "item", id |-> x, does |-> "archive"])
    BY <1>3 DEF ArchivesItem
  <2> DEFINE what == [table |-> "item", id |-> x, does |-> "archive"]
  <2>2. what \in ItemEdits /\ what.does # "create" /\ items[what.id] # NoItem
    BY <2>1 DEF ItemEdits, NoItem
  <2>3. edit[e] = NoEdit /\ edit' = [edit EXCEPT ![e] = what] /\ items' = items
    BY <2>1 DEF Begins
  <2> HIDE DEF what
  <2> QED
    BY <2>1, <2>2, <2>3, EditOfItemIsApart
<1> QED
  BY <1>1, <1>2, <1>3

\* Beginning an edit of a list
LEMMA BegunListIsApart ==
  ASSUME RowsAreApart, NEW e \in Editors, made' = made,
         \/ BeginCreateList(e) \/ BeginPublicList(e) \/ BeginUpdateList(e)
         \/ BeginArchiveList(e) \/ BeginArchivePublicList(e)
  PROVE  RowsAreApart'
<1>1. PICK what : Begins(e, what) /\ what.table = "list" /\ issued' = issued
  <2>1. CASE BeginCreateList(e)
    BY <2>1 DEF BeginCreateList
  <2>2. CASE BeginPublicList(e)
    BY <2>2 DEF BeginPublicList
  <2>3. CASE BeginUpdateList(e)
    BY <2>3 DEF BeginUpdateList
  <2>4. CASE BeginArchiveList(e) \/ BeginArchivePublicList(e)
    BY <2>4 DEF BeginArchiveList, BeginArchivePublicList, ArchivesList
  <2> QED
    BY <2>1, <2>2, <2>3, <2>4
<1>2. /\ DOMAIN edit' = Editors /\ edit'[e].table # "item"
      /\ \A d \in Editors \ {e} : edit'[d] = edit[d]
  BY <1>1 DEF Begins, RowsAreApart, NumbersAreApart
<1>3. \A d \in Editors : ItemEdit(d)' => edit'[d] = edit[d] /\ ItemEdit(d)
  BY <1>2 DEF ItemEdit
<1> QED
  BY <1>1, <1>2, <1>3, SameRowsAreApart DEF Begins

\* Whatever is done with the references
LEMMA ReferencesStayApart ==
  ASSUME RowsAreApart, RefNext, made' = made
  PROVE  RowsAreApart'
<1>1. ASSUME NEW e \in Editors,
             \/ BeginCreateItem(e) \/ BeginUpdateItem(e) \/ BeginArchiveItem(e)
             \/ BeginCreatePublicItem(e) \/ BeginUpdatePublicItem(e) \/ BeginArchivePublicItem(e)
      PROVE  RowsAreApart'
  BY <1>1, BegunItemIsApart DEF BeginCreateItem, BeginUpdateItem, BeginArchiveItem,
     BeginCreatePublicItem, BeginUpdatePublicItem, BeginArchivePublicItem
<1>2. ASSUME NEW e \in Editors,
             \/ BeginCreateList(e) \/ BeginPublicList(e) \/ BeginUpdateList(e)
             \/ BeginArchiveList(e) \/ BeginArchivePublicList(e)
      PROVE  RowsAreApart'
  BY <1>2, BegunListIsApart
<1>3. ASSUME NEW e \in Editors, CommitItem(e)
      PROVE  RowsAreApart'
  BY <1>3, CommitItemIsApart
<1>4. ASSUME NEW e \in Editors, CommitList(e) \/ RollBackEdit(e)
      PROVE  RowsAreApart'
  <2>1. UNCHANGED <<items, issued>> /\ edit' = [edit EXCEPT ![e] = NoEdit]
    BY <1>4 DEF CommitList, RollBackEdit
  <2>2. DOMAIN edit' = Editors /\ \A d \in Editors : ItemEdit(d)' => edit'[d] = edit[d] /\ ItemEdit(d)
    BY <2>1 DEF ItemEdit, RowsAreApart, NumbersAreApart
  <2> QED
    BY <2>1, <2>2, SameRowsAreApart
<1>5. CASE CreateEditLink \/ EndEditLink
  <2>1. UNCHANGED <<items, issued, edit>>
    BY <1>5 DEF CreateEditLink, EndEditLink
  <2>2. DOMAIN edit' = Editors /\ \A d \in Editors : ItemEdit(d)' => edit'[d] = edit[d] /\ ItemEdit(d)
    BY <2>1 DEF ItemEdit, RowsAreApart, NumbersAreApart
  <2> QED
    BY <2>1, <2>2, SameRowsAreApart
<1> QED
  BY <1>1, <1>2, <1>3, <1>4, <1>5 DEF RefNext

\* Whatever an import does
LEMMA ImportsStayApart ==
  ASSUME FilesAreFilledIn, RowsAreApart, NEW i \in Importers, PlanIsSound(i), ImportStep(i)
  PROVE  RowsAreApart'
<1>1. CASE InsertItem(i)
  BY <1>1, InsertIsApart
<1>2. CASE CommitImport(i)
  BY <1>2, CommitImportIsApart
<1>3. CASE ~InsertItem(i) /\ ~CommitImport(i)
  <2>1. UNCHANGED <<items, issued, edit>>
    BY <1>3 DEF ImportStep, Download, Export, Discard, StartImport, Reread, ReuseItem, WriteCards,
       RollBackImport, refVars
  <2>2. \A j \in Importers : made'[j] = made[j] \/ made'[j] = Nothing
    BY <1>3 DEF ImportStep, Download, Export, Discard, StartImport, Reread, ReuseItem, WriteCards,
       RollBackImport, Rest, FilesAreFilledIn, AreThere
  <2>3. DOMAIN edit' = Editors /\ \A d \in Editors : ItemEdit(d)' => edit'[d] = edit[d] /\ ItemEdit(d)
    BY <2>1 DEF ItemEdit, RowsAreApart, NumbersAreApart
  <2> QED
    BY <2>1, <2>2, <2>3, SameRowsAreApart
<1> QED
  BY <1>1, <1>2, <1>3

\* Steps of users of the references, of the schema, and of none
LEMMA OthersKeepItemsSound ==
  ASSUME ItemsAreSound, RowsAreApart', fields' \subseteq fields, open' \subseteq open,
         UNCHANGED <<file, pc, picked, plan, made, written>>
  PROVE  ItemsAreSound'
<1>1. FilesAreFilledIn'
  BY DEF ItemsAreSound, FilesAreFilledIn, FilledIn, AreThere
<1>2. \A i \in Importers : PlanIsSound(i)'
  BY KeptPlanIsSound DEF ItemsAreSound
<1> QED
  BY <1>1, <1>2 DEF ItemsAreSound, RowsAreApart

\* Files, plans, numbers and codes, after each step
LEMMA ItemsStaySound ==
  ASSUME ItemsAreSound, [ImportNext]_<<refVars, importVars>>
  PROVE  ItemsAreSound'
<1> RowsAreApart /\ FilesAreFilledIn /\ \A i \in Importers : PlanIsSound(i)
  BY DEF ItemsAreSound, RowsAreApart
<1>1. ASSUME NEW i \in Importers, ImportStep(i)
      PROVE  ItemsAreSound'
  <2>1. FilesAreFilledIn' /\ RowsAreApart' /\ PlanIsSound(i)'
    BY <1>1, FilesStayFilledIn, ImportsStayApart, PlansStaySound
  <2>2. \A j \in Importers \ {i} : PlanIsSound(j)'
    BY <1>1, OthersAreKept, KeptPlanIsSound DEF FilesAreFilledIn, Keeps
  <2> QED
    BY <2>1, <2>2 DEF ItemsAreSound, RowsAreApart
<1>2. CASE RefNext /\ UNCHANGED <<schemaOfImport, cards, file, pc, cache, picked, plan, made,
                                  written, imports>>
  <2>1. RowsAreApart'
    BY <1>2, ReferencesStayApart
  <2> QED
    BY <1>2, <2>1, OthersKeepItemsSound DEF schemaOfImport
<1>3. CASE Meanwhile \/ UNCHANGED <<refVars, importVars>>
  <2>1. /\ fields' \subseteq fields /\ open' \subseteq open
        /\ UNCHANGED <<items, issued, edit, file, pc, picked, plan, made, written>>
    BY <1>3 DEF Meanwhile, refVars, importVars, schemaOfImport
  <2>2. DOMAIN edit' = Editors /\ \A d \in Editors : ItemEdit(d)' => edit'[d] = edit[d] /\ ItemEdit(d)
    BY <2>1 DEF ItemEdit, RowsAreApart, NumbersAreApart
  <2>3. RowsAreApart'
    BY <2>1, <2>2, SameRowsAreApart
  <2> QED
    BY <2>1, <2>3, OthersKeepItemsSound
<1> QED
  BY <1>1, <1>2, <1>3 DEF ImportNext

\* Items there may be before any import: those of an import stand for their
\* labels, and no list has a code of a label twice.
SoundRows(rows) ==
  /\ rows \in Seq(ItemRows) /\ Len(rows) <= MaxItems
  /\ \A n \in DOMAIN rows : ~rows[n].hand => rows[n].code = Normal[rows[n].label]
  /\ \A m, n \in DOMAIN rows :
       m # n /\ rows[m].list = rows[n].list /\ rows[m].code = rows[n].code => rows[m].code = "own"

\* They are sound before any import, if the items there are.
LEMMA ItemsStartSound ==
  ASSUME NEW given, NEW rows, NEW opened, SoundRows(rows),
         RefInit(given, rows, opened), ImportInit
  PROVE  ItemsAreSound
<1>1. FilesAreFilledIn
  BY DEF ImportInit, FilesAreFilledIn, AreThere
<1>2. \A i \in Importers : PlanIsSound(i)
  BY NothingIsEmpty DEF ImportInit, PlanIsSound
<1>3. /\ Len(rows) \in Nat /\ DOMAIN rows = 1..Len(rows) /\ \A n \in DOMAIN rows : rows[n] \in ItemRows
      /\ Len(rows) <= MaxItems
  BY DEF SoundRows
<1>4. \A x \in Items : items[x] = IF x \in DOMAIN rows THEN rows[x] ELSE NoItem
  BY DEF RefInit
<1>5. NumbersAreApart
  <2>1. issued \in 0..MaxItems
    BY <1>3, ReferenceAssumption DEF RefInit
  <2>2. items \in [Items -> ItemRows \cup {NoItem}]
    BY <1>3 DEF RefInit
  <2>3. \A x \in Items : items[x] # NoItem => x <= issued
    BY <1>3, <1>4 DEF RefInit, Items
  <2>4. \A i \in Importers : DOMAIN made[i] = {}
    BY NothingIsEmpty DEF ImportInit
  <2>5. DOMAIN edit = Editors /\ \A e \in Editors : edit[e] = NoEdit
    BY DEF RefInit
  <2> QED
    BY <2>1, <2>2, <2>3, <2>4, <2>5 DEF NumbersAreApart
<1>6. \A x \in Items, r \in ItemRows : IsRow(x, r) => x \in DOMAIN rows /\ rows[x] = r
  BY <1>4, NothingIsEmpty, NoItemIsNoRow DEF IsRow, ImportInit
<1>7. CodesAreApart
  BY <1>4, <1>6 DEF CodesAreApart, SoundRows
<1> QED
  BY <1>1, <1>2, <1>5, <1>7 DEF ItemsAreSound

\* services/import_export.py: numbers, plans and codes, while imports and
\* edits of the references run beside each other.
THEOREM ItemsAreSoundThroughout ==
  ASSUME NEW given, NEW rows, NEW opened, SoundRows(rows)
  PROVE  ImportSpec(given, rows, opened) => []ItemsAreSound
<1>1. RefInit(given, rows, opened) /\ ImportInit => ItemsAreSound
  BY ItemsStartSound
<1>2. ItemsAreSound /\ [ImportNext]_<<refVars, importVars>> => ItemsAreSound'
  BY ItemsStaySound
<1> QED
  BY <1>1, <1>2, PTL DEF ImportSpec

\* However imports run beside each other, no two of the items they add to a
\* list stand for one label.
THEOREM ItemsStandForLabels ==
  ASSUME NEW given, NEW rows, NEW opened, SoundRows(rows)
  PROVE  ImportSpec(given, rows, opened) => []OneItemPerLabel
<1>1. ItemsAreSound => OneItemPerLabel
  <2> SUFFICES ASSUME ItemsAreSound, NEW x \in Items, NEW y \in Items,
                      x # y, items[x].state = "active", items[y].state = "active",
                      items[x].list = items[y].list, ~items[x].hand, ~items[y].hand,
                      Normal[items[x].label] = Normal[items[y].label]
               PROVE  FALSE
    BY DEF OneItemPerLabel
  <2>1. items[x] \in ItemRows /\ items[y] \in ItemRows /\ items[x] # NoItem /\ items[y] # NoItem
    BY DEF ItemsAreSound, NumbersAreApart, NoItem
  <2>2. items[x].code = Normal[items[x].label] /\ items[y].code = Normal[items[y].label]
    BY <2>1 DEF ItemsAreSound, CodesAreApart
  <2>3. items[x].code # "own"
    BY <2>1, <2>2, ReferenceAssumption DEF ItemRows
  <2> QED
    BY <2>1, <2>2, <2>3 DEF ItemsAreSound, CodesAreApart, IsRow
<1> QED
  BY <1>1, ItemsAreSoundThroughout, PTL

-----------------------------------------------------------------------------
(* Imports: the list a card chooses from *)

\* A set of numbers has a least one: the initial segments below them are
\* finite, and strict inclusion of finite sets is well founded.
LEMMA LeastOfNumbers ==
  ASSUME NEW S \in SUBSET Nat, S # {}
  PROVE  \E n \in S : \A m \in S : n <= m
<1> DEFINE T == {1..n : n \in S}
           R == StrictSubsetOrdering(Nat)
<1>1. T \subseteq FiniteSubsetsOf(Nat)
  <2>1. \A n \in Nat : IsFiniteSet(1..n) /\ 1..n \subseteq Nat
    BY FS_Interval
  <2> QED
    BY <2>1 DEF FiniteSubsetsOf
<1>2. T # {}
  OBVIOUS
<1>3. IsWellFoundedOn(R, FiniteSubsetsOf(Nat))
  BY FS_StrictSubsetOrderingWellFounded
<1>4. PICK s \in T : \A t \in T : <<t, s>> \notin R
  <2> HIDE DEF T, R
  <2> QED
    BY <1>1, <1>2, <1>3, WFMin
<1>5. PICK n \in S : s = 1..n
  OBVIOUS
<1>6. ASSUME NEW m \in S, ~(n <= m) PROVE FALSE
  <2>1. 1..m \in T /\ 1..m \subseteq 1..n /\ n \in 1..n /\ n \notin 1..m
    BY <1>6
  <2>2. <<1..m, 1..n>> \in R
    BY <2>1 DEF StrictSubsetOrdering
  <2> QED
    BY <1>4, <1>5, <2>1, <2>2
<1> QED
  BY <1>6

\* The lists a list is inherited from stand nearest: none is nearer.
LEMMA InheritedIsNearest ==
  ASSUME NEW base, NEW org \in Orgs
  PROVE  IF \E n \in DOMAIN Above[org] : \E l \in OwnLists(base, Above[org][n]) : lists[l].inherits
         THEN \E d \in DOMAIN Above[org] :
                /\ InheritedLists(base, org) =
                     {l \in OwnLists(base, Above[org][d]) : lists[l].inherits}
                /\ InheritedLists(base, org) # {}
                /\ \A n \in DOMAIN Above[org] :
                     (\E l \in OwnLists(base, Above[org][n]) : lists[l].inherits) => d <= n
         ELSE InheritedLists(base, org) = {}
<1> DEFINE from(n) == {l \in OwnLists(base, Above[org][n]) : lists[l].inherits}
           depths == {n \in DOMAIN Above[org] : from(n) # {}}
           least == CHOOSE n \in depths : \A m \in depths : n <= m
<1>1. InheritedLists(base, org) = IF depths = {} THEN {} ELSE from(least)
  BY DEF InheritedLists
<1>2. depths \subseteq DOMAIN Above[org] /\ \A n \in DOMAIN Above[org] : n \in depths <=> from(n) # {}
  OBVIOUS
<1>3. depths \in SUBSET Nat
  <2>1. Above[org] \in Seq(Orgs)
    BY ReferenceAssumption
  <2>2. DOMAIN Above[org] = 1..Len(Above[org]) /\ Len(Above[org]) \in Nat
    BY <2>1
  <2> QED
    BY <1>2, <2>2
<1>4. depths # {} => least \in depths /\ \A m \in depths : least <= m
  <2> HIDE DEF depths
  <2> QED
    BY <1>3, LeastOfNumbers
<1> HIDE DEF depths, least
<1> QED
  BY <1>1, <1>2, <1>4

\* resolve_effective_reference_list_for_field finds the list that is right for
\* the organization of a card.
LEMMA EffectiveIsProper ==
  ASSUME NEW f \in Fields, Choice(f), NEW org \in Orgs
  PROVE  Effective(Source[f], f \in Aware, org) \in Proper(f, org)
<1> DEFINE base == Source[f]
           path == <<org>> \o Above[org]
           reach(l) == {n \in DOMAIN path : path[n] = lists[l].owner /\ (n = 1 \/ lists[l].inherits)}
           near == {l \in Lists : /\ ListIsActive(l) /\ CodeOf[l] = CodeOf[base] /\ reach(l) # {}}
           found == Effective(base, f \in Aware, org)
           inherited(n) == \E l \in OwnLists(base, Above[org][n]) : lists[l].inherits
<1>1. base \in Lists
  BY ImportAssumption DEF Choice
<1>2. Proper(f, org) = IF f \notin Aware \/ near = {} THEN {base}
                       ELSE {l \in near : \A m \in near : \A n \in reach(m) : \E k \in reach(l) : k <= n}
  BY DEF Proper
<1>3. CASE f \notin Aware
  BY <1>2, <1>3 DEF Effective
<1>4. CASE f \in Aware
  <2>1. found = CHOOSE l \in Lists :
                  IF OwnLists(base, org) # {} THEN l \in OwnLists(base, org)
                  ELSE IF InheritedLists(base, org) # {} THEN l \in InheritedLists(base, org)
                  ELSE l = base
    BY <1>4 DEF Effective
  <2>2. OwnLists(base, org) \subseteq Lists /\ InheritedLists(base, org) \subseteq Lists
    <3>1. OwnLists(base, org) \subseteq Lists
      BY DEF OwnLists
    <3>2. InheritedLists(base, org) \subseteq Lists
      BY InheritedIsNearest DEF OwnLists
    <3> QED BY <3>1, <3>2
  <2>3. /\ found \in Lists
        /\ IF OwnLists(base, org) # {} THEN found \in OwnLists(base, org)
           ELSE IF InheritedLists(base, org) # {} THEN found \in InheritedLists(base, org)
           ELSE found = base
    <3> HIDE DEF base, found
    <3> QED
      BY <1>1, <2>1, <2>2
  <2>4. /\ Len(Above[org]) \in Nat /\ DOMAIN Above[org] = 1..Len(Above[org])
        /\ DOMAIN path = 1..(Len(Above[org]) + 1) /\ path[1] = org
        /\ \A n \in DOMAIN Above[org] : path[n + 1] = Above[org][n]
    <3>1. Above[org] \in Seq(Orgs) /\ <<org>> \in Seq(Orgs)
      BY ReferenceAssumption
    <3> QED
      BY <3>1
  <2> HIDE DEF path, found
  <2>5. \A l \in Lists : \A n : n \in reach(l) <=>
          n \in DOMAIN path /\ path[n] = lists[l].owner /\ (n = 1 \/ lists[l].inherits)
    OBVIOUS
  <2>6. \A l : l \in near <=> l \in Lists /\ ListIsActive(l) /\ CodeOf[l] = CodeOf[base] /\ reach(l) # {}
    OBVIOUS
  <2> HIDE DEF reach, near
  <2>7. ASSUME NEW m \in near, NEW n \in reach(m)
        PROVE  \/ n = 1 /\ m \in OwnLists(base, org)
               \/ /\ n - 1 \in DOMAIN Above[org] /\ inherited(n - 1) /\ n - 1 \in Nat /\ n \in Nat
    <3>1. /\ n \in 1..(Len(Above[org]) + 1) /\ path[n] = lists[m].owner /\ (n = 1 \/ lists[m].inherits)
          /\ m \in Lists /\ ListIsActive(m) /\ CodeOf[m] = CodeOf[base]
      BY <2>4, <2>5, <2>6, <2>7
    <3>2. CASE n = 1
      BY <2>4, <3>1, <3>2 DEF OwnLists
    <3>3. CASE n # 1
      <4>1. n - 1 \in 1..Len(Above[org]) /\ n = (n - 1) + 1 /\ n \in Nat /\ n - 1 \in Nat
        BY <2>4, <3>1, <3>3
      <4>2. path[n] = Above[org][n - 1]
        BY <2>4, <4>1
      <4>3. m \in OwnLists(base, Above[org][n - 1]) /\ lists[m].inherits
        BY <3>1, <3>3, <4>2 DEF OwnLists
      <4> QED
        BY <2>4, <4>1, <4>3
    <3> QED
      BY <3>2, <3>3
  <2>8. CASE OwnLists(base, org) # {}
    <3>1. /\ ListIsActive(found) /\ CodeOf[found] = CodeOf[base] /\ lists[found].owner = org
      BY <2>3, <2>8 DEF OwnLists
    <3>2. 1 \in reach(found)
      BY <2>3, <2>4, <2>5, <3>1
    <3>3. found \in near
      BY <2>3, <2>6, <3>1, <3>2
    <3>4. \A m \in near : \A n \in reach(m) : 1 <= n
      BY <2>7, <2>4
    <3> QED
      BY <1>2, <1>4, <3>2, <3>3, <3>4 DEF found
  <2>9. CASE OwnLists(base, org) = {} /\ \E n \in DOMAIN Above[org] : inherited(n)
    <3>1. PICK d \in DOMAIN Above[org] :
            /\ InheritedLists(base, org) = {l \in OwnLists(base, Above[org][d]) : lists[l].inherits}
            /\ InheritedLists(base, org) # {}
            /\ \A n \in DOMAIN Above[org] : inherited(n) => d <= n
      BY <2>9, InheritedIsNearest
    <3>2. /\ ListIsActive(found) /\ CodeOf[found] = CodeOf[base]
          /\ lists[found].owner = Above[org][d] /\ lists[found].inherits
      BY <2>3, <2>9, <3>1 DEF OwnLists
    <3>3. d \in 1..Len(Above[org]) /\ d + 1 \in DOMAIN path /\ path[d + 1] = Above[org][d]
      BY <2>4
    <3>4. d + 1 \in reach(found)
      BY <2>3, <2>5, <3>2, <3>3
    <3>5. found \in near
      BY <2>3, <2>6, <3>2, <3>4
    <3>6. ASSUME NEW m \in near, NEW n \in reach(m) PROVE d + 1 <= n
      <4>1. n - 1 \in DOMAIN Above[org] /\ inherited(n - 1) /\ n - 1 \in Nat /\ n \in Nat
        BY <2>7, <2>9
      <4>2. d <= n - 1 /\ d \in Nat
        BY <2>4, <3>1, <3>3, <4>1
      <4> QED
        BY <4>1, <4>2
    <3> QED
      BY <1>2, <1>4, <3>4, <3>5, <3>6 DEF found
  <2>10. CASE OwnLists(base, org) = {} /\ ~\E n \in DOMAIN Above[org] : inherited(n)
    <3>1. found = base
      BY <2>3, <2>10, InheritedIsNearest
    <3>2. \A m \in near : reach(m) # {}
      BY <2>6
    <3>3. near = {}
      BY <2>7, <2>10, <3>2
    <3> QED
      BY <1>2, <3>1, <3>3 DEF found
  <2> QED
    BY <2>8, <2>9, <2>10
<1> QED
  BY <1>3, <1>4

-----------------------------------------------------------------------------
(* Imports: what has been true of the references *)

\* An active item of a list has its label.
LEMMA SeenHasLabel ==
  ASSUME NEW i \in Importers, NEW l \in Lists, NEW x \in Seen(i, l)
  PROVE  <<"label", Normal[RowOf(i, x).label], x>> \in Holding(i)
BY DEF Holding

\* An active item of the proper list may be chosen.
LEMMA ProperIsHeld ==
  ASSUME NEW i \in Importers, NEW f \in Fields, Choice(f), NEW org \in Orgs,
         NEW l \in Proper(f, org), NEW x \in Seen(i, l)
  PROVE  <<"choice", f, org, x>> \in Holding(i)
<1> DEFINE those(g, o) == {<<"choice", g, o, y>> : y \in UNION {Seen(i, k) : k \in Proper(g, o)}}
<1>1. <<"choice", f, org, x>> \in those(f, org)
  OBVIOUS
<1>2. UNION {those(g, o) : g \in {h \in Fields : Choice(h)}, o \in Orgs} \subseteq Holding(i)
  BY DEF Holding
<1> HIDE DEF those
<1> QED
  BY <1>1, <1>2

\* What an import has seen stays seen until it ends.
LEMMA HeldGrows ==
  ASSUME NEW i \in Importers, [ImportNext]_<<refVars, importVars>>, pc[i] # "idle", pc'[i] # "idle"
  PROVE  Held(i) \subseteq Held(i)' /\ (facts' = facts \/ facts'[i] = Held(i))
<1>1. CASE ImportNext
  BY <1>1 DEF ImportNext, Held
<1>2. CASE UNCHANGED <<refVars, importVars>>
  <2>1. UNCHANGED <<lists, items, made, facts>>
    BY <1>2 DEF refVars, importVars
  <2>2. Holding(i)' = Holding(i)
    BY <2>1 DEF Holding, Seen, RowOf, Proper, ListIsActive
  <2> QED
    BY <2>1, <2>2 DEF Held
<1> QED
  BY <1>1, <1>2

-----------------------------------------------------------------------------
(* Imports: filing *)

\* What an import that does nothing has filed
LEMMA KeptFilingIsSound ==
  ASSUME NEW i \in Importers, Keeps(i), PicksAreSound(i), CardsAreFiled(i),
         pc[i] # "idle" => Held(i) \subseteq Held(i)'
  PROVE  PicksAreSound(i)' /\ CardsAreFiled(i)'
<1>1. PicksAreSound(i)'
  BY DEF PicksAreSound, Keeps, TextOf
<1>2. CardsAreFiled(i)'
  BY DEF CardsAreFiled, Keeps
<1> QED
  BY <1>1, <1>2

\* The second reading takes items that have the labels of their cells.
LEMMA RereadPicks ==
  ASSUME ItemsAreSound, NEW i \in Importers, Reread(i), Holding(i) \subseteq Held(i)'
  PROVE  PicksAreSound(i)' /\ CardsAreFiled(i)'
<1>1. /\ pc[i] = "read" /\ pc'[i] = "items" /\ file' = file
      /\ picked'[i] = Picks(i, file[i])
  BY DEF Reread, ItemsAreSound, FilesAreFilledIn, AreThere
<1>2. DOMAIN picked'[i] = ChoiceCells(file[i])
  BY <1>1 DEF Picks
<1>3. \A x : RowOf(i, x) = items[x]
  BY <1>1, NothingIsEmpty DEF RowOf, ItemsAreSound, PlanIsSound
<1>4. ASSUME NEW c \in ChoiceCells(file[i]), picked'[i][c] # 0
      PROVE  <<"label", Normal[TextOf(i, c)], picked'[i][c]>> \in Holding(i)
  <2> DEFINE cell == file[i].rows[c[1]].cells[c[2]]
             named == Named(i, file[i], c[2], cell)
             l == Source[c[2]]
             x == picked'[i][c]
  <2>1. l \in Lists
    BY ImportAssumption DEF ChoiceCells, Choice
  <2>2. picked'[i][c] = IF named = {} THEN 0 ELSE CHOOSE y \in named : TRUE
    BY <1>1 DEF Picks
  <2>3. x \in named
    <3> HIDE DEF named
    <3> QED
      BY <1>4, <2>2
  <2>4. x \in Seen(i, l) /\ Normal[RowOf(i, x).label] = Normal[cell.text]
    <3> HIDE DEF x, l
    <3>1. CASE file[i].strict
      <4>1. x \in ActiveItems(l) /\ Shown(x, l) = cell
        BY <2>3, <3>1 DEF Named, l
      <4>2. Shown(x, l).text = items[x].label
        BY DEF Shown
      <4>3. x \in Items /\ items[x].state = "active" /\ items[x].list = l
        BY <4>1 DEF ActiveItems
      <4> HIDE DEF cell
      <4> QED
        BY <1>3, <4>1, <4>2, <4>3 DEF Seen
    <3>2. CASE ~file[i].strict
      BY <2>3, <3>2 DEF Named, WithLabel, l
    <3> QED BY <3>1, <3>2
  <2>5. <<"label", Normal[RowOf(i, x).label], x>> \in Holding(i)
    BY <2>1, <2>4, SeenHasLabel
  <2> QED
    BY <2>4, <2>5 DEF TextOf
<1> QED
  BY <1>1, <1>2, <1>4 DEF PicksAreSound, CardsAreFiled, TextOf

\* An item is given to the cells that wait for its label.
LEMMA AssignedPicks ==
  ASSUME NEW i \in Importers, PicksAreSound(i), pc[i] = "items", pc'[i] = "items",
         file'[i] = file[i], NEW next \in PlanRows, NEW x,
         picked'[i] = Assigned(i, next, x), Held(i) \subseteq Held(i)',
         <<"label", next.label, x>> \in Held(i)'
  PROVE  PicksAreSound(i)' /\ CardsAreFiled(i)'
<1>1. DOMAIN picked'[i] = ChoiceCells(file[i])
  BY DEF PicksAreSound, Assigned
<1>2. ASSUME NEW c \in DOMAIN picked'[i], picked'[i][c] # 0
      PROVE  <<"label", Normal[TextOf(i, c)], picked'[i][c]>> \in Held(i)'
  <2>1. picked'[i][c] = IF picked[i][c] = 0
                            /\ PlanKey(file[i], c) = [list |-> next.list, label |-> next.label]
                        THEN x ELSE picked[i][c]
    BY DEF Assigned
  <2>2. CASE picked[i][c] = 0
    <3>1. PlanKey(file[i], c) = [list |-> next.list, label |-> next.label] /\ picked'[i][c] = x
      BY <1>2, <2>1, <2>2
    <3>2. Normal[TextOf(i, c)] = next.label
      BY <3>1 DEF PlanKey, TextOf
    <3> QED
      BY <3>1, <3>2
  <2>3. CASE picked[i][c] # 0
    <3>1. picked'[i][c] = picked[i][c]
      BY <2>1, <2>3
    <3> QED
      BY <1>1, <2>3, <3>1 DEF PicksAreSound
  <2> QED
    BY <2>2, <2>3
<1> QED
  BY <1>1, <1>2 DEF PicksAreSound, CardsAreFiled, TextOf

\* The cells that waited for an item an import inserts get it.
LEMMA InsertPicks ==
  ASSUME ItemsAreSound, NEW i \in Importers, InsertItem(i), PicksAreSound(i),
         Held(i) \subseteq Held(i)'
  PROVE  PicksAreSound(i)' /\ CardsAreFiled(i)'
<1> DEFINE next == Head(plan[i])
           x == issued + 1
           new == Inserted(next, x)
<1>1. /\ pc[i] = "items" /\ plan[i] # <<>> /\ UNCHANGED <<file, pc>> /\ issued < MaxItems
      /\ picked'[i] = Assigned(i, next, x)
      /\ made'[i] = [y \in DOMAIN made[i] \cup {x} |-> IF y = x THEN new ELSE made[i][y]]
  BY DEF Inserted, InsertItem, ItemsAreSound, FilesAreFilledIn, AreThere
<1>2. next \in PlanRows
  BY <1>1, TailIsSound DEF ItemsAreSound, PlanIsSound
<1>3. /\ new.state = "active" /\ new.list = next.list /\ next.list \in Lists
      /\ Normal[new.label] = next.label
  <2> HIDE DEF next, x
  <2>1. /\ new.state = "active" /\ new.list = next.list
        /\ new.code = next.label /\ new.code = Normal[new.label]
    BY <1>2, InsertedIsSound
  <2> HIDE DEF new
  <2>2. new.state = "active" /\ new.list = next.list /\ Normal[new.label] = next.label
    BY <2>1
  <2>3. next.list \in Lists
    BY <1>2 DEF PlanRows
  <2> QED
    BY <2>2, <2>3
<1>4. x \in Items
  BY <1>1, ReferenceAssumption DEF ItemsAreSound, NumbersAreApart, Items
<1> HIDE DEF next, x, new
<1>5. PICK y : y = x
  OBVIOUS
<1>6. PICK l : l = next.list
  OBVIOUS
<1>7. RowOf(i, y)' = new
  BY <1>1, <1>5 DEF RowOf
<1>8. y \in Seen(i, l)'
  BY <1>3, <1>4, <1>5, <1>6, <1>7 DEF Seen
<1>9. <<"label", Normal[RowOf(i, y)'.label], y>> \in Holding(i)'
  BY <1>3, <1>6, <1>8 DEF Holding
<1>10. <<"label", next.label, x>> \in Held(i)'
  BY <1>3, <1>5, <1>7, <1>9 DEF Held
<1> QED
  BY <1>1, <1>2, <1>10, AssignedPicks

\* So do those that wait for one another import has inserted first.
LEMMA ReusePicks ==
  ASSUME ItemsAreSound, NEW i \in Importers, ReuseItem(i), PicksAreSound(i),
         Held(i) \subseteq Held(i)'
  PROVE  PicksAreSound(i)' /\ CardsAreFiled(i)'
<1> DEFINE next == Head(plan[i])
           again == WithLabel(i, next.list, next.label)
           x == CHOOSE y \in again : TRUE
<1>1. /\ pc[i] = "items" /\ plan[i] # <<>> /\ UNCHANGED <<file, pc>>
      /\ picked'[i] = Assigned(i, next, x) /\ Cardinality(again) = 1
  BY DEF ReuseItem, ItemsAreSound, FilesAreFilledIn, AreThere
<1>2. next \in PlanRows /\ next.list \in Lists
  BY <1>1, TailIsSound DEF ItemsAreSound, PlanIsSound, PlanRows
<1>3. x \in again
  <2>1. Cardinality(again) = 1 /\ Cardinality({}) = 0
    BY <1>1, FS_EmptySet
  <2> HIDE DEF again
  <2>2. again # {}
    BY <2>1
  <2> QED
    BY <2>2
<1> HIDE DEF next, x
<1>4. x \in Seen(i, next.list) /\ Normal[RowOf(i, x).label] = next.label
  BY <1>3 DEF WithLabel
<1>5. <<"label", next.label, x>> \in Held(i)'
  BY <1>2, <1>4, SeenHasLabel DEF Held
<1> QED
  BY <1>1, <1>2, <1>5, AssignedPicks

\* Each row of the file becomes a card that has what its cells name.
LEMMA CardsAreWritten ==
  ASSUME ItemsAreSound, NEW i \in Importers, WriteCards(i), PicksAreSound(i),
         Held(i) \subseteq Held(i)'
  PROVE  PicksAreSound(i)' /\ CardsAreFiled(i)'
<1> DEFINE wb == file[i]
           card(n) == [import |-> imports, by |-> i, row |-> n, org |-> wb.rows[n].org,
             values |-> [f \in Filled(wb.rows[n]) |-> IF Choice(f) THEN picked[i][<<n, f>>] ELSE 0],
             status |-> StatusOf(wb, cache[i].template, wb.rows[n])]
<1>1. /\ pc[i] = "items" /\ pc'[i] = "cards" /\ UNCHANGED <<file, picked>>
      /\ \A c \in DOMAIN picked[i] : Belongs(i, c[2], wb.rows[c[1]].org, picked[i][c])
      /\ written'[i] = {card(n) : n \in Rows(wb)}
  BY DEF WriteCards, ItemsAreSound, FilesAreFilledIn, AreThere
<1>2. FilledIn(wb)
  BY <1>1 DEF ItemsAreSound, FilesAreFilledIn
<1>3. \A n : /\ card(n).row = n /\ card(n).org = wb.rows[n].org
             /\ card(n).values =
                  [f \in Filled(wb.rows[n]) |-> IF Choice(f) THEN picked[i][<<n, f>>] ELSE 0]
  OBVIOUS
<1>4. PicksAreSound(i)'
  BY <1>1 DEF PicksAreSound, TextOf
<1> HIDE DEF card
<1>5. ASSUME NEW n \in Rows(wb) PROVE Cardinality({c \in written'[i] : c.row = n}) = 1
  <2>1. {c \in written'[i] : c.row = n} = {card(n)}
    BY <1>1, <1>3
  <2> QED
    BY <2>1, FS_Singleton
<1>6. ASSUME NEW n \in Rows(wb), NEW f \in Filled(wb.rows[n]), Choice(f)
      PROVE  /\ <<"choice", f, wb.rows[n].org, picked[i][<<n, f>>]>> \in Held(i)'
             /\ <<"label", Normal[wb.rows[n].cells[f].text], picked[i][<<n, f>>]>> \in Held(i)'
  <2> DEFINE x == picked[i][<<n, f>>]
             l == Effective(Source[f], f \in Aware, wb.rows[n].org)
  <2>1. f \in Fields /\ wb.rows[n].org \in Orgs
    BY <1>2 DEF FilledIn, Rows, Filled
  <2>2. <<n, f>> \in ChoiceCells(wb)
    BY <1>6, <2>1 DEF ChoiceCells
  <2>3. <<n, f>> \in DOMAIN picked[i]
    BY <1>1, <2>2 DEF PicksAreSound
  <2>4. x \in Seen(i, l)
    BY <1>1, <2>3 DEF Belongs
  <2>5. l \in Proper(f, wb.rows[n].org)
    BY <1>6, <2>1, EffectiveIsProper
  <2>6. <<"choice", f, wb.rows[n].org, x>> \in Holding(i)
    BY <1>6, <2>1, <2>4, <2>5, ProperIsHeld
  <2>7. x # 0
    BY <2>4 DEF Seen, Items
  <2>8. <<"label", Normal[TextOf(i, <<n, f>>)], x>> \in Held(i)
    BY <1>1, <2>3, <2>7 DEF PicksAreSound
  <2> QED
    BY <2>6, <2>8 DEF Held, TextOf
<1>7. ASSUME NEW c \in written'[i]
      PROVE  /\ c.row \in Rows(wb) /\ c.org = wb.rows[c.row].org
             /\ DOMAIN c.values = Filled(wb.rows[c.row])
             /\ \A f \in DOMAIN c.values : Choice(f) =>
                  /\ <<"choice", f, c.org, c.values[f]>> \in Held(i)'
                  /\ <<"label", Normal[wb.rows[c.row].cells[f].text], c.values[f]>> \in Held(i)'
  <2>1. PICK n \in Rows(wb) : c = card(n)
    BY <1>1
  <2>2. /\ c.row = n /\ c.org = wb.rows[n].org
        /\ c.values = [f \in Filled(wb.rows[n]) |-> IF Choice(f) THEN picked[i][<<n, f>>] ELSE 0]
    BY <1>3, <2>1
  <2>3. DOMAIN c.values = Filled(wb.rows[n])
        /\ \A f \in Filled(wb.rows[n]) : Choice(f) => c.values[f] = picked[i][<<n, f>>]
    BY <2>2
  <2> QED
    BY <1>6, <2>2, <2>3
<1>8. CardsAreFiled(i)'
  BY <1>1, <1>5, <1>7 DEF CardsAreFiled
<1> QED
  BY <1>4, <1>8

\* A step of the import itself
LEMMA FilingStepIsSound ==
  ASSUME ItemsAreSound, ImportNext, NEW i \in Importers, ImportStep(i),
         PicksAreSound(i), CardsAreFiled(i)
  PROVE  PicksAreSound(i)' /\ CardsAreFiled(i)'
<1>1. CASE Download(i) \/ Export(i) \/ Discard(i)
  <2>1. pc'[i] = "idle"
    BY <1>1 DEF Download, Export, Discard
  <2> QED
    BY <2>1 DEF PicksAreSound, CardsAreFiled
<1>2. CASE StartImport(i) \/ CommitImport(i) \/ RollBackImport(i)
  <2>1. pc'[i] \in {"idle", "read"}
    BY <1>2 DEF StartImport, CommitImport, RollBackImport, Rest,
       ItemsAreSound, FilesAreFilledIn, AreThere
  <2> QED
    BY <2>1 DEF PicksAreSound, CardsAreFiled
<1>3. CASE Reread(i) \/ InsertItem(i) \/ ReuseItem(i) \/ WriteCards(i)
  <2>1. pc[i] # "idle" /\ pc'[i] # "idle"
    BY <1>3 DEF Reread, InsertItem, ReuseItem, WriteCards, ItemsAreSound, FilesAreFilledIn, AreThere
  <2>2. Held(i) \subseteq Held(i)'
    BY <2>1, HeldGrows
  <2>3. Holding(i) \subseteq Held(i)'
    BY <2>2 DEF Held
  <2> QED
    BY <1>3, <2>2, <2>3, RereadPicks, InsertPicks, ReusePicks, CardsAreWritten
<1> QED
  BY <1>1, <1>2, <1>3 DEF ImportStep

\* What is picked and written, after each step
LEMMA FilingStaysSound ==
  ASSUME ItemsAreSound, FilingIsSound, [ImportNext]_<<refVars, importVars>>
  PROVE  FilingIsSound'
<1> SUFFICES ASSUME NEW i \in Importers PROVE PicksAreSound(i)' /\ CardsAreFiled(i)'
  BY DEF FilingIsSound
<1>1. PicksAreSound(i) /\ CardsAreFiled(i)
  BY DEF FilingIsSound
<1>2. CASE Keeps(i)
  <2>1. pc[i] # "idle" => Held(i) \subseteq Held(i)'
    BY <1>2, HeldGrows DEF Keeps
  <2> QED
    BY <1>1, <1>2, <2>1, KeptFilingIsSound
<1>3. CASE ~Keeps(i)
  <2>1. ImportNext /\ \E j \in Importers : ImportStep(j)
    BY <1>3 DEF Keeps, ImportNext, Meanwhile, refVars, importVars
  <2>2. PICK j \in Importers : ImportStep(j)
    BY <2>1
  <2>3. j = i
    BY <1>3, <2>2, OthersAreKept DEF ItemsAreSound, FilesAreFilledIn
  <2> QED
    BY <1>1, <2>1, <2>2, <2>3, FilingStepIsSound
<1> QED
  BY <1>2, <1>3

\* An import makes one card of each row that is filled in, in the organization
\* of the row; each choice is an item that, while the import ran, has been an
\* active item with the label of the cell, and one that field may have in a
\* card of that organization.
THEOREM CardsAreAsFiled ==
  ASSUME NEW given, NEW rows, NEW opened, SoundRows(rows)
  PROVE  ImportSpec(given, rows, opened) => []ImportedAsFiled
<1>1. RefInit(given, rows, opened) /\ ImportInit => FilingIsSound
  BY DEF ImportInit, FilingIsSound, PicksAreSound, CardsAreFiled
<1>2. ItemsAreSound /\ FilingIsSound /\ [ImportNext]_<<refVars, importVars>> => FilingIsSound'
  BY FilingStaysSound
<1>3. FilingIsSound => ImportedAsFiled
  BY DEF FilingIsSound, CardsAreFiled, ImportedAsFiled, Held
<1> QED
  BY <1>1, <1>2, <1>3, ItemsAreSoundThroughout, PTL DEF ImportSpec

-----------------------------------------------------------------------------
(* Experience: the calendar *)

LEMMA LengthIsAMonth == \A k \in Nat : LengthOf(k) \in 28..31
BY DEF LengthOf

\* The leap days there are before a month
LeapsBefore(k) == {y \in FirstYear..FirstYear + k \div 12 :
                     IsLeap(y) /\ (y = FirstYear + k \div 12 => k % 12 > 1)}

LEMMA LeapsAreFinite ==
  \A k \in Nat : IsFiniteSet(LeapsBefore(k)) /\ Cardinality(LeapsBefore(k)) \in Nat
<1> TAKE k \in Nat
<1>1. IsFiniteSet(FirstYear..FirstYear + k \div 12)
  <2>1. FirstYear \in Int /\ FirstYear + k \div 12 \in Int
    BY ExperienceAssumption
  <2> QED
    BY <2>1, FS_Interval
<1>2. LeapsBefore(k) \subseteq FirstYear..FirstYear + k \div 12
  BY DEF LeapsBefore
<1> QED
  BY <1>1, <1>2, FS_Subset, FS_CardinalityType

\* Another leap day follows on February of a leap year, and on no other month.
LEMMA LeapsFollow ==
  ASSUME NEW k \in Nat
  PROVE  Cardinality(LeapsBefore(k + 1)) =
           Cardinality(LeapsBefore(k))
             + (IF k % 12 = 1 /\ IsLeap(FirstYear + k \div 12) THEN 1 ELSE 0)
<1> DEFINE q == k \div 12
           r == k % 12
<1>1. FirstYear \in Nat /\ q \in Nat /\ r \in 0..11 /\ k = 12 * q + r
  BY ExperienceAssumption
<1>2. CASE r = 11
  <2>1. (k + 1) \div 12 = q + 1 /\ (k + 1) % 12 = 0
    BY <1>2
  <2>2. LeapsBefore(k + 1) = LeapsBefore(k)
    <3> HIDE DEF q, r
    <3> QED
      BY <1>1, <1>2, <2>1 DEF LeapsBefore, q, r
  <2> QED
    BY <1>2, <2>2, LeapsAreFinite
<1>3. CASE r # 11
  <2>1. (k + 1) \div 12 = q /\ (k + 1) % 12 = r + 1
    BY <1>3
  <2>2. CASE r = 1 /\ IsLeap(FirstYear + q)
    <3>1. LeapsBefore(k + 1) = LeapsBefore(k) \cup {FirstYear + q} /\ FirstYear + q \notin LeapsBefore(k)
      BY <1>1, <2>1, <2>2 DEF LeapsBefore
    <3> QED
      BY <2>2, <3>1, LeapsAreFinite, FS_AddElement
  <2>3. CASE ~(r = 1 /\ IsLeap(FirstYear + q))
    <3>1. LeapsBefore(k + 1) = LeapsBefore(k)
      BY <1>1, <2>1, <2>3 DEF LeapsBefore
    <3> QED
      BY <2>3, <3>1, LeapsAreFinite
  <2> QED
    BY <2>2, <2>3
<1> QED
  BY <1>2, <1>3

\* Months follow each other.
LEMMA MonthsFollow ==
  ASSUME NEW k \in Nat
  PROVE  StartOf(k) \in Nat /\ StartOf(k + 1) = StartOf(k) + LengthOf(k)
<1> DEFINE q == k \div 12
           r == k % 12
           leaps(j) == Cardinality(LeapsBefore(j))
<1>1. \A j \in Nat : StartOf(j) = 365 * (j \div 12) + DaysBefore[(j % 12) + 1] + leaps(j)
  BY DEF StartOf, LeapsBefore
<1>2. q \in Nat /\ r \in 0..11 /\ leaps(k) \in Nat
  BY LeapsAreFinite
<1>3. leaps(k + 1) = leaps(k) + (IF r = 1 /\ IsLeap(FirstYear + q) THEN 1 ELSE 0)
  BY LeapsFollow
<1>4. StartOf(k) = 365 * q + DaysBefore[r + 1] + leaps(k)
  BY <1>1
<1>5. LengthOf(k) = CASE r \in {3, 5, 8, 10} -> 30
                      [] r = 1 -> IF IsLeap(FirstYear + q) THEN 29 ELSE 28
                      [] OTHER -> 31
  BY DEF LengthOf
<1>6. StartOf(k + 1) = IF r = 11 THEN 365 * (q + 1) + DaysBefore[1] + leaps(k + 1)
                       ELSE 365 * q + DaysBefore[r + 2] + leaps(k + 1)
  <2>1. k + 1 \in Nat /\ IF r = 11 THEN (k + 1) \div 12 = q + 1 /\ (k + 1) % 12 = 0
        ELSE (k + 1) \div 12 = q /\ (k + 1) % 12 = r + 1
    OBVIOUS
  <2>2. StartOf(k + 1) = 365 * ((k + 1) \div 12) + DaysBefore[((k + 1) % 12) + 1] + leaps(k + 1)
    BY <1>1, <2>1
  <2> HIDE DEF leaps, q, r
  <2>3. r + 1 + 1 = r + 2 /\ 0 + 1 = 1
    BY <1>2
  <2>4. CASE r = 11
    BY <2>1, <2>2, <2>3, <2>4
  <2>5. CASE r # 11
    BY <2>1, <2>2, <2>3, <2>5
  <2> QED
    BY <2>4, <2>5
<1>7. /\ DaysBefore[1] = 0 /\ DaysBefore[2] = 31 /\ DaysBefore[3] = 59 /\ DaysBefore[4] = 90
      /\ DaysBefore[5] = 120 /\ DaysBefore[6] = 151 /\ DaysBefore[7] = 181
      /\ DaysBefore[8] = 212 /\ DaysBefore[9] = 243 /\ DaysBefore[10] = 273
      /\ DaysBefore[11] = 304 /\ DaysBefore[12] = 334
  BY DEF DaysBefore
<1>8. DaysBefore[r + 1] \in Nat
  BY <1>2, <1>7
<1> HIDE DEF leaps, q, r
<1>9. StartOf(k) \in Nat
  BY <1>2, <1>4, <1>8
<1>10. StartOf(k + 1) = StartOf(k) + LengthOf(k)
  <2> DEFINE leap == IF r = 1 /\ IsLeap(FirstYear + q) THEN 1 ELSE 0
  <2>1. leap \in {0, 1}
    OBVIOUS
  <2>2. CASE r = 11
    BY <1>2, <1>3, <1>4, <1>5, <1>6, <1>7, <2>2
  <2>3. CASE r = 1
    BY <1>2, <1>3, <1>4, <1>5, <1>6, <1>7, <2>3
  <2>4. CASE r \in {0, 2, 3, 4, 5}
    BY <1>2, <1>3, <1>4, <1>5, <1>6, <1>7, <2>4
  <2>5. CASE r \in {6, 7, 8, 9, 10}
    BY <1>2, <1>3, <1>4, <1>5, <1>6, <1>7, <2>5
  <2> QED
    BY <1>2, <2>2, <2>3, <2>4, <2>5
<1> QED
  BY <1>9, <1>10

\* From a month to a later one there are 28 to 31 days for each between.
LEMMA MonthsSpread ==
  ASSUME NEW i \in Nat, NEW j \in Nat, i <= j
  PROVE  28 * (j - i) <= StartOf(j) - StartOf(i) /\ StartOf(j) - StartOf(i) <= 31 * (j - i)
<1> DEFINE Off(n) == StartOf(i + n) - StartOf(i)
           Bad == {n \in Nat : ~(28 * n <= Off(n) /\ Off(n) <= 31 * n)}
<1>1. ASSUME Bad # {} PROVE FALSE
  <2>1. PICK n \in Bad : \A m \in Bad : n <= m
    <3>1. Bad \in SUBSET Nat
      OBVIOUS
    <3> HIDE DEF Bad
    <3> QED
      BY <1>1, <3>1, LeastOfNumbers
  <2>2. n # 0
    BY MonthsFollow
  <2>3. n - 1 \in Nat /\ n - 1 \notin Bad
    BY <2>1, <2>2
  <2>4. 28 * (n - 1) <= Off(n - 1) /\ Off(n - 1) <= 31 * (n - 1)
    BY <2>3
  <2>5. /\ i + (n - 1) \in Nat /\ (i + (n - 1)) + 1 = i + n
        /\ StartOf((i + (n - 1)) + 1) = StartOf(i + (n - 1)) + LengthOf(i + (n - 1))
        /\ LengthOf(i + (n - 1)) \in 28..31
        /\ StartOf(i + (n - 1)) \in Nat /\ StartOf(i) \in Nat
    BY <2>3, MonthsFollow, LengthIsAMonth
  <2>6. Off(n) = Off(n - 1) + LengthOf(i + (n - 1))
    BY <2>5
  <2>7. Off(n - 1) \in Int
    BY <2>5
  <2> HIDE DEF Off
  <2>8. 28 * n <= Off(n) /\ Off(n) <= 31 * n
    BY <2>3, <2>4, <2>5, <2>6, <2>7
  <2> QED
    BY <2>1, <2>8
<1>2. j - i \in Nat /\ i + (j - i) = j
  OBVIOUS
<1>3. j - i \notin Bad
  <2> HIDE DEF Bad
  <2> QED
    BY <1>1
<1>4. 28 * (j - i) <= Off(j - i) /\ Off(j - i) <= 31 * (j - i)
  BY <1>2, <1>3
<1> QED
  BY <1>2, <1>4

\* The calendar begins on day 0.
LEMMA FirstMonth == StartOf(0) = 0
<1>1. 0 \div 12 = 0 /\ 0 % 12 = 0
  OBVIOUS
<1>2. LeapsBefore(0) = {}
  BY <1>1, ExperienceAssumption DEF LeapsBefore
<1>3. StartOf(0) = 365 * (0 \div 12) + DaysBefore[(0 % 12) + 1] + Cardinality(LeapsBefore(0))
  BY DEF StartOf, LeapsBefore
<1>4. DaysBefore[1] = 0
  BY DEF DaysBefore
<1>5. Cardinality(LeapsBefore(0)) = 0
  BY <1>2, FS_EmptySet
<1> QED
  BY <1>1, <1>3, <1>4, <1>5

\* A day is in one month.
LEMMA OneMonth ==
  ASSUME NEW n \in Nat, NEW j \in Nat, NEW k \in Nat,
         StartOf(j) <= n, n < StartOf(j) + LengthOf(j), StartOf(k) <= n, n < StartOf(k) + LengthOf(k)
  PROVE  j = k
<1>1. ASSUME NEW a \in Nat, NEW b \in Nat, a < b, n < StartOf(a) + LengthOf(a), StartOf(b) <= n
      PROVE  FALSE
  <2>1. /\ StartOf(a + 1) = StartOf(a) + LengthOf(a)
        /\ StartOf(a + 1) \in Nat /\ StartOf(b) \in Nat
    BY MonthsFollow
  <2>2. 28 * (b - (a + 1)) <= StartOf(b) - StartOf(a + 1)
    BY <1>1, MonthsSpread
  <2> QED
    BY <1>1, <2>1, <2>2
<1> QED
  BY <1>1

\* Each day is in a month, where MonthOf looks for it.
LEMMA SomeMonth ==
  ASSUME NEW n \in Nat
  PROVE  \E k \in (n \div 32)..(n \div 28) : StartOf(k) <= n /\ n < StartOf(k) + LengthOf(k)
<1> DEFINE Later == {k \in Nat : StartOf(k) > n}
<1>1. \A k \in Nat : StartOf(k) \in Nat /\ 28 * k <= StartOf(k) /\ StartOf(k) <= 31 * k
  <2> TAKE k \in Nat
  <2>1. StartOf(k) \in Nat /\ k - 0 = k /\ 0 <= k /\ 0 \in Nat
    BY MonthsFollow
  <2>2. 28 * (k - 0) <= StartOf(k) - StartOf(0) /\ StartOf(k) - StartOf(0) <= 31 * (k - 0)
    BY <2>1, MonthsSpread
  <2> QED
    BY <2>1, <2>2, FirstMonth
<1>2. n + 1 \in Later
  BY <1>1
<1>3. PICK l \in Later : \A k \in Later : l <= k
  <2>1. Later \in SUBSET Nat /\ Later # {}
    BY <1>2
  <2> HIDE DEF Later
  <2> QED
    BY <2>1, LeastOfNumbers
<1>4. l # 0
  BY FirstMonth
<1>5. l - 1 \in Nat /\ StartOf(l - 1) <= n
  <2>1. l - 1 \in Nat /\ l - 1 \notin Later
    BY <1>3, <1>4
  <2> QED
    BY <2>1, <1>1
<1>6. n < StartOf(l - 1) + LengthOf(l - 1)
  BY <1>5, MonthsFollow
<1>7. l - 1 \in (n \div 32)..(n \div 28)
  <2>1. 28 * (l - 1) <= n
    BY <1>1, <1>5
  <2>2. n < 31 * l
    BY <1>1
  <2>3. l \in Nat
    OBVIOUS
  <2> HIDE DEF Later
  <2> QED
    BY <1>5, <2>1, <2>2, <2>3
<1> QED
  BY <1>5, <1>6, <1>7

LEMMA MonthOfDay ==
  ASSUME NEW n \in Nat
  PROVE  /\ MonthOf(n) \in Nat
         /\ StartOf(MonthOf(n)) \in Nat /\ StartOf(MonthOf(n)) <= n
         /\ n < StartOf(MonthOf(n)) + LengthOf(MonthOf(n))
         /\ DayOf(n) = n - StartOf(MonthOf(n)) /\ DayOf(n) \in 0..(LengthOf(MonthOf(n)) - 1)
<1>1. \E k \in (n \div 32)..(n \div 28) : StartOf(k) <= n /\ n < StartOf(k) + LengthOf(k)
  BY SomeMonth
<1>2. /\ MonthOf(n) \in (n \div 32)..(n \div 28)
      /\ StartOf(MonthOf(n)) <= n /\ n < StartOf(MonthOf(n)) + LengthOf(MonthOf(n))
  BY <1>1 DEF MonthOf
<1>3. MonthOf(n) \in Nat
  BY <1>2
<1>4. LengthOf(MonthOf(n)) \in Nat /\ StartOf(MonthOf(n)) \in Nat
  BY <1>3, LengthIsAMonth, MonthsFollow
<1> QED
  BY <1>2, <1>3, <1>4 DEF DayOf

\* A day of a month is that of its number.
LEMMA DayInMonth ==
  ASSUME NEW k \in Nat, NEW d \in 0..(LengthOf(k) - 1)
  PROVE  /\ StartOf(k) + d \in Nat /\ MonthOf(StartOf(k) + d) = k /\ DayOf(StartOf(k) + d) = d
<1>1. StartOf(k) \in Nat /\ LengthOf(k) \in Nat
  BY MonthsFollow, LengthIsAMonth
<1> DEFINE n == StartOf(k) + d
<1>2. n \in Nat /\ StartOf(k) <= n /\ n < StartOf(k) + LengthOf(k)
  BY <1>1
<1>3. MonthOf(n) = k
  BY <1>2, MonthOfDay, OneMonth
<1> QED
  BY <1>1, <1>2, <1>3 DEF DayOf

LEMMA MonthsInOrder ==
  ASSUME NEW m \in Nat, NEW n \in Nat, m <= n
  PROVE  MonthOf(m) <= MonthOf(n)
<1>1. ASSUME MonthOf(n) < MonthOf(m) PROVE FALSE
  <2>1. /\ MonthOf(m) \in Nat /\ MonthOf(n) \in Nat /\ StartOf(MonthOf(m)) <= m
        /\ n < StartOf(MonthOf(n)) + LengthOf(MonthOf(n))
        /\ StartOf(MonthOf(m)) \in Nat
    BY MonthOfDay
  <2>2. /\ StartOf(MonthOf(n) + 1) = StartOf(MonthOf(n)) + LengthOf(MonthOf(n))
        /\ StartOf(MonthOf(n) + 1) \in Nat
    BY <2>1, MonthsFollow
  <2>3. 28 * (MonthOf(m) - (MonthOf(n) + 1)) <= StartOf(MonthOf(m)) - StartOf(MonthOf(n) + 1)
    BY <1>1, <2>1, MonthsSpread
  <2> QED
    BY <1>1, <2>1, <2>2, <2>3
<1> QED
  BY <1>1, MonthOfDay

\* A day is before those of later months.
LEMMA DaysInOrder ==
  ASSUME NEW m \in Nat, NEW n \in Nat, MonthOf(m) < MonthOf(n)
  PROVE  m < n
<1>1. MonthOf(m) \in Nat /\ MonthOf(n) \in Nat
  BY MonthOfDay
<1>2. n <= m => MonthOf(n) <= MonthOf(m)
  BY MonthsInOrder
<1> QED
  BY <1>1, <1>2

\* A date moved by months keeps its day, or has the last one of its month.
LEMMA ShiftIs ==
  ASSUME NEW n \in Nat, NEW k \in Int, MonthOf(n) + k \in Nat
  PROVE  /\ Shift(n, k) \in Nat /\ MonthOf(Shift(n, k)) = MonthOf(n) + k
         /\ Shift(n, k) = StartOf(MonthOf(n) + k) + DayOf(Shift(n, k))
         /\ DayOf(Shift(n, k)) = IF DayOf(n) < LengthOf(MonthOf(n) + k) THEN DayOf(n)
                                 ELSE LengthOf(MonthOf(n) + k) - 1
<1> DEFINE to == MonthOf(n) + k
           d == IF DayOf(n) < LengthOf(to) THEN DayOf(n) ELSE LengthOf(to) - 1
<1>1. LengthOf(to) \in 28..31 /\ DayOf(n) \in Nat /\ MonthOf(n) \in Nat
  BY MonthOfDay, LengthIsAMonth
<1>2. d \in 0..(LengthOf(to) - 1)
  BY <1>1
<1>3. Shift(n, k) = StartOf(to) + d
  BY DEF Shift
<1>4. /\ StartOf(to) + d \in Nat /\ MonthOf(StartOf(to) + d) = to /\ DayOf(StartOf(to) + d) = d
  <2> HIDE DEF d
  <2> QED
    BY <1>2, DayInMonth
<1> QED
  BY <1>3, <1>4

\* Moving dates keeps their order.
LEMMA ShiftInOrder ==
  ASSUME NEW m \in Nat, NEW n \in Nat, m <= n, NEW k \in Int, MonthOf(m) + k \in Nat
  PROVE  /\ MonthOf(n) + k \in Nat /\ Shift(m, k) \in Nat /\ Shift(n, k) \in Nat
         /\ Shift(m, k) <= Shift(n, k)
<1>1. MonthOf(m) \in Nat /\ MonthOf(n) \in Nat /\ MonthOf(m) <= MonthOf(n)
  BY MonthOfDay, MonthsInOrder
<1>2. MonthOf(n) + k \in Nat
  BY <1>1
<1>3. /\ Shift(m, k) \in Nat /\ MonthOf(Shift(m, k)) = MonthOf(m) + k
      /\ Shift(n, k) \in Nat /\ MonthOf(Shift(n, k)) = MonthOf(n) + k
  BY <1>2, ShiftIs
<1>4. CASE MonthOf(m) < MonthOf(n)
  <2>1. MonthOf(Shift(m, k)) < MonthOf(Shift(n, k))
    BY <1>1, <1>3, <1>4
  <2>2. Shift(m, k) < Shift(n, k)
    BY <1>3, <2>1, DaysInOrder
  <2> QED
    BY <1>2, <1>3, <2>2
<1>5. CASE MonthOf(m) = MonthOf(n)
  <2> DEFINE to == MonthOf(m) + k
  <2>1. DayOf(m) <= DayOf(n)
    BY <1>5, MonthOfDay
  <2>2. /\ Shift(m, k) = StartOf(to) + DayOf(Shift(m, k))
        /\ Shift(n, k) = StartOf(to) + DayOf(Shift(n, k))
        /\ DayOf(Shift(m, k)) = IF DayOf(m) < LengthOf(to) THEN DayOf(m) ELSE LengthOf(to) - 1
        /\ DayOf(Shift(n, k)) = IF DayOf(n) < LengthOf(to) THEN DayOf(n) ELSE LengthOf(to) - 1
    BY <1>5, <1>2, ShiftIs
  <2>7. to \in Nat
    OBVIOUS
  <2> HIDE DEF to
  <2>8. LengthOf(to) \in Nat /\ StartOf(to) \in Nat
    BY <2>7, LengthIsAMonth, MonthsFollow
  <2>9. DayOf(m) \in Nat /\ DayOf(n) \in Nat
    <3>1. LengthOf(MonthOf(m)) \in Nat /\ LengthOf(MonthOf(n)) \in Nat
      BY <1>1, LengthIsAMonth
    <3> QED
      BY <3>1, MonthOfDay
  <2>3. LengthOf(to) \in Nat /\ StartOf(to) \in Nat /\ DayOf(m) \in Nat /\ DayOf(n) \in Nat
    BY <2>8, <2>9
  <2>4. DayOf(Shift(m, k)) \in Int /\ DayOf(Shift(n, k)) \in Int
    BY <2>2, <2>3
  <2>5. DayOf(Shift(m, k)) <= DayOf(Shift(n, k))
    BY <2>1, <2>2, <2>3
  <2>6. Shift(m, k) <= Shift(n, k)
    BY <2>2, <2>3, <2>4, <2>5
  <2> QED
    BY <1>2, <1>3, <2>6
<1> QED
  BY <1>1, <1>4, <1>5

LEMMA ShiftByNothing ==
  ASSUME NEW n \in Nat
  PROVE  Shift(n, 0) = n
<1>1. MonthOf(n) \in Nat /\ MonthOf(n) + 0 = MonthOf(n) /\ DayOf(n) < LengthOf(MonthOf(n))
  BY MonthOfDay, LengthIsAMonth
<1>2. Shift(n, 0) = StartOf(MonthOf(n)) + DayOf(n)
  BY <1>1 DEF Shift
<1> QED
  BY <1>2, MonthOfDay

\* Dates that are moved back come no later.
LEMMA ShiftBack ==
  ASSUME NEW n \in Nat, NEW k \in Nat, k <= MonthOf(n)
  PROVE  /\ Shift(n, 0 - k) \in Nat /\ MonthOf(Shift(n, 0 - k)) = MonthOf(n) - k
         /\ Shift(n, 0 - k) <= n
<1>1. MonthOf(n) \in Nat /\ 0 - k \in Int /\ MonthOf(n) + (0 - k) \in Nat
      /\ MonthOf(n) + (0 - k) = MonthOf(n) - k
  BY MonthOfDay
<1>2. Shift(n, 0 - k) \in Nat /\ MonthOf(Shift(n, 0 - k)) = MonthOf(n) - k
  BY <1>1, ShiftIs
<1>3. CASE k = 0
  <2>1. 0 - k = 0
    BY <1>3
  <2> QED
    BY <1>2, <2>1, ShiftByNothing
<1>4. CASE k # 0
  <2>1. MonthOf(Shift(n, 0 - k)) < MonthOf(n)
    BY <1>1, <1>2, <1>4
  <2>2. Shift(n, 0 - k) < n
    BY <1>2, <2>1, DaysInOrder
  <2> QED
    BY <1>2, <2>2
<1> QED
  BY <1>3, <1>4

LEMMA GreatestOfNumbers ==
  ASSUME NEW S, NEW n \in Nat, S \subseteq 0..n, 0 \in S
  PROVE  Max(S) \in S /\ \A m \in S : m <= Max(S)
<1> DEFINE T == {n - m : m \in S}
<1>1. T \in SUBSET Nat /\ T # {}
  <2>1. ASSUME NEW m \in S PROVE n - m \in Nat
    <3>1. m \in 0..n
      OBVIOUS
    <3> QED
      BY <3>1
  <2>2. n - 0 \in T
    OBVIOUS
  <2> QED
    BY <2>1, <2>2
<1>2. PICK t \in T : \A u \in T : t <= u
  <2> HIDE DEF T
  <2> QED
    BY <1>1, LeastOfNumbers
<1>3. PICK m \in S : t = n - m
  OBVIOUS
<1>4. ASSUME NEW k \in S PROVE m >= k
  <2>1. n - k \in T
    OBVIOUS
  <2>2. n - m <= n - k
    BY <1>2, <1>3, <2>1
  <2> QED
    BY <2>2
<1>5. Max(S) \in S /\ \A k \in S : Max(S) >= k
  BY <1>4 DEF Max
<1> QED
  BY <1>5

-----------------------------------------------------------------------------
(* Experience by hand *)

\* The whole years and months back from a day
YearsBack(a, n) == Max({k \in 0..MonthOf(n) \div 12 : k = 0 \/ Shift(n, 0 - 12 * k) >= a})
MonthsBack(a, n) == Max({k \in 0..MonthOf(n) : k = 0 \/ Shift(n, 0 - k) >= a})

LEMMA MonthsBackGrow ==
  ASSUME NEW a \in Nat, NEW m \in Nat, NEW n \in Nat, m <= n
  PROVE  /\ MonthsBack(a, m) \in 0..MonthOf(m) /\ MonthsBack(a, n) \in 0..MonthOf(n)
         /\ MonthsBack(a, m) <= MonthsBack(a, n)
<1> DEFINE Fit(x) == {k \in 0..MonthOf(x) : k = 0 \/ Shift(x, 0 - k) >= a}
<1>1. MonthOf(m) \in Nat /\ MonthOf(n) \in Nat /\ MonthOf(m) <= MonthOf(n)
  BY MonthOfDay, MonthsInOrder
<1>2. \A x \in Nat : /\ MonthsBack(a, x) \in Fit(x)
                     /\ \A k \in Fit(x) : k <= MonthsBack(a, x)
  <2> TAKE x \in Nat
  <2>1. MonthOf(x) \in Nat
    BY MonthOfDay
  <2>2. Fit(x) \subseteq 0..MonthOf(x) /\ 0 \in Fit(x)
    BY <2>1
  <2>3. MonthsBack(a, x) = Max(Fit(x))
    BY DEF MonthsBack
  <2> HIDE DEF Fit
  <2> QED
    BY <2>1, <2>2, <2>3, GreatestOfNumbers
<1>3. ASSUME NEW k \in Fit(m) PROVE k \in Fit(n)
  <2>1. k \in 0..MonthOf(m) /\ k \in Nat /\ 0 - k \in Int /\ MonthOf(m) + (0 - k) \in Nat
    BY <1>1
  <2>2. /\ Shift(m, 0 - k) \in Nat /\ Shift(n, 0 - k) \in Nat
        /\ Shift(m, 0 - k) <= Shift(n, 0 - k)
    BY <2>1, ShiftInOrder
  <2> QED
    BY <1>1, <2>1, <2>2
<1>4. Fit(m) \subseteq 0..MonthOf(m) /\ Fit(n) \subseteq 0..MonthOf(n)
  OBVIOUS
<1> HIDE DEF Fit
<1> QED
  BY <1>2, <1>3, <1>4

LEMMA YearsBackGrow ==
  ASSUME NEW a \in Nat, NEW m \in Nat, NEW n \in Nat, m <= n
  PROVE  /\ YearsBack(a, m) \in 0..(MonthOf(m) \div 12)
         /\ YearsBack(a, n) \in 0..(MonthOf(n) \div 12)
         /\ YearsBack(a, m) <= YearsBack(a, n)
<1> DEFINE Fit(x) == {k \in 0..MonthOf(x) \div 12 : k = 0 \/ Shift(x, 0 - 12 * k) >= a}
<1>1. MonthOf(m) \in Nat /\ MonthOf(n) \in Nat /\ MonthOf(m) \div 12 <= MonthOf(n) \div 12
  <2>1. MonthOf(m) \in Nat /\ MonthOf(n) \in Nat /\ MonthOf(m) <= MonthOf(n)
    BY MonthOfDay, MonthsInOrder
  <2> QED
    BY <2>1
<1>2. \A x \in Nat : /\ YearsBack(a, x) \in Fit(x)
                     /\ \A k \in Fit(x) : k <= YearsBack(a, x)
  <2> TAKE x \in Nat
  <2>1. MonthOf(x) \div 12 \in Nat
    BY MonthOfDay
  <2>2. Fit(x) \subseteq 0..(MonthOf(x) \div 12) /\ 0 \in Fit(x)
    BY <2>1
  <2>3. YearsBack(a, x) = Max(Fit(x))
    BY DEF YearsBack
  <2> HIDE DEF Fit
  <2> QED
    BY <2>1, <2>2, <2>3, GreatestOfNumbers
<1>3. ASSUME NEW k \in Fit(m) PROVE k \in Fit(n)
  <2>1. k \in 0..(MonthOf(m) \div 12) /\ k \in Nat
    BY <1>1
  <2>2. 12 * k <= MonthOf(m)
    BY <1>1, <2>1
  <2>3. 0 - 12 * k \in Int /\ MonthOf(m) + (0 - 12 * k) \in Nat
    BY <1>1, <2>1, <2>2
  <2>4. /\ Shift(m, 0 - 12 * k) \in Nat /\ Shift(n, 0 - 12 * k) \in Nat
        /\ Shift(m, 0 - 12 * k) <= Shift(n, 0 - 12 * k)
    BY <2>3, ShiftInOrder
  <2> QED
    BY <1>1, <2>1, <2>4
<1>4. Fit(m) \subseteq 0..(MonthOf(m) \div 12) /\ Fit(n) \subseteq 0..(MonthOf(n) \div 12)
  OBVIOUS
<1> HIDE DEF Fit
<1> QED
  BY <1>2, <1>3, <1>4

\* What is counted from an anchor grows with the days.
LEMMA FromAnchorGrows ==
  ASSUME NEW a \in Nat, NEW m \in Nat, NEW n \in Nat, m <= n
  PROVE  AtLeast(FromAnchor(a, n), FromAnchor(a, m))
<1> DEFINE y(x) == YearsBack(a, x)
           year(x) == Shift(x, 0 - 12 * y(x))
           mm(x) == MonthsBack(a, year(x))
           rest(x) == Shift(year(x), 0 - mm(x))
<1>1. \A x : FromAnchor(a, x) = [y |-> y(x), m |-> mm(x), d |-> rest(x) - a]
  BY DEF FromAnchor, YearsBack, MonthsBack
<1>2. ASSUME NEW x \in Nat
      PROVE  /\ y(x) \in Nat /\ 0 - 12 * y(x) \in Int /\ MonthOf(x) + (0 - 12 * y(x)) \in Nat
             /\ year(x) \in Nat /\ MonthOf(year(x)) \in Nat
             /\ mm(x) \in Nat /\ 0 - mm(x) \in Int /\ MonthOf(year(x)) + (0 - mm(x)) \in Nat
             /\ rest(x) \in Nat
  <2>1. y(x) \in 0..(MonthOf(x) \div 12) /\ MonthOf(x) \in Nat
    BY YearsBackGrow, MonthOfDay
  <2> HIDE DEF y
  <2>2. y(x) \in Nat /\ 0 - 12 * y(x) \in Int /\ MonthOf(x) + (0 - 12 * y(x)) \in Nat
    BY <2>1
  <2>3. year(x) \in Nat
    BY <2>2, ShiftIs
  <2> HIDE DEF year
  <2>4. mm(x) \in 0..MonthOf(year(x)) /\ MonthOf(year(x)) \in Nat
    BY <2>3, MonthsBackGrow, MonthOfDay
  <2> HIDE DEF mm
  <2>5. mm(x) \in Nat /\ 0 - mm(x) \in Int /\ MonthOf(year(x)) + (0 - mm(x)) \in Nat
    BY <2>4
  <2>6. rest(x) \in Nat
    BY <2>3, <2>5, ShiftIs
  <2> QED
    BY <2>2, <2>3, <2>4, <2>5, <2>6
<1>3. y(m) <= y(n)
  BY YearsBackGrow
<1>4. ASSUME y(m) = y(n) PROVE year(m) <= year(n)
  <2>1. Shift(m, 0 - 12 * y(m)) <= Shift(n, 0 - 12 * y(m))
    <3> HIDE DEF y
    <3> QED
      BY <1>2, ShiftInOrder
  <2> QED
    BY <1>4, <2>1
<1>5. ASSUME y(m) = y(n) PROVE mm(m) <= mm(n)
  <2>1. year(m) \in Nat /\ year(n) \in Nat /\ year(m) <= year(n)
    BY <1>2, <1>4, <1>5
  <2> HIDE DEF year, y
  <2> QED
    BY <2>1, MonthsBackGrow
<1>6. ASSUME y(m) = y(n), mm(m) = mm(n) PROVE rest(m) <= rest(n)
  <2>1. /\ year(m) \in Nat /\ year(n) \in Nat /\ year(m) <= year(n)
        /\ 0 - mm(m) \in Int /\ MonthOf(year(m)) + (0 - mm(m)) \in Nat
    BY <1>2, <1>4, <1>6
  <2>2. Shift(year(m), 0 - mm(m)) <= Shift(year(n), 0 - mm(m))
    <3> HIDE DEF year, mm, y
    <3> QED
      BY <2>1, ShiftInOrder
  <2> QED
    BY <1>6, <2>2
<1>7. /\ y(m) \in Nat /\ y(n) \in Nat /\ mm(m) \in Nat /\ mm(n) \in Nat
      /\ rest(m) \in Nat /\ rest(n) \in Nat
  BY <1>2
<1> HIDE DEF y, year, mm, rest
<1>8. y(n) > y(m) \/ (y(n) = y(m) /\ mm(n) > mm(m))
        \/ (y(n) = y(m) /\ mm(n) = mm(m) /\ rest(n) - a >= rest(m) - a)
  BY <1>3, <1>5, <1>6, <1>7
<1> QED
  BY <1>1, <1>8 DEF AtLeast

-----------------------------------------------------------------------------
(* Experience by periods: what one interval gives *)

\* Moving a date on by more months gives a later one.
LEMMA ShiftOn ==
  ASSUME NEW n \in Nat, NEW j \in Nat, NEW k \in Nat, j < k
  PROVE  Shift(n, j) \in Nat /\ Shift(n, k) \in Nat /\ Shift(n, j) < Shift(n, k)
<1>1. MonthOf(n) \in Nat /\ MonthOf(n) + j \in Nat /\ MonthOf(n) + k \in Nat
  BY MonthOfDay
<1>2. /\ Shift(n, j) \in Nat /\ MonthOf(Shift(n, j)) = MonthOf(n) + j
      /\ Shift(n, k) \in Nat /\ MonthOf(Shift(n, k)) = MonthOf(n) + k
  BY <1>1, ShiftIs
<1>3. MonthOf(Shift(n, j)) < MonthOf(Shift(n, k))
  BY <1>1, <1>2
<1> QED
  BY <1>2, <1>3, DaysInOrder

\* By one month more, it is 31 days later at most.
LEMMA ShiftByOneMore ==
  ASSUME NEW n \in Nat, NEW k \in Nat
  PROVE  Shift(n, k + 1) - Shift(n, k) <= 31
<1> DEFINE to == MonthOf(n) + k
<1>1. MonthOf(n) \in Nat /\ LengthOf(MonthOf(n)) \in Nat /\ DayOf(n) \in 0..(LengthOf(MonthOf(n)) - 1)
  BY MonthOfDay, LengthIsAMonth
<1>2. to \in Nat /\ to + 1 \in Nat /\ MonthOf(n) + k \in Nat /\ MonthOf(n) + (k + 1) = to + 1
      /\ k + 1 \in Int /\ k \in Int
  BY <1>1
<1>3. /\ Shift(n, k) = StartOf(to) + DayOf(Shift(n, k))
      /\ DayOf(Shift(n, k)) = IF DayOf(n) < LengthOf(to) THEN DayOf(n) ELSE LengthOf(to) - 1
  BY <1>2, ShiftIs
<1>4. /\ Shift(n, k + 1) = StartOf(to + 1) + DayOf(Shift(n, k + 1))
      /\ DayOf(Shift(n, k + 1)) = IF DayOf(n) < LengthOf(to + 1) THEN DayOf(n) ELSE LengthOf(to + 1) - 1
  BY <1>2, ShiftIs
<1>5. StartOf(to + 1) = StartOf(to) + LengthOf(to) /\ StartOf(to) \in Nat
  BY <1>2, MonthsFollow
<1>6. LengthOf(to) \in 28..31 /\ LengthOf(to + 1) \in 28..31 /\ DayOf(n) \in Nat
  BY <1>1, <1>2, LengthIsAMonth
<1> HIDE DEF to
<1>7. DayOf(Shift(n, k)) \in Int /\ DayOf(Shift(n, k + 1)) \in Int
  BY <1>3, <1>4, <1>6
<1>8. LengthOf(to) + DayOf(Shift(n, k + 1)) - DayOf(Shift(n, k)) <= 31
  BY <1>3, <1>4, <1>6
<1> QED
  BY <1>3, <1>4, <1>5, <1>6, <1>7, <1>8

\* A year later a month is a day longer at most.
LEMMA LengthsRepeat == \A k \in Nat : LengthOf(k + 12) <= LengthOf(k) + 1
<1> TAKE k \in Nat
<1>1. (k + 12) % 12 = k % 12 /\ k % 12 \in 0..11
  OBVIOUS
<1>2. CASE k % 12 = 1
  BY <1>1, <1>2 DEF LengthOf
<1>3. CASE k % 12 # 1
  BY <1>1, <1>3 DEF LengthOf
<1> QED
  BY <1>2, <1>3

\* Years and then a year differ from the years at once by a leap day at most.
LEMMA YearsAtOnce ==
  ASSUME NEW s \in Nat, NEW y \in Nat
  PROVE  Shift(s, 12 * (y + 1)) - Shift(Shift(s, 12 * y), 12) <= 1
<1> DEFINE from == MonthOf(s) + 12 * y
           year == Shift(s, 12 * y)
<1>1. /\ MonthOf(s) \in Nat /\ 12 * y \in Int /\ 12 * (y + 1) \in Int /\ from \in Nat
      /\ from + 12 \in Nat /\ MonthOf(s) + 12 * (y + 1) = from + 12
  BY MonthOfDay
<1>2. /\ year \in Nat /\ MonthOf(year) = from
      /\ DayOf(year) = IF DayOf(s) < LengthOf(from) THEN DayOf(s) ELSE LengthOf(from) - 1
  BY <1>1, ShiftIs
<1>3. /\ Shift(year, 12) = StartOf(from + 12) + DayOf(Shift(year, 12))
      /\ DayOf(Shift(year, 12)) = IF DayOf(year) < LengthOf(from + 12) THEN DayOf(year)
                                  ELSE LengthOf(from + 12) - 1
  <2> HIDE DEF year, from
  <2>1. 12 \in Int /\ MonthOf(year) + 12 \in Nat /\ MonthOf(year) + 12 = from + 12
    BY <1>1, <1>2
  <2> QED
    BY <1>2, <2>1, ShiftIs
<1>4. /\ Shift(s, 12 * (y + 1)) = StartOf(from + 12) + DayOf(Shift(s, 12 * (y + 1)))
      /\ DayOf(Shift(s, 12 * (y + 1))) = IF DayOf(s) < LengthOf(from + 12) THEN DayOf(s)
                                         ELSE LengthOf(from + 12) - 1
  <2> HIDE DEF from
  <2> QED
    BY <1>1, ShiftIs
<1>5. /\ LengthOf(from) \in 28..31 /\ LengthOf(from + 12) \in 28..31
      /\ LengthOf(from + 12) <= LengthOf(from) + 1
      /\ StartOf(from + 12) \in Nat
  BY <1>1, LengthIsAMonth, LengthsRepeat, MonthsFollow
<1>6. DayOf(s) \in Nat
  <2>1. LengthOf(MonthOf(s)) \in Nat
    BY <1>1, LengthIsAMonth
  <2> QED
    BY <2>1, MonthOfDay
<1> HIDE DEF from, year
<1>7. DayOf(Shift(s, 12 * (y + 1))) \in Int /\ DayOf(Shift(year, 12)) \in Int /\ DayOf(year) \in Int
  BY <1>2, <1>3, <1>4, <1>5, <1>6
<1>8. DayOf(Shift(s, 12 * (y + 1))) - DayOf(Shift(year, 12)) <= 1
  BY <1>2, <1>3, <1>4, <1>5, <1>6
<1>9. Shift(s, 12 * (y + 1)) - Shift(year, 12) <= 1
  BY <1>3, <1>4, <1>5, <1>7, <1>8
<1> QED
  BY <1>9 DEF year

\* The whole years and months from a day on to another
YearsOn(s, t) == Max({n \in 0..(MonthOf(t) - MonthOf(s)) \div 12 : n = 0 \/ Shift(s, 12 * n) <= t})
MonthsOn(s, t) == Max({n \in 0..MonthOf(t) - MonthOf(s) : n = 0 \/ Shift(s, n) <= t})

LEMMA YearsOnFit ==
  ASSUME NEW s \in Nat, NEW t \in Nat, s <= t
  PROVE  /\ YearsOn(s, t) \in Nat
         /\ Shift(s, 12 * YearsOn(s, t)) \in Nat /\ Shift(s, 12 * YearsOn(s, t)) <= t
         /\ t < Shift(s, 12 * (YearsOn(s, t) + 1)) /\ Shift(s, 12 * (YearsOn(s, t) + 1)) \in Nat
<1> DEFINE Fit == {n \in 0..(MonthOf(t) - MonthOf(s)) \div 12 : n = 0 \/ Shift(s, 12 * n) <= t}
           y == YearsOn(s, t)
<1>1. MonthOf(s) \in Nat /\ MonthOf(t) \in Nat /\ MonthOf(s) <= MonthOf(t)
  BY MonthOfDay, MonthsInOrder
<1>2. (MonthOf(t) - MonthOf(s)) \div 12 \in Nat
  BY <1>1
<1>3. y \in Fit /\ \A n \in Fit : n <= y
  <2>1. Fit \subseteq 0..((MonthOf(t) - MonthOf(s)) \div 12) /\ 0 \in Fit /\ y = Max(Fit)
    BY <1>2 DEF YearsOn
  <2> HIDE DEF Fit, y
  <2> QED
    BY <1>2, <2>1, GreatestOfNumbers
<1>4. y \in Nat /\ (y = 0 \/ Shift(s, 12 * y) <= t)
  BY <1>2, <1>3
<1> HIDE DEF y
<1>5. /\ 12 * y \in Nat /\ 12 * (y + 1) \in Nat
      /\ MonthOf(s) + 12 * y \in Nat /\ MonthOf(s) + 12 * (y + 1) \in Nat
  BY <1>1, <1>4
<1>6. /\ Shift(s, 12 * y) \in Nat /\ Shift(s, 12 * (y + 1)) \in Nat
      /\ MonthOf(Shift(s, 12 * (y + 1))) = MonthOf(s) + 12 * (y + 1)
  BY <1>5, ShiftIs
<1>7. Shift(s, 12 * y) <= t
  <2>1. CASE y = 0
    BY <2>1, ShiftByNothing
  <2> QED
    BY <1>4, <2>1
<1>8. t < Shift(s, 12 * (y + 1))
  <2>1. CASE y + 1 \in 0..((MonthOf(t) - MonthOf(s)) \div 12)
    <3>1. y + 1 \notin Fit
      <4> HIDE DEF Fit
      <4>1. y + 1 \in Nat /\ ~(y + 1 <= y)
        BY <1>4
      <4> QED
        BY <1>3, <4>1
    <3> QED
      BY <1>6, <2>1, <3>1
  <2>2. CASE y + 1 \notin 0..((MonthOf(t) - MonthOf(s)) \div 12)
    <3>1. MonthOf(t) < MonthOf(s) + 12 * (y + 1)
      BY <1>1, <1>4, <2>2
    <3> QED
      BY <1>6, <3>1, DaysInOrder
  <2> QED
    BY <2>1, <2>2
<1> QED
  BY <1>4, <1>6, <1>7, <1>8 DEF y

LEMMA MonthsOnFit ==
  ASSUME NEW s \in Nat, NEW t \in Nat, s <= t
  PROVE  /\ MonthsOn(s, t) \in Nat
         /\ Shift(s, MonthsOn(s, t)) \in Nat /\ Shift(s, MonthsOn(s, t)) <= t
         /\ t < Shift(s, MonthsOn(s, t) + 1) /\ Shift(s, MonthsOn(s, t) + 1) \in Nat
<1> DEFINE Fit == {n \in 0..MonthOf(t) - MonthOf(s) : n = 0 \/ Shift(s, n) <= t}
           m == MonthsOn(s, t)
<1>1. MonthOf(s) \in Nat /\ MonthOf(t) \in Nat /\ MonthOf(s) <= MonthOf(t)
  BY MonthOfDay, MonthsInOrder
<1>2. MonthOf(t) - MonthOf(s) \in Nat
  BY <1>1
<1>3. m \in Fit /\ \A n \in Fit : n <= m
  <2>1. Fit \subseteq 0..(MonthOf(t) - MonthOf(s)) /\ 0 \in Fit /\ m = Max(Fit)
    BY <1>2 DEF MonthsOn
  <2> HIDE DEF Fit, m
  <2> QED
    BY <1>2, <2>1, GreatestOfNumbers
<1>4. m \in Nat /\ (m = 0 \/ Shift(s, m) <= t)
  BY <1>2, <1>3
<1> HIDE DEF m
<1>5. m + 1 \in Nat /\ MonthOf(s) + m \in Nat /\ MonthOf(s) + (m + 1) \in Nat
  BY <1>1, <1>4
<1>6. /\ Shift(s, m) \in Nat /\ Shift(s, m + 1) \in Nat
      /\ MonthOf(Shift(s, m + 1)) = MonthOf(s) + (m + 1)
  BY <1>4, <1>5, ShiftIs
<1>7. Shift(s, m) <= t
  <2>1. CASE m = 0
    BY <2>1, ShiftByNothing
  <2> QED
    BY <1>4, <2>1
<1>8. t < Shift(s, m + 1)
  <2>1. CASE m + 1 \in 0..(MonthOf(t) - MonthOf(s))
    <3>1. m + 1 \notin Fit
      <4> HIDE DEF Fit
      <4>1. ~(m + 1 <= m)
        BY <1>4
      <4> QED
        BY <1>3, <4>1
    <3> QED
      BY <1>6, <2>1, <3>1
  <2>2. CASE m + 1 \notin 0..(MonthOf(t) - MonthOf(s))
    <3>1. MonthOf(t) < MonthOf(s) + (m + 1)
      BY <1>1, <1>4, <2>2
    <3> QED
      BY <1>6, <3>1, DaysInOrder
  <2> QED
    BY <2>1, <2>2
<1> QED
  BY <1>4, <1>6, <1>7, <1>8 DEF m

\* What an interval gives, in days when a month has 30
UnitsOf(part) == 30 * part.months + part.days

\* The days left over are fewer than those of a month.
LEMMA DurationIs ==
  ASSUME NEW s \in Nat, NEW e \in Nat, s <= e + 1
  PROVE  LET y == YearsOn(s, e + 1)
             year == Shift(s, 12 * y)
             m == MonthsOn(year, e + 1)
         IN /\ y \in Nat /\ m \in Nat /\ year \in Nat /\ year <= e + 1
            /\ e + 1 < Shift(s, 12 * (y + 1)) /\ Shift(s, 12 * (y + 1)) \in Nat
            /\ Shift(year, m) \in Nat /\ Shift(year, m) <= e + 1
            /\ e + 1 < Shift(year, m + 1) /\ Shift(year, m + 1) \in Nat
            /\ Duration(s, e) = [months |-> 12 * y + m, days |-> e + 1 - Shift(year, m)]
            /\ e + 1 - Shift(year, m) \in 0..30
<1> DEFINE y == YearsOn(s, e + 1)
           year == Shift(s, 12 * y)
           m == MonthsOn(year, e + 1)
<1>1. e + 1 \in Nat
  OBVIOUS
<1>2. /\ y \in Nat /\ year \in Nat /\ year <= e + 1
      /\ e + 1 < Shift(s, 12 * (y + 1)) /\ Shift(s, 12 * (y + 1)) \in Nat
  BY <1>1, YearsOnFit
<1>3. Duration(s, e) = [months |-> 12 * y + m, days |-> e + 1 - Shift(year, m)]
  BY DEF Duration, YearsOn, MonthsOn
<1>4. /\ m \in Nat /\ Shift(year, m) \in Nat /\ Shift(year, m) <= e + 1
      /\ e + 1 < Shift(year, m + 1) /\ Shift(year, m + 1) \in Nat
  <2> HIDE DEF year
  <2> QED
    BY <1>1, <1>2, MonthsOnFit
<1>5. Shift(year, m + 1) - Shift(year, m) <= 31
  <2> HIDE DEF year, m
  <2> QED
    BY <1>2, <1>4, ShiftByOneMore
<1>6. e + 1 - Shift(year, m) \in 0..30
  <2> HIDE DEF year, m
  <2> QED
    BY <1>1, <1>4, <1>5
<1> QED
  BY <1>2, <1>3, <1>4, <1>6

\* With every day an interval gives no less, whatever the lengths of months:
\* where a month is completed, 30 days at most are given up for it, and where a
\* year is, all of its months are there.
LEMMA DurationGrows ==
  ASSUME NEW s \in Nat, NEW e \in Nat, s <= e + 1
  PROVE  UnitsOf(Duration(s, e)) <= UnitsOf(Duration(s, e + 1))
<1> DEFINE y(x) == YearsOn(s, x + 1)
           year(x) == Shift(s, 12 * y(x))
           m(x) == MonthsOn(year(x), x + 1)
           d(x) == x + 1 - Shift(year(x), m(x))
<1>1. ASSUME NEW x \in {e, e + 1}
      PROVE  /\ y(x) \in Nat /\ m(x) \in Nat /\ year(x) \in Nat /\ year(x) <= x + 1
             /\ x + 1 < Shift(s, 12 * (y(x) + 1)) /\ Shift(s, 12 * (y(x) + 1)) \in Nat
             /\ Shift(year(x), m(x)) \in Nat /\ Shift(year(x), m(x)) <= x + 1
             /\ x + 1 < Shift(year(x), m(x) + 1) /\ Shift(year(x), m(x) + 1) \in Nat
             /\ Duration(s, x) = [months |-> 12 * y(x) + m(x), days |-> d(x)]
             /\ d(x) \in 0..30
  <2>1. x \in Nat /\ s <= x + 1
    OBVIOUS
  <2> QED
    BY <2>1, DurationIs
<1>2. e + 1 \in Nat /\ e \in {e, e + 1} /\ e + 1 \in {e, e + 1}
  OBVIOUS
<1>3. UnitsOf(Duration(s, e)) = 30 * (12 * y(e) + m(e)) + d(e)
  <2> HIDE DEF y, m, d
  <2> QED
    BY <1>1, <1>2 DEF UnitsOf
<1>4. UnitsOf(Duration(s, e + 1)) = 30 * (12 * y(e + 1) + m(e + 1)) + d(e + 1)
  <2> HIDE DEF y, m, d
  <2> QED
    BY <1>1, <1>2 DEF UnitsOf
<1>5. y(e) <= y(e + 1)
  <2>1. ASSUME y(e + 1) + 1 <= y(e) PROVE FALSE
    <3>1. /\ y(e) \in Nat /\ y(e + 1) \in Nat /\ year(e) <= e + 1 /\ year(e) \in Nat
          /\ e + 1 + 1 < Shift(s, 12 * (y(e + 1) + 1)) /\ Shift(s, 12 * (y(e + 1) + 1)) \in Nat
      BY <1>1, <1>2
    <3>2. Shift(s, 12 * (y(e + 1) + 1)) <= Shift(s, 12 * y(e))
      <4> HIDE DEF y
      <4>1. CASE y(e + 1) + 1 = y(e)
        BY <3>1, <4>1
      <4>2. CASE y(e + 1) + 1 < y(e)
        <5>1. 12 * (y(e + 1) + 1) \in Nat /\ 12 * y(e) \in Nat /\ 12 * (y(e + 1) + 1) < 12 * y(e)
          BY <3>1, <4>2
        <5>2. /\ Shift(s, 12 * (y(e + 1) + 1)) \in Nat /\ Shift(s, 12 * y(e)) \in Nat
              /\ Shift(s, 12 * (y(e + 1) + 1)) < Shift(s, 12 * y(e))
          BY <5>1, ShiftOn
        <5> QED
          BY <5>2
      <4> QED
        BY <2>1, <3>1, <4>1, <4>2
    <3> QED
      BY <3>1, <3>2
  <2> HIDE DEF y
  <2> QED
    BY <1>1, <1>2, <2>1
<1>6. CASE y(e + 1) = y(e)
  <2> DEFINE z == year(e)
  <2>1. year(e + 1) = z
    BY <1>6
  <2>2. /\ z \in Nat /\ m(e) \in Nat /\ m(e + 1) \in Nat /\ d(e) \in 0..30 /\ d(e + 1) \in 0..30
        /\ Shift(z, m(e)) \in Nat /\ Shift(z, m(e)) <= e + 1
        /\ e + 1 + 1 < Shift(z, m(e + 1) + 1) /\ Shift(z, m(e + 1) + 1) \in Nat
        /\ y(e) \in Nat
    BY <1>1, <1>2, <2>1
  <2>3. d(e) = e + 1 - Shift(z, m(e)) /\ d(e + 1) = e + 1 + 1 - Shift(z, m(e + 1))
    BY <2>1
  <2> HIDE DEF y, m, d, z, year
  <2>4. CASE m(e + 1) = m(e)
    <3>1. d(e + 1) = d(e) + 1
      BY <2>2, <2>3, <2>4
    <3> QED
      BY <1>3, <1>4, <1>6, <2>2, <2>4, <3>1
  <2>5. CASE m(e + 1) > m(e)
    BY <1>3, <1>4, <1>6, <2>2, <2>5
  <2>6. CASE m(e + 1) < m(e)
    <3>1. CASE m(e + 1) + 1 = m(e)
      BY <2>2, <3>1
    <3>2. CASE m(e + 1) + 1 < m(e)
      <4>1. /\ Shift(z, m(e + 1) + 1) \in Nat /\ Shift(z, m(e)) \in Nat
            /\ Shift(z, m(e + 1) + 1) < Shift(z, m(e))
        <5>1. m(e + 1) + 1 \in Nat
          BY <2>2
        <5> QED
          BY <2>2, <3>2, <5>1, ShiftOn
      <4> QED
        BY <2>2, <4>1
    <3> QED
      BY <2>2, <2>6, <3>1, <3>2
  <2> QED
    BY <2>2, <2>4, <2>5, <2>6
<1>7. CASE y(e + 1) > y(e)
  <2> DEFINE z == year(e)
             next == Shift(s, 12 * (y(e) + 1))
  <2>1. /\ z \in Nat /\ m(e) \in Nat /\ d(e) \in 0..30 /\ y(e) \in Nat
        /\ Shift(z, m(e)) \in Nat /\ Shift(z, m(e)) <= e + 1
        /\ e + 1 < next /\ next \in Nat
        /\ d(e) = e + 1 - Shift(z, m(e))
    BY <1>1, <1>2
  <2>2. y(e + 1) \in Nat /\ m(e + 1) \in Nat /\ d(e + 1) \in 0..30
    BY <1>1, <1>2
  <2>3. next - Shift(z, 12) <= 1
    <3>1. y(e) \in Nat
      BY <2>1
    <3> HIDE DEF y
    <3> QED
      BY <3>1, YearsAtOnce
  <2>4. MonthOf(z) + 12 = MonthOf(next) /\ MonthOf(z) \in Nat
    <3>1. y(e) \in Nat /\ MonthOf(s) \in Nat
      BY <2>1, MonthOfDay
    <3> HIDE DEF y
    <3>2. /\ 12 * y(e) \in Int /\ 12 * (y(e) + 1) \in Int
          /\ MonthOf(s) + 12 * y(e) \in Nat /\ MonthOf(s) + 12 * (y(e) + 1) \in Nat
      BY <3>1
    <3>3. MonthOf(z) = MonthOf(s) + 12 * y(e) /\ MonthOf(next) = MonthOf(s) + 12 * (y(e) + 1)
      BY <3>2, ShiftIs
    <3> HIDE DEF z, next
    <3> QED
      BY <3>1, <3>2, <3>3
  <2> HIDE DEF y, m, d, z, next, year
  <2>5. m(e) <= 12
    <3>1. MonthOf(z) + m(e) \in Nat /\ m(e) \in Int
      BY <2>1, <2>4
    <3>2. MonthOf(Shift(z, m(e))) = MonthOf(z) + m(e)
      BY <2>1, <3>1, ShiftIs
    <3>3. Shift(z, m(e)) <= next
      BY <1>2, <2>1
    <3>4. MonthOf(Shift(z, m(e))) <= MonthOf(next)
      BY <2>1, <3>3, MonthsInOrder
    <3> QED
      BY <2>1, <2>4, <3>2, <3>4
  <2>6. 30 * m(e) + d(e) <= 360
    <3>1. CASE m(e) = 12
      <4>1. d(e) = 0
        BY <1>2, <2>1, <2>3, <3>1
      <4> QED
        BY <3>1, <4>1
    <3>2. CASE m(e) # 12
      BY <2>1, <2>5, <3>2
    <3> QED
      BY <3>1, <3>2
  <2> QED
    BY <1>3, <1>4, <1>7, <2>1, <2>2, <2>6
<1>8. y(e) \in Nat /\ y(e + 1) \in Nat
  BY <1>1, <1>2
<1> HIDE DEF y
<1> QED
  BY <1>5, <1>6, <1>7, <1>8

-----------------------------------------------------------------------------
(* Sums: FoldFunctionOnSet adds in an order of its own. *)

SumOn(f, S) == FoldFunctionOnSet(+, 0, f, S)
AnyOf(s) == CHOOSE x \in s : TRUE

\* g gives the sums over the sets of L.
SumsUp(g, f, L) == g = [s \in L |-> IF s = {} THEN 0 ELSE f[AnyOf(s)] + g[s \ {AnyOf(s)}]]

LEMMA AnyOfIs == \A s : s # {} => AnyOf(s) \in s
BY DEF AnyOf

\* Of the subsets of a finite set there is a least one of any kind.
LEMMA LeastOfSubsets ==
  ASSUME NEW S, IsFiniteSet(S), NEW B, B \subseteq SUBSET S, B # {}
  PROVE  \E s \in B : \A t \in SUBSET s : t # s => t \notin B
<1> DEFINE R == StrictSubsetOrdering(S)
<1>1. FiniteSubsetsOf(S) = SUBSET S
  BY FS_FiniteSubsetsOfFinite
<1>2. IsWellFoundedOn(R, FiniteSubsetsOf(S))
  BY FS_StrictSubsetOrderingWellFounded
<1>3. PICK s \in B : \A t \in B : <<t, s>> \notin R
  <2> HIDE DEF R
  <2> QED
    BY <1>1, <1>2, WFMin
<1>4. ASSUME NEW t \in SUBSET s, t # s, t \in B PROVE FALSE
  <2>1. <<t, s>> \in R
    BY <1>4 DEF StrictSubsetOrdering
  <2> QED
    BY <1>3, <1>4, <2>1
<1> QED
  BY <1>4

\* The sums over all subsets of a finite set exist: level by level.
LEMMA SumsExist ==
  ASSUME NEW f, NEW S, IsFiniteSet(S)
  PROVE  \E g : SumsUp(g, f, SUBSET S)
<1> DEFINE Level(n) == {s \in SUBSET S : Cardinality(s) <= n}
           Bad == {n \in Nat : ~\E g : SumsUp(g, f, Level(n))}
<1>1. \A s \in SUBSET S : IsFiniteSet(s) /\ Cardinality(s) \in Nat
  BY FS_Subset, FS_CardinalityType
<1>2. \A s \in SUBSET S : (s = {} <=> Cardinality(s) = 0)
  BY <1>1, FS_EmptySet
<1>3. ASSUME NEW s \in SUBSET S, s # {}
      PROVE  /\ s \ {AnyOf(s)} \in SUBSET S
             /\ Cardinality(s \ {AnyOf(s)}) = Cardinality(s) - 1
  <2>1. AnyOf(s) \in s
    BY <1>3, AnyOfIs
  <2> QED
    BY <1>1, <2>1, FS_RemoveElement
<1>4. ASSUME Bad # {} PROVE FALSE
  <2>1. PICK n \in Bad : \A m \in Bad : n <= m
    <3>1. Bad \in SUBSET Nat
      OBVIOUS
    <3> HIDE DEF Bad
    <3> QED
      BY <1>4, <3>1, LeastOfNumbers
  <2>2. n # 0
    <3> SUFFICES ASSUME n = 0 PROVE FALSE
      OBVIOUS
    <3> DEFINE g == [s \in Level(0) |-> 0]
    <3>1. \A s \in Level(0) : s = {}
      BY <1>1, <1>2
    <3>2. g = [s \in Level(0) |-> IF s = {} THEN 0 ELSE f[AnyOf(s)] + g[s \ {AnyOf(s)}]]
      <4> HIDE DEF Level
      <4> QED
        BY <3>1
    <3>3. SumsUp(g, f, Level(0))
      BY <3>2 DEF SumsUp
    <3> QED
      BY <2>1, <3>3
  <2>3. n - 1 \in Nat /\ n - 1 \notin Bad
    <3>1. n \in Nat
      OBVIOUS
    <3> HIDE DEF Bad
    <3> QED
      BY <2>1, <2>2, <3>1
  <2>4. PICK g : SumsUp(g, f, Level(n - 1))
    BY <2>3
  <2> DEFINE h == [s \in Level(n) |-> IF s = {} THEN 0 ELSE f[AnyOf(s)] + g[s \ {AnyOf(s)}]]
  <2>5. \A s \in Level(n - 1) : s \in Level(n)
    BY <1>1, <2>3
  <2>6. \A s \in Level(n) : s # {} => s \ {AnyOf(s)} \in Level(n - 1)
    BY <1>1, <1>3, <2>3
  <2>7. \A s \in Level(n - 1) : h[s] = g[s]
    <3> HIDE DEF Level
    <3>1. g = [s \in Level(n - 1) |-> IF s = {} THEN 0 ELSE f[AnyOf(s)] + g[s \ {AnyOf(s)}]]
      BY <2>4 DEF SumsUp
    <3>2. \A s \in Level(n - 1) : g[s] = IF s = {} THEN 0 ELSE f[AnyOf(s)] + g[s \ {AnyOf(s)}]
      BY <3>1
    <3> QED
      BY <2>5, <3>2
  <2>8. h = [s \in Level(n) |-> IF s = {} THEN 0 ELSE f[AnyOf(s)] + h[s \ {AnyOf(s)}]]
    <3> HIDE DEF Level
    <3> QED
      BY <2>6, <2>7
  <2>9. SumsUp(h, f, Level(n))
    BY <2>8 DEF SumsUp
  <2> QED
    BY <2>1, <2>9
<1>5. Cardinality(S) \in Nat /\ \A s \in SUBSET S : Cardinality(s) <= Cardinality(S)
  BY FS_CardinalityType, FS_Subset
<1>6. Level(Cardinality(S)) = SUBSET S
  BY <1>5
<1>7. \E g : SumsUp(g, f, Level(Cardinality(S)))
  <2>1. Cardinality(S) \notin Bad
    <3> HIDE DEF Bad
    <3> QED
      BY <1>4
  <2> QED
    BY <1>5, <2>1
<1> QED
  BY <1>6, <1>7

LEMMA SumOnIs ==
  ASSUME NEW f, NEW S, IsFiniteSet(S)
  PROVE  \E g : SumsUp(g, f, SUBSET S) /\ SumOn(f, S) = g[S]
<1> DEFINE iter == CHOOSE g : g = [s \in SUBSET S |-> IF s = {} THEN 0
                     ELSE f[CHOOSE x \in s : TRUE] + g[s \ {CHOOSE x \in s : TRUE}]]
<1>1. \E g : g = [s \in SUBSET S |-> IF s = {} THEN 0
                     ELSE f[CHOOSE x \in s : TRUE] + g[s \ {CHOOSE x \in s : TRUE}]]
  <2>1. PICK g : SumsUp(g, f, SUBSET S)
    BY SumsExist
  <2>2. g = [s \in SUBSET S |-> IF s = {} THEN 0
               ELSE f[CHOOSE x \in s : TRUE] + g[s \ {CHOOSE x \in s : TRUE}]]
    BY <2>1 DEF SumsUp, AnyOf
  <2> QED
    BY <2>2
<1>2. iter = [s \in SUBSET S |-> IF s = {} THEN 0
                     ELSE f[CHOOSE x \in s : TRUE] + iter[s \ {CHOOSE x \in s : TRUE}]]
  BY <1>1
<1>3. SumOn(f, S) = iter[S]
  BY DEF SumOn, FoldFunctionOnSet, MapThenFoldSet
<1>4. SumsUp(iter, f, SUBSET S)
  BY <1>2 DEF SumsUp, AnyOf
<1> QED
  BY <1>3, <1>4

\* Sums of one set are the same, whatever set it is part of.
LEMMA SumsAgree ==
  ASSUME NEW f, NEW S, IsFiniteSet(S), NEW T \in SUBSET S, NEW g, NEW h,
         SumsUp(g, f, SUBSET S), SumsUp(h, f, SUBSET T)
  PROVE  h[T] = g[T]
<1> DEFINE Bad == {s \in SUBSET T : h[s] # g[s]}
<1>1. IsFiniteSet(T)
  BY FS_Subset
<1>2. ASSUME Bad # {} PROVE FALSE
  <2>1. PICK s \in Bad : \A t \in SUBSET s : t # s => t \notin Bad
    <3>1. Bad \subseteq SUBSET T
      OBVIOUS
    <3> HIDE DEF Bad
    <3> QED
      BY <1>1, <1>2, <3>1, LeastOfSubsets
  <2>2. s \in SUBSET T /\ s \in SUBSET S
    BY <2>1
  <2>3. /\ g[s] = IF s = {} THEN 0 ELSE f[AnyOf(s)] + g[s \ {AnyOf(s)}]
        /\ h[s] = IF s = {} THEN 0 ELSE f[AnyOf(s)] + h[s \ {AnyOf(s)}]
    BY <2>2 DEF SumsUp
  <2>4. s # {} => h[s \ {AnyOf(s)}] = g[s \ {AnyOf(s)}]
    <3>1. s # {} => /\ s \ {AnyOf(s)} \in SUBSET s /\ s \ {AnyOf(s)} # s
                    /\ s \ {AnyOf(s)} \in SUBSET T
      BY <2>2, AnyOfIs
    <3> QED
      BY <2>1, <3>1
  <2> QED
    BY <2>1, <2>3, <2>4
<1> QED
  <2>1. T \in SUBSET T
    OBVIOUS
  <2> QED
    BY <1>2, <2>1

\* A sum is that of one element and the others; which one, it chooses.
LEMMA SumOnFirst ==
  ASSUME NEW f, NEW S, IsFiniteSet(S)
  PROVE  /\ SumOn(f, {}) = 0
         /\ S # {} => SumOn(f, S) = f[AnyOf(S)] + SumOn(f, S \ {AnyOf(S)})
<1>1. IsFiniteSet({})
  BY FS_EmptySet
<1>2. SumOn(f, {}) = 0
  <2>1. PICK g : SumsUp(g, f, SUBSET {}) /\ SumOn(f, {}) = g[{}]
    BY <1>1, SumOnIs
  <2>2. {} \in SUBSET {}
    OBVIOUS
  <2>3. g[{}] = 0
    BY <2>1, <2>2 DEF SumsUp
  <2> QED
    BY <2>1, <2>3
<1>3. ASSUME S # {} PROVE SumOn(f, S) = f[AnyOf(S)] + SumOn(f, S \ {AnyOf(S)})
  <2> DEFINE T == S \ {AnyOf(S)}
  <2>1. T \in SUBSET S /\ S \in SUBSET S
    OBVIOUS
  <2>2. IsFiniteSet(T)
    BY <2>1, FS_Subset
  <2>3. PICK g : SumsUp(g, f, SUBSET S) /\ SumOn(f, S) = g[S]
    BY SumOnIs
  <2>4. PICK h : SumsUp(h, f, SUBSET T) /\ SumOn(f, T) = h[T]
    <3> HIDE DEF T
    <3> QED
      BY <2>2, SumOnIs
  <2>5. h[T] = g[T]
    <3> HIDE DEF T
    <3> QED
      BY <2>1, <2>3, <2>4, SumsAgree
  <2>6. g[S] = f[AnyOf(S)] + g[T]
    BY <1>3, <2>1, <2>3 DEF SumsUp
  <2> QED
    BY <2>3, <2>4, <2>5, <2>6
<1> QED
  BY <1>2, <1>3

\* A sum is that of any element and the others.
LEMMA SumSplits ==
  ASSUME NEW f, NEW S, IsFiniteSet(S), \A x \in S : f[x] \in Nat
  PROVE  SumOn(f, S) \in Nat /\ \A x \in S : SumOn(f, S) = f[x] + SumOn(f, S \ {x})
<1> DEFINE Good(s) == SumOn(f, s) \in Nat /\ \A x \in s : SumOn(f, s) = f[x] + SumOn(f, s \ {x})
           Bad == {s \in SUBSET S : ~Good(s)}
<1>1. ASSUME Bad # {} PROVE FALSE
  <2>1. PICK s \in Bad : \A t \in SUBSET s : t # s => t \notin Bad
    <3>1. Bad \subseteq SUBSET S
      OBVIOUS
    <3> HIDE DEF Bad
    <3> QED
      BY <1>1, <3>1, LeastOfSubsets
  <2>2. s \in SUBSET S /\ IsFiniteSet(s)
    <3>1. s \in SUBSET S
      BY <2>1
    <3> QED
      BY <3>1, FS_Subset
  <2>3. s # {}
    <3>1. Good({})
      <4>1. SumOn(f, {}) = 0
        BY <2>2, SumOnFirst
      <4> QED
        BY <4>1
    <3> HIDE DEF Good
    <3> QED
      BY <2>1, <3>1
  <2> DEFINE c == AnyOf(s)
  <2>4. c \in s /\ SumOn(f, s) = f[c] + SumOn(f, s \ {c})
    BY <2>2, <2>3, AnyOfIs, SumOnFirst
  <2> HIDE DEF c
  <2>5. ASSUME NEW t \in SUBSET s, t # s PROVE Good(t)
    <3>1. t \in SUBSET S /\ t \notin Bad
      BY <2>1, <2>2, <2>5
    <3> HIDE DEF Good
    <3> QED
      BY <3>1
  <2>6. SumOn(f, s) \in Nat
    <3>1. Good(s \ {c})
      <4> HIDE DEF Good
      <4> QED
        BY <2>4, <2>5
    <3>2. f[c] \in Nat
      BY <2>2, <2>4
    <3> QED
      BY <2>4, <3>1, <3>2
  <2>7. ASSUME NEW x \in s, x # c PROVE SumOn(f, s) = f[x] + SumOn(f, s \ {x})
    <3> DEFINE both == (s \ {c}) \ {x}
    <3>1. /\ both = (s \ {x}) \ {c} /\ x \in s \ {c} /\ c \in s \ {x}
      BY <2>4, <2>7
    <3>2. Good(s \ {c}) /\ Good(s \ {x}) /\ Good(both)
      <4>1. s \ {c} # s /\ s \ {x} # s /\ both # s /\ both \in SUBSET s
        BY <2>4
      <4> HIDE DEF Good, both
      <4> QED
        BY <2>5, <4>1
    <3>3. f[x] \in Nat /\ f[c] \in Nat
      BY <2>2, <2>4
    <3>4. /\ SumOn(f, s \ {c}) = f[x] + SumOn(f, both)
          /\ SumOn(f, s \ {x}) = f[c] + SumOn(f, both)
          /\ SumOn(f, both) \in Nat
      BY <3>1, <3>2
    <3> HIDE DEF both
    <3> QED
      BY <2>4, <3>3, <3>4
  <2>8. Good(s)
    BY <2>4, <2>6, <2>7
  <2> HIDE DEF Good
  <2> QED
    BY <2>1, <2>8
<1>2. S \in SUBSET S /\ S \notin Bad
  <2> HIDE DEF Bad
  <2> QED
    BY <1>1
<1> QED
  BY <1>2

\* If each part goes over into one that gives no less, in 30 day months, then
\* so does the total.
LEMMA TotalsGrow ==
  ASSUME NEW S, IsFiniteSet(S), NEW T, IsFiniteSet(T), NEW j \in [S -> T],
         \A x, y \in S : j[x] = j[y] => x = y,
         NEW m, NEW d, \A x \in S : m[x] \in Nat /\ d[x] \in Nat,
         NEW n, NEW e, \A x \in T : n[x] \in Nat /\ e[x] \in Nat,
         \A x \in S : 30 * m[x] + d[x] <= 30 * n[j[x]] + e[j[x]]
  PROVE  /\ SumOn(m, S) \in Nat /\ SumOn(d, S) \in Nat /\ SumOn(n, T) \in Nat /\ SumOn(e, T) \in Nat
         /\ 30 * SumOn(m, S) + SumOn(d, S) <= 30 * SumOn(n, T) + SumOn(e, T)
<1> DEFINE Into(s, t) == \A x \in s : j[x] \in t
           Less(s, t) == 30 * SumOn(m, s) + SumOn(d, s) <= 30 * SumOn(n, t) + SumOn(e, t)
           Bad == {s \in SUBSET S : \E t \in SUBSET T : Into(s, t) /\ ~Less(s, t)}
<1>1. ASSUME NEW s \in SUBSET S
      PROVE  /\ IsFiniteSet(s) /\ SumOn(m, s) \in Nat /\ SumOn(d, s) \in Nat
             /\ \A x \in s : /\ SumOn(m, s) = m[x] + SumOn(m, s \ {x})
                             /\ SumOn(d, s) = d[x] + SumOn(d, s \ {x})
                             /\ m[x] \in Nat /\ d[x] \in Nat
  <2>1. IsFiniteSet(s) /\ (\A x \in s : m[x] \in Nat) /\ \A x \in s : d[x] \in Nat
    BY FS_Subset
  <2>2. SumOn(m, s) \in Nat /\ \A x \in s : SumOn(m, s) = m[x] + SumOn(m, s \ {x})
    BY <2>1, SumSplits
  <2>3. SumOn(d, s) \in Nat /\ \A x \in s : SumOn(d, s) = d[x] + SumOn(d, s \ {x})
    BY <2>1, SumSplits
  <2> QED
    BY <2>1, <2>2, <2>3
<1>2. ASSUME NEW t \in SUBSET T
      PROVE  /\ SumOn(n, t) \in Nat /\ SumOn(e, t) \in Nat
             /\ \A x \in t : /\ SumOn(n, t) = n[x] + SumOn(n, t \ {x})
                             /\ SumOn(e, t) = e[x] + SumOn(e, t \ {x})
                             /\ n[x] \in Nat /\ e[x] \in Nat
  <2>1. IsFiniteSet(t) /\ (\A x \in t : n[x] \in Nat) /\ \A x \in t : e[x] \in Nat
    BY FS_Subset
  <2>2. SumOn(n, t) \in Nat /\ \A x \in t : SumOn(n, t) = n[x] + SumOn(n, t \ {x})
    BY <2>1, SumSplits
  <2>3. SumOn(e, t) \in Nat /\ \A x \in t : SumOn(e, t) = e[x] + SumOn(e, t \ {x})
    BY <2>1, SumSplits
  <2> QED
    BY <2>1, <2>2, <2>3
<1>3. ASSUME Bad # {} PROVE FALSE
  <2>1. PICK s \in Bad : \A u \in SUBSET s : u # s => u \notin Bad
    <3>1. Bad \subseteq SUBSET S
      OBVIOUS
    <3> HIDE DEF Bad
    <3> QED
      BY <1>3, <3>1, LeastOfSubsets
  <2>2. PICK t \in SUBSET T : Into(s, t) /\ ~Less(s, t)
    BY <2>1
  <2>3. s \in SUBSET S
    BY <2>1
  <2>4. s # {}
    <3>1. SumOn(m, {}) = 0 /\ SumOn(d, {}) = 0
      BY SumOnFirst
    <3>2. Less({}, t)
      BY <1>2, <3>1
    <3> HIDE DEF Less
    <3> QED
      BY <2>2, <3>2
  <2>5. PICK x \in s : TRUE
    BY <2>4
  <2>6. x \in S /\ j[x] \in t /\ j[x] \in T
    BY <2>2, <2>3
  <2>7. Into(s \ {x}, t \ {j[x]})
    BY <2>2, <2>3
  <2>8. Less(s \ {x}, t \ {j[x]})
    <3>1. /\ s \ {x} \in SUBSET s /\ s \ {x} # s /\ s \ {x} \in SUBSET S
          /\ t \ {j[x]} \in SUBSET T
      BY <2>3
    <3>2. s \ {x} \notin Bad
      <4> HIDE DEF Bad
      <4> QED
        BY <2>1, <3>1
    <3> HIDE DEF Into, Less
    <3> QED
      BY <2>7, <3>1, <3>2
  <2>9. Less(s, t)
    <3>1. /\ SumOn(m, s) = m[x] + SumOn(m, s \ {x}) /\ SumOn(d, s) = d[x] + SumOn(d, s \ {x})
          /\ m[x] \in Nat /\ d[x] \in Nat
          /\ SumOn(m, s \ {x}) \in Nat /\ SumOn(d, s \ {x}) \in Nat
      BY <1>1, <2>3
    <3>2. /\ SumOn(n, t) = n[j[x]] + SumOn(n, t \ {j[x]}) /\ SumOn(e, t) = e[j[x]] + SumOn(e, t \ {j[x]})
          /\ n[j[x]] \in Nat /\ e[j[x]] \in Nat
          /\ SumOn(n, t \ {j[x]}) \in Nat /\ SumOn(e, t \ {j[x]}) \in Nat
      BY <1>2, <2>6
    <3>3. 30 * m[x] + d[x] <= 30 * n[j[x]] + e[j[x]]
      BY <2>6
    <3> QED
      BY <2>8, <3>1, <3>2, <3>3
  <2> HIDE DEF Less
  <2> QED
    BY <2>2, <2>9
<1>4. Less(S, T)
  <2>1. S \in SUBSET S /\ T \in SUBSET T /\ S \notin Bad
    <3> HIDE DEF Bad
    <3> QED
      BY <1>3
  <2>2. Into(S, T)
    OBVIOUS
  <2> HIDE DEF Into, Less
  <2> QED
    BY <2>1, <2>2
<1> QED
  <2>1. S \in SUBSET S /\ T \in SUBSET T
    OBVIOUS
  <2> QED
    BY <1>1, <1>2, <1>4, <2>1

-----------------------------------------------------------------------------
(* Experience by periods: runs of days *)

\* The n-th day counts with weight w.
Serves(c, w, n) == \E p \in Counted(c) \ Conflicting(c) :
                     p.weight = w /\ p.start <= n /\ n <= p.end

\* The run from a to b, of the days up to a day
IsRun(c, w, day, a, b) ==
  /\ a \in Nat /\ b \in Nat /\ a <= b /\ b <= day
  /\ \A n \in a..b : Serves(c, w, n)
  /\ ~Serves(c, w, a - 1)
  /\ b < day => ~Serves(c, w, b + 1)

LEMMA LesserOfTwo ==
  ASSUME NEW a \in Int, NEW b \in Int
  PROVE  Min({a, b}) = IF a <= b THEN a ELSE b
<1> DEFINE r == IF a <= b THEN a ELSE b
<1>1. r \in {a, b} /\ \A y \in {a, b} : r <= y
  OBVIOUS
<1>2. \A x \in {a, b} : (\A y \in {a, b} : x <= y) => x = r
  OBVIOUS
<1> HIDE DEF r
<1>3. Min({a, b}) = r
  BY <1>1, <1>2 DEF Min
<1> QED
  BY <1>3 DEF r

\* The days up to a day that the merging sees
LEMMA DaysServed ==
  ASSUME NEW c, c.periods \subseteq Periods, NEW w, NEW day \in Nat
  PROVE  LET those == {p \in Counted(c) \ Conflicting(c) : p.weight = w /\ p.start <= day}
             end(p) == Min({p.end, day})
             days == UNION {p.start..end(p) : p \in those}
         IN /\ \A p \in those : /\ p.start \in Nat /\ p.end \in Nat /\ p.weight = w
                                /\ end(p) = IF p.end <= day THEN p.end ELSE day
            /\ \A n \in Int : n \in days <=> n <= day /\ Serves(c, w, n)
<1> DEFINE those == {p \in Counted(c) \ Conflicting(c) : p.weight = w /\ p.start <= day}
           end(p) == Min({p.end, day})
           days == UNION {p.start..end(p) : p \in those}
<1>1. \A p \in Counted(c) : p.start \in Nat /\ p.end \in Nat
  BY DEF Counted, Periods
<1>2. ASSUME NEW p \in those
      PROVE  /\ p.start \in Nat /\ p.end \in Nat /\ p.weight = w
             /\ end(p) = IF p.end <= day THEN p.end ELSE day
  <2>1. p.start \in Nat /\ p.end \in Nat /\ p.weight = w
    BY <1>1
  <2> QED
    BY <2>1, LesserOfTwo
<1>3. ASSUME NEW n \in Int
      PROVE  n \in days <=> n <= day /\ Serves(c, w, n)
  <2>1. ASSUME n \in days PROVE n <= day /\ Serves(c, w, n)
    <3>1. PICK p \in those : n \in p.start..end(p)
      BY <2>1
    <3>2. p.start <= n /\ n <= p.end /\ n <= day
      <4> HIDE DEF end, those
      <4> QED
        BY <1>2, <3>1
    <3> QED
      BY <3>1, <3>2 DEF Serves
  <2>2. ASSUME n <= day, Serves(c, w, n) PROVE n \in days
    <3>1. PICK p \in Counted(c) \ Conflicting(c) : p.weight = w /\ p.start <= n /\ n <= p.end
      BY <2>2 DEF Serves
    <3>2. p \in those
      BY <1>1, <2>2, <3>1
    <3>3. n \in p.start..end(p)
      <4> HIDE DEF end, those
      <4> QED
        BY <1>2, <2>2, <3>1, <3>2
    <3> QED
      BY <3>2, <3>3
  <2> QED
    BY <2>1, <2>2
<1> HIDE DEF end, days
<1>4. /\ \A p \in those : /\ p.start \in Nat /\ p.end \in Nat /\ p.weight = w
                          /\ end(p) = IF p.end <= day THEN p.end ELSE day
      /\ \A n \in Int : n \in days <=> n <= day /\ Serves(c, w, n)
  <2> HIDE DEF those
  <2> QED
    BY <1>2, <1>3
<1> QED
  BY <1>4 DEF end, days

\* The merged periods are the runs.
LEMMA MergedIs ==
  ASSUME NEW c, c.periods \subseteq Periods, NEW w, NEW day \in Nat
  PROVE  /\ \A run \in Merged(c, w, day) :
              run = <<run[1], run[2]>> /\ IsRun(c, w, day, run[1], run[2])
         /\ \A a \in Nat, b \in Nat : IsRun(c, w, day, a, b) => <<a, b>> \in Merged(c, w, day)
<1> DEFINE those == {p \in Counted(c) \ Conflicting(c) : p.weight = w /\ p.start <= day}
           end(p) == Min({p.end, day})
           days == UNION {p.start..end(p) : p \in those}
<1>1. /\ \A p \in those : /\ p.start \in Nat /\ p.end \in Nat /\ p.weight = w
                          /\ end(p) = IF p.end <= day THEN p.end ELSE day
      /\ \A n \in Int : n \in days <=> n <= day /\ Serves(c, w, n)
  BY DaysServed
<1>2. Merged(c, w, day) =
        {run \in {<<p.start, end(q)>> : p \in those, q \in those} :
           /\ run[1] <= run[2] /\ run[1]..run[2] \subseteq days
           /\ run[1] - 1 \notin days /\ run[2] + 1 \notin days}
  BY DEF Merged
<1>3. \A p \in those : p.start <= day
  OBVIOUS
<1>4. \A p \in Counted(c) \ Conflicting(c) : p.weight = w /\ p.start <= day => p \in those
  OBVIOUS
<1>5. those \subseteq Counted(c) \ Conflicting(c)
  OBVIOUS
<1> HIDE DEF those, end, days
<1>6. ASSUME NEW run \in Merged(c, w, day)
      PROVE  run = <<run[1], run[2]>> /\ IsRun(c, w, day, run[1], run[2])
  <2>1. PICK p \in those, q \in those : run = <<p.start, end(q)>>
    BY <1>2
  <2> DEFINE a == p.start
             b == end(q)
  <2>2. /\ run = <<a, b>> /\ run[1] = a /\ run[2] = b
        /\ a <= b /\ a..b \subseteq days /\ a - 1 \notin days /\ b + 1 \notin days
    BY <1>2, <2>1
  <2>3. a \in Nat /\ b \in Nat /\ b <= day
    BY <1>1, <1>3, <2>1
  <2> HIDE DEF a, b
  <2>4. \A n \in a..b : Serves(c, w, n)
    BY <1>1, <2>2, <2>3
  <2>5. ~Serves(c, w, a - 1) /\ (b < day => ~Serves(c, w, b + 1))
    <3>1. a - 1 \in Int /\ a - 1 <= day /\ b + 1 \in Int /\ (b < day => b + 1 <= day)
      BY <2>2, <2>3
    <3> QED
      BY <1>1, <2>2, <3>1
  <2>6. IsRun(c, w, day, a, b)
    BY <2>2, <2>3, <2>4, <2>5 DEF IsRun
  <2> QED
    BY <2>2, <2>6
<1>7. ASSUME NEW a \in Nat, NEW b \in Nat, IsRun(c, w, day, a, b)
      PROVE  <<a, b>> \in Merged(c, w, day)
  <2>1. /\ a <= b /\ b <= day /\ (\A n \in a..b : Serves(c, w, n))
        /\ ~Serves(c, w, a - 1) /\ (b < day => ~Serves(c, w, b + 1))
    BY <1>7 DEF IsRun
  <2>2. \A p \in Counted(c) : p.start \in Nat /\ p.end \in Nat
    BY DEF Counted, Periods
  <2>3. PICK p \in Counted(c) \ Conflicting(c) : p.weight = w /\ p.start <= a /\ a <= p.end
    <3>1. a \in a..b
      BY <2>1
    <3> QED
      BY <2>1, <3>1 DEF Serves
  <2>4. p.start = a /\ p \in those
    <3>1. ~(p.start <= a - 1 /\ a - 1 <= p.end)
      BY <2>1, <2>3 DEF Serves
    <3>2. p.start \in Nat /\ p.end \in Nat
      BY <2>2
    <3>3. p.start = a
      BY <2>3, <3>1, <3>2
    <3> QED
      BY <1>4, <2>1, <2>3, <3>3
  <2>5. PICK q \in Counted(c) \ Conflicting(c) : q.weight = w /\ q.start <= b /\ b <= q.end
    <3>1. b \in a..b
      BY <2>1
    <3> QED
      BY <2>1, <3>1 DEF Serves
  <2>6. q \in those /\ end(q) = b
    <3>1. q.start \in Nat /\ q.end \in Nat
      BY <2>2
    <3>2. q \in those
      BY <1>4, <2>1, <2>5, <3>1
    <3>3. b < day => ~(q.start <= b + 1 /\ b + 1 <= q.end)
      BY <2>1, <2>5 DEF Serves
    <3> QED
      BY <1>1, <2>1, <2>5, <3>1, <3>2, <3>3
  <2>7. a..b \subseteq days /\ a - 1 \notin days /\ b + 1 \notin days
    <3>1. a - 1 \in Int /\ b + 1 \in Int /\ (b + 1 <= day => b < day)
          /\ \A n \in a..b : n \in Int /\ n <= day
      BY <2>1
    <3> QED
      BY <1>1, <2>1, <3>1
  <2>8. <<a, b>> \in {<<x.start, end(y)>> : x \in those, y \in those}
    BY <2>4, <2>6
  <2> QED
    BY <1>2, <2>1, <2>7, <2>8
<1> QED
  BY <1>6, <1>7

\* Runs that begin on the same day are one.
LEMMA RunsDiffer ==
  ASSUME NEW c, NEW w, NEW day \in Nat, NEW a \in Nat, NEW x \in Nat, NEW y \in Nat,
         IsRun(c, w, day, a, x), IsRun(c, w, day, a, y)
  PROVE  x = y
<1>1. /\ a <= x /\ x <= day /\ (x < day => ~Serves(c, w, x + 1)) /\ \A n \in a..x : Serves(c, w, n)
      /\ a <= y /\ y <= day /\ (y < day => ~Serves(c, w, y + 1)) /\ \A n \in a..y : Serves(c, w, n)
  BY DEF IsRun
<1>2. x < y => x + 1 \in a..y /\ x < day
  BY <1>1
<1>3. y < x => y + 1 \in a..x /\ y < day
  BY <1>1
<1> QED
  BY <1>1, <1>2, <1>3

\* A run of a day goes over into one of the next that begins with it.
LEMMA RunsGoOn ==
  ASSUME NEW c, NEW w, NEW day \in Nat, NEW a \in Nat, NEW b \in Nat, IsRun(c, w, day, a, b)
  PROVE  IsRun(c, w, day + 1, a, b) \/ (b = day /\ IsRun(c, w, day + 1, a, day + 1))
<1>1. /\ a <= b /\ b <= day /\ (b < day => ~Serves(c, w, b + 1)) /\ ~Serves(c, w, a - 1)
      /\ \A n \in a..b : Serves(c, w, n)
  BY DEF IsRun
<1>2. CASE b < day \/ ~Serves(c, w, day + 1)
  <2>1. b <= day + 1 /\ (b < day + 1 => ~Serves(c, w, b + 1))
    BY <1>1, <1>2
  <2> QED
    BY <1>1, <2>1 DEF IsRun
<1>3. CASE b = day /\ Serves(c, w, day + 1)
  <2>1. \A n \in a..day + 1 : n \in a..b \/ n = day + 1
    BY <1>1, <1>3
  <2>2. /\ \A n \in a..day + 1 : Serves(c, w, n)
        /\ a <= day + 1 /\ day + 1 <= day + 1 /\ day + 1 \in Nat /\ ~(day + 1 < day + 1)
    BY <1>1, <1>3, <2>1
  <2>3. IsRun(c, w, day + 1, a, day + 1)
    BY <1>1, <2>2 DEF IsRun
  <2> QED
    BY <1>3, <2>3
<1> QED
  BY <1>1, <1>2, <1>3

LEMMA MergedIsFinite ==
  ASSUME NEW c, c.periods \subseteq Periods, NEW day \in Nat
  PROVE  IsFiniteSet(UNION {{w} \X Merged(c, w, day) : w \in 1..2})
<1>1. \A w : \A run \in Merged(c, w, day) :
        run = <<run[1], run[2]>> /\ run[1] \in 0..day /\ run[2] \in 0..day
  <2> SUFFICES ASSUME NEW w, NEW run \in Merged(c, w, day)
               PROVE  run = <<run[1], run[2]>> /\ run[1] \in 0..day /\ run[2] \in 0..day
    OBVIOUS
  <2>1. run = <<run[1], run[2]>> /\ IsRun(c, w, day, run[1], run[2])
    BY MergedIs
  <2> QED
    BY <2>1 DEF IsRun
<1> DEFINE all == (1..2) \X ((0..day) \X (0..day))
<1>2. UNION {{w} \X Merged(c, w, day) : w \in 1..2} \subseteq all
  <2> SUFFICES ASSUME NEW w \in 1..2, NEW x \in {w} \X Merged(c, w, day) PROVE x \in all
    OBVIOUS
  <2>1. PICK run \in Merged(c, w, day) : x = <<w, run>>
    OBVIOUS
  <2>2. run \in (0..day) \X (0..day)
    BY <1>1
  <2> QED
    BY <2>1, <2>2
<1>3. IsFiniteSet(all)
  <2>1. IsFiniteSet(0..day) /\ IsFiniteSet(1..2)
    <3>1. 0 \in Int /\ day \in Int /\ 1 \in Int /\ 2 \in Int
      OBVIOUS
    <3>2. IsFiniteSet(0..day)
      BY <3>1, FS_Interval
    <3>3. IsFiniteSet(1..2)
      BY <3>1, FS_Interval
    <3> QED
      BY <3>2, <3>3
  <2>2. IsFiniteSet((0..day) \X (0..day))
    BY <2>1, FS_Product
  <2> QED
    BY <2>1, <2>2, FS_Product
<1> QED
  BY <1>2, <1>3, FS_Subset

-----------------------------------------------------------------------------
(* Experience by periods: the whole of a calculation *)

\* When the service ends, periods end, and none comes into conflict.
LEMMA UntilIs ==
  ASSUME NEW c, c = [periods |-> c.periods, baseline |-> c.baseline], c.periods \subseteq Periods,
         Conflicting(c) = {}, NEW e \in Nat
  PROVE  /\ Until(c, e).periods \subseteq Periods /\ Until(c, e).baseline = c.baseline
         /\ Conflicting(Until(c, e)) = {}
         /\ \A w : \A n \in Int : Serves(Until(c, e), w, n) <=> n <= e /\ Serves(c, w, n)
<1> DEFINE u == Until(c, e)
           cut(p) == IF p.start > e THEN [p EXCEPT !.counts = "no"]
                     ELSE [p EXCEPT !.end = Min({@, e})]
<1>1. u = [periods |-> {cut(p) : p \in c.periods}, baseline |-> c.baseline]
  <2>1. u = [c EXCEPT !.periods = {cut(p) : p \in c.periods}]
    BY DEF Until
  <2> DEFINE all == {cut(p) : p \in c.periods}
             bare == [periods |-> c.periods, baseline |-> c.baseline]
  <2>2. u = [c EXCEPT !.periods = all] /\ c = bare
    BY <2>1
  <2> HIDE DEF all, u, cut
  <2>3. u = [bare EXCEPT !.periods = all]
    BY <2>2
  <2>4. u = [periods |-> all, baseline |-> c.baseline]
    BY <2>3
  <2> QED
    BY <2>4 DEF all
<1>2. ASSUME NEW p \in c.periods
      PROVE  /\ p.start \in Nat /\ p.end \in Nat /\ cut(p) \in Periods
             /\ cut(p).weight = p.weight /\ cut(p).start = p.start
             /\ cut(p).counts = "yes" <=> p.start <= e /\ p.counts = "yes"
             /\ cut(p).counts = "yes" => cut(p).end = IF p.end <= e THEN p.end ELSE e
  <2>1. /\ p \in [start : Nat, end : Nat, weight : 1..2, counts : {"yes", "no", "unfounded"}]
        /\ p.start \in Nat /\ p.end \in Nat /\ p.counts \in {"yes", "no", "unfounded"}
    BY DEF Periods
  <2>2. Min({p.end, e}) = (IF p.end <= e THEN p.end ELSE e) /\ Min({p.end, e}) \in Nat
    BY <2>1, LesserOfTwo
  <2>3. CASE p.start > e
    <3>1. cut(p) = [p EXCEPT !.counts = "no"]
      BY <2>3
    <3> HIDE DEF cut
    <3> QED
      BY <2>1, <2>3, <3>1 DEF Periods
  <2>4. CASE ~(p.start > e)
    <3>1. cut(p) = [p EXCEPT !.end = Min({p.end, e})]
      BY <2>1, <2>4
    <3> HIDE DEF cut
    <3> QED
      BY <2>1, <2>2, <2>4, <3>1 DEF Periods
  <2> QED
    BY <2>3, <2>4
<1> HIDE DEF cut, u
<1>3. u.periods = {cut(p) : p \in c.periods} /\ u.baseline = c.baseline
  BY <1>1
<1>4. Counted(u) = {cut(p) : p \in {q \in Counted(c) : q.start <= e}}
  BY <1>2, <1>3 DEF Counted
<1>5. Counted(c) \subseteq c.periods /\ \A p \in Counted(c) : p.counts = "yes"
  BY DEF Counted
<1>6. Conflicting(u) = {}
  <2> SUFFICES ASSUME NEW x \in Counted(u), NEW y \in Counted(u), x.weight # y.weight,
                      x.start <= y.end, y.start <= x.end
               PROVE  FALSE
    BY DEF Conflicting
  <2>1. PICK p \in Counted(c) : p.start <= e /\ x = cut(p)
    BY <1>4
  <2>2. PICK q \in Counted(c) : q.start <= e /\ y = cut(q)
    BY <1>4
  <2>3. p.weight # q.weight /\ p.start <= q.end /\ q.start <= p.end
    BY <1>2, <1>5, <2>1, <2>2
  <2>4. p \in Conflicting(c)
    BY <2>3 DEF Conflicting
  <2> QED
    BY <2>4
<1>7. ASSUME NEW w, NEW n \in Int
      PROVE  Serves(u, w, n) <=> n <= e /\ Serves(c, w, n)
  <2>1. ASSUME Serves(u, w, n) PROVE n <= e /\ Serves(c, w, n)
    <3>1. PICK x \in Counted(u) : x.weight = w /\ x.start <= n /\ n <= x.end
      BY <2>1 DEF Serves
    <3>2. PICK p \in Counted(c) : p.start <= e /\ x = cut(p)
      BY <1>4
    <3>3. p.weight = w /\ p.start <= n /\ n <= p.end /\ n <= e
      BY <1>2, <1>5, <3>1, <3>2
    <3> QED
      BY <3>3 DEF Serves
  <2>2. ASSUME n <= e, Serves(c, w, n) PROVE Serves(u, w, n)
    <3>1. PICK p \in Counted(c) : p.weight = w /\ p.start <= n /\ n <= p.end
      BY <2>2 DEF Serves
    <3>2. p.start <= e
      BY <1>2, <1>5, <2>2, <3>1
    <3>3. cut(p) \in Counted(u)
      BY <1>4, <3>2
    <3>4. cut(p).weight = w /\ cut(p).start <= n /\ n <= cut(p).end
      BY <1>2, <1>5, <2>2, <3>1, <3>2
    <3> QED
      BY <1>6, <3>3, <3>4 DEF Serves
  <2> QED
    BY <2>1, <2>2
<1>8. u.periods \subseteq Periods
  BY <1>2, <1>3
<1> QED
  BY <1>3, <1>6, <1>7, <1>8 DEF u

\* What is calculated after the end of the service is what was on its last day.
LEMMA CalculatedStays ==
  ASSUME NEW c, c = [periods |-> c.periods, baseline |-> c.baseline], c.periods \subseteq Periods,
         Conflicting(c) = {}, NEW e \in Nat, NEW day \in Nat, e <= day
  PROVE  Calculated(Until(c, e), day) = Calculated(c, e)
<1> DEFINE u == Until(c, e)
<1>1. /\ u.periods \subseteq Periods /\ u.baseline = c.baseline
      /\ \A w : \A n \in Int : Serves(u, w, n) <=> n <= e /\ Serves(c, w, n)
  BY UntilIs
<1> HIDE DEF u
<1>2. ASSUME NEW w, NEW a \in Nat, NEW b \in Nat
      PROVE  IsRun(u, w, day, a, b) <=> IsRun(c, w, e, a, b)
  <2>1. ASSUME IsRun(u, w, day, a, b) PROVE IsRun(c, w, e, a, b)
    <3>1. /\ a <= b /\ (\A n \in a..b : Serves(u, w, n)) /\ ~Serves(u, w, a - 1)
          /\ b < day => ~Serves(u, w, b + 1)
      BY <2>1 DEF IsRun
    <3>2. b \in a..b /\ a - 1 \in Int /\ b + 1 \in Int /\ \A n \in a..b : n \in Int
      BY <3>1
    <3>3. b <= e /\ a - 1 <= e
      BY <1>1, <3>1, <3>2
    <3>4. b < e => b < day /\ b + 1 <= e
      BY <3>3
    <3> QED
      BY <1>1, <3>1, <3>2, <3>3, <3>4 DEF IsRun
  <2>2. ASSUME IsRun(c, w, e, a, b) PROVE IsRun(u, w, day, a, b)
    <3>1. /\ a <= b /\ b <= e /\ (\A n \in a..b : Serves(c, w, n)) /\ ~Serves(c, w, a - 1)
          /\ b < e => ~Serves(c, w, b + 1)
      BY <2>2 DEF IsRun
    <3>2. a - 1 \in Int /\ b + 1 \in Int /\ (\A n \in a..b : n \in Int /\ n <= e) /\ b <= day
          /\ (b + 1 <= e => b < e)
      BY <3>1
    <3> QED
      BY <1>1, <3>1, <3>2 DEF IsRun
  <2> QED
    BY <2>1, <2>2
<1>3. ASSUME NEW w PROVE Merged(u, w, day) = Merged(c, w, e)
  <2>1. /\ \A run \in Merged(u, w, day) : run = <<run[1], run[2]>> /\ IsRun(u, w, day, run[1], run[2])
        /\ \A a \in Nat, b \in Nat : IsRun(u, w, day, a, b) => <<a, b>> \in Merged(u, w, day)
    BY <1>1, MergedIs
  <2>2. /\ \A run \in Merged(c, w, e) : run = <<run[1], run[2]>> /\ IsRun(c, w, e, run[1], run[2])
        /\ \A a \in Nat, b \in Nat : IsRun(c, w, e, a, b) => <<a, b>> \in Merged(c, w, e)
    BY MergedIs
  <2>3. ASSUME NEW run \in Merged(u, w, day) PROVE run \in Merged(c, w, e)
    <3>1. run = <<run[1], run[2]>> /\ IsRun(u, w, day, run[1], run[2])
          /\ run[1] \in Nat /\ run[2] \in Nat
      BY <2>1 DEF IsRun
    <3>2. <<run[1], run[2]>> \in Merged(c, w, e)
      BY <1>2, <2>2, <3>1
    <3> QED
      BY <3>1, <3>2
  <2>4. ASSUME NEW run \in Merged(c, w, e) PROVE run \in Merged(u, w, day)
    <3>1. run = <<run[1], run[2]>> /\ IsRun(c, w, e, run[1], run[2])
          /\ run[1] \in Nat /\ run[2] \in Nat
      BY <2>2 DEF IsRun
    <3>2. <<run[1], run[2]>> \in Merged(u, w, day)
      BY <1>2, <2>1, <3>1
    <3> QED
      BY <3>1, <3>2
  <2> QED
    BY <2>3, <2>4
<1>4. UNION {{w} \X Merged(u, w, day) : w \in 1..2} = UNION {{w} \X Merged(c, w, e) : w \in 1..2}
  BY <1>3
<1>5. Calculated(u, day) = Calculated(c, e)
  BY <1>1, <1>4 DEF Calculated
<1> QED
  BY <1>5 DEF u

LEMMA DurationType ==
  ASSUME NEW s \in Nat, NEW e \in Nat, s <= e + 1
  PROVE  Duration(s, e).months \in Nat /\ Duration(s, e).days \in Nat
<1> DEFINE y == YearsOn(s, e + 1)
           year == Shift(s, 12 * y)
           m == MonthsOn(year, e + 1)
           rest == e + 1 - Shift(year, m)
<1>1. /\ y \in Nat /\ m \in Nat /\ rest \in 0..30
      /\ Duration(s, e) = [months |-> 12 * y + m, days |-> rest]
  BY DurationIs
<1> HIDE DEF y, m, rest
<1> QED
  BY <1>1

\* In 30 day months, an amount that is no less is shown as no less.
LEMMA AmountsInOrder ==
  ASSUME NEW a \in Nat, NEW b \in Nat, NEW r \in 0..29, NEW s \in 0..29,
         30 * a + r <= 30 * b + s
  PROVE  AtLeast(Amount(b, s), Amount(a, r))
<1>1. a < b \/ (a = b /\ r <= s)
  OBVIOUS
<1>2. CASE a < b
  <2>1. a \div 12 < b \div 12 \/ (a \div 12 = b \div 12 /\ a % 12 < b % 12)
    BY <1>2
  <2>2. a \div 12 \in Int /\ b \div 12 \in Int /\ a % 12 \in Int /\ b % 12 \in Int
    OBVIOUS
  <2> QED
    BY <2>1, <2>2 DEF AtLeast, Amount
<1>3. CASE a = b /\ r <= s
  BY <1>3 DEF AtLeast, Amount
<1> QED
  BY <1>1, <1>2, <1>3

\* Weights are 1 or 2, and keep the order.
LEMMA Weighted ==
  ASSUME NEW w \in 1..2, NEW m \in Nat, NEW d \in Nat, NEW n \in Nat, NEW e \in Nat,
         30 * m + d <= 30 * n + e
  PROVE  /\ w * m \in Nat /\ w * d \in Nat /\ w * n \in Nat /\ w * e \in Nat
         /\ 30 * (w * m) + w * d <= 30 * (w * n) + w * e
<1>1. CASE w = 1
  BY <1>1
<1>2. CASE w = 2
  BY <1>2
<1> QED
  BY <1>1, <1>2

\* A calculation grows from one day to the next.
LEMMA CalculatedGrows ==
  ASSUME NEW c, c.periods \subseteq Periods, NEW day \in Nat,
         c.baseline # NoBaseline => {c.baseline.y, c.baseline.m, c.baseline.d} \subseteq Nat
  PROVE  /\ AtLeast(Calculated(c, day + 1), Calculated(c, day))
         /\ AtLeast(Calculated(c, day), Calculated(c, day))
<1> DEFINE runs(t) == UNION {{w} \X Merged(c, w, t) : w \in 1..2}
           part(x) == Duration(x[2][1], x[2][2])
           ms(t) == [x \in runs(t) |-> x[1] * part(x).months]
           ds(t) == [x \in runs(t) |-> x[1] * part(x).days]
           given == IF c.baseline # NoBaseline /\ c.baseline.confirmed THEN c.baseline
                    ELSE [y |-> 0, m |-> 0, d |-> 0]
           M(t) == SumOn(ms(t), runs(t))
           D(t) == SumOn(ds(t), runs(t))
           goesTo(x) == <<x[1], IF x[2] \in Merged(c, x[1], day + 1) THEN x[2]
                                ELSE <<x[2][1], day + 1>>>>
           j == [x \in runs(day) |-> goesTo(x)]
<1>1. day + 1 \in Nat
  OBVIOUS
<1>2. ASSUME NEW t \in Nat, NEW x \in runs(t)
      PROVE  /\ x = <<x[1], x[2]>> /\ x[1] \in 1..2 /\ x[2] \in Merged(c, x[1], t)
             /\ x[2] = <<x[2][1], x[2][2]>> /\ IsRun(c, x[1], t, x[2][1], x[2][2])
             /\ x[2][1] \in Nat /\ x[2][2] \in Nat /\ x[2][1] <= x[2][2]
             /\ part(x).months \in Nat /\ part(x).days \in Nat
  <2>1. PICK w \in 1..2 : x \in {w} \X Merged(c, w, t)
    OBVIOUS
  <2>2. x = <<x[1], x[2]>> /\ x[1] = w /\ x[2] \in Merged(c, w, t)
    BY <2>1
  <2>3. x[2] = <<x[2][1], x[2][2]>> /\ IsRun(c, w, t, x[2][1], x[2][2])
    BY <2>2, MergedIs
  <2>4. x[2][1] \in Nat /\ x[2][2] \in Nat /\ x[2][1] <= x[2][2]
    BY <2>3 DEF IsRun
  <2>5. part(x).months \in Nat /\ part(x).days \in Nat
    <3>1. x[2][1] <= x[2][2] + 1
      BY <2>4
    <3> QED
      BY <2>4, <3>1, DurationType
  <2> QED
    BY <2>2, <2>3, <2>4, <2>5
<1>3. ASSUME NEW x \in runs(day)
      PROVE  /\ goesTo(x) \in runs(day + 1)
             /\ goesTo(x)[1] = x[1] /\ goesTo(x)[2][1] = x[2][1]
             /\ goesTo(x)[2][2] \in {x[2][2], x[2][2] + 1}
  <2> DEFINE w == x[1]
             a == x[2][1]
             b == x[2][2]
  <2>1. /\ x[2] = <<a, b>> /\ IsRun(c, w, day, a, b) /\ a \in Nat /\ b \in Nat /\ w \in 1..2
    BY <1>2
  <2>2. goesTo(x) = <<w, IF <<a, b>> \in Merged(c, w, day + 1) THEN <<a, b>> ELSE <<a, day + 1>>>>
    BY <2>1
  <2> HIDE DEF goesTo, w, a, b
  <2>3. \/ IsRun(c, w, day + 1, a, b)
        \/ b = day /\ IsRun(c, w, day + 1, a, day + 1)
    BY <2>1, RunsGoOn
  <2>4. CASE <<a, b>> \in Merged(c, w, day + 1)
    BY <2>1, <2>2, <2>4 DEF w, a, b
  <2>5. CASE <<a, b>> \notin Merged(c, w, day + 1)
    <3>1. b = day /\ <<a, day + 1>> \in Merged(c, w, day + 1)
      BY <1>1, <2>1, <2>3, <2>5, MergedIs
    <3> QED
      BY <2>1, <2>2, <2>5, <3>1 DEF w, a, b
  <2> QED
    BY <2>4, <2>5
<1> HIDE DEF goesTo
<1>4. ASSUME NEW x \in runs(day), NEW y \in runs(day), goesTo(x) = goesTo(y)
      PROVE  x = y
  <2>1. x[1] = y[1] /\ x[2][1] = y[2][1]
    BY <1>3, <1>4
  <2>2. /\ x = <<x[1], x[2]>> /\ x[2] = <<x[2][1], x[2][2]>>
        /\ y = <<y[1], y[2]>> /\ y[2] = <<y[2][1], y[2][2]>>
        /\ IsRun(c, x[1], day, x[2][1], x[2][2]) /\ IsRun(c, y[1], day, y[2][1], y[2][2])
        /\ x[2][1] \in Nat /\ x[2][2] \in Nat /\ y[2][2] \in Nat
    BY <1>2
  <2>3. x[2][2] = y[2][2]
    <3> HIDE DEF runs
    <3>1. IsRun(c, x[1], day, x[2][1], y[2][2])
      BY <2>1, <2>2
    <3> QED
      BY <2>2, <3>1, RunsDiffer
  <2> HIDE DEF runs
  <2> QED
    BY <2>1, <2>2, <2>3
<1>5. ASSUME NEW x \in runs(day)
      PROVE  /\ 30 * part(x).months + part(x).days
                  <= 30 * part(goesTo(x)).months + part(goesTo(x)).days
             /\ part(goesTo(x)).months \in Nat /\ part(goesTo(x)).days \in Nat
  <2>1. /\ x[2][1] \in Nat /\ x[2][2] \in Nat /\ x[2][1] <= x[2][2] + 1
        /\ part(x).months \in Nat /\ part(x).days \in Nat
    BY <1>2
  <2>2. goesTo(x)[2][1] = x[2][1] /\ goesTo(x)[2][2] \in {x[2][2], x[2][2] + 1}
    BY <1>3
  <2>3. part(goesTo(x)).months \in Nat /\ part(goesTo(x)).days \in Nat
    BY <1>1, <1>2, <1>3
  <2>4. UnitsOf(Duration(x[2][1], x[2][2])) <= UnitsOf(Duration(x[2][1], x[2][2] + 1))
    BY <2>1, DurationGrows
  <2>5. CASE goesTo(x)[2][2] = x[2][2]
    BY <2>1, <2>2, <2>3, <2>5
  <2>6. CASE goesTo(x)[2][2] = x[2][2] + 1
    BY <2>2, <2>3, <2>4, <2>6 DEF UnitsOf
  <2> QED
    BY <2>2, <2>3, <2>5, <2>6
<1>6. \A t \in Nat : IsFiniteSet(runs(t))
  BY MergedIsFinite
<1> DEFINE S == runs(day)
           T == runs(day + 1)
           mS == ms(day)
           dS == ds(day)
           mT == ms(day + 1)
           dT == ds(day + 1)
<1>7. \A x \in S : /\ mS[x] = x[1] * part(x).months /\ dS[x] = x[1] * part(x).days
                   /\ x[1] \in 1..2 /\ part(x).months \in Nat /\ part(x).days \in Nat
  BY <1>2
<1>8. \A x \in T : /\ mT[x] = x[1] * part(x).months /\ dT[x] = x[1] * part(x).days
                   /\ x[1] \in 1..2 /\ part(x).months \in Nat /\ part(x).days \in Nat
  BY <1>1, <1>2
<1>9. j \in [S -> T] /\ (\A x \in S : j[x] = goesTo(x)) /\ \A x, y \in S : j[x] = j[y] => x = y
  BY <1>3, <1>4
<1>10. IsFiniteSet(S) /\ IsFiniteSet(T)
  BY <1>1, <1>6
<1>11. \A x \in S : /\ goesTo(x) \in T /\ goesTo(x)[1] = x[1]
                    /\ 30 * part(x).months + part(x).days
                         <= 30 * part(goesTo(x)).months + part(goesTo(x)).days
  BY <1>3, <1>5
<1> HIDE DEF S, T, mS, dS, mT, dT, j, part, runs, ms, ds
<1>12. \A x \in S : mS[x] \in Nat /\ dS[x] \in Nat
  BY <1>7
<1>13. \A x \in T : mT[x] \in Nat /\ dT[x] \in Nat
  BY <1>8
<1>14. \A x \in S : 30 * mS[x] + dS[x] <= 30 * mT[j[x]] + dT[j[x]]
  <2> SUFFICES ASSUME NEW x \in S PROVE 30 * mS[x] + dS[x] <= 30 * mT[j[x]] + dT[j[x]]
    OBVIOUS
  <2> DEFINE y == goesTo(x)
  <2>1. j[x] = y /\ y \in T /\ y[1] = x[1]
    BY <1>9, <1>11
  <2>2. /\ mS[x] = x[1] * part(x).months /\ dS[x] = x[1] * part(x).days
        /\ mT[y] = x[1] * part(y).months /\ dT[y] = x[1] * part(y).days
        /\ x[1] \in 1..2 /\ part(x).months \in Nat /\ part(x).days \in Nat
        /\ part(y).months \in Nat /\ part(y).days \in Nat
    BY <1>7, <1>8, <2>1
  <2>3. 30 * part(x).months + part(x).days <= 30 * part(y).months + part(y).days
    BY <1>11
  <2> HIDE DEF y
  <2>4. 30 * (x[1] * part(x).months) + x[1] * part(x).days
          <= 30 * (x[1] * part(y).months) + x[1] * part(y).days
    BY <2>2, <2>3, Weighted
  <2> QED
    BY <2>1, <2>2, <2>4
<1>15. /\ SumOn(mS, S) \in Nat /\ SumOn(dS, S) \in Nat /\ SumOn(mT, T) \in Nat /\ SumOn(dT, T) \in Nat
       /\ 30 * SumOn(mS, S) + SumOn(dS, S) <= 30 * SumOn(mT, T) + SumOn(dT, T)
  BY <1>9, <1>10, <1>12, <1>13, <1>14, TotalsGrow
<1>16. /\ M(day) \in Nat /\ D(day) \in Nat /\ M(day + 1) \in Nat /\ D(day + 1) \in Nat
       /\ 30 * M(day) + D(day) <= 30 * M(day + 1) + D(day + 1)
  BY <1>15 DEF S, T, mS, dS, mT, dT
<1>17. \A t : Calculated(c, t)
             = Amount(12 * given.y + given.m + M(t) + (given.d + D(t)) \div 30, (given.d + D(t)) % 30)
  BY DEF Calculated, SumOn, FoldFunction, runs, part, ms, ds
<1>18. given.y \in Nat /\ given.m \in Nat /\ given.d \in Nat
  OBVIOUS
<1> HIDE DEF given, M, D
<1> DEFINE A(t) == 12 * given.y + given.m + M(t) + (given.d + D(t)) \div 30
           R(t) == (given.d + D(t)) % 30
<1>19. \A t \in {day, day + 1} :
         /\ A(t) \in Nat /\ R(t) \in 0..29
         /\ 30 * A(t) + R(t) = 30 * (12 * given.y + given.m + M(t)) + given.d + D(t)
  BY <1>16, <1>18
<1>20. 30 * A(day) + R(day) <= 30 * A(day + 1) + R(day + 1)
  BY <1>16, <1>18, <1>19
<1>21. A(day) \in Nat /\ A(day + 1) \in Nat /\ R(day) \in 0..29 /\ R(day + 1) \in 0..29
  BY <1>19
<1>22. Calculated(c, day) = Amount(A(day), R(day)) /\ Calculated(c, day + 1) = Amount(A(day + 1), R(day + 1))
  BY <1>17
<1> HIDE DEF A, R
<1>23. AtLeast(Amount(A(day + 1), R(day + 1)), Amount(A(day), R(day)))
  BY <1>20, <1>21, AmountsInOrder
<1>24. AtLeast(Amount(A(day), R(day)), Amount(A(day), R(day)))
  <2>1. 30 * A(day) + R(day) <= 30 * A(day) + R(day)
    BY <1>21
  <2> QED
    BY <1>21, <2>1, AmountsInOrder
<1> QED
  BY <1>22, <1>23, <1>24

-----------------------------------------------------------------------------
(* Experience: what is shown never shrinks *)

\* A value that can be shown on a day
IsValueBy(v, day) ==
  \/ v.mode = "none"
  \/ v.mode = "manual" /\ v.anchor \in Nat /\ v.anchor <= day
  \/ /\ v.mode = "calculated" /\ v.calculation \in Histories /\ Conflicting(v.calculation) = {}
     /\ v.calculation.baseline # NoBaseline => v.calculation.baseline.asOf <= day

\* Who has the card has an active one, and brings a value that can be shown, or
\* a day the value has begun by.
RequestIsSound(s) ==
  request[s] # Idle =>
    /\ status = "active"
    /\ request[s].doing = "writes" => IsValueBy(request[s].value, today)
    /\ request[s].doing = "dismisses" =>
         request[s].day \in Int /\ -1 <= request[s].day /\ HasBegunBy(request[s].day)

\* When the service ends, the value has begun.
GrowthIsSound ==
  /\ ExperienceIsSound
  /\ today \in Nat /\ 1 <= today /\ IsValueBy(stored, today)
  /\ ended \in Int /\ -1 <= ended
  /\ ended # -1 => status \in {"dismissed", "archived"} /\ HasBegunBy(ended)
  /\ \A s \in Sessions : RequestIsSound(s)

LEMMA ValueLasts ==
  ASSUME NEW v, NEW day \in Nat, IsValueBy(v, day)
  PROVE  IsValueBy(v, day + 1)
<1>1. ASSUME v.mode = "calculated", v.calculation \in Histories,
             v.calculation.baseline # NoBaseline, v.calculation.baseline.asOf <= day
      PROVE  v.calculation.baseline.asOf <= day + 1
  <2>1. v.calculation.baseline.asOf \in Nat
    BY <1>1, ExperienceAssumption DEF ExperienceAssumption
  <2> QED
    BY <1>1, <2>1
<1>2. v.anchor \in Nat /\ v.anchor <= day => v.anchor <= day + 1
  OBVIOUS
<1> QED
  BY <1>1, <1>2 DEF IsValueBy

\* An amount entered counts from a day that has been.
LEMMA AnchorIsPast ==
  ASSUME NEW v \in Entered, NEW day \in Nat, InCalendar(v, day)
  PROVE  Anchor(v, day) \in Nat /\ Anchor(v, day) <= day
<1>1. v.y \in Nat /\ v.m \in Nat /\ v.d \in Nat /\ 12 * v.y \in Nat /\ MonthOf(day) \in Nat
  BY ExperienceAssumption, MonthOfDay DEF ExperienceAssumption, Amounts
<1>2. 12 * v.y + v.m <= MonthOf(day) /\ Anchor(v, day) >= 0
  BY DEF InCalendar
<1> DEFINE k == 12 * v.y
           a == Shift(day, 0 - k)
<1>3. k \in Nat /\ k <= MonthOf(day)
  BY <1>1, <1>2
<1>4. a \in Nat /\ a <= day /\ MonthOf(a) = MonthOf(day) - k
  BY <1>3, ShiftBack
<1>5. v.m <= MonthOf(a)
  BY <1>1, <1>2, <1>4
<1>6. Anchor(v, day) = Shift(a, 0 - v.m) - v.d
  BY DEF Anchor
<1> HIDE DEF a, k
<1>7. Shift(a, 0 - v.m) \in Nat /\ Shift(a, 0 - v.m) <= a
  BY <1>1, <1>4, <1>5, ShiftBack
<1> QED
  BY <1>1, <1>2, <1>4, <1>6, <1>7

LEMMA GrowthInitIsSound == ExperienceInit => GrowthIsSound
<1> SUFFICES ASSUME ExperienceInit PROVE GrowthIsSound
  OBVIOUS
<1>1. ExperienceIsSound
  BY ExperienceInitIsSound
<1>2. FirstDay \in Nat /\ 1 <= FirstDay
  BY ExperienceAssumption DEF ExperienceAssumption
<1>3. \A s \in Sessions : RequestIsSound(s)
  BY DEF ExperienceInit, RequestIsSound
<1>4. IsValueBy(stored, today)
  BY DEF ExperienceInit, IsValueBy
<1> QED
  BY <1>1, <1>2, <1>3, <1>4 DEF ExperienceInit, GrowthIsSound

\* Who gets the card keeps the others out.
LEMMA HoldsKeepsGrowth ==
  ASSUME GrowthIsSound, ExperienceIsSound', NEW s \in Sessions, NEW what, Holds(s, what),
         what.doing = "writes" => IsValueBy(what.value, today),
         what.doing = "dismisses" => what.day \in Int /\ -1 <= what.day /\ HasBegunBy(what.day)
  PROVE  GrowthIsSound'
<1>1. /\ status = "active" /\ UNCHANGED <<today, stored, status, ended, form>>
      /\ request' = [request EXCEPT ![s] = what] /\ \A r \in Sessions : request[r] = Idle
  BY DEF Holds
<1>2. \A r \in Sessions : request'[r] = IF r = s THEN what ELSE Idle
  BY <1>1 DEF GrowthIsSound, ExperienceIsSound
<1>3. \A r \in Sessions : RequestIsSound(r)'
  BY <1>1, <1>2 DEF RequestIsSound, HasBegunBy
<1> QED
  BY <1>1, <1>3 DEF GrowthIsSound, HasBegunBy

LEMMA GrowthNextIsSound ==
  GrowthIsSound /\ [ExperienceNext]_experienceVars => GrowthIsSound'
<1> SUFFICES ASSUME GrowthIsSound, [ExperienceNext]_experienceVars PROVE GrowthIsSound'
  OBVIOUS
<1> USE DEF GrowthIsSound
<1>a. ExperienceIsSound'
  BY ExperienceNextIsSound
<1>1. CASE UNCHANGED experienceVars
  BY <1>a, <1>1 DEF experienceVars, RequestIsSound, HasBegunBy
<1>2. CASE NextDay
  <2>1. /\ today' = today + 1 /\ UNCHANGED <<stored, status, ended, request>>
        /\ \A s \in Sessions : request[s] = Idle
    BY <1>2 DEF NextDay
  <2>2. \A s \in Sessions : RequestIsSound(s)'
    BY <2>1 DEF RequestIsSound
  <2>3. IsValueBy(stored, today + 1)
    BY ValueLasts
  <2> QED
    BY <1>a, <2>1, <2>2, <2>3 DEF HasBegunBy
<1>3. CASE ArchiveCard
  <2>1. /\ status' = "archived" /\ UNCHANGED <<today, stored, ended, request>>
        /\ \A s \in Sessions : request[s] = Idle
    BY <1>3 DEF ArchiveCard
  <2>2. \A s \in Sessions : RequestIsSound(s)'
    BY <2>1 DEF RequestIsSound
  <2> QED
    BY <1>a, <2>1, <2>2 DEF HasBegunBy
<1>4. ASSUME NEW s \in Sessions, Commit(s) \/ GiveUp(s) PROVE GrowthIsSound'
  <2>1. request' = [request EXCEPT ![s] = Idle] /\ today' = today
    BY <1>4 DEF Commit, GiveUp
  <2>2. \A r \in Sessions : request'[r] = IF r = s THEN Idle ELSE request[r]
    BY <2>1 DEF ExperienceIsSound
  <2>3. CASE GiveUp(s)
    <3>1. UNCHANGED <<today, stored, status, ended>>
      BY <2>3 DEF GiveUp
    <3>2. \A r \in Sessions : RequestIsSound(r)'
      BY <2>2, <3>1 DEF RequestIsSound, HasBegunBy
    <3> QED
      BY <1>a, <3>1, <3>2 DEF HasBegunBy
  <2>4. CASE Commit(s)
    <3>1. request[s] # Idle
      BY <2>4 DEF Commit, Idle
    <3>2. status = "active" /\ ended = -1 /\ RequestIsSound(s)
      BY <3>1 DEF RequestIsSound
    <3>3. \A r \in Sessions : request'[r] = Idle
      BY <2>2, <3>1 DEF ExperienceIsSound, WriteIsSound
    <3>4. \A r \in Sessions : RequestIsSound(r)'
      BY <3>3 DEF RequestIsSound
    <3>5. CASE request[s].doing = "writes"
      <4>1. stored' = request[s].value /\ UNCHANGED <<status, ended>>
        BY <2>4, <3>5 DEF Commit
      <4>2. IsValueBy(request[s].value, today)
        BY <3>1, <3>2, <3>5 DEF RequestIsSound
      <4> QED
        BY <1>a, <2>1, <3>2, <3>4, <4>1, <4>2
    <3>6. CASE request[s].doing = "dismisses"
      <4>1. status' = "dismissed" /\ ended' = request[s].day /\ stored' = stored
        BY <2>4, <3>6 DEF Commit
      <4>2. request[s].day \in Int /\ -1 <= request[s].day /\ HasBegunBy(request[s].day)
        BY <3>1, <3>2, <3>6 DEF RequestIsSound
      <4> QED
        BY <1>a, <2>1, <3>4, <4>1, <4>2 DEF HasBegunBy
    <3> QED
      BY <2>4, <3>5, <3>6 DEF Commit
  <2> QED
    BY <1>4, <2>3, <2>4
<1>5. ASSUME NEW c \in Calculators, OpenForm(c) PROVE GrowthIsSound'
  <2>1. UNCHANGED <<today, stored, status, ended, request>>
    BY <1>5 DEF OpenForm
  <2> QED
    BY <1>a, <2>1 DEF RequestIsSound, HasBegunBy
<1>6. ASSUME NEW c \in Calculators, BeginCalculation(c) PROVE GrowthIsSound'
  <2>1. PICK h \in Histories :
          /\ CanSave(h, today)
          /\ Holds(c, [doing |-> "writes", value |-> [mode |-> "calculated", calculation |-> h]])
    BY <1>6 DEF BeginCalculation
  <2>2. IsValueBy([mode |-> "calculated", calculation |-> h], today)
    BY <2>1 DEF IsValueBy, CanSave
  <2>3. c \in Sessions
    BY DEF Sessions
  <2> QED
    BY <1>a, <2>1, <2>2, <2>3, HoldsKeepsGrowth
<1>7. ASSUME NEW v \in Entered, NEW day \in Nat, day <= today, InCalendar(v, day)
      PROVE  IsValueBy(Manual(v, day), today)
  <2>1. Anchor(v, day) \in Nat /\ Anchor(v, day) <= day
    BY <1>7, AnchorIsPast
  <2>2. Anchor(v, day) <= today
    BY <1>7, <2>1
  <2> QED
    BY <2>1, <2>2 DEF IsValueBy, Manual
<1>8. ASSUME NEW c \in Calculators, BeginManual(c) PROVE GrowthIsSound'
  <2>1. PICK v \in Entered, day \in FirstDay - 1..today :
          /\ InCalendar(v, day)
          /\ Holds(c, [doing |-> "writes", value |-> Manual(v, day)])
    BY <1>8 DEF BeginManual
  <2>2. day \in Nat /\ day <= today
    BY <2>1, ExperienceAssumption DEF ExperienceAssumption
  <2>3. IsValueBy(Manual(v, day), today) /\ c \in Sessions
    BY <1>7, <2>1, <2>2 DEF Sessions
  <2> QED
    BY <1>a, <2>1, <2>3, HoldsKeepsGrowth
<1>9. ASSUME NEW w \in Writers, BeginPlain(w) PROVE GrowthIsSound'
  <2>1. PICK v \in Entered :
          /\ InCalendar(v, today)
          /\ Holds(w, [doing |-> "writes", value |-> Manual(v, today)])
    BY <1>9 DEF BeginPlain
  <2>2. IsValueBy(Manual(v, today), today) /\ w \in Sessions
    BY <1>7, <2>1 DEF Sessions
  <2> QED
    BY <1>a, <2>1, <2>2, HoldsKeepsGrowth
<1>10. ASSUME NEW w \in Writers, BeginDismiss(w) PROVE GrowthIsSound'
  <2>1. PICK day \in today - 2..today + 1 :
          HasBegunBy(day) /\ Holds(w, [doing |-> "dismisses", day |-> day])
    BY <1>10 DEF BeginDismiss
  <2>2. day \in Int /\ -1 <= day /\ w \in Sessions
    BY DEF Sessions
  <2> QED
    BY <1>a, <2>1, <2>2, HoldsKeepsGrowth
<1> QED
  BY <1>1, <1>2, <1>3, <1>4, <1>5, <1>6, <1>8, <1>9, <1>10 DEF ExperienceNext

\* The effective day moves on by a day, or stays.
LEMMA EffectiveDays ==
  ASSUME GrowthIsSound
  PROVE  /\ EffectiveOn(today) \in Nat /\ EffectiveOn(today) <= today
         /\ EffectiveOn(today + 1) \in {EffectiveOn(today), EffectiveOn(today) + 1}
         /\ EffectiveOn(today + 1) <= today + 1
         /\ stored.mode = "manual" => stored.anchor <= EffectiveOn(today)
<1> USE DEF GrowthIsSound
<1>1. today \in Nat /\ today + 1 \in Nat /\ ended \in Int /\ -1 <= ended
  OBVIOUS
<1>2. stored.mode = "manual" => stored.anchor <= today
  BY DEF IsValueBy
<1>3. CASE status \in {"dismissed", "archived"} /\ ended # -1
  <2>1. /\ EffectiveOn(today) = IF today <= ended THEN today ELSE ended
        /\ EffectiveOn(today + 1) = IF today + 1 <= ended THEN today + 1 ELSE ended
    BY <1>1, <1>3, LesserOfTwo DEF EffectiveOn
  <2>2. stored.mode = "manual" => stored.anchor <= ended
    BY <1>3 DEF HasBegunBy
  <2> QED
    BY <1>1, <1>2, <1>3, <2>1, <2>2
<1>4. CASE ~(status \in {"dismissed", "archived"} /\ ended # -1)
  <2>1. EffectiveOn(today) = today /\ EffectiveOn(today + 1) = today + 1
    BY <1>4 DEF EffectiveOn
  <2> QED
    BY <1>1, <1>2, <2>1
<1> QED
  BY <1>3, <1>4

\* What is shown depends on the effective day alone.
LEMMA ShownIs ==
  ASSUME GrowthIsSound, stored.mode = "calculated", NEW day \in {today, today + 1}
  PROVE  ShownOn(day) = Calculated(stored.calculation, EffectiveOn(day))
<1> DEFINE c == stored.calculation
           e == EffectiveOn(day)
<1>1. /\ c = [periods |-> c.periods, baseline |-> c.baseline] /\ c.periods \subseteq Periods
      /\ Conflicting(c) = {}
  BY ExperienceAssumption DEF ExperienceAssumption, GrowthIsSound, IsValueBy
<1>2. e \in Nat /\ day \in Nat /\ e <= day
  BY EffectiveDays DEF GrowthIsSound
<1>3. ShownOn(day) = Calculated(IF e < day THEN Until(c, e) ELSE c, day)
  BY DEF ShownOn
<1> HIDE DEF c, e
<1>4. CASE e < day
  BY <1>1, <1>2, <1>3, <1>4, CalculatedStays DEF c, e
<1>5. CASE ~(e < day)
  BY <1>2, <1>3, <1>5 DEF c, e
<1> QED
  BY <1>4, <1>5

\* From day to day what is shown never shrinks, and it can be read.
LEMMA GrowthShows == GrowthIsSound => ExperienceOnlyGrows
<1> SUFFICES ASSUME GrowthIsSound, stored.mode # "none"
             PROVE  /\ IsReadableOn(today)
                    /\ AtLeast(ShownOn(today + 1), ShownOn(today))
                    /\ EffectiveOn(today + 1) = EffectiveOn(today) => ShownOn(today + 1) = ShownOn(today)
  BY DEF ExperienceOnlyGrows
<1> DEFINE e == EffectiveOn(today)
           f == EffectiveOn(today + 1)
<1>1. e \in Nat /\ f \in {e, e + 1} /\ f \in Nat /\ e <= f
  BY EffectiveDays
<1>2. IsValueBy(stored, today)
  BY DEF GrowthIsSound
<1>3. CASE stored.mode = "manual"
  <2>1. stored.anchor \in Nat /\ stored.anchor <= e
    BY <1>2, <1>3, EffectiveDays DEF IsValueBy
  <2>2. ShownOn(today) = FromAnchor(stored.anchor, e) /\ ShownOn(today + 1) = FromAnchor(stored.anchor, f)
    BY <1>3 DEF ShownOn
  <2>3. IsReadableOn(today)
    BY <1>3, <2>1 DEF IsReadableOn
  <2> HIDE DEF e, f
  <2>4. AtLeast(FromAnchor(stored.anchor, f), FromAnchor(stored.anchor, e))
    BY <1>1, <2>1, FromAnchorGrows
  <2> QED
    BY <2>2, <2>3, <2>4 DEF e, f
<1>4. CASE stored.mode = "calculated"
  <2> DEFINE c == stored.calculation
  <2>1. c \in Histories /\ (c.baseline # NoBaseline => c.baseline.asOf <= today)
    BY <1>2, <1>4 DEF IsValueBy
  <2>2. /\ c.periods \subseteq Periods
        /\ c.baseline # NoBaseline => {c.baseline.y, c.baseline.m, c.baseline.d} \subseteq Nat
    <3> HIDE DEF c
    <3> QED
      BY <2>1, ExperienceAssumption DEF ExperienceAssumption
  <2>3. IsReadableOn(today)
    BY <1>4, <2>1 DEF IsReadableOn
  <2>4. ShownOn(today) = Calculated(c, e) /\ ShownOn(today + 1) = Calculated(c, f)
    BY <1>4, ShownIs
  <2> HIDE DEF e, f, c
  <2>5. AtLeast(Calculated(c, f), Calculated(c, e))
    <3>1. CASE f = e
      BY <1>1, <2>2, <3>1, CalculatedGrows
    <3>2. CASE f = e + 1
      BY <1>1, <2>2, <3>2, CalculatedGrows
    <3> QED
      BY <1>1, <3>1, <3>2
  <2> QED
    BY <2>3, <2>4, <2>5 DEF e, f
<1> QED
  BY <1>2, <1>3, <1>4 DEF IsValueBy

\* What is stored or about to be can be shown, and had begun when the service
\* ended, whoever writes, dismisses or archives, and on whatever day.
THEOREM GrowthIsAlwaysSound == ExperienceSpec => []GrowthIsSound
BY GrowthInitIsSound, GrowthNextIsSound, PTL DEF ExperienceSpec

\* From one day to the next what is shown never shrinks, whatever the lengths of
\* months, the weights, overlaps and rounding; once the service has ended it
\* stays, and what is stored can always be read.
THEOREM ExperienceOnlyGrowsHolds == ExperienceSpec => []ExperienceOnlyGrows
BY GrowthIsAlwaysSound, GrowthShows, PTL
=============================================================================
