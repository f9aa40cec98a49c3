----------------------- MODULE AttachmentStorage_proofs -----------------------
(***************************************************************************)
(* Proofs about AttachmentStorage, for any number of cards, files and      *)
(* requests.                                                               *)
(***************************************************************************)
EXTENDS AttachmentStorage, TLAPS

\* The induction hypothesis that holds even when answers of commits are lost
Coherent == TasksAreSound /\ RowsAreSound /\ WritesAreAllowed

-----------------------------------------------------------------------------
(* Rows *)

LEMMA FirstCard == AnyCard \in Cards
BY ConstantsAssumption DEF AnyCard

\* New and absent rows own no files, and a request without a task has none.
LEMMA BlankRows ==
  /\ Absent \in CardRow /\ New \in CardRow
  /\ Absent.state = "none" /\ New.state = "open"
  /\ Absent.ref = NoKey /\ New.ref = NoKey
  /\ \A k \in StorageKeys : Absent.attachment[k] = "none" /\ New.attachment[k] = "none"
BY DEF Absent, New, CardRow, States, Ended

LEMMA BlankWork ==
  /\ NoWork \in [task : {"file", "archive", "other"}, kind : Owned \cup {"report"},
                 card : Cards, key : StorageKeys \cup {NoKey}, seen : States]
  /\ NoWork.task = "other"
BY FirstCard DEF NoWork, States, Owned

\* Marking changes one file of one kind.
LEMMA MarkedRow ==
  ASSUME NEW row \in CardRow, NEW kind \in Owned, NEW k \in StorageKeys,
         NEW state \in States \ {"none"}
  PROVE  LET new == Marked(row, kind, k, state) IN
         /\ new \in CardRow
         /\ new.state = row.state /\ new.ref = row.ref
         /\ \A j \in StorageKeys : new.attachment[j] # row.attachment[j] =>
              j = k /\ kind = "attachment" /\ new.attachment[j] = state
<1>1. CASE kind = "attachment"
  <2> DEFINE f == [row.attachment EXCEPT ![k] = state]
  <2>1. f \in [StorageKeys -> States] /\ \A j \in StorageKeys \ {k} : f[j] = row.attachment[j]
    BY DEF CardRow
  <2>2. f[k] = state
    BY DEF CardRow
  <2>3. Marked(row, kind, k, state) = [row EXCEPT !.attachment = f]
    BY <1>1 DEF Marked
  <2> HIDE DEF f
  <2> QED
    BY <1>1, <2>1, <2>2, <2>3 DEF CardRow
<1>2. CASE kind = "document"
  <2> DEFINE f == [row.document EXCEPT ![k] = state]
  <2>1. f \in [StorageKeys -> States]
    BY DEF CardRow
  <2>2. Marked(row, kind, k, state) = [row EXCEPT !.document = f]
    BY <1>2 DEF Marked
  <2> HIDE DEF f
  <2> QED
    BY <1>2, <2>1, <2>2 DEF CardRow
<1> QED
  BY <1>1, <1>2 DEF Owned

\* The copy of a sound row is sound.
LEMMA CopiedRow ==
  ASSUME NEW row \in CardRow, NEW stored, Sound(row, stored)
  PROVE  /\ Copied(row) \in CardRow /\ Sound(Copied(row), stored)
         /\ Copied(row).ref # NoKey => Copied(row).attachment[Copied(row).ref] = "live"
<1>1. CASE row.ref = NoKey \/ row.attachment[row.ref] # "live"
  BY <1>1, BlankRows DEF Copied, Sound
<1>2. CASE row.ref # NoKey /\ row.attachment[row.ref] = "live"
  <2> DEFINE f == [New.attachment EXCEPT ![row.ref] = "live"]
  <2>1. row.ref \in StorageKeys /\ row.ref \in stored
    BY <1>2 DEF CardRow, Sound
  <2>2. f \in [StorageKeys -> States] /\ f[row.ref] = "live"
        /\ \A k \in StorageKeys \ {row.ref} : f[k] = "none"
    BY <2>1, BlankRows DEF CardRow, States
  <2>3. Copied(row) = [New EXCEPT !.ref = row.ref, !.attachment = f]
    BY <1>2 DEF Copied
  <2> HIDE DEF f
  <2>4. /\ Copied(row) \in CardRow
        /\ Copied(row).ref = row.ref /\ Copied(row).attachment = f
    BY <2>1, <2>2, <2>3, BlankRows, ZenonT(30) DEF CardRow
  <2> QED
    BY <2>1, <2>2, <2>4 DEF Sound
<1> QED
  BY <1>1, <1>2

\* More files do not make a row unsound.
LEMMA SoundGrows ==
  ASSUME NEW row, NEW small, NEW large, small \subseteq large, Sound(row, small)
  PROVE  Sound(row, large)
BY DEF Sound

-----------------------------------------------------------------------------
(* Writing one card *)

\* A request without a file that locks one card, with a sound row that keeps
\* the files of an ended card, preserves everything.
LEMMA OneWrite ==
  ASSUME TypeOK, Coherent,
         NEW r \in Requests, NEW c \in Cards, NEW row \in CardRow,
         stage[r] \in {"idle", "lock", "sync"},
         Lock(r, c, row), Goto(r, "commit"),
         UNCHANGED <<disk, rows, work, pending>>,
         Sound(row, storedFiles),
         Allowed(card[c], row)
  PROVE  TypeOK' /\ Coherent' /\ (FilesAreKept => FilesAreKept')
<1> USE DEF disk, rows
<1>1. TypeOK'
  BY DEF TypeOK, Lock, Goto
<1>2. \A s \in Requests : InFlight(s)' = InFlight(s)
  BY DEF Coherent, TasksAreSound, InFlight, TypeOK, Goto
<1>3. \A d \in Cards : lock'[d] = IF d = c THEN r ELSE lock[d]
  BY DEF Lock, TypeOK
<1>4. /\ unsaved'[r][c] = row
      /\ \A s \in Requests, d \in Cards :
           ~(s = r /\ d = c) => unsaved'[s][d] = unsaved[s][d]
  BY DEF Lock, TypeOK
<1>5. TasksAreSound'
  BY <1>3, ConstantsAssumption
  DEF Coherent, TasksAreSound, TypeOK, Lock, Goto, Editable
<1>6. RowsAreSound'
  <2>1. SUFFICES ASSUME NEW d \in Cards, NEW s \in Requests, lock'[d] = s
                 PROVE  Sound(unsaved'[s][d], storedFiles \cup InFlight(s))
    BY <1>2 DEF Coherent, RowsAreSound
  <2>2. CASE d = c
    BY <1>3, <1>4, <2>1, <2>2, SoundGrows
  <2>3. CASE d # c
    BY <1>3, <1>4, <2>1, <2>3 DEF Coherent, RowsAreSound
  <2> QED
    BY <2>2, <2>3
<1>7. WritesAreAllowed'
  BY <1>3, <1>4 DEF Coherent, WritesAreAllowed
<1>8. FilesAreKept => FilesAreKept'
  BY <1>2 DEF FilesAreKept
<1> QED
  BY <1>1, <1>5, <1>6, <1>7, <1>8 DEF Coherent

-----------------------------------------------------------------------------
(* The end of a transaction *)

\* What a released request leaves: nothing of its own, all of the others'.
LEMMA Released ==
  ASSUME TypeOK, NEW r \in Requests, Release(r)
  PROVE  /\ lock' \in [Cards -> Requests \cup {NoRequest}]
         /\ stage' \in [Requests -> {"idle", "write", "file", "lock", "sync", "commit"}]
         /\ work' \in [Requests -> [task : {"file", "archive", "other"},
                                    kind : Owned \cup {"report"}, card : Cards,
                                    key : StorageKeys \cup {NoKey}, seen : States]]
         /\ pending' \in [Requests -> SUBSET StorageKeys]
         /\ unsaved' \in [Requests -> [Cards -> CardRow]]
         /\ stage'[r] = "idle" /\ work'[r].task = "other" /\ pending'[r] = {}
         /\ InFlight(r)' = {}
         /\ \A s \in Requests \ {r} :
              /\ stage'[s] = stage[s] /\ work'[s] = work[s] /\ pending'[s] = pending[s]
              /\ unsaved'[s] = unsaved[s] /\ InFlight(s)' = InFlight(s)
         /\ \A d \in Cards, s \in Requests :
              lock'[d] = s <=> lock[d] = s /\ s # r
<1>1. /\ stage'[r] = "idle" /\ work'[r] = NoWork /\ pending'[r] = {}
      /\ \A s \in Requests \ {r} :
           /\ stage'[s] = stage[s] /\ work'[s] = work[s] /\ pending'[s] = pending[s]
           /\ unsaved'[s] = unsaved[s]
  BY DEF TypeOK, Release, Goto
<1>2. /\ InFlight(r)' = {}
      /\ \A s \in Requests \ {r} : InFlight(s)' = InFlight(s)
  BY <1>1 DEF InFlight
<1>3. /\ \A d \in Cards, s \in Requests : lock'[d] = s <=> lock[d] = s /\ s # r
      /\ lock' \in [Cards -> Requests \cup {NoRequest}]
  BY ConstantsAssumption DEF TypeOK, Release
<1>4. unsaved' \in [Requests -> [Cards -> CardRow]]
  BY BlankRows DEF TypeOK, Release
<1>5. stage' \in [Requests -> {"idle", "write", "file", "lock", "sync", "commit"}]
      /\ pending' \in [Requests -> SUBSET StorageKeys]
  BY DEF TypeOK, Release, Goto
<1>6. work' \in [Requests -> [task : {"file", "archive", "other"},
                             kind : Owned \cup {"report"}, card : Cards,
                             key : StorageKeys \cup {NoKey}, seen : States]]
  BY BlankWork DEF TypeOK, Release
<1> QED
  BY <1>1, <1>2, <1>3, <1>4, <1>5, <1>6, BlankWork

\* A request that ends without a commit takes its rows with it.
LEMMA EndedWithoutCommit ==
  ASSUME TypeOK, Coherent, NEW r \in Requests, Release(r), UNCHANGED rows,
         files' \subseteq StorageKeys, abandoned' \subseteq StorageKeys
  PROVE  TypeOK' /\ Coherent'
<1> USE Released DEF rows
<1>1. TypeOK'
  BY DEF TypeOK
<1>2. TasksAreSound'
  BY ConstantsAssumption DEF Coherent, TasksAreSound, TypeOK, Editable
<1>3. RowsAreSound'
  <2>1. \A c \in Cards : Sound(card'[c], storedFiles')
    BY DEF Coherent, RowsAreSound
  <2>2. ASSUME NEW c \in Cards, NEW s \in Requests, lock'[c] = s
        PROVE  Sound(unsaved'[s][c], storedFiles' \cup InFlight(s)')
    <3>1. lock[c] = s /\ s # r
      BY <2>2
    <3>2. Sound(unsaved[s][c], storedFiles \cup InFlight(s))
      BY <3>1 DEF Coherent, RowsAreSound
    <3>3. /\ unsaved'[s] = unsaved[s] /\ InFlight(s)' = InFlight(s)
          /\ storedFiles' = storedFiles
      BY <3>1
    <3> QED
      BY <3>2, <3>3
  <2> QED
    BY <2>1, <2>2 DEF RowsAreSound
<1>4. WritesAreAllowed'
  BY DEF Coherent, WritesAreAllowed
<1> QED
  BY <1>1, <1>2, <1>3, <1>4 DEF Coherent

\* A committed request leaves sound rows, and ended cards as they were.
LEMMA EndedWithCommit ==
  ASSUME TypeOK, Coherent, NEW r \in Requests, stage[r] = "commit",
         Publish(r), Release(r), files' \subseteq StorageKeys, abandoned' \subseteq StorageKeys
  PROVE  /\ TypeOK' /\ Coherent'
         /\ storedFiles' = storedFiles \cup InFlight(r)
         /\ \A c \in Cards : Allowed(card[c], card'[c])
<1> USE Released
<1>1. storedFiles' = storedFiles \cup InFlight(r)
  BY DEF Publish, InFlight
<1>2. /\ \A c \in Cards : card'[c] = IF lock[c] = r THEN unsaved[r][c] ELSE card[c]
      /\ card' \in [Cards -> CardRow]
  BY DEF Publish, TypeOK
<1>3. TypeOK'
  <2>1. InFlight(r) \subseteq StorageKeys
    BY DEF InFlight, Coherent, TasksAreSound
  <2> QED
    BY <1>1, <1>2, <2>1 DEF TypeOK
<1>4. TasksAreSound'
  <2>1. \A s \in Requests \ {r} : stage'[s] = stage[s] /\ work'[s] = work[s]
    OBVIOUS
  <2>2. ASSUME NEW s \in Requests, stage'[s] \in {"write", "file"},
               work'[s].kind \in Owned
        PROVE  lock'[work'[s].card] = s /\ Editable(card'[work'[s].card])
    <3>1. s # r /\ stage[s] \in {"write", "file"} /\ work'[s] = work[s]
      BY <2>2
    <3>2. work[s].card \in Cards
      BY DEF TypeOK
    <3>3. lock[work[s].card] = s /\ Editable(card[work[s].card])
      BY <2>2, <3>1 DEF Coherent, TasksAreSound
    <3> QED
      BY <1>2, <3>1, <3>2, <3>3
  <2>3. stage'[r] = "idle" /\ work'[r].task = "other"
    OBVIOUS
  <2> QED
    BY <1>1, <2>1, <2>2, <2>3 DEF Coherent, TasksAreSound
<1>5. RowsAreSound'
  <2>1. ASSUME NEW c \in Cards
        PROVE  Sound(card'[c], storedFiles')
    <3>1. CASE lock[c] = r
      BY <1>1, <1>2, <3>1 DEF Coherent, RowsAreSound
    <3>2. CASE lock[c] # r
      BY <1>1, <1>2, <3>2, SoundGrows DEF Coherent, RowsAreSound
    <3> QED
      BY <3>1, <3>2
  <2>2. ASSUME NEW c \in Cards, NEW s \in Requests, lock'[c] = s
        PROVE  Sound(unsaved'[s][c], storedFiles' \cup InFlight(s)')
    <3>1. lock[c] = s /\ s # r
      BY <2>2
    <3>2. Sound(unsaved[s][c], storedFiles \cup InFlight(s))
      BY <3>1 DEF Coherent, RowsAreSound
    <3>3. unsaved'[s] = unsaved[s] /\ InFlight(s)' = InFlight(s)
      BY <3>1
    <3>4. storedFiles \cup InFlight(s) \subseteq storedFiles' \cup InFlight(s)'
      BY <1>1, <3>3
    <3> QED
      BY <3>2, <3>3, <3>4, SoundGrows
  <2> QED
    BY <2>1, <2>2 DEF RowsAreSound
<1>6. WritesAreAllowed'
  <2>1. ASSUME NEW c \in Cards, NEW s \in Requests, lock'[c] = s
        PROVE  Allowed(card'[c], unsaved'[s][c])
    <3>1. lock[c] = s /\ s # r
      BY <2>1
    <3>2. card'[c] = card[c] /\ unsaved'[s] = unsaved[s]
      BY <1>2, <3>1
    <3> QED
      BY <3>1, <3>2 DEF Coherent, WritesAreAllowed
  <2> QED
    BY <2>1 DEF WritesAreAllowed
<1>7. ASSUME NEW c \in Cards PROVE Allowed(card[c], card'[c])
  <2>1. CASE lock[c] = r
    BY <1>2, <2>1 DEF Coherent, WritesAreAllowed
  <2>2. CASE lock[c] # r
    BY <1>2, <2>2 DEF Allowed, SameFiles
  <2> QED
    BY <2>1, <2>2
<1> QED
  BY <1>1, <1>3, <1>4, <1>5, <1>6, <1>7 DEF Coherent

\* A released request without a commit deletes at most its own files.
LEMMA KeptWithoutCommit ==
  ASSUME TypeOK, Coherent, FilesAreKept, NEW r \in Requests, Release(r),
         UNCHANGED rows, NEW lost, lost \subseteq InFlight(r), files \ lost \subseteq files'
  PROVE  FilesAreKept'
<1> USE Released DEF rows
<1>1. storedFiles' \subseteq files'
  BY DEF FilesAreKept
<1>2. ASSUME NEW s \in Requests
      PROVE  pending'[s] \subseteq InFlight(s)' /\ InFlight(s)' \subseteq files' \ storedFiles'
  <2>1. CASE s = r
    BY <2>1
  <2>2. CASE s # r
    <3>1. InFlight(s) \cap lost = {}
      BY <2>2 DEF FilesAreKept
    <3>2. pending[s] \subseteq InFlight(s) /\ InFlight(s) \subseteq files \ storedFiles
      BY DEF FilesAreKept
    <3>3. /\ pending'[s] = pending[s] /\ InFlight(s)' = InFlight(s)
          /\ storedFiles' = storedFiles
      BY <2>2
    <3> QED
      BY <3>1, <3>2, <3>3
  <2> QED
    BY <2>1, <2>2
<1>3. ASSUME NEW s \in Requests, NEW t \in Requests, s # t
      PROVE  InFlight(s)' \cap InFlight(t)' = {}
  <2>1. CASE s = r \/ t = r
    BY <2>1
  <2>2. CASE s # r /\ t # r
    BY <1>3, <2>2 DEF FilesAreKept
  <2> QED
    BY <2>1, <2>2
<1> QED
  BY <1>1, <1>2, <1>3 DEF FilesAreKept

\* A commit whose answer arrives deletes nothing and stores what is on disk.
LEMMA KeptWithCommit ==
  ASSUME TypeOK, Coherent, FilesAreKept, NEW r \in Requests, Release(r),
         files' = files, storedFiles' = storedFiles \cup InFlight(r)
  PROVE  FilesAreKept'
<1> USE Released
<1>1. storedFiles' \subseteq files'
  BY DEF FilesAreKept
<1>2. ASSUME NEW s \in Requests
      PROVE  pending'[s] \subseteq InFlight(s)' /\ InFlight(s)' \subseteq files' \ storedFiles'
  <2>1. CASE s = r
    BY <2>1
  <2>2. CASE s # r
    <3>1. InFlight(s) \cap InFlight(r) = {}
      BY <2>2 DEF FilesAreKept
    <3>2. pending[s] \subseteq InFlight(s) /\ InFlight(s) \subseteq files \ storedFiles
      BY DEF FilesAreKept
    <3>3. pending'[s] = pending[s] /\ InFlight(s)' = InFlight(s)
      BY <2>2
    <3> QED
      BY <3>1, <3>2, <3>3
  <2> QED
    BY <2>1, <2>2
<1>3. ASSUME NEW s \in Requests, NEW t \in Requests, s # t
      PROVE  InFlight(s)' \cap InFlight(t)' = {}
  <2>1. CASE s = r \/ t = r
    BY <2>1
  <2>2. CASE s # r /\ t # r
    BY <1>3, <2>2 DEF FilesAreKept
  <2> QED
    BY <2>1, <2>2
<1> QED
  BY <1>1, <1>2, <1>3 DEF FilesAreKept

-----------------------------------------------------------------------------
(* The steps *)

\* What every step preserves and obeys
Preserved ==
  /\ TypeOK' /\ Coherent'
  /\ FilesAreKept /\ ~AnswersMayBeLost => FilesAreKept'
  /\ \A c \in Cards : Allowed(card[c], card'[c])

\* Reading a row without a lock
LEMMA ReadOnly ==
  ASSUME TypeOK, Coherent, NEW r \in Requests, stage[r] = "idle",
         NEW w \in [task : {"archive", "other"}, kind : Owned \cup {"report"},
                    card : Cards, key : StorageKeys \cup {NoKey}, seen : States],
         NEW step \in {"lock", "sync"},
         step = "lock" =>
           /\ w.kind \in Owned /\ w.key \in StorageKeys
           /\ w.kind = "attachment" => w.key \in storedFiles,
         work' = [work EXCEPT ![r] = w], Goto(r, step),
         UNCHANGED <<disk, rows, lock, pending, unsaved>>
  PROVE  Preserved
<1> USE DEF disk, rows
<1>1. TypeOK'
  BY DEF TypeOK, Goto
<1>2. stage'[r] = step /\ work'[r] = w
      /\ \A s \in Requests \ {r} : stage'[s] = stage[s] /\ work'[s] = work[s]
  BY DEF TypeOK, Goto
<1>3. TasksAreSound'
  BY <1>2 DEF Coherent, TasksAreSound, Editable
<1>4. \A s \in Requests : InFlight(s)' = InFlight(s)
  BY <1>2 DEF InFlight
<1>5. RowsAreSound'
  BY <1>4 DEF Coherent, RowsAreSound
<1>6. WritesAreAllowed'
  BY DEF Coherent, WritesAreAllowed
<1>7. FilesAreKept => FilesAreKept'
  BY <1>4 DEF FilesAreKept
<1> QED
  BY <1>1, <1>3, <1>5, <1>6, <1>7 DEF Coherent, Preserved, Allowed, SameFiles

\* Locking the card, or nothing, before a file is produced
LEMMA BeginFileStep ==
  ASSUME TypeOK, Coherent, NEW r \in Requests, NEW c \in Cards, NEW kind \in FileKinds,
         BeginFile(r, c, kind)
  PROVE  Preserved
<1> USE DEF disk, rows, BeginFile
<1> DEFINE w == [NoWork EXCEPT !.task = "file", !.kind = kind, !.card = c]
<1>1. /\ w \in [task : {"file"}, kind : Owned \cup {"report"}, card : Cards,
                key : StorageKeys \cup {NoKey}, seen : States]
      /\ w.task = "file" /\ w.kind = kind /\ w.card = c
  BY ConstantsAssumption DEF NoWork, Owned, States
<1>2. work' = [work EXCEPT ![r] = w]
  OBVIOUS
<1> HIDE DEF w
<1>3. /\ lock' \in [Cards -> Requests \cup {NoRequest}]
      /\ unsaved' \in [Requests -> [Cards -> CardRow]]
      /\ \A d \in Cards : lock'[d] = lock[d] \/ (d = c /\ lock'[d] = r)
      /\ \A d \in Cards, s \in Requests :
           lock'[d] = s => \/ lock[d] = s /\ unsaved'[s][d] = unsaved[s][d]
                          \/ unsaved'[s][d] = card[d]
      /\ \A d \in Cards, s \in Requests : lock[d] = s => lock'[d] = s
      /\ kind \in Owned => lock'[c] = r /\ Editable(card[c])
  <2>1. CASE kind = "report"
    BY <2>1 DEF TypeOK, Owned
  <2>2. CASE kind # "report"
    <3>1. /\ lock[c] = NoRequest /\ Editable(card[c])
          /\ lock' = [lock EXCEPT ![c] = r]
          /\ unsaved' = [unsaved EXCEPT ![r] = [@ EXCEPT ![c] = card[c]]]
      BY <2>2 DEF Lock
    <3>2. /\ \A d \in Cards : lock'[d] = IF d = c THEN r ELSE lock[d]
          /\ lock' \in [Cards -> Requests \cup {NoRequest}]
      BY <3>1 DEF TypeOK
    <3>3. /\ \A d \in Cards, s \in Requests :
               unsaved'[s][d] = IF s = r /\ d = c THEN card[c] ELSE unsaved[s][d]
          /\ unsaved' \in [Requests -> [Cards -> CardRow]]
      BY <3>1 DEF TypeOK
    <3> QED
      BY <3>1, <3>2, <3>3, ConstantsAssumption
  <2> QED
    BY <2>1, <2>2
<1>4. TypeOK'
  <2>1. work' \in [Requests -> [task : {"file", "archive", "other"},
                               kind : Owned \cup {"report"}, card : Cards,
                               key : StorageKeys \cup {NoKey}, seen : States]]
    BY <1>1, <1>2 DEF TypeOK
  <2>2. stage' \in [Requests -> {"idle", "write", "file", "lock", "sync", "commit"}]
    BY DEF TypeOK, Goto
  <2> QED
    BY <1>3, <2>1, <2>2 DEF TypeOK
<1>5. /\ stage'[r] = "write" /\ work'[r] = w
      /\ \A s \in Requests \ {r} : stage'[s] = stage[s] /\ work'[s] = work[s]
  BY <1>2 DEF TypeOK, Goto
<1>6. TasksAreSound'
  <2>1. ASSUME NEW s \in Requests, stage'[s] \in {"write", "file"},
               work'[s].kind \in Owned
        PROVE  lock'[work'[s].card] = s /\ Editable(card'[work'[s].card])
    <3>1. CASE s = r
      BY <1>1, <1>3, <1>5, <2>1, <3>1
    <3>2. CASE s # r
      BY <1>3, <1>5, <2>1, <3>2 DEF Coherent, TasksAreSound, TypeOK
    <3> QED
      BY <3>1, <3>2
  <2> QED
    BY <1>1, <1>5, <2>1 DEF Coherent, TasksAreSound
<1>7. \A s \in Requests : InFlight(s)' = InFlight(s)
  BY <1>5 DEF InFlight
<1>8. RowsAreSound'
  <2>1. ASSUME NEW d \in Cards, NEW s \in Requests, lock'[d] = s
        PROVE  Sound(unsaved'[s][d], storedFiles \cup InFlight(s))
    <3>1. CASE lock[d] = s /\ unsaved'[s][d] = unsaved[s][d]
      BY <3>1 DEF Coherent, RowsAreSound
    <3>2. CASE unsaved'[s][d] = card[d]
      BY <3>2, SoundGrows DEF Coherent, RowsAreSound
    <3> QED
      BY <1>3, <2>1, <3>1, <3>2
  <2> QED
    BY <1>7, <2>1 DEF Coherent, RowsAreSound
<1>9. WritesAreAllowed'
  BY <1>3 DEF Coherent, WritesAreAllowed, Allowed, SameFiles
<1>10. FilesAreKept => FilesAreKept'
  BY <1>7 DEF FilesAreKept
<1> QED
  BY <1>4, <1>6, <1>8, <1>9, <1>10 DEF Coherent, Preserved, Allowed, SameFiles

\* A new file is no other request's, and no row names it.
LEMMA WriteFileStep ==
  ASSUME TypeOK, Coherent, NEW r \in Requests, WriteFile(r)
  PROVE  Preserved
<1> USE DEF disk, rows
<1>1. PICK k \in StorageKeys \ (files \cup storedFiles) :
        /\ files' = files \cup {k}
        /\ work' = [work EXCEPT ![r] = [@ EXCEPT !.key = k]]
        /\ pending' = [pending EXCEPT ![r] =
             IF Registered(work[r].kind) THEN @ \cup {k} ELSE @]
  BY DEF WriteFile
<1>2. /\ stage[r] = "write" /\ stage' = [stage EXCEPT ![r] = "file"]
      /\ UNCHANGED <<abandoned, rows, lock, unsaved>>
  BY DEF WriteFile, Goto
<1>3. /\ stage'[r] = "file" /\ work'[r].key = k
      /\ work'[r].task = work[r].task /\ work'[r].kind = work[r].kind
      /\ work'[r].card = work[r].card
      /\ \A s \in Requests \ {r} : stage'[s] = stage[s] /\ work'[s] = work[s]
  BY <1>1, <1>2 DEF TypeOK
<1>4. TypeOK'
  <2>1. work' \in [Requests -> [task : {"file", "archive", "other"},
                               kind : Owned \cup {"report"}, card : Cards,
                               key : StorageKeys \cup {NoKey}, seen : States]]
    BY <1>1, ZenonT(30) DEF TypeOK
  <2>2. /\ stage' \in [Requests -> {"idle", "write", "file", "lock", "sync", "commit"}]
        /\ pending' \in [Requests -> SUBSET StorageKeys]
        /\ files' \subseteq StorageKeys
    BY <1>1, <1>2 DEF TypeOK
  <2> QED
    BY <1>2, <2>1, <2>2 DEF TypeOK
<1>5. TasksAreSound'
  BY <1>1, <1>2, <1>3 DEF Coherent, TasksAreSound
<1>6. InFlight(r) = {} /\ InFlight(r)' = {k}
      /\ \A s \in Requests \ {r} : InFlight(s)' = InFlight(s)
  BY <1>2, <1>3 DEF InFlight, Coherent, TasksAreSound
<1>7. RowsAreSound'
  <2>1. ASSUME NEW d \in Cards, NEW s \in Requests, lock[d] = s
        PROVE  Sound(unsaved[s][d], storedFiles \cup InFlight(s)')
    <3>1. Sound(unsaved[s][d], storedFiles \cup InFlight(s))
      BY <2>1 DEF Coherent, RowsAreSound
    <3>2. InFlight(s) \subseteq InFlight(s)'
      BY <1>6
    <3> QED
      BY <3>1, <3>2, SoundGrows
  <2> QED
    BY <1>2, <2>1 DEF Coherent, RowsAreSound
<1>8. WritesAreAllowed'
  BY <1>2 DEF Coherent, WritesAreAllowed
<1>9. ASSUME FilesAreKept PROVE FilesAreKept'
  <2>1. \A s \in Requests : InFlight(s) \subseteq files \ storedFiles
                           /\ pending[s] \subseteq InFlight(s)
    BY <1>9 DEF FilesAreKept
  <2>2. ASSUME NEW s \in Requests
        PROVE  pending'[s] \subseteq InFlight(s)' /\ InFlight(s)' \subseteq files' \ storedFiles'
    <3>1. pending'[s] \subseteq InFlight(s)'
      BY <1>1, <1>6, <2>1 DEF TypeOK
    <3>2. InFlight(s)' \subseteq files' \ storedFiles'
      BY <1>1, <1>2, <1>6, <2>1
    <3> QED
      BY <3>1, <3>2
  <2>3. ASSUME NEW s \in Requests, NEW t \in Requests, s # t
        PROVE  InFlight(s)' \cap InFlight(t)' = {}
    <3>1. k \notin InFlight(s) /\ k \notin InFlight(t)
      BY <2>1
    <3>2. InFlight(s) \cap InFlight(t) = {}
      BY <1>9, <2>3 DEF FilesAreKept
    <3> QED
      BY <1>6, <2>3, <3>1, <3>2
  <2>4. storedFiles' \subseteq files'
    BY <1>1, <1>2, <1>9 DEF FilesAreKept
  <2> QED
    BY <2>2, <2>3, <2>4 DEF FilesAreKept
<1> QED
  BY <1>2, <1>4, <1>5, <1>7, <1>8, <1>9 DEF Coherent, Preserved, Allowed, SameFiles

\* The rows of a file name it, on a card that is open.
LEMMA StoreRowsStep ==
  ASSUME TypeOK, Coherent, NEW r \in Requests, StoreRows(r)
  PROVE  Preserved
<1> USE DEF disk, rows
<1> DEFINE c == work[r].card
           k == work[r].key
           kind == work[r].kind
           row == Marked(unsaved[r][c], kind, k, "live")
<1>1. /\ stage[r] = "file" /\ stage' = [stage EXCEPT ![r] = "commit"]
      /\ UNCHANGED <<disk, rows, lock, work, pending>>
      /\ unsaved' = IF kind \in Owned
                     THEN [unsaved EXCEPT ![r] = [@ EXCEPT ![c] = row]] ELSE unsaved
  BY DEF StoreRows, Goto
<1>2. c \in Cards /\ k \in StorageKeys /\ InFlight(r) = {k}
  BY <1>1 DEF TypeOK, Coherent, TasksAreSound, InFlight
<1>3. ASSUME kind \in Owned
      PROVE  /\ row \in CardRow /\ Sound(row, storedFiles \cup InFlight(r))
             /\ lock[c] = r /\ Allowed(card[c], row)
  <2>1. lock[c] = r /\ card[c].state = "open"
    BY <1>1, <1>3 DEF Coherent, TasksAreSound, Editable
  <2>2. unsaved[r][c] \in CardRow
    BY <1>2 DEF TypeOK
  <2>3. Sound(unsaved[r][c], storedFiles \cup InFlight(r))
    BY <1>2, <2>1 DEF Coherent, RowsAreSound
  <2>4. "live" \in States \ {"none"}
    BY DEF States
  <2>5. /\ row \in CardRow /\ row.ref = unsaved[r][c].ref
        /\ \A j \in StorageKeys : row.attachment[j] # unsaved[r][c].attachment[j] =>
             j = k /\ row.attachment[j] = "live"
    BY <1>2, <1>3, <2>2, <2>4, MarkedRow
  <2> HIDE DEF row
  <2>6. row.ref # NoKey => row.ref \in StorageKeys
    BY <2>5 DEF CardRow
  <2>7. Allowed(card[c], row)
    <3>1. Allowed(card[c], unsaved[r][c])
      BY <1>2, <2>1 DEF Coherent, WritesAreAllowed
    <3> QED
      BY <2>1, <2>5, <2>6, <3>1 DEF Allowed, Ended
  <2> QED
    BY <1>2, <2>1, <2>3, <2>5, <2>6, <2>7 DEF Sound
<1> HIDE DEF row
<1>4. unsaved' \in [Requests -> [Cards -> CardRow]]
  BY <1>1, <1>3 DEF TypeOK
<1>5. TypeOK'
  BY <1>1, <1>4 DEF TypeOK
<1>6. stage'[r] = "commit" /\ \A s \in Requests \ {r} : stage'[s] = stage[s]
  BY <1>1 DEF TypeOK
<1>7. TasksAreSound'
  BY <1>1, <1>6 DEF Coherent, TasksAreSound
<1>8. \A s \in Requests : InFlight(s)' = InFlight(s)
  BY <1>1, <1>6 DEF InFlight
<1>9. \A s \in Requests, d \in Cards :
        \/ unsaved'[s][d] = unsaved[s][d]
        \/ s = r /\ d = c /\ kind \in Owned /\ unsaved'[s][d] = row
  BY <1>1 DEF TypeOK
<1>10. RowsAreSound'
  <2>1. ASSUME NEW d \in Cards, NEW s \in Requests, lock[d] = s
        PROVE  Sound(unsaved'[s][d], storedFiles \cup InFlight(s))
    <3>1. CASE unsaved'[s][d] = unsaved[s][d]
      BY <2>1, <3>1 DEF Coherent, RowsAreSound
    <3>2. CASE s = r /\ d = c /\ kind \in Owned /\ unsaved'[s][d] = row
      BY <1>3, <3>2
    <3> QED
      BY <1>9, <3>1, <3>2
  <2> QED
    BY <1>1, <1>8, <2>1 DEF Coherent, RowsAreSound
<1>11. WritesAreAllowed'
  <2>1. ASSUME NEW d \in Cards, NEW s \in Requests, lock[d] = s
        PROVE  Allowed(card[d], unsaved'[s][d])
    <3>1. CASE unsaved'[s][d] = unsaved[s][d]
      BY <2>1, <3>1 DEF Coherent, WritesAreAllowed
    <3>2. CASE s = r /\ d = c /\ kind \in Owned /\ unsaved'[s][d] = row
      BY <1>3, <3>2
    <3> QED
      BY <1>9, <3>1, <3>2
  <2> QED
    BY <1>1, <2>1 DEF WritesAreAllowed
<1>12. FilesAreKept => FilesAreKept'
  BY <1>1, <1>8 DEF FilesAreKept
<1> QED
  BY <1>1, <1>5, <1>7, <1>10, <1>11, <1>12 DEF Coherent, Preserved, Allowed, SameFiles

\* The steps that lock one card: all preserve its files or test that it is open.
LEMMA ArchiveOwnedStep ==
  ASSUME TypeOK, Coherent, NEW r \in Requests, ArchiveOwned(r)
  PROVE  Preserved
<1> DEFINE c == work[r].card
           k == work[r].key
           kind == work[r].kind
<1>1. /\ stage[r] = "lock" /\ c \in Cards /\ k \in StorageKeys /\ kind \in Owned
      /\ kind = "attachment" => k \in storedFiles
  BY DEF ArchiveOwned, TypeOK, Coherent, TasksAreSound
<1>2. PICK row : /\ Lock(r, c, row)
                 /\ \/ row = card[c]
                    \/ \E reason \in Reasons : row = Marked(card[c], kind, k, reason)
  BY DEF ArchiveOwned
<1>3. card[c] \in CardRow /\ Sound(card[c], storedFiles) /\ card[c].state = "open"
  BY <1>1 DEF ArchiveOwned, TypeOK, Coherent, RowsAreSound, Editable
<1>4. row \in CardRow /\ Sound(row, storedFiles) /\ row.ref = card[c].ref
  <2>1. ASSUME NEW reason \in Reasons, row = Marked(card[c], kind, k, reason)
        PROVE  row \in CardRow /\ Sound(row, storedFiles) /\ row.ref = card[c].ref
    <3>1. reason \in States \ {"none"}
      BY ConstantsAssumption DEF States
    <3>2. /\ row \in CardRow /\ row.ref = card[c].ref
          /\ \A j \in StorageKeys : row.attachment[j] # card[c].attachment[j] =>
               j = k /\ kind = "attachment" /\ row.attachment[j] = reason
      BY <1>1, <1>3, <2>1, <3>1, MarkedRow
    <3>3. row.ref # NoKey => row.ref \in StorageKeys
      BY <3>2 DEF CardRow
    <3> QED
      BY <1>1, <1>3, <3>1, <3>2, <3>3 DEF Sound
  <2> QED
    BY <1>2, <1>3, <2>1
<1>5. Goto(r, "commit") /\ UNCHANGED <<disk, rows, work, pending>>
  BY DEF ArchiveOwned
<1>6. Allowed(card[c], row)
  BY <1>3, <1>4 DEF Allowed, Ended
<1> HIDE DEF c
<1>7. TypeOK' /\ Coherent' /\ (FilesAreKept => FilesAreKept')
  BY <1>1, <1>2, <1>4, <1>5, <1>6, OneWrite
<1> QED
  BY <1>5, <1>7 DEF Preserved, Allowed, SameFiles, rows

LEMMA SetFileRefStep ==
  ASSUME TypeOK, Coherent, NEW r \in Requests, NEW c \in Cards, SetFileRef(r, c)
  PROVE  Preserved
<1>1. PICK k \in StorageKeys \cup {NoKey} :
        /\ k # NoKey => card[c].attachment[k] = "live"
        /\ Lock(r, c, [card[c] EXCEPT !.ref = k])
  BY DEF SetFileRef
<1>2. /\ stage[r] = "idle" /\ card[c].state \notin Ended
      /\ Goto(r, "commit") /\ UNCHANGED <<disk, rows, work, pending>>
  BY DEF SetFileRef, Editable, Ended
<1> DEFINE row == [card[c] EXCEPT !.ref = k]
<1>3. /\ row \in CardRow /\ Sound(row, storedFiles) /\ Lock(r, c, row)
      /\ Allowed(card[c], row)
  <2>1. card[c] \in CardRow /\ Sound(card[c], storedFiles)
    BY DEF TypeOK, Coherent, RowsAreSound
  <2>2. row \in CardRow /\ row.ref = k /\ row.attachment = card[c].attachment
    BY <1>1, <2>1 DEF CardRow
  <2> HIDE DEF row
  <2>3. Sound(row, storedFiles)
    BY <1>1, <2>1, <2>2 DEF Sound
  <2>4. Allowed(card[c], row)
    BY <1>1, <1>2, <2>2 DEF Allowed
  <2> QED
    BY <1>1, <2>2, <2>3, <2>4 DEF row
<1> HIDE DEF row
<1>4. TypeOK' /\ Coherent' /\ (FilesAreKept => FilesAreKept')
  BY <1>1, <1>2, <1>3, OneWrite
<1> QED
  BY <1>2, <1>4 DEF Preserved, Allowed, SameFiles, rows

\* Writing the status alone keeps the files.
LEMMA StatusWrite ==
  ASSUME TypeOK, Coherent, NEW r \in Requests, NEW c \in Cards,
         NEW state \in {"open"} \cup Ended, stage[r] \in {"idle", "sync"},
         Lock(r, c, [card[c] EXCEPT !.state = state]), Goto(r, "commit"),
         UNCHANGED <<disk, rows, work, pending>>
  PROVE  Preserved
<1> DEFINE row == [card[c] EXCEPT !.state = state]
<1>1. row \in CardRow /\ Sound(row, storedFiles) /\ Allowed(card[c], row)
  <2>1. card[c] \in CardRow /\ Sound(card[c], storedFiles)
    BY DEF TypeOK, Coherent, RowsAreSound
  <2>2. row \in CardRow /\ SameFiles(card[c], row)
    BY <2>1 DEF CardRow, SameFiles
  <2> HIDE DEF row
  <2> QED
    BY <2>1, <2>2 DEF Sound, Allowed, SameFiles
<1>2. Lock(r, c, row)
  OBVIOUS
<1> HIDE DEF row
<1>3. TypeOK' /\ Coherent' /\ (FilesAreKept => FilesAreKept')
  BY <1>1, <1>2, OneWrite
<1> QED
  BY <1>3 DEF Preserved, Allowed, SameFiles, rows

LEMMA EndCardStep ==
  ASSUME TypeOK, Coherent, NEW r \in Requests, NEW c \in Cards, EndCard(r, c)
  PROVE  Preserved
<1>1. /\ stage[r] = "idle" /\ Goto(r, "commit")
      /\ UNCHANGED <<disk, rows, work, pending>>
      /\ \/ Lock(r, c, [card[c] EXCEPT !.state = "dismissed"])
         \/ Lock(r, c, [card[c] EXCEPT !.state = "archived"])
  BY DEF EndCard
<1>2. {"dismissed", "archived"} \subseteq {"open"} \cup Ended
  BY DEF Ended
<1>3. CASE Lock(r, c, [card[c] EXCEPT !.state = "dismissed"])
  BY <1>1, <1>2, <1>3, StatusWrite
<1>4. CASE Lock(r, c, [card[c] EXCEPT !.state = "archived"])
  BY <1>1, <1>2, <1>4, StatusWrite
<1> QED
  BY <1>1, <1>3, <1>4

LEMMA SynchronizeCardStep ==
  ASSUME TypeOK, Coherent, NEW r \in Requests, SynchronizeCard(r)
  PROVE  Preserved
<1> DEFINE c == work[r].card
           state == IF card[c].state = "archived" THEN "archived" ELSE "open"
<1>1. c \in Cards /\ state \in {"open"} \cup Ended
  BY DEF TypeOK, Ended
<1>2. /\ stage[r] = "sync" /\ Goto(r, "commit")
      /\ UNCHANGED <<disk, rows, work, pending>>
      /\ Lock(r, c, [card[c] EXCEPT !.state = state])
  BY DEF SynchronizeCard
<1> HIDE DEF c, state
<1> QED
  BY <1>1, <1>2, StatusWrite

\* A transfer locks two cards: the old one keeps its files, the copy refers to
\* what it owns.
LEMMA TransferStep ==
  ASSUME TypeOK, Coherent, NEW r \in Requests, NEW c \in Cards, NEW n \in Cards,
         Transfer(r, c, n)
  PROVE  Preserved
<1> USE DEF disk, rows
<1> DEFINE old == [card[c] EXCEPT !.state = "superseded"]
           new == Copied(card[c])
<1>1. /\ stage[r] = "idle" /\ c # n /\ card[c].state = "open" /\ card[n].state = "none"
      /\ lock[c] = NoRequest /\ lock[n] = NoRequest
      /\ lock' = [lock EXCEPT ![c] = r, ![n] = r]
      /\ unsaved' = [unsaved EXCEPT ![r] = [@ EXCEPT ![c] = old, ![n] = new]]
      /\ stage' = [stage EXCEPT ![r] = "commit"]
      /\ UNCHANGED <<disk, rows, work, pending>>
  BY DEF Transfer, Editable, Goto
<1>2. old \in CardRow /\ Sound(old, storedFiles) /\ Allowed(card[c], old)
  <2>1. card[c] \in CardRow /\ Sound(card[c], storedFiles)
    BY DEF TypeOK, Coherent, RowsAreSound
  <2>2. /\ old \in CardRow /\ old.ref = card[c].ref
        /\ old.attachment = card[c].attachment
    BY <2>1 DEF CardRow, Ended
  <2> HIDE DEF old
  <2> QED
    BY <1>1, <2>1, <2>2 DEF Sound, Allowed, Ended
<1>3. new \in CardRow /\ Sound(new, storedFiles) /\ Allowed(card[n], new)
  BY <1>1, CopiedRow DEF TypeOK, Coherent, RowsAreSound, Allowed, Ended
<1> HIDE DEF old, new
<1>4. /\ \A d \in Cards : lock'[d] = IF d \in {c, n} THEN r ELSE lock[d]
      /\ lock' \in [Cards -> Requests \cup {NoRequest}]
  BY <1>1 DEF TypeOK
<1>5. /\ \A s \in Requests, d \in Cards :
           \/ unsaved'[s][d] = unsaved[s][d] /\ ~(s = r /\ d \in {c, n})
           \/ s = r /\ d = c /\ unsaved'[s][d] = old
           \/ s = r /\ d = n /\ unsaved'[s][d] = new
      /\ unsaved' \in [Requests -> [Cards -> CardRow]]
  BY <1>1, <1>2, <1>3 DEF TypeOK
<1>6. TypeOK'
  BY <1>1, <1>4, <1>5 DEF TypeOK
<1>7. stage'[r] = "commit" /\ \A s \in Requests \ {r} : stage'[s] = stage[s]
  BY <1>1 DEF TypeOK
<1>8. TasksAreSound'
  <2>1. \A s \in Requests, d \in Cards : lock[d] = s => lock'[d] = s
    BY <1>1, <1>4, ConstantsAssumption
  <2> QED
    BY <1>1, <1>7, <2>1 DEF Coherent, TasksAreSound, TypeOK
<1>9. \A s \in Requests : InFlight(s)' = InFlight(s)
  BY <1>1, <1>7 DEF InFlight, Coherent, TasksAreSound
<1>10. RowsAreSound'
  <2>1. ASSUME NEW d \in Cards, NEW s \in Requests, lock'[d] = s
        PROVE  Sound(unsaved'[s][d], storedFiles \cup InFlight(s))
    <3>1. CASE unsaved'[s][d] = unsaved[s][d] /\ ~(s = r /\ d \in {c, n})
      <4>1. lock[d] = s
        BY <1>4, <2>1, <3>1
      <4> QED
        BY <3>1, <4>1 DEF Coherent, RowsAreSound
    <3>2. CASE unsaved'[s][d] \in {old, new}
      BY <1>2, <1>3, <3>2, SoundGrows
    <3> QED
      BY <1>5, <3>1, <3>2
  <2> QED
    BY <1>1, <1>9, <2>1 DEF Coherent, RowsAreSound
<1>11. WritesAreAllowed'
  <2>1. ASSUME NEW d \in Cards, NEW s \in Requests, lock'[d] = s
        PROVE  Allowed(card[d], unsaved'[s][d])
    <3>1. CASE unsaved'[s][d] = unsaved[s][d] /\ ~(s = r /\ d \in {c, n})
      <4>1. lock[d] = s
        BY <1>4, <2>1, <3>1
      <4> QED
        BY <3>1, <4>1 DEF Coherent, WritesAreAllowed
    <3>2. CASE d = c /\ unsaved'[s][d] = old
      BY <1>2, <3>2
    <3>3. CASE d = n /\ unsaved'[s][d] = new
      BY <1>3, <3>3
    <3> QED
      BY <1>5, <3>1, <3>2, <3>3
  <2> QED
    BY <1>1, <2>1 DEF WritesAreAllowed
<1>12. FilesAreKept => FilesAreKept'
  BY <1>1, <1>9 DEF FilesAreKept
<1> QED
  BY <1>1, <1>6, <1>8, <1>10, <1>11, <1>12 DEF Coherent, Preserved, Allowed, SameFiles

\* The ends of a transaction
LEMMA CommitStep ==
  ASSUME TypeOK, Coherent, NEW r \in Requests, CommitRows(r)
  PROVE  Preserved
<1>1. /\ stage[r] = "commit" /\ Publish(r) /\ Release(r)
      /\ files' = files /\ abandoned' = abandoned
  BY DEF CommitRows, disk
<1>2. files' \subseteq StorageKeys /\ abandoned' \subseteq StorageKeys
  BY <1>1 DEF TypeOK
<1>3. /\ TypeOK' /\ Coherent' /\ storedFiles' = storedFiles \cup InFlight(r)
      /\ \A c \in Cards : Allowed(card[c], card'[c])
  BY <1>1, <1>2, EndedWithCommit
<1>4. FilesAreKept => FilesAreKept'
  BY <1>1, <1>3, KeptWithCommit
<1> QED
  BY <1>3, <1>4 DEF Preserved

LEMMA LoseAnswerStep ==
  ASSUME TypeOK, Coherent, NEW r \in Requests, LoseAnswer(r)
  PROVE  Preserved
<1>1. /\ AnswersMayBeLost /\ stage[r] = "commit" /\ Publish(r) /\ Release(r)
      /\ files' \subseteq StorageKeys /\ abandoned' \subseteq StorageKeys
  BY DEF LoseAnswer, Delete, TypeOK
<1> QED
  BY <1>1, EndedWithCommit DEF Preserved

LEMMA RollbackStep ==
  ASSUME TypeOK, Coherent, NEW r \in Requests, Rollback(r)
  PROVE  Preserved
<1>1. /\ Release(r) /\ UNCHANGED rows /\ files \ pending[r] \subseteq files'
      /\ files' \subseteq StorageKeys /\ abandoned' \subseteq StorageKeys
  BY DEF Rollback, Delete, TypeOK
<1>2. TypeOK' /\ Coherent'
  BY <1>1, EndedWithoutCommit
<1>3. ASSUME FilesAreKept PROVE FilesAreKept'
  <2>1. pending[r] \subseteq InFlight(r)
    BY <1>3 DEF FilesAreKept
  <2> QED
    BY <1>1, <1>3, <2>1, KeptWithoutCommit
<1> QED
  BY <1>1, <1>2, <1>3 DEF Preserved, Allowed, SameFiles, rows

LEMMA FailInsideStep ==
  ASSUME TypeOK, Coherent, NEW r \in Requests, FailInside(r)
  PROVE  Preserved
<1>1. /\ Release(r) /\ UNCHANGED rows /\ files \ {work[r].key} \subseteq files'
      /\ files' \subseteq StorageKeys /\ abandoned' \subseteq StorageKeys
  BY DEF FailInside, Delete, TypeOK
<1>2. TypeOK' /\ Coherent'
  BY <1>1, EndedWithoutCommit
<1>3. {work[r].key} \subseteq InFlight(r)
  BY DEF FailInside, InFlight, Coherent, TasksAreSound
<1>4. FilesAreKept => FilesAreKept'
  BY <1>1, <1>3, KeptWithoutCommit
<1> QED
  BY <1>1, <1>2, <1>4 DEF Preserved, Allowed, SameFiles, rows

LEMMA FailWriteStep ==
  ASSUME TypeOK, Coherent, NEW r \in Requests, FailWrite(r)
  PROVE  Preserved
<1>1. /\ Release(r) /\ UNCHANGED rows /\ files \ {} \subseteq files'
      /\ files' \subseteq StorageKeys /\ abandoned' \subseteq StorageKeys
  BY DEF FailWrite, TypeOK
<1>2. TypeOK' /\ Coherent'
  BY <1>1, EndedWithoutCommit
<1>3. {} \subseteq InFlight(r)
  OBVIOUS
<1>4. FilesAreKept => FilesAreKept'
  BY <1>1, <1>3, KeptWithoutCommit
<1> QED
  BY <1>1, <1>2, <1>4 DEF Preserved, Allowed, SameFiles, rows

LEMMA CrashStep ==
  ASSUME TypeOK, Coherent, Crash
  PROVE  Preserved
<1>1. /\ files' = files /\ UNCHANGED rows
      /\ lock' = [c \in Cards |-> NoRequest]
      /\ stage' = [r \in Requests |-> "idle"]
      /\ work' = [r \in Requests |-> NoWork]
      /\ pending' = [r \in Requests |-> {}]
      /\ unsaved' = [r \in Requests |-> [c \in Cards |-> Absent]]
  BY DEF Crash
<1>2. abandoned' \subseteq StorageKeys
  <2>1. \A r \in Requests : InFlight(r) \subseteq StorageKeys
    BY DEF InFlight, Coherent, TasksAreSound
  <2> QED
    BY <2>1 DEF Crash, TypeOK
<1>3. TypeOK'
  <2>1. unsaved' \in [Requests -> [Cards -> CardRow]]
    BY <1>1, BlankRows
  <2>2. work' \in [Requests -> [task : {"file", "archive", "other"},
                               kind : Owned \cup {"report"}, card : Cards,
                               key : StorageKeys \cup {NoKey}, seen : States]]
    BY <1>1, BlankWork
  <2> QED
    BY <1>1, <1>2, <2>1, <2>2 DEF TypeOK, rows
<1>4. TasksAreSound'
  BY <1>1, BlankWork DEF TasksAreSound
<1>5. \A r \in Requests : InFlight(r)' = {}
  BY <1>1 DEF InFlight
<1>6. RowsAreSound'
  BY <1>1, ConstantsAssumption DEF Coherent, RowsAreSound, rows
<1>7. WritesAreAllowed'
  BY <1>1, ConstantsAssumption DEF WritesAreAllowed
<1>8. FilesAreKept => FilesAreKept'
  BY <1>1, <1>5 DEF FilesAreKept, rows
<1> QED
  BY <1>1, <1>3, <1>4, <1>6, <1>7, <1>8 DEF Coherent, Preserved, Allowed, SameFiles, rows

LEMMA ReadSteps ==
  ASSUME TypeOK, Coherent, NEW r \in Requests, NEW c \in Cards
  PROVE  /\ SelectCard(r, c) => Preserved
         /\ \A kind \in Owned, k \in StorageKeys : ReadOwned(r, c, kind, k) => Preserved
<1> DEFINE Works == [task : {"archive", "other"}, kind : Owned \cup {"report"},
                     card : Cards, key : StorageKeys \cup {NoKey}, seen : States]
<1>1. ASSUME SelectCard(r, c) PROVE Preserved
  <2> DEFINE w == [NoWork EXCEPT !.card = c]
  <2>1. w \in Works
    BY DEF NoWork, States, Owned
  <2>2. /\ stage[r] = "idle" /\ work' = [work EXCEPT ![r] = w] /\ Goto(r, "sync")
        /\ UNCHANGED <<disk, rows, lock, pending, unsaved>>
    BY <1>1 DEF SelectCard
  <2> HIDE DEF w
  <2> QED
    BY <2>1, <2>2, ReadOnly
<1>2. ASSUME NEW kind \in Owned, NEW k \in StorageKeys, ReadOwned(r, c, kind, k)
      PROVE  Preserved
  <2> DEFINE w == [task |-> "archive", kind |-> kind, card |-> c, key |-> k,
                   seen |-> card[c][kind][k]]
  <2>1. card[c][kind][k] \in States
    BY DEF TypeOK, CardRow, Owned
  <2>2. w \in Works /\ w.kind = kind /\ w.key = k
    BY <2>1
  <2>3. /\ stage[r] = "idle" /\ card[c][kind][k] # "none"
        /\ work' = [work EXCEPT ![r] = w] /\ Goto(r, "lock")
        /\ UNCHANGED <<disk, rows, lock, pending, unsaved>>
    BY <1>2 DEF ReadOwned
  <2>4. kind = "attachment" => k \in storedFiles
    BY <2>3 DEF Coherent, RowsAreSound, Sound
  <2> HIDE DEF w
  <2> QED
    BY <2>2, <2>3, <2>4, ReadOnly
<1> QED
  BY <1>1, <1>2

LEMMA NextPreserves ==
  ASSUME TypeOK, Coherent, Next
  PROVE  Preserved
<1>1. ASSUME NEW r \in Requests, NEW c \in Cards, NEW kind \in FileKinds,
             BeginFile(r, c, kind)
      PROVE  Preserved
  BY <1>1, BeginFileStep
<1>2. ASSUME NEW r \in Requests, NEW c \in Cards,
             SelectCard(r, c) \/ (\E kind \in Owned, k \in StorageKeys : ReadOwned(r, c, kind, k))
      PROVE  Preserved
  BY <1>2, ReadSteps
<1>3. ASSUME NEW r \in Requests, NEW c \in Cards,
             SetFileRef(r, c) \/ EndCard(r, c)
      PROVE  Preserved
  BY <1>3, SetFileRefStep, EndCardStep
<1>4. ASSUME NEW r \in Requests, NEW c \in Cards, NEW n \in Cards, Transfer(r, c, n)
      PROVE  Preserved
  BY <1>4, TransferStep
<1>5. ASSUME NEW r \in Requests, WriteFile(r) \/ StoreRows(r) PROVE Preserved
  BY <1>5, WriteFileStep, StoreRowsStep
<1>6. ASSUME NEW r \in Requests, ArchiveOwned(r) \/ SynchronizeCard(r) PROVE Preserved
  BY <1>6, ArchiveOwnedStep, SynchronizeCardStep
<1>7. ASSUME NEW r \in Requests, CommitRows(r) \/ LoseAnswer(r) PROVE Preserved
  BY <1>7, CommitStep, LoseAnswerStep
<1>8. ASSUME NEW r \in Requests, Rollback(r) \/ FailInside(r) \/ FailWrite(r)
      PROVE  Preserved
  BY <1>8, RollbackStep, FailInsideStep, FailWriteStep
<1>9. ASSUME Crash PROVE Preserved
  BY <1>9, CrashStep
<1> QED
  BY <1>1, <1>2, <1>3, <1>4, <1>5, <1>6, <1>7, <1>8, <1>9 DEF Next, Step

LEMMA StutterPreserves ==
  ASSUME TypeOK, Coherent, UNCHANGED vars
  PROVE  Preserved
<1> USE DEF vars
<1>1. \A r \in Requests : InFlight(r)' = InFlight(r)
  BY DEF InFlight
<1>2. TypeOK' /\ TasksAreSound' /\ WritesAreAllowed'
  BY DEF TypeOK, Coherent, TasksAreSound, WritesAreAllowed
<1>3. RowsAreSound' /\ (FilesAreKept => FilesAreKept')
  BY <1>1 DEF Coherent, RowsAreSound, FilesAreKept
<1> QED
  BY <1>2, <1>3 DEF Coherent, Preserved, Allowed, SameFiles

LEMMA InitIsConsistent == Init => TypeOK /\ Coherent /\ FilesAreKept
<1> SUFFICES ASSUME Init PROVE TypeOK /\ Coherent /\ FilesAreKept
  OBVIOUS
<1>1. TypeOK
  <2>1. card \in [Cards -> CardRow] /\ unsaved \in [Requests -> [Cards -> CardRow]]
    BY BlankRows DEF Init
  <2>2. work \in [Requests -> [task : {"file", "archive", "other"},
                              kind : Owned \cup {"report"}, card : Cards,
                              key : StorageKeys \cup {NoKey}, seen : States]]
    BY BlankWork DEF Init
  <2> QED
    BY <2>1, <2>2 DEF Init, TypeOK
<1>2. TasksAreSound
  BY BlankWork DEF Init, TasksAreSound
<1>3. RowsAreSound
  BY BlankRows, ConstantsAssumption DEF Init, RowsAreSound, Sound
<1>4. WritesAreAllowed
  BY ConstantsAssumption DEF Init, WritesAreAllowed
<1>5. FilesAreKept
  BY DEF Init, FilesAreKept, InFlight
<1> QED
  BY <1>1, <1>2, <1>3, <1>4, <1>5 DEF Coherent

-----------------------------------------------------------------------------
(* Files that are not stored *)

\* Steps of a request without a file leave files and their owners alone.
LEMMA QuietSteps ==
  ASSUME TypeOK, Coherent, NEW r \in Requests, NEW c \in Cards,
         \/ \E kind \in FileKinds : BeginFile(r, c, kind)
         \/ \E kind \in Owned, k \in StorageKeys : ReadOwned(r, c, kind, k)
         \/ SelectCard(r, c) \/ SetFileRef(r, c) \/ EndCard(r, c)
         \/ \E n \in Cards : Transfer(r, c, n)
         \/ ArchiveOwned(r) \/ SynchronizeCard(r) \/ StoreRows(r)
  PROVE  /\ UNCHANGED <<disk, storedFiles, pending>>
         /\ \A s \in Requests : InFlight(s)' = InFlight(s)
<1> USE DEF disk, rows, Goto
<1>1. CASE \/ \E kind \in FileKinds : BeginFile(r, c, kind)
           \/ \E kind \in Owned, k \in StorageKeys : ReadOwned(r, c, kind, k)
           \/ SelectCard(r, c)
  <2>1. PICK step, w :
          /\ step \in {"write", "lock", "sync"} /\ stage[r] = "idle"
          /\ stage' = [stage EXCEPT ![r] = step]
          /\ work' = [work EXCEPT ![r] = w]
          /\ UNCHANGED <<disk, storedFiles, pending>>
    BY <1>1 DEF BeginFile, ReadOwned, SelectCard
  <2>2. stage'[r] = step
        /\ \A s \in Requests \ {r} : stage'[s] = stage[s] /\ work'[s] = work[s]
    BY <2>1 DEF TypeOK
  <2> QED
    BY <2>1, <2>2 DEF InFlight
<1>2. CASE \/ SetFileRef(r, c) \/ EndCard(r, c) \/ \E n \in Cards : Transfer(r, c, n)
           \/ ArchiveOwned(r) \/ SynchronizeCard(r) \/ StoreRows(r)
  <2>1. /\ stage[r] \in {"idle", "lock", "sync", "file"}
        /\ stage' = [stage EXCEPT ![r] = "commit"]
        /\ UNCHANGED <<disk, storedFiles, work, pending>>
    BY <1>2 DEF SetFileRef, EndCard, Transfer, ArchiveOwned, SynchronizeCard, StoreRows
  <2>2. stage'[r] = "commit" /\ \A s \in Requests \ {r} : stage'[s] = stage[s]
    BY <2>1 DEF TypeOK
  <2> QED
    BY <2>1, <2>2 DEF InFlight, Coherent, TasksAreSound
<1> QED
  BY <1>1, <1>2

\* Every file in flight is registered for deletion.
Cleaned == /\ UncommittedAreDeleted
           /\ \A r \in Requests : InFlight(r) \subseteq pending[r]

\* A request that ends gives up its files: they are stored, deleted or
\* abandoned.
LEMMA CleanedAtEnd ==
  ASSUME TypeOK, Cleaned, NEW r \in Requests, Release(r), storedFiles \subseteq storedFiles',
         abandoned \subseteq abandoned',
         \A k \in files' : k \in files \/ k \in abandoned',
         \A k \in InFlight(r) \cap files' : k \in storedFiles' \cup abandoned'
  PROVE  Cleaned'
<1> USE Released
<1>1. ASSUME NEW k \in files'
      PROVE  \/ k \in storedFiles' \cup abandoned'
             \/ \E s \in Requests : k \in InFlight(s)'
  <2>1. CASE k \in files /\ k \notin storedFiles \cup abandoned
    <3>1. PICK s \in Requests : k \in InFlight(s)
      BY <2>1 DEF Cleaned, UncommittedAreDeleted
    <3>2. CASE s = r
      BY <1>1, <3>1, <3>2
    <3>3. CASE s # r
      BY <3>1, <3>3
    <3> QED
      BY <3>2, <3>3
  <2> QED
    BY <1>1, <2>1
<1>2. ASSUME NEW s \in Requests PROVE InFlight(s)' \subseteq pending'[s]
  <2>1. CASE s = r
    BY <2>1
  <2>2. CASE s # r
    BY <2>2 DEF Cleaned
  <2> QED
    BY <2>1, <2>2
<1> QED
  BY <1>1, <1>2 DEF Cleaned, UncommittedAreDeleted

LEMMA NextCleans ==
  ASSUME TypeOK, Coherent, Cleaned, "document" \notin FileKinds, [Next]_vars
  PROVE  Cleaned'
<1>1. ASSUME /\ UNCHANGED <<disk, storedFiles, pending>>
             /\ \A s \in Requests : InFlight(s)' = InFlight(s)
      PROVE  Cleaned'
  BY <1>1 DEF Cleaned, UncommittedAreDeleted, disk
<1>2. ASSUME NEW r \in Requests, WriteFile(r) PROVE Cleaned'
  <2>1. PICK k \in StorageKeys \ (files \cup storedFiles) :
          /\ files' = files \cup {k}
          /\ work' = [work EXCEPT ![r] = [@ EXCEPT !.key = k]]
          /\ pending' = [pending EXCEPT ![r] =
               IF Registered(work[r].kind) THEN @ \cup {k} ELSE @]
    BY <1>2 DEF WriteFile
  <2>2. /\ stage[r] = "write" /\ stage' = [stage EXCEPT ![r] = "file"]
        /\ UNCHANGED <<abandoned, storedFiles>>
    BY <1>2 DEF WriteFile, Goto, rows
  <2>3. Registered(work[r].kind) /\ work[r].task = "file"
    <3>1. work[r].task = "file"
      BY <2>2 DEF Coherent, TasksAreSound
    <3>2. work[r].kind \in FileKinds
      BY <3>1 DEF Coherent, TasksAreSound
    <3>3. work[r].kind \in {"attachment", "report"}
      BY <3>2, ConstantsAssumption
    <3> QED
      BY <3>1, <3>3 DEF Registered
  <2>4. /\ stage'[r] = "file" /\ work'[r].key = k /\ work'[r].task = "file"
        /\ k \in pending'[r]
        /\ \A s \in Requests \ {r} :
             stage'[s] = stage[s] /\ work'[s] = work[s] /\ pending'[s] = pending[s]
    <3>1. /\ stage'[r] = "file" /\ work'[r].key = k /\ work'[r].task = work[r].task
          /\ pending'[r] = pending[r] \cup {k}
      BY <2>1, <2>2, <2>3 DEF TypeOK
    <3>2. \A s \in Requests \ {r} :
            stage'[s] = stage[s] /\ work'[s] = work[s] /\ pending'[s] = pending[s]
      BY <2>1, <2>2 DEF TypeOK
    <3> QED
      BY <2>3, <3>1, <3>2
  <2>5. InFlight(r) = {} /\ InFlight(r)' = {k}
        /\ \A s \in Requests \ {r} : InFlight(s)' = InFlight(s)
    BY <2>2, <2>4 DEF InFlight
  <2>6. \A s \in Requests : InFlight(s)' \subseteq pending'[s]
    BY <2>4, <2>5 DEF Cleaned
  <2>7. ASSUME NEW j \in files'
        PROVE  \/ j \in storedFiles' \cup abandoned'
               \/ \E s \in Requests : j \in InFlight(s)'
    <3>1. CASE j = k
      BY <2>5, <3>1
    <3>2. CASE j \in files
      BY <2>2, <2>5, <3>2 DEF Cleaned, UncommittedAreDeleted
    <3> QED
      BY <2>1, <3>1, <3>2
  <2> QED
    BY <2>6, <2>7 DEF Cleaned, UncommittedAreDeleted
<1>3. ASSUME NEW r \in Requests, CommitRows(r) \/ LoseAnswer(r) PROVE Cleaned'
  <2>1. /\ stage[r] = "commit" /\ Publish(r) /\ Release(r) /\ files' \subseteq files
        /\ abandoned \subseteq abandoned'
    BY <1>3 DEF CommitRows, LoseAnswer, Delete, disk
  <2>2. storedFiles' = storedFiles \cup InFlight(r)
    BY <2>1 DEF Publish, InFlight
  <2> QED
    BY <2>1, <2>2, CleanedAtEnd
<1>4. ASSUME NEW r \in Requests, NEW lost, InFlight(r) \subseteq lost,
             Delete(lost), Release(r), UNCHANGED rows
      PROVE  Cleaned'
  <2>1. PICK kept \in SUBSET (lost \cap files) :
          files' = files \ (lost \ kept) /\ abandoned' = abandoned \cup kept
    BY <1>4 DEF Delete
  <2> QED
    BY <1>4, <2>1, CleanedAtEnd DEF rows
<1>5. ASSUME NEW r \in Requests, Rollback(r) PROVE Cleaned'
  <2>1. InFlight(r) \subseteq pending[r]
    BY DEF Cleaned
  <2> QED
    BY <1>4, <1>5, <2>1 DEF Rollback
<1>6. ASSUME NEW r \in Requests, FailInside(r) PROVE Cleaned'
  <2>1. InFlight(r) \subseteq {work[r].key}
    BY DEF InFlight
  <2> QED
    BY <1>4, <1>6, <2>1 DEF FailInside
<1>7. ASSUME NEW r \in Requests, FailWrite(r) PROVE Cleaned'
  <2>1. PICK k \in StorageKeys : files' = files \cup {k} /\ abandoned' = abandoned \cup {k}
    BY <1>7 DEF FailWrite
  <2>2. /\ stage[r] = "write" /\ Release(r) /\ storedFiles' = storedFiles
        /\ InFlight(r) = {}
    BY <1>7 DEF FailWrite, rows, InFlight
  <2> QED
    BY <2>1, <2>2, CleanedAtEnd
<1>8. ASSUME Crash PROVE Cleaned'
  <2>1. /\ files' = files /\ storedFiles' = storedFiles
        /\ abandoned' = abandoned \cup UNION {InFlight(r) : r \in Requests}
        /\ \A r \in Requests : stage'[r] = "idle"
    BY <1>8 DEF Crash, rows
  <2>2. \A r \in Requests : InFlight(r)' = {}
    BY <2>1 DEF InFlight
  <2> QED
    BY <2>1, <2>2 DEF Cleaned, UncommittedAreDeleted
<1>9. CASE UNCHANGED vars
  BY <1>1, <1>9 DEF vars, disk, InFlight
<1> QED
  BY <1>1, <1>2, <1>3, <1>5, <1>6, <1>7, <1>8, <1>9, QuietSteps, FirstCard
  DEF Next, Step

-----------------------------------------------------------------------------
(* Theorems *)

\* The rows fit their tables, and requests, locks and rows agree, also when
\* answers of commits are lost.
THEOREM TypeCorrect == Spec => [](TypeOK /\ Coherent)
<1>1. Init => TypeOK /\ Coherent
  BY InitIsConsistent
<1>2. TypeOK /\ Coherent /\ [Next]_vars => TypeOK' /\ Coherent'
  BY NextPreserves, StutterPreserves DEF Preserved
<1> QED
  BY <1>1, <1>2, PTL DEF Spec

\* The induction hypothesis as a whole, if answers of commits arrive.
THEOREM AlwaysConsistent == ~AnswersMayBeLost => (Spec => []Consistent)
<1> SUFFICES ASSUME ~AnswersMayBeLost PROVE Spec => []Consistent
  OBVIOUS
<1> DEFINE Inv == TypeOK /\ Coherent /\ FilesAreKept
<1>1. Init => Inv
  BY InitIsConsistent
<1>2. Inv /\ [Next]_vars => Inv'
  BY NextPreserves, StutterPreserves DEF Preserved
<1>3. Inv => Consistent
  BY DEF Coherent, Consistent
<1> QED
  BY <1>1, <1>2, <1>3, PTL DEF Spec

\* A committed row has its file, if answers of commits arrive: no rollback,
\* exception or crash deletes a file that is stored.
THEOREM FilesAreSafe == ~AnswersMayBeLost => (Spec => []RowsHaveFiles)
<1> SUFFICES ASSUME ~AnswersMayBeLost PROVE Spec => []RowsHaveFiles
  OBVIOUS
<1>1. Spec => []Consistent
  BY AlwaysConsistent
<1>2. Consistent => RowsHaveFiles
  BY DEF Consistent, FilesAreKept, RowsHaveFiles
<1> QED
  BY <1>1, <1>2, PTL

\* A value of type file_ref points to a stored attachment of its own card.
THEOREM ReferencesAlwaysResolve == Spec => []ReferencesResolve
<1>1. TypeOK /\ Coherent => ReferencesResolve
  BY DEF TypeOK, CardRow, Coherent, RowsAreSound, Sound, ReferencesResolve
<1> QED
  BY <1>1, TypeCorrect, PTL

\* While a card is ended, no request that raced with its end changes its
\* attachments, documents and references.
THEOREM EndedCardsStay == Spec => EndedCardsAreReadOnly
<1>1. TypeOK /\ Coherent /\ [Next]_vars =>
        [\A c \in Cards :
           card[c].state \in Ended /\ card'[c].state \in Ended =>
             SameFiles(card[c], card'[c])]_vars
  BY NextPreserves DEF Preserved, Allowed
<1> QED
  BY <1>1, TypeCorrect, PTL DEF Spec, EndedCardsAreReadOnly

\* No value of type file_ref starts to point to an archived attachment.
THEOREM NewReferencesStayLive == Spec => NewReferencesAreLive
<1>1. TypeOK /\ Coherent /\ [Next]_vars =>
        [\A c \in Cards :
           card'[c].ref # card[c].ref /\ card'[c].ref # NoKey =>
             card'[c].attachment[card'[c].ref] = "live"]_vars
  BY NextPreserves DEF Preserved, Allowed
<1> QED
  BY <1>1, TypeCorrect, PTL DEF Spec, NewReferencesAreLive

\* Where only attachments and reports are produced, a file that no row names
\* belongs to a request in flight, unless a crash or the disk abandoned it.
THEOREM OutputsAreCleaned ==
  "document" \notin FileKinds => (Spec => []UncommittedAreDeleted)
<1> SUFFICES ASSUME "document" \notin FileKinds PROVE Spec => []UncommittedAreDeleted
  OBVIOUS
<1>1. Init => Cleaned
  BY DEF Init, Cleaned, UncommittedAreDeleted, InFlight
<1>2. TypeOK /\ Coherent /\ Cleaned /\ [Next]_vars => Cleaned'
  BY NextCleans
<1>3. Cleaned => UncommittedAreDeleted
  BY DEF Cleaned
<1> QED
  BY <1>1, <1>2, <1>3, TypeCorrect, PTL DEF Spec
=============================================================================
