----------------------------- MODULE Editors_proofs -----------------------------
(***************************************************************************)
(* Proofs about the two editors of the browser, PublicEditor and           *)
(* BlockEditor, for any values, fields, cards and numbers of requests.     *)
(***************************************************************************)
EXTENDS BlockEditor, PublicEditor, TLAPS

-----------------------------------------------------------------------------
(* Sequences *)

LEMMA Appended ==
  ASSUME NEW S, NEW s \in Seq(S), NEW x \in S
  PROVE  /\ Append(s, x) \in Seq(S) /\ Len(Append(s, x)) = Len(s) + 1
         /\ DOMAIN s = 1..Len(s) /\ Len(s) \in Nat
         /\ DOMAIN Append(s, x) = 1..(Len(s) + 1)
         /\ \A i \in 1..Len(s) : Append(s, x)[i] = s[i]
         /\ Append(s, x)[Len(s) + 1] = x
OBVIOUS

LEMMA Replaced ==
  ASSUME NEW S, NEW s \in Seq(S), NEW i \in DOMAIN s, NEW x \in S
  PROVE  /\ [s EXCEPT ![i] = x] \in Seq(S) /\ Len([s EXCEPT ![i] = x]) = Len(s)
         /\ DOMAIN s = 1..Len(s) /\ Len(s) \in Nat
         /\ DOMAIN [s EXCEPT ![i] = x] = DOMAIN s
         /\ \A j \in DOMAIN s : [s EXCEPT ![i] = x][j] = IF j = i THEN x ELSE s[j]
OBVIOUS

-----------------------------------------------------------------------------
(* The inductive invariant of the editor on the page of a link *)

EditorRows == [id : Nat, raw : Contents, confirmed : Contents, basis : BOOLEAN, dirty : BOOLEAN,
               state : {"idle", "saving", "saved", "error"}, latest : Nat]
Tries == [by : Nat, value : Contents, version : Nat,
          served : {"no", "stored", "refused"}, answer : {"none", "told", "failed"}]

PublicTypeOK ==
  /\ public \in [value : Contents, by : Nat] /\ public.by <= mounts
  /\ activated \in BOOLEAN /\ delayed \in BOOLEAN
  /\ mounts \in Nat
  /\ OnPage => editor \in EditorRows /\ Me = mounts /\ Me # 0
  /\ queued \in Seq(Saves \cup {NoSave}) /\ Len(queued) = mounts
  /\ busy \subseteq 1..mounts
  /\ tries \in Seq(Tries) /\ \A i \in DOMAIN tries : tries[i].by \in 1..mounts
  /\ focused \in BOOLEAN /\ overtaken \in BOOLEAN

\* An editor drains its queue while a request of it is unanswered, which is
\* the last it sent.
DrainsRun ==
  /\ \A i \in DOMAIN tries : tries[i].answer = "none" => tries[i].by \in busy
  /\ \A e \in busy : \E i \in DOMAIN tries : tries[i].by = e /\ tries[i].answer = "none"
  /\ \A i, j \in DOMAIN tries : tries[i].by = tries[j].by /\ tries[i].answer = "none" => j <= i
  /\ \A i \in DOMAIN tries : tries[i].answer = "told" => tries[i].served = "stored"

\* The save that waits, or else the request that is unanswered, is of what the field shows.
LatestIsShown ==
  OnPage =>
    /\ \A i \in DOMAIN tries : tries[i].by = Me => tries[i].version <= editor.latest
    /\ queued[Me] # NoSave => /\ IsSaving
                              /\ queued[Me].version = editor.latest /\ queued[Me].value = editor.raw
    /\ \A i \in DOMAIN tries :
         tries[i].by = Me /\ tries[i].answer = "none" /\ tries[i].version = editor.latest =>
           IsSaving /\ tries[i].value = editor.raw /\ queued[Me] = NoSave
    /\ IsSaving /\ queued[Me] = NoSave =>
         \E i \in DOMAIN tries : /\ tries[i].by = Me /\ tries[i].answer = "none"
                                 /\ tries[i].version = editor.latest
    /\ IsSaving => Me \in busy \/ overtaken \/ (focused /\ ~activated)

\* What is shown as saved was stored by the last request.
SavedIsLast ==
  OnPage /\ editor.state = "saved" =>
    /\ ~editor.dirty /\ queued[Me] = NoSave
    /\ \E i \in DOMAIN tries :
         /\ tries[i].by = Me /\ tries[i].answer = "told" /\ tries[i].value = editor.raw
         /\ \A j \in DOMAIN tries : tries[j].by = Me => j <= i

\* The stored value is of the last request of its editor that was stored, or
\* of one that the page believed to have failed.
LastStored ==
  public.by # 0 =>
    \E j \in DOMAIN tries :
      /\ tries[j].by = public.by /\ tries[j].served = "stored" /\ tries[j].value = public.value
      /\ \/ tries[j].answer = "failed"
         \/ \A k \in DOMAIN tries : tries[k].by = public.by /\ tries[k].served = "stored" => k <= j

PublicEditorIsSound == PublicTypeOK /\ DrainsRun /\ LatestIsShown /\ SavedIsLast /\ LastStored


-----------------------------------------------------------------------------
(* The page of a link: the queue *)

\* What Drained does to the requests and queues
LEMMA DrainedRuns ==
  ASSUME PublicTypeOK, DrainsRun, NEW e \in 1..mounts, NEW save \in Saves \cup {NoSave},
         Drained(e, save, tries)
  PROVE  /\ queued' \in Seq(Saves \cup {NoSave}) /\ Len(queued') = mounts
         /\ \A d \in 1..mounts : d # e => queued'[d] = queued[d]
         /\ tries' \in Seq(Tries) /\ busy' \subseteq 1..mounts
         /\ DOMAIN tries = 1..Len(tries) /\ Len(tries) \in Nat
         /\ \A i \in DOMAIN tries : i \in DOMAIN tries' /\ tries'[i] = tries[i]
         /\ \/ /\ e \in busy \/ save = NoSave
               /\ tries' = tries /\ busy' = busy /\ queued'[e] = save
            \/ /\ e \notin busy /\ save # NoSave /\ queued'[e] = NoSave /\ busy' = busy \cup {e}
               /\ DOMAIN tries' = 1..(Len(tries) + 1)
               /\ tries'[Len(tries) + 1] = GuestRequest(e, save)
<1>1. /\ queued \in Seq(Saves \cup {NoSave}) /\ Len(queued) = mounts /\ e \in DOMAIN queued
      /\ tries \in Seq(Tries) /\ busy \subseteq 1..mounts /\ DOMAIN queued = 1..mounts
      /\ DOMAIN tries = 1..Len(tries) /\ Len(tries) \in Nat
  BY DEF PublicTypeOK
<1>2. CASE e \in busy \/ save = NoSave
  <2>1. queued' = [queued EXCEPT ![e] = save] /\ tries' = tries /\ busy' = busy
    BY <1>2 DEF Drained
  <2>2. /\ queued' \in Seq(Saves \cup {NoSave}) /\ Len(queued') = mounts /\ queued'[e] = save
        /\ \A d \in 1..mounts : d # e => queued'[d] = queued[d]
    <3> DEFINE S == Saves \cup {NoSave}
    <3>1. queued \in Seq(S) /\ save \in S
      BY <1>1
    <3> HIDE DEF S
    <3>2. queued' \in Seq(S) /\ Len(queued') = mounts /\ queued'[e] = save
          /\ \A d \in 1..mounts : d # e => queued'[d] = queued[d]
      BY <1>1, <2>1, <3>1, Replaced
    <3> QED
      BY <3>2 DEF S
  <2> QED
    BY <1>1, <1>2, <2>1, <2>2
<1>3. CASE e \notin busy /\ save # NoSave
  <2>1. /\ queued' = [queued EXCEPT ![e] = NoSave] /\ busy' = busy \cup {e}
        /\ tries' = Append(tries, GuestRequest(e, save))
    BY <1>3 DEF Drained
  <2>2. save \in Saves /\ GuestRequest(e, save) \in Tries
    BY <1>3 DEF Saves, GuestRequest, Tries, PublicTypeOK
  <2>3. /\ queued' \in Seq(Saves \cup {NoSave}) /\ Len(queued') = mounts /\ queued'[e] = NoSave
        /\ \A d \in 1..mounts : d # e => queued'[d] = queued[d]
    <3> DEFINE S == Saves \cup {NoSave}
    <3>1. queued \in Seq(S) /\ NoSave \in S
      BY <1>1
    <3> HIDE DEF S
    <3>2. queued' \in Seq(S) /\ Len(queued') = mounts /\ queued'[e] = NoSave
          /\ \A d \in 1..mounts : d # e => queued'[d] = queued[d]
      BY <1>1, <2>1, <3>1, Replaced
    <3> QED
      BY <3>2 DEF S
  <2>4. /\ tries' \in Seq(Tries) /\ DOMAIN tries' = 1..(Len(tries) + 1)
        /\ tries'[Len(tries) + 1] = GuestRequest(e, save)
        /\ \A i \in DOMAIN tries : i \in DOMAIN tries' /\ tries'[i] = tries[i]
    BY <1>1, <2>1, <2>2, Appended
  <2> QED
    BY <1>1, <1>3, <2>1, <2>3, <2>4
<1> QED
  BY <1>2, <1>3

LEMMA DrainedIsSound ==
  ASSUME PublicTypeOK, DrainsRun, NEW e \in 1..mounts, NEW save \in Saves \cup {NoSave},
         Drained(e, save, tries)
  PROVE  DrainsRun' /\ \A i \in DOMAIN tries' : tries'[i].by \in 1..mounts
<1>1. \A i \in DOMAIN tries : tries[i].by \in 1..mounts
  BY DEF PublicTypeOK
<1>2. CASE tries' = tries /\ busy' = busy
  BY <1>1, <1>2 DEF DrainsRun
<1>3. CASE /\ e \notin busy /\ save # NoSave /\ queued'[e] = NoSave /\ busy' = busy \cup {e}
           /\ DOMAIN tries' = 1..(Len(tries) + 1)
           /\ tries'[Len(tries) + 1] = GuestRequest(e, save)
  <2> DEFINE n == Len(tries) + 1
  <2>1. /\ DOMAIN tries = 1..Len(tries) /\ n \in Nat /\ n \in DOMAIN tries'
        /\ \A i \in DOMAIN tries : i \in DOMAIN tries' /\ tries'[i] = tries[i] /\ i < n
        /\ \A i \in DOMAIN tries' : i = n \/ i \in DOMAIN tries
    BY <1>3, DrainedRuns
  <2>2. /\ tries'[n].by = e /\ tries'[n].answer = "none" /\ tries'[n].served = "no"
    BY <1>3 DEF GuestRequest
  <2> HIDE DEF n
  <2>3. \A i \in DOMAIN tries' : tries'[i].answer = "none" => tries'[i].by \in busy'
    BY <1>3, <2>1, <2>2 DEF DrainsRun
  <2>4. \A d \in busy' : \E i \in DOMAIN tries' : tries'[i].by = d /\ tries'[i].answer = "none"
    BY <1>3, <2>1, <2>2 DEF DrainsRun
  <2>5. \A i, j \in DOMAIN tries' :
          tries'[i].by = tries'[j].by /\ tries'[i].answer = "none" => j <= i
    <3>1. \A i \in DOMAIN tries : tries[i].by = e => tries[i].answer # "none"
      BY <1>3 DEF DrainsRun
    <3>2. \A i \in DOMAIN tries' : i \in Nat /\ i <= n
      BY <2>1
    <3> QED
      BY <2>1, <2>2, <3>1, <3>2 DEF DrainsRun
  <2>6. \A i \in DOMAIN tries' : tries'[i].answer = "told" => tries'[i].served = "stored"
    BY <2>1, <2>2 DEF DrainsRun
  <2>7. \A i \in DOMAIN tries' : tries'[i].by \in 1..mounts
    BY <1>1, <2>1, <2>2
  <2> QED
    BY <2>3, <2>4, <2>5, <2>6, <2>7 DEF DrainsRun
<1> QED
  BY <1>2, <1>3, DrainedRuns

\* What GoesOn does to them, once request i has an answer
LEMMA GoesOnRuns ==
  ASSUME PublicTypeOK, DrainsRun, NEW i \in DOMAIN tries, NEW answer \in {"told", "failed"},
         tries[i].answer = "none", GoesOn(i, answer)
  PROVE  LET e == tries[i].by IN
         /\ e \in busy
         /\ queued' \in Seq(Saves \cup {NoSave}) /\ Len(queued') = mounts /\ queued'[e] = NoSave
         /\ \A d \in 1..mounts : d # e => queued'[d] = queued[d]
         /\ tries' \in Seq(Tries) /\ busy' \subseteq 1..mounts
         /\ DOMAIN tries = 1..Len(tries) /\ Len(tries) \in Nat
         /\ i \in DOMAIN tries'
         /\ tries'[i].by = e /\ tries'[i].value = tries[i].value
         /\ tries'[i].version = tries[i].version
         /\ tries'[i].served = tries[i].served /\ tries'[i].answer = answer
         /\ \A j \in DOMAIN tries : j # i => j \in DOMAIN tries' /\ tries'[j] = tries[j]
         /\ \/ /\ queued[e] = NoSave /\ busy' = busy \ {e}
               /\ DOMAIN tries' = DOMAIN tries
            \/ /\ queued[e] # NoSave /\ busy' = busy
               /\ DOMAIN tries' = 1..(Len(tries) + 1)
               /\ tries'[Len(tries) + 1] = GuestRequest(e, queued[e])
<1> DEFINE e == tries[i].by
           requests == [tries EXCEPT ![i].answer = answer]
<1>1. /\ queued \in Seq(Saves \cup {NoSave}) /\ Len(queued) = mounts /\ e \in DOMAIN queued
      /\ tries \in Seq(Tries) /\ busy \subseteq 1..mounts /\ DOMAIN queued = 1..mounts
      /\ DOMAIN tries = 1..Len(tries) /\ Len(tries) \in Nat /\ tries[i] \in Tries
      /\ queued[e] \in Saves \cup {NoSave} /\ e \in Nat
  BY DEF PublicTypeOK
<1>2. /\ [tries[i] EXCEPT !.answer = answer] \in Tries
      /\ requests = [tries EXCEPT ![i] = [tries[i] EXCEPT !.answer = answer]]
  BY <1>1 DEF Tries
<1>3. /\ requests \in Seq(Tries) /\ Len(requests) = Len(tries) /\ DOMAIN requests = DOMAIN tries
      /\ \A j \in DOMAIN tries : j # i => requests[j] = tries[j]
      /\ requests[i] = [tries[i] EXCEPT !.answer = answer]
  BY <1>1, <1>2, Replaced
<1>4. /\ requests[i].by = e /\ requests[i].value = tries[i].value
      /\ requests[i].version = tries[i].version
      /\ requests[i].served = tries[i].served /\ requests[i].answer = answer
  BY <1>1, <1>3 DEF Tries
<1>5. e \in busy
  BY DEF DrainsRun
<1>6. CASE queued[e] = NoSave
  <2>1. tries' = requests /\ busy' = busy \ {e} /\ queued' = queued
    BY <1>6 DEF GoesOn
  <2> HIDE DEF requests, e
  <2> QED
    BY <1>1, <1>3, <1>4, <1>5, <1>6, <2>1 DEF e
<1>7. CASE queued[e] # NoSave
  <2>1. /\ tries' = Append(requests, GuestRequest(e, queued[e]))
        /\ queued' = [queued EXCEPT ![e] = NoSave] /\ busy' = busy
    BY <1>7 DEF GoesOn
  <2>2. GuestRequest(e, queued[e]) \in Tries
    BY <1>1, <1>7 DEF GuestRequest, Tries, Saves
  <2>3. /\ queued' \in Seq(Saves \cup {NoSave}) /\ Len(queued') = mounts /\ queued'[e] = NoSave
        /\ \A d \in 1..mounts : d # e => queued'[d] = queued[d]
    BY <1>1, <2>1, Replaced
  <2> DEFINE new == GuestRequest(e, queued[e])
  <2> HIDE DEF requests, e, new
  <2>4. /\ tries' \in Seq(Tries) /\ DOMAIN tries' = 1..(Len(tries) + 1)
        /\ tries'[Len(tries) + 1] = new
        /\ \A j \in DOMAIN tries : tries'[j] = requests[j] /\ j \in DOMAIN tries'
    <3>1. tries' = Append(requests, new) /\ requests \in Seq(Tries) /\ new \in Tries
      BY <1>3, <2>1, <2>2 DEF new
    <3>2. Len(requests) = Len(tries) /\ DOMAIN tries = 1..Len(requests)
      BY <1>1, <1>3
    <3> QED
      BY <3>1, <3>2, Appended
  <2> QED
    BY <1>1, <1>3, <1>4, <1>5, <1>7, <2>1, <2>3, <2>4 DEF e, new
<1> QED
  BY <1>6, <1>7

LEMMA GoesOnIsSound ==
  ASSUME PublicTypeOK, DrainsRun, NEW i \in DOMAIN tries, NEW answer \in {"told", "failed"},
         tries[i].answer = "none", answer = "told" => tries[i].served = "stored",
         GoesOn(i, answer)
  PROVE  DrainsRun' /\ \A j \in DOMAIN tries' : tries'[j].by \in 1..mounts
<1> DEFINE e == tries[i].by
           n == Len(tries) + 1
<1>1. /\ e \in busy /\ n \in Nat /\ i \in DOMAIN tries'
      /\ tries'[i].by = e /\ tries'[i].served = tries[i].served /\ tries'[i].answer = answer
      /\ \A j \in DOMAIN tries : /\ j # i => j \in DOMAIN tries' /\ tries'[j] = tries[j]
                                 /\ j < n /\ j \in Nat
      /\ \/ /\ busy' = busy \ {e} /\ DOMAIN tries' = DOMAIN tries
         \/ /\ busy' = busy /\ DOMAIN tries' = (DOMAIN tries) \cup {n} /\ tries'[n].by = e
            /\ tries'[n].answer = "none" /\ tries'[n].served = "no"
  <2>1. \A save : /\ GuestRequest(e, save).by = e /\ GuestRequest(e, save).answer = "none"
                   /\ GuestRequest(e, save).served = "no"
    BY DEF GuestRequest
  <2> HIDE DEF e
  <2>2. DOMAIN tries = 1..Len(tries) /\ Len(tries) \in Nat
    BY GoesOnRuns
  <2>3. DOMAIN tries' = 1..(Len(tries) + 1) => DOMAIN tries' = (DOMAIN tries) \cup {n}
    BY <2>2
  <2>4. n \in Nat /\ \A j \in DOMAIN tries : j < n /\ j \in Nat
    BY <2>2
  <2> HIDE DEF n
  <2> QED
    BY <2>1, <2>2, <2>3, <2>4, GoesOnRuns DEF e, n
<1>2. \A j \in DOMAIN tries : j # i /\ tries[j].by = e => tries[j].answer # "none"
  <2>1. \A j \in DOMAIN tries : tries[j].by = e /\ tries[j].answer = "none" => i <= j /\ j <= i
    BY DEF DrainsRun
  <2> QED
    BY <1>1, <2>1
<1>3. \A j \in DOMAIN tries : tries[j].by \in 1..mounts
  BY DEF PublicTypeOK
<1> HIDE DEF e, n
<1>4. \A j \in DOMAIN tries' : tries'[j].answer = "none" => tries'[j].by \in busy'
  BY <1>1, <1>2 DEF DrainsRun
<1>5. \A d \in busy' : \E j \in DOMAIN tries' : tries'[j].by = d /\ tries'[j].answer = "none"
  <2> SUFFICES ASSUME NEW d \in busy'
               PROVE  \E j \in DOMAIN tries' : tries'[j].by = d /\ tries'[j].answer = "none"
    OBVIOUS
  <2>1. CASE d # e
    <3>1. PICK j \in DOMAIN tries : tries[j].by = d /\ tries[j].answer = "none"
      BY <1>1 DEF DrainsRun
    <3> QED
      BY <1>1, <2>1, <3>1 DEF e
  <2>2. CASE d = e
    BY <1>1, <2>2
  <2> QED
    BY <2>1, <2>2
<1>6. \A j, k \in DOMAIN tries' : tries'[j].by = tries'[k].by /\ tries'[j].answer = "none" => k <= j
  <2>1. \A j \in DOMAIN tries' : j = n \/ j \in DOMAIN tries
    BY <1>1
  <2>2. \A j \in DOMAIN tries : tries'[j].by = tries[j].by
                                /\ (tries'[j].answer = "none" => tries[j].answer = "none" /\ j # i)
    BY <1>1 DEF e
  <2> QED
    BY <1>1, <1>2, <2>1, <2>2 DEF DrainsRun
<1>7. \A j \in DOMAIN tries' : tries'[j].answer = "told" => tries'[j].served = "stored"
  BY <1>1 DEF DrainsRun
<1>8. \A j \in DOMAIN tries' : tries'[j].by \in 1..mounts
  BY <1>1, <1>3 DEF e
<1> QED
  BY <1>4, <1>5, <1>6, <1>7, <1>8 DEF DrainsRun

\* What was stored last stays so when requests are sent and answered.
LEMMA LastStoredStays ==
  ASSUME LastStored, public' = public,
         \A j \in DOMAIN tries :
           /\ j \in DOMAIN tries' /\ tries'[j].by = tries[j].by /\ tries'[j].value = tries[j].value
           /\ tries'[j].served = tries[j].served
           /\ tries[j].answer = "failed" => tries'[j].answer = "failed",
         \A j \in DOMAIN tries' : j \notin DOMAIN tries => tries'[j].served = "no"
  PROVE  LastStored'
<1> SUFFICES ASSUME public.by # 0
             PROVE  \E j \in DOMAIN tries' :
                      /\ tries'[j].by = public.by /\ tries'[j].served = "stored"
                      /\ tries'[j].value = public.value
                      /\ \/ tries'[j].answer = "failed"
                         \/ \A k \in DOMAIN tries' :
                              tries'[k].by = public.by /\ tries'[k].served = "stored" => k <= j
  BY DEF LastStored
<1>1. PICK j \in DOMAIN tries :
        /\ tries[j].by = public.by /\ tries[j].served = "stored" /\ tries[j].value = public.value
        /\ \/ tries[j].answer = "failed"
           \/ \A k \in DOMAIN tries : tries[k].by = public.by /\ tries[k].served = "stored" => k <= j
  BY DEF LastStored
<1>2. \A k \in DOMAIN tries' : tries'[k].by = public.by /\ tries'[k].served = "stored" =>
        k \in DOMAIN tries /\ tries[k].by = public.by /\ tries[k].served = "stored"
  OBVIOUS
<1> QED
  BY <1>1, <1>2

-----------------------------------------------------------------------------
(* The page of a link: its steps *)

USE DEF OnPage, Me, IsSaving

LEMMA PublicTypes ==
  ASSUME PublicTypeOK
  PROVE  /\ OnPage => editor.latest \in Nat /\ editor.raw \in Contents
         /\ \A i \in DOMAIN tries : /\ tries[i].version \in Nat /\ tries[i].value \in Contents
                                  /\ tries[i].by \in Nat /\ i \in Nat
<1>1. \A i \in DOMAIN tries : tries[i] \in Tries /\ i \in Nat
  BY DEF PublicTypeOK
<1>2. OnPage => editor \in EditorRows
  BY DEF PublicTypeOK
<1> QED
  BY <1>1, <1>2 DEF Tries, EditorRows

LEMMA NoSaveIsNoSave == \A v \in Contents, n \in Nat : [value |-> v, version |-> n] # NoSave
BY PublicEditorAssumption DEF Saves

\* A step of the editor alone: no request, no answer
LEMMA QueueAlone ==
  ASSUME PublicEditorIsSound, UNCHANGED <<public, queued, busy, tries, mounts>>,
         activated' \in BOOLEAN, delayed' \in BOOLEAN, focused' \in BOOLEAN, overtaken' \in BOOLEAN,
         editor' = NoEditor \/ (editor' \in EditorRows /\ editor'.id = mounts /\ mounts # 0)
  PROVE  PublicTypeOK' /\ DrainsRun' /\ LastStored'
<1>1. PublicTypeOK /\ DrainsRun /\ LastStored
  BY DEF PublicEditorIsSound
<1>2. PublicTypeOK'
  BY <1>1 DEF PublicTypeOK, OnPage
<1>3. DrainsRun' /\ LastStored'
  BY <1>1 DEF DrainsRun, LastStored
<1> QED
  BY <1>2, <1>3

\* A save that is sent, or waits for the answer to another, is of what the field shows.
LEMMA DrainedIsShown ==
  ASSUME PublicEditorIsSound, OnPage, NEW save \in Saves \cup {NoSave}, Drained(Me, save, tries),
         editor' \in EditorRows, editor'.id = Me, public' = public, mounts' = mounts,
         activated' = activated, delayed' = delayed, overtaken' = overtaken, focused' \in BOOLEAN,
         save # NoSave =>
           /\ editor'.state = "saving" /\ save.version = editor'.latest /\ save.value = editor'.raw
           /\ editor.latest <= editor'.latest
           /\ \A i \in DOMAIN tries : tries[i].by = Me /\ tries[i].answer = "none" =>
                tries[i].version # editor'.latest,
         save = NoSave => editor' = editor /\ queued[Me] = NoSave
  PROVE  PublicEditorIsSound'
<1>1. PublicTypeOK /\ DrainsRun /\ LatestIsShown /\ SavedIsLast /\ LastStored
  BY DEF PublicEditorIsSound
<1>2. Me \in 1..mounts /\ editor \in EditorRows /\ Me = mounts /\ mounts \in Nat
  BY <1>1 DEF PublicTypeOK
<1> DEFINE e == editor.id
           n == Len(tries) + 1
<1>3. /\ queued' \in Seq(Saves \cup {NoSave}) /\ Len(queued') = mounts
      /\ tries' \in Seq(Tries) /\ busy' \subseteq 1..mounts
      /\ DOMAIN tries = 1..Len(tries) /\ Len(tries) \in Nat
      /\ \A i \in DOMAIN tries : i \in DOMAIN tries' /\ tries'[i] = tries[i]
      /\ \/ /\ e \in busy \/ save = NoSave
            /\ tries' = tries /\ busy' = busy /\ queued'[e] = save
         \/ /\ e \notin busy /\ save # NoSave /\ queued'[e] = NoSave /\ busy' = busy \cup {e}
            /\ DOMAIN tries' = 1..(Len(tries) + 1)
            /\ tries'[Len(tries) + 1] = GuestRequest(e, save)
  BY <1>1, <1>2, DrainedRuns
<1>4. DrainsRun' /\ \A i \in DOMAIN tries' : tries'[i].by \in 1..mounts
  BY <1>1, <1>2, DrainedIsSound
<1>5. PublicTypeOK'
  BY <1>1, <1>2, <1>3, <1>4 DEF PublicTypeOK
<1>6. LastStored'
  <2>1. \A i \in DOMAIN tries' : i \notin DOMAIN tries => tries'[i].served = "no"
    BY <1>3 DEF GuestRequest
  <2> QED
    BY <1>1, <1>3, <2>1, LastStoredStays
<1>7. \/ /\ e \in busy \/ save = NoSave
         /\ tries' = tries /\ busy' = busy /\ queued'[e] = save
      \/ /\ e \notin busy /\ save # NoSave /\ queued'[e] = NoSave /\ e \in busy'
         /\ n \in DOMAIN tries' /\ \A i \in DOMAIN tries' : i = n \/ i \in DOMAIN tries
         /\ tries'[n].by = e /\ tries'[n].value = save.value /\ tries'[n].version = save.version
         /\ tries'[n].answer = "none"
  BY <1>3 DEF GuestRequest
<1>8. /\ \A i \in DOMAIN tries : tries[i].by = e => tries[i].version <= editor.latest
      /\ \A i \in DOMAIN tries : tries[i].version \in Nat
      /\ editor.latest \in Nat /\ editor'.latest \in Nat
      /\ save # NoSave => save.version \in Nat
  <2>1. /\ editor'.latest \in Nat
        /\ save # NoSave => save.version \in Nat
    BY DEF EditorRows, Saves
  <2> QED
    BY <1>1, <2>1, PublicTypes DEF LatestIsShown
<1> HIDE DEF e, n
<1>9. CASE save = NoSave
  <2>1. /\ tries' = tries /\ busy' = busy /\ queued'[e] = queued[e] /\ editor' = editor
        /\ queued[e] = NoSave
    BY <1>7, <1>9 DEF e
  <2>2. LatestIsShown'
    <3>1. IsSaving => Me \in busy
      BY <1>1, <2>1 DEF LatestIsShown, DrainsRun, e
    <3> QED
      BY <1>1, <2>1, <3>1 DEF LatestIsShown, e, OnPage, IsSaving
  <2>3. SavedIsLast'
    BY <1>1, <2>1 DEF SavedIsLast, e, OnPage
  <2> QED
    BY <1>4, <1>5, <1>6, <2>2, <2>3 DEF PublicEditorIsSound
<1>10. CASE save # NoSave
  <2>1. \A i \in DOMAIN tries' : tries'[i].by = e => tries'[i].version <= editor'.latest
    BY <1>3, <1>7, <1>8, <1>10, SMTT(20) DEF e
  <2>2. \A i \in DOMAIN tries' :
          tries'[i].by = e /\ tries'[i].answer = "none" /\ tries'[i].version = editor'.latest =>
            tries'[i].value = editor'.raw /\ queued'[e] = NoSave
    BY <1>3, <1>7, <1>10 DEF e
  <2>3. queued'[e] = NoSave =>
          \E i \in DOMAIN tries' : /\ tries'[i].by = e /\ tries'[i].answer = "none"
                                   /\ tries'[i].version = editor'.latest
    BY <1>7, <1>10
  <2>4. e \in busy'
    BY <1>7, <1>10
  <2>5. LatestIsShown'
    BY <1>3, <1>10, <1>7, <2>1, <2>2, <2>3, <2>4 DEF LatestIsShown, IsSaving, e
  <2>6. SavedIsLast'
    BY <1>10 DEF SavedIsLast
  <2> QED
    BY <1>4, <1>5, <1>6, <2>5, <2>6 DEF PublicEditorIsSound
<1> QED
  BY <1>9, <1>10

\* A save that replaces another in the queue, or takes it away
LEMMA WaitsIsTyped ==
  ASSUME PublicEditorIsSound, OnPage, NEW save \in Saves \cup {NoSave}, Waits(Me, save)
  PROVE  /\ queued' \in Seq(Saves \cup {NoSave}) /\ Len(queued') = mounts /\ queued'[Me] = save
         /\ UNCHANGED <<busy, tries>>
<1> DEFINE S == Saves \cup {NoSave}
<1>1. queued \in Seq(S) /\ Me \in DOMAIN queued /\ Len(queued) = mounts /\ save \in S
  BY DEF PublicEditorIsSound, PublicTypeOK
<1>2. queued' = [queued EXCEPT ![Me] = save] /\ UNCHANGED <<busy, tries>>
  BY DEF Waits
<1> HIDE DEF S
<1>3. queued' \in Seq(S) /\ Len(queued') = mounts /\ queued'[Me] = save
  BY <1>1, <1>2, Replaced
<1> QED
  BY <1>2, <1>3 DEF S

LEMMA GuestTypesIsSound ==
  ASSUME PublicEditorIsSound, NEW v \in Contents, GuestTypes(v)
  PROVE  PublicEditorIsSound'
<1> DEFINE entered == [editor EXCEPT !.raw = v, !.dirty = TRUE]
           version == editor.latest + 1
           save == [value |-> v, version |-> version]
<1>1. PublicTypeOK /\ DrainsRun /\ LatestIsShown /\ SavedIsLast /\ LastStored
  BY DEF PublicEditorIsSound
<1>2. /\ OnPage /\ ~(activated /\ (IsSaving \/ Me \in busy)) /\ focused' = TRUE
      /\ UNCHANGED <<public, activated, delayed, overtaken, mounts>>
  BY DEF GuestTypes
<1>3. /\ editor \in EditorRows /\ Me = mounts /\ mounts # 0 /\ version \in Nat
      /\ version > editor.latest
      /\ \A i \in DOMAIN tries : tries[i].version \in Nat
  BY <1>1, <1>2, PublicTypes DEF PublicTypeOK
<1>4. /\ entered \in EditorRows /\ entered.id = mounts /\ entered.raw = v /\ entered.latest = editor.latest
      /\ save \in Saves /\ save # NoSave /\ save.value = v /\ save.version = version
  BY <1>3, NoSaveIsNoSave DEF EditorRows, Saves
<1>5. CASE activated
  <2>1. editor' = [entered EXCEPT !.state = "idle"] /\ UNCHANGED <<queued, busy, tries>>
    BY <1>5 DEF GuestTypes
  <2>2. /\ editor' \in EditorRows /\ editor'.id = mounts /\ editor'.state = "idle"
        /\ editor'.latest = editor.latest
    BY <1>4, <2>1 DEF EditorRows
  <2>3. PublicTypeOK' /\ DrainsRun' /\ LastStored'
    BY <1>1, <1>2, <1>3, <2>1, <2>2, QueueAlone DEF PublicTypeOK
  <2>4. queued[Me] = NoSave /\ \A i \in DOMAIN tries : tries[i].by = Me => tries[i].answer # "none"
    BY <1>1, <1>2, <1>5 DEF LatestIsShown, DrainsRun
  <2>5. LatestIsShown' /\ SavedIsLast'
    BY <1>1, <1>2, <1>3, <2>1, <2>2, <2>4 DEF LatestIsShown, SavedIsLast, IsSaving
  <2> QED
    BY <2>3, <2>5 DEF PublicEditorIsSound
<1>6. CASE ~activated /\ v \in Unsendable
  <2>1. /\ editor' = [entered EXCEPT !.latest = version, !.state = "error"]
        /\ Waits(Me, NoSave)
    BY <1>6 DEF GuestTypes
  <2>2. /\ editor' \in EditorRows /\ editor'.id = mounts /\ editor'.state = "error"
        /\ editor'.latest = version
    BY <1>3, <1>4, <2>1 DEF EditorRows
  <2>3. /\ queued' \in Seq(Saves \cup {NoSave}) /\ Len(queued') = mounts /\ queued'[Me] = NoSave
        /\ UNCHANGED <<busy, tries>>
    BY <1>2, <2>1, WaitsIsTyped
  <2>4. PublicTypeOK'
    BY <1>1, <1>2, <1>3, <2>2, <2>3 DEF PublicTypeOK
  <2>5. DrainsRun' /\ LastStored'
    BY <1>1, <1>2, <2>3 DEF DrainsRun, LastStored
  <2>6. \A i \in DOMAIN tries : tries[i].by = Me => tries[i].version < version
    BY <1>1, <1>2, <1>3 DEF LatestIsShown, EditorRows
  <2>7. LatestIsShown' /\ SavedIsLast'
    BY <1>1, <1>2, <1>3, <2>2, <2>3, <2>6 DEF LatestIsShown, SavedIsLast, IsSaving
  <2> QED
    BY <2>4, <2>5, <2>7 DEF PublicEditorIsSound
<1>7. CASE ~activated /\ v \notin Unsendable /\ delayed
  <2>1. /\ editor' = [entered EXCEPT !.latest = version, !.state = "saving"]
        /\ Waits(Me, save)
    BY <1>7 DEF GuestTypes
  <2>2. /\ editor' \in EditorRows /\ editor'.id = mounts /\ editor'.state = "saving"
        /\ editor'.latest = version /\ editor'.raw = v
    BY <1>3, <1>4, <2>1 DEF EditorRows
  <2>3. /\ queued' \in Seq(Saves \cup {NoSave}) /\ Len(queued') = mounts /\ queued'[Me] = save
        /\ UNCHANGED <<busy, tries>>
    BY <1>2, <1>4, <2>1, WaitsIsTyped
  <2>4. PublicTypeOK'
    BY <1>1, <1>2, <1>3, <2>2, <2>3 DEF PublicTypeOK
  <2>5. DrainsRun' /\ LastStored'
    BY <1>1, <1>2, <2>3 DEF DrainsRun, LastStored
  <2>6. \A i \in DOMAIN tries : tries[i].by = Me => tries[i].version < version
    BY <1>1, <1>2, <1>3 DEF LatestIsShown, EditorRows
  <2> HIDE DEF save
  <2>7. LatestIsShown' /\ SavedIsLast'
    BY <1>1, <1>2, <1>3, <1>4, <1>7, <2>2, <2>3, <2>6 DEF LatestIsShown, SavedIsLast, IsSaving
  <2> QED
    BY <2>4, <2>5, <2>7 DEF PublicEditorIsSound
<1>8. CASE ~activated /\ v \notin Unsendable /\ ~delayed
  <2>1. /\ editor' = [entered EXCEPT !.latest = version, !.state = "saving"]
        /\ Drained(Me, save, tries)
    BY <1>8 DEF GuestTypes
  <2>2. /\ editor' \in EditorRows /\ editor'.id = mounts /\ editor'.state = "saving"
        /\ editor'.latest = version /\ editor'.raw = v
    BY <1>3, <1>4, <2>1 DEF EditorRows
  <2>3. \A i \in DOMAIN tries : tries[i].by = Me => tries[i].version # version
    BY <1>1, <1>2, <1>3 DEF LatestIsShown, EditorRows
  <2>4. editor.latest <= version /\ focused' \in BOOLEAN
    BY <1>2, <1>3 DEF EditorRows
  <2> HIDE DEF save, version, entered
  <2> QED
    BY <1>2, <1>3, <1>4, <2>1, <2>2, <2>3, <2>4, DrainedIsShown
<1> QED
  BY <1>1, <1>5, <1>6, <1>7, <1>8 DEF PublicTypeOK

LEMMA LosesFocusIsSound ==
  ASSUME PublicEditorIsSound, LosesFocus
  PROVE  PublicEditorIsSound'
<1>1. PublicTypeOK /\ DrainsRun /\ LatestIsShown /\ SavedIsLast /\ LastStored
  BY DEF PublicEditorIsSound
<1>2. /\ OnPage /\ focused' = FALSE
      /\ UNCHANGED <<public, activated, delayed, editor, overtaken, mounts>>
  BY DEF LosesFocus
<1>3. editor \in EditorRows /\ Me = mounts /\ mounts # 0 /\ queued[Me] \in Saves \cup {NoSave}
  BY <1>1, <1>2 DEF PublicTypeOK
<1>4. CASE activated
  <2>1. UNCHANGED <<queued, busy, tries>>
    BY <1>4 DEF LosesFocus
  <2>2. PublicTypeOK' /\ DrainsRun' /\ LastStored'
    BY <1>1, <1>2, <1>3, <2>1, QueueAlone DEF PublicTypeOK
  <2>3. LatestIsShown' /\ SavedIsLast'
    BY <1>1, <1>2, <1>4, <2>1 DEF LatestIsShown, SavedIsLast, IsSaving, OnPage
  <2> QED
    BY <2>2, <2>3 DEF PublicEditorIsSound
<1>5. CASE ~activated
  <2>1. Drained(Me, queued[Me], tries)
    BY <1>5 DEF LosesFocus
  <2>2. queued[Me] # NoSave =>
          /\ editor.state = "saving" /\ queued[Me].version = editor.latest
          /\ queued[Me].value = editor.raw
          /\ \A i \in DOMAIN tries : tries[i].by = Me /\ tries[i].answer = "none" =>
               tries[i].version # editor.latest
    BY <1>1, <1>2 DEF LatestIsShown, IsSaving
  <2>3. editor.latest <= editor.latest
    BY <1>1, <1>2, PublicTypes
  <2>4. focused' \in BOOLEAN
    BY <1>2
  <2> QED
    BY <1>2, <1>3, <2>1, <2>2, <2>3, <2>4, DrainedIsShown
<1> QED
  BY <1>4, <1>5

LEMMA GuestSavesIsSound ==
  ASSUME PublicEditorIsSound, GuestSaves
  PROVE  PublicEditorIsSound'
<1> DEFINE version == editor.latest + 1
           save == [value |-> editor.raw, version |-> version]
<1>1. PublicTypeOK /\ DrainsRun /\ LatestIsShown /\ SavedIsLast /\ LastStored
  BY DEF PublicEditorIsSound
<1>2. /\ OnPage /\ activated /\ ~IsSaving /\ Me \notin busy
      /\ UNCHANGED <<public, activated, delayed, focused, overtaken, mounts>>
  BY DEF GuestSaves, Edits
<1>3. /\ editor \in EditorRows /\ Me = mounts /\ mounts # 0 /\ version \in Nat
      /\ editor.latest < version
      /\ \A i \in DOMAIN tries : tries[i].version \in Nat
  BY <1>1, <1>2, PublicTypes DEF PublicTypeOK
<1>4. CASE editor.raw \in Unsendable
  <2>1. editor' = [editor EXCEPT !.state = "error"] /\ UNCHANGED <<queued, busy, tries>>
    BY <1>4 DEF GuestSaves
  <2>2. /\ editor' \in EditorRows /\ editor'.id = Me /\ editor'.state = "error"
        /\ editor'.latest = editor.latest
    BY <1>3, <2>1 DEF EditorRows
  <2>3. PublicTypeOK' /\ DrainsRun' /\ LastStored'
    BY <1>1, <1>2, <1>3, <2>1, <2>2, QueueAlone DEF PublicTypeOK
  <2>4. \A i \in DOMAIN tries : tries[i].by = Me => tries[i].answer # "none"
    BY <1>1, <1>2 DEF DrainsRun
  <2>5. LatestIsShown' /\ SavedIsLast'
    BY <1>1, <1>2, <2>1, <2>2, <2>4 DEF LatestIsShown, SavedIsLast, IsSaving
  <2> QED
    BY <2>3, <2>5 DEF PublicEditorIsSound
<1>5. CASE editor.raw \notin Unsendable
  <2>1. /\ editor' = [editor EXCEPT !.latest = version, !.state = "saving"]
        /\ Drained(Me, save, tries)
    BY <1>5 DEF GuestSaves
  <2>2. /\ editor' \in EditorRows /\ editor'.id = Me /\ editor'.state = "saving"
        /\ editor'.latest = version /\ editor'.raw = editor.raw
        /\ save \in Saves /\ save.value = editor.raw /\ save.version = version
    BY <1>3, <2>1 DEF EditorRows, Saves
  <2>3. \A i \in DOMAIN tries : tries[i].by = Me => tries[i].version # version
    BY <1>1, <1>2, <1>3 DEF LatestIsShown, EditorRows
  <2>4. editor.latest <= version /\ focused' \in BOOLEAN /\ save # NoSave
    BY <1>1, <1>2, <1>3, <2>2, PublicEditorAssumption DEF EditorRows, PublicTypeOK
  <2> HIDE DEF save, version
  <2> QED
    BY <1>2, <1>3, <2>1, <2>2, <2>3, <2>4, DrainedIsShown
<1> QED
  BY <1>4, <1>5

\* Steps of the editor that neither type nor send
LEMMA EditorAloneIsSound ==
  ASSUME PublicEditorIsSound, Focus \/ GuestWritesBasis \/ GuestRestores \/ Activate \/ Unmount
  PROVE  PublicEditorIsSound'
<1>1. PublicTypeOK /\ DrainsRun /\ LatestIsShown /\ SavedIsLast /\ LastStored
  BY DEF PublicEditorIsSound
<1>2. OnPage /\ editor \in EditorRows /\ Me = mounts /\ mounts # 0
  BY <1>1 DEF PublicTypeOK, Focus, GuestWritesBasis, GuestRestores, Edits, Activate, Unmount
<1>3. UNCHANGED <<public, queued, busy, tries, mounts, delayed>>
  BY DEF Focus, GuestWritesBasis, GuestRestores, Edits, Activate, Unmount
<1>4. CASE Focus
  <2>1. focused' = TRUE /\ UNCHANGED <<editor, activated, overtaken>>
    BY <1>4 DEF Focus
  <2>2. PublicTypeOK' /\ DrainsRun' /\ LastStored'
    BY <1>1, <1>2, <1>3, <2>1, QueueAlone DEF PublicTypeOK
  <2>3. LatestIsShown' /\ SavedIsLast'
    BY <1>1, <1>3, <2>1 DEF LatestIsShown, SavedIsLast
  <2> QED
    BY <2>2, <2>3 DEF PublicEditorIsSound
<1>5. CASE GuestWritesBasis
  <2>1. /\ editor' = [editor EXCEPT !.basis = ~editor.basis] /\ editor.dirty
        /\ UNCHANGED <<activated, focused, overtaken>>
    BY <1>5 DEF GuestWritesBasis, Edits
  <2>2. /\ editor' \in EditorRows /\ editor'.id = Me /\ editor'.state = editor.state
        /\ editor'.latest = editor.latest /\ editor'.raw = editor.raw
    BY <1>2, <2>1 DEF EditorRows
  <2>3. PublicTypeOK' /\ DrainsRun' /\ LastStored'
    BY <1>1, <1>2, <1>3, <2>1, <2>2, QueueAlone DEF PublicTypeOK
  <2>4. LatestIsShown' /\ SavedIsLast'
    BY <1>1, <1>2, <1>3, <2>1, <2>2 DEF LatestIsShown, SavedIsLast
  <2> QED
    BY <2>3, <2>4 DEF PublicEditorIsSound
<1>6. CASE GuestRestores
  <2>1. /\ editor' = [editor EXCEPT !.raw = editor.confirmed, !.basis = FALSE,
                                    !.dirty = FALSE, !.state = "idle"]
        /\ ~IsSaving /\ UNCHANGED <<activated, focused, overtaken>>
    BY <1>6 DEF GuestRestores, Edits
  <2>2. /\ editor' \in EditorRows /\ editor'.id = Me /\ editor'.state = "idle"
        /\ editor'.latest = editor.latest
    BY <1>2, <2>1 DEF EditorRows
  <2>3. PublicTypeOK' /\ DrainsRun' /\ LastStored'
    BY <1>1, <1>2, <1>3, <2>1, <2>2, QueueAlone DEF PublicTypeOK
  <2>4. LatestIsShown' /\ SavedIsLast'
    BY <1>1, <1>2, <1>3, <2>1, <2>2 DEF LatestIsShown, SavedIsLast
  <2> QED
    BY <2>3, <2>4 DEF PublicEditorIsSound
<1>7. CASE Activate
  <2>1. /\ activated' = TRUE /\ overtaken' = (queued[Me] # NoSave)
        /\ UNCHANGED <<editor, focused>>
    BY <1>7 DEF Activate
  <2>2. PublicTypeOK' /\ DrainsRun' /\ LastStored'
    BY <1>1, <1>2, <1>3, <2>1, QueueAlone DEF PublicTypeOK
  <2>3. IsSaving => Me \in busy \/ queued[Me] # NoSave
    BY <1>1, <1>2 DEF LatestIsShown, DrainsRun
  <2>4. LatestIsShown' /\ SavedIsLast'
    BY <1>1, <1>2, <1>3, <2>1, <2>3 DEF LatestIsShown, SavedIsLast
  <2> QED
    BY <2>2, <2>4 DEF PublicEditorIsSound
<1>8. CASE Unmount
  <2>1. /\ editor' = NoEditor /\ focused' = FALSE /\ overtaken' = FALSE
        /\ UNCHANGED <<activated>>
    BY <1>8 DEF Unmount
  <2>2. PublicTypeOK' /\ DrainsRun' /\ LastStored'
    BY <1>1, <1>3, <2>1, QueueAlone DEF PublicTypeOK
  <2>3. LatestIsShown' /\ SavedIsLast'
    BY <2>1 DEF LatestIsShown, SavedIsLast
  <2> QED
    BY <2>2, <2>3 DEF PublicEditorIsSound
<1> QED
  BY <1>4, <1>5, <1>6, <1>7, <1>8

\* A new editor has sent nothing.
LEMMA MountIsSound ==
  ASSUME PublicEditorIsSound, Mount
  PROVE  PublicEditorIsSound'
<1>1. PublicTypeOK /\ DrainsRun /\ LatestIsShown /\ SavedIsLast /\ LastStored
  BY DEF PublicEditorIsSound
<1>2. /\ editor' = Mounted(public.value) /\ queued' = Append(queued, NoSave)
      /\ mounts' = mounts + 1 /\ activated' \in BOOLEAN
      /\ UNCHANGED <<public, delayed, busy, tries, focused, overtaken>>
  BY <1>1 DEF Mount, PublicTypeOK
<1>3. /\ editor' \in EditorRows /\ editor'.id = mounts + 1 /\ editor'.state = "idle"
      /\ editor'.latest = 0
  BY <1>1, <1>2 DEF Mounted, EditorRows, PublicTypeOK
<1>4. /\ queued' \in Seq(Saves \cup {NoSave}) /\ Len(queued') = mounts' /\ queued'[mounts'] = NoSave
  <2> DEFINE S == Saves \cup {NoSave}
  <2>1. queued \in Seq(S) /\ NoSave \in S /\ Len(queued) = mounts
    BY <1>1 DEF PublicTypeOK
  <2> HIDE DEF S
  <2>2. queued' \in Seq(S) /\ Len(queued') = mounts' /\ queued'[mounts'] = NoSave
    BY <1>2, <2>1, Appended
  <2> QED
    BY <2>2 DEF S
<1>5. /\ mounts \in Nat /\ \A i \in DOMAIN tries : tries[i].by \in 1..mounts
      /\ \A e \in busy : e \in 1..mounts
  BY <1>1 DEF PublicTypeOK
<1>6. PublicTypeOK'
  <2>1. mounts' \in Nat /\ mounts' # 0 /\ 1..mounts \subseteq 1..mounts'
    BY <1>2, <1>5
  <2>2. public.by <= mounts'
    BY <1>1, <1>2 DEF PublicTypeOK
  <2>3. editor'.id = mounts'
    BY <1>2, <1>3
  <2> QED
    BY <1>1, <1>2, <1>3, <1>4, <1>5, <2>1, <2>2, <2>3 DEF PublicTypeOK
<1>7. DrainsRun' /\ LastStored'
  BY <1>1, <1>2 DEF DrainsRun, LastStored
<1>8. \A i \in DOMAIN tries : tries[i].by # mounts'
  BY <1>2, <1>5
<1>9. LatestIsShown' /\ SavedIsLast'
  BY <1>2, <1>3, <1>4, <1>8 DEF LatestIsShown, SavedIsLast
<1> QED
  BY <1>6, <1>7, <1>9 DEF PublicEditorIsSound

\* The value that is stored is of the request that was served last.
LEMMA ServeGuestIsSound ==
  ASSUME PublicEditorIsSound, NEW i \in DOMAIN tries, NEW stored \in BOOLEAN, ServeGuest(i, stored)
  PROVE  PublicEditorIsSound'
<1> DEFINE served == IF stored THEN "stored" ELSE "refused"
<1>1. PublicTypeOK /\ DrainsRun /\ LatestIsShown /\ SavedIsLast /\ LastStored
  BY DEF PublicEditorIsSound
<1>2. /\ tries[i].served = "no" /\ tries' = [tries EXCEPT ![i].served = served]
      /\ public' = IF stored THEN [value |-> tries[i].value, by |-> tries[i].by] ELSE public
      /\ UNCHANGED <<activated, delayed, editor, queued, busy, focused, overtaken, mounts>>
  BY DEF ServeGuest
<1>3. /\ tries \in Seq(Tries) /\ tries[i] \in Tries
      /\ \A j \in DOMAIN tries : tries[j].by \in 1..mounts
  BY <1>1 DEF PublicTypeOK
<1>4. /\ [tries[i] EXCEPT !.served = served] \in Tries
      /\ tries' = [tries EXCEPT ![i] = [tries[i] EXCEPT !.served = served]]
  BY <1>2, <1>3 DEF Tries
<1>5. /\ tries' \in Seq(Tries) /\ DOMAIN tries' = DOMAIN tries
      /\ \A j \in DOMAIN tries : j # i => tries'[j] = tries[j]
      /\ tries'[i] = [tries[i] EXCEPT !.served = served]
  BY <1>3, <1>4, Replaced
<1>6. /\ \A j \in DOMAIN tries :
           /\ tries'[j].by = tries[j].by /\ tries'[j].value = tries[j].value
           /\ tries'[j].version = tries[j].version /\ tries'[j].answer = tries[j].answer
           /\ j # i => tries'[j].served = tries[j].served
      /\ tries'[i].served = served
  BY <1>3, <1>5 DEF Tries
<1>7. PublicTypeOK'
  <2>1. public' \in [value : Contents, by : Nat] /\ public'.by <= mounts'
    <3>1. [value |-> tries[i].value, by |-> tries[i].by] \in [value : Contents, by : Nat]
          /\ tries[i].by <= mounts
      BY <1>1, <1>3, PublicTypes DEF PublicTypeOK
    <3> QED
      BY <1>1, <1>2, <3>1 DEF PublicTypeOK
  <2> QED
    BY <1>1, <1>2, <1>3, <1>5, <1>6, <2>1 DEF PublicTypeOK
<1>8. DrainsRun'
  <2>1. tries[i].answer # "told"
    BY <1>1, <1>2 DEF DrainsRun
  <2> QED
    BY <1>1, <1>2, <1>5, <1>6, <2>1 DEF DrainsRun
<1>9. LatestIsShown' /\ SavedIsLast'
  BY <1>1, <1>2, <1>5, <1>6 DEF LatestIsShown, SavedIsLast
<1>10. LastStored'
  <2>1. CASE stored
    <3>1. public'.by = tries[i].by /\ public'.value = tries[i].value /\ tries'[i].served = "stored"
      BY <1>2, <1>6, <2>1
    <3>2. tries[i].answer = "failed" \/ tries[i].answer = "none"
      BY <1>1, <1>2, <1>3 DEF DrainsRun, Tries
    <3>3. tries[i].answer = "none" => \A k \in DOMAIN tries : tries[k].by = tries[i].by => k <= i
      BY <1>1 DEF DrainsRun
    <3> QED
      BY <1>5, <1>6, <3>1, <3>2, <3>3 DEF LastStored
  <2>2. CASE ~stored
    <3>1. public' = public /\ tries'[i].served # "stored"
      BY <1>2, <1>6, <2>2
    <3> QED
      BY <1>1, <1>2, <1>5, <1>6, <3>1 DEF LastStored
  <2> QED
    BY <2>1, <2>2
<1> QED
  BY <1>7, <1>8, <1>9, <1>10 DEF PublicEditorIsSound

\* The answer to a request: its editor sends what waits, or has nothing to send.
LEMMA AnswerIsSound ==
  ASSUME PublicEditorIsSound, NEW i \in DOMAIN tries, ConfirmGuest(i) \/ FailGuest(i)
  PROVE  PublicEditorIsSound'
<1>1. PublicTypeOK /\ DrainsRun /\ LatestIsShown /\ SavedIsLast /\ LastStored
  BY DEF PublicEditorIsSound
<1>2. PICK answer \in {"told", "failed"} :
        /\ tries[i].answer = "none"
        /\ answer = "told" => tries[i].served = "stored"
        /\ GoesOn(i, answer)
        /\ ~IsLatest(i) => editor' = editor
        /\ IsLatest(i) => editor' = IF answer = "told"
             THEN [editor EXCEPT !.state = "saved", !.dirty = FALSE, !.basis = FALSE,
                                 !.confirmed = tries[i].value]
             ELSE [editor EXCEPT !.state = "error"]
        /\ UNCHANGED <<public, activated, delayed, focused, overtaken, mounts>>
  BY DEF ConfirmGuest, FailGuest
<1> DEFINE e == tries[i].by
           n == Len(tries) + 1
<1>3. /\ e \in busy
      /\ queued' \in Seq(Saves \cup {NoSave}) /\ Len(queued') = mounts /\ queued'[e] = NoSave
      /\ \A d \in 1..mounts : d # e => queued'[d] = queued[d]
      /\ tries' \in Seq(Tries) /\ busy' \subseteq 1..mounts
      /\ i \in DOMAIN tries'
      /\ tries'[i].by = e /\ tries'[i].value = tries[i].value
      /\ tries'[i].version = tries[i].version
      /\ tries'[i].served = tries[i].served /\ tries'[i].answer = answer
      /\ \A j \in DOMAIN tries : j # i => j \in DOMAIN tries' /\ tries'[j] = tries[j]
      /\ \/ /\ queued[e] = NoSave /\ busy' = busy \ {e}
            /\ DOMAIN tries' = DOMAIN tries
         \/ /\ queued[e] # NoSave /\ busy' = busy /\ n \in DOMAIN tries' /\ n \notin DOMAIN tries
            /\ \A j \in DOMAIN tries' : j = n \/ j \in DOMAIN tries
            /\ tries'[n] = GuestRequest(e, queued[e])
  <2>1. DOMAIN tries = 1..Len(tries) /\ Len(tries) \in Nat
    BY <1>1, <1>2, GoesOnRuns
  <2>2. DOMAIN tries' = 1..n => /\ n \in DOMAIN tries' /\ n \notin DOMAIN tries
                                /\ \A j \in DOMAIN tries' : j = n \/ j \in DOMAIN tries
    BY <2>1
  <2> QED
    BY <1>1, <1>2, <2>2, GoesOnRuns
<1>4. DrainsRun' /\ \A j \in DOMAIN tries' : tries'[j].by \in 1..mounts
  BY <1>1, <1>2, GoesOnIsSound
<1> DEFINE new == GuestRequest(e, queued[e])
<1>5. /\ new.by = e /\ new.value = queued[e].value /\ new.version = queued[e].version
      /\ new.answer = "none" /\ new.served = "no"
  BY DEF GuestRequest
<1> HIDE DEF e, n, new
<1>6. LastStored'
  <2>1. \A j \in DOMAIN tries' : j \notin DOMAIN tries => tries'[j].served = "no"
    BY <1>3, <1>5 DEF new
  <2>2. \A j \in DOMAIN tries :
           /\ j \in DOMAIN tries' /\ tries'[j].by = tries[j].by /\ tries'[j].value = tries[j].value
           /\ tries'[j].served = tries[j].served
           /\ tries[j].answer = "failed" => tries'[j].answer = "failed"
    BY <1>2, <1>3 DEF e
  <2> QED
    BY <1>1, <1>2, <2>1, <2>2, LastStoredStays
<1>7. OnPage => /\ editor \in EditorRows /\ editor' \in EditorRows
                /\ editor'.id = Me /\ editor'.latest = editor.latest /\ editor'.raw = editor.raw
                /\ IsLatest(i) => /\ editor'.state = IF answer = "told" THEN "saved" ELSE "error"
                                  /\ answer = "told" => ~editor'.dirty
                /\ ~IsLatest(i) => editor' = editor
  <2> SUFFICES ASSUME OnPage
               PROVE  /\ editor \in EditorRows /\ editor' \in EditorRows
                      /\ editor'.id = Me /\ editor'.latest = editor.latest /\ editor'.raw = editor.raw
                      /\ IsLatest(i) => /\ editor'.state = IF answer = "told" THEN "saved" ELSE "error"
                                        /\ answer = "told" => ~editor'.dirty
                      /\ ~IsLatest(i) => editor' = editor
    OBVIOUS
  <2>1. editor \in EditorRows /\ tries[i].value \in Contents
    BY <1>1, PublicTypes DEF PublicTypeOK
  <2>2. CASE IsLatest(i) /\ answer = "told"
    <3>1. editor' = [editor EXCEPT !.state = "saved", !.dirty = FALSE, !.basis = FALSE,
                                   !.confirmed = tries[i].value]
      BY <1>2, <2>2
    <3> QED
      BY <2>1, <2>2, <3>1 DEF EditorRows
  <2>3. CASE IsLatest(i) /\ answer = "failed"
    <3>1. editor' = [editor EXCEPT !.state = "error"]
      BY <1>2, <2>3
    <3> QED
      BY <2>1, <2>3, <3>1 DEF EditorRows
  <2>4. CASE ~IsLatest(i)
    BY <1>2, <2>1, <2>4
  <2> QED
    BY <2>2, <2>3, <2>4
<1>8. ~OnPage => ~OnPage'
  BY <1>2 DEF IsLatest
<1>9. PublicTypeOK'
  BY <1>1, <1>2, <1>3, <1>4, <1>7, <1>8 DEF PublicTypeOK
<1>10. CASE ~OnPage
  <2>1. LatestIsShown' /\ SavedIsLast'
    BY <1>8, <1>10 DEF LatestIsShown, SavedIsLast
  <2> QED
    BY <1>4, <1>6, <1>9, <2>1 DEF PublicEditorIsSound
<1>11. CASE OnPage /\ Me # e
  <2>1. editor' = editor /\ Me \in 1..mounts /\ queued'[Me] = queued[Me]
    BY <1>1, <1>3, <1>7, <1>11 DEF IsLatest, e, PublicTypeOK
  <2>2. \A j : tries[j].by = Me /\ j \in DOMAIN tries => j \in DOMAIN tries' /\ tries'[j] = tries[j]
    BY <1>3, <1>11 DEF e
  <2>3. \A j \in DOMAIN tries' : tries'[j].by = Me => j \in DOMAIN tries /\ tries[j].by = Me
    BY <1>3, <1>5, <1>11 DEF new
  <2>4. Me \in busy => Me \in busy'
    BY <1>3, <1>11
  <2>5. LatestIsShown'
    BY <1>1, <1>2, <1>11, <2>1, <2>2, <2>3, <2>4 DEF LatestIsShown
  <2>6. SavedIsLast'
    BY <1>1, <1>11, <2>1, <2>2, <2>3 DEF SavedIsLast
  <2> QED
    BY <1>4, <1>6, <1>9, <2>5, <2>6 DEF PublicEditorIsSound
<1>12. CASE OnPage /\ Me = e
  <2>1. /\ editor' \in EditorRows /\ editor'.id = Me /\ editor'.latest = editor.latest
        /\ editor'.raw = editor.raw /\ (editor' # NoEditor \/ ~OnPage')
    BY <1>7, <1>12
  <2>2. \A j \in DOMAIN tries : tries[j].by = Me => j <= i
    BY <1>1, <1>2, <1>12 DEF DrainsRun, e
  <2>3. CASE queued[e] = NoSave
    <3>1. busy' = busy \ {e} /\ DOMAIN tries' = DOMAIN tries
      BY <1>3, <2>3
    <3>2. \A j \in DOMAIN tries' : tries'[j].by = Me => tries'[j].answer # "none" /\ j <= i
      BY <1>2, <1>3, <1>4, <1>12, <2>2, <3>1 DEF DrainsRun, e
    <3>3. editor'.state # "saving"
      <4>1. CASE IsLatest(i)
        BY <1>7, <1>12, <4>1
      <4>2. CASE ~IsLatest(i)
        <5>1. \A j \in DOMAIN tries : tries[j].by = Me /\ tries[j].answer = "none" => j = i
          <6>1. \A j \in DOMAIN tries : tries[j].by = Me /\ tries[j].answer = "none" => i <= j
            BY <1>1, <1>12 DEF DrainsRun, e
          <6> QED
            BY <1>1, <2>2, <6>1, PublicTypes
        <5>2. tries[i].version # editor.latest
          BY <1>12, <2>3, <4>2 DEF IsLatest, e
        <5> QED
          BY <1>1, <1>7, <1>12, <2>3, <4>2, <5>1, <5>2 DEF LatestIsShown, e
      <4> QED
        BY <4>1, <4>2
    <3>4. LatestIsShown'
      <4>1. \A j \in DOMAIN tries' : tries'[j].by = Me => tries'[j].version <= editor.latest
        BY <1>1, <1>3, <1>12, <3>1 DEF LatestIsShown, e
      <4> QED
        BY <1>3, <1>12, <2>1, <3>2, <3>3, <4>1 DEF LatestIsShown
    <3>5. SavedIsLast'
      <4>1. CASE IsLatest(i)
        <5>1. /\ answer = "told" => ~editor'.dirty
              /\ editor'.state = "saved" => answer = "told"
          BY <1>7, <1>12, <4>1
        <5>2. tries'[i].value = editor.raw
          BY <1>1, <1>2, <1>3, <1>12, <4>1 DEF LatestIsShown, IsLatest, e
        <5> QED
          BY <1>3, <1>12, <2>1, <3>2, <5>1, <5>2 DEF SavedIsLast
      <4>2. CASE ~IsLatest(i)
        <5>1. editor.state # "saved"
          BY <1>1, <1>2, <1>12, <2>2, PublicTypes DEF SavedIsLast, e
        <5> QED
          BY <1>7, <1>12, <4>2, <5>1 DEF SavedIsLast
      <4> QED
        BY <4>1, <4>2
    <3> QED
      BY <1>4, <1>6, <1>9, <3>4, <3>5 DEF PublicEditorIsSound
  <2>4. CASE queued[e] # NoSave
    <3>1. /\ busy' = busy /\ n \in DOMAIN tries' /\ e \in busy'
          /\ \A j \in DOMAIN tries' : j = n \/ j \in DOMAIN tries
          /\ tries'[n] = new
      BY <1>3, <2>4 DEF new
    <3>2. /\ editor' = editor /\ IsSaving
          /\ queued[e].version = editor.latest /\ queued[e].value = editor.raw
      BY <1>1, <1>7, <1>12, <2>4 DEF LatestIsShown, IsLatest
    <3>3. \A j \in DOMAIN tries : tries[j].by = Me /\ tries[j].version = editor.latest =>
            tries[j].answer # "none"
      BY <1>1, <1>12, <2>4 DEF LatestIsShown
    <3>4. LatestIsShown'
      <4>1. \A j \in DOMAIN tries' : tries'[j].by = Me => tries'[j].version <= editor.latest
        <5>1. editor.latest \in Nat
          BY <1>1, <1>12, PublicTypes
        <5>2. tries'[n].version <= editor.latest
          BY <1>5, <3>1, <3>2, <5>1
        <5>3. \A j \in DOMAIN tries : tries[j].by = Me => tries[j].version <= editor.latest
          BY <1>1, <1>12 DEF LatestIsShown
        <5>4. \A j \in DOMAIN tries : /\ tries'[j].version = tries[j].version
                                      /\ tries'[j].by = tries[j].by
          BY <1>3 DEF e
        <5> QED
          BY <3>1, <5>2, <5>3, <5>4
      <4>2. \A j \in DOMAIN tries' :
              tries'[j].by = Me /\ tries'[j].answer = "none" /\ tries'[j].version = editor.latest =>
                tries'[j].value = editor.raw
        BY <1>2, <1>3, <1>5, <1>12, <3>1, <3>2, <3>3
      <4>3. /\ tries'[n].by = Me /\ tries'[n].answer = "none" /\ tries'[n].version = editor.latest
            /\ queued'[Me] = NoSave /\ Me \in busy'
        BY <1>3, <1>5, <1>12, <3>1, <3>2
      <4> QED
        BY <3>1, <3>2, <4>1, <4>2, <4>3 DEF LatestIsShown
    <3>5. SavedIsLast'
      BY <3>2 DEF SavedIsLast
    <3> QED
      BY <1>4, <1>6, <1>9, <3>4, <3>5 DEF PublicEditorIsSound
  <2> QED
    BY <2>3, <2>4
<1> QED
  BY <1>10, <1>11, <1>12

-----------------------------------------------------------------------------
(* The page of a link: theorems *)

LEMMA PublicEditorStartsSound ==
  ASSUME NEW delays \in BOOLEAN, PublicEditorInit(delays)
  PROVE  PublicEditorIsSound
<1>1. /\ public = [value |-> Empty, by |-> 0] /\ activated = FALSE /\ delayed = delays
      /\ editor = NoEditor /\ queued = <<>> /\ busy = {} /\ tries = <<>>
      /\ focused = FALSE /\ overtaken = FALSE /\ mounts = 0
  BY DEF PublicEditorInit
<1>2. PublicTypeOK
  <2>1. public \in [value : Contents, by : Nat] /\ public.by <= mounts
    BY <1>1, PublicEditorAssumption
  <2>2. queued \in Seq(Saves \cup {NoSave}) /\ Len(queued) = mounts /\ tries \in Seq(Tries)
        /\ DOMAIN tries = {}
    BY <1>1
  <2> QED
    BY <1>1, <2>1, <2>2 DEF PublicTypeOK
<1>3. DrainsRun /\ LatestIsShown /\ SavedIsLast /\ LastStored
  BY <1>1 DEF DrainsRun, LatestIsShown, SavedIsLast, LastStored
<1> QED
  BY <1>2, <1>3 DEF PublicEditorIsSound

LEMMA PublicEditorStaysSound ==
  PublicEditorIsSound /\ [PublicEditorNext]_publicEditorVars => PublicEditorIsSound'
<1> SUFFICES ASSUME PublicEditorIsSound, [PublicEditorNext]_publicEditorVars
             PROVE  PublicEditorIsSound'
  OBVIOUS
<1>1. ASSUME NEW v \in Contents, GuestTypes(v) PROVE PublicEditorIsSound'
  BY <1>1, GuestTypesIsSound
<1>2. CASE Focus \/ GuestWritesBasis \/ GuestRestores \/ Activate \/ Unmount
  BY <1>2, EditorAloneIsSound
<1>3. CASE LosesFocus \/ GuestSaves \/ Mount
  BY <1>3, LosesFocusIsSound, GuestSavesIsSound, MountIsSound
<1>4. ASSUME NEW i \in DOMAIN tries,
             (\E stored \in BOOLEAN : ServeGuest(i, stored)) \/ ConfirmGuest(i) \/ FailGuest(i)
      PROVE  PublicEditorIsSound'
  BY <1>4, ServeGuestIsSound, AnswerIsSound
<1>5. CASE UNCHANGED publicEditorVars
  <2>1. UNCHANGED <<public, activated, delayed, editor, queued, busy, tries, focused, overtaken, mounts>>
    BY <1>5 DEF publicEditorVars
  <2> QED
    BY <2>1 DEF PublicEditorIsSound, PublicTypeOK, DrainsRun, LatestIsShown, SavedIsLast, LastStored
<1> QED
  BY <1>1, <1>2, <1>3, <1>4, <1>5 DEF PublicEditorNext

\* The inductive invariant of the editor on the page of a link and its queue
\* of one save (PublicFieldEditor, drainSaveQueue).
THEOREM PublicEditorIsAlwaysSound == PublicEditorSpec => []PublicEditorIsSound
<1>1. (\E delays \in BOOLEAN : PublicEditorInit(delays)) => PublicEditorIsSound
  BY PublicEditorStartsSound
<1> QED
  BY <1>1, PublicEditorStaysSound, PTL DEF PublicEditorSpec

\* What the page shows as saved is stored, unless an earlier save that it
\* believed to have failed was stored after it; what it shows as being saved
\* is sent or waits for the field to lose focus, unless the card was activated
\* meanwhile (PublicFieldEditor).
THEOREM SaveStateIsTrueHolds == PublicEditorSpec => []SaveStateIsTrue
<1>1. ASSUME PublicEditorIsSound PROVE SaveStateIsTrue
  <2>1. PublicTypeOK /\ DrainsRun /\ LatestIsShown /\ SavedIsLast /\ LastStored
    BY <1>1 DEF PublicEditorIsSound
  <2>2. ASSUME OnPage, editor.state = "saved", public.by = Me
        PROVE  \/ public.value = editor.raw
               \/ \E i \in DOMAIN tries : /\ tries[i].by = Me /\ tries[i].answer = "failed"
                                          /\ tries[i].served = "stored"
    <3>1. PICK i \in DOMAIN tries :
            /\ tries[i].by = Me /\ tries[i].answer = "told" /\ tries[i].value = editor.raw
            /\ \A j \in DOMAIN tries : tries[j].by = Me => j <= i
      BY <2>1, <2>2 DEF SavedIsLast
    <3>2. public.by # 0
      BY <2>1, <2>2 DEF PublicTypeOK
    <3>3. PICK j \in DOMAIN tries :
            /\ tries[j].by = public.by /\ tries[j].served = "stored" /\ tries[j].value = public.value
            /\ \/ tries[j].answer = "failed"
               \/ \A k \in DOMAIN tries : tries[k].by = public.by /\ tries[k].served = "stored" => k <= j
      BY <2>1, <3>2 DEF LastStored
    <3>4. tries[i].served = "stored" /\ i \in Nat /\ j \in Nat
      BY <2>1, <3>1, PublicTypes DEF DrainsRun
    <3> QED
      BY <2>2, <3>1, <3>3, <3>4
  <2> QED
    BY <2>1, <2>2 DEF SaveStateIsTrue, LatestIsShown
<1> QED
  BY <1>1, PublicEditorIsAlwaysSound, PTL

-----------------------------------------------------------------------------
(* The inductive invariant of the editor of a card *)

Posts == [by : Nat, card : Cards, values : SomeValues, skipped : SUBSET Fields,
          served : {"no", "stored", "refused"}, answer : {"none", "told", "failed"}]

EditorTypeOK ==
  /\ cells \in [Cards -> [Fields -> [value : Values, by : Nat]]]
  /\ \A c \in Cards, f \in Fields : cells[c][f].by <= opened
  /\ cached \in [Cards -> [Fields -> Values]]
  /\ editable \subseteq Fields /\ onScreen \in Cards
  /\ session \in AllSessions \cup {NoSession}
  /\ posts \in Seq(Posts) /\ \A i \in DOMAIN posts : posts[i].by \in 1..opened
  /\ opened \in Nat

\* A session and the one that follows it are different ones.
SessionsDiffer ==
  IsOpen =>
    /\ session.id \in 1..opened /\ DOMAIN session.initial = DOMAIN session.values
    /\ session.next # NoSession =>
         /\ session.next.id \in 1..opened /\ session.next.id # session.id
         /\ DOMAIN session.next.initial = DOMAIN session.next.values
         /\ \A i \in DOMAIN posts : posts[i].by # session.next.id

\* A request holds what the editor shows until it is answered.
SavesAreShown ==
  /\ \A i, j \in DOMAIN posts : posts[i].by = posts[j].by /\ posts[i].answer = "none" => j <= i
  /\ \A i \in DOMAIN posts : posts[i].answer = "told" => posts[i].served = "stored"
  /\ \A i, j \in DOMAIN posts : posts[i].by = posts[j].by => posts[i].card = posts[j].card
  /\ IsOpen => \A i \in DOMAIN posts : posts[i].by = session.id =>
       /\ posts[i].card = onScreen
       /\ posts[i].answer = "none" =>
            /\ session.pending
            /\ \A f \in DOMAIN session.values :
                 IF f \in DOMAIN posts[i].values THEN posts[i].values[f] = session.values[f]
                 ELSE f \in posts[i].skipped \/ ~IsDirty(f)

\* A field that was not left out is compared with what was sent last.
InitialIsTold ==
  IsOpen => \A f \in DOMAIN session.values : ~WasSkipped(f) =>
    \A j \in DOMAIN posts :
      /\ posts[j].by = session.id /\ posts[j].answer = "told" /\ f \in DOMAIN posts[j].values
      /\ \A k \in DOMAIN posts : posts[k].by = session.id /\ posts[k].answer = "told"
                                 /\ f \in DOMAIN posts[k].values => k <= j
      => session.initial[f] = posts[j].values[f]

LastWriter ==
  \A c \in Cards, f \in Fields : cells[c][f].by # 0 =>
    \E j \in DOMAIN posts :
      /\ posts[j].by = cells[c][f].by /\ posts[j].card = c /\ posts[j].served = "stored"
      /\ f \in DOMAIN posts[j].values /\ posts[j].values[f] = cells[c][f].value
      /\ \/ posts[j].answer = "failed"
         \/ \A k \in DOMAIN posts : posts[k].by = cells[c][f].by /\ posts[k].served = "stored"
                                    /\ f \in DOMAIN posts[k].values => k <= j

EditorIsSound == EditorTypeOK /\ SessionsDiffer /\ SavesAreShown /\ InitialIsTold /\ LastWriter

-----------------------------------------------------------------------------
(* The editor of a card: its data *)

LEMMA SomeOf ==
  ASSUME NEW S \in SUBSET Fields, NEW v \in [S -> Values]
  PROVE  v \in SomeValues
BY DEF SomeValues

LEMMA OfSome ==
  ASSUME NEW v \in SomeValues
  PROVE  DOMAIN v \subseteq Fields /\ v \in [DOMAIN v -> Values]
BY DEF SomeValues

LEMMA SessionsAre ==
  ASSUME NEW others, NEW s \in Sessions(others)
  PROVE  /\ s.id \in Nat /\ s.initial \in SomeValues /\ s.values \in SomeValues
         /\ s.basis \in BOOLEAN /\ s.pending \in BOOLEAN /\ s.next \in others
         /\ s.closing \in BOOLEAN /\ s.due \in BOOLEAN
BY DEF Sessions

LEMMA SessionsGrow ==
  ASSUME NEW A, NEW B, A \subseteq B
  PROVE  Sessions(A) \subseteq Sessions(B)
BY DEF Sessions

\* What follows a session is a session that nothing follows.
LEMMA FollowerIsSession ==
  /\ Sessions({NoSession}) \subseteq AllSessions
  /\ \A s \in AllSessions : s.next = NoSession \/ s.next \in Sessions({NoSession})
  /\ \A s \in Sessions({NoSession}) : s # NoSession /\ s.next = NoSession
  /\ \A s \in AllSessions : s # NoSession
<1> DEFINE O == Sessions({NoSession}) \cup {NoSession}
<1>1. Sessions({NoSession}) \subseteq Sessions(O)
  BY SessionsGrow
<1>2. \A s \in Sessions(O) : s.next \in O
  BY SessionsAre
<1>3. \A s \in Sessions({NoSession}) : s.next = NoSession
  BY SessionsAre
<1> QED
  BY <1>1, <1>2, <1>3, EditorAssumption DEF AllSessions

\* What EXCEPT does to a session
LEMMA Flagged ==
  ASSUME NEW s \in AllSessions, NEW basis \in BOOLEAN, NEW pending \in BOOLEAN,
         NEW closing \in BOOLEAN, NEW due \in BOOLEAN,
         NEW next, next = NoSession \/ next \in Sessions({NoSession})
  PROVE  /\ [s EXCEPT !.next = next, !.due = due] \in AllSessions
         /\ [s EXCEPT !.due = due] \in AllSessions
         /\ [s EXCEPT !.basis = basis] \in AllSessions
         /\ [s EXCEPT !.closing = closing] \in AllSessions
         /\ [s EXCEPT !.closing = closing, !.next = next, !.due = due] \in AllSessions
         /\ [s EXCEPT !.pending = pending] \in AllSessions
         /\ [s EXCEPT !.pending = pending, !.due = due] \in AllSessions
         /\ [s EXCEPT !.initial = s.values, !.pending = pending, !.due = due] \in AllSessions
<1> DEFINE O == Sessions({NoSession}) \cup {NoSession}
<1>1. s \in Sessions(O) /\ next \in O
  BY DEF AllSessions
<1> HIDE DEF O
<1>2. /\ [s EXCEPT !.next = next, !.due = due] \in Sessions(O)
      /\ [s EXCEPT !.due = due] \in Sessions(O)
      /\ [s EXCEPT !.basis = basis] \in Sessions(O)
      /\ [s EXCEPT !.closing = closing] \in Sessions(O)
      /\ [s EXCEPT !.closing = closing, !.next = next, !.due = due] \in Sessions(O)
      /\ [s EXCEPT !.pending = pending] \in Sessions(O)
      /\ [s EXCEPT !.pending = pending, !.due = due] \in Sessions(O)
      /\ [s EXCEPT !.initial = s.values, !.pending = pending, !.due = due] \in Sessions(O)
  BY <1>1 DEF Sessions
<1> QED
  BY <1>2 DEF O, AllSessions

LEMMA CreatedIsSession ==
  ASSUME EditorTypeOK, NEW fields \in SUBSET Fields, NEW f \in Fields
  PROVE  LET new == Created(fields, BlockOf[f]) IN
         /\ new \in Sessions({NoSession}) /\ new.id = opened + 1 /\ new.next = NoSession
         /\ DOMAIN new.initial = DOMAIN new.values
<1> DEFINE initial == [g \in fields |-> cached[onScreen][g]]
<1>1. initial \in [fields -> Values]
  BY DEF EditorTypeOK
<1>2. initial \in SomeValues
  BY <1>1, SomeOf
<1> HIDE DEF initial
<1> DEFINE new == [id |-> opened + 1, block |-> BlockOf[f], initial |-> initial, values |-> initial,
                   basis |-> FALSE, pending |-> FALSE, next |-> NoSession,
                   closing |-> FALSE, due |-> FALSE]
<1>3. new = Created(fields, BlockOf[f])
  BY DEF Created, initial
<1>4. new \in Sessions({NoSession}) /\ new.id = opened + 1 /\ new.next = NoSession
      /\ DOMAIN new.initial = DOMAIN new.values
  BY <1>2 DEF Sessions, EditorTypeOK
<1> HIDE DEF new
<1> QED
  BY <1>3, <1>4

-----------------------------------------------------------------------------
(* The editor of a card: steps that send nothing and are told nothing *)

\* An editor that is opened, or follows another, has sent nothing.
IsNew == /\ session'.id \in 1..opened' /\ DOMAIN session'.initial = DOMAIN session'.values
         /\ session'.next = NoSession
         /\ \A i \in DOMAIN posts : posts[i].by # session'.id

\* An editor that stays open keeps what it has sent, as long as it waits for an answer.
GoesOnEditing ==
  /\ IsOpen /\ session'.id = session.id /\ session'.initial = session.initial
  /\ DOMAIN session'.values = DOMAIN session.values
  /\ session.pending => session'.pending /\ session'.values = session.values
  /\ \/ session'.next = NoSession \/ session'.next = session.next
     \/ /\ session'.next.id \in (opened + 1)..opened'
        /\ DOMAIN session'.next.initial = DOMAIN session'.next.values

LEMMA EditingIsSound ==
  ASSUME EditorIsSound, UNCHANGED <<cells, posts>>,
         opened' \in Nat, opened <= opened',
         cached' \in [Cards -> [Fields -> Values]], editable' \subseteq Fields, onScreen' \in Cards,
         session' \in AllSessions \cup {NoSession},
         session' # NoSession => onScreen' = onScreen /\ (IsNew \/ GoesOnEditing)
  PROVE  EditorIsSound'
<1>1. EditorTypeOK /\ SessionsDiffer /\ SavesAreShown /\ InitialIsTold /\ LastWriter
  BY DEF EditorIsSound
<1>2. EditorTypeOK'
  <2>1. opened \in Nat /\ 1..opened \subseteq 1..opened'
    BY <1>1 DEF EditorTypeOK
  <2>2. \A c \in Cards, f \in Fields : cells[c][f].by \in Nat /\ cells[c][f].by <= opened
    BY <1>1 DEF EditorTypeOK
  <2>3. \A c \in Cards, f \in Fields : cells'[c][f].by <= opened'
    BY <2>1, <2>2
  <2> QED
    BY <1>1, <2>1, <2>3 DEF EditorTypeOK
<1>3. LastWriter'
  BY <1>1 DEF LastWriter
<1>4. /\ \A i, j \in DOMAIN posts : posts[i].by = posts[j].by /\ posts[i].answer = "none" => j <= i
      /\ \A i \in DOMAIN posts : posts[i].answer = "told" => posts[i].served = "stored"
      /\ \A i, j \in DOMAIN posts : posts[i].by = posts[j].by => posts[i].card = posts[j].card
  BY <1>1 DEF SavesAreShown
<1>5. CASE session' = NoSession
  BY <1>2, <1>3, <1>4, <1>5 DEF EditorIsSound, SessionsDiffer, SavesAreShown, InitialIsTold, IsOpen
<1>6. CASE session' # NoSession /\ IsNew
  <2>1. SessionsDiffer'
    BY <1>6 DEF SessionsDiffer, IsNew
  <2>2. SavesAreShown' /\ InitialIsTold'
    BY <1>4, <1>6 DEF SavesAreShown, InitialIsTold, IsNew
  <2> QED
    BY <1>2, <1>3, <2>1, <2>2 DEF EditorIsSound
<1>7. CASE session' # NoSession /\ GoesOnEditing
  <2>1. /\ IsOpen /\ session'.id = session.id /\ session'.initial = session.initial
        /\ DOMAIN session'.values = DOMAIN session.values /\ onScreen' = onScreen
        /\ session.pending => session'.pending /\ session'.values = session.values
    BY <1>7 DEF GoesOnEditing
  <2>2. SessionsDiffer'
    <3>1. session.id \in 1..opened' /\ opened \in Nat
      BY <1>1, <2>1 DEF SessionsDiffer, EditorTypeOK
    <3>2. session.id \in 1..opened /\ \A i \in DOMAIN posts : posts[i].by \in 1..opened
      BY <1>1, <2>1 DEF SessionsDiffer, EditorTypeOK
    <3>3. CASE session'.next = NoSession
      BY <1>1, <2>1, <3>1, <3>3 DEF SessionsDiffer
    <3>4. CASE session'.next # NoSession /\ session'.next = session.next
      <4>1. session.next.id \in 1..opened'
        BY <1>1, <2>1, <3>1, <3>4 DEF SessionsDiffer
      <4> QED
        BY <1>1, <2>1, <3>1, <3>4, <4>1 DEF SessionsDiffer
    <3>5. CASE /\ session'.next.id \in (opened + 1)..opened'
               /\ DOMAIN session'.next.initial = DOMAIN session'.next.values
      <4>1. /\ session'.next.id \in 1..opened' /\ session'.next.id # session.id
            /\ \A i \in DOMAIN posts : posts[i].by # session'.next.id
        BY <3>1, <3>2, <3>5
      <4> QED
        BY <1>1, <2>1, <3>1, <3>5, <4>1 DEF SessionsDiffer
    <3> QED
      BY <1>7, <3>3, <3>4, <3>5 DEF GoesOnEditing
  <2>3. SavesAreShown'
    BY <1>1, <1>4, <2>1 DEF SavesAreShown, IsDirty
  <2>4. InitialIsTold'
    BY <1>1, <2>1 DEF InitialIsTold, WasSkipped
  <2> QED
    BY <1>2, <1>3, <2>2, <2>3, <2>4 DEF EditorIsSound
<1> QED
  BY <1>5, <1>6, <1>7

LEMMA EditorTypes ==
  ASSUME EditorTypeOK
  PROVE  /\ opened \in Nat /\ cached \in [Cards -> [Fields -> Values]] /\ editable \subseteq Fields
         /\ onScreen \in Cards
         /\ IsOpen => session \in AllSessions
BY DEF EditorTypeOK, IsOpen

LEMMA OpenFieldIsSound ==
  ASSUME EditorIsSound, NEW f \in Fields, OpenField(f)
  PROVE  EditorIsSound'
<1>1. EditorTypeOK /\ SessionsDiffer
  BY DEF EditorIsSound
<1> DEFINE fields == IF NeedsBasis THEN {g \in editable : BlockOf[g] = BlockOf[f]} ELSE {f}
           new == Created(fields, BlockOf[f])
<1>2. /\ new \in Sessions({NoSession}) /\ new.id = opened + 1 /\ new.next = NoSession
      /\ DOMAIN new.initial = DOMAIN new.values
  <2>1. fields \in SUBSET Fields
    BY <1>1, EditorTypes
  <2> HIDE DEF fields
  <2> QED
    BY <1>1, <2>1, CreatedIsSession
<1>3. opened' = opened + 1 /\ UNCHANGED <<cells, cached, editable, onScreen, posts>>
      /\ \/ session' = new
         \/ IsOpen /\ session' = [session EXCEPT !.next = new, !.due = TRUE]
  BY DEF OpenField
<1> HIDE DEF new
<1>4. CASE session' = new
  <2>1. \A i \in DOMAIN posts : posts[i].by # session'.id
    BY <1>1, <1>2, <1>3, <1>4 DEF EditorTypeOK
  <2>2. IsNew
    BY <1>1, <1>2, <1>3, <1>4, <2>1, EditorTypes DEF IsNew
  <2>3. session' \in AllSessions
    BY <1>2, <1>4, FollowerIsSession
  <2> QED
    BY <1>1, <1>3, <2>2, <2>3, EditingIsSound, EditorTypes
<1>5. CASE IsOpen /\ session' = [session EXCEPT !.next = new, !.due = TRUE]
  <2>1. session \in AllSessions /\ session' \in AllSessions
    BY <1>1, <1>2, <1>5, EditorTypes, Flagged
  <2>2. /\ session'.id = session.id /\ session'.initial = session.initial /\ session'.next = new
        /\ session'.values = session.values /\ session'.pending = session.pending
    BY <1>5, <2>1 DEF AllSessions, Sessions
  <2>3. new.id \in (opened + 1)..opened'
    BY <1>1, <1>2, <1>3, EditorTypes
  <2>4. GoesOnEditing
    BY <1>2, <1>5, <2>2, <2>3 DEF GoesOnEditing
  <2> QED
    BY <1>1, <1>3, <2>1, <2>4, EditingIsSound, EditorTypes
<1> QED
  BY <1>3, <1>4, <1>5

\* A session that is only flagged, or is typed into while nothing is sent
LEMMA FlaggedIsSound ==
  ASSUME EditorIsSound, IsOpen, UNCHANGED <<cells, cached, editable, onScreen, posts, opened>>,
         session' \in AllSessions, session'.id = session.id, session'.initial = session.initial,
         DOMAIN session'.values = DOMAIN session.values,
         session.pending => session'.pending /\ session'.values = session.values,
         session'.next = NoSession \/ session'.next = session.next
  PROVE  EditorIsSound'
<1>1. EditorTypeOK
  BY DEF EditorIsSound
<1>2. GoesOnEditing
  BY DEF GoesOnEditing
<1> QED
  BY <1>1, <1>2, EditingIsSound, EditorTypes

\* A session that ends, by a card that is left or not
LEMMA ClosedIsSound ==
  ASSUME EditorIsSound, UNCHANGED <<cells, cached, posts, opened>>, editable' \subseteq Fields,
         onScreen' \in Cards, session' = NoSession
  PROVE  EditorIsSound'
<1>1. EditorTypeOK
  BY DEF EditorIsSound
<1> QED
  BY <1>1, EditingIsSound, EditorTypes

\* A session that has nothing to save makes room for the one that follows it.
LEMMA FollowedIsSound ==
  ASSUME EditorIsSound, IsOpen, UNCHANGED <<cells, cached, editable, onScreen, posts, opened>>,
         session' = session.next
  PROVE  EditorIsSound'
<1>1. EditorTypeOK /\ SessionsDiffer
  BY DEF EditorIsSound
<1>2. session.next = NoSession \/ session.next \in Sessions({NoSession})
  BY <1>1, EditorTypes, FollowerIsSession
<1>3. CASE session.next = NoSession
  BY <1>1, <1>3, ClosedIsSound, EditorTypes
<1>4. CASE session.next \in Sessions({NoSession})
  <2>1. session' \in AllSessions /\ session' # NoSession /\ session'.next = NoSession
    BY <1>4, FollowerIsSession
  <2>2. IsNew
    BY <1>1, <1>4, <2>1, FollowerIsSession DEF IsNew, SessionsDiffer
  <2> QED
    BY <1>1, <2>1, <2>2, EditingIsSound, EditorTypes
<1> QED
  BY <1>2, <1>3, <1>4

\* What typing a value does to the session
LEMMA TypedIs ==
  ASSUME EditorTypeOK, NEW f \in Fields, NEW v \in Values, TypeValue(f, v)
  PROVE  /\ IsOpen /\ ~session.pending /\ f \in DOMAIN session.values
         /\ session' \in AllSessions /\ session'.id = session.id
         /\ session'.initial = session.initial /\ session'.next = session.next
         /\ session'.values = [session.values EXCEPT ![f] = v]
         /\ DOMAIN session'.values = DOMAIN session.values
         /\ \A g \in DOMAIN session.values : g # f => session'.values[g] = session.values[g]
<1>1. /\ IsOpen /\ ~session.pending /\ f \in DOMAIN session.values
      /\ \E due \in BOOLEAN : session' = [session EXCEPT !.values[f] = v, !.due = due]
  <2>1. (~NeedsBasis /\ f \in Immediate) \in BOOLEAN
    OBVIOUS
  <2> QED
    BY <2>1 DEF TypeValue, Edited
<1>2. PICK due \in BOOLEAN : session' = [session EXCEPT !.values[f] = v, !.due = due]
  BY <1>1
<1> DEFINE O == Sessions({NoSession}) \cup {NoSession}
           D == DOMAIN session.values
           values == [session.values EXCEPT ![f] = v]
<1>3. session \in Sessions(O)
  BY <1>1, EditorTypes DEF AllSessions
<1>4. D \in SUBSET Fields /\ session.values \in [D -> Values]
  BY <1>3, SessionsAre, OfSome
<1>5. values \in [D -> Values] /\ \A g \in D : g # f => values[g] = session.values[g]
  BY <1>4
<1> HIDE DEF O, D
<1>6. values \in SomeValues /\ DOMAIN values = D
  BY <1>4, <1>5, SomeOf
<1>7. session' = [session EXCEPT !.values = values, !.due = due]
  BY <1>2, <1>3 DEF Sessions
<1>8. /\ session'.id = session.id /\ session'.initial = session.initial
      /\ session'.next = session.next
  BY <1>2, <1>3 DEF Sessions
<1>9. values = [session.values EXCEPT ![f] = v]
  OBVIOUS
<1> HIDE DEF values
<1>10. session' \in Sessions(O) /\ session'.values = values
  BY <1>3, <1>6, <1>7 DEF Sessions
<1> QED
  BY <1>1, <1>5, <1>6, <1>8, <1>9, <1>10 DEF AllSessions, O, D

\* The steps of the user but the first
LEMMA UserIsSound ==
  ASSUME EditorIsSound,
         \/ \E f \in Fields, v \in Values : TypeValue(f, v)
         \/ Blur \/ CommitAndClose \/ Cancel \/ DiscardTab
         \/ \E written \in BOOLEAN : WriteBasis(written)
  PROVE  EditorIsSound'
<1>1. EditorTypeOK /\ UNCHANGED <<cells, cached, editable, onScreen, posts, opened>> /\ IsOpen
  BY DEF EditorIsSound, TypeValue, Blur, CommitAndClose, Cancel, DiscardTab, WriteBasis, Edited
<1>2. session \in AllSessions
  BY <1>1, EditorTypes
<1>3. ASSUME NEW f \in Fields, NEW v \in Values, TypeValue(f, v) PROVE EditorIsSound'
  BY <1>1, <1>3, TypedIs, FlaggedIsSound
<1>4. ASSUME NEW new \in {[session EXCEPT !.due = TRUE], [session EXCEPT !.closing = TRUE],
                          [session EXCEPT !.closing = TRUE, !.next = NoSession, !.due = TRUE]},
             session' = new
      PROVE  EditorIsSound'
  <2>1. session' \in AllSessions
    BY <1>2, <1>4, Flagged
  <2>2. /\ session'.id = session.id /\ session'.initial = session.initial
        /\ session'.values = session.values /\ session'.pending = session.pending
        /\ session'.next = NoSession \/ session'.next = session.next
    BY <1>2, <1>4 DEF AllSessions, Sessions
  <2> QED
    BY <1>1, <2>1, <2>2, FlaggedIsSound
<1>5. ASSUME NEW written \in BOOLEAN, WriteBasis(written) PROVE EditorIsSound'
  <2>1. session' = [session EXCEPT !.basis = written]
    BY <1>5 DEF WriteBasis, Edited
  <2>2. session' \in AllSessions
    BY <1>2, <2>1, Flagged
  <2>3. /\ session'.id = session.id /\ session'.initial = session.initial
        /\ session'.values = session.values /\ session'.pending = session.pending
        /\ session'.next = session.next
    BY <1>2, <2>1 DEF AllSessions, Sessions
  <2> QED
    BY <1>1, <2>2, <2>3, FlaggedIsSound
<1>6. ASSUME session' = NoSession PROVE EditorIsSound'
  BY <1>1, <1>6, ClosedIsSound, EditorTypes
<1>7. CASE Blur
  BY <1>4, <1>7 DEF Blur, Edited
<1>8. CASE CommitAndClose
  BY <1>4, <1>6, <1>8 DEF CommitAndClose, Edited
<1>9. CASE Cancel \/ DiscardTab
  BY <1>6, <1>9 DEF Cancel, DiscardTab, Edited
<1> QED
  BY <1>3, <1>5, <1>7, <1>8, <1>9

\* Another card, or none: the dialog and its answers but the saving one
LEMMA LeavingIsSound ==
  ASSUME EditorIsSound, NEW c \in Cards, Leave(c) \/ DiscardAndLeave(c) \/ Stay
  PROVE  EditorIsSound'
<1>1. EditorTypeOK /\ UNCHANGED <<cells, cached, editable, posts, opened>>
  BY DEF EditorIsSound, Leave, DiscardAndLeave, Stay, Unsaved
<1>2. \/ onScreen' = onScreen /\ session' = session
      \/ onScreen' = c /\ session' = NoSession
  BY DEF Leave, DiscardAndLeave, Stay
<1>3. CASE onScreen' = onScreen /\ session' = session /\ IsOpen
  BY <1>1, <1>3, FlaggedIsSound, EditorTypes
<1>4. CASE session' = NoSession
  BY <1>1, <1>2, <1>4, ClosedIsSound, EditorTypes
<1> QED
  BY <1>2, <1>3, <1>4 DEF IsOpen

\* The cards are read again.
LEMMA RefetchIsSound ==
  ASSUME EditorIsSound, Refetch
  PROVE  EditorIsSound'
<1>1. EditorTypeOK /\ UNCHANGED <<cells, onScreen, session, posts, opened>>
  BY DEF EditorIsSound, Refetch
<1>2. cached' \in [Cards -> [Fields -> Values]] /\ editable' \subseteq Fields
  <2>1. ValuesOf(onScreen) \in [Fields -> Values]
    BY <1>1 DEF ValuesOf, EditorTypeOK
  <2>2. cached' = [cached EXCEPT ![onScreen] = ValuesOf(onScreen)]
    BY DEF Refetch
  <2>3. editable' \subseteq Fields
    BY <1>1 DEF Refetch, EditorTypeOK
  <2> QED
    BY <1>1, <2>1, <2>2, <2>3, EditorTypes
<1>3. session' # NoSession => GoesOnEditing
  BY <1>1 DEF GoesOnEditing, IsOpen
<1> QED
  BY <1>1, <1>2, <1>3, EditingIsSound, EditorTypes DEF EditorTypeOK

-----------------------------------------------------------------------------
(* The editor of a card: a save *)

LEMMA PostIsTyped ==
  ASSUME EditorIsSound, IsOpen
  PROVE  /\ Post \in Posts /\ Post.by = session.id /\ Post.card = onScreen
         /\ Post.served = "no" /\ Post.answer = "none"
         /\ DOMAIN Post.values = Changed
         /\ \A f \in Changed : Post.values[f] = session.values[f]
         /\ \A f \in DOMAIN session.values : f \notin Changed => f \in Post.skipped \/ ~IsDirty(f)
         /\ Changed \subseteq DOMAIN session.values
<1>1. EditorTypeOK
  BY DEF EditorIsSound
<1>2. /\ session.values \in SomeValues /\ session.id \in Nat /\ onScreen \in Cards
  BY <1>1, EditorTypes, SessionsAre DEF AllSessions
<1>3. DOMAIN session.values \subseteq Fields /\ session.values \in [DOMAIN session.values -> Values]
  BY <1>2, OfSome
<1> DEFINE values == [f \in Changed |-> session.values[f]]
           skipped == {f \in DOMAIN session.values \ Changed : IsDirty(f)}
<1>4. Changed \in SUBSET Fields /\ values \in [Changed -> Values] /\ skipped \subseteq Fields
      /\ Changed \subseteq DOMAIN session.values
  BY <1>3 DEF Changed
<1>5. values \in SomeValues /\ DOMAIN values = Changed
      /\ \A f \in Changed : values[f] = session.values[f]
  BY <1>4, SomeOf
<1>6. \A f \in DOMAIN session.values : f \notin Changed => f \in skipped \/ ~IsDirty(f)
  OBVIOUS
<1> HIDE DEF values, skipped
<1> DEFINE post == [by |-> session.id, card |-> onScreen, values |-> values, skipped |-> skipped,
                    served |-> "no", answer |-> "none"]
<1>7. post = Post
  BY DEF Post, values, skipped
<1>8. post \in Posts
  BY <1>2, <1>4, <1>5 DEF Posts
<1> QED
  BY <1>4, <1>5, <1>6, <1>7, <1>8

\* The request of a save is sent.
LEMMA SentIsSound ==
  ASSUME EditorIsSound, IsOpen, ~session.pending, UNCHANGED <<cells, cached, editable, onScreen, opened>>,
         posts' = Append(posts, Post), session' = [session EXCEPT !.pending = TRUE]
  PROVE  EditorIsSound'
<1> DEFINE n == Len(posts) + 1
<1>1. EditorTypeOK /\ SessionsDiffer /\ SavesAreShown /\ InitialIsTold /\ LastWriter
  BY DEF EditorIsSound
<1>2. /\ Post \in Posts /\ Post.by = session.id /\ Post.card = onScreen
      /\ Post.served = "no" /\ Post.answer = "none"
      /\ DOMAIN Post.values = Changed
      /\ \A f \in Changed : Post.values[f] = session.values[f]
      /\ \A f \in DOMAIN session.values : f \notin Changed => f \in Post.skipped \/ ~IsDirty(f)
  BY PostIsTyped
<1>3. /\ posts \in Seq(Posts) /\ \A i \in DOMAIN posts : posts[i].by \in 1..opened
      /\ session \in AllSessions
  BY <1>1, EditorTypes DEF EditorTypeOK
<1> DEFINE new == Post
<1> HIDE DEF new
<1>4. /\ posts' \in Seq(Posts) /\ n \in DOMAIN posts' /\ n \in Nat /\ posts'[n] = new
      /\ \A i \in DOMAIN posts : i \in DOMAIN posts' /\ posts'[i] = posts[i] /\ i < n /\ i \in Nat
      /\ \A i \in DOMAIN posts' : i = n \/ i \in DOMAIN posts
  <2>1. new \in Posts /\ posts' = Append(posts, new)
    BY <1>2 DEF new
  <2>2. DOMAIN posts = 1..Len(posts) /\ Len(posts) \in Nat
    BY <1>3
  <2> QED
    BY <1>3, <2>1, <2>2, Appended
<1>5. /\ new.by = session.id /\ new.card = onScreen /\ new.served = "no" /\ new.answer = "none"
      /\ \A f \in DOMAIN new.values : new.values[f] = session.values[f]
      /\ \A f \in DOMAIN session.values : f \notin DOMAIN new.values => f \in new.skipped \/ ~IsDirty(f)
  BY <1>2 DEF new
<1> HIDE DEF n
<1>6. /\ session' \in AllSessions /\ session' # NoSession
      /\ session'.id = session.id /\ session'.initial = session.initial
      /\ session'.values = session.values /\ session'.next = session.next /\ session'.pending
  <2>1. session' \in AllSessions
    BY <1>3, Flagged
  <2> QED
    BY <1>3, <2>1, FollowerIsSession DEF AllSessions, Sessions
<1>7. \A i \in DOMAIN posts : posts[i].by = session.id =>
        posts[i].answer # "none" /\ posts[i].card = onScreen
  BY <1>1 DEF SavesAreShown
<1>8. session.id \in 1..opened
  BY <1>1 DEF SessionsDiffer
<1>9. EditorTypeOK'
  <2>1. \A i \in DOMAIN posts' : posts'[i].by \in 1..opened
    BY <1>3, <1>4, <1>5, <1>8
  <2> QED
    BY <1>1, <1>4, <1>6, <2>1 DEF EditorTypeOK
<1>10. SessionsDiffer'
  <2>1. \A i \in DOMAIN posts' : session.next # NoSession => posts'[i].by # session.next.id
    BY <1>1, <1>4, <1>5 DEF SessionsDiffer
  <2> QED
    BY <1>1, <1>6, <2>1 DEF SessionsDiffer
<1>11. SavesAreShown'
  <2>1. \A i, j \in DOMAIN posts' : posts'[i].by = posts'[j].by /\ posts'[i].answer = "none" => j <= i
    BY <1>1, <1>4, <1>5, <1>7 DEF SavesAreShown
  <2>2. /\ \A i \in DOMAIN posts' : posts'[i].answer = "told" => posts'[i].served = "stored"
        /\ \A i, j \in DOMAIN posts' : posts'[i].by = posts'[j].by => posts'[i].card = posts'[j].card
    BY <1>1, <1>4, <1>5, <1>7 DEF SavesAreShown
  <2>3. \A i \in DOMAIN posts' : posts'[i].by = session.id =>
          /\ posts'[i].card = onScreen
          /\ posts'[i].answer = "none" =>
               \A f \in DOMAIN session.values :
                 IF f \in DOMAIN posts'[i].values THEN posts'[i].values[f] = session.values[f]
                 ELSE f \in posts'[i].skipped \/ ~IsDirty(f)
    <3> SUFFICES ASSUME NEW i \in DOMAIN posts', posts'[i].by = session.id
                 PROVE  /\ posts'[i].card = onScreen
                        /\ posts'[i].answer = "none" =>
                             \A f \in DOMAIN session.values :
                               IF f \in DOMAIN posts'[i].values
                               THEN posts'[i].values[f] = session.values[f]
                               ELSE f \in posts'[i].skipped \/ ~IsDirty(f)
      OBVIOUS
    <3>1. CASE i = n
      BY <1>4, <1>5, <3>1
    <3>2. CASE i \in DOMAIN posts
      BY <1>4, <1>7, <3>2
    <3> QED
      BY <1>4, <3>1, <3>2
  <2> QED
    BY <1>6, <2>1, <2>2, <2>3 DEF SavesAreShown, IsDirty
<1>12. InitialIsTold'
  <2>1. \A i \in DOMAIN posts' : posts'[i].answer = "told" => i \in DOMAIN posts
    BY <1>4, <1>5
  <2>2. \A f : WasSkipped(f) => WasSkipped(f)'
    BY <1>4, <1>6 DEF WasSkipped
  <2> QED
    BY <1>1, <1>4, <1>6, <2>1, <2>2 DEF InitialIsTold, IsOpen
<1>13. LastWriter'
  <2>1. \A i \in DOMAIN posts' : posts'[i].served = "stored" => i \in DOMAIN posts
    BY <1>4, <1>5
  <2> QED
    BY <1>1, <1>4, <2>1 DEF LastWriter
<1> QED
  BY <1>9, <1>10, <1>11, <1>12, <1>13 DEF EditorIsSound

\* Both ways to save
LEMMA SaveIsSound ==
  ASSUME EditorIsSound, NEW c \in Cards, Save \/ SaveAndLeave(c)
  PROVE  EditorIsSound'
<1>1. EditorTypeOK /\ UNCHANGED <<cells, cached, editable, opened>> /\ IsOpen /\ ~session.pending
  BY DEF EditorIsSound, Save, SaveAndLeave
<1>2. session \in AllSessions
  BY <1>1, EditorTypes
<1>3. \/ session' = Saving /\ onScreen' = onScreen
      \/ IsNothing /\ session' = NoSession /\ onScreen' = c
  BY DEF Save, SaveAndLeave
<1>4. IF IsSent THEN posts' = Append(posts, Post) ELSE posts' = posts
  BY DEF Save, SaveAndLeave, Send
<1>5. CASE IsSent
  <2>1. session' = [session EXCEPT !.pending = TRUE] /\ onScreen' = onScreen
    BY <1>3, <1>5 DEF IsSent, Saving, IsNothing
  <2> QED
    BY <1>1, <1>4, <1>5, <2>1, SentIsSound
<1>6. CASE ~IsSent /\ session' = NoSession
  BY <1>1, <1>3, <1>4, <1>6, ClosedIsSound, EditorTypes
<1>7. CASE ~IsSent /\ session' = session.next /\ onScreen' = onScreen
  BY <1>1, <1>4, <1>7, FollowedIsSound
<1>8. CASE ~IsSent /\ (session' = session \/ session' = [session EXCEPT !.due = FALSE])
           /\ onScreen' = onScreen
  <2>1. session' \in AllSessions
    BY <1>2, <1>8, Flagged
  <2>2. /\ session'.id = session.id /\ session'.initial = session.initial
        /\ session'.values = session.values /\ session'.pending = session.pending
        /\ session'.next = session.next
    BY <1>2, <1>8 DEF AllSessions, Sessions
  <2> QED
    BY <1>1, <1>4, <1>8, <2>1, <2>2, FlaggedIsSound
<1> QED
  BY <1>3, <1>5, <1>6, <1>7, <1>8 DEF Saving, IsSent

-----------------------------------------------------------------------------
(* The editor of a card: requests and their answers *)

\* One field of a request
LEMMA PostMarked ==
  ASSUME EditorTypeOK, NEW i \in DOMAIN posts,
         \/ \E served \in {"stored", "refused"} : posts' = [posts EXCEPT ![i].served = served]
         \/ \E answer \in {"told", "failed"} : posts' = [posts EXCEPT ![i].answer = answer]
  PROVE  /\ posts' \in Seq(Posts) /\ DOMAIN posts' = DOMAIN posts
         /\ \A j \in DOMAIN posts :
              /\ j # i => posts'[j] = posts[j]
              /\ posts'[j].by = posts[j].by /\ posts'[j].card = posts[j].card
              /\ posts'[j].values = posts[j].values /\ posts'[j].skipped = posts[j].skipped
         /\ \A served : posts' = [posts EXCEPT ![i].served = served] =>
              \A j \in DOMAIN posts : /\ posts'[j].answer = posts[j].answer
                                      /\ posts'[j].served = IF j = i THEN served ELSE posts[j].served
         /\ \A answer : posts' = [posts EXCEPT ![i].answer = answer] =>
              \A j \in DOMAIN posts : /\ posts'[j].served = posts[j].served
                                      /\ posts'[j].answer = IF j = i THEN answer ELSE posts[j].answer
<1>1. posts \in Seq(Posts) /\ posts[i] \in Posts /\ \A j \in DOMAIN posts : posts[j] \in Posts
  BY DEF EditorTypeOK
<1>2. PICK post \in Posts :
        /\ posts' = [posts EXCEPT ![i] = post]
        /\ post.by = posts[i].by /\ post.card = posts[i].card
        /\ post.values = posts[i].values /\ post.skipped = posts[i].skipped
  <2>1. ASSUME NEW served \in {"stored", "refused"}, posts' = [posts EXCEPT ![i].served = served]
        PROVE  \E post \in Posts :
                 /\ posts' = [posts EXCEPT ![i] = post]
                 /\ post.by = posts[i].by /\ post.card = posts[i].card
                 /\ post.values = posts[i].values /\ post.skipped = posts[i].skipped
    <3> DEFINE post == [posts[i] EXCEPT !.served = served]
    <3>1. post \in Posts /\ posts' = [posts EXCEPT ![i] = post]
          /\ post.by = posts[i].by /\ post.card = posts[i].card
          /\ post.values = posts[i].values /\ post.skipped = posts[i].skipped
      BY <1>1, <2>1 DEF Posts
    <3> QED
      BY <3>1
  <2>2. ASSUME NEW answer \in {"told", "failed"}, posts' = [posts EXCEPT ![i].answer = answer]
        PROVE  \E post \in Posts :
                 /\ posts' = [posts EXCEPT ![i] = post]
                 /\ post.by = posts[i].by /\ post.card = posts[i].card
                 /\ post.values = posts[i].values /\ post.skipped = posts[i].skipped
    <3> DEFINE post == [posts[i] EXCEPT !.answer = answer]
    <3>1. post \in Posts /\ posts' = [posts EXCEPT ![i] = post]
          /\ post.by = posts[i].by /\ post.card = posts[i].card
          /\ post.values = posts[i].values /\ post.skipped = posts[i].skipped
      BY <1>1, <2>2 DEF Posts
    <3> QED
      BY <3>1
  <2> QED
    BY <2>1, <2>2
<1>3. /\ posts' \in Seq(Posts) /\ DOMAIN posts' = DOMAIN posts
      /\ \A j \in DOMAIN posts : posts'[j] = IF j = i THEN post ELSE posts[j]
  BY <1>1, <1>2, Replaced
<1>4. ASSUME NEW served, posts' = [posts EXCEPT ![i].served = served]
      PROVE  \A j \in DOMAIN posts : /\ posts'[j].answer = posts[j].answer
                                     /\ posts'[j].served = IF j = i THEN served ELSE posts[j].served
  BY <1>1, <1>4 DEF Posts
<1>5. ASSUME NEW answer, posts' = [posts EXCEPT ![i].answer = answer]
      PROVE  \A j \in DOMAIN posts : /\ posts'[j].served = posts[j].served
                                     /\ posts'[j].answer = IF j = i THEN answer ELSE posts[j].answer
  BY <1>1, <1>5 DEF Posts
<1> QED
  BY <1>2, <1>3, <1>4, <1>5

\* The server stores the values of a request, or refuses them.
LEMMA ServePostIsSound ==
  ASSUME EditorIsSound, NEW i \in DOMAIN posts, NEW stored \in BOOLEAN, ServePost(i, stored)
  PROVE  EditorIsSound'
<1> DEFINE served == IF stored THEN "stored" ELSE "refused"
           Sent(c, f) == stored /\ c = posts[i].card /\ f \in DOMAIN posts[i].values
<1>1. EditorTypeOK /\ SessionsDiffer /\ SavesAreShown /\ InitialIsTold /\ LastWriter
  BY DEF EditorIsSound
<1>2. /\ posts[i].served = "no" /\ posts' = [posts EXCEPT ![i].served = served]
      /\ UNCHANGED <<cached, editable, onScreen, session, opened>>
  BY DEF ServePost
<1>3. /\ posts' \in Seq(Posts) /\ DOMAIN posts' = DOMAIN posts
      /\ \A j \in DOMAIN posts :
           /\ j # i => posts'[j] = posts[j]
           /\ posts'[j].by = posts[j].by /\ posts'[j].card = posts[j].card
           /\ posts'[j].values = posts[j].values /\ posts'[j].skipped = posts[j].skipped
           /\ posts'[j].answer = posts[j].answer
           /\ posts'[j].served = IF j = i THEN served ELSE posts[j].served
  <2>1. served \in {"stored", "refused"}
    OBVIOUS
  <2> HIDE DEF served
  <2>2. \E s \in {"stored", "refused"} : posts' = [posts EXCEPT ![i].served = s]
    BY <1>2, <2>1
  <2>3. /\ posts' \in Seq(Posts) /\ DOMAIN posts' = DOMAIN posts
        /\ \A j \in DOMAIN posts :
             /\ j # i => posts'[j] = posts[j]
             /\ posts'[j].by = posts[j].by /\ posts'[j].card = posts[j].card
             /\ posts'[j].values = posts[j].values /\ posts'[j].skipped = posts[j].skipped
    BY <1>1, <2>2, PostMarked
  <2>4. \A j \in DOMAIN posts : /\ posts'[j].answer = posts[j].answer
                                /\ posts'[j].served = IF j = i THEN served ELSE posts[j].served
    BY <1>1, <1>2, <2>2, PostMarked
  <2> QED
    BY <2>3, <2>4
<1>4. /\ posts[i].card \in Cards /\ posts[i].by \in 1..opened /\ opened \in Nat
      /\ posts[i].values \in [DOMAIN posts[i].values -> Values]
      /\ DOMAIN posts[i].values \subseteq Fields
      /\ posts[i].answer \in {"none", "told", "failed"}
  <2>1. posts[i] \in Posts
    BY <1>1 DEF EditorTypeOK
  <2>2. posts[i].values \in SomeValues
    BY <2>1 DEF Posts
  <2> QED
    BY <1>1, <2>1, <2>2, OfSome DEF Posts, EditorTypeOK
<1>5. /\ cells' \in [Cards -> [Fields -> [value : Values, by : Nat]]]
      /\ \A c \in Cards, f \in Fields :
           cells'[c][f] = IF Sent(c, f) THEN [value |-> posts[i].values[f], by |-> posts[i].by]
                          ELSE cells[c][f]
  <2>1. cells \in [Cards -> [Fields -> [value : Values, by : Nat]]]
    BY <1>1 DEF EditorTypeOK
  <2>2. CASE stored
    <3> DEFINE card == posts[i].card
               sent == posts[i].values
               row == [f \in Fields |-> IF f \in DOMAIN sent THEN [value |-> sent[f], by |-> posts[i].by]
                                        ELSE cells[card][f]]
    <3>1. cells' = [cells EXCEPT ![card] = row]
      BY <1>4, <2>1, <2>2 DEF ServePost
    <3>2. row \in [Fields -> [value : Values, by : Nat]]
      BY <1>4, <2>1
    <3>3. \A f \in Fields : row[f] = IF f \in DOMAIN sent THEN [value |-> sent[f], by |-> posts[i].by]
                                     ELSE cells[card][f]
      OBVIOUS
    <3>4. card \in Cards
      BY <1>4
    <3> HIDE DEF row
    <3>5. /\ cells' \in [Cards -> [Fields -> [value : Values, by : Nat]]]
          /\ \A c \in Cards : cells'[c] = IF c = card THEN row ELSE cells[c]
      BY <2>1, <3>1, <3>2, <3>4
    <3> QED
      BY <2>2, <3>3, <3>5
  <2>3. CASE ~stored
    BY <2>1, <2>3 DEF ServePost
  <2> QED
    BY <2>2, <2>3
<1> DEFINE Row(f) == [value |-> posts[i].values[f], by |-> posts[i].by]
<1>5a. \A f : Row(f).value = posts[i].values[f] /\ Row(f).by = posts[i].by
  OBVIOUS
<1>5b. \A c \in Cards, f \in Fields : cells'[c][f] = IF Sent(c, f) THEN Row(f) ELSE cells[c][f]
  BY <1>5
<1>5c. stored => served = "stored"
  OBVIOUS
<1> HIDE DEF served, Row
<1>6. EditorTypeOK'
  <2>1. \A c \in Cards, f \in Fields : cells'[c][f].by <= opened
    <3> SUFFICES ASSUME NEW c \in Cards, NEW f \in Fields PROVE cells'[c][f].by <= opened
      OBVIOUS
    <3>1. CASE Sent(c, f)
      BY <1>4, <1>5a, <1>5b, <3>1
    <3>2. CASE ~Sent(c, f)
      BY <1>1, <1>5, <3>2 DEF EditorTypeOK
    <3> QED
      BY <3>1, <3>2
  <2> QED
    BY <1>1, <1>2, <1>3, <1>5, <2>1 DEF EditorTypeOK
<1>7. posts[i].answer # "told"
  BY <1>1, <1>2 DEF SavesAreShown
<1>8. SessionsDiffer'
  BY <1>1, <1>2, <1>3 DEF SessionsDiffer, IsOpen
<1>9. SavesAreShown'
  BY <1>1, <1>2, <1>3, <1>7 DEF SavesAreShown, IsOpen, IsDirty
<1>10. InitialIsTold'
  BY <1>1, <1>2, <1>3 DEF InitialIsTold, WasSkipped, IsOpen
<1>11. LastWriter'
  <2> SUFFICES ASSUME NEW c \in Cards, NEW f \in Fields, cells'[c][f].by # 0
               PROVE  \E j \in DOMAIN posts' :
                        /\ posts'[j].by = cells'[c][f].by /\ posts'[j].card = c
                        /\ posts'[j].served = "stored"
                        /\ f \in DOMAIN posts'[j].values /\ posts'[j].values[f] = cells'[c][f].value
                        /\ \/ posts'[j].answer = "failed"
                           \/ \A k \in DOMAIN posts' :
                                posts'[k].by = cells'[c][f].by /\ posts'[k].served = "stored"
                                /\ f \in DOMAIN posts'[k].values => k <= j
    BY DEF LastWriter
  <2>1. CASE Sent(c, f)
    <3>1. /\ cells'[c][f].by = posts[i].by /\ cells'[c][f].value = posts[i].values[f]
          /\ posts'[i].served = "stored"
      BY <1>3, <1>5a, <1>5b, <1>5c, <2>1
    <3>2. posts[i].answer = "failed" \/ posts[i].answer = "none"
      BY <1>4, <1>7
    <3>3. posts[i].answer = "none" => \A k \in DOMAIN posts : posts[k].by = posts[i].by => k <= i
      BY <1>1 DEF SavesAreShown
    <3> QED
      BY <1>3, <2>1, <3>1, <3>2, <3>3
  <2>2. CASE ~Sent(c, f)
    <3>1. cells'[c][f] = cells[c][f]
      BY <1>5, <2>2
    <3>2. PICK j \in DOMAIN posts :
            /\ posts[j].by = cells[c][f].by /\ posts[j].card = c /\ posts[j].served = "stored"
            /\ f \in DOMAIN posts[j].values /\ posts[j].values[f] = cells[c][f].value
            /\ \/ posts[j].answer = "failed"
               \/ \A k \in DOMAIN posts : posts[k].by = cells[c][f].by /\ posts[k].served = "stored"
                                          /\ f \in DOMAIN posts[k].values => k <= j
      BY <1>1, <3>1 DEF LastWriter
    <3>3. j # i
      BY <1>2, <3>2
    <3>4. \A k \in DOMAIN posts' :
            posts'[k].by = cells[c][f].by /\ posts'[k].served = "stored"
            /\ f \in DOMAIN posts'[k].values => posts[k].served = "stored"
      <4>1. posts[i].by = posts[j].by => posts[i].card = c
        BY <1>1, <3>2 DEF SavesAreShown
      <4> QED
        BY <1>3, <2>2, <3>2, <4>1 DEF served
    <3> QED
      BY <1>3, <3>1, <3>2, <3>3, <3>4
  <2> QED
    BY <2>1, <2>2
<1> QED
  BY <1>6, <1>8, <1>9, <1>10, <1>11 DEF EditorIsSound

\* What holds of the requests after any answer
LEMMA AnsweredPosts ==
  ASSUME EditorIsSound, NEW i \in DOMAIN posts, NEW answer \in {"told", "failed"},
         posts[i].answer = "none", answer = "told" => posts[i].served = "stored",
         posts' = [posts EXCEPT ![i].answer = answer],
         cells' = cells, opened' = opened, onScreen' \in Cards, editable' = editable,
         cached' \in [Cards -> [Fields -> Values]], session' \in AllSessions \cup {NoSession}
  PROVE  /\ EditorTypeOK' /\ LastWriter'
         /\ \A j, k \in DOMAIN posts' :
              posts'[j].by = posts'[k].by /\ posts'[j].answer = "none" => k <= j
         /\ \A j \in DOMAIN posts' : posts'[j].answer = "told" => posts'[j].served = "stored"
         /\ \A j, k \in DOMAIN posts' : posts'[j].by = posts'[k].by => posts'[j].card = posts'[k].card
         /\ DOMAIN posts' = DOMAIN posts
         /\ \A j \in DOMAIN posts :
              /\ posts'[j].by = posts[j].by /\ posts'[j].card = posts[j].card
              /\ posts'[j].values = posts[j].values /\ posts'[j].skipped = posts[j].skipped
              /\ posts'[j].served = posts[j].served
              /\ posts'[j].answer = IF j = i THEN answer ELSE posts[j].answer
<1>1. EditorTypeOK /\ SavesAreShown /\ LastWriter
  BY DEF EditorIsSound
<1>2. /\ posts' \in Seq(Posts) /\ DOMAIN posts' = DOMAIN posts
      /\ \A j \in DOMAIN posts :
           /\ posts'[j].by = posts[j].by /\ posts'[j].card = posts[j].card
           /\ posts'[j].values = posts[j].values /\ posts'[j].skipped = posts[j].skipped
           /\ posts'[j].served = posts[j].served
           /\ posts'[j].answer = IF j = i THEN answer ELSE posts[j].answer
  BY <1>1, PostMarked, ZenonT(30)
<1>3. EditorTypeOK'
  BY <1>1, <1>2 DEF EditorTypeOK
<1>4. LastWriter'
  <2> SUFFICES ASSUME NEW c \in Cards, NEW f \in Fields, cells[c][f].by # 0
               PROVE  \E j \in DOMAIN posts' :
                        /\ posts'[j].by = cells[c][f].by /\ posts'[j].card = c
                        /\ posts'[j].served = "stored"
                        /\ f \in DOMAIN posts'[j].values /\ posts'[j].values[f] = cells[c][f].value
                        /\ \/ posts'[j].answer = "failed"
                           \/ \A k \in DOMAIN posts' :
                                posts'[k].by = cells[c][f].by /\ posts'[k].served = "stored"
                                /\ f \in DOMAIN posts'[k].values => k <= j
    BY DEF LastWriter
  <2>1. PICK j \in DOMAIN posts :
          /\ posts[j].by = cells[c][f].by /\ posts[j].card = c /\ posts[j].served = "stored"
          /\ f \in DOMAIN posts[j].values /\ posts[j].values[f] = cells[c][f].value
          /\ \/ posts[j].answer = "failed"
             \/ \A k \in DOMAIN posts : posts[k].by = cells[c][f].by /\ posts[k].served = "stored"
                                        /\ f \in DOMAIN posts[k].values => k <= j
    BY <1>1 DEF LastWriter
  <2> QED
    BY <1>2, <2>1
<1>5. /\ \A j, k \in DOMAIN posts' :
           posts'[j].by = posts'[k].by /\ posts'[j].answer = "none" => k <= j
      /\ \A j \in DOMAIN posts' : posts'[j].answer = "told" => posts'[j].served = "stored"
      /\ \A j, k \in DOMAIN posts' : posts'[j].by = posts'[k].by => posts'[j].card = posts'[k].card
  BY <1>1, <1>2 DEF SavesAreShown
<1> QED
  BY <1>2, <1>3, <1>4, <1>5

\* A save that succeeded: what it sent is what fields are compared with from now on.
LEMMA PostSucceedsIsSound ==
  ASSUME EditorIsSound, NEW i \in DOMAIN posts, NEW c \in Cards, NEW again \in BOOLEAN,
         PostSucceeds(i, c, again)
  PROVE  EditorIsSound'
<1>1. EditorTypeOK /\ SessionsDiffer /\ SavesAreShown /\ InitialIsTold
  BY DEF EditorIsSound
<1>2. /\ posts[i].served = "stored" /\ posts[i].answer = "none"
      /\ posts' = [posts EXCEPT ![i].answer = "told"]
      /\ cached' = IF again THEN [cached EXCEPT ![posts[i].card] = ValuesOf(posts[i].card)] ELSE cached
      /\ UNCHANGED <<cells, editable, opened>> /\ onScreen' \in Cards
      /\ \/ session' = NoSession
         \/ onScreen' = onScreen /\ session' = IF IsAbout(i) THEN AfterSave ELSE session
  BY DEF PostSucceeds
<1>3. cached' \in [Cards -> [Fields -> Values]]
  <2>1. posts[i].card \in Cards
    <3>1. posts[i] \in Posts
      BY <1>1 DEF EditorTypeOK
    <3> QED
      BY <3>1 DEF Posts
  <2>2. ValuesOf(posts[i].card) \in [Fields -> Values]
    BY <1>1, <2>1 DEF ValuesOf, EditorTypeOK
  <2> QED
    BY <1>1, <1>2, <2>1, <2>2, EditorTypes
<1> DEFINE Answered ==
      /\ EditorTypeOK' /\ LastWriter'
      /\ \A j, k \in DOMAIN posts' :
           posts'[j].by = posts'[k].by /\ posts'[j].answer = "none" => k <= j
      /\ \A j \in DOMAIN posts' : posts'[j].answer = "told" => posts'[j].served = "stored"
      /\ \A j, k \in DOMAIN posts' : posts'[j].by = posts'[k].by => posts'[j].card = posts'[k].card
      /\ DOMAIN posts' = DOMAIN posts
      /\ \A j \in DOMAIN posts :
           /\ posts'[j].by = posts[j].by /\ posts'[j].card = posts[j].card
           /\ posts'[j].values = posts[j].values /\ posts'[j].skipped = posts[j].skipped
           /\ posts'[j].served = posts[j].served
           /\ posts'[j].answer = IF j = i THEN "told" ELSE posts[j].answer
<1>4. session' \in AllSessions \cup {NoSession} => Answered
  BY <1>1, <1>2, <1>3, AnsweredPosts
<1>5. CASE session' = NoSession
  BY <1>4, <1>5 DEF EditorIsSound, SessionsDiffer, SavesAreShown, InitialIsTold, IsOpen
<1>6. CASE session' # NoSession /\ session' = session /\ ~IsAbout(i) /\ onScreen' = onScreen
  <2>1. IsOpen /\ session \in AllSessions /\ session.id # posts[i].by
    BY <1>1, <1>6, EditorTypes DEF IsOpen, IsAbout
  <2>2. Answered
    BY <1>4, <1>6, <2>1
  <2>3. SessionsDiffer'
    BY <1>1, <1>2, <1>6, <2>1, <2>2 DEF SessionsDiffer
  <2>4. SavesAreShown'
    BY <1>1, <1>6, <2>1, <2>2 DEF SavesAreShown, IsDirty
  <2>5. InitialIsTold'
    BY <1>1, <1>6, <2>1, <2>2 DEF InitialIsTold, WasSkipped
  <2> QED
    BY <2>2, <2>3, <2>4, <2>5 DEF EditorIsSound
<1>7. CASE session' # NoSession /\ session' = AfterSave /\ IsAbout(i) /\ onScreen' = onScreen
  <2>1. IsOpen /\ session \in AllSessions /\ session.id = posts[i].by
    BY <1>1, <1>7, EditorTypes DEF IsAbout
  <2>2. CASE session.next # NoSession
    <3>1. session' = session.next /\ session' \in Sessions({NoSession}) /\ session' \in AllSessions
          /\ session'.next = NoSession
      BY <1>7, <2>1, <2>2, FollowerIsSession DEF AfterSave
    <3>2. Answered
      BY <1>4, <3>1
    <3>3. /\ session'.id \in 1..opened /\ DOMAIN session'.initial = DOMAIN session'.values
          /\ \A j \in DOMAIN posts : posts[j].by # session'.id
      BY <1>1, <2>1, <2>2, <3>1 DEF SessionsDiffer
    <3>4. SessionsDiffer'
      BY <1>2, <3>1, <3>3 DEF SessionsDiffer
    <3>5. SavesAreShown' /\ InitialIsTold'
      BY <3>2, <3>3 DEF SavesAreShown, InitialIsTold
    <3> QED
      BY <3>2, <3>4, <3>5 DEF EditorIsSound
  <2>3. CASE session.next = NoSession
    <3>1. session' = [session EXCEPT !.initial = session.values, !.pending = FALSE, !.due = FALSE]
      BY <1>7, <2>3 DEF AfterSave
    <3>2. session' \in AllSessions
      BY <2>1, <3>1, Flagged
    <3>3. /\ session'.id = session.id /\ session'.initial = session.values
          /\ session'.values = session.values /\ session'.next = NoSession
      BY <2>1, <2>3, <3>1 DEF AllSessions, Sessions
    <3>4. Answered
      BY <1>4, <3>2
    <3>5. SessionsDiffer'
      BY <1>1, <1>2, <2>1, <3>3 DEF SessionsDiffer
    <3>6. \A j \in DOMAIN posts : posts[j].by = session.id =>
            j <= i /\ posts'[j].answer # "none" /\ posts[j].card = onScreen
      <4>1. \A j \in DOMAIN posts : posts[j].by = session.id =>
              j <= i /\ posts[j].card = onScreen /\ (posts[j].answer = "none" => i <= j)
        BY <1>1, <1>2, <2>1 DEF SavesAreShown
      <4>2. \A j \in DOMAIN posts : j \in Nat
        BY <1>1 DEF EditorTypeOK
      <4> QED
        BY <3>4, <4>1, <4>2
    <3>7. SavesAreShown'
      BY <1>7, <3>3, <3>4, <3>6 DEF SavesAreShown
    <3>8. InitialIsTold'
      <4> SUFFICES ASSUME NEW f \in DOMAIN session.values, ~WasSkipped(f),
                          NEW j \in DOMAIN posts, posts[j].by = session.id,
                          posts'[j].answer = "told", f \in DOMAIN posts[j].values,
                          \A k \in DOMAIN posts : posts[k].by = session.id
                            /\ posts'[k].answer = "told" /\ f \in DOMAIN posts[k].values => k <= j
                   PROVE  session.values[f] = posts[j].values[f]
        BY <3>3, <3>4 DEF InitialIsTold, WasSkipped, IsOpen
      <4>1. \A k \in DOMAIN posts : k \in Nat
        BY <1>1 DEF EditorTypeOK
      <4>2. IF f \in DOMAIN posts[i].values THEN posts[i].values[f] = session.values[f]
            ELSE f \in posts[i].skipped \/ ~IsDirty(f)
        BY <1>1, <1>2, <2>1 DEF SavesAreShown
      <4>3. CASE f \in DOMAIN posts[i].values
        <5>1. i <= j /\ j <= i
          BY <2>1, <3>4, <3>6, <4>3
        <5> QED
          BY <4>1, <4>2, <4>3, <5>1
      <4>4. CASE f \notin DOMAIN posts[i].values
        <5>1. ~IsDirty(f)
          BY <2>1, <4>2, <4>4 DEF WasSkipped
        <5>2. j # i /\ posts[j].answer = "told"
          BY <3>4, <4>4
        <5>3. session.initial[f] = posts[j].values[f]
          <6>1. \A k \in DOMAIN posts : posts[k].by = session.id
                  /\ posts[k].answer = "told" /\ f \in DOMAIN posts[k].values => k <= j
            BY <3>4, <4>4
          <6> QED
            BY <1>1, <2>1, <5>2, <6>1 DEF InitialIsTold
        <5> QED
          BY <5>1, <5>3 DEF IsDirty
      <4> QED
        BY <4>3, <4>4
    <3> QED
      BY <3>4, <3>5, <3>7, <3>8 DEF EditorIsSound
  <2> QED
    BY <2>2, <2>3
<1> QED
  BY <1>2, <1>5, <1>6, <1>7

\* A save that failed, or seems to have
LEMMA PostFailsIsSound ==
  ASSUME EditorIsSound, NEW i \in DOMAIN posts, PostFails(i)
  PROVE  EditorIsSound'
<1>1. EditorTypeOK /\ SessionsDiffer /\ SavesAreShown /\ InitialIsTold
  BY DEF EditorIsSound
<1>2. /\ posts[i].answer = "none" /\ posts' = [posts EXCEPT ![i].answer = "failed"]
      /\ session' = IF IsAbout(i) THEN [session EXCEPT !.pending = FALSE, !.due = FALSE] ELSE session
      /\ UNCHANGED <<cells, cached, editable, onScreen, opened>>
  BY DEF PostFails
<1>3. IsOpen => /\ session \in AllSessions /\ session' \in AllSessions /\ session' # NoSession
                /\ session'.id = session.id /\ session'.initial = session.initial
                /\ session'.values = session.values /\ session'.next = session.next
                /\ session.id # posts[i].by => session' = session
  <2> SUFFICES ASSUME IsOpen
               PROVE  /\ session \in AllSessions /\ session' \in AllSessions /\ session' # NoSession
                      /\ session'.id = session.id /\ session'.initial = session.initial
                      /\ session'.values = session.values /\ session'.next = session.next
                      /\ session.id # posts[i].by => session' = session
    OBVIOUS
  <2>1. session \in AllSessions
    BY <1>1, EditorTypes
  <2>2. session' \in AllSessions
    BY <1>2, <2>1, Flagged
  <2>3. /\ session'.id = session.id /\ session'.initial = session.initial
        /\ session'.values = session.values /\ session'.next = session.next
    BY <1>2, <2>1 DEF AllSessions, Sessions
  <2> QED
    BY <1>2, <2>1, <2>2, <2>3, FollowerIsSession DEF IsAbout
<1>4. ~IsOpen => session' = NoSession
  BY <1>2 DEF IsAbout, IsOpen
<1>5. /\ EditorTypeOK' /\ LastWriter'
      /\ \A j, k \in DOMAIN posts' :
           posts'[j].by = posts'[k].by /\ posts'[j].answer = "none" => k <= j
      /\ \A j \in DOMAIN posts' : posts'[j].answer = "told" => posts'[j].served = "stored"
      /\ \A j, k \in DOMAIN posts' : posts'[j].by = posts'[k].by => posts'[j].card = posts'[k].card
      /\ DOMAIN posts' = DOMAIN posts
      /\ \A j \in DOMAIN posts :
           /\ posts'[j].by = posts[j].by /\ posts'[j].card = posts[j].card
           /\ posts'[j].values = posts[j].values /\ posts'[j].skipped = posts[j].skipped
           /\ posts'[j].served = posts[j].served
           /\ posts'[j].answer = IF j = i THEN "failed" ELSE posts[j].answer
  <2>1. /\ onScreen' \in Cards /\ cached' \in [Cards -> [Fields -> Values]]
        /\ session' \in AllSessions \cup {NoSession}
    BY <1>1, <1>2, <1>3, <1>4, EditorTypes
  <2> QED
    BY <1>2, <2>1, AnsweredPosts
<1>6. CASE ~IsOpen
  BY <1>4, <1>5, <1>6 DEF EditorIsSound, SessionsDiffer, SavesAreShown, InitialIsTold, IsOpen
<1>7. CASE IsOpen
  <2>1. SessionsDiffer'
    BY <1>1, <1>2, <1>3, <1>5, <1>7 DEF SessionsDiffer
  <2>2. \A j \in DOMAIN posts : posts[j].by = session.id /\ posts'[j].answer = "none" =>
          posts[i].by # session.id
    <3>1. \A j \in DOMAIN posts : posts[j].by = posts[i].by /\ posts[j].answer = "none" =>
            j <= i /\ i <= j
      BY <1>1, <1>2 DEF SavesAreShown
    <3>2. \A j \in DOMAIN posts : j \in Nat
      BY <1>1 DEF EditorTypeOK
    <3> QED
      BY <1>5, <3>1, <3>2
  <2>3. SavesAreShown'
    <3> SUFFICES ASSUME NEW j \in DOMAIN posts, posts[j].by = session.id
                 PROVE  /\ posts[j].card = onScreen
                        /\ posts'[j].answer = "none" =>
                             /\ session'.pending
                             /\ \A f \in DOMAIN session.values :
                                  IF f \in DOMAIN posts[j].values
                                  THEN posts[j].values[f] = session.values[f]
                                  ELSE f \in posts[j].skipped \/ session.values[f] = session.initial[f]
      BY <1>2, <1>3, <1>5, <1>7 DEF SavesAreShown, IsDirty
    <3>1. posts'[j].answer = "none" => posts[j].answer = "none" /\ session' = session
      BY <1>3, <1>5, <1>7, <2>2
    <3> QED
      BY <1>1, <1>7, <3>1 DEF SavesAreShown, IsDirty
  <2>4. InitialIsTold'
    <3>1. \A f : WasSkipped(f) => WasSkipped(f)'
      BY <1>3, <1>5, <1>7 DEF WasSkipped
    <3>2. \A j \in DOMAIN posts : posts'[j].answer = "told" <=> posts[j].answer = "told"
      BY <1>2, <1>5
    <3> QED
      BY <1>1, <1>3, <1>5, <1>7, <3>1, <3>2 DEF InitialIsTold
  <2> QED
    BY <1>5, <2>1, <2>3, <2>4 DEF EditorIsSound
<1> QED
  BY <1>6, <1>7

-----------------------------------------------------------------------------
(* The editor of a card: theorems *)

LEMMA EditorStartsSound ==
  ASSUME NEW card \in Cards, EditorInit(card)
  PROVE  EditorIsSound
<1>1. /\ cells = [c \in Cards |-> [f \in Fields |-> [value |-> Stored, by |-> 0]]]
      /\ cached = [c \in Cards |-> [f \in Fields |-> Stored]]
      /\ editable = Fields /\ onScreen = card /\ session = NoSession /\ posts = <<>> /\ opened = 0
  BY DEF EditorInit
<1>2. EditorTypeOK
  <2>1. cells \in [Cards -> [Fields -> [value : Values, by : Nat]]]
        /\ \A c \in Cards, f \in Fields : cells[c][f].by = 0
    BY <1>1, EditorAssumption
  <2>2. cached \in [Cards -> [Fields -> Values]] /\ posts \in Seq(Posts) /\ DOMAIN posts = {}
    BY <1>1, EditorAssumption
  <2> QED
    BY <1>1, <2>1, <2>2 DEF EditorTypeOK
<1>3. SessionsDiffer /\ SavesAreShown /\ InitialIsTold /\ LastWriter
  BY <1>1 DEF SessionsDiffer, SavesAreShown, InitialIsTold, LastWriter, IsOpen
<1> QED
  BY <1>2, <1>3 DEF EditorIsSound

LEMMA EditorStaysSound ==
  EditorIsSound /\ [EditorNext]_editorVars => EditorIsSound'
<1> SUFFICES ASSUME EditorIsSound, [EditorNext]_editorVars
             PROVE  EditorIsSound'
  OBVIOUS
<1>1. ASSUME NEW f \in Fields, OpenField(f) \/ \E v \in Values : TypeValue(f, v)
      PROVE  EditorIsSound'
  BY <1>1, OpenFieldIsSound, UserIsSound
<1>2. CASE \/ Blur \/ CommitAndClose \/ Cancel \/ DiscardTab
           \/ \E written \in BOOLEAN : WriteBasis(written)
  BY <1>2, UserIsSound
<1>3. CASE Refetch
  BY <1>3, RefetchIsSound
<1>4. CASE Stay \/ Save
  <2>1. PICK c \in Cards : TRUE
    BY DEF EditorIsSound, EditorTypeOK
  <2> QED
    BY <1>4, <2>1, LeavingIsSound, SaveIsSound
<1>5. ASSUME NEW c \in Cards, Leave(c) \/ DiscardAndLeave(c) \/ SaveAndLeave(c)
      PROVE  EditorIsSound'
  BY <1>5, LeavingIsSound, SaveIsSound
<1>6. ASSUME NEW i \in DOMAIN posts, \E stored \in BOOLEAN : ServePost(i, stored)
      PROVE  EditorIsSound'
  BY <1>6, ServePostIsSound
<1>7. ASSUME NEW i \in DOMAIN posts, \E c \in Cards, again \in BOOLEAN : PostSucceeds(i, c, again)
      PROVE  EditorIsSound'
  BY <1>7, PostSucceedsIsSound
<1>8. ASSUME NEW i \in DOMAIN posts, PostFails(i) PROVE EditorIsSound'
  BY <1>8, PostFailsIsSound
<1>9. CASE UNCHANGED editorVars
  <2>1. EditorTypeOK /\ UNCHANGED <<cells, cached, editable, onScreen, session, posts, opened>>
    BY <1>9 DEF EditorIsSound, editorVars
  <2>2. session' # NoSession => GoesOnEditing
    BY <2>1 DEF GoesOnEditing, IsOpen
  <2> QED
    BY <2>1, <2>2, EditingIsSound, EditorTypes DEF EditorTypeOK
<1> QED
  BY <1>1, <1>2, <1>3, <1>4, <1>5, <1>6, <1>7, <1>8, <1>9 DEF EditorNext

\* The inductive invariant of the editor of a card: its sessions, the requests
\* they sent and what is stored (useBlockEditor).
THEOREM EditorIsAlwaysSound == EditorSpec => []EditorIsSound
<1>1. (\E card \in Cards : EditorInit(card)) => EditorIsSound
  BY EditorStartsSound
<1> QED
  BY <1>1, EditorStaysSound, PTL DEF EditorSpec

\* A field shown as saved holds what its session sent last, unless a save that
\* it believes to have failed was stored or the field was left out of one
\* (useBlockEditor, its comparison of values with initial ones).
THEOREM CleanIsStoredHolds == EditorSpec => []CleanIsStored
<1>1. ASSUME EditorIsSound PROVE CleanIsStored
  <2> SUFFICES ASSUME IsOpen, NEW f \in DOMAIN session.values, ~IsDirty(f), ~WasSkipped(f),
                      cells[onScreen][f].by = session.id,
                      ~ \E i \in DOMAIN posts : /\ posts[i].by = session.id
                                                /\ posts[i].answer = "failed"
                                                /\ posts[i].served = "stored"
               PROVE  cells[onScreen][f].value = session.values[f]
    BY DEF CleanIsStored
  <2>1. EditorTypeOK /\ SessionsDiffer /\ SavesAreShown /\ InitialIsTold /\ LastWriter
    BY <1>1 DEF EditorIsSound
  <2>2. f \in Fields /\ onScreen \in Cards /\ session.id # 0
    <3>1. session.values \in SomeValues /\ onScreen \in Cards
      BY <2>1, EditorTypes, SessionsAre DEF AllSessions
    <3> QED
      BY <2>1, <3>1, OfSome DEF SessionsDiffer
  <2>3. PICK j \in DOMAIN posts :
          /\ posts[j].by = session.id /\ posts[j].served = "stored"
          /\ f \in DOMAIN posts[j].values /\ posts[j].values[f] = cells[onScreen][f].value
          /\ \A k \in DOMAIN posts : posts[k].by = session.id /\ posts[k].served = "stored"
                                     /\ f \in DOMAIN posts[k].values => k <= j
    BY <2>1, <2>2 DEF LastWriter
  <2>4. CASE posts[j].answer = "told"
    <3>1. session.initial[f] = posts[j].values[f]
      BY <2>1, <2>3, <2>4 DEF InitialIsTold, SavesAreShown
    <3> QED
      BY <2>3, <3>1 DEF IsDirty
  <2>5. CASE posts[j].answer = "none"
    BY <2>1, <2>3, <2>5 DEF SavesAreShown
  <2>6. posts[j].answer \in {"none", "told", "failed"}
    <3>1. posts[j] \in Posts
      BY <2>1 DEF EditorTypeOK
    <3> QED
      BY <3>1 DEF Posts
  <2> QED
    BY <2>3, <2>4, <2>5, <2>6
<1> QED
  BY <1>1, EditorIsAlwaysSound, PTL

\* What a user typed stays in the editor until another value is typed, it is
\* given up, or was sent and stored or left out (useBlockEditor, openField,
\* commitAndClose, save).
THEOREM EditsAreKeptHolds == EditorSpec => EditsAreKept
<1> DEFINE Kept == \A f \in Fields : IsEdit(f) /\ ~IsKept(f) =>
                     \/ GivesUp \/ \E v \in Values : TypeValue(f, v)
                     \/ WasStored(f) \/ WasSkipped(f) \/ f \notin editable
<1>1. EditorIsSound /\ [EditorNext]_editorVars => [Kept]_editorVars
  <2> SUFFICES ASSUME EditorIsSound, EditorNext, NEW f \in Fields, IsEdit(f),
                      ~GivesUp, ~ \E v \in Values : TypeValue(f, v),
                      ~WasStored(f), ~WasSkipped(f), f \in editable
               PROVE  IsKept(f)
    OBVIOUS
  <2>1. /\ EditorTypeOK /\ SavesAreShown /\ IsOpen /\ session \in AllSessions
        /\ f \in DOMAIN session.values /\ IsDirty(f) /\ Dirty
    BY EditorTypes DEF EditorIsSound, IsEdit, Dirty
  <2>2. ASSUME session' \in AllSessions, session'.id = session.id,
               session'.values[f] = session.values[f], session'.initial[f] = session.initial[f]
        PROVE  IsKept(f)
    BY <2>2, FollowerIsSession DEF IsKept
  <2>3. CASE session' = session
    BY <2>1, <2>2, <2>3
  <2>4. ASSUME NEW flag \in BOOLEAN,
               NEW new \in {[session EXCEPT !.due = flag], [session EXCEPT !.closing = flag],
                            [session EXCEPT !.basis = flag], [session EXCEPT !.pending = flag],
                            [session EXCEPT !.closing = TRUE, !.next = NoSession, !.due = TRUE],
                            [session EXCEPT !.pending = FALSE, !.due = FALSE]},
               session' = new
        PROVE  IsKept(f)
    <3>1. session' \in AllSessions
      BY <2>1, <2>4, Flagged
    <3>2. /\ session'.id = session.id /\ session'.values = session.values
          /\ session'.initial = session.initial
      BY <2>1, <2>4 DEF AllSessions, Sessions
    <3> QED
      BY <2>2, <3>1, <3>2
  <2>5. ASSUME NEW g \in Fields, OpenField(g) PROVE IsKept(f)
    <3>1. PICK fields \in SUBSET Fields :
            session' = [session EXCEPT !.next = Created(fields, BlockOf[g]), !.due = TRUE]
      <4>1. (IF NeedsBasis THEN {h \in editable : BlockOf[h] = BlockOf[g]} ELSE {g}) \in SUBSET Fields
        BY <2>1, EditorTypes
      <4> QED
        BY <2>1, <2>5, <4>1 DEF OpenField
    <3> DEFINE new == Created(fields, BlockOf[g])
    <3>2. new \in Sessions({NoSession})
      BY <2>1, CreatedIsSession
    <3> HIDE DEF new
    <3>3. session' = [session EXCEPT !.next = new, !.due = TRUE]
      BY <3>1 DEF new
    <3>4. session' \in AllSessions
      BY <2>1, <3>2, <3>3, Flagged
    <3>5. /\ session'.id = session.id /\ session'.values = session.values
          /\ session'.initial = session.initial
      BY <2>1, <3>3 DEF AllSessions, Sessions
    <3> QED
      BY <2>2, <3>4, <3>5
  <2>6. ASSUME NEW g \in Fields, NEW v \in Values, TypeValue(g, v) PROVE IsKept(f)
    <3>1. g # f
      BY <2>6
    <3> QED
      BY <2>1, <2>2, <2>6, <3>1, TypedIs
  <2>7. ASSUME NEW c \in Cards, Save \/ SaveAndLeave(c) PROVE IsKept(f)
    <3>1. f \in DOMAIN session.values \cap editable /\ f \in Changed
      BY <2>1 DEF Changed
    <3>2. Changed # {} /\ ~IsNothing
      BY <3>1 DEF IsNothing
    <3>3. session' = Saving
      BY <2>7, <3>2 DEF Save, SaveAndLeave
    <3> QED
      BY <2>3, <2>4, <3>2, <3>3 DEF Saving
  <2>8. ASSUME NEW i \in DOMAIN posts, NEW c \in Cards, NEW again \in BOOLEAN,
               PostSucceeds(i, c, again)
        PROVE  IsKept(f)
    <3>1. ~IsAbout(i)
      <4> SUFFICES ASSUME IsAbout(i) PROVE FALSE
        OBVIOUS
      <4>1. posts[i].by = session.id /\ posts[i].served = "stored" /\ posts[i].answer = "none"
        BY <2>8 DEF PostSucceeds, IsAbout
      <4>2. IF f \in DOMAIN posts[i].values THEN posts[i].values[f] = session.values[f]
            ELSE f \in posts[i].skipped \/ ~IsDirty(f)
        BY <2>1, <4>1 DEF SavesAreShown
      <4> QED
        BY <2>1, <4>1, <4>2 DEF WasStored, WasSkipped
    <3> QED
      BY <2>3, <2>8, <3>1 DEF PostSucceeds
  <2>9. ASSUME NEW i \in DOMAIN posts, PostFails(i) PROVE IsKept(f)
    BY <2>3, <2>4, <2>9 DEF PostFails
  <2>10. CASE Blur \/ CommitAndClose \/ \E written \in BOOLEAN : WriteBasis(written)
    BY <2>1, <2>4, <2>10 DEF Blur, CommitAndClose, WriteBasis, Edited
  <2>11. CASE Stay \/ Refetch
    BY <2>3, <2>11 DEF Stay, Refetch
  <2>12. ASSUME NEW i \in DOMAIN posts, \E stored \in BOOLEAN : ServePost(i, stored)
         PROVE  IsKept(f)
    BY <2>3, <2>12 DEF ServePost
  <2>13. ASSUME NEW c \in Cards, Leave(c) \/ DiscardAndLeave(c) PROVE FALSE
    BY <2>13 DEF GivesUp
  <2>14. ~Cancel /\ ~DiscardTab /\ onScreen \in Cards
    BY <2>1, EditorTypes DEF GivesUp
  <2> QED
    BY <2>5, <2>6, <2>7, <2>8, <2>9, <2>10, <2>11, <2>12, <2>13, <2>14 DEF EditorNext
<1> QED
  BY <1>1, EditorIsAlwaysSound, PTL DEF EditorSpec, EditsAreKept

=============================================================================
