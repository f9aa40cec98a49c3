---------------------------- MODULE Documents_proofs ----------------------------
(***************************************************************************)
(* Proofs about DocumentTemplates, ReportTemplates, PrintLayout and        *)
(* CardListing, for any number of requests, templates, versions, sections, *)
(* fields and cards.                                                       *)
(***************************************************************************)
EXTENDS DocumentTemplates, ReportTemplates, PrintLayout, CardListing, FiniteSetTheorems,
        SequenceTheorems, WellFoundedInduction, TLAPS

-----------------------------------------------------------------------------
(* Versions of document templates *)

\* The columns of a template, and what a request that writes a version holds
IsTemplate(row) ==
  row = [state |-> row.state, format |-> row.format, card |-> row.card, code |-> row.code]
IsVersionWork(item) ==
  item = [template |-> item.template, number |-> item.number, format |-> item.format,
          copy |-> item.copy, card |-> item.card, code |-> item.code]

\* The versions of a template are numbered without gaps, and the last one gives
\* its format unless it was raced.
Numbered(rows, row, isRaced) ==
  \/ row.state = "none" /\ rows = <<>>
  \/ /\ row.state \in {"active", "archived"}
     /\ \E n \in Nat \ {0} : /\ rows \in [1..n -> Formats]
                             /\ isRaced \/ row.format = rows[n]

Writing == {"numbered", "inserted", "naming"}

\* What a request that is under way has read of its template is still so.
WorkIsSound(w) ==
  step[w] # "idle" =>
    /\ work[w].template \in Templates
    /\ step[w] \in Writing =>
         /\ IsVersionWork(work[w]) /\ work[w].format \in Formats
         /\ work[w].copy = "none" <=> templates[work[w].template].state = "none"
    /\ step[w] = "naming" => work[w].copy = "none" /\ work[w].number = 1
    /\ step[w] \notin {"naming", "inserted"} => templates[work[w].template].state # "none"
    /\ step[w] = "inserted" => work[w].number = NextNumber(work[w].template)

\* A template is created by one request, and its next version inserted by one.
Alone(w, o) ==
  step[w] # "idle" /\ step[o] # "idle" /\ work[w].template = work[o].template =>
    /\ templates[work[w].template].state # "none"
    /\ step[w] # "inserted" \/ step[o] # "inserted"

DocumentsAreSound ==
  /\ templates = [t \in Templates |-> templates[t]]
  /\ versions = [t \in Templates |-> versions[t]]
  /\ step \in [Writers -> Writing \cup {"idle", "archiving", "chosen"}]
  /\ work = [w \in Writers |-> work[w]]
  /\ \A t \in Templates : /\ IsTemplate(templates[t])
                          /\ templates[t].state = "none" \/ templates[t].format \in Formats
                          /\ Numbered(versions[t], templates[t], t \in raced)
  /\ \A w \in Writers : WorkIsSound(w)
  /\ \A w, o \in Writers : w # o => Alone(w, o)

\* Versions that are numbered without gaps end with the latest.
LEMMA LatestIsLast ==
  ASSUME NEW t \in Templates, NEW n \in Nat \ {0}, DOMAIN versions[t] = 1..n
  PROVE  Latest(t) = n
<1>1. n \in 1..n /\ \A m \in 1..n : m <= n
  OBVIOUS
<1>2. \A k \in 1..n : (\A m \in 1..n : m <= k) => k = n
  OBVIOUS
<1> QED
  BY <1>1, <1>2 DEF Latest, Max

\* The next number is one more than there are.
LEMMA NextNumberIs ==
  ASSUME NEW t \in Templates, Numbered(versions[t], templates[t], t \in raced)
  PROVE  /\ templates[t].state = "none" => NextNumber(t) = 1
         /\ templates[t].state # "none" =>
              \E n \in Nat \ {0} :
                /\ versions[t] \in [1..n -> Formats] /\ NextNumber(t) = n + 1 /\ Latest(t) = n
                /\ t \in raced \/ templates[t].format = versions[t][n]
<1>1. CASE templates[t].state = "none"
  BY <1>1 DEF Numbered, NextNumber
<1>2. CASE templates[t].state # "none"
  <2>1. PICK n \in Nat \ {0} : /\ versions[t] \in [1..n -> Formats]
                               /\ t \in raced \/ templates[t].format = versions[t][n]
    BY <1>2 DEF Numbered
  <2>2. DOMAIN versions[t] = 1..n /\ Latest(t) = n
    BY <2>1, LatestIsLast
  <2>3. versions[t] # <<>>
    <3>1. 1 \in DOMAIN versions[t]
      BY <2>2
    <3>2. DOMAIN <<>> = {}
      OBVIOUS
    <3> QED
      BY <3>1, <3>2
  <2>4. NextNumber(t) = n + 1
    BY <2>2, <2>3 DEF NextNumber
  <2> QED
    BY <1>2, <2>1, <2>2, <2>4
<1> QED
  BY <1>1, <1>2

\* What a request does to itself, with what it holds sound and alone, disturbs
\* no other.
LEMMA OwnStep ==
  ASSUME DocumentsAreSound, NEW w \in Writers, NEW what,
         NEW to \in Writing \cup {"idle", "archiving", "chosen"}, Goes(w, to, what),
         UNCHANGED <<templates, versions, raced>>,
         WorkIsSound(w)', \A o \in Writers \ {w} : Alone(w, o)'
  PROVE  DocumentsAreSound'
<1>1. /\ step' \in [Writers -> Writing \cup {"idle", "archiving", "chosen"}]
      /\ work' = [o \in Writers |-> work'[o]]
      /\ \A o \in Writers \ {w} : step'[o] = step[o] /\ work'[o] = work[o]
  BY DEF Goes, DocumentsAreSound
<1>2. ASSUME NEW o \in Writers PROVE WorkIsSound(o)'
  <2>1. CASE o # w
    <3>1. WorkIsSound(o)
      BY DEF DocumentsAreSound
    <3>2. step'[o] = step[o] /\ work'[o] = work[o]
      BY <1>1, <2>1
    <3>3. NextNumber(work[o].template)' = NextNumber(work[o].template)
      BY <3>2 DEF NextNumber, Latest
    <3> QED
      BY <3>1, <3>2, <3>3 DEF WorkIsSound
  <2> QED
    BY <2>1
<1>3. ASSUME NEW o \in Writers, NEW p \in Writers, o # p PROVE Alone(o, p)'
  <2>1. CASE o = w
    BY <1>3, <2>1
  <2>2. CASE p = w
    <3>1. Alone(w, o)'
      BY <1>3, <2>2
    <3> QED
      BY <2>2, <3>1 DEF Alone
  <2>3. CASE o # w /\ p # w
    BY <1>1, <1>3, <2>3 DEF Alone, DocumentsAreSound
  <2> QED
    BY <2>1, <2>2, <2>3
<1> QED
  BY <1>1, <1>2, <1>3 DEF DocumentsAreSound

\* What a request holds after its step.
LEMMA GoesTo ==
  ASSUME DocumentsAreSound, NEW w \in Writers, NEW to, NEW what, Goes(w, to, what)
  PROVE  /\ step'[w] = to /\ work'[w] = what
         /\ \A o \in Writers \ {w} : step'[o] = step[o] /\ work'[o] = work[o]
BY DEF Goes, DocumentsAreSound

\* A request that ends without a trace
LEMMA EndIsSound ==
  ASSUME DocumentsAreSound, NEW w \in Writers, Goes(w, "idle", NoWork),
         UNCHANGED <<templates, versions, raced>>
  PROVE  DocumentsAreSound'
<1>1. WorkIsSound(w)' /\ \A o \in Writers \ {w} : Alone(w, o)'
  BY GoesTo DEF WorkIsSound, Alone
<1> QED
  BY <1>1, OwnStep

\* A template that does not exist yet is taken by nobody else, and its first
\* version is number 1.
LEMMA CreationIsSound ==
  ASSUME DocumentsAreSound, NEW w \in Writers, NEW what, NEW to \in {"inserted", "naming"},
         Goes(w, to, what), UNCHANGED <<templates, versions, raced>>,
         IsVersionWork(what), what.template \in Templates, what.format \in Formats,
         what.copy = "none", what.number = 1, templates[what.template].state = "none",
         \A o \in Writers \ {w} : step[o] # "idle" => work[o].template # what.template
  PROVE  DocumentsAreSound'
<1>1. /\ step'[w] = to /\ work'[w] = what
      /\ \A o \in Writers \ {w} : step'[o] = step[o] /\ work'[o] = work[o]
  BY GoesTo
<1>2. NextNumber(what.template) = 1
  BY NextNumberIs DEF DocumentsAreSound
<1>3. NextNumber(what.template)' = 1
  BY <1>2 DEF NextNumber, Latest
<1>4. WorkIsSound(w)'
  BY <1>1, <1>3 DEF WorkIsSound
<1>5. \A o \in Writers \ {w} : Alone(w, o)'
  BY <1>1 DEF Alone
<1> QED
  BY <1>4, <1>5, OwnStep DEF Writing

\* create_template_for_actor and its like
LEMMA CreateTemplateIsSound ==
  ASSUME DocumentsAreSound, NEW w \in Writers, CreateTemplate(w)
  PROVE  DocumentsAreSound'
<1>1. PICK t \in Templates, format \in Formats, card \in CardTemplates \cup {NoCardTemplate} :
        /\ step[w] = "idle" /\ templates[t].state = "none"
        /\ \A o \in Writers : step[o] # "idle" => work[o].template # t
        /\ Goes(w, "inserted", [template |-> t, number |-> 1, format |-> format,
                                copy |-> "none", card |-> card, code |-> t])
        /\ UNCHANGED <<templates, versions, documents, raced>>
  BY DEF CreateTemplate
<1> DEFINE what == [template |-> t, number |-> 1, format |-> format,
                    copy |-> "none", card |-> card, code |-> t]
<1>2. /\ IsVersionWork(what) /\ what.template = t /\ what.format = format
      /\ what.copy = "none" /\ what.number = 1
  BY DEF IsVersionWork
<1>3. Goes(w, "inserted", what)
  BY <1>1
<1> HIDE DEF what
<1> QED
  BY <1>1, <1>2, <1>3, CreationIsSound

\* _ensure_generation_print_view
LEMMA EnsurePrintViewIsSound ==
  ASSUME DocumentsAreSound, NEW w \in Writers, EnsurePrintView(w)
  PROVE  DocumentsAreSound'
<1>1. PICK t \in Templates, card \in CardTemplates :
        /\ step[w] = "idle" /\ templates[t].state = "none"
        /\ \A o \in Writers : step[o] # "idle" => work[o].template # t
        /\ Goes(w, "naming", [template |-> t, number |-> 1, format |-> "print",
                              copy |-> "none", card |-> card, code |-> 0])
        /\ UNCHANGED <<templates, versions, documents, raced>>
  BY DEF EnsurePrintView
<1> DEFINE what == [template |-> t, number |-> 1, format |-> "print",
                    copy |-> "none", card |-> card, code |-> 0]
<1>2. /\ IsVersionWork(what) /\ what.template = t /\ what.format \in Formats
      /\ what.copy = "none" /\ what.number = 1
  BY DEF IsVersionWork, Formats
<1>3. Goes(w, "naming", what)
  BY <1>1
<1> HIDE DEF what
<1> QED
  BY <1>1, <1>2, <1>3, CreationIsSound

\* A request about a template that exists may run beside any other.
LEMMA BeginIsSound ==
  ASSUME DocumentsAreSound, NEW w \in Writers, NEW what,
         NEW to \in {"archiving", "chosen", "numbered"}, Goes(w, to, what),
         UNCHANGED <<templates, versions, raced>>,
         what.template \in Templates, templates[what.template].state # "none",
         to = "numbered" => IsVersionWork(what) /\ what.format \in Formats /\ what.copy # "none"
  PROVE  DocumentsAreSound'
<1>1. /\ step'[w] = to /\ work'[w] = what
      /\ \A o \in Writers \ {w} : step'[o] = step[o] /\ work'[o] = work[o]
  BY GoesTo
<1>2. WorkIsSound(w)'
  BY <1>1 DEF WorkIsSound, Writing
<1>3. \A o \in Writers \ {w} : Alone(w, o)'
  BY <1>1 DEF Alone
<1> QED
  BY <1>2, <1>3, OwnStep DEF Writing

\* archive_template_for_actor, generate_document_for_actor and the versions of
\* a template begin by reading it.
LEMMA ReadingIsSound ==
  ASSUME DocumentsAreSound, NEW w \in Writers,
         Archive(w) \/ BeginDocument(w) \/ BeginVersion(w)
  PROVE  DocumentsAreSound'
<1>1. CASE Archive(w)
  <2>1. PICK t \in Templates :
          /\ ReadActive(t) /\ UNCHANGED <<templates, versions, raced>>
          /\ Goes(w, "archiving", [template |-> t, copy |-> templates[t].format])
    BY <1>1 DEF Archive
  <2> DEFINE what == [template |-> t, copy |-> templates[t].format]
  <2>2. what.template = t /\ Goes(w, "archiving", what)
    BY <2>1
  <2> HIDE DEF what
  <2> QED
    BY <2>1, <2>2, BeginIsSound DEF ReadActive
<1>2. CASE BeginDocument(w)
  <2>1. PICK t \in Templates, card \in CardTemplates :
          /\ ReadActive(t) /\ UNCHANGED <<templates, versions, raced>>
          /\ Goes(w, "chosen", [template |-> t, copy |-> templates[t].format, card |-> card])
    BY <1>2 DEF BeginDocument
  <2> DEFINE what == [template |-> t, copy |-> templates[t].format, card |-> card]
  <2>2. what.template = t /\ Goes(w, "chosen", what)
    BY <2>1
  <2> HIDE DEF what
  <2> QED
    BY <2>1, <2>2, BeginIsSound DEF ReadActive
<1>3. CASE BeginVersion(w)
  <2>1. PICK t \in Templates, format \in {"binary", "print"} :
          /\ ReadActive(t) /\ UNCHANGED <<templates, versions, raced>>
          /\ Goes(w, "numbered", [template |-> t, number |-> 0, format |-> format,
                                  copy |-> templates[t].format, card |-> templates[t].card,
                                  code |-> templates[t].code])
    BY <1>3 DEF BeginVersion
  <2> DEFINE what == [template |-> t, number |-> 0, format |-> format,
                      copy |-> templates[t].format, card |-> templates[t].card,
                      code |-> templates[t].code]
  <2>2. /\ what.template = t /\ what.format = format /\ what.copy = templates[t].format
        /\ IsVersionWork(what) /\ Goes(w, "numbered", what)
    BY <2>1 DEF IsVersionWork
  <2>3. templates[t].format \in Formats
    BY <2>1 DEF ReadActive, DocumentsAreSound
  <2> HIDE DEF what
  <2> QED
    BY <2>1, <2>2, <2>3, BeginIsSound DEF ReadActive, Formats
<1> QED
  BY <1>1, <1>2, <1>3

\* The row of a version waits for any uncommitted row with its number, which is
\* any uncommitted row of its template.
LEMMA InsertVersionIsSound ==
  ASSUME DocumentsAreSound, NEW w \in Writers, InsertVersion(w)
  PROVE  DocumentsAreSound'
<1>0. PICK t \in Templates : t = work[w].template
  BY DEF InsertVersion, WorkIsSound, DocumentsAreSound
<1> DEFINE what == [work[w] EXCEPT !.number = NextNumber(t)]
<1>1. /\ step[w] = "numbered" /\ Goes(w, "inserted", what)
      /\ UNCHANGED <<templates, versions, raced>>
      /\ \A o \in Writers \ {w} :
           step[o] = "inserted" /\ work[o].template = t => work[o].number # NextNumber(t)
  BY <1>0 DEF InsertVersion
<1>2. WorkIsSound(w) /\ \A o \in Writers : WorkIsSound(o)
  BY DEF DocumentsAreSound
<1>3. /\ t \in Templates /\ IsVersionWork(work[w]) /\ work[w].format \in Formats
      /\ work[w].copy = "none" <=> templates[t].state = "none"
      /\ templates[t].state # "none"
  BY <1>0, <1>1, <1>2 DEF WorkIsSound, Writing
<1>4. /\ IsVersionWork(what) /\ what.template = t /\ what.format = work[w].format
      /\ what.copy = work[w].copy /\ what.number = NextNumber(t)
  BY <1>0, <1>3 DEF IsVersionWork
<1>5. \A o \in Writers \ {w} : ~(step[o] = "inserted" /\ work[o].template = t)
  BY <1>1, <1>2 DEF WorkIsSound
<1> HIDE DEF what
<1>6. /\ step'[w] = "inserted" /\ work'[w] = what
      /\ \A o \in Writers \ {w} : step'[o] = step[o] /\ work'[o] = work[o]
  BY <1>1, GoesTo
<1>7. NextNumber(t)' = NextNumber(t)
  BY <1>1 DEF NextNumber, Latest
<1>8. WorkIsSound(w)'
  BY <1>1, <1>3, <1>4, <1>6, <1>7 DEF WorkIsSound
<1>9. \A o \in Writers \ {w} : Alone(w, o)'
  BY <1>1, <1>3, <1>4, <1>5, <1>6 DEF Alone
<1> QED
  BY <1>1, <1>8, <1>9, OwnStep DEF Writing

\* Only the code of a new print view is chosen.
LEMMA NamePrintViewIsSound ==
  ASSUME DocumentsAreSound, NEW w \in Writers, NamePrintView(w)
  PROVE  DocumentsAreSound'
<1> DEFINE what == [work[w] EXCEPT !.code = NextCode]
<1>1. /\ step[w] = "naming" /\ Goes(w, "inserted", what)
      /\ UNCHANGED <<templates, versions, raced>>
  BY DEF NamePrintView
<1>2. /\ work[w].template \in Templates /\ IsVersionWork(work[w]) /\ work[w].format \in Formats
      /\ work[w].copy = "none" /\ work[w].number = 1
      /\ templates[work[w].template].state = "none"
  BY <1>1 DEF WorkIsSound, Writing, DocumentsAreSound
<1>3. /\ IsVersionWork(what) /\ what.template = work[w].template
      /\ what.format = work[w].format /\ what.copy = "none" /\ what.number = 1
  BY <1>2 DEF IsVersionWork
<1>4. \A o \in Writers \ {w} : step[o] # "idle" => work[o].template # what.template
  BY <1>1, <1>2, <1>3 DEF Alone, DocumentsAreSound
<1> HIDE DEF what
<1> QED
  BY <1>1, <1>2, <1>3, <1>4, CreationIsSound

\* What ends without changing a template
LEMMA EndingIsSound ==
  ASSUME DocumentsAreSound, NEW w \in Writers,
         RefuseVersion(w) \/ Rollback(w) \/ CommitDocument(w)
  PROVE  DocumentsAreSound'
<1>1. Goes(w, "idle", NoWork) /\ UNCHANGED <<templates, versions, raced>>
  BY DEF RefuseVersion, Rollback, CommitDocument
<1> QED
  BY <1>1, EndIsSound

\* A commit that changes template t, with the versions it has then, disturbs no
\* request that has read t: none of them creates t, and those with a version
\* inserted see the versions they saw.
LEMMA CommitIsSound ==
  ASSUME DocumentsAreSound, NEW w \in Writers, NEW t \in Templates, NEW row, NEW rows,
         Goes(w, "idle", NoWork), templates' = [templates EXCEPT ![t] = row],
         versions' = [versions EXCEPT ![t] = rows], raced' \in {raced, raced \cup {t}},
         IsTemplate(row), row.state # "none", row.format \in Formats,
         Numbered(rows, row, t \in raced'),
         \A o \in Writers \ {w} : step[o] # "idle" /\ work[o].template = t =>
           /\ templates[t].state # "none"
           /\ step[o] = "inserted" => rows = versions[t]
  PROVE  DocumentsAreSound'
<1>1. /\ step' \in [Writers -> Writing \cup {"idle", "archiving", "chosen"}]
      /\ work' = [o \in Writers |-> work'[o]] /\ step'[w] = "idle"
      /\ \A o \in Writers \ {w} : step'[o] = step[o] /\ work'[o] = work[o]
  BY DEF Goes, DocumentsAreSound
<1>2. /\ templates' = [x \in Templates |-> templates'[x]] /\ templates'[t] = row
      /\ \A x \in Templates \ {t} : templates'[x] = templates[x]
  BY DEF DocumentsAreSound
<1>3. /\ versions' = [x \in Templates |-> versions'[x]] /\ versions'[t] = rows
      /\ \A x \in Templates \ {t} : versions'[x] = versions[x]
  BY DEF DocumentsAreSound
<1>4. ASSUME NEW x \in Templates
      PROVE  /\ IsTemplate(templates[x])'
             /\ templates'[x].state = "none" \/ templates'[x].format \in Formats
             /\ Numbered(versions'[x], templates'[x], x \in raced')
  <2>1. CASE x = t
    BY <1>2, <1>3, <2>1 DEF IsTemplate
  <2>2. CASE x # t
    <3>1. (x \in raced') = (x \in raced)
      BY <2>2
    <3>2. /\ IsTemplate(templates[x])
          /\ templates[x].state = "none" \/ templates[x].format \in Formats
          /\ Numbered(versions[x], templates[x], x \in raced)
      BY DEF DocumentsAreSound
    <3> QED
      BY <1>2, <1>3, <2>2, <3>1, <3>2 DEF IsTemplate, Numbered
  <2> QED
    BY <2>1, <2>2
<1>5. ASSUME NEW o \in Writers PROVE WorkIsSound(o)'
  <2>1. CASE step'[o] = "idle"
    BY <2>1 DEF WorkIsSound
  <2>2. CASE step'[o] # "idle"
    <3>1. o # w /\ step'[o] = step[o] /\ work'[o] = work[o]
      BY <1>1, <2>2
    <3>2. PICK x \in Templates : x = work[o].template
      BY <2>2, <3>1 DEF WorkIsSound, DocumentsAreSound
    <3>3. WorkIsSound(o)
      BY DEF DocumentsAreSound
    <3>4. (templates'[x].state = "none") = (templates[x].state = "none")
      BY <1>2, <2>2, <3>1, <3>2
    <3>5. step[o] = "inserted" => NextNumber(x)' = NextNumber(x)
      BY <1>3, <2>2, <3>1, <3>2 DEF NextNumber, Latest
    <3> QED
      BY <2>2, <3>1, <3>2, <3>3, <3>4, <3>5 DEF WorkIsSound
  <2> QED
    BY <2>1, <2>2
<1>6. ASSUME NEW o \in Writers, NEW p \in Writers, o # p PROVE Alone(o, p)'
  <2>1. CASE o = w \/ p = w
    BY <1>1, <2>1 DEF Alone
  <2>2. CASE o # w /\ p # w
    <3>1. Alone(o, p) /\ WorkIsSound(o)
      BY <1>6 DEF DocumentsAreSound
    <3> QED
      BY <1>1, <1>2, <2>2, <3>1 DEF Alone, WorkIsSound
  <2> QED
    BY <2>1, <2>2
<1> QED
  BY <1>1, <1>2, <1>3, <1>4, <1>5, <1>6 DEF DocumentsAreSound

\* An archived template keeps its versions.
LEMMA CommitArchiveIsSound ==
  ASSUME DocumentsAreSound, NEW w \in Writers, CommitArchive(w)
  PROVE  DocumentsAreSound'
<1>1. PICK t \in Templates : t = work[w].template
  BY DEF CommitArchive, DocumentsAreSound, WorkIsSound
<1> DEFINE row == [templates[t] EXCEPT !.state = "archived"]
<1>2. /\ step[w] = "archiving" /\ Goes(w, "idle", NoWork)
      /\ templates' = [templates EXCEPT ![t] = row] /\ UNCHANGED <<versions, raced>>
  BY <1>1 DEF CommitArchive, DocumentsAreSound
<1>3. /\ templates[t].state # "none" /\ IsTemplate(templates[t])
      /\ templates[t].format \in Formats
      /\ Numbered(versions[t], templates[t], t \in raced)
  BY <1>1, <1>2 DEF DocumentsAreSound, WorkIsSound
<1>4. IsTemplate(row) /\ row.state = "archived" /\ row.format = templates[t].format
  BY <1>3 DEF IsTemplate
<1> HIDE DEF row
<1>5. Numbered(versions[t], row, t \in raced)
  BY <1>3, <1>4 DEF Numbered
<1>6. versions' = [versions EXCEPT ![t] = versions[t]]
  BY <1>2 DEF DocumentsAreSound
<1> QED
  BY <1>2, <1>3, <1>4, <1>5, <1>6, CommitIsSound

\* The first version of a template makes it, the next one follows the last: in
\* either case the template gets the format of its new latest version, or a
\* concurrent version has changed the format that was read.
LEMMA CommitVersionIsSound ==
  ASSUME DocumentsAreSound, NEW w \in Writers, CommitVersion(w)
  PROVE  DocumentsAreSound'
<1>1. PICK t \in Templates : t = work[w].template
  BY DEF CommitVersion, DocumentsAreSound, WorkIsSound
<1> DEFINE item == work[w]
           row == TemplateAfter(w, templates[t])
           rows == [n \in DOMAIN versions[t] \cup {item.number} |->
                      IF n = item.number THEN item.format ELSE versions[t][n]]
<1>2. /\ step[w] = "inserted" /\ Goes(w, "idle", NoWork)
      /\ templates' = [templates EXCEPT ![t] = row]
      /\ versions' = [versions EXCEPT ![t] = rows]
      /\ raced' = IF item.copy = item.format /\ item.format # templates[t].format
                  THEN raced \cup {t} ELSE raced
  BY <1>1 DEF CommitVersion
<1>3. /\ item.format \in Formats /\ item.number = NextNumber(t)
      /\ item.copy = "none" <=> templates[t].state = "none"
      /\ IsTemplate(templates[t]) /\ Numbered(versions[t], templates[t], t \in raced)
      /\ templates[t].state = "none" \/ templates[t].format \in Formats
  BY <1>1, <1>2 DEF DocumentsAreSound, WorkIsSound, Writing
<1>4. /\ IsTemplate(row) /\ row.format = FormatAfter(w)
      /\ row.state = IF item.copy = "none" THEN "active" ELSE templates[t].state
  BY DEF IsTemplate, TemplateAfter
<1>5. row.state \in {"active", "archived"}
  BY <1>3, <1>4 DEF Numbered
<1>6. row.format \in Formats /\ (t \in raced' \/ row.format = item.format)
  BY <1>1, <1>2, <1>3, <1>4 DEF FormatAfter, Formats
<1>7. \E n \in Nat \ {0} : rows \in [1..n -> Formats] /\ rows[n] = item.format
  <2>1. CASE templates[t].state = "none"
    <3>1. versions[t] = <<>> /\ item.number = 1
      BY <1>3, <2>1, NextNumberIs DEF Numbered
    <3>2. DOMAIN versions[t] \cup {item.number} = 1..1
      BY <3>1
    <3>3. rows \in [1..1 -> Formats] /\ rows[1] = item.format
      BY <1>3, <3>1, <3>2
    <3> QED
      BY <3>3
  <2>2. CASE templates[t].state # "none"
    <3>1. PICK n \in Nat \ {0} : versions[t] \in [1..n -> Formats] /\ NextNumber(t) = n + 1
      BY <1>3, <2>2, NextNumberIs
    <3>2. DOMAIN versions[t] \cup {item.number} = 1..(n + 1) /\ item.number = n + 1
      BY <1>3, <3>1
    <3>3. \A k \in 1..(n + 1) : k # n + 1 => k \in 1..n /\ versions[t][k] \in Formats
      BY <3>1
    <3>4. rows \in [1..(n + 1) -> Formats] /\ rows[n + 1] = item.format
      BY <1>3, <3>1, <3>2, <3>3
    <3> QED
      BY <3>4
  <2> QED
    BY <2>1, <2>2
<1> HIDE DEF row, rows
<1>8. Numbered(rows, row, t \in raced')
  BY <1>5, <1>6, <1>7 DEF Numbered
<1>9. ASSUME NEW o \in Writers \ {w}, step[o] # "idle", work[o].template = t
      PROVE  templates[t].state # "none" /\ step[o] # "inserted"
  BY <1>1, <1>2, <1>9 DEF Alone, DocumentsAreSound
<1>10. raced' \in {raced, raced \cup {t}}
  BY <1>2
<1> QED
  BY <1>2, <1>4, <1>5, <1>6, <1>8, <1>9, <1>10, CommitIsSound, ZenonT(30)

\* Nothing is there at the start.
LEMMA DocumentInitIsSound == DocumentInit => DocumentsAreSound
<1> SUFFICES ASSUME DocumentInit PROVE DocumentsAreSound
  OBVIOUS
<1>1. \A t \in Templates : /\ IsTemplate(templates[t]) /\ templates[t].state = "none"
                           /\ versions[t] = <<>>
  BY DEF DocumentInit, IsTemplate
<1>2. \A w \in Writers : step[w] = "idle"
  BY DEF DocumentInit
<1>3. /\ templates = [t \in Templates |-> templates[t]]
      /\ versions = [t \in Templates |-> versions[t]]
      /\ step \in [Writers -> Writing \cup {"idle", "archiving", "chosen"}]
      /\ work = [w \in Writers |-> work[w]]
  BY DEF DocumentInit
<1> QED
  BY <1>1, <1>2, <1>3 DEF DocumentsAreSound, WorkIsSound, Alone, Numbered

\* Every step of every request keeps it so.
LEMMA DocumentNextIsSound ==
  DocumentsAreSound /\ [DocumentNext]_documentVars => DocumentsAreSound'
<1> SUFFICES ASSUME DocumentsAreSound, [DocumentNext]_documentVars PROVE DocumentsAreSound'
  OBVIOUS
<1>1. CASE UNCHANGED documentVars
  BY <1>1 DEF documentVars, DocumentsAreSound, WorkIsSound, Alone, IsTemplate, IsVersionWork,
              Numbered, NextNumber, Latest
<1>2. ASSUME NEW w \in Writers,
             CreateTemplate(w) \/ EnsurePrintView(w) \/ NamePrintView(w)
      PROVE  DocumentsAreSound'
  BY <1>2, CreateTemplateIsSound, EnsurePrintViewIsSound, NamePrintViewIsSound
<1>3. ASSUME NEW w \in Writers,
             \/ Archive(w) \/ BeginDocument(w) \/ BeginVersion(w) \/ InsertVersion(w)
             \/ RefuseVersion(w) \/ Rollback(w) \/ CommitDocument(w)
      PROVE  DocumentsAreSound'
  BY <1>3, ReadingIsSound, InsertVersionIsSound, EndingIsSound
<1>4. ASSUME NEW w \in Writers, CommitArchive(w) \/ CommitVersion(w)
      PROVE  DocumentsAreSound'
  BY <1>4, CommitArchiveIsSound, CommitVersionIsSound
<1> QED
  BY <1>1, <1>2, <1>3, <1>4 DEF DocumentNext

\* The requests that write templates and their versions stay apart: a template
\* has one creator, the row of its next version one author, and its versions
\* are numbered without gaps.
THEOREM DocumentsAreAlwaysSound == DocumentSpec => []DocumentsAreSound
BY DocumentInitIsSound, DocumentNextIsSound, PTL DEF DocumentSpec

\* A template has the format of its latest version, however its versions race,
\* but for the one race that is named: a print layout committed by a request
\* that read the template before a binary version changed it.
THEOREM FormatFollowsLatestHolds == DocumentSpec => []FormatFollowsLatest
<1>1. DocumentsAreSound => FormatFollowsLatest
  <2> SUFFICES ASSUME DocumentsAreSound, NEW t \in Templates,
                      templates[t].state # "none", t \notin raced
               PROVE  templates[t].format = LatestFormat(t)
    BY DEF FormatFollowsLatest
  <2> QED
    BY NextNumberIs DEF DocumentsAreSound, LatestFormat
<1> QED
  BY <1>1, DocumentsAreAlwaysSound, PTL

-----------------------------------------------------------------------------
(* Defaults of report templates *)

IsReport(row) ==
  /\ DOMAIN row = {"state", "schema", "defaults", "kind"}
  /\ row.schema \in Schemas

\* An update that is under way has been checked with what the template still
\* has, unless another has changed it.
DraftIsSound(d) ==
  LET r == draft[d].report
      candidate == Candidate(reports[r], draft[d].change)
  IN /\ draft[d].step \in {"update", "archive"} => r \in Reports /\ reports[r].state # "none"
     /\ draft[d].step = "update" =>
          /\ draft[d].change \in Changes
          /\ r \in mixed \/ DefaultsFit(candidate.schema, candidate.defaults)

ReportsAreSound ==
  /\ reports = [r \in Reports |-> reports[r]]
  /\ draft = [d \in Drafters |-> draft[d]]
  /\ \A r \in Reports :
       /\ IsReport(reports[r])
       /\ reports[r].state = "none" \/ r \in mixed
            \/ DefaultsFit(reports[r].schema, reports[r].defaults)
  /\ \A d \in Drafters : DraftIsSound(d)

\* What an update may write
LEMMA ChangeIs ==
  ASSUME NEW change \in Changes
  PROVE  /\ DOMAIN change \subseteq {"schema", "defaults", "kind"}
         /\ "schema" \in DOMAIN change => change.schema \in Schemas
         /\ "defaults" \in DOMAIN change => change.defaults \in Defaults
BY DEF Changes

\* What is written is what was checked, with the rest of the row.
LEMMA WrittenIsCandidate ==
  ASSUME NEW change \in Changes, NEW row, IsReport(row)
  PROVE  /\ IsReport(Written(row, change))
         /\ Written(row, change).state = row.state
         /\ Written(row, change).schema = Candidate(row, change).schema
         /\ Written(row, change).defaults = Candidate(row, change).defaults
BY ChangeIs DEF IsReport, Candidate, Written

\* With no parameters a run has the defaults, all of them.
LEMMA DefaultsAreMerged ==
  ASSUME NEW schema \in Schemas, NEW defaults, defaults # NoDefaults,
         DefaultsFit(schema, defaults)
  PROVE  Fits(schema, Merged(defaults, NoParameters))
<1>1. ASSUME NEW c \in Codes PROVE Merged(defaults, NoParameters)[c] = defaults[c]
  BY DEF Merged, NoParameters
<1>2. CASE schema # NoSchema /\ schema.lists
  <2>1. Fits(schema, defaults)
    BY DEF DefaultsFit
  <2>2. ASSUME NEW c \in schema.required PROVE ~Missing(Merged(defaults, NoParameters), c)
    <3>1. c \in Codes
      BY <1>2, ReportAssumption DEF ReportAssumption
    <3> QED
      BY <1>1, <1>2, <2>1, <3>1 DEF Fits, Missing
  <2>3. ASSUME NEW p \in schema.props, Merged(defaults, NoParameters)[p.code] \notin {Null, Absent}
        PROVE  Merged(defaults, NoParameters)[p.code] \in p.accepts
    <3>1. p.code \in Codes
      BY <1>2, ReportAssumption DEF ReportAssumption
    <3> QED
      BY <1>1, <1>2, <2>1, <2>3, <3>1 DEF Fits, Accepts
  <2> QED
    BY <2>2, <2>3 DEF Fits, Accepts
<1> QED
  BY <1>2 DEF Fits

\* There are no templates at first.
LEMMA ReportInitIsSound == ReportInit => ReportsAreSound
<1> SUFFICES ASSUME ReportInit PROVE ReportsAreSound
  OBVIOUS
<1>1. IsReport(NoReport) /\ NoReport.state = "none"
  BY ReportAssumption DEF NoReport, IsReport, ReportAssumption
<1>2. \A d \in Drafters : draft[d].step = "free"
  BY DEF ReportInit, Free
<1> QED
  BY <1>1, <1>2 DEF ReportInit, ReportsAreSound, DraftIsSound

\* A new template: nobody has read it.
LEMMA CreateReportIsSound ==
  ASSUME ReportsAreSound, NEW d \in Drafters, CreateReport(d)
  PROVE  ReportsAreSound'
<1>1. PICK r \in Reports, schema \in Schemas, defaults \in Defaults, kind \in ReportKinds :
        /\ reports[r].state = "none" /\ DefaultsFit(schema, defaults)
        /\ reports' = [reports EXCEPT ![r] = [state |-> "active", schema |-> schema,
                                              defaults |-> defaults, kind |-> kind]]
        /\ UNCHANGED <<runs, draft, going, mixed, updates>>
  BY DEF CreateReport
<1> DEFINE row == [state |-> "active", schema |-> schema, defaults |-> defaults, kind |-> kind]
<1>2. /\ IsReport(row) /\ row.state = "active"
      /\ row.schema = schema /\ row.defaults = defaults
  BY DEF IsReport
<1>3. reports' = [reports EXCEPT ![r] = row]
  BY <1>1
<1> HIDE DEF row
<1>4. ASSUME NEW x \in Reports
      PROVE  /\ IsReport(reports'[x])
             /\ reports'[x].state = "none" \/ x \in mixed'
                  \/ DefaultsFit(reports'[x].schema, reports'[x].defaults)
  BY <1>1, <1>2, <1>3 DEF ReportsAreSound
<1>5. ASSUME NEW e \in Drafters PROVE DraftIsSound(e)'
  <2>1. DraftIsSound(e) /\ draft'[e] = draft[e] /\ mixed' = mixed
    BY <1>1 DEF ReportsAreSound
  <2>2. CASE draft[e].step \in {"update", "archive"}
    <3>1. draft[e].report \in Reports /\ draft[e].report # r
      BY <1>1, <2>1, <2>2 DEF DraftIsSound
    <3>2. reports'[draft[e].report] = reports[draft[e].report]
      BY <1>3, <3>1 DEF ReportsAreSound
    <3> QED
      BY <2>1, <3>1, <3>2 DEF DraftIsSound
  <2> QED
    BY <2>1, <2>2 DEF DraftIsSound
<1> QED
  BY <1>1, <1>3, <1>4, <1>5 DEF ReportsAreSound

\* An update is checked with the row as it is.
LEMMA BeginUpdateIsSound ==
  ASSUME ReportsAreSound, NEW d \in Drafters, BeginUpdate(d)
  PROVE  ReportsAreSound'
<1>1. PICK r \in Reports : \E change \in Changes :
        /\ IsActive(r)
        /\ DOMAIN change # {"kind"} =>
             DefaultsFit(Candidate(reports[r], change).schema, Candidate(reports[r], change).defaults)
        /\ draft' = [draft EXCEPT ![d] = [step |-> "update", report |-> r, change |-> change]]
        /\ UNCHANGED <<reports, runs, going, mixed>>
  BY DEF BeginUpdate
<1>2. PICK change \in Changes :
        /\ IsActive(r)
        /\ DOMAIN change # {"kind"} =>
             DefaultsFit(Candidate(reports[r], change).schema, Candidate(reports[r], change).defaults)
        /\ draft' = [draft EXCEPT ![d] = [step |-> "update", report |-> r, change |-> change]]
        /\ UNCHANGED <<reports, runs, going, mixed>>
  BY <1>1
<1>3. reports[r].state # "none"
  BY <1>2 DEF IsActive
<1>4. r \in mixed \/ DefaultsFit(Candidate(reports[r], change).schema,
                                 Candidate(reports[r], change).defaults)
  <2>1. CASE DOMAIN change = {"kind"}
    BY <1>3, <2>1 DEF Candidate, ReportsAreSound
  <2> QED
    BY <1>2, <2>1
<1>5. DraftIsSound(d)'
  BY <1>2, <1>3, <1>4 DEF DraftIsSound, ReportsAreSound
<1>6. ASSUME NEW e \in Drafters, e # d PROVE DraftIsSound(e)'
  BY <1>2, <1>6 DEF DraftIsSound, ReportsAreSound
<1> QED
  BY <1>2, <1>5, <1>6 DEF ReportsAreSound

\* Those whose reading is overtaken are the others that update the template,
\* and it is mixed then.
LEMMA CommitUpdateIsSound ==
  ASSUME ReportsAreSound, NEW d \in Drafters, CommitUpdate(d)
  PROVE  ReportsAreSound'
<1>1. PICK r \in Reports : r = draft[d].report
  BY DEF ReportsAreSound, DraftIsSound, CommitUpdate
<1>2. PICK change \in Changes : change = draft[d].change
  BY DEF ReportsAreSound, DraftIsSound, CommitUpdate
<1>3. /\ reports' = [reports EXCEPT ![r] = Written(reports[r], change)]
      /\ mixed' = IF Overlap(d, r) THEN mixed \cup {r} ELSE mixed
      /\ draft' = [draft EXCEPT ![d] = Free]
  BY <1>1, <1>2 DEF CommitUpdate
<1>4. /\ reports[r].state # "none" /\ IsReport(reports[r])
      /\ r \in mixed \/ DefaultsFit(Candidate(reports[r], change).schema,
                                    Candidate(reports[r], change).defaults)
  BY <1>1, <1>2 DEF ReportsAreSound, DraftIsSound, CommitUpdate
<1> DEFINE row == Written(reports[r], change)
<1>5. /\ IsReport(row) /\ row.state = reports[r].state
      /\ r \in mixed \/ DefaultsFit(row.schema, row.defaults)
  BY <1>4, WrittenIsCandidate
<1> HIDE DEF row
<1>6. reports' = [reports EXCEPT ![r] = row] /\ mixed \subseteq mixed'
  BY <1>3 DEF row
<1>7. ASSUME NEW x \in Reports
      PROVE  /\ IsReport(reports'[x])
             /\ reports'[x].state = "none" \/ x \in mixed'
                  \/ DefaultsFit(reports'[x].schema, reports'[x].defaults)
  BY <1>5, <1>6 DEF ReportsAreSound
<1>8. ASSUME NEW e \in Drafters PROVE DraftIsSound(e)'
  <2>1. CASE e = d
    <3>1. draft'[e].step = "free"
      BY <1>3, <2>1 DEF ReportsAreSound, Free
    <3> QED
      BY <3>1 DEF DraftIsSound
  <2>2. CASE e # d
    <3>1. DraftIsSound(e) /\ draft'[e] = draft[e]
      BY <1>3, <2>2 DEF ReportsAreSound
    <3>2. CASE draft[e].step \in {"update", "archive"} /\ draft[e].report = r
      <4>1. reports'[r].state # "none"
        BY <1>4, <1>5, <1>6 DEF ReportsAreSound
      <4>2. draft[e].step = "update" => r \in mixed'
        BY <1>3, <2>2, <3>2 DEF Overlap
      <4> QED
        BY <3>1, <3>2, <4>1, <4>2 DEF DraftIsSound
    <3>3. CASE draft[e].step \in {"update", "archive"} /\ draft[e].report # r
      <4>1. reports'[draft[e].report] = reports[draft[e].report]
        BY <1>6, <3>1, <3>3 DEF ReportsAreSound, DraftIsSound
      <4> QED
        BY <1>6, <3>1, <4>1 DEF DraftIsSound
    <3>4. CASE draft[e].step \notin {"update", "archive"}
      BY <3>1, <3>4 DEF DraftIsSound
    <3> QED
      BY <3>2, <3>3, <3>4
  <2> QED
    BY <2>1, <2>2
<1> QED
  BY <1>3, <1>6, <1>7, <1>8 DEF ReportsAreSound

\* Archiving changes the state alone.
LEMMA ArchiveReportIsSound ==
  ASSUME ReportsAreSound, NEW d \in Drafters, BeginArchiveReport(d) \/ CommitArchiveReport(d)
  PROVE  ReportsAreSound'
<1>1. CASE BeginArchiveReport(d)
  <2>1. PICK r \in Reports :
          /\ IsActive(r) /\ UNCHANGED <<reports, runs, going, mixed>>
          /\ draft' = [draft EXCEPT ![d] = [step |-> "archive", report |-> r]]
    BY <1>1 DEF BeginArchiveReport
  <2>2. DraftIsSound(d)'
    BY <2>1 DEF DraftIsSound, ReportsAreSound, IsActive
  <2>3. ASSUME NEW e \in Drafters, e # d PROVE DraftIsSound(e)'
    BY <2>1, <2>3 DEF DraftIsSound, ReportsAreSound
  <2> QED
    BY <2>1, <2>2, <2>3 DEF ReportsAreSound
<1>2. CASE CommitArchiveReport(d)
  <2>1. PICK r \in Reports : r = draft[d].report
    BY <1>2 DEF ReportsAreSound, DraftIsSound, CommitArchiveReport
  <2> DEFINE row == [reports[r] EXCEPT !.state = "archived"]
  <2>2. /\ reports' = [reports EXCEPT ![r] = row]
        /\ draft' = [draft EXCEPT ![d] = Free] /\ mixed' = mixed
    BY <1>2, <2>1 DEF CommitArchiveReport
  <2>3. /\ IsReport(reports[r]) /\ reports[r].state # "none"
        /\ r \in mixed \/ DefaultsFit(reports[r].schema, reports[r].defaults)
    BY <1>2, <2>1 DEF ReportsAreSound, DraftIsSound, CommitArchiveReport
  <2>4. /\ IsReport(row) /\ row.state = "archived"
        /\ row.schema = reports[r].schema /\ row.defaults = reports[r].defaults
    BY <2>3 DEF IsReport
  <2> HIDE DEF row
  <2>5. ASSUME NEW x \in Reports
        PROVE  /\ IsReport(reports'[x])
               /\ reports'[x].state = "none" \/ x \in mixed'
                    \/ DefaultsFit(reports'[x].schema, reports'[x].defaults)
    BY <2>2, <2>3, <2>4 DEF ReportsAreSound
  <2>6. ASSUME NEW e \in Drafters PROVE DraftIsSound(e)'
    <3>1. CASE e = d
      <4>1. draft'[e].step = "free"
        BY <2>2, <3>1 DEF ReportsAreSound, Free
      <4> QED
        BY <4>1 DEF DraftIsSound
    <3>2. CASE e # d
      <4>1. DraftIsSound(e) /\ draft'[e] = draft[e]
        BY <2>2, <3>2 DEF ReportsAreSound
      <4>2. CASE draft[e].step \in {"update", "archive"}
        <5>1. /\ reports'[draft[e].report].state # "none"
              /\ reports'[draft[e].report].schema = reports[draft[e].report].schema
              /\ reports'[draft[e].report].defaults = reports[draft[e].report].defaults
          BY <2>2, <2>4, <4>1, <4>2 DEF DraftIsSound, ReportsAreSound
        <5> QED
          BY <2>2, <4>1, <5>1 DEF DraftIsSound, Candidate
      <4> QED
        BY <4>1, <4>2 DEF DraftIsSound
    <3> QED
      BY <3>1, <3>2
  <2> QED
    BY <2>2, <2>5, <2>6 DEF ReportsAreSound
<1> QED
  BY <1>1, <1>2

\* A step that changes neither a template nor an update
LEMMA RunsKeepReports ==
  ASSUME ReportsAreSound, UNCHANGED <<reports, draft, mixed>>
  PROVE  ReportsAreSound'
BY DEF ReportsAreSound, DraftIsSound

\* Every step keeps the templates sound.
LEMMA ReportNextIsSound ==
  ReportsAreSound /\ [ReportNext]_reportVars => ReportsAreSound'
<1> SUFFICES ASSUME ReportsAreSound, [ReportNext]_reportVars PROVE ReportsAreSound'
  OBVIOUS
<1>1. CASE UNCHANGED reportVars
  BY <1>1, RunsKeepReports DEF reportVars
<1>2. ASSUME NEW d \in Drafters,
             \/ CreateReport(d) \/ BeginUpdate(d) \/ CommitUpdate(d)
             \/ BeginArchiveReport(d) \/ CommitArchiveReport(d)
      PROVE  ReportsAreSound'
  BY <1>2, CreateReportIsSound, BeginUpdateIsSound, CommitUpdateIsSound, ArchiveReportIsSound
<1>3. ASSUME NEW g \in Runners, BeginRun(g) \/ CommitRun(g) \/ FailRun(g)
      PROVE  ReportsAreSound'
  BY <1>3, RunsKeepReports DEF BeginRun, CommitRun, FailRun
<1>4. CASE ArchiveRun
  BY <1>4, RunsKeepReports DEF ArchiveRun
<1> QED
  BY <1>1, <1>2, <1>3, <1>4 DEF ReportNext

\* What an update writes has been checked with what the template keeps, as
\* long as no other update of it is under way.
THEOREM ReportsAreAlwaysSound == ReportSpec => []ReportsAreSound
BY ReportInitIsSound, ReportNextIsSound, PTL DEF ReportSpec

\* The defaults of a template pass the check of a run without parameters, however
\* its schema and its defaults were changed, unless two updates of it overlapped.
THEOREM DefaultsPassHolds == ReportSpec => []DefaultsPass
<1>1. ReportsAreSound => DefaultsPass
  <2> SUFFICES ASSUME ReportsAreSound, NEW r \in Reports \ mixed, IsActive(r),
                      reports[r].defaults # NoDefaults
               PROVE  Fits(reports[r].schema, Merged(reports[r].defaults, NoParameters))
    BY DEF DefaultsPass
  <2>1. reports[r].schema \in Schemas /\ DefaultsFit(reports[r].schema, reports[r].defaults)
    BY DEF ReportsAreSound, IsReport, IsActive
  <2> QED
    BY <2>1, DefaultsAreMerged
<1> QED
  BY <1>1, ReportsAreAlwaysSound, PTL

-----------------------------------------------------------------------------
(* Form layouts and the linked card *)

\* A section spans quarters of a card, its items quarters of the section: an
\* item stays inside its section, in columns and in rows.
LEMMA ScaledIsInside ==
  ASSUME NEW k \in {1, 2, 3, 4, 6, 9, 12}, NEW low \in Nat, NEW n \in Nat, low + n <= 12
  PROVE  /\ k * low \in Nat /\ k * n \in Nat
         /\ k * low + k * n <= 12 * k
         /\ low + n <= 4 => k * low + k * n <= 4 * k
<1>1. CASE k = 1  BY <1>1
<1>2. CASE k = 2  BY <1>2
<1>3. CASE k = 3  BY <1>3
<1>4. CASE k = 4  BY <1>4
<1>5. CASE k = 6  BY <1>5
<1>6. CASE k = 9  BY <1>6
<1>7. CASE k = 12  BY <1>7
<1> QED
  BY <1>1, <1>2, <1>3, <1>4, <1>5, <1>6, <1>7

\* What does not reach another does not reach it in a larger unit.
LEMMA ScaledIsApart ==
  ASSUME NEW k \in {1, 2, 3, 4, 6, 9, 12}, NEW low \in Nat, NEW n \in Nat, NEW next \in Nat,
         low + n <= next
  PROVE  k * low + k * n <= k * next
<1>1. CASE k = 1  BY <1>1
<1>2. CASE k = 2  BY <1>2
<1>3. CASE k = 3  BY <1>3
<1>4. CASE k = 4  BY <1>4
<1>5. CASE k = 6  BY <1>5
<1>6. CASE k = 9  BY <1>6
<1>7. CASE k = 12  BY <1>7
<1> QED
  BY <1>1, <1>2, <1>3, <1>4, <1>5, <1>6, <1>7

\* The rectangles a form layout may have
InCells(rect) == /\ rect.column \in 1..12 /\ rect.span \in {3, 6, 9, 12}
                 /\ rect.column + rect.span <= 13
                 /\ rect.row \in 1..4 /\ rect.rows \in 1..4 /\ rect.row + rect.rows <= 5

\* Counted from 1 and inside the grid are the rectangles the schema and
\* validate_form_layout_geometry let through.
LEMMA GridIsCells ==
  ASSUME NEW rect, CountsFromOne(rect), InGrid(rect)
  PROVE  InCells(rect)
<1>1. /\ rect.row \in Nat \ {0} /\ rect.rows \in Nat \ {0}
      /\ rect.column \in Nat \ {0} /\ rect.span \in {3, 6, 9, 12}
  BY DEF CountsFromOne, InGrid
<1>2. rect.column + rect.span - 1 <= 12 /\ rect.row + rect.rows - 1 <= 4
  BY DEF InGrid
<1> QED
  BY <1>1, <1>2 DEF InCells

\* The part of a linked card that an item of a section is given
Placed(s, item) ==
  [column |-> 12 * (s.column - 1) + s.span * (item.column - 1), span |-> s.span * item.span,
   row |-> 4 * (s.row - 1) + s.rows * (item.row - 1), rows |-> s.rows * item.rows]

\* It is inside the part of its section.
LEMMA PlacedIsInside ==
  ASSUME NEW s, NEW item, InCells(s), InCells(item)
  PROVE  LET p == Placed(s, item)
         IN /\ p.column \in Nat /\ p.span \in Nat /\ p.row \in Nat /\ p.rows \in Nat
            /\ 12 * (s.column - 1) <= p.column
            /\ p.column + p.span <= 12 * (s.column + s.span - 1)
            /\ 4 * (s.row - 1) <= p.row
            /\ p.row + p.rows <= 4 * (s.row + s.rows - 1)
<1>1. /\ s.span * (item.column - 1) \in Nat /\ s.span * item.span \in Nat
      /\ s.span * (item.column - 1) + s.span * item.span <= 12 * s.span
  <2>1. /\ s.span \in {1, 2, 3, 4, 6, 9, 12} /\ item.column - 1 \in Nat /\ item.span \in Nat
        /\ (item.column - 1) + item.span <= 12
    BY DEF InCells
  <2> QED
    BY ONLY <2>1, ScaledIsInside
<1>2. /\ s.rows * (item.row - 1) \in Nat /\ s.rows * item.rows \in Nat
      /\ s.rows * (item.row - 1) + s.rows * item.rows <= 4 * s.rows
  <2>1. /\ s.rows \in {1, 2, 3, 4, 6, 9, 12} /\ item.row - 1 \in Nat /\ item.rows \in Nat
        /\ (item.row - 1) + item.rows <= 4
    BY DEF InCells
  <2> QED
    BY ONLY <2>1, ScaledIsInside
<1> DEFINE x == s.span * (item.column - 1)
           w == s.span * item.span
           y == s.rows * (item.row - 1)
           h == s.rows * item.rows
<1>3. Placed(s, item) = [column |-> 12 * (s.column - 1) + x, span |-> w,
                         row |-> 4 * (s.row - 1) + y, rows |-> h]
  BY DEF Placed
<1>4. x \in Nat /\ w \in Nat /\ x + w <= 12 * s.span
  BY <1>1
<1>5. y \in Nat /\ h \in Nat /\ y + h <= 4 * s.rows
  BY <1>2
<1> HIDE DEF x, w, y, h
<1> QED
  BY <1>3, <1>4, <1>5 DEF InCells

\* Items that are apart in their section are apart on the card.
LEMMA PlacedTogetherApart ==
  ASSUME NEW s, NEW a, NEW b, InCells(s), InCells(a), InCells(b), Apart(a, b)
  PROVE  Apart(Placed(s, a), Placed(s, b))
<1>1. ASSUME NEW c, NEW d, InCells(c), InCells(d), c.column + c.span <= d.column
      PROVE  s.span * (c.column - 1) + s.span * c.span <= s.span * (d.column - 1)
  <2>1. /\ s.span \in {1, 2, 3, 4, 6, 9, 12} /\ c.column - 1 \in Nat /\ c.span \in Nat
        /\ d.column - 1 \in Nat /\ (c.column - 1) + c.span <= d.column - 1
    BY <1>1 DEF InCells
  <2> QED
    BY ONLY <2>1, ScaledIsApart
<1>2. ASSUME NEW c, NEW d, InCells(c), InCells(d), c.row + c.rows <= d.row
      PROVE  s.rows * (c.row - 1) + s.rows * c.rows <= s.rows * (d.row - 1)
  <2>1. /\ s.rows \in {1, 2, 3, 4, 6, 9, 12} /\ c.row - 1 \in Nat /\ c.rows \in Nat
        /\ d.row - 1 \in Nat /\ (c.row - 1) + c.rows <= d.row - 1
    BY <1>2 DEF InCells
  <2> QED
    BY ONLY <2>1, ScaledIsApart
<1>3. ASSUME NEW c, NEW d, InCells(c), InCells(d)
      PROVE  /\ s.span * (c.column - 1) \in Nat /\ s.span * c.span \in Nat
             /\ s.span * (d.column - 1) \in Nat
             /\ s.rows * (c.row - 1) \in Nat /\ s.rows * c.rows \in Nat
             /\ s.rows * (d.row - 1) \in Nat
  <2>1. /\ s.span \in Nat /\ s.rows \in Nat
        /\ c.column - 1 \in Nat /\ c.span \in Nat /\ c.row - 1 \in Nat /\ c.rows \in Nat
        /\ d.column - 1 \in Nat /\ d.row - 1 \in Nat
    BY <1>3 DEF InCells
  <2>2. \A m, n \in Nat : m * n \in Nat
    OBVIOUS
  <2> QED
    BY ONLY <2>1, <2>2
<1>4. ASSUME NEW c, NEW d, InCells(c), InCells(d), c.column + c.span <= d.column
      PROVE  Placed(s, c).column + Placed(s, c).span <= Placed(s, d).column
  <2> DEFINE x == s.span * (c.column - 1)
             w == s.span * c.span
             z == s.span * (d.column - 1)
  <2>1. x \in Nat /\ w \in Nat /\ z \in Nat /\ x + w <= z
    BY <1>1, <1>3, <1>4
  <2>2. /\ Placed(s, c).column = 12 * (s.column - 1) + x /\ Placed(s, c).span = w
        /\ Placed(s, d).column = 12 * (s.column - 1) + z
    BY DEF Placed
  <2>3. s.column \in Nat
    BY DEF InCells
  <2> HIDE DEF x, w, z
  <2> QED
    BY <2>1, <2>2, <2>3
<1>5. ASSUME NEW c, NEW d, InCells(c), InCells(d), c.row + c.rows <= d.row
      PROVE  Placed(s, c).row + Placed(s, c).rows <= Placed(s, d).row
  <2> DEFINE x == s.rows * (c.row - 1)
             w == s.rows * c.rows
             z == s.rows * (d.row - 1)
  <2>1. x \in Nat /\ w \in Nat /\ z \in Nat /\ x + w <= z
    BY <1>2, <1>3, <1>5
  <2>2. /\ Placed(s, c).row = 4 * (s.row - 1) + x /\ Placed(s, c).rows = w
        /\ Placed(s, d).row = 4 * (s.row - 1) + z
    BY DEF Placed
  <2>3. s.row \in Nat
    BY DEF InCells
  <2> HIDE DEF x, w, z
  <2> QED
    BY <2>1, <2>2, <2>3
<1> QED
  BY <1>4, <1>5 DEF Apart

\* Items of sections that are apart are apart.
LEMMA PlacedAsideApart ==
  ASSUME NEW s, NEW r, NEW a, NEW b, InCells(s), InCells(r), InCells(a), InCells(b), Apart(s, r)
  PROVE  Apart(Placed(s, a), Placed(r, b))
<1> DEFINE p == Placed(s, a)
           q == Placed(r, b)
<1>1. /\ p.column \in Nat /\ p.span \in Nat /\ p.row \in Nat /\ p.rows \in Nat
      /\ 12 * (s.column - 1) <= p.column /\ p.column + p.span <= 12 * (s.column + s.span - 1)
      /\ 4 * (s.row - 1) <= p.row /\ p.row + p.rows <= 4 * (s.row + s.rows - 1)
  BY PlacedIsInside
<1>2. /\ q.column \in Nat /\ q.span \in Nat /\ q.row \in Nat /\ q.rows \in Nat
      /\ 12 * (r.column - 1) <= q.column /\ q.column + q.span <= 12 * (r.column + r.span - 1)
      /\ 4 * (r.row - 1) <= q.row /\ q.row + q.rows <= 4 * (r.row + r.rows - 1)
  BY PlacedIsInside
<1>3. /\ s.column \in Nat /\ s.span \in Nat /\ s.row \in Nat /\ s.rows \in Nat
      /\ r.column \in Nat /\ r.span \in Nat /\ r.row \in Nat /\ r.rows \in Nat
  BY DEF InCells
<1> HIDE DEF p, q
<1>4. Apart(p, q)
  BY <1>1, <1>2, <1>3 DEF Apart
<1> QED
  BY <1>4 DEF p, q

\* A form that passes the validation fits on the linked card.
LEMMA ValidFormFits ==
  ASSUME NEW sections \in SavedForms, ValidForm(sections)
  PROVE  LET placed == Expanded(sections)
         IN /\ AllApart(placed)
            /\ \A p \in DOMAIN placed : /\ placed[p].column >= 0 /\ placed[p].row >= 0
                                        /\ placed[p].column + placed[p].span <= 144
                                        /\ placed[p].row + placed[p].rows <= 16
<1> DEFINE placed == Expanded(sections)
<1>1. \A k \in DOMAIN sections : InCells(sections[k])
  BY PrintAssumption, GridIsCells DEF ValidForm
<1>2. \A k \in DOMAIN sections : \A i \in DOMAIN sections[k].items : InCells(sections[k].items[i])
  BY PrintAssumption, GridIsCells DEF ValidForm
<1>3. DOMAIN placed = Places(sections)
  BY DEF Expanded
<1>4. ASSUME NEW p \in Places(sections)
      PROVE  /\ p[1] \in DOMAIN sections /\ p[2] \in DOMAIN sections[p[1]].items
             /\ p = <<p[1], p[2]>>
             /\ LET cell == Placed(sections[p[1]], sections[p[1]].items[p[2]])
                IN /\ placed[p].column = cell.column /\ placed[p].span = cell.span
                   /\ placed[p].row = cell.row /\ placed[p].rows = cell.rows
  <2>1. p[1] \in DOMAIN sections /\ p[2] \in DOMAIN sections[p[1]].items /\ p = <<p[1], p[2]>>
    BY DEF Places
  <2> QED
    BY <2>1 DEF Expanded, ItemAt, Placed
<1>5. ASSUME NEW p \in Places(sections)
      PROVE  /\ placed[p].column >= 0 /\ placed[p].row >= 0
             /\ placed[p].column + placed[p].span <= 144
             /\ placed[p].row + placed[p].rows <= 16
  <2> DEFINE s == sections[p[1]]
             cell == Placed(s, sections[p[1]].items[p[2]])
  <2>1. InCells(s) /\ InCells(sections[p[1]].items[p[2]])
    BY <1>1, <1>2, <1>4
  <2>2. /\ cell.column \in Nat /\ cell.span \in Nat /\ cell.row \in Nat /\ cell.rows \in Nat
        /\ cell.column + cell.span <= 12 * (s.column + s.span - 1)
        /\ cell.row + cell.rows <= 4 * (s.row + s.rows - 1)
    BY <2>1, PlacedIsInside
  <2>3. /\ placed[p].column = cell.column /\ placed[p].span = cell.span
        /\ placed[p].row = cell.row /\ placed[p].rows = cell.rows
    BY <1>4
  <2> HIDE DEF cell, placed
  <2> QED
    BY <2>1, <2>2, <2>3 DEF InCells
<1>6. ASSUME NEW p \in Places(sections), NEW q \in Places(sections), p # q
      PROVE  Apart(placed[p], placed[q])
  <2> DEFINE s == sections[p[1]]
             r == sections[q[1]]
             a == sections[p[1]].items[p[2]]
             b == sections[q[1]].items[q[2]]
  <2>1. InCells(s) /\ InCells(r) /\ InCells(a) /\ InCells(b)
    BY <1>1, <1>2, <1>4
  <2>2. CASE p[1] = q[1]
    <3>1. p[2] # q[2]
      BY <1>4, <1>6, <2>2
    <3>2. Apart(a, b)
      BY <1>4, <2>2, <3>1 DEF ValidForm, AllApart
    <3>3. b = s.items[q[2]] /\ a = s.items[p[2]] /\ r = s
      BY <2>2
    <3>4. /\ placed[p].column = Placed(s, a).column /\ placed[p].span = Placed(s, a).span
          /\ placed[p].row = Placed(s, a).row /\ placed[p].rows = Placed(s, a).rows
          /\ placed[q].column = Placed(s, b).column /\ placed[q].span = Placed(s, b).span
          /\ placed[q].row = Placed(s, b).row /\ placed[q].rows = Placed(s, b).rows
      BY <1>4, <3>3
    <3> HIDE DEF s, a, b, r, placed
    <3>5. Apart(Placed(s, a), Placed(s, b))
      BY <2>1, <3>2, PlacedTogetherApart
    <3> QED
      BY <3>4, <3>5 DEF Apart
  <2>3. CASE p[1] # q[1]
    <3>1. Apart(s, r)
      BY <1>4, <2>3 DEF ValidForm, AllApart
    <3>2. Apart(Placed(s, a), Placed(r, b))
      BY <2>1, <3>1, PlacedAsideApart
    <3> QED
      BY <3>2, <1>4 DEF Apart
  <2> QED
    BY <2>2, <2>3
<1> HIDE DEF placed
<1>7. AllApart(placed)
  BY <1>3, <1>6 DEF AllApart
<1>8. \A p \in DOMAIN placed : /\ placed[p].column >= 0 /\ placed[p].row >= 0
                               /\ placed[p].column + placed[p].span <= 144
                               /\ placed[p].row + placed[p].rows <= 16
  BY <1>3, <1>5
<1> QED
  BY <1>7, <1>8 DEF placed

-----------------------------------------------------------------------------
(* Print views *)

\* What is stored is a layout whose items have ids of their own; its fields are
\* of the template's card, and its sections hold nothing but fields and numbers.
ViewIsSound(v) ==
  /\ v = Layout(v.items, v.sections, v.overlays)
  /\ OneOfEachId(v.items)
  /\ \A item \in v.items : item.kind = "field" => item.id \in AllFields
  /\ \A cell \in v.sections : /\ cell.kind \in {"field", "page_number"}
                              /\ cell.kind = "field" => cell.id \in AllFields

PrintIsSound ==
  /\ printFields \subseteq AllFields
  /\ form # NoForm => form \in SavedForms
  /\ savedAs = "layout" => form \in SavedForms /\ ValidForm(form)
  /\ view # NoView => ViewIsSound(view)

\* The cells of derived sections are those of the items of the flow.
LEMMA CellsOfFlow ==
  ASSUME NEW items, NEW fields \in SUBSET AllFields, ItemsAccepted(items, fields)
  PROVE  /\ OneOfEachId(items)
         /\ \A item \in items : item.kind = "field" => item.id \in AllFields
         /\ \A cell \in Derived(items) \cup StudioSections(items) :
              /\ cell.kind \in {"field", "page_number"}
              /\ cell.kind = "field" => cell.id \in AllFields
<1>1. OneOfEachId(items) /\ \A item \in items : item.kind = "field" => item.id \in AllFields
  BY DEF ItemsAccepted
<1>2. ASSUME NEW cell \in Derived(items) \cup StudioSections(items)
      PROVE  \E item \in Flow(items) : cell.kind = item.kind /\ cell.id = item.id
  BY <1>2 DEF Derived, StudioSections, InSection
<1>3. \A item \in Flow(items) : item \in items /\ item.kind \in {"field", "page_number"}
  BY DEF Flow, Kinds
<1> QED
  BY <1>1, <1>2, <1>3

\* What StoreDerived stores is sound.
LEMMA StoreDerivedIsSound ==
  ASSUME NEW items, NEW overlays, printFields \subseteq AllFields,
         StoreDerived(items, overlays, printFields)
  PROVE  ViewIsSound(view')
<1>1. ItemsAccepted(items, printFields)
      /\ view' = Layout(items, Derived(items), MergedOverlays(overlays, Kinds(items, {"line"})))
  BY DEF StoreDerived
<1>2. view'.items = items /\ view'.sections = Derived(items)
      /\ view' = Layout(view'.items, view'.sections, view'.overlays)
  BY <1>1 DEF Layout
<1> QED
  BY <1>1, <1>2, CellsOfFlow DEF ViewIsSound

\* What Store stores is sound if its sections hold only fields and numbers.
LEMMA StoreIsSound ==
  ASSUME NEW items, NEW sections, NEW overlays, printFields \subseteq AllFields,
         Store(Layout(items, sections, overlays), printFields),
         \A cell \in sections : cell.kind \in {"field", "page_number"}
  PROVE  ViewIsSound(view')
<1> DEFINE layout == Layout(items, sections, overlays)
<1>1. layout.items = items /\ layout.sections = sections /\ layout.overlays = overlays
  BY DEF Layout
<1>2. /\ ItemsAccepted(items, printFields) /\ SectionsAccepted(sections, printFields)
      /\ view' = layout
  BY <1>1 DEF Store
<1>3. /\ OneOfEachId(items) /\ \A item \in items : item.kind = "field" => item.id \in AllFields
      /\ \A cell \in sections : cell.kind = "field" => cell.id \in AllFields
  BY <1>2 DEF ItemsAccepted, SectionsAccepted
<1> QED
  BY <1>1, <1>2, <1>3 DEF ViewIsSound

\* The studio saves sections it was sent, or derives them.
LEMMA SaveDraftIsSound ==
  ASSUME PrintIsSound, NEW items, NEW sections, NEW overlays, SaveDraft(items, sections, overlays),
         \A cell \in sections : cell.kind \in {"field", "page_number"}
  PROVE  PrintIsSound'
<1> DEFINE flow == IF sections # {} THEN sections ELSE StudioSections(items)
           above == IF overlays # {} THEN overlays ELSE Kinds(items, {"line"})
<1>1. Store(Layout(items, flow, above), printFields) /\ UNCHANGED <<printFields, form, savedAs>>
  BY DEF SaveDraft, StudioLayout
<1>2. \A cell \in flow : cell.kind \in {"field", "page_number"}
  BY DEF StudioSections, InSection, Flow, Kinds
<1>3. ViewIsSound(view')
  <2> HIDE DEF flow, above
  <2> QED
    BY <1>1, <1>2, StoreIsSound DEF PrintIsSound
<1> QED
  BY <1>1, <1>3 DEF PrintIsSound, AllFields

\* It holds at the start.
LEMMA PrintInitIsSound == PrintInit => PrintIsSound
BY DEF PrintInit, PrintIsSound

\* The server's operations keep it.
LEMMA ServerIsSound ==
  ASSUME PrintIsSound,
         CreateDefaultView \/ CreateFromClient \/ SyncView \/ ConvertView \/ SaveForm
           \/ StoreSchema \/ ArchivePrintField
  PROVE  PrintIsSound'
<1>1. ASSUME NEW items, NEW overlays, StoreDerived(items, overlays, printFields),
             UNCHANGED <<printFields, form, savedAs>>
      PROVE  PrintIsSound'
  BY <1>1, StoreDerivedIsSound DEF PrintIsSound, AllFields
<1>2. CASE CreateDefaultView
  BY <1>1, <1>2 DEF CreateDefaultView
<1>3. CASE CreateFromClient
  BY <1>1, <1>3 DEF CreateFromClient
<1>4. CASE SyncView
  <2>1. ViewIsSound(view) /\ UNCHANGED <<printFields, form, savedAs>>
        /\ Store(Layout(Synced(view.items, ResolvedForm), view.sections, view.overlays), printFields)
    BY <1>4 DEF SyncView, PrintIsSound
  <2>2. ViewIsSound(view')
    BY <2>1, StoreIsSound DEF PrintIsSound, ViewIsSound
  <2> QED
    BY <2>1, <2>2 DEF PrintIsSound, AllFields
<1>5. CASE ConvertView
  BY <1>1, <1>5 DEF ConvertView
<1>6. CASE SaveForm
  BY <1>6 DEF SaveForm, PrintIsSound
<1>7. CASE ArchivePrintField
  BY <1>7 DEF ArchivePrintField, PrintIsSound
<1>8. CASE StoreSchema
  BY <1>8 DEF StoreSchema, PrintIsSound
<1> QED
  BY <1>2, <1>3, <1>4, <1>5, <1>6, <1>7, <1>8

\* The studio's operations keep it.
LEMMA StudioIsSound ==
  ASSUME PrintIsSound,
         CreateFromStudio \/ AddText \/ AddLine \/ MoveItem \/ ResizeCard \/ RemoveItem
  PROVE  PrintIsSound'
<1>1. CASE CreateFromStudio
  BY <1>1, SaveDraftIsSound DEF CreateFromStudio
<1>2. CASE ~CreateFromStudio
  <2>1. CanEdit /\ \E items, overlays : SaveDraft(items, view.sections, overlays)
    BY <1>2 DEF AddText, AddLine, MoveItem, ResizeCard, RemoveItem
  <2>2. \A cell \in view.sections : cell.kind \in {"field", "page_number"}
    BY <2>1 DEF CanEdit, PrintIsSound, ViewIsSound
  <2> QED
    BY <2>1, <2>2, SaveDraftIsSound
<1> QED
  BY <1>1, <1>2

\* Every step of the server, of a client and of the studio keeps the view sound.
LEMMA PrintNextIsSound ==
  ASSUME PrintIsSound, [PrintNext]_printVars
  PROVE  PrintIsSound'
<1>1. CASE UNCHANGED printVars
  BY <1>1 DEF printVars, PrintIsSound
<1>2. CASE PrintNext
  BY <1>2, ServerIsSound, StudioIsSound DEF PrintNext
<1> QED
  BY <1>1, <1>2

\* Whoever wrote a view - the server, a client, a synchronization, a conversion
\* or the studio - its items have ids of their own, its fields are fields of the
\* card, and its sections hold nothing else; only a form that was last saved as a
\* layout is known to be valid.
THEOREM PrintIsAlwaysSound == PrintSpec => []PrintIsSound
BY PrintInitIsSound, PrintNextIsSound, PTL DEF PrintSpec

\* While the form of a template is one that was saved as a layout, its items stay
\* inside a linked card and do not overlap on it, for any sections and items,
\* whatever unvalidated form was stored before.
THEOREM LinkedFormAlwaysFits == PrintSpec => []LinkedFormFits
<1>1. PrintIsSound => LinkedFormFits
  BY ValidFormFits DEF PrintIsSound, LinkedFormFits
<1> QED
  BY <1>1, PrintIsAlwaysSound, PTL

\* What a document shows besides fields is among the print-only items and the
\* items of the form.
LEMMA PrintedIsKept ==
  ASSUME NEW v, ViewIsSound(v)
  PROVE  Printed(v) \ AllFields \subseteq FormIds(ResolvedForm) \cup Ids(PrintOnly(v))
<1> DEFINE own(items) == {item \in items : item.kind \notin {"field", "card_layout"}}
           kept == MergedOverlays(MergedOverlays(v.overlays, own(v.items)), own(v.sections))
<1>1. PrintOnly(v) = kept
  BY DEF PrintOnly
<1>2. \A first, second : Ids(first) \cup Ids(second) \subseteq Ids(MergedOverlays(first, second))
  BY DEF Ids, MergedOverlays
<1>3. Ids(v.overlays) \cup Ids(own(v.items)) \cup Ids(own(v.sections)) \subseteq Ids(kept)
  <2> HIDE DEF own
  <2> QED
    BY <1>2
<1>4. CASE IsLinked(v)
  BY <1>4 DEF Printed, LinkedItems
<1>5. CASE ~IsLinked(v)
  <2>1. \A item \in v.items : (item.kind = "field" /\ item.id \in AllFields) \/ item \in own(v.items)
    BY <1>5 DEF IsLinked, ViewIsSound
  <2>2. \A cell \in v.sections : (cell.kind = "field" /\ cell.id \in AllFields) \/ cell \in own(v.sections)
    BY DEF ViewIsSound
  <2>3. \A items : \A id \in Ids(items) : \E item \in items : item.id = id
    BY DEF Ids
  <2>4. Ids(v.items) \ AllFields \subseteq Ids(own(v.items))
    BY <2>1 DEF Ids
  <2>5. Ids(v.sections) \ AllFields \subseteq Ids(own(v.sections))
    BY <2>2 DEF Ids
  <2>6. Printed(v) = FlatItems(v)
    BY <1>5 DEF Printed
  <2> HIDE DEF own, kept
  <2> QED
    BY <1>1, <1>3, <2>4, <2>5, <2>6 DEF FlatItems
<1> QED
  BY <1>4, <1>5

\* Converting a view to a linked card loses nothing of what its documents showed
\* besides fields.
THEOREM ConversionAlwaysKeepsPrintOnly == PrintSpec => ConversionKeepsPrintOnly
<1>1. ASSUME PrintIsSound, ConvertView
      PROVE  Printed(view) \ AllFields \subseteq Printed(view')
  <2> DEFINE card == LinkedCard(TopMargin, PageHeight - 2 * TopMargin)
             kept == PrintOnly(view)
             own(items) == {item \in items : item.kind \notin {"field", "card_layout"}}
  <2>1. ViewIsSound(view)
    BY <1>1 DEF ConvertView, PrintIsSound
  <2>2. view' = Layout({card}, Derived({card}), MergedOverlays(kept, Kinds({card}, {"line"})))
    BY <1>1 DEF ConvertView, StoreDerived
  <2>3. view'.items = {card} /\ kept \subseteq view'.overlays
    <3> HIDE DEF card, kept
    <3> QED
      BY <2>2 DEF Layout, MergedOverlays
  <2>4. card.kind = "card_layout"
    BY DEF LinkedCard, Item
  <2>5. IsLinked(view')
    <3> HIDE DEF card, kept
    <3> QED
      BY <2>3, <2>4 DEF IsLinked
  <2>6. view'.overlays \subseteq PrintOnly(view')
    BY DEF PrintOnly, MergedOverlays
  <2>7. Ids(kept) \subseteq Ids(PrintOnly(view'))
    <3> HIDE DEF kept
    <3> QED
      BY <2>3, <2>6 DEF Ids
  <2>8. Printed(view') = FormIds(ResolvedForm) \cup Ids(PrintOnly(view'))
    BY <2>5 DEF Printed, LinkedItems
  <2> QED
    BY <2>1, <2>7, <2>8, PrintedIsKept
<1> QED
  BY <1>1, PrintIsAlwaysSound, PTL DEF PrintSpec, ConversionKeepsPrintOnly

-----------------------------------------------------------------------------
(* Synchronization with the form *)

\* A set of numbers has a least one: the initial segments below them are
\* finite, and strict inclusion of finite sets is well founded.
LEMMA LeastNumber ==
  ASSUME NEW S \in SUBSET Nat, S # {}
  PROVE  \E n \in S : \A m \in S : n <= m
<1> DEFINE T == {1..n : n \in S}
           R == StrictSubsetOrdering(Nat)
<1>1. T \subseteq FiniteSubsetsOf(Nat)
  <2>1. \A n \in Nat : IsFiniteSet(1..n) /\ 1..n \subseteq Nat
    BY FS_Interval
  <2> QED
    BY <2>1 DEF FiniteSubsetsOf
<1>2. T # {}
  OBVIOUS
<1>3. IsWellFoundedOn(R, FiniteSubsetsOf(Nat))
  BY FS_StrictSubsetOrderingWellFounded
<1>4. PICK s \in T : \A t \in T : <<t, s>> \notin R
  <2> HIDE DEF T, R
  <2> QED
    BY <1>1, <1>2, <1>3, WFMin
<1>5. PICK n \in S : s = 1..n
  OBVIOUS
<1>6. ASSUME NEW m \in S, ~(n <= m) PROVE FALSE
  <2>1. 1..m \in T /\ 1..m \subseteq 1..n /\ n \in 1..n /\ n \notin 1..m
    BY <1>6
  <2>2. <<1..m, 1..n>> \in R
    BY <1>1, <1>5, <2>1 DEF StrictSubsetOrdering
  <2> QED
    BY <1>4, <1>5, <2>1, <2>2
<1> QED
  BY <1>5, <1>6

\* A bounded set of numbers has a greatest one.
LEMMA GreatestNumber ==
  ASSUME NEW n \in Nat, NEW S \in SUBSET (1..n), S # {}
  PROVE  \E m \in S : \A k \in S : k <= m
<1> DEFINE T == {n - m : m \in S}
<1>1. T \in SUBSET Nat /\ T # {}
  <2>1. \A m \in S : m \in Int /\ n - m \in Nat
    OBVIOUS
  <2>2. PICK m \in S : TRUE
    OBVIOUS
  <2>3. n - m \in T
    BY <2>2
  <2> QED
    BY <2>1, <2>3
<1>2. PICK t \in T : \A u \in T : t <= u
  <2> HIDE DEF T
  <2> QED
    BY <1>1, LeastNumber
<1>3. PICK m \in S : t = n - m
  OBVIOUS
<1>4. ASSUME NEW k \in S PROVE k <= m
  BY <1>2, <1>3
<1> QED
  BY <1>4

\* Sections, and the items of each, are numbered up to some number, perhaps
\* with gaps: the default form leaves out what has no field.
Numbers(sections) ==
  \E n \in Nat : /\ DOMAIN sections \subseteq 1..n
                 /\ \A k \in DOMAIN sections : \E m \in Nat : DOMAIN sections[k].items \subseteq 1..m

LEMMA ResolvedFormIsNumbered ==
  ASSUME PrintIsSound
  PROVE  Numbers(ResolvedForm)
<1>1. CASE form # NoForm
  <2>1. form \in SavedForms /\ ResolvedForm = form
    BY <1>1 DEF PrintIsSound, ResolvedForm
  <2>2. /\ IsList(form) /\ \A s \in DOMAIN form : IsList(form[s].items)
    BY <2>1, PrintAssumption
  <2> QED
    BY <2>1, <2>2 DEF IsList, Numbers
<1>2. CASE form = NoForm
  <2> DEFINE kept(b) == {i \in DOMAIN BlockFields[b] : BlockFields[b][i] \in printFields}
             shown == {b \in DOMAIN BlockFields : kept(b) # {}}
  <2>1. /\ DOMAIN ResolvedForm = shown
        /\ \A b \in shown : DOMAIN ResolvedForm[b].items = kept(b)
    BY <1>2 DEF ResolvedForm, DefaultForm
  <2>2. /\ Len(BlockFields) \in Nat /\ DOMAIN BlockFields = 1..Len(BlockFields)
        /\ \A b \in DOMAIN BlockFields : /\ Len(BlockFields[b]) \in Nat
                                         /\ DOMAIN BlockFields[b] = 1..Len(BlockFields[b])
    BY PrintAssumption DEF IsList
  <2>3. shown \subseteq 1..Len(BlockFields)
    BY <2>2
  <2>4. \A b \in shown : kept(b) \subseteq 1..Len(BlockFields[b]) /\ Len(BlockFields[b]) \in Nat
    BY <2>2
  <2> HIDE DEF kept, shown
  <2> QED
    BY <2>1, <2>2, <2>3, <2>4 DEF Numbers
<1> QED
  BY <1>1, <1>2

\* Of the items with one id there is a last one.
LEMMA LastPlace ==
  ASSUME NEW sections, Numbers(sections), NEW id \in FormIds(sections)
  PROVE  \E q \in Places(sections) :
           /\ ItemAt(sections, q).id = id
           /\ \A r \in Places(sections) : Before(q, r) => ItemAt(sections, r).id # id
<1> DEFINE P == {p \in Places(sections) : ItemAt(sections, p).id = id}
           K == {p[1] : p \in P}
<1>1. \A p \in Places(sections) : /\ p[1] \in DOMAIN sections
                                  /\ p[2] \in DOMAIN sections[p[1]].items
                                  /\ p = <<p[1], p[2]>>
  BY DEF Places
<1>2. P # {}
  BY DEF FormIds
<1>3. PICK n \in Nat : /\ DOMAIN sections \subseteq 1..n
                       /\ \A k \in DOMAIN sections : \E m \in Nat : DOMAIN sections[k].items \subseteq 1..m
  BY DEF Numbers
<1>4. K \in SUBSET (1..n) /\ K # {}
  BY <1>1, <1>2, <1>3
<1>5. PICK k \in K : \A l \in K : l <= k
  <2> HIDE DEF K
  <2> QED
    BY <1>4, GreatestNumber
<1> DEFINE M == {p[2] : p \in {x \in P : x[1] = k}}
<1>6. k \in DOMAIN sections /\ M # {} /\ M \subseteq DOMAIN sections[k].items
  BY <1>1
<1>7. PICK m \in Nat : DOMAIN sections[k].items \subseteq 1..m
  BY <1>3, <1>6
<1>8. PICK i \in M : \A j \in M : j <= i
  <2> HIDE DEF M
  <2> QED
    BY <1>6, <1>7, GreatestNumber
<1>9. PICK q \in P : q[1] = k /\ q[2] = i
  OBVIOUS
<1>10. ASSUME NEW r \in P PROVE ~Before(q, r)
  <2>1. r[1] \in K /\ r[1] <= k
    BY <1>5
  <2>2. r[1] = k => r[2] \in M /\ r[2] <= i
    BY <1>8
  <2>3. k \in 1..n /\ r[1] \in 1..n /\ i \in 1..m
    BY <1>4, <1>6, <1>7, <2>1
  <2>4. r[1] = k => r[2] \in 1..m
    BY <1>6, <1>7, <2>2
  <2> HIDE DEF K, M, P
  <2> QED
    BY <1>9, <2>1, <2>2, <2>3, <2>4 DEF Before
<1> QED
  BY <1>9, <1>10

\* sync_print_view: every id of the form is given to one synchronized item, and
\* what a user has placed or has no source stays.
LEMMA SyncedKeeps ==
  ASSUME NEW items, NEW sections, Numbers(sections), OneOfEachId(items)
  PROVE  /\ \A id \in FormIds(sections) :
              \E item \in Synced(items, sections) : item.sourced /\ item.id = id
         /\ \A item \in items : item.override \/ ~item.sourced => item \in Synced(items, sections)
<1> DEFINE existing(id) == {o \in items : o.sourced /\ o.id = id}
           merged(p) == IF \E o \in existing(p.id) : o.override
                        THEN CHOOSE o \in existing(p.id) : TRUE ELSE p
<1>1. Synced(items, sections) = {merged(p) : p \in LastOfEachId(sections)} \cup Orphans(items, sections)
  BY DEF Synced
<1>2. ASSUME NEW id \in FormIds(sections)
      PROVE  \E p \in LastOfEachId(sections) : p.id = id /\ p.sourced
  <2>1. PICK q \in Places(sections) :
           /\ ItemAt(sections, q).id = id
           /\ \A r \in Places(sections) : Before(q, r) => ItemAt(sections, r).id # id
    BY LastPlace
  <2>2. ProjectedAt(sections, q).id = id /\ ProjectedAt(sections, q).sourced
    BY <2>1 DEF ProjectedAt, Item
  <2> QED
    BY <2>1, <2>2 DEF LastOfEachId
<1>3. ASSUME NEW p, \E o \in existing(p.id) : o.override
      PROVE  merged(p) \in existing(p.id)
  <2>1. merged(p) = CHOOSE o \in existing(p.id) : TRUE
    BY <1>3
  <2>2. \E o : o \in existing(p.id)
    BY <1>3
  <2> HIDE DEF existing, merged
  <2> QED
    BY <2>1, <2>2
<1>4. ASSUME NEW p, ~\E o \in existing(p.id) : o.override
      PROVE  merged(p) = p
  BY <1>4
<1>5. ASSUME NEW id \in FormIds(sections)
      PROVE  \E item \in Synced(items, sections) : item.sourced /\ item.id = id
  <2>1. PICK p \in LastOfEachId(sections) : p.id = id /\ p.sourced
    BY <1>2
  <2>2. merged(p).sourced /\ merged(p).id = id
    <3> HIDE DEF merged
    <3> QED
      BY <1>3, <1>4, <2>1
  <2> HIDE DEF merged
  <2> QED
    BY <1>1, <2>1, <2>2
<1>6. ASSUME NEW item \in items, item.override \/ ~item.sourced
      PROVE  item \in Synced(items, sections)
  <2>1. CASE ~item.sourced \/ item.id \notin FormIds(sections)
    BY <1>1, <2>1 DEF Orphans
  <2>2. CASE item.sourced /\ item.id \in FormIds(sections)
    <3>1. PICK p \in LastOfEachId(sections) : p.id = item.id
      BY <1>2, <2>2
    <3>2. item.override /\ item \in existing(p.id)
      BY <1>6, <2>2, <3>1
    <3>3. existing(p.id) = {item}
      BY <3>2 DEF OneOfEachId
    <3>4. merged(p) = item
      <4>1. merged(p) \in existing(p.id)
        <5> HIDE DEF existing, merged
        <5> QED
          BY <1>3, <3>2
      <4> HIDE DEF existing, merged
      <4> QED
        BY <3>3, <4>1
    <3> HIDE DEF merged
    <3> QED
      BY <1>1, <3>1, <3>4
  <2> QED
    BY <2>1, <2>2
<1> QED
  BY <1>5, <1>6

\* A synchronization leaves every item of the form on the page exactly once,
\* moves no item a user has placed and loses none that has no source.
THEOREM SyncAlwaysKeepsItems == PrintSpec => SyncKeepsItems
<1>1. ASSUME PrintIsSound, SyncView
      PROVE  /\ \A id \in FormIds(ResolvedForm) :
                  Cardinality({item \in view'.items : item.sourced /\ item.id = id}) = 1
             /\ \A item \in view.items :
                  (item.override \/ ~item.sourced) => item \in view'.items
  <2> DEFINE synced == Synced(view.items, ResolvedForm)
  <2>1. OneOfEachId(view.items) /\ Numbers(ResolvedForm)
    BY <1>1, ResolvedFormIsNumbered DEF SyncView, PrintIsSound, ViewIsSound
  <2>2. view'.items = synced /\ OneOfEachId(synced)
    <3> HIDE DEF synced
    <3>1. Store(Layout(synced, view.sections, view.overlays), printFields)
      BY <1>1 DEF SyncView, synced
    <3> QED
      BY <3>1 DEF Store, Layout, ItemsAccepted
  <2>3. ASSUME NEW id \in FormIds(ResolvedForm)
        PROVE  Cardinality({item \in synced : item.sourced /\ item.id = id}) = 1
    <3>1. PICK item \in synced : item.sourced /\ item.id = id
      BY <2>1, SyncedKeeps
    <3> HIDE DEF synced
    <3>2. {o \in synced : o.sourced /\ o.id = id} = {item}
      BY <2>2, <3>1 DEF OneOfEachId
    <3> QED
      BY <3>2, FS_Singleton
  <2>4. \A item \in view.items : (item.override \/ ~item.sourced) => item \in synced
    BY <2>1, SyncedKeeps
  <2> HIDE DEF synced
  <2> QED
    BY <2>2, <2>3, <2>4
<1> QED
  BY <1>1, PrintIsAlwaysSound, PTL DEF PrintSpec, SyncKeepsItems

-----------------------------------------------------------------------------
(* The list of cards *)

\* A card with its rows
DateRow == [live : BOOLEAN, value : Dates \cup {"", None}]
Filled(row) ==
  /\ row = [place |-> row.place, state |-> row.state, name |-> row.name, date |-> row.date]
  /\ row.date \in Seq(DateRow)
SoundCards(cards) == \A e \in cards : /\ e = [c \in ListedCards |-> e[c]]
                                      /\ \A c \in ListedCards : Filled(e[c])

\* The rank that the card has as its data is now
CurrentRank(c) ==
  CASE page.ask.sort = "id" -> 0
    [] page.ask.sort = "name" -> Rank[NameShown(c)]
    [] OTHER -> IF DateCounts(c) THEN Rank[DateShown(c)] ELSE 0

RanksInOrder(a, b, c, d) ==
  \/ a = b /\ c < d
  \/ a # 0 /\ b = 0
  \/ a # 0 /\ b # 0 /\ (IF page.ask.down THEN a > b ELSE a < b)

\* Of a card that has not changed, a date that its template has is active: none
\* was archived since the request began.
DatesAreActive ==
  page.ask.sort = "date" =>
    \A c \in steady.same : KindOf[c] \in kindHas.date => kindHas.active

\* Before the order is known: the cards were selected, and what was read of one
\* that has not changed is so.
GatheredIsSound ==
  /\ page.cards \subseteq ListedCards
  /\ steady.due \subseteq page.cards /\ page.cards \subseteq steady.ever
  /\ page.ask.sort # "id"
  /\ page.step = "rows" => page.ask.sort = "date"
  /\ page.step \in {"rows", "values"} /\ page.ask.sort = "date" =>
       \A c \in page.cards \cap steady.same : KindOf[c] \in page.dated <=> KindOf[c] \in kindHas.date
  /\ page.step = "values" /\ page.ask.sort = "date" =>
       \A c \in page.cards \cap steady.same : page.first[c] = FirstOf(LiveIn(entry[c].date))

\* After it: every card once, those that have not changed in the order of what
\* they have now, and the lines that are printed agree with it.
Listed == {page.order[i] : i \in DOMAIN page.order}
PrintsUpTo(n, k) ==
  /\ k <= n /\ page.order = [i \in 1..n |-> page.order[i]]
  /\ page.printed = [i \in 1..k |-> page.printed[i]]
  /\ Listed \subseteq ListedCards /\ Cardinality(Listed) = n
  /\ steady.due \subseteq Listed /\ Listed \subseteq steady.ever
  /\ \A i, j \in 1..n : i < j /\ page.order[i] \in steady.same /\ page.order[j] \in steady.same =>
       RanksInOrder(CurrentRank(page.order[i]), CurrentRank(page.order[j]),
                    page.order[i], page.order[j])
  /\ \A i \in 1..k :
       /\ page.printed[i].card = page.order[i]
       /\ page.order[i] \in steady.same => ShownRank(page.printed[i]) = CurrentRank(page.order[i])
PrintingIsSound == \E n, k \in Nat : PrintsUpTo(n, k)

PageIsSound ==
  /\ page.ask \in Asks /\ steady.same \subseteq ListedCards /\ DatesAreActive
  /\ page.step \in {"fields", "rows", "values"} => GatheredIsSound
  /\ page.step = "print" =>
       /\ PrintingIsSound
       /\ page = [step |-> "print", ask |-> page.ask, scope |-> page.scope, order |-> page.order,
                  printed |-> page.printed]

DataIsSound ==
  /\ entry = [c \in ListedCards |-> entry[c]] /\ \A c \in ListedCards : Filled(entry[c])
  /\ kindHas = [name |-> kindHas.name, date |-> kindHas.date, active |-> kindHas.active]
  /\ kindHas.active \in BOOLEAN

Ended == {"idle", "failed"}
ListIsSound ==
  /\ DataIsSound
  /\ page.step \in Ended \cup {"select", "fields", "rows", "values", "print"}
  /\ page.step = "idle" => page = NoPage
  /\ page.step \notin Ended => PageIsSound

\* What has not changed has the rank it had.
LEMMA RankStays ==
  ASSUME NEW c \in ListedCards, ListIsSound, page'.ask = page.ask, entry'[c] = entry[c],
         HasDate(kindHas', c) = HasDate(kindHas, c)
  PROVE  CurrentRank(c)' = CurrentRank(c)
<1>1. NameShown(c)' = NameShown(c)
  BY DEF NameShown
<1>2. HasDate(kindHas, c) => kindHas.active /\ kindHas'.active
  BY DEF HasDate
<1>3. HasDate(kindHas, c) => DateShown(c)' = DateShown(c)
  BY <1>2 DEF DateShown
<1>4. DateCounts(c)' = DateCounts(c) /\ (DateCounts(c) => HasDate(kindHas, c))
  BY DEF DateCounts, HasDate
<1> QED
  BY <1>1, <1>3, <1>4 DEF CurrentRank

\* The first of a set of rows is one of them and none comes before it.
LEMMA FirstIsLeast ==
  ASSUME NEW S \in SUBSET (Nat \ {0}), S # {}
  PROVE  FirstOf(S) \in S /\ \A m \in S : FirstOf(S) <= m
BY LeastNumber DEF FirstOf, Min

\* The date to sort by is the one that is shown, if the row that it is shown of
\* is the first one, and none otherwise.
LEMMA FirstDateCounts ==
  ASSUME NEW c \in ListedCards, DataIsSound, kindHas.active
  PROVE  LET cells == entry[c].date
             first == FirstOf(LiveIn(cells))
         IN DateToSortBy(cells, first) = IF ValuedRow(cells) = first THEN DateShown(c) ELSE ""
<1> DEFINE cells == entry[c].date
           live == LiveIn(cells)
           valued == {n \in live : cells[n].value # None}
           first == FirstOf(live)
<1> SUFFICES DateToSortBy(cells, first) = IF ValuedRow(cells) = first THEN DateShown(c) ELSE ""
  OBVIOUS
<1>1. live \in SUBSET (Nat \ {0})
  <2>1. cells \in Seq(DateRow)
    BY DEF DataIsSound, Filled
  <2> QED
    BY <2>1 DEF LiveIn
<1>2. FirstOf({}) = 0
  BY DEF FirstOf
<1>3. DateShown(c) = ValueOf(cells, FirstOf(valued)) /\ ValuedRow(cells) = FirstOf(valued)
  BY DEF DateShown, ValuedRow
<1>4. valued # {} => FirstOf(valued) \in valued /\ \A m \in valued : FirstOf(valued) <= m
  <2>1. valued \in SUBSET (Nat \ {0})
    BY <1>1
  <2> HIDE DEF valued
  <2> QED
    BY <2>1, FirstIsLeast
<1>5. live # {} => first \in live /\ \A m \in live : first <= m
  <2> HIDE DEF live
  <2> QED
    BY <1>1, FirstIsLeast
<1>6. CASE live = {}
  <2>1. first = 0 /\ FirstOf(valued) = 0
    BY <1>2, <1>6
  <2>2. DateToSortBy(cells, first) = "" /\ ValueOf(cells, 0) = ""
    BY <1>6 DEF DateToSortBy, ValueOf
  <2> HIDE DEF valued, first
  <2> QED
    BY <1>3, <2>1, <2>2
<1>7. CASE live # {} /\ cells[first].value # None
  <2>1. first \in valued
    BY <1>5, <1>7
  <2>2. FirstOf(valued) = first /\ first \in Nat \ {0}
    <3>1. FirstOf(valued) \in live /\ FirstOf(valued) <= first /\ first <= FirstOf(valued)
      BY <1>4, <1>5, <1>7, <2>1
    <3>2. FirstOf(valued) \in Nat /\ first \in Nat \ {0}
      BY <1>1, <1>5, <1>7, <3>1
    <3> HIDE DEF valued, first
    <3> QED
      BY <3>1, <3>2
  <2>3. DateToSortBy(cells, first) = cells[first].value /\ ValueOf(cells, first) = cells[first].value
    BY <1>5, <1>7, <2>2 DEF DateToSortBy, ValueOf
  <2> HIDE DEF valued, first
  <2> QED
    BY <1>3, <2>2, <2>3
<1>8. CASE live # {} /\ cells[first].value = None
  <2>1. DateToSortBy(cells, first) = ""
    BY <1>8 DEF DateToSortBy
  <2>2. FirstOf(valued) # first
    <3>1. first # 0
      BY <1>1, <1>5, <1>8
    <3>2. FirstOf(valued) = 0 \/ cells[FirstOf(valued)].value # None
      BY <1>2, <1>4
    <3> HIDE DEF valued, first
    <3> QED
      BY <1>8, <3>1, <3>2
  <2> HIDE DEF valued, first
  <2> QED
    BY <1>3, <2>1, <2>2
<1> QED
  BY <1>6, <1>7, <1>8

\* The key of a card that has not changed has the rank of what is shown of it.
LEMMA KeyIsShown ==
  ASSUME ListIsSound, page.step = "values", NEW c \in page.cards \cap steady.same
  PROVE  Rank[SortKey(c)] = CurrentRank(c)
<1>1. /\ DataIsSound /\ PageIsSound /\ GatheredIsSound /\ c \in ListedCards
      /\ page.ask.sort \in {"name", "date"}
  BY DEF ListIsSound, Ended, PageIsSound, GatheredIsSound, Asks
<1>2. CASE page.ask.sort = "name"
  BY <1>2 DEF SortKey, NameToSortBy, NameShown, CurrentRank
<1>3. CASE page.ask.sort = "date"
  <2>1. /\ KindOf[c] \in page.dated <=> KindOf[c] \in kindHas.date
        /\ page.first[c] = FirstOf(LiveIn(entry[c].date))
        /\ KindOf[c] \in kindHas.date => kindHas.active
    BY <1>1, <1>3 DEF GatheredIsSound, PageIsSound, DatesAreActive
  <2>2. HasDate(kindHas, c) <=> KindOf[c] \in page.dated
    BY <2>1 DEF HasDate
  <2>3. CASE HasDate(kindHas, c)
    <3>1. SortKey(c) = IF ValuedRow(entry[c].date) = FirstOf(LiveIn(entry[c].date))
                       THEN DateShown(c) ELSE ""
      BY <1>1, <1>3, <2>1, <2>2, <2>3, FirstDateCounts DEF SortKey, HasDate
    <3> QED
      BY <1>3, <2>3, <3>1, ListingAssumption DEF CurrentRank, DateCounts
  <2>4. CASE ~HasDate(kindHas, c)
    <3>1. SortKey(c) = ""
      BY <1>3, <2>2, <2>4 DEF SortKey
    <3> QED
      BY <1>3, <2>4, <3>1, ListingAssumption DEF CurrentRank, DateCounts
  <2> QED
    BY <2>3, <2>4
<1> QED
  BY <1>1, <1>2, <1>3

\* The cards are in the order of their keys.
LEMMA OrderedIsInOrder ==
  ASSUME NEW cards \in SUBSET ListedCards, NEW key, NEW down, NEW order \in Ordered(cards, key, down)
  PROVE  /\ Cardinality(cards) \in Nat /\ DOMAIN order = 1..Cardinality(cards)
         /\ order = [i \in 1..Cardinality(cards) |-> order[i]]
         /\ {order[i] : i \in DOMAIN order} = cards
         /\ \A i, j \in 1..Cardinality(cards) : i < j =>
              LET a == Rank[key[order[i]]]
                  b == Rank[key[order[j]]]
              IN \/ a = b /\ order[i] < order[j]
                 \/ a # 0 /\ b = 0
                 \/ a # 0 /\ b # 0 /\ (IF down THEN a > b ELSE a < b)
<1>1. Cardinality(cards) \in Nat
  BY ListingAssumption, FS_Subset, FS_CardinalityType
<1>2. order \in [1..Cardinality(cards) -> cards] /\ \A c \in cards : \E i \in DOMAIN order : order[i] = c
  BY DEF Ordered
<1>3. \A i, j \in DOMAIN order : i < j =>
        LET a == Rank[key[order[i]]]
            b == Rank[key[order[j]]]
        IN CASE a = 0 \/ b = 0 -> IF a = b THEN order[i] < order[j] ELSE b = 0
             [] a = b -> order[i] < order[j]
             [] OTHER -> IF down THEN a > b ELSE a < b
  BY DEF Ordered
<1>4. ASSUME NEW i \in 1..Cardinality(cards), NEW j \in 1..Cardinality(cards), i < j
      PROVE  LET a == Rank[key[order[i]]]
                 b == Rank[key[order[j]]]
             IN \/ a = b /\ order[i] < order[j]
                \/ a # 0 /\ b = 0
                \/ a # 0 /\ b # 0 /\ (IF down THEN a > b ELSE a < b)
  BY <1>2, <1>3, <1>4
<1> QED
  BY <1>1, <1>2, <1>4

\* What the data may do between two steps: cards keep their shape, templates get
\* a date only while it is active.
DataMoves ==
  /\ DataIsSound'
  /\ \A c \in ListedCards :
       HasDate(kindHas', c) = HasDate(kindHas, c) /\ (KindOf[c] \in kindHas.date => kindHas.active)
         => (KindOf[c] \in kindHas'.date => kindHas'.active)

\* What is seen from outside while a request runs on
LEMMA WatchingOn ==
  ASSUME Watching, page.step \notin Ended, page'.step \notin Ended
  PROVE  /\ steady'.same = {c \in steady.same : /\ entry'[c] = entry[c]
                                                /\ HasDate(kindHas', c) = HasDate(kindHas, c)}
         /\ steady'.due = steady.due \cap Matching(page.ask, page.scope)
         /\ steady'.ever = steady.ever \cup Matching(page.ask, page.scope)
<1>1. page # NoPage
  BY DEF NoPage, Ended
<1> QED
  BY <1>1 DEF Watching, Ended

\* The data moves on while a request runs: it is known of less cards that they
\* did not change, and what was read of these is still so.
LEMMA MovesKeepSound ==
  ASSUME ListIsSound, DataMoves, Watching, page' = page, page.step \notin Ended
  PROVE  ListIsSound'
<1>1. /\ steady'.same = {c \in steady.same : /\ entry'[c] = entry[c]
                                             /\ HasDate(kindHas', c) = HasDate(kindHas, c)}
      /\ steady'.due \subseteq steady.due /\ steady.ever \subseteq steady'.ever
  BY WatchingOn
<1>2. PageIsSound /\ DataIsSound /\ steady.same \subseteq ListedCards
  BY DEF ListIsSound, PageIsSound
<1>3. DatesAreActive'
  BY <1>1, <1>2 DEF DatesAreActive, PageIsSound, DataMoves
<1>4. \A c \in steady'.same : c \in steady.same /\ c \in ListedCards /\ CurrentRank(c)' = CurrentRank(c)
  BY <1>1, <1>2, RankStays
<1>5. ASSUME page.ask.sort = "date", NEW c \in steady'.same
      PROVE  KindOf[c] \in kindHas'.date <=> KindOf[c] \in kindHas.date
  BY <1>1, <1>2, <1>3, <1>5 DEF PageIsSound, DatesAreActive, HasDate
<1>6. ASSUME page.step \in {"fields", "rows", "values"}
      PROVE  GatheredIsSound'
  <2>1. GatheredIsSound
    BY <1>2, <1>6 DEF PageIsSound
  <2> QED
    BY <1>1, <1>5, <2>1 DEF GatheredIsSound
<1>7. ASSUME page.step = "print"
      PROVE  PrintingIsSound'
  <2>1. PICK n, k \in Nat : PrintsUpTo(n, k)
    BY <1>2, <1>7 DEF PageIsSound, PrintingIsSound
  <2>2. Listed' = Listed
    BY DEF Listed
  <2>3. \A i, j \in 1..n : i < j /\ page.order[i] \in steady'.same /\ page.order[j] \in steady'.same =>
          RanksInOrder(CurrentRank(page.order[i]), CurrentRank(page.order[j]),
                       page.order[i], page.order[j])'
    BY <1>4, <2>1 DEF RanksInOrder, PrintsUpTo
  <2>4. ASSUME NEW i \in 1..k, page.order[i] \in steady'.same
        PROVE  ShownRank(page.printed[i])' = CurrentRank(page.order[i])'
    <3>1. page.printed[i].card = page.order[i] /\ page.order[i] \in steady.same
          /\ ShownRank(page.printed[i]) = CurrentRank(page.order[i])
      BY <1>4, <2>1, <2>4 DEF PrintsUpTo
    <3>2. /\ HasDate(kindHas', page.order[i]) = HasDate(kindHas, page.order[i])
          /\ entry'[page.order[i]] = entry[page.order[i]]
      BY <1>1, <2>4
    <3>3. DateCounts(page.order[i])' = DateCounts(page.order[i])
      BY <3>2 DEF DateCounts, HasDate
    <3>4. ShownRank(page.printed[i])' = ShownRank(page.printed[i])
      BY <3>1, <3>3 DEF ShownRank
    <3>5. CurrentRank(page.order[i])' = CurrentRank(page.order[i])
      BY <1>4, <2>4
    <3> QED
      BY <3>1, <3>4, <3>5
  <2> QED
    BY <1>1, <2>1, <2>2, <2>3, <2>4, ZenonT(30) DEF PrintingIsSound, PrintsUpTo
<1>8. PageIsSound'
  BY <1>1, <1>2, <1>3, <1>6, <1>7 DEF PageIsSound
<1> QED
  BY <1>8 DEF ListIsSound, DataMoves

\* Cards change only in what is asked of Filled by the actions below.
LEMMA CardChanges ==
  ASSUME DataIsSound, kindHas' = kindHas, NEW c \in ListedCards, NEW row, Filled(row),
         entry' = [entry EXCEPT ![c] = row]
  PROVE  DataMoves
<1>1. entry' = [d \in ListedCards |-> IF d = c THEN row ELSE entry[d]]
  BY DEF DataIsSound
<1>2. \A d \in ListedCards : Filled(entry'[d])
  BY <1>1 DEF DataIsSound
<1>3. entry' = [d \in ListedCards |-> entry'[d]]
  BY <1>1
<1> QED
  BY <1>2, <1>3 DEF DataIsSound, DataMoves

\* A card that is edited in one column stays a card.
LEMMA FilledEdits ==
  ASSUME NEW row, Filled(row), NEW x
  PROVE  /\ Filled([row EXCEPT !.name = x]) /\ Filled([row EXCEPT !.state = x])
         /\ Filled([row EXCEPT !.place = x])
         /\ x \in Seq(DateRow) => Filled([row EXCEPT !.date = x])
<1>1. row = [place |-> row.place, state |-> row.state, name |-> row.name, date |-> row.date]
  BY DEF Filled
<1>2. [row EXCEPT !.name = x]
        = [place |-> row.place, state |-> row.state, name |-> x, date |-> row.date]
  BY <1>1
<1>3. [row EXCEPT !.state = x]
        = [place |-> row.place, state |-> x, name |-> row.name, date |-> row.date]
  BY <1>1
<1>4. [row EXCEPT !.place = x]
        = [place |-> x, state |-> row.state, name |-> row.name, date |-> row.date]
  BY <1>1
<1>5. [row EXCEPT !.date = x]
        = [place |-> row.place, state |-> row.state, name |-> row.name, date |-> x]
  BY <1>1
<1> QED
  BY <1>2, <1>3, <1>4, <1>5 DEF Filled

\* The rows of a date stay rows of dates when one is written, archived or added.
LEMMA CellEdits ==
  ASSUME NEW cells \in Seq(DateRow)
  PROVE  /\ \A n \in LiveIn(cells), v \in Dates \cup {""} :
              [cells EXCEPT ![n].value = v] \in Seq(DateRow)
         /\ \A n \in LiveIn(cells) : [cells EXCEPT ![n].live = FALSE] \in Seq(DateRow)
         /\ \A v \in Dates \cup {"", None} : Append(cells, NameRow(TRUE, v)) \in Seq(DateRow)
<1>1. \A n \in LiveIn(cells) : n \in 1..Len(cells) /\ cells[n] \in DateRow
  BY DEF LiveIn
<1>2. ASSUME NEW n \in LiveIn(cells), NEW v \in Dates \cup {""}
      PROVE  [cells EXCEPT ![n].value = v] \in Seq(DateRow)
  <2>1. [cells[n] EXCEPT !.value = v] \in DateRow
    BY <1>1 DEF DateRow
  <2> QED
    BY <1>1, <2>1, ExceptSeq
<1>3. ASSUME NEW n \in LiveIn(cells)
      PROVE  [cells EXCEPT ![n].live = FALSE] \in Seq(DateRow)
  <2>1. [cells[n] EXCEPT !.live = FALSE] \in DateRow
    BY <1>1 DEF DateRow
  <2> QED
    BY <1>1, <2>1, ExceptSeq
<1>4. ASSUME NEW v \in Dates \cup {"", None}
      PROVE  Append(cells, NameRow(TRUE, v)) \in Seq(DateRow)
  <2>1. NameRow(TRUE, v) \in DateRow
    BY DEF NameRow, DateRow
  <2> QED
    BY <2>1, AppendProperties
<1> QED
  BY <1>2, <1>3, <1>4

\* The writers of a card change its names, its date, its state or its place.
LEMMA CardMoves ==
  ASSUME ListIsSound,
         \/ WriteName \/ AddNameRow \/ ArchiveNameRow \/ WriteDate \/ AddDateRow
         \/ ArchiveDateRow \/ MoveState \/ Relocate
  PROVE  DataMoves /\ page' = page /\ page.step \notin Ended
<1>1. DataIsSound /\ \A c \in ListedCards : Filled(entry[c])
  BY DEF ListIsSound, DataIsSound
<1>2. kindHas' = kindHas /\ page' = page /\ page.step \notin Ended
  BY DEF WriteName, AddNameRow, ArchiveNameRow, WriteDate, AddDateRow, ArchiveDateRow, MoveState,
         Relocate, ShiftCards, Shift, Ended
<1>3. ASSUME NEW c \in ListedCards, NEW names, entry' = [entry EXCEPT ![c].name = names]
      PROVE  DataMoves
  <2> DEFINE row == [entry[c] EXCEPT !.name = names]
  <2>1. Filled(row)
    BY <1>1, FilledEdits
  <2>2. entry' = [entry EXCEPT ![c] = row]
    BY <1>3
  <2> HIDE DEF row
  <2> QED
    BY <1>1, <1>2, <2>1, <2>2, CardChanges
<1>4. CASE WriteName
  <2>1. PICK c \in ListedCards : \E n \in LiveIn(entry[c].name), v \in Names :
          entry' = [entry EXCEPT ![c].name[n].value = v]
    BY <1>4 DEF WriteName
  <2>2. \E names : entry' = [entry EXCEPT ![c].name = names]
    BY <2>1
  <2> QED
    BY <1>2, <1>3, <2>2
<1>5. CASE AddNameRow
  BY <1>2, <1>3, <1>5 DEF AddNameRow
<1>6. CASE ArchiveNameRow
  <2>1. PICK c \in ListedCards : \E n \in LiveIn(entry[c].name) :
          entry' = [entry EXCEPT ![c].name[n].live = FALSE]
    BY <1>6 DEF ArchiveNameRow
  <2>2. \E names : entry' = [entry EXCEPT ![c].name = names]
    BY <2>1
  <2> QED
    BY <1>2, <1>3, <2>2
<1>7. CASE WriteDate \/ AddDateRow \/ ArchiveDateRow
  <2>1. PICK c \in ListedCards, dates \in Seq(DateRow) : entry' = [entry EXCEPT ![c].date = dates]
    <3>1. \A c \in ListedCards : entry[c].date \in Seq(DateRow)
      BY <1>1 DEF Filled
    <3>2. CASE WriteDate
      <4>1. PICK c \in ListedCards : \E n \in LiveIn(entry[c].date), v \in Dates \cup {""} :
              entry' = [entry EXCEPT ![c].date[n].value = v]
        BY <3>2 DEF WriteDate
      <4>2. \A n \in LiveIn(entry[c].date), v \in Dates \cup {""} :
              [entry[c].date EXCEPT ![n].value = v] \in Seq(DateRow)
        BY <3>1, CellEdits
      <4> QED
        BY <4>1, <4>2
    <3>3. CASE AddDateRow
      <4>1. PICK c \in ListedCards, v \in Dates \cup {"", None} :
              entry' = [entry EXCEPT ![c].date = Append(entry[c].date, NameRow(TRUE, v))]
        BY <3>3 DEF AddDateRow
      <4>2. Append(entry[c].date, NameRow(TRUE, v)) \in Seq(DateRow)
        BY <3>1, CellEdits
      <4> QED
        BY <4>1, <4>2
    <3>4. CASE ArchiveDateRow
      <4>1. PICK c \in ListedCards : \E n \in LiveIn(entry[c].date) :
              entry' = [entry EXCEPT ![c].date[n].live = FALSE]
        BY <3>4 DEF ArchiveDateRow
      <4>2. \A n \in LiveIn(entry[c].date) : [entry[c].date EXCEPT ![n].live = FALSE] \in Seq(DateRow)
        BY <3>1, CellEdits
      <4> QED
        BY <4>1, <4>2
    <3> QED
      BY <1>7, <3>2, <3>3, <3>4
  <2> DEFINE row == [entry[c] EXCEPT !.date = dates]
  <2>2. Filled(row)
    <3>1. Filled(entry[c])
      BY <1>1
    <3> QED
      BY <3>1, FilledEdits
  <2>3. entry' = [entry EXCEPT ![c] = row]
    BY <2>1
  <2> HIDE DEF row
  <2> QED
    BY <1>1, <1>2, <2>2, <2>3, CardChanges
<1>8. CASE MoveState
  <2>1. PICK c \in ListedCards, to \in {"archived", "superseded"} :
          entry' = [entry EXCEPT ![c].state = to]
    BY <1>8 DEF MoveState
  <2> DEFINE row == [entry[c] EXCEPT !.state = to]
  <2>2. Filled(row)
    BY <1>1, FilledEdits
  <2>3. entry' = [entry EXCEPT ![c] = row]
    BY <2>1
  <2> HIDE DEF row
  <2> QED
    BY <1>1, <1>2, <2>2, <2>3, CardChanges
<1>9. CASE Relocate
  <2>1. PICK c \in ListedCards, o \in Branches : entry' = [entry EXCEPT ![c].place = o]
    BY <1>9 DEF Relocate
  <2> DEFINE row == [entry[c] EXCEPT !.place = o]
  <2>2. Filled(row)
    BY <1>1, FilledEdits
  <2>3. entry' = [entry EXCEPT ![c] = row]
    BY <2>1
  <2> HIDE DEF row
  <2> QED
    BY <1>1, <1>2, <2>2, <2>3, CardChanges
<1> QED
  BY <1>2, <1>4, <1>5, <1>6, <1>7, <1>8, <1>9

\* A template loses a field or gets one, the date is archived, grants change.
LEMMA KindMoves ==
  ASSUME ListIsSound, ChangeKind \/ RetireDate \/ Regrant
  PROVE  DataMoves /\ page' = page /\ page.step \notin Ended
<1>1. DataIsSound
  BY DEF ListIsSound
<1>2. entry' = entry /\ page' = page /\ page.step \notin Ended
  BY DEF ChangeKind, RetireDate, Regrant, Shift, Ended
<1>3. kindHas = [name |-> kindHas.name, date |-> kindHas.date, active |-> kindHas.active]
      /\ kindHas.active \in BOOLEAN
  BY <1>1 DEF DataIsSound
<1>4. CASE Regrant
  BY <1>1, <1>2, <1>4 DEF Regrant, DataIsSound, DataMoves
<1>5. CASE RetireDate
  <2>1. /\ kindHas' = [name |-> kindHas.name, date |-> kindHas.date, active |-> FALSE]
        /\ kindHas.active
    BY <1>3, <1>5 DEF RetireDate
  <2>2. \A c \in ListedCards : HasDate(kindHas', c) = HasDate(kindHas, c) => KindOf[c] \notin kindHas'.date
    BY <2>1 DEF HasDate
  <2> QED
    BY <1>1, <1>2, <2>1, <2>2 DEF DataIsSound, DataMoves
<1>6. CASE ChangeKind
  <2>1. PICK k \in CardKinds, f \in {"name", "date"} :
          \/ kindHas' = [kindHas EXCEPT ![f] = kindHas[f] \ {k}]
          \/ /\ f = "date" => kindHas.active
             /\ kindHas' = [kindHas EXCEPT ![f] = kindHas[f] \cup {k}]
    BY <1>6 DEF ChangeKind
  <2>2. /\ kindHas' = [name |-> kindHas'.name, date |-> kindHas'.date, active |-> kindHas.active]
        /\ kindHas'.date \subseteq kindHas.date \/ kindHas.active
    BY <1>3, <2>1
  <2> QED
    BY <1>1, <1>2, <1>3, <2>2 DEF DataIsSound, DataMoves
<1> QED
  BY <1>2, <1>4, <1>5, <1>6

\* It holds at the start, when cards have been filled.
LEMMA ListInitIsSound ==
  ASSUME NEW cards, NEW grants, SoundCards(cards), ListInit(cards, grants)
  PROVE  ListIsSound
BY DEF ListInit, SoundCards, ListIsSound, DataIsSound, NoPage, Ended

\* The steps of the request read and write no data.
LEMMA ReadsKeepData ==
  ASSUME ListIsSound, Reads
  PROVE  DataIsSound' /\ \A c \in ListedCards : entry'[c] = entry[c] /\ kindHas' = kindHas
BY DEF ListIsSound, Reads, DataIsSound

\* A request that ends is forgotten.
LEMMA EndedIsSound ==
  ASSUME ListIsSound, DataIsSound', page' = [step |-> "failed"] \/ page' = NoPage
  PROVE  ListIsSound'
BY DEF ListIsSound, NoPage, Ended

\* The request begins: every card is as it was.
LEMMA BeginListIsSound ==
  ASSUME ListIsSound, BeginList, Watching
  PROVE  ListIsSound'
<1>1. PICK ask \in Requests :
        /\ page = NoPage
        /\ ask.sort = "date" \/ ask.on # "any" => kindHas.active
        /\ page' = [step |-> "select", ask |-> ask,
                    scope |-> IF ask.through \subseteq allowed THEN Scope(ask.wanted, ask.below) ELSE {}]
        /\ UNCHANGED <<entry, kindHas, allowed>>
  BY DEF BeginList
<1>2. page'.step = "select" /\ page'.ask = ask
  BY <1>1
<1>3. steady'.same = ListedCards
  BY <1>1, <1>2 DEF Watching
<1>4. DataIsSound'
  BY <1>1 DEF ListIsSound, DataIsSound
<1>5. DatesAreActive'
  BY <1>1, <1>2 DEF DatesAreActive
<1>6. PageIsSound'
  BY <1>2, <1>3, <1>5, RequestsAssumption DEF PageIsSound
<1> QED
  BY <1>2, <1>4, <1>6 DEF ListIsSound, Ended

\* A sequence is a function, the empty one too.
LEMMA EmptyIs == \A s : s = <<>> => s = [i \in 1..0 |-> s[i]]
OBVIOUS

\* Printing begins with all cards, in the order of their keys; those that have
\* not changed have keys of the rank they have now.
LEMMA PrintingBegins ==
  ASSUME NEW cards \in SUBSET ListedCards, NEW key, NEW down, NEW order \in Ordered(cards, key, down),
         page' = Printing(order), steady'.due \subseteq cards, cards \subseteq steady'.ever,
         \A c \in cards \cap steady'.same : Rank[key[c]] = CurrentRank(c)',
         \A c \in cards : down = page.ask.down \/ page.ask.sort = "id"
  PROVE  /\ PrintingIsSound' /\ page'.step = "print" /\ page'.ask = page.ask
         /\ page' = [step |-> "print", ask |-> page'.ask, scope |-> page'.scope,
                     order |-> page'.order, printed |-> page'.printed]
<1> DEFINE n == Cardinality(cards)
<1>1. /\ page'.step = "print" /\ page'.ask = page.ask /\ page'.order = order /\ page'.printed = <<>>
      /\ page' = [step |-> "print", ask |-> page'.ask, scope |-> page'.scope,
                  order |-> page'.order, printed |-> page'.printed]
  BY DEF Printing
<1>2. /\ n \in Nat /\ DOMAIN order = 1..n /\ order = [i \in 1..n |-> order[i]]
      /\ {order[i] : i \in DOMAIN order} = cards
      /\ \A i, j \in 1..n : i < j =>
           LET a == Rank[key[order[i]]]
               b == Rank[key[order[j]]]
           IN \/ a = b /\ order[i] < order[j]
              \/ a # 0 /\ b = 0
              \/ a # 0 /\ b # 0 /\ (IF down THEN a > b ELSE a < b)
  BY OrderedIsInOrder
<1> HIDE DEF n
<1>3. Listed' = cards /\ \A i \in 1..n : order[i] \in cards
  BY <1>1, <1>2 DEF Listed
<1>4. ASSUME NEW i \in 1..n, NEW j \in 1..n, i < j,
             order[i] \in steady'.same, order[j] \in steady'.same
      PROVE  RanksInOrder(CurrentRank(order[i]), CurrentRank(order[j]), order[i], order[j])'
  <2>1. Rank[key[order[i]]] = CurrentRank(order[i])' /\ Rank[key[order[j]]] = CurrentRank(order[j])'
    BY <1>3, <1>4
  <2>2. CASE page.ask.sort = "id"
    <3>1. CurrentRank(order[i])' = 0 /\ CurrentRank(order[j])' = 0
      BY <1>1, <2>2 DEF CurrentRank
    <3> QED
      BY <1>2, <1>4, <2>1, <3>1 DEF RanksInOrder
  <2>3. CASE down = page.ask.down
    BY <1>1, <1>2, <1>4, <2>1, <2>3 DEF RanksInOrder
  <2> QED
    BY <1>3, <2>2, <2>3
<1>5. page'.printed = [i \in 1..0 |-> page'.printed[i]]
  BY <1>1, EmptyIs
<1>6. PrintsUpTo(n, 0)'
  <2>1. 0 <= n /\ page'.order = [i \in 1..n |-> page'.order[i]]
    BY <1>1, <1>2
  <2>2. /\ Listed' \subseteq ListedCards /\ Cardinality(Listed') = n
        /\ steady'.due \subseteq Listed' /\ Listed' \subseteq steady'.ever
    BY <1>3 DEF n
  <2>3. \A i, j \in 1..n : i < j /\ page'.order[i] \in steady'.same /\ page'.order[j] \in steady'.same =>
          RanksInOrder(CurrentRank(page.order[i]), CurrentRank(page.order[j]),
                       page.order[i], page.order[j])'
    BY <1>1, <1>4
  <2> QED
    BY <1>5, <2>1, <2>2, <2>3 DEF PrintsUpTo
<1>7. PrintingIsSound'
  BY <1>2, <1>6 DEF PrintingIsSound
<1> QED
  BY <1>1, <1>7

\* The cards are selected, and ordered when they are asked for by their ids.
LEMMA SelectCardsIsSound ==
  ASSUME ListIsSound, SelectCards, Watching
  PROVE  ListIsSound'
<1> DEFINE found == Matching(page.ask, page.scope)
<1>1. /\ page.step = "select" /\ page.step \notin Ended /\ PageIsSound
      /\ page.ask \in Asks /\ Reads /\ found \subseteq ListedCards
  BY DEF SelectCards, ListIsSound, Ended, PageIsSound, Matching
<1>2. DataIsSound' /\ kindHas' = kindHas /\ entry' = entry
  BY <1>1 DEF ListIsSound, DataIsSound, Reads
<1>3. ASSUME page'.step \notin Ended
      PROVE  /\ steady'.same \subseteq steady.same
             /\ steady'.due \subseteq found /\ found \subseteq steady'.ever
  BY <1>1, <1>3, WatchingOn
<1>4. ASSUME page'.ask = page.ask, page'.step \notin Ended
      PROVE  DatesAreActive' /\ page'.ask \in Asks /\ steady'.same \subseteq ListedCards
  BY <1>1, <1>2, <1>3, <1>4 DEF PageIsSound, DatesAreActive
<1>5. CASE page.ask.sort = "id" \/ found = {}
  <2> DEFINE key == [c \in found |-> ""]
  <2>1. PICK order \in Ordered(found, key, FALSE) : page' = Printing(order)
    BY <1>1, <1>5 DEF SelectCards, Matching
  <2>2. page'.step \notin Ended /\ page'.ask = page.ask
    BY <2>1 DEF Printing, Ended
  <2>3. \A c \in found : Rank[key[c]] = 0 /\ CurrentRank(c)' = 0 /\ page.ask.sort = "id"
    BY <1>5, <2>2, ListingAssumption DEF CurrentRank
  <2>4. found \in SUBSET ListedCards
    BY <1>1
  <2>5. /\ PrintingIsSound' /\ page'.step = "print"
        /\ page' = [step |-> "print", ask |-> page'.ask, scope |-> page'.scope,
                    order |-> page'.order, printed |-> page'.printed]
    <3> HIDE DEF found, key
    <3> QED
      BY <1>3, <2>1, <2>2, <2>3, <2>4, PrintingBegins
  <2> QED
    BY <1>2, <1>4, <2>2, <2>5 DEF ListIsSound, PageIsSound
<1>6. CASE ~(page.ask.sort = "id" \/ found = {})
  <2>1. page' = Gathered("fields", found, {}, <<>>)
    BY <1>1, <1>6 DEF SelectCards, Matching
  <2>2. page'.step = "fields" /\ page'.ask = page.ask /\ page'.cards = found /\ page'.step \notin Ended
    BY <2>1 DEF Gathered, Ended
  <2>3. GatheredIsSound'
    BY <1>1, <1>3, <1>6, <2>2 DEF GatheredIsSound
  <2> QED
    BY <1>2, <1>4, <2>2, <2>3 DEF ListIsSound, PageIsSound
<1> QED
  BY <1>5, <1>6

\* What is read before the order is known is read of the cards selected.
LEMMA ReadingOn ==
  ASSUME ListIsSound, page.step \in {"fields", "rows", "values"}, Reads, Watching,
         page'.step \notin Ended
  PROVE  /\ steady'.same = steady.same
         /\ steady'.due \subseteq page.cards /\ page.cards \subseteq steady'.ever
         /\ DataIsSound' /\ kindHas' = kindHas /\ entry' = entry
         /\ page'.ask = page.ask =>
              DatesAreActive' /\ page'.ask \in Asks /\ steady'.same \subseteq ListedCards
<1>1. PageIsSound /\ GatheredIsSound /\ page.step \notin Ended
  BY DEF ListIsSound, PageIsSound, Ended
<1>2. DataIsSound' /\ kindHas' = kindHas /\ entry' = entry
  BY DEF ListIsSound, DataIsSound, Reads
<1>3. /\ steady'.same = {c \in steady.same : /\ entry'[c] = entry[c]
                                             /\ HasDate(kindHas', c) = HasDate(kindHas, c)}
      /\ steady'.due \subseteq steady.due /\ steady.ever \subseteq steady'.ever
  BY <1>1, WatchingOn
<1>4. steady'.same = steady.same
  BY <1>2, <1>3
<1> QED
  BY <1>1, <1>2, <1>3, <1>4 DEF GatheredIsSound, PageIsSound, DatesAreActive

\* The fields of the templates are read.
LEMMA ReadFieldsIsSound ==
  ASSUME ListIsSound, ReadFields, Watching
  PROVE  ListIsSound'
<1>1. page.step = "fields" /\ Reads /\ PageIsSound /\ GatheredIsSound
  BY DEF ReadFields, ListIsSound, PageIsSound, Ended
<1>2. DataIsSound'
  BY <1>1 DEF ListIsSound, DataIsSound, Reads
<1>3. CASE page' = [step |-> "failed"]
  BY <1>2, <1>3, EndedIsSound
<1>4. CASE page.ask.sort = "date"
  <2>1. page' = Gathered("rows", page.cards, {KindOf[c] : c \in page.cards} \cap kindHas.date, <<>>)
    BY <1>4 DEF ReadFields
  <2>2. /\ page'.step = "rows" /\ page'.ask = page.ask /\ page'.cards = page.cards
        /\ page'.dated = {KindOf[c] : c \in page.cards} \cap kindHas.date /\ page'.step \notin Ended
    BY <2>1 DEF Gathered, Ended
  <2>3. /\ steady'.same = steady.same
        /\ steady'.due \subseteq page.cards /\ page.cards \subseteq steady'.ever
        /\ kindHas' = kindHas
        /\ DatesAreActive' /\ page'.ask \in Asks /\ steady'.same \subseteq ListedCards
    BY <1>1, <2>2, ReadingOn
  <2>4. \A c \in page'.cards : KindOf[c] \in page'.dated <=> KindOf[c] \in kindHas'.date
    BY <2>2, <2>3
  <2>5. GatheredIsSound'
    BY <1>1, <1>4, <2>2, <2>3, <2>4 DEF GatheredIsSound
  <2> QED
    BY <1>2, <2>2, <2>3, <2>5 DEF ListIsSound, PageIsSound
<1>5. CASE page' = Gathered("values", page.cards, {}, <<>>) /\ page.ask.sort # "date"
  <2>1. /\ page'.step = "values" /\ page'.ask = page.ask /\ page'.cards = page.cards
        /\ page'.step \notin Ended
    BY <1>5 DEF Gathered, Ended
  <2>2. /\ steady'.same = steady.same
        /\ steady'.due \subseteq page.cards /\ page.cards \subseteq steady'.ever
        /\ DatesAreActive' /\ page'.ask \in Asks /\ steady'.same \subseteq ListedCards
    BY <1>1, <2>1, ReadingOn
  <2>3. GatheredIsSound'
    BY <1>1, <1>5, <2>1, <2>2 DEF GatheredIsSound
  <2> QED
    BY <1>2, <2>1, <2>2, <2>3 DEF ListIsSound, PageIsSound
<1> QED
  BY <1>3, <1>4, <1>5 DEF ReadFields

\* The first rows of the date are read.
LEMMA ReadFirstRowsIsSound ==
  ASSUME ListIsSound, ReadFirstRows, Watching
  PROVE  ListIsSound'
<1>1. page.step = "rows" /\ Reads /\ PageIsSound /\ GatheredIsSound
  BY DEF ReadFirstRows, ListIsSound, PageIsSound, Ended
<1>2. /\ page' = Gathered("values", page.cards, page.dated,
                          [c \in page.cards |-> FirstOf(LiveIn(entry[c].date))])
  BY DEF ReadFirstRows
<1>3. /\ page'.step = "values" /\ page'.ask = page.ask /\ page'.cards = page.cards
      /\ page'.dated = page.dated /\ page'.step \notin Ended
      /\ page'.first = [c \in page.cards |-> FirstOf(LiveIn(entry[c].date))]
  BY <1>2 DEF Gathered, Ended
<1>4. /\ steady'.same = steady.same
      /\ steady'.due \subseteq page.cards /\ page.cards \subseteq steady'.ever
      /\ DataIsSound' /\ kindHas' = kindHas /\ entry' = entry
      /\ DatesAreActive' /\ page'.ask \in Asks /\ steady'.same \subseteq ListedCards
  BY <1>1, <1>3, ReadingOn
<1>5. \A c \in page'.cards : page'.first[c] = FirstOf(LiveIn(entry'[c].date))
  BY <1>3, <1>4
<1>6. GatheredIsSound'
  BY <1>1, <1>3, <1>4, <1>5 DEF GatheredIsSound
<1> QED
  BY <1>3, <1>4, <1>6 DEF ListIsSound, PageIsSound

\* The values are read, and the cards ordered by them.
LEMMA ReadSortValuesIsSound ==
  ASSUME ListIsSound, ReadSortValues, Watching
  PROVE  ListIsSound'
<1> DEFINE key == [c \in page.cards |-> SortKey(c)]
<1>1. page.step = "values" /\ Reads /\ PageIsSound /\ GatheredIsSound /\ page.cards \in SUBSET ListedCards
  BY DEF ReadSortValues, ListIsSound, PageIsSound, Ended, GatheredIsSound
<1>2. PICK order \in Ordered(page.cards, key, page.ask.down) : page' = Printing(order)
  BY DEF ReadSortValues
<1>3. page'.step \notin Ended /\ page'.ask = page.ask
  BY <1>2 DEF Printing, Ended
<1>4. /\ steady'.same = steady.same
      /\ steady'.due \subseteq page.cards /\ page.cards \subseteq steady'.ever
      /\ DataIsSound' /\ kindHas' = kindHas /\ entry' = entry
      /\ DatesAreActive' /\ page'.ask \in Asks /\ steady'.same \subseteq ListedCards
  BY <1>1, <1>3, ReadingOn
<1>5. ASSUME NEW c \in page.cards \cap steady'.same
      PROVE  Rank[key[c]] = CurrentRank(c)'
  <2>1. c \in page.cards \cap steady.same /\ c \in ListedCards
    BY <1>1, <1>4
  <2>2. Rank[SortKey(c)] = CurrentRank(c)
    BY <1>1, <2>1, KeyIsShown
  <2>3. CurrentRank(c)' = CurrentRank(c)
    BY <1>3, <1>4, <2>1, RankStays
  <2> QED
    BY <2>1, <2>2, <2>3
<1>6. /\ PrintingIsSound' /\ page'.step = "print"
      /\ page' = [step |-> "print", ask |-> page'.ask, scope |-> page'.scope,
                  order |-> page'.order, printed |-> page'.printed]
  <2> HIDE DEF key
  <2> QED
    BY <1>1, <1>2, <1>4, <1>5, PrintingBegins
<1> QED
  BY <1>3, <1>4, <1>6 DEF ListIsSound, PageIsSound

\* One more line is one more place of the sequence.
LEMMA AppendLine ==
  ASSUME NEW k \in Nat, NEW s, s = [i \in 1..k |-> s[i]], NEW line
  PROVE  /\ Len(s) = k
         /\ Append(s, line) = [i \in 1..(k + 1) |-> IF i <= k THEN s[i] ELSE line]
<1> DEFINE S == {s[i] : i \in 1..k} \cup {line}
<1>1. s \in [1..k -> S] /\ line \in S
  OBVIOUS
<1> HIDE DEF S
<1>2. s \in Seq(S)
  BY <1>1, SeqDef
<1>3. Len(s) = k
  BY <1>1, <1>2
<1>4. Append(s, line) \in Seq(S) /\ Len(Append(s, line)) = k + 1
      /\ \A i \in 1..(k + 1) : Append(s, line)[i] = IF i <= k THEN s[i] ELSE line
  BY <1>1, <1>2, <1>3
<1>5. DOMAIN Append(s, line) = 1..(k + 1) /\ Append(s, line) = [i \in 1..(k + 1) |-> Append(s, line)[i]]
  BY <1>4
<1> QED
  BY <1>3, <1>4, <1>5

\* A line is printed of the card as it is now.
LEMMA PrintCardIsSound ==
  ASSUME ListIsSound, PrintCard, Watching
  PROVE  ListIsSound'
<1>1. page.step = "print" /\ ~AllPrinted /\ Reads /\ PageIsSound /\ PrintingIsSound /\ page.step \notin Ended
  BY DEF PrintCard, ListIsSound, PageIsSound, Ended
<1>2. DataIsSound' /\ kindHas' = kindHas /\ entry' = entry
  BY <1>1 DEF ListIsSound, DataIsSound, Reads
<1>3. CASE page' = [step |-> "failed"]
  BY <1>2, <1>3, EndedIsSound
<1>4. CASE page' # [step |-> "failed"]
  <2>1. PICK n, k \in Nat : PrintsUpTo(n, k)
    BY <1>1 DEF PrintingIsSound
  <2>a. PICK c : c = page.order[k + 1]
    OBVIOUS
  <2>b. PICK line : line = [card |-> c, name |-> NameShown(c), date |-> DateShown(c)]
    OBVIOUS
  <2>c. PICK more : more = Append(page.printed, line)
    OBVIOUS
  <2>2. /\ Len(page.printed) = k /\ Len(page.order) = n
        /\ more = [i \in 1..(k + 1) |-> IF i <= k THEN page.printed[i] ELSE line]
    BY <2>1, <2>c, AppendLine DEF PrintsUpTo
  <2>3. k + 1 <= n
    BY <1>1, <2>1, <2>2 DEF PrintsUpTo, AllPrinted
  <2>4. page' = [page EXCEPT !.printed = more]
    BY <1>4, <2>2, <2>a, <2>b, <2>c DEF PrintCard
  <2>5. /\ page'.step = "print" /\ page'.ask = page.ask /\ page'.order = page.order
        /\ page'.printed = [i \in 1..(k + 1) |-> IF i <= k THEN page.printed[i] ELSE line]
        /\ page'.step \notin Ended
        /\ page' = [step |-> "print", ask |-> page'.ask, scope |-> page'.scope,
                    order |-> page'.order, printed |-> page'.printed]
    <3>1. page = [step |-> "print", ask |-> page.ask, scope |-> page.scope, order |-> page.order,
                  printed |-> page.printed]
      BY <1>1 DEF PageIsSound
    <3>2. page' = [step |-> "print", ask |-> page.ask, scope |-> page.scope, order |-> page.order,
                   printed |-> more]
      BY <2>4, <3>1
    <3> QED
      BY <2>2, <3>2 DEF Ended
  <2>6. /\ steady'.same = steady.same
        /\ steady'.due \subseteq steady.due /\ steady.ever \subseteq steady'.ever
    <3>1. /\ steady'.same = {d \in steady.same : /\ entry'[d] = entry[d]
                                                 /\ HasDate(kindHas', d) = HasDate(kindHas, d)}
          /\ steady'.due \subseteq steady.due /\ steady.ever \subseteq steady'.ever
      BY <1>1, <2>5, WatchingOn
    <3> QED
      BY <1>2, <3>1
  <2>7. Listed' = Listed
    BY <2>5 DEF Listed
  <2>8. \A d \in steady.same : CurrentRank(d)' = CurrentRank(d)
    BY <1>1, <1>2, <2>5, RankStays DEF PageIsSound
  <2>9. \A i, j \in 1..n : i < j /\ page'.order[i] \in steady'.same /\ page'.order[j] \in steady'.same =>
          RanksInOrder(CurrentRank(page.order[i]), CurrentRank(page.order[j]),
                       page.order[i], page.order[j])'
    BY <2>1, <2>5, <2>6, <2>8 DEF PrintsUpTo, RanksInOrder
  <2>10. ShownRank(line)' = CurrentRank(c)'
    <3>1. NameShown(c)' = NameShown(c) /\ DateShown(c)' = DateShown(c)
          /\ DateCounts(c)' = DateCounts(c)
      BY <1>2 DEF NameShown, DateShown, DateCounts, HasDate
    <3>2. line.card = c /\ line.name = NameShown(c) /\ line.date = DateShown(c)
      BY <2>b
    <3> QED
      BY <2>5, <3>1, <3>2 DEF ShownRank, CurrentRank
  <2>11. ASSUME NEW i \in 1..k, page.order[i] \in steady.same
         PROVE  ShownRank(page.printed[i])' = CurrentRank(page.order[i])'
    <3>1. ShownRank(page.printed[i]) = CurrentRank(page.order[i])
      BY <2>1, <2>11 DEF PrintsUpTo
    <3>2. page'.printed[i] = page.printed[i] /\ page'.order[i] = page.order[i]
      BY <2>5
    <3>3. ShownRank(page.printed[i])' = ShownRank(page.printed[i])
      BY <1>2, <2>5, <3>2 DEF ShownRank, DateCounts, HasDate
    <3> QED
      BY <2>8, <2>11, <3>1, <3>2, <3>3
  <2>12. ASSUME NEW i \in 1..(k + 1)
         PROVE  /\ page'.printed[i].card = page'.order[i]
                /\ page'.order[i] \in steady'.same =>
                     ShownRank(page.printed[i])' = CurrentRank(page.order[i])'
    <3>1. CASE i \in 1..k
      <4>1. page'.printed[i] = page.printed[i] /\ page'.order[i] = page.order[i]
        BY <2>5, <3>1
      <4>2. page.printed[i].card = page.order[i]
        BY <2>1, <3>1 DEF PrintsUpTo
      <4> QED
        BY <2>6, <2>11, <3>1, <4>1, <4>2
    <3>2. CASE i = k + 1
      <4>1. page'.printed[i] = line /\ page'.order[i] = c /\ line.card = c
        BY <2>5, <2>a, <2>b, <3>2
      <4>2. ShownRank(page.printed[i])' = ShownRank(line)'
            /\ CurrentRank(page.order[i])' = CurrentRank(c)'
        BY <4>1 DEF ShownRank, CurrentRank
      <4> QED
        BY <2>10, <4>1, <4>2
    <3> QED
      BY <3>1, <3>2
  <2>13. page'.printed = [i \in 1..(k + 1) |-> page'.printed[i]]
    BY <2>5
  <2>14. PrintsUpTo(n, k + 1)'
    BY <2>1, <2>3, <2>5, <2>6, <2>7, <2>9, <2>12, <2>13 DEF PrintsUpTo
  <2>15. PrintingIsSound'
    BY <2>1, <2>14 DEF PrintingIsSound
  <2>16. DatesAreActive' /\ page'.ask \in Asks /\ steady'.same \subseteq ListedCards
    BY <1>1, <1>2, <2>5, <2>6 DEF PageIsSound, DatesAreActive
  <2> QED
    BY <1>2, <2>5, <2>15, <2>16 DEF ListIsSound, PageIsSound
<1> QED
  BY <1>3, <1>4

\* Every step of the page and every change beside it keeps the page sound.
LEMMA ListNextIsSound ==
  ASSUME ListIsSound, [ListNext]_listVars
  PROVE  ListIsSound'
<1>1. CASE UNCHANGED listVars
  <2>1. UNCHANGED <<entry, kindHas, page, steady>>
    BY <1>1 DEF listVars
  <2>2. Listed' = Listed
    BY <2>1 DEF Listed
  <2>3. ASSUME NEW n \in Nat, NEW k \in Nat, PrintsUpTo(n, k)
        PROVE  PrintsUpTo(n, k)'
    <3>1. \A i \in 1..n : CurrentRank(page.order[i])' = CurrentRank(page.order[i])
      BY <2>1 DEF CurrentRank, DateCounts, HasDate, NameShown, DateShown
    <3>2. \A i \in 1..k : ShownRank(page.printed[i])' = ShownRank(page.printed[i])
      BY <2>1 DEF ShownRank, DateCounts, HasDate
    <3>3. \A i, j \in 1..n :
            RanksInOrder(CurrentRank(page.order[i]), CurrentRank(page.order[j]),
                         page.order[i], page.order[j])
            => RanksInOrder(CurrentRank(page.order[i]), CurrentRank(page.order[j]),
                            page.order[i], page.order[j])'
      BY <2>1, <3>1 DEF RanksInOrder
    <3>4. \A i, j \in 1..n :
            i < j /\ page'.order[i] \in steady'.same /\ page'.order[j] \in steady'.same =>
              RanksInOrder(CurrentRank(page.order[i]), CurrentRank(page.order[j]),
                           page.order[i], page.order[j])'
      BY <2>1, <2>3, <3>3 DEF PrintsUpTo
    <3>5. \A i \in 1..k :
            /\ page'.printed[i].card = page'.order[i]
            /\ page'.order[i] \in steady'.same =>
                 ShownRank(page.printed[i])' = CurrentRank(page.order[i])'
      <4>1. \A i \in 1..k : i \in 1..n
        BY <2>3 DEF PrintsUpTo
      <4> QED
        BY <2>1, <2>3, <3>1, <3>2, <4>1 DEF PrintsUpTo
    <3> QED
      BY <2>1, <2>2, <2>3, <3>4, <3>5 DEF PrintsUpTo
  <2>4. PageIsSound => PageIsSound'
    BY <2>1, <2>3 DEF PageIsSound, DatesAreActive, GatheredIsSound, PrintingIsSound
  <2> QED
    BY <2>1, <2>4 DEF ListIsSound, DataIsSound
<1>2. CASE ListNext
  <2>1. Watching
    BY <1>2 DEF ListNext
  <2>2. CASE BeginList \/ SelectCards \/ ReadFields \/ ReadFirstRows \/ ReadSortValues \/ PrintCard
    BY <2>1, <2>2, BeginListIsSound, SelectCardsIsSound, ReadFieldsIsSound, ReadFirstRowsIsSound,
       ReadSortValuesIsSound, PrintCardIsSound
  <2>3. CASE LeaveList
    <3>1. DataIsSound'
      BY <2>3 DEF LeaveList, Reads, ListIsSound, DataIsSound
    <3> QED
      BY <2>3, <3>1, EndedIsSound DEF LeaveList
  <2>4. CASE \/ WriteName \/ AddNameRow \/ ArchiveNameRow \/ WriteDate \/ AddDateRow
             \/ ArchiveDateRow \/ MoveState \/ Relocate
    BY <2>1, <2>4, CardMoves, MovesKeepSound
  <2>5. CASE ChangeKind \/ RetireDate \/ Regrant
    BY <2>1, <2>5, KindMoves, MovesKeepSound
  <2> QED
    BY <1>2, <2>2, <2>3, <2>4, <2>5 DEF ListNext
<1> QED
  BY <1>1, <1>2

\* Whatever the request has read by now, it is still so of every card that has
\* not changed since it began.
THEOREM ListIsAlwaysSound ==
  ASSUME NEW CONSTANT cards, NEW CONSTANT grants, SoundCards(cards)
  PROVE  ListSpec(cards, grants) => []ListIsSound
BY ListInitIsSound, ListNextIsSound, PTL DEF ListSpec

\* A complete list has every card that matched all along, once, and no card that
\* never did; cards that did not change stand in the order of what it shows.
THEOREM ListIsInOrder ==
  ASSUME NEW CONSTANT cards, NEW CONSTANT grants, SoundCards(cards)
  PROVE  ListSpec(cards, grants) => []ListedInOrder
<1>1. ListIsSound => ListedInOrder
  <2> SUFFICES ASSUME ListIsSound, page.step = "print", AllPrinted
               PROVE  LET lines == page.printed
                          shown == {lines[i].card : i \in DOMAIN lines}
                      IN /\ Cardinality(shown) = Len(lines)
                         /\ steady.due \subseteq shown /\ shown \subseteq steady.ever
                         /\ \A i, j \in DOMAIN lines :
                              i < j /\ {lines[i].card, lines[j].card} \subseteq steady.same
                                => InOrder(lines[i], lines[j])
    BY DEF ListedInOrder
  <2>1. PICK n, k \in Nat : PrintsUpTo(n, k)
    BY DEF ListIsSound, PageIsSound, Ended, PrintingIsSound
  <2>2. Len(page.printed) = k /\ Len(page.order) = n
    BY <2>1, AppendLine DEF PrintsUpTo
  <2>3. k = n /\ DOMAIN page.printed = 1..n /\ DOMAIN page.order = 1..n
    BY <2>1, <2>2 DEF AllPrinted, PrintsUpTo
  <2>4. \A i \in 1..n : page.printed[i].card = page.order[i]
    BY <2>1, <2>3 DEF PrintsUpTo
  <2>5. {page.printed[i].card : i \in DOMAIN page.printed} = Listed
    BY <2>3, <2>4 DEF Listed
  <2>6. ASSUME NEW i \in 1..n, NEW j \in 1..n, i < j,
               page.order[i] \in steady.same, page.order[j] \in steady.same
        PROVE  InOrder(page.printed[i], page.printed[j])
    <3>1. RanksInOrder(CurrentRank(page.order[i]), CurrentRank(page.order[j]),
                       page.order[i], page.order[j])
      BY <2>1, <2>6 DEF PrintsUpTo
    <3>2. /\ ShownRank(page.printed[i]) = CurrentRank(page.order[i])
          /\ ShownRank(page.printed[j]) = CurrentRank(page.order[j])
      BY <2>1, <2>3, <2>6 DEF PrintsUpTo
    <3> QED
      BY <2>4, <3>1, <3>2 DEF RanksInOrder, InOrder
  <2> QED
    BY <2>1, <2>2, <2>3, <2>4, <2>5, <2>6 DEF PrintsUpTo
<1> QED
  BY <1>1, ListIsAlwaysSound, PTL

=============================================================================
