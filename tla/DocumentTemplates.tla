--------------------------- MODULE DocumentTemplates ---------------------------
(***************************************************************************)
(* Document templates of a registry, their versions, and the documents     *)
(* generated from them (services/documents.py, models/document.py).        *)
(*                                                                         *)
(* A request reads its template without a lock, renders or stores what it  *)
(* was sent, takes the next version number, flushes and commits:           *)
(*                                                                         *)
(*   idle -> numbered -> inserted -> idle        (a version)               *)
(*   idle -> chosen -> idle                      (a document)              *)
(*   idle -> archiving -> idle                                             *)
(*                                                                         *)
(* A version is its format; contents, files and names are left out: the    *)
(* layouts are in PrintLayout, the files and the locks of cards in         *)
(* AttachmentStorage.                                                      *)
(***************************************************************************)
EXTENDS Naturals, FiniteSets, FiniteSetsExt

CONSTANTS
  Writers,         \* requests
  Templates,       \* rows of templates, created or not
  CardTemplates,   \* card templates of the registry
  NoCardTemplate, NoWork,
  MaxVersions,     \* bound: versions of a template
  MaxDocuments     \* bound: documents generated

ASSUME DocumentAssumption == /\ NoCardTemplate \notin CardTemplates
                             /\ MaxVersions \in Nat /\ MaxDocuments \in Nat

VARIABLES
  templates,       \* [state, format, card, code]
  versions,        \* of each template: number -> format
  documents,       \* generated documents
  step,            \* where each request is
  work,            \* what it has read and is about to write
  raced            \* templates that lost a format to a concurrent version

documentVars == <<templates, versions, documents, step, work, raced>>

Formats == {"text", "binary", "print"}

Latest(t) == Max(DOMAIN versions[t])

\* _latest_template_version(...).template_format
LatestFormat(t) == versions[t][Latest(t)]

\* _next_template_version_number
NextNumber(t) == IF versions[t] = <<>> THEN 1 ELSE Latest(t) + 1

\* The code of a template the server names: prefix, prefix_2, ...; users give
\* each of theirs a code of its own.
NextCode == CHOOSE n \in 1..(Cardinality(Templates) + 1) :
              /\ \A t \in Templates : templates[t].code # n
              /\ \A m \in 1..(n - 1) : \E t \in Templates : templates[t].code = m

DocumentInit ==
  /\ templates = [t \in Templates |->
       [state |-> "none", format |-> "text", card |-> NoCardTemplate, code |-> 0]]
  /\ versions = [t \in Templates |-> <<>>]
  /\ documents = {}
  /\ step = [w \in Writers |-> "idle"]
  /\ work = [w \in Writers |-> NoWork]
  /\ raced = {}

Goes(w, to, what) == /\ step' = [step EXCEPT ![w] = to]
                     /\ work' = [work EXCEPT ![w] = what]

\* _get_active_template: the copy stays with the request.
ReadActive(t) == templates[t].state = "active"

-----------------------------------------------------------------------------
(* Templates *)

\* Only create_card_print_template_for_actor takes a card template.
MayBelong(format, card) == format # "print" => card = NoCardTemplate

\* create_template_for_actor, create_binary_template_for_actor and
\* create_card_print_template_for_actor insert a template with its first version.
CreateTemplate(w) ==
  \E t \in Templates, format \in Formats, card \in CardTemplates \cup {NoCardTemplate} :
    /\ step[w] = "idle" /\ templates[t].state = "none"
    /\ \A o \in Writers : step[o] # "idle" => work[o].template # t
    /\ MayBelong(format, card)
    /\ Goes(w, "inserted", [template |-> t, number |-> 1, format |-> format,
                            copy |-> "none", card |-> card, code |-> t])
    /\ UNCHANGED <<templates, versions, documents, raced>>

\* archive_template_for_actor
Archive(w) ==
  \E t \in Templates :
    /\ step[w] = "idle" /\ ReadActive(t)
    /\ Goes(w, "archiving", [template |-> t, copy |-> templates[t].format])
    /\ UNCHANGED <<templates, versions, documents, raced>>

CommitArchive(w) ==
  /\ step[w] = "archiving"
  /\ templates' = [templates EXCEPT ![work[w].template].state = "archived"]
  /\ Goes(w, "idle", NoWork)
  /\ UNCHANGED <<versions, documents, raced>>

-----------------------------------------------------------------------------
(* Versions *)

\* create_binary_template_version_for_actor takes any template,
\* create_card_print_template_version_for_actor (and the update, synchronization
\* and conversion of a print view, which end in it) only a print layout.
MayTakeVersion(template, format) ==
  format = "binary" \/ (format = "print" /\ template.format = "print")

BeginVersion(w) ==
  \E t \in Templates, format \in {"binary", "print"} :
    /\ step[w] = "idle" /\ ReadActive(t)
    /\ MayTakeVersion(templates[t], format)
    /\ Goes(w, "numbered", [template |-> t, number |-> 0, format |-> format,
                            copy |-> templates[t].format, card |-> templates[t].card,
                            code |-> templates[t].code])
    /\ UNCHANGED <<templates, versions, documents, raced>>

\* The number is taken from the committed versions, and the row inserted.
InsertVersion(w) ==
  LET t == work[w].template IN
  /\ step[w] = "numbered"
  /\ NextNumber(t) <= MaxVersions
  /\ \A o \in Writers \ {w} :        \* waits for an uncommitted row with its number
       step[o] = "inserted" /\ work[o].template = t => work[o].number # NextNumber(t)
  /\ Goes(w, "inserted", [work[w] EXCEPT !.number = NextNumber(t)])
  /\ UNCHANGED <<templates, versions, documents, raced>>

\* The number was read before another version with it was committed: the
\* unique constraint refuses the row.
RefuseVersion(w) ==
  /\ step[w] = "numbered" /\ NextNumber(work[w].template) > 1
  /\ Goes(w, "idle", NoWork)
  /\ UNCHANGED <<templates, versions, documents, raced>>

\* Mutant: a binary version leaves the format of the template.
FormatKept(w) == IF work[w].copy = "none" THEN work[w].format
                                          ELSE templates[work[w].template].format

\* The format of the template is written only if it differs from the copy.
FormatAfter(w) ==
  IF work[w].format # work[w].copy THEN work[w].format
                                   ELSE templates[work[w].template].format

\* uq_document_templates_registry_id_code
CodeIsTaken(w) ==
  /\ work[w].copy = "none"
  /\ \E t \in Templates : templates[t].code = work[w].code

\* The row of the template: a new one is active, an older one keeps its state.
TemplateAfter(w, row) ==
  [state |-> IF work[w].copy = "none" THEN "active" ELSE row.state,
   format |-> FormatAfter(w), card |-> work[w].card, code |-> work[w].code]

CommitVersion(w) ==
  LET t == work[w].template IN
  /\ step[w] = "inserted" /\ ~CodeIsTaken(w)
  /\ templates' = [templates EXCEPT ![t] = TemplateAfter(w, templates[t])]
  /\ versions' = [versions EXCEPT ![t] =
       [n \in DOMAIN versions[t] \cup {work[w].number} |->
          IF n = work[w].number THEN work[w].format ELSE versions[t][n]]]
  /\ raced' = IF work[w].copy = work[w].format /\ work[w].format # templates[t].format
              THEN raced \cup {t} ELSE raced
  /\ Goes(w, "idle", NoWork)
  /\ UNCHANGED documents

\* An error or a lost connection: the transaction is rolled back.
Rollback(w) ==
  /\ step[w] # "idle"
  /\ Goes(w, "idle", NoWork)
  /\ UNCHANGED <<templates, versions, documents, raced>>

-----------------------------------------------------------------------------
(* Documents *)

\* _validate_card_print_template_for_card
FitsCard(template, card) == template.format = "print" => template.card = card

\* generate_document_for_actor and generate_pdf_for_actor: the template is
\* read, the card is locked, and then the latest version is chosen.
BeginDocument(w) ==
  \E t \in Templates, card \in CardTemplates :
    /\ step[w] = "idle" /\ ReadActive(t)
    /\ FitsCard(templates[t], card)
    /\ Goes(w, "chosen", [template |-> t, copy |-> templates[t].format, card |-> card])
    /\ UNCHANGED <<templates, versions, documents, raced>>

\* The latest version decides how it is rendered; text and layouts as PDF too.
CommitDocument(w) ==
  LET t == work[w].template IN
  /\ step[w] = "chosen" /\ Cardinality(documents) < MaxDocuments
  /\ \E output \in {"docx", "pdf"} :
       /\ output = "pdf" => LatestFormat(t) # "binary"
       /\ documents' = documents \cup
            {[template |-> t, version |-> Latest(t), format |-> LatestFormat(t),
              output |-> output, card |-> work[w].card, copy |-> work[w].copy]}
  /\ Goes(w, "idle", NoWork)
  /\ UNCHANGED <<templates, versions, raced>>

\* _ensure_generation_print_view: a card template without a print view gets one.
EnsurePrintView(w) ==
  \E t \in Templates, card \in CardTemplates :
    /\ step[w] = "idle" /\ templates[t].state = "none"
    /\ \A o \in Writers : step[o] # "idle" => work[o].template # t
    /\ ~\E v \in Templates : /\ ReadActive(v) /\ templates[v].format = "print"
                             /\ templates[v].card = card
    /\ Goes(w, "naming", [template |-> t, number |-> 1, format |-> "print",
                          copy |-> "none", card |-> card, code |-> 0])
    /\ UNCHANGED <<templates, versions, documents, raced>>

\* _next_print_view_code, read after that
NamePrintView(w) ==
  /\ step[w] = "naming"
  /\ Goes(w, "inserted", [work[w] EXCEPT !.code = NextCode])
  /\ UNCHANGED <<templates, versions, documents, raced>>

DocumentNext ==
  \E w \in Writers :
    \/ CreateTemplate(w) \/ Archive(w) \/ CommitArchive(w)
    \/ BeginVersion(w) \/ InsertVersion(w) \/ RefuseVersion(w) \/ CommitVersion(w)
    \/ BeginDocument(w) \/ CommitDocument(w) \/ EnsurePrintView(w) \/ NamePrintView(w)
    \/ Rollback(w)

DocumentSpec == DocumentInit /\ [][DocumentNext]_documentVars

-----------------------------------------------------------------------------
(* Properties *)

\* The format a template is listed, checked and converted by is that of its
\* latest version, unless a print layout was committed by a request that had
\* read the template before a concurrent binary version changed it.
FormatFollowsLatest ==
  \A t \in Templates :
    templates[t].state # "none" /\ t \notin raced => templates[t].format = LatestFormat(t)

=============================================================================
