---------------------------- MODULE ReportTemplates ----------------------------
(***************************************************************************)
(* Report templates, their parameters, and the runs made of them           *)
(* (services/reports.py).  What a run lists is CardListing, its file       *)
(* AttachmentStorage.                                                      *)
(*                                                                         *)
(* No request locks a template.  An update checks the schema and the       *)
(* defaults together, those it changes with those it has read, and writes  *)
(* the columns it changes; a run merges defaults and parameters, checks    *)
(* them against the schema it has read, and parses those that its type of  *)
(* report reads.                                                           *)
(*                                                                         *)
(* A property of a schema is the set of values it accepts: types, limits,  *)
(* patterns and options only matter as such.  Names and texts are left     *)
(* out, and so are strings of nothing but spaces.                          *)
(***************************************************************************)
EXTENDS Naturals, FiniteSets

CONSTANTS
  Drafters, Runners,      \* requests that change templates, and that run them
  Reports,                \* templates
  Codes, Given,           \* parameters and their values
  Null, Blank, Absent,    \* a parameter that is null, "", or not there
  Schemas, Defaults,      \* what an update may carry: a schema is
                          \* [lists (properties at all), props, required]
  NoSchema, NoDefaults,   \* null
  ReportKinds,            \* types of report: [needs, parses], the codes a report must have
                          \* and, for each code it reads, what it can be parsed from
  MaxUpdates, MaxRuns     \* bounds

ASSUME ReportAssumption ==
  /\ {Null, Blank, Absent} \cap Given = {} /\ NoSchema \in Schemas /\ NoDefaults \in Defaults
  /\ {MaxUpdates, MaxRuns} \subseteq Nat
  /\ \A schema \in Schemas \ {NoSchema} :     \* Codes are all that schemas name.
       schema.required \subseteq Codes /\ \A p \in schema.props : p.code \in Codes

VARIABLES
  reports,  \* report_templates: [state, schema, defaults, kind]
  runs,     \* report_runs: [report, kind, parameters, schema, archived]
  draft,    \* each drafter: what it has read and what it writes
  going,    \* each runner
  mixed,    \* templates that two overlapping updates have written
  updates

reportVars == <<reports, runs, draft, going, mixed, updates>>

Free == [step |-> "free"]
NoReport == [state |-> "none", schema |-> NoSchema, defaults |-> NoDefaults,
             kind |-> CHOOSE k \in ReportKinds : TRUE]

ReportInit ==
  /\ reports = [r \in Reports |-> NoReport] /\ runs = {}
  /\ draft = [d \in Drafters |-> Free] /\ going = [g \in Runners |-> Free]
  /\ mixed = {} /\ updates = 0

-----------------------------------------------------------------------------
(* Parameters *)

\* _is_report_parameter_missing
Missing(params, code) == params[code] \in {Null, Blank, Absent}

\* A blank is a string like any other where values are looked at.
Accepts(props, params) ==
  \A p \in props : params[p.code] \notin {Null, Absent} => params[p.code] \in p.accepts

\* _validate_run_parameters_for_schema; a schema that has no "properties" asks
\* nothing, not even what it requires.
Fits(schema, params) ==
  schema # NoSchema =>
    (schema.lists =>
      /\ \A code \in schema.required : ~Missing(params, code)
      /\ Accepts(schema.props, params))

\* _required_uuid_parameter, _optional_uuid_parameter, _optional_datetime_parameter
\* of the report's type: card_detail needs its card_id.
Readable(kind, params) ==
  /\ \A code \in kind.needs : ~Missing(params, code)
  /\ \A p \in kind.parses : ~Missing(params, p.code) => params[p.code] \in p.accepts

\* _validate_report_default_parameters
DefaultsFit(schema, defaults) == defaults # NoDefaults => Fits(schema, defaults)

\* Mutant: an update that has no defaults leaves those of the template unchecked.
CandidateUnread(read, change) ==
  [schema |-> IF "schema" \in DOMAIN change THEN change.schema ELSE read.schema,
   defaults |-> IF "defaults" \in DOMAIN change THEN change.defaults ELSE NoDefaults]

\* update_template_for_actor: what is checked together
Candidate(read, change) ==
  [schema |-> IF "schema" \in DOMAIN change THEN change.schema ELSE read.schema,
   defaults |-> IF "defaults" \in DOMAIN change THEN change.defaults ELSE read.defaults]

\* generate_report_for_actor: a null that is given hides a default.
Merged(defaults, given) ==
  [c \in Codes |-> IF given[c] = Absent /\ defaults # NoDefaults THEN defaults[c] ELSE given[c]]
NoParameters == [c \in Codes |-> Absent]

-----------------------------------------------------------------------------
(* Templates *)

\* _get_active_template
IsActive(r) == reports[r].state = "active"

MayUpdate == updates < MaxUpdates /\ updates' = updates + 1

\* create_template_for_actor
CreateReport(d) == \E r \in Reports, schema \in Schemas, defaults \in Defaults, kind \in ReportKinds :
  /\ draft[d] = Free /\ reports[r].state = "none"
  /\ DefaultsFit(schema, defaults)
  /\ reports' = [reports EXCEPT ![r] = [state |-> "active", schema |-> schema,
                                        defaults |-> defaults, kind |-> kind]]
  /\ UNCHANGED <<runs, draft, going, mixed, updates>>

\* The columns an update may change
Changes == [schema : Schemas] \cup [defaults : Defaults] \cup [kind : ReportKinds]
             \cup [schema : Schemas, defaults : Defaults]

\* The row with the columns that are written
Written(row, change) ==
  [column \in DOMAIN row |-> IF column \in DOMAIN change THEN change[column] ELSE row[column]]

\* update_template_for_actor, until its transaction commits
BeginUpdate(d) == \E r \in Reports, change \in Changes :
  /\ draft[d] = Free /\ IsActive(r) /\ MayUpdate
  /\ LET candidate == Candidate(reports[r], change)
     IN DOMAIN change # {"kind"} => DefaultsFit(candidate.schema, candidate.defaults)
  /\ draft' = [draft EXCEPT ![d] = [step |-> "update", report |-> r, change |-> change]]
  /\ UNCHANGED <<reports, runs, going, mixed>>

\* The writes of those whose reading came before this commit are mixed with it.
Overlap(d, r) == \E other \in Drafters \ {d} : draft[other].step = "update" /\ draft[other].report = r

CommitUpdate(d) ==
  /\ draft[d].step = "update"
  /\ LET r == draft[d].report IN
       /\ reports' = [reports EXCEPT ![r] = Written(@, draft[d].change)]
       /\ mixed' = IF Overlap(d, r) THEN mixed \cup {r} ELSE mixed
  /\ draft' = [draft EXCEPT ![d] = Free]
  /\ UNCHANGED <<runs, going, updates>>

\* archive_template_for_actor reads before it writes too.
BeginArchiveReport(d) == \E r \in Reports :
  /\ draft[d] = Free /\ IsActive(r) /\ MayUpdate
  /\ draft' = [draft EXCEPT ![d] = [step |-> "archive", report |-> r]]
  /\ UNCHANGED <<reports, runs, going, mixed>>
CommitArchiveReport(d) ==
  /\ draft[d].step = "archive"
  /\ reports' = [reports EXCEPT ![draft[d].report].state = "archived"]
  /\ draft' = [draft EXCEPT ![d] = Free]
  /\ UNCHANGED <<runs, going, mixed, updates>>

-----------------------------------------------------------------------------
(* Runs *)

\* generate_report_for_actor, until its transaction commits: the template that
\* was read stays what it was for the session.
BeginRun(g) == \E r \in Reports, given \in [Codes -> Given \cup {Null, Blank, Absent}] :
  /\ going[g] = Free /\ IsActive(r) /\ Cardinality(runs) < MaxRuns
  /\ LET params == Merged(reports[r].defaults, given) IN
       /\ Fits(reports[r].schema, params) /\ Readable(reports[r].kind, params)
       /\ going' = [going EXCEPT ![g] = [step |-> "run", report |-> r, kind |-> reports[r].kind,
                                         parameters |-> params, schema |-> reports[r].schema]]
  /\ UNCHANGED <<reports, runs, draft, mixed, updates>>

RunOf(work) == [report |-> work.report, kind |-> work.kind, parameters |-> work.parameters,
                schema |-> work.schema, archived |-> FALSE]
CommitRun(g) ==
  /\ going[g].step = "run"
  /\ runs' = runs \cup {RunOf(going[g])} /\ going' = [going EXCEPT ![g] = Free]
  /\ UNCHANGED <<reports, draft, mixed, updates>>

\* A card that is gone, the storage: the file is deleted.
FailRun(g) ==
  /\ going[g].step = "run" /\ going' = [going EXCEPT ![g] = Free]
  /\ UNCHANGED <<reports, runs, draft, mixed, updates>>

\* archive_report_run_for_actor
ArchiveRun == \E run \in runs :
  /\ ~run.archived /\ runs' = (runs \ {run}) \cup {[run EXCEPT !.archived = TRUE]}
  /\ UNCHANGED <<reports, draft, going, mixed, updates>>

ReportNext ==
  \/ \E d \in Drafters : \/ CreateReport(d) \/ BeginUpdate(d) \/ CommitUpdate(d)
                         \/ BeginArchiveReport(d) \/ CommitArchiveReport(d)
  \/ \E g \in Runners : BeginRun(g) \/ CommitRun(g) \/ FailRun(g)
  \/ ArchiveRun

ReportSpec == ReportInit /\ [][ReportNext]_reportVars

-----------------------------------------------------------------------------
(* Properties *)

\* The defaults of a template, all that a run without parameters has, pass the
\* check of that run, whatever part of the template was changed since, unless two
\* updates overlapped: an update checks what it changes together with what it
\* keeps.  (Whether its type of report can read them is not checked by anyone
\* before the run.)
DefaultsPass ==
  \A r \in Reports \ mixed :
    IsActive(r) /\ reports[r].defaults # NoDefaults =>
      Fits(reports[r].schema, Merged(reports[r].defaults, NoParameters))

\* Report template create/update rejects invalid default parameters instead of
\* storing broken run-form state (README.md, Phase 4A Report Foundation API).
NoBrokenDefaults ==
  \A r \in Reports : IsActive(r) => DefaultsFit(reports[r].schema, reports[r].defaults)
=============================================================================
