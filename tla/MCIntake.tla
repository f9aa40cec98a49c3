------------------------------- MODULE MCIntake -------------------------------
(* Instances for TLC of what brings data in, workbooks with their references, *)
(* creation links and the calculator of experience, of who is told, of what a *)
(* reviewer is shown, and of the files of AttachmentStorage when every commit *)
(* is answered.                                                               *)
EXTENDS CardImport, CreationLink, Notifications, WorkExperience, ReviewDiff, AttachmentStorage

CONSTANTS Single, Many, Top, Low, Kinds, Posts, OwnPosts, Fio, Kind, Post, Boss, Sub

MCNormal == [s \in {"a", "A", "b"} |-> IF s = "b" THEN "b" ELSE "a"]
MCAbove == [o \in Orgs |-> IF o = Low THEN <<Top>> ELSE <<>>]
MCCodeOf == [l \in Lists |-> IF l = Kinds THEN "kinds" ELSE "posts"]
MCManages == [a \in Actors |-> IF a = Boss THEN Orgs ELSE {Low}]
MCSource == [f \in Fields |-> CASE f = Kind -> Kinds [] f = Post -> Posts [] OTHER -> NoList]
MCActor == [i \in Importers |-> Boss]

\* Empty lists, the first made with a link that is open
EmptyLists == [l \in Lists |->
  [NewList EXCEPT !.state = IF l = OwnPosts THEN "none" ELSE "active",
                  !.via = IF l = Kinds THEN CHOOSE k \in Links : TRUE ELSE NoLink]]

\* A list that replaces another for an organization and those below it
GivenLists(owner) == [l \in Lists |->
  [NewList EXCEPT !.state = "active", !.owner = IF l = OwnPosts THEN owner ELSE NoOrg,
                  !.inherits = l = OwnPosts]]
GivenItems == <<NewItem(Kinds, "a", "own", 0, TRUE), NewItem(OwnPosts, "a", "own", 0, TRUE),
                NewItem(Posts, "a", "own", 0, TRUE)>>

Cell(t) == [text |-> t, code |-> 0]
SheetRow(org, kind, post) ==
  [org |-> org, cells |-> (Fio :> Cell("good")) @@ (Kind :> Cell(kind)) @@ (Post :> Cell(post))]
MCSheets == {<<SheetRow(Top, "a", ""), SheetRow(Low, "A", "")>>,
             <<SheetRow(Low, "b", ""), SheetRow(Low, "a", "")>>,
             <<SheetRow(Low, "", "a"), SheetRow(Top, "a", "a")>>}

MCRuns == [a \in Stewards |-> Offices]
MCFolderOf == [s \in Shares |-> CHOOSE x \in Folders : TRUE]
MCAuthor == [s \in Shares |-> CHOOSE u \in Readers : TRUE]
MCFillable == [t \in CardTemplates |-> {"value"}]

\* Day 425 is 1 March of a leap year.
Never == 900
Period(start, end, weight, counts) ==
  [start |-> start, end |-> end, weight |-> weight, counts |-> counts]
MCHistories == {
  [periods |-> {Period(390, 410, 1, "yes"), Period(405, 424, 1, "yes"), Period(30, 90, 2, "yes")},
   baseline |-> NoBaseline],
  [periods |-> {Period(400, Never, 1, "yes"), Period(421, 430, 1, "no")},
   baseline |-> [y |-> 1, m |-> 11, d |-> 20, confirmed |-> TRUE, asOf |-> 390]],
  [periods |-> {Period(400, Never, 1, "yes"), Period(410, 415, 2, "yes")}, baseline |-> NoBaseline],
  [periods |-> {Period(400, 430, 2, "yes")}, baseline |-> NoBaseline]}
\* The last one is longer than the calendar.
MCEntered == {[y |-> 0, m |-> 0, d |-> 20], [y |-> 1, m |-> 1, d |-> 27], [y |-> 2, m |-> 0, d |-> 0]}

\* A field of a block with one row, and one of a block with many
MCBlockOf == [f \in DiffFields |-> IF f = Single THEN "single" ELSE "many"]

VARIABLE which  \* the part that runs
parts == <<refVars, importVars, creationVars, noticeVars, experienceVars, diffVars, vars>>

ReferenceStarts ==
  \/ RefInit(EmptyLists, <<>>, Links)
  \/ RefInit(GivenLists(Top), GivenItems, {})

MCInit ==
  /\ which \in {"import", "creation", "notices", "experience", "diff", "files"}
  /\ IF which = "import" THEN ReferenceStarts ELSE RefInit(EmptyLists, <<>>, {})
  /\ ImportInit /\ CreationInit /\ ExperienceInit /\ Init
  /\ IF which = "notices" THEN NoticeInit ELSE NoticeInit /\ subs = {}
  /\ DiffInit /\ (which # "diff" => access.fields = {})

MCNext ==
  /\ which' = which
  /\ \/ which = "import" /\ ImportNext
        /\ UNCHANGED <<creationVars, noticeVars, experienceVars, diffVars, vars>>
     \/ which = "creation" /\ CreationNext
        /\ UNCHANGED <<refVars, importVars, noticeVars, experienceVars, diffVars, vars>>
     \/ which = "notices" /\ NoticeNext
        /\ UNCHANGED <<refVars, importVars, creationVars, experienceVars, diffVars, vars>>
     \/ which = "experience" /\ ExperienceNext
        /\ UNCHANGED <<refVars, importVars, creationVars, noticeVars, diffVars, vars>>
     \/ which = "diff" /\ DiffNext
        /\ UNCHANGED <<refVars, importVars, creationVars, noticeVars, experienceVars, vars>>
     \/ which = "files" /\ Next
        /\ UNCHANGED <<refVars, importVars, creationVars, noticeVars, experienceVars, diffVars>>

MCSpec == MCInit /\ [][MCNext]_<<which, parts>>

\* Only one part runs, so one value may be an importer of one part and a request
\* of another, or a clerk and a storage key.
IntakeSymmetry == Permutations(Importers) \cup Permutations(Clerks)
=============================================================================
