---------------------------- MODULE WorkExperience ----------------------------
(***************************************************************************)
(* The length of service of a person: a field of a card that grows by      *)
(* itself (domain/work_experience.py, domain/municipal_service_experience  *)
(* .py, services/municipal_service_experience.py, services/cards.py).      *)
(*                                                                         *)
(* It is stored as an anchor, the day it counts from, or as a calculation: *)
(* periods of service and an initial amount.  What is shown depends on the *)
(* day.  The calculator saves only over the value its user has opened,     *)
(* whose digest it sends back; other writes, of the card form, an import   *)
(* or a public link, know no digest and leave calculations alone.  Each    *)
(* write locks the card until it commits.                                  *)
(*                                                                         *)
(* Days are numbers from 1 January of FirstYear, months from 0.  Formats,  *)
(* identifiers and the texts of warnings are left out.                     *)
(***************************************************************************)
EXTENDS Integers, FiniteSets, FiniteSetsExt

CONSTANTS
  FirstYear,             \* day 0 is its first of January
  FirstDay, EditDays, LastDay,  \* bounds: days the run begins; edits end; the run ends
  Calculators, Writers,  \* sessions of the calculator; other sessions that write the field
  Entered,               \* amounts entered by hand: [y, m, d]
  Histories,             \* calculations entered: [periods, baseline]
  NoBaseline,
  MaxWrites              \* bound: requests that begin to write

Amounts == [y : Nat, m : Nat, d : Nat]
Periods == [start : Nat, end : Nat, weight : 1..2, counts : {"yes", "no", "unfounded"}]

ASSUME ExperienceAssumption ==
  /\ {FirstYear, FirstDay, EditDays, LastDay, MaxWrites} \subseteq Nat
  /\ 0 < FirstDay /\ FirstDay <= EditDays /\ EditDays <= LastDay
  /\ Calculators \cap Writers = {}
  /\ Entered \subseteq Amounts
  /\ \A h \in Histories :
       /\ h = [periods |-> h.periods, baseline |-> h.baseline]
       /\ h.periods \subseteq Periods
       /\ h.baseline # NoBaseline =>
            {h.baseline.y, h.baseline.m, h.baseline.d, h.baseline.asOf} \subseteq Nat

VARIABLES
  today,
  stored,   \* the value of the field
  status,   \* of the card
  ended,    \* the day its person was dismissed, if it was
  form,     \* what each calculator has opened
  request,  \* what each session is about to commit; one of them holds the card
  writes    \* requests so far

experienceVars == <<today, stored, status, ended, form, request, writes>>

-----------------------------------------------------------------------------
(* The calendar *)

IsLeap(y) == y % 4 = 0 /\ (y % 100 # 0 \/ y % 400 = 0)

\* calendar.monthrange
LengthOf(k) ==
  CASE k % 12 \in {3, 5, 8, 10} -> 30
    [] k % 12 = 1 -> IF IsLeap(FirstYear + k \div 12) THEN 29 ELSE 28
    [] OTHER -> 31

DaysBefore == <<0, 31, 59, 90, 120, 151, 181, 212, 243, 273, 304, 334>>
StartOf(k) ==
  LET year == FirstYear + k \div 12
      leaps == {y \in FirstYear..year : IsLeap(y) /\ (y = year => k % 12 > 1)}
  IN 365 * (k \div 12) + DaysBefore[(k % 12) + 1] + Cardinality(leaps)

MonthOf(n) == CHOOSE k \in (n \div 32)..(n \div 28) : StartOf(k) <= n /\ n < StartOf(k) + LengthOf(k)
DayOf(n) == n - StartOf(MonthOf(n))

\* Mutant: a day past the end of the month runs into the next one.
ShiftOver(n, k) == StartOf(MonthOf(n) + k) + DayOf(n)

\* _add_months, _subtract_years, _subtract_months: the last day of the month at most
Shift(n, k) ==
  LET to == MonthOf(n) + k
  IN StartOf(to) + (IF DayOf(n) < LengthOf(to) THEN DayOf(n) ELSE LengthOf(to) - 1)

Amount(months, days) == [y |-> months \div 12, m |-> months % 12, d |-> days]

-----------------------------------------------------------------------------
(* By hand *)

\* anchor_for_experience
Anchor(v, day) == Shift(Shift(day, 0 - 12 * v.y), 0 - v.m) - v.d

\* An amount that leaves the calendar, which begins with FirstYear, is refused.
InCalendar(v, day) == 12 * v.y + v.m <= MonthOf(day) /\ Anchor(v, day) >= 0

\* experience_for_anchor: whole years back from the day, then months, then days
FromAnchor(anchor, day) ==
  LET y == Max({n \in 0..MonthOf(day) \div 12 : n = 0 \/ Shift(day, 0 - 12 * n) >= anchor})
      year == Shift(day, 0 - 12 * y)
      m == Max({n \in 0..MonthOf(year) : n = 0 \/ Shift(year, 0 - n) >= anchor})
  IN [y |-> y, m |-> m, d |-> Shift(year, 0 - m) - anchor]

-----------------------------------------------------------------------------
(* By periods: [start, end, weight, counts]; counts is "yes", "no", or       *)
(* "unfounded" if it is confirmed without the document it needs.             *)

\* _inclusive_duration: whole years forward, then months, then days
Duration(start, end) ==
  LET y == Max({n \in 0..(MonthOf(end + 1) - MonthOf(start)) \div 12 :
                  n = 0 \/ Shift(start, 12 * n) <= end + 1})
      year == Shift(start, 12 * y)
      m == Max({n \in 0..MonthOf(end + 1) - MonthOf(year) : n = 0 \/ Shift(year, n) <= end + 1})
  IN [months |-> 12 * y + m, days |-> end + 1 - Shift(year, m)]

Counted(c) == {p \in c.periods : p.counts = "yes"}

\* Periods of different weight that overlap are left out, whole.
Conflicting(c) == {p \in Counted(c) : \E q \in Counted(c) :
                     p.weight # q.weight /\ p.start <= q.end /\ q.start <= p.end}

\* The merged periods of a weight up to a day: longest runs of days, from the
\* start of a period to the end of one
Merged(c, weight, day) ==
  LET those == {p \in Counted(c) \ Conflicting(c) : p.weight = weight /\ p.start <= day}
      end(p) == Min({p.end, day})
      days == UNION {p.start..end(p) : p \in those}
  IN {run \in {<<p.start, end(q)>> : p \in those, q \in those} :
        /\ run[1] <= run[2] /\ run[1]..run[2] \subseteq days
        /\ run[1] - 1 \notin days /\ run[2] + 1 \notin days}

\* calculate_experience: a month has 30 days in the end.
Calculated(c, day) ==
  LET runs == UNION {{w} \X Merged(c, w, day) : w \in 1..2}
      part(x) == Duration(x[2][1], x[2][2])
      months == FoldFunction(+, 0, [x \in runs |-> x[1] * part(x).months])
      days == FoldFunction(+, 0, [x \in runs |-> x[1] * part(x).days])
      given == IF c.baseline # NoBaseline /\ c.baseline.confirmed THEN c.baseline
               ELSE [y |-> 0, m |-> 0, d |-> 0]
  IN Amount(12 * given.y + given.m + months + (given.d + days) \div 30, (given.d + days) % 30)

\* parse_calculation, and can_save of calculate_experience
CanSave(c, day) ==
  /\ \A p \in c.periods : p.start <= p.end /\ p.counts # "unfounded"
  /\ Conflicting(c) = {}
  /\ c.baseline # NoBaseline =>
       /\ c.baseline.confirmed /\ c.baseline.asOf <= day
       /\ \A p \in Counted(c) : p.start > c.baseline.asOf

-----------------------------------------------------------------------------
(* What is shown *)

\* _experience_effective_date
EffectiveOn(day) == IF status \in {"dismissed", "archived"} /\ ended # -1 THEN Min({day, ended})
                    ELSE day

\* _calculated_experience_result: periods end with the service.
Until(c, last) == [c EXCEPT !.periods =
  {IF p.start > last THEN [p EXCEPT !.counts = "no"]
   ELSE [p EXCEPT !.end = Min({@, last})] : p \in c.periods}]

\* What _read_field_value and calculate_experience do not refuse
IsReadableOn(day) ==
  CASE stored.mode = "manual" -> stored.anchor <= EffectiveOn(day)
    [] stored.mode = "calculated" ->
         stored.calculation.baseline # NoBaseline => stored.calculation.baseline.asOf <= day
    [] OTHER -> TRUE

\* _read_field_value of a value there is
ShownOn(day) ==
  IF stored.mode = "manual" THEN FromAnchor(stored.anchor, EffectiveOn(day))
  ELSE Calculated(IF EffectiveOn(day) < day THEN Until(stored.calculation, EffectiveOn(day))
                  ELSE stored.calculation, day)

-----------------------------------------------------------------------------
(* Writing *)

Idle == [doing |-> "nothing"]
Closed == [mode |-> "closed"]
Sessions == Calculators \cup Writers

ExperienceInit ==
  /\ today = FirstDay /\ stored = [mode |-> "none"] /\ status = "active" /\ ended = -1
  /\ form = [c \in Calculators |-> Closed]
  /\ request = [s \in Sessions |-> Idle]
  /\ writes = 0

\* read, with the revision of the value
OpenForm(c) ==
  /\ form[c] = Closed /\ today <= EditDays /\ writes < MaxWrites
  /\ form' = [form EXCEPT ![c] = stored]
  /\ UNCHANGED <<today, stored, status, ended, request, writes>>

\* _lock_editable_card: no other request has the card.
Holds(s, what) ==
  /\ \A r \in Sessions : request[r] = Idle
  /\ status = "active" /\ today <= EditDays /\ writes < MaxWrites
  /\ writes' = writes + 1
  /\ request' = [request EXCEPT ![s] = what]
  /\ UNCHANGED <<today, stored, status, ended, form>>

\* Mutant: the digest is not compared.
IsOpen(c) == form[c] # Closed

\* _revision(current) = expected_revision
IsCurrent(c) == form[c] = stored

Manual(v, day) == [mode |-> "manual", anchor |-> Anchor(v, day), asOf |-> day, value |-> v]

\* save
BeginCalculation(c) == \E h \in Histories :
  /\ IsCurrent(c) /\ CanSave(h, today)
  /\ Holds(c, [doing |-> "writes", value |-> [mode |-> "calculated", calculation |-> h]])

\* manual, as of any day that is not in the future; the user confirms that a
\* calculation is replaced.
BeginManual(c) == \E v \in Entered, day \in FirstDay - 1..today :
  /\ IsCurrent(c) /\ InCalendar(v, day)
  /\ Holds(c, [doing |-> "writes", value |-> Manual(v, day)])

\* set_field_value_for_actor, set_field_value_from_public_link; see
\* _protect_calculated_experience.
BeginPlain(w) == \E v \in Entered :
  /\ stored.mode # "calculated" /\ InCalendar(v, today)
  /\ Holds(w, [doing |-> "writes", value |-> Manual(v, today)])

\* The value has begun by the day of the dismissal.
HasBegunBy(day) ==
  CASE stored.mode = "manual" -> stored.anchor <= day
    [] stored.mode = "calculated" ->
         stored.calculation.baseline # NoBaseline => stored.calculation.baseline.asOf <= day
    [] OTHER -> TRUE

\* dismiss_card_for_actor, on a day past or to come
BeginDismiss(w) == \E day \in today - 2..today + 1 :
  /\ HasBegunBy(day)
  /\ Holds(w, [doing |-> "dismisses", day |-> day])

\* archive_card_for_actor; a dismissed card may be archived too.
ArchiveCard ==
  /\ \A r \in Sessions : request[r] = Idle
  /\ status \in {"active", "dismissed"} /\ status' = "archived" /\ today <= EditDays
  /\ UNCHANGED <<today, stored, ended, form, request, writes>>

Commit(s) ==
  /\ \/ /\ request[s].doing = "writes" /\ stored' = request[s].value
        /\ UNCHANGED <<status, ended>>
     \/ /\ request[s].doing = "dismisses" /\ status' = "dismissed" /\ ended' = request[s].day
        /\ UNCHANGED stored
  /\ request' = [request EXCEPT ![s] = Idle]
  /\ form' = [c \in Calculators |-> IF c = s THEN Closed ELSE form[c]]
  /\ UNCHANGED <<today, writes>>

\* A form is closed, or a request fails.
GiveUp(s) ==
  /\ request[s] # Idle \/ (s \in Calculators /\ form[s] # Closed)
  /\ request' = [request EXCEPT ![s] = Idle]
  /\ form' = [c \in Calculators |-> IF c = s THEN Closed ELSE form[c]]
  /\ UNCHANGED <<today, stored, status, ended, writes>>

\* Requests of one day end on it, forms stay open.
NextDay ==
  /\ \A s \in Sessions : request[s] = Idle
  /\ today < LastDay /\ today' = today + 1
  /\ UNCHANGED <<stored, status, ended, form, request, writes>>

ExperienceNext ==
  \/ NextDay \/ ArchiveCard
  \/ \E s \in Sessions : Commit(s) \/ GiveUp(s)
  \/ \E c \in Calculators : OpenForm(c) \/ BeginCalculation(c) \/ BeginManual(c)
  \/ \E w \in Writers : BeginPlain(w) \/ BeginDismiss(w)

ExperienceSpec == ExperienceInit /\ [][ExperienceNext]_experienceVars

-----------------------------------------------------------------------------
(* Properties *)

AtLeast(a, b) == \/ a.y > b.y
                 \/ a.y = b.y /\ a.m > b.m
                 \/ a.y = b.y /\ a.m = b.m /\ a.d >= b.d

\* From one day to the next what is shown never shrinks, whatever the lengths
\* of months, weights and rounding; once the service has ended it stays.  What
\* is stored can be read, after a dismissal too.
ExperienceOnlyGrows ==
  stored.mode # "none" =>
    /\ IsReadableOn(today)
    /\ AtLeast(ShownOn(today + 1), ShownOn(today))
    /\ EffectiveOn(today + 1) = EffectiveOn(today) => ShownOn(today + 1) = ShownOn(today)

\* Whoever writes at the same time, the calculator replaces only the value its
\* user had opened, and nothing else ever replaces a calculation.
NoLostCalculation ==
  [][stored' # stored =>
       \E s \in Sessions :
         /\ request[s].doing = "writes" /\ stored' = request[s].value
         /\ IF s \in Calculators THEN form[s] = stored ELSE stored.mode # "calculated"]_experienceVars
=============================================================================
