--------------------------- MODULE AcademicYears ---------------------------
(***************************************************************************)
(* The academic years of one school: academic-years.service.ts and the     *)
(* statements of academic-years.repository.ts.                             *)
(*                                                                         *)
(* A handler checks the dates of a year against the table and then writes  *)
(* in up to three statements: the row inserted or updated, no year         *)
(* current, this year current.  Nothing in the database keeps two years    *)
(* apart or one year current.  A year starts with a term and ends with a   *)
(* term.  Left out: names, checked as the dates are; is_enabled, which no  *)
(* code reads; the longest span; the copies that rollover makes of leave   *)
(* policies.  The row that a handler is about to change is read through    *)
(* the cache, where a copy from before a write may outlive it, as long as  *)
(* ReadThroughCache lets it.                                               *)
(*                                                                         *)
(* pc and local are shared with the modules that extend this one.          *)
(***************************************************************************)
EXTENDS Integers, FiniteSets

CONSTANTS
    Years,      \* ids of rows of academic_years
    Terms,      \* consecutive numbers
    Requests,
    None        \* nothing

ASSUME YearAssumption ==
    /\ Terms \subseteq Int /\ IsFiniteSet(Terms)
    /\ None \notin Years

VARIABLES
    year,       \* table academic_years
    copy,       \* what the cache still holds of rows that were written since
    pc, local,  \* what each request does next and what it has read or was sent
    everCurrent,  \* history: some year was current
    yearsRaced, \* history: a year's dates were written after others had changed, or one of
                \* them beside another one than that it was checked with
    crossed,    \* history: setCurrent began between the statements of another one
    cutYears    \* history: a handler failed between the statements of setCurrent

yearVars == <<year, copy, everCurrent, yearsRaced, crossed, cutYears>>

Spans == Terms \X Terms
Meet(v, w) == v[1] <= w[2] /\ w[1] <= v[2]
Dates == {"start_date", "end_date"}
YearRow == [span : Spans, current : BOOLEAN, frozen : BOOLEAN]
Copy == [span : Spans, frozen : BOOLEAN]
\* span: the dates as they were checked, of which those that were sent are to be written.
YearLocal == [year : Years, span : Spans, sent : SUBSET Dates, current : BOOLEAN,
              known : SUBSET (Years \X Spans)]
YearSteps == {"insertYear", "updateYear", "clearCurrent", "setCurrent"}

YearInit ==
    /\ \E y \in Years, t \in Terms :
          year = [x \in {y} |-> [span |-> <<t, t>>, current |-> TRUE, frozen |-> FALSE]]
    /\ copy = << >>
    /\ everCurrent = TRUE
    /\ yearsRaced = FALSE /\ crossed = FALSE /\ cutYears = FALSE

Goto(r, step, seen) ==
    /\ pc' = [pc EXCEPT ![r] = step]
    /\ local' = [local EXCEPT ![r] = seen]
Finish(r) == Goto(r, "idle", None)

Current == {y \in DOMAIN year : year[y].current}
Others(y) == {<<x, year[x].span>> : x \in DOMAIN year \ {y}}

\* assertValidYear: the dates are in order and overlap no other year.
assertValidYear(y, span) ==
    span[1] <= span[2] /\ \A x \in DOMAIN year \ {y} : ~Meet(year[x].span, span)

Seen(y, span, sent, makeCurrent) ==
    [year |-> y, span |-> span, sent |-> sent, current |-> makeCurrent, known |-> Others(y)]

Row(y) == [span |-> year[y].span, frozen |-> year[y].frozen]
\* findById finds the row, or what the cache still holds of it.
FoundById(y) == {Row(y)} \cup {copy[x] : x \in DOMAIN copy \cap {y}}
\* The cache keeps what year y was before this write, or an older copy that it has.
Outdated(y) ==
    copy' = [x \in DOMAIN copy \cup {y} |-> IF x \in DOMAIN copy THEN copy[x] ELSE Row(x)]

\* delByPattern at the end of a handler, or the copy's time is over.
CopyGoes(y) ==
    /\ y \in DOMAIN copy
    /\ copy' = [x \in DOMAIN copy \ {y} |-> copy[x]]
    /\ UNCHANGED <<year, pc, local, everCurrent, yearsRaced, crossed, cutYears>>

CreateYear(r, y, span, makeCurrent) ==
    /\ pc[r] = "idle"
    /\ y \notin DOMAIN year \cup {local[q].year : q \in {q \in Requests : pc[q] \in YearSteps}}
    /\ assertValidYear(y, span)
    /\ Goto(r, "insertYear", Seen(y, span, Dates, makeCurrent))
    /\ UNCHANGED yearVars

\* The dates that are sent, beside those there are.
Merged(span, sent, new) ==
    <<IF "start_date" \in sent THEN new[1] ELSE span[1],
      IF "end_date" \in sent THEN new[2] ELSE span[2]>>

\* A frozen year is not updated.
UpdateYear(r, y, span, sent, makeCurrent) ==
    /\ pc[r] = "idle" /\ y \in DOMAIN year
    /\ \E existing \in FoundById(y) :
          LET merged == Merged(existing.span, sent, span)
          IN  /\ ~existing.frozen
              /\ sent # {} => assertValidYear(y, merged)
              /\ Goto(r, "updateYear", Seen(y, merged, sent, makeCurrent))
    /\ UNCHANGED yearVars

\* The dates were checked beside other years than there are now, or a date that is not sent
\* is no longer what it was taken for.
Raced(l) ==
    /\ l.sent # {}
    /\ \/ ~(Others(l.year) \subseteq l.known)
       \/ l.year \in DOMAIN year /\ Merged(year[l.year].span, l.sent, l.span) # l.span

AfterWrite(r) ==
    /\ yearsRaced' = (yearsRaced \/ Raced(local[r]))
    /\ IF local[r].current THEN Goto(r, "clearCurrent", local[r]) ELSE Finish(r)
    /\ UNCHANGED <<everCurrent, crossed, cutYears>>

\* repository create: not current yet.
InsertYear(r) ==
    LET l == local[r]
        row == [span |-> l.span, current |-> FALSE, frozen |-> FALSE]
    IN  /\ pc[r] = "insertYear"
        /\ year' = [x \in DOMAIN year \cup {l.year} |-> IF x = l.year THEN row ELSE year[x]]
        /\ AfterWrite(r)
        /\ UNCHANGED copy

\* repository update: a date that was not sent stays as it is now.
WriteYear(r) ==
    LET l == local[r]
        new == Merged(year[l.year].span, l.sent, l.span)
    IN  /\ pc[r] = "updateYear"
        /\ year' = [year EXCEPT ![l.year] = [@ EXCEPT !.span = new]]
        /\ IF l.sent = {} THEN UNCHANGED copy ELSE Outdated(l.year)
        /\ AfterWrite(r)

\* The handler setCurrent, and rollover's first act.
SetCurrentYear(r, y) ==
    /\ pc[r] = "idle" /\ y \in DOMAIN year
    /\ Goto(r, "clearCurrent", Seen(y, year[y].span, {}, TRUE))
    /\ UNCHANGED yearVars

Mutant_OwnOnly(r) ==
    /\ pc[r] = "clearCurrent"
    /\ year' = [year EXCEPT ![local[r].year] = [@ EXCEPT !.current = FALSE]]
    /\ crossed' = (crossed \/ \E q \in Requests : pc[q] = "setCurrent")
    /\ Goto(r, "setCurrent", local[r])
    /\ UNCHANGED <<copy, everCurrent, yearsRaced, cutYears>>
\* The first statement of repository setCurrent ...
ClearCurrent(r) ==
    /\ pc[r] = "clearCurrent"
    /\ year' = [x \in DOMAIN year |-> [year[x] EXCEPT !.current = FALSE]]
    /\ crossed' = (crossed \/ \E q \in Requests : pc[q] = "setCurrent")
    /\ Goto(r, "setCurrent", local[r])
    /\ UNCHANGED <<copy, everCurrent, yearsRaced, cutYears>>

\* ... and the second one.
SetCurrent(r) ==
    /\ pc[r] = "setCurrent"
    /\ year' = [year EXCEPT ![local[r].year] = [@ EXCEPT !.current = TRUE]]
    /\ everCurrent' = TRUE
    /\ Finish(r)
    /\ UNCHANGED <<copy, yearsRaced, crossed, cutYears>>

Freeze(r, y) ==
    /\ pc[r] = "idle" /\ y \in DOMAIN year /\ \E v \in FoundById(y) : ~v.frozen
    /\ Outdated(y)
    /\ year' = [year EXCEPT ![y] = [@ EXCEPT !.frozen = TRUE]]
    /\ UNCHANGED <<pc, local, everCurrent, yearsRaced, crossed, cutYears>>

Unfreeze(r, y) ==
    /\ pc[r] = "idle" /\ y \in DOMAIN year /\ \E v \in FoundById(y) : v.frozen
    /\ Outdated(y)
    /\ year' = [year EXCEPT ![y] = [@ EXCEPT !.frozen = FALSE]]
    /\ UNCHANGED <<pc, local, everCurrent, yearsRaced, crossed, cutYears>>

\* A statement of the handler fails.
YearHandlerFails(r) ==
    /\ pc[r] \in YearSteps
    /\ cutYears' = (cutYears \/ pc[r] = "setCurrent")
    /\ Finish(r)
    /\ UNCHANGED <<year, copy, everCurrent, yearsRaced, crossed>>

YearStart(r) ==
    \/ \E y \in Years, span \in Spans, makeCurrent \in BOOLEAN :
          CreateYear(r, y, span, makeCurrent)
    \/ \E y \in Years, span \in Spans, sent \in SUBSET Dates, makeCurrent \in BOOLEAN :
          UpdateYear(r, y, span, sent, makeCurrent)
    \/ \E y \in Years : SetCurrentYear(r, y) \/ Freeze(r, y) \/ Unfreeze(r, y)

YearContinue(r) ==
    InsertYear(r) \/ WriteYear(r) \/ ClearCurrent(r) \/ SetCurrent(r)

-----------------------------------------------------------------------------
(* Properties.                                                             *)

YearTypeOK ==
    /\ DOMAIN year \subseteq Years /\ year \in [DOMAIN year -> YearRow]
    /\ DOMAIN copy \subseteq DOMAIN year /\ copy \in [DOMAIN copy -> Copy]
    /\ everCurrent \in BOOLEAN /\ yearsRaced \in BOOLEAN
    /\ crossed \in BOOLEAN /\ cutYears \in BOOLEAN

\* academic-years.service.ts:101 and academic-years.repository.ts:98: no two years overlap,
\* unless a year was checked and written while another one was, or a date of it was checked
\* beside one that another update, or a copy in the cache, made out of date; and a school
\* that had a current year has one, and not two, outside setCurrent, unless two of them
\* crossed or one of them broke off.
OneYearAtATime ==
    /\ ~yearsRaced => \A x, y \in DOMAIN year : x # y => ~Meet(year[x].span, year[y].span)
    /\ ~crossed => Cardinality(Current) <= 1
    /\ everCurrent /\ ~crossed /\ ~cutYears /\ (\A r \in Requests : pc[r] # "setCurrent")
          => Current # {}
=============================================================================
