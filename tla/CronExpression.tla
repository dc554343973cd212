---------------------------- MODULE CronExpression ----------------------------
(***************************************************************************)
(* CronExpression.next_run (scheduler.py): the search for the first minute  *)
(* after a given one that the five fields of an expression match.  The      *)
(* search jumps: to the next month that matches, to the next day, to the    *)
(* next hour, and at last to the minute; each jump is one turn of its loop. *)
(* The arithmetic of datetime is a table of the minutes there are.          *)
(***************************************************************************)
EXTENDS Naturals, FiniteSets

CONSTANTS
  Calendar,  \* of each minute, counted from 0, its fields and its year
  Cycle      \* minutes the search may begin in

VARIABLES
  cron,   \* the values each field matches
  after,  \* the minute searched from
  at,     \* the minute the search has reached
  state   \* "search", "found" or "raised"

vars == <<cron, after, at, state>>

\* The minutes searched: four years in the code's words, as many turns in its loop.
Minutes == DOMAIN Calendar
End == Cardinality(Minutes)

Fields == {"minute", "hour", "day", "month", "weekday"}
Values(field) == {Calendar[t][field] : t \in Minutes}

\* What a parsed field is: some of the values of its range.
Cron ==
  [minute: (SUBSET Values("minute")) \ {{}}, hour: (SUBSET Values("hour")) \ {{}},
   day: (SUBSET Values("day")) \ {{}}, month: (SUBSET Values("month")) \ {{}},
   weekday: (SUBSET Values("weekday")) \ {{}}]

TypeOK ==
  /\ cron \in Cron
  /\ after \in Minutes /\ at \in 0 .. End
  /\ state \in {"search", "found", "raised"}

\* The search begins one minute later.
Init ==
  /\ cron \in Cron
  /\ after \in Cycle
  /\ at = after + 1 /\ state = "search"

-----------------------------------------------------------------------------
Matches(field) == Calendar[at][field] \in cron[field]

\* CronField.first, and next_after where it is not None.
First(values) == CHOOSE v \in values : \A w \in values : v =< w
From(field, value) == {v \in cron[field] : v >= value}

\* The minute with these fields, or the end where there is none.
Minute(year, month, day, hour) ==
  LET there == {t \in Minutes : LET c == Calendar[t] IN
                  /\ c.year = year /\ c.month = month /\ c.day = day
                  /\ c.hour = hour /\ c.minute = 0}
  IN IF there = {} THEN End ELSE CHOOSE t \in there : TRUE

SameDay(s, t) ==
  LET c == Calendar[s]
      d == Calendar[t] IN
  c.year = d.year /\ c.month = d.month /\ c.day = d.day

ThisDay(hour) == Minute(Calendar[at].year, Calendar[at].month, Calendar[at].day, hour)

\* timedelta(days=1), at this hour.
NextDay(hour) ==
  LET later == {t \in Minutes : /\ t > at /\ ~SameDay(at, t)
                                /\ Calendar[t].hour = hour /\ Calendar[t].minute = 0}
  IN IF later = {} THEN End ELSE First(later)

Searching == state = "search" /\ at < End

Turn(next) ==
  /\ at' = next /\ UNCHANGED <<cron, after, state>>

\* The first day of the next month that matches, of this year or of the next.
JumpMonth ==
  LET year == Calendar[at].year
      later == From("month", Calendar[at].month) IN
  /\ Searching /\ ~Matches("month")
  /\ Turn(IF later # {} THEN Minute(year, First(later), 1, 0)
          ELSE Minute(year + 1, First(cron["month"]), 1, 0))

\* Midnight, as a day matches by its number and by its weekday.
JumpDay ==
  /\ Searching /\ Matches("month")
  /\ ~Matches("day") \/ ~Matches("weekday")
  /\ Turn(NextDay(0))

OnDay == Matches("month") /\ Matches("day") /\ Matches("weekday")

JumpHour ==
  LET later == From("hour", Calendar[at].hour) IN
  /\ Searching /\ OnDay /\ ~Matches("hour")
  /\ Turn(IF later # {} THEN ThisDay(First(later)) ELSE NextDay(First(cron["hour"])))

\* A slip for TLC: the hour looked for is not a later one.
SlipLaterHours == From("hour", Calendar[at].hour)

LaterHours == From("hour", Calendar[at].hour + 1)

\* No minute of this hour is left: a later hour, or the first one tomorrow.
LeaveHour ==
  /\ Searching /\ OnDay /\ Matches("hour")
  /\ From("minute", Calendar[at].minute) = {}
  /\ Turn(IF LaterHours # {} THEN ThisDay(First(LaterHours)) ELSE NextDay(First(cron["hour"])))

Found ==
  LET later == From("minute", Calendar[at].minute) IN
  /\ Searching /\ OnDay /\ Matches("hour") /\ later # {}
  /\ at' = at - Calendar[at].minute + First(later) /\ state' = "found"
  /\ UNCHANGED <<cron, after>>

\* RuntimeError, after so many turns.
Raise ==
  /\ state = "search" /\ at >= End
  /\ state' = "raised"
  /\ UNCHANGED <<cron, after, at>>

Next == JumpMonth \/ JumpDay \/ JumpHour \/ LeaveHour \/ Found \/ Raise

Spec == Init /\ [][Next]_vars

-----------------------------------------------------------------------------
(* Properties. *)

\* What an expression promises of a minute.
Matched(t) == \A field \in Fields : Calendar[t][field] \in cron[field]

\* The run found is the first minute after the given one that every field matches,
\* over ends of hours, days, months and years and months of different lengths, and
\* the search goes on for as long as there is one (CronExpression.next_run).
NextIsFirst ==
  state # "search" =>
    /\ state = "found" => at > after /\ Matched(at)
    /\ \A t \in after + 1 .. at - 1 : t < End => ~Matched(t)
=============================================================================
