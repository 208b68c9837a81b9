----------------------------- MODULE PatchWindow ----------------------------
(***************************************************************************)
(* The window of ValidatePatchWindow (internal/policy/window.go) against a *)
(* calendar that is walked day by day from a zero-day: the arithmetic on   *)
(* build dates has to agree with the lengths of the months.                *)
(***************************************************************************)
EXTENDS Policy

CONSTANTS
    Windowed,           \* a component with a patch window
    Exempt,             \* a component without one
    Years,              \* the years there are tags of
    StartDays,          \* the zero-days the walks start from
    Walk                \* bound: the days of a walk

VARIABLES
    start,              \* the zero-day the walk starts from, as yyyymmdd, or 0
    day,                \* the day the calendar has reached, as yyyymmdd
    elapsed             \* how many days after the start that is

windowVars == <<start, day, elapsed>>

Date(y, m, d) == 10000 * y + 100 * m + d
YearOf(date) == date \div 10000

\* The length of each month.
MonthLength(y, m) ==
    LET leap == y % 400 = 0 \/ (y % 4 = 0 /\ y % 100 # 0)
    IN  <<31, IF leap THEN 29 ELSE 28, 31, 30, 31, 30, 31, 31, 30, 31, 30, 31>>[m]

Days == UNION {{Date(y, m, d) : d \in 1..MonthLength(y, m)} : y \in Years, m \in 1..12}

\* What the digits of a month and of a day of a tag may read, dates or not.
MonthDigits == 0..13
DayDigits == 0..32

\* Every number that looks like a date is the build number of a tag.
ASSUME WindowAssumption ==
    /\ Years \subseteq Nat /\ \A y \in Years : 0 < y /\ y < 10000
    /\ \A y \in Years, m \in MonthDigits, d \in DayDigits :
         Date(y, m, d) \in TagName /\ ParseTag[Date(y, m, d)].ok
                                   /\ ParseTag[Date(y, m, d)].build = Date(y, m, d)
    /\ StartDays \subseteq Days
    /\ Windowed \notin PatchWindowExempt /\ Exempt \in PatchWindowExempt

NextDay(date) ==
    LET y == YearOf(date)
        m == (date \div 100) % 100
    IN  IF date % 100 < MonthLength(y, m) THEN date + 1
        ELSE IF m < 12 THEN Date(y, m + 1, 1)
        ELSE Date(y + 1, 1, 1)

WindowInit == start = 0 /\ day = 0 /\ elapsed = 0

WalkStarts ==
    /\ start = 0
    /\ start' \in StartDays
    /\ day' = start'
    /\ UNCHANGED elapsed

Tomorrow ==
    /\ start # 0 /\ elapsed < Walk
    /\ YearOf(NextDay(day)) \in Years
    /\ day' = NextDay(day)
    /\ elapsed' = elapsed + 1
    /\ UNCHANGED start

WindowSpec == WindowInit /\ [][WalkStarts \/ Tomorrow]_windowVars

-----------------------------------------------------------------------------
(* Properties                                                              *)

\* A tag built on the 45th day after the zero-day is inside the window, one built on the 46th
\* is not, across the ends of months, years and Februaries; an exempt component has no window.
WindowClosesAfter45Days ==
    start # 0 =>
        /\ ValidatePatchWindow(Windowed, day, BuildDate(start)) = "OK" <=> elapsed <= 45
        /\ ValidatePatchWindow(Exempt, day, BuildDate(start)) = "OK"

\* The next number after a date is a date as well exactly when it is the next day, so no
\* 31 February opens or closes a window.
OnlyDatesAreBuildDates ==
    start # 0 => /\ HasBuildDate(day)
                 /\ HasBuildDate(day + 1) <=> day + 1 = NextDay(day)
=============================================================================
