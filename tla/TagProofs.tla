------------------------------ MODULE TagProofs -----------------------------
(***************************************************************************)
(* The rules on tags, for any tags, registries, limits and listings:       *)
(*   - the comparison of tags is a total order;                            *)
(*   - the window counts days and closes after 45 of them;                 *)
(*   - a listing skips nothing and ends unauthorized only at a registry    *)
(*     that denies every token;                                            *)
(*   - what the CLI selects from a listing agrees with the rules of the    *)
(*     controller.                                                         *)
(***************************************************************************)
EXTENDS TagSelection, PatchWindow, SequenceTheorems, FoldLemmas

-----------------------------------------------------------------------------
(* CompareTags is a lexicographic comparison                               *)

Keys == [1..8 -> Int]

\* l and r agree before field i and l is the smaller one there.
Below(l, r, i) == i \in 1..8 /\ l[i] < r[i] /\ \A j \in 1..8 : j < i => l[j] = r[j]

LEMMA TagKeys == \A t \in Tag : TagKey(t) \in Keys
BY SMT DEF Tag, TagKey, Keys

\* Two keys that differ have a first field in which they do.
LEMMA FirstDifference ==
    ASSUME NEW l \in Keys, NEW r \in Keys, NEW i \in 1..8, l[i] # r[i]
    PROVE  \E k \in 1..8 : l[k] # r[k] /\ \A j \in 1..8 : j < k => l[j] = r[j]
BY SMT DEF Keys

LEMMA Compared ==
    ASSUME NEW s \in Tag, NEW t \in Tag
    PROVE  /\ CompareTags(s, t) \in {-1, 0, 1}
           /\ CompareTags(s, t) = -1 <=> \E i \in 1..8 : Below(TagKey(s), TagKey(t), i)
           /\ CompareTags(s, t) = 1 <=> \E i \in 1..8 : Below(TagKey(t), TagKey(s), i)
           /\ CompareTags(s, t) = 0 <=> \A i \in 1..8 : TagKey(s)[i] = TagKey(t)[i]
<1> DEFINE l == TagKey(s)
           r == TagKey(t)
           differ == {i \in 1..8 : l[i] # r[i]}
           first == CHOOSE i \in differ : \A j \in differ : i <= j
<1>1. l \in Keys /\ r \in Keys
  BY TagKeys
<1>2. CompareTags(s, t) = IF differ = {} THEN 0 ELSE compareInt(l[first], r[first])
  BY DEF CompareTags
<1> HIDE DEF l, r
<1>3. CASE differ = {}
  <2>1. \A i \in 1..8 : l[i] = r[i]
    BY <1>3
  <2>2. \A i \in 1..8 : ~Below(l, r, i) /\ ~Below(r, l, i)
    BY <2>1, <1>1 DEF Below, Keys
  <2>3. CompareTags(s, t) = 0
    BY <1>2, <1>3
  <2> QED BY <2>1, <2>2, <2>3 DEF l, r
<1>4. CASE differ # {}
  <2>1. PICK k \in 1..8 : l[k] # r[k] /\ \A j \in 1..8 : j < k => l[j] = r[j]
    BY <1>1, <1>4, FirstDifference
  <2>2. k \in differ /\ \A j \in differ : k <= j
    BY <2>1
  <2>3. first \in differ /\ \A j \in differ : first <= j
    <3> HIDE DEF differ
    <3> QED BY <2>2
  <2>4. first = k
    BY <2>2, <2>3
  <2>5. CompareTags(s, t) = compareInt(l[k], r[k])
    BY <1>2, <1>4, <2>4
  <2>6. \A i \in 1..8 : Below(l, r, i) \/ Below(r, l, i) => i = k
    BY <1>1, <2>1 DEF Below, Keys
  <2>7. l[k] \in Int /\ r[k] \in Int
    BY <1>1, <2>1 DEF Keys
  <2>8. CASE l[k] < r[k]
    <3>1. Below(l, r, k) /\ ~Below(r, l, k)
      BY <2>1, <2>7, <2>8 DEF Below
    <3>2. CompareTags(s, t) = -1
      BY <2>5, <2>7, <2>8 DEF compareInt
    <3> QED BY <2>1, <2>6, <3>1, <3>2 DEF l, r
  <2>9. CASE l[k] > r[k]
    <3>1. Below(r, l, k) /\ ~Below(l, r, k)
      BY <2>1, <2>7, <2>9 DEF Below
    <3>2. CompareTags(s, t) = 1
      BY <2>5, <2>7, <2>9 DEF compareInt
    <3> QED BY <2>1, <2>6, <3>1, <3>2 DEF l, r
  <2> QED BY <2>1, <2>7, <2>8, <2>9
<1> QED BY <1>3, <1>4

LEMMA BelowTransitive ==
    ASSUME NEW k \in Keys, NEW l \in Keys, NEW m \in Keys, NEW i \in 1..8, NEW j \in 1..8,
           Below(k, l, i), Below(l, m, j)
    PROVE  \E h \in 1..8 : Below(k, m, h)
<1>1. CASE i <= j
  <2>1. Below(k, m, i)
    BY <1>1 DEF Below, Keys
  <2> QED BY <2>1
<1>2. CASE j < i
  <2>1. Below(k, m, j)
    BY <1>2 DEF Below, Keys
  <2> QED BY <2>1
<1> QED BY <1>1, <1>2

\* OrderTags sorts with CompareTags.  Whatever the tags of a repository, it is a strict total
\* order on them: build, version, flavor and name never contradict each other, two names are
\* never equal, and so the listing does not depend on the order of the registry's answers.
THEOREM TagsAreOrdered ==
    /\ \A t \in TagName : ~Newer(t, t)
    /\ \A t, u \in TagName : t # u => (Newer(t, u) <=> ~Newer(u, t))
    /\ \A t, u, v \in TagName : Newer(t, u) /\ Newer(u, v) => Newer(t, v)
<1>1. \A t \in TagName : ParseTag[t] \in Tag /\ ParseTag[t].name = t
  BY ParseTagAssumption
<1>2. \A s, t \in Tag : CompareTags(s, t) > 0 <=> \E i \in 1..8 : Below(TagKey(t), TagKey(s), i)
  BY Compared
<1>3. \A s, t \in Tag : CompareTags(s, t) = -1 <=> CompareTags(t, s) = 1
  BY Compared
<1>4. ASSUME NEW t \in TagName PROVE ~Newer(t, t)
  BY <1>1, <1>3, Compared DEF Newer
<1>5. ASSUME NEW t \in TagName, NEW u \in TagName, t # u PROVE Newer(t, u) <=> ~Newer(u, t)
  <2>1. TagKey(ParseTag[t])[8] # TagKey(ParseTag[u])[8]
    BY <1>1, <1>5 DEF TagKey
  <2>2. CompareTags(ParseTag[t], ParseTag[u]) # 0
    BY <1>1, <2>1, Compared
  <2> QED BY <1>1, <1>3, <2>2, Compared DEF Newer
<1>6. ASSUME NEW t \in TagName, NEW u \in TagName, NEW v \in TagName, Newer(t, u), Newer(u, v)
      PROVE  Newer(t, v)
  <2>1. PICK i \in 1..8 : Below(TagKey(ParseTag[u]), TagKey(ParseTag[t]), i)
    BY <1>1, <1>2, <1>6 DEF Newer
  <2>2. PICK j \in 1..8 : Below(TagKey(ParseTag[v]), TagKey(ParseTag[u]), j)
    BY <1>1, <1>2, <1>6 DEF Newer
  <2>3. \E h \in 1..8 : Below(TagKey(ParseTag[v]), TagKey(ParseTag[t]), h)
    BY <1>1, <2>1, <2>2, TagKeys, BelowTransitive
  <2> QED BY <1>1, <1>2, <2>3 DEF Newer
<1> QED BY <1>4, <1>5, <1>6

-----------------------------------------------------------------------------
(* One set of rules                                                        *)

\* Given a target that is newer than the running tag, the release lines the CLI accepts for an
\* explicit --tag are those ValidateAgainstBaseline accepts for spec.tag with the running tag as
\* the baseline: the two are written separately, with IsNewerMinorRelease in one of them only.
THEOREM LinesAgree ==
    ASSUME NEW current \in TagName, NEW target \in TagName,
           ParseTag[current].ok, ParseTag[target].ok
    PROVE  ValidateAgainstBaseline(current, target) = "OK"
             <=> Newer(target, current) /\ CheckLine(current, target, TRUE).reason = "OK"
<1>1. ParseTag[current] \in Tag /\ ParseTag[target] \in Tag
  BY ParseTagAssumption
<1>2. CompareTags(ParseTag[target], ParseTag[current]) \in {-1, 0, 1}
  BY <1>1, Compared
<1>3. CheckLine(current, target, TRUE).reason = "OK" <=> SameLine(current, target)
  BY <1>1 DEF CheckLine, Refused, SameLine, IsNewerMinorRelease, Tag
<1>4. ValidateAgainstBaseline(current, target) = "OK"
        <=> /\ CompareTags(ParseTag[target], ParseTag[current]) > 0
            /\ SameLine(current, target)
  BY <1>1, <1>2 DEF ValidateAgainstBaseline, SameLine, Tag
<1> QED BY <1>3, <1>4 DEF Newer

-----------------------------------------------------------------------------
(* The days the window counts                                              *)

\* DayNumber counts days: the day after any day of any year has the next number, across the ends
\* of months, of years and of every February, so that a window of 45 days ends after 45 days.
THEOREM DaysAreCounted ==
    ASSUME NEW y \in Nat \ {0}, NEW m \in 1..12
    PROVE  /\ \A d \in Nat : DayNumber(y, m, d + 1) = DayNumber(y, m, d) + 1
           /\ m < 12 => DayNumber(y, m + 1, 1) = DayNumber(y, m, DaysInMonth(y, m)) + 1
           /\ DayNumber(y + 1, 1, 1) = DayNumber(y, 12, DaysInMonth(y, 12)) + 1
<1>1. \A d \in Nat : DayNumber(y, m, d + 1) = DayNumber(y, m, d) + 1
  BY SMT DEF DayNumber
<1>2. DayNumber(y + 1, 1, 1) = DayNumber(y, 12, DaysInMonth(y, 12)) + 1
  BY SMT DEF DayNumber, DaysInMonth
<1>3. ASSUME m # 2, m < 12
      PROVE  DayNumber(y, m + 1, 1) = DayNumber(y, m, DaysInMonth(y, m)) + 1
  BY <1>3, SMT DEF DayNumber, DaysInMonth
<1>4. DayNumber(y, 3, 1) = DayNumber(y, 2, DaysInMonth(y, 2)) + 1
  <2>1. CASE LeapYear(y)
    BY <2>1, SMT DEF DayNumber, DaysInMonth, LeapYear
  <2>2. CASE ~LeapYear(y)
    BY <2>2, SMT DEF DayNumber, DaysInMonth, LeapYear
  <2> QED BY <2>1, <2>2
<1> QED BY <1>1, <1>2, <1>3, <1>4

LEMMA DigitRanges ==
    /\ \A m : m \in MonthDigits <=> m \in Nat /\ m <= 13
    /\ \A d : d \in DayDigits <=> d \in Nat /\ d <= 32
BY DEF MonthDigits, DayDigits

\* The digits of a number that looks like a date.
LEMMA DateDigits ==
    ASSUME NEW y \in Nat, NEW m \in Nat, NEW d \in Nat, 0 < y, m <= 13, d <= 32
    PROVE  /\ Date(y, m, d) \in Nat /\ Date(y, m, d) > 0
           /\ YearOf(Date(y, m, d)) = y /\ Date(y, m, d) \div 10000 = y
           /\ (Date(y, m, d) \div 100) % 100 = m /\ Date(y, m, d) % 100 = d
<1>1. 100 * y + m \in Nat /\ Date(y, m, d) = 100 * (100 * y + m) + d
  BY SMT DEF Date
<1>2. Date(y, m, d) \in Nat /\ Date(y, m, d) > 0
  BY SMT DEF Date
<1>3. Date(y, m, d) \div 100 = 100 * y + m /\ Date(y, m, d) % 100 = d
  BY <1>1, SMT
<1>4. (100 * y + m) % 100 = m /\ Date(y, m, d) \div 10000 = y
  BY SMT DEF Date
<1> QED BY <1>2, <1>3, <1>4, SMT DEF YearOf

LEMMA MonthsAgree ==
    ASSUME NEW y \in Nat, NEW m \in 1..12
    PROVE  MonthLength(y, m) = DaysInMonth(y, m) /\ MonthLength(y, m) \in 28..31
<1> DEFINE leap == y % 400 = 0 \/ (y % 4 = 0 /\ y % 100 # 0)
<1>1. leap <=> LeapYear(y)
  BY DEF LeapYear
<1>2. MonthLength(y, m)
        = <<31, IF leap THEN 29 ELSE 28, 31, 30, 31, 30, 31, 31, 30, 31, 30, 31>>[m]
  BY DEF MonthLength
<1> HIDE DEF leap
<1>3. m = 1 \/ m = 2 \/ m = 3 \/ m = 4 \/ m = 5 \/ m = 6
      \/ m = 7 \/ m = 8 \/ m = 9 \/ m = 10 \/ m = 11 \/ m = 12
  OBVIOUS
<1> QED BY <1>1, <1>2, <1>3 DEF DaysInMonth

\* A number that looks like a date is the build date of a tag when it is one.
LEMMA DateTag ==
    ASSUME NEW y \in Years, NEW m \in MonthDigits, NEW d \in DayDigits
    PROVE  /\ HasBuildDate(Date(y, m, d)) <=> m \in 1..12 /\ d >= 1 /\ d <= DaysInMonth(y, m)
           /\ BuildDate(Date(y, m, d)) = DayNumber(y, m, d)
<1> DEFINE t == Date(y, m, d)
<1>1. y \in Nat /\ 0 < y /\ y < 10000 /\ ParseTag[t].ok /\ ParseTag[t].build = t
  BY WindowAssumption
<1>2. m \in Nat /\ d \in Nat /\ m <= 13 /\ d <= 32
  BY DigitRanges
<1>3. t \in Nat /\ t > 0 /\ t \div 10000 = y /\ (t \div 100) % 100 = m /\ t % 100 = d
  BY <1>1, <1>2, DateDigits
<1>4. t < 100000000
  BY <1>1, <1>2, SMT DEF Date
<1> HIDE DEF t
<1>5. HasBuildDate(t) <=> m \in 1..12 /\ d >= 1 /\ d <= DaysInMonth(y, m)
  BY <1>1, <1>3, <1>4, SMT DEF HasBuildDate, IsBuildDate
<1>6. BuildDate(t) = DayNumber(y, m, d)
  BY <1>1, <1>3, SMT DEF BuildDate
<1> QED BY <1>5, <1>6 DEF t

LEMMA DayIs ==
    ASSUME NEW y \in Years, NEW m \in 1..12, NEW d \in 1..MonthLength(y, m)
    PROVE  Date(y, m, d) \in Days
<1> DEFINE month(h, n) == {Date(h, n, e) : e \in 1..MonthLength(h, n)}
<1>1. Date(y, m, d) \in month(y, m)
  OBVIOUS
<1>2. Days = UNION {month(h, n) : h \in Years, n \in 1..12}
  BY DEF Days
<1> HIDE DEF month
<1>3. month(y, m) \in {month(h, n) : h \in Years, n \in 1..12}
  OBVIOUS
<1> QED BY <1>1, <1>2, <1>3

LEMMA DayOf ==
    ASSUME NEW t \in Days
    PROVE  \E y \in Years, m \in 1..12 : \E d \in 1..MonthLength(y, m) : t = Date(y, m, d)
BY DEF Days

\* The same for a year there are tags of, which is the form the walk needs.
LEMMA DatesOfYears ==
    ASSUME NEW y \in Years, NEW m \in MonthDigits, NEW d \in DayDigits
    PROVE  /\ YearOf(Date(y, m, d)) = y
           /\ (Date(y, m, d) \div 100) % 100 = m
           /\ Date(y, m, d) % 100 = d
           /\ Date(y, m, d) \in Nat /\ Date(y, m, d) > 0
<1>1. y \in Nat /\ 0 < y
  BY WindowAssumption
<1>2. m \in Nat /\ d \in Nat /\ m <= 13 /\ d <= 32
  BY DigitRanges
<1> QED BY <1>1, <1>2, DateDigits

LEMMA MonthsOfYears ==
    ASSUME NEW y \in Years, NEW m \in 1..12
    PROVE  /\ MonthLength(y, m) = DaysInMonth(y, m) /\ MonthLength(y, m) \in 28..31
           /\ y \in Nat /\ 0 < y /\ y # 0 /\ y \in Nat \ {0} /\ m \in MonthDigits
<1>1. y \in Nat /\ 0 < y
  BY WindowAssumption
<1>2. m \in Nat /\ m <= 13
  OBVIOUS
<1>3. MonthLength(y, m) = DaysInMonth(y, m) /\ MonthLength(y, m) \in 28..31
  BY <1>1, MonthsAgree
<1> QED BY <1>1, <1>2, <1>3, DigitRanges

LEMMA NextDayOf ==
    ASSUME NEW y \in Years, NEW m \in 1..12, NEW d \in DayDigits
    PROVE  NextDay(Date(y, m, d)) = IF d < MonthLength(y, m) THEN Date(y, m, d) + 1
                                    ELSE IF m < 12 THEN Date(y, m + 1, 1)
                                    ELSE Date(y + 1, 1, 1)
<1> DEFINE t == Date(y, m, d)
<1>1. m \in MonthDigits
  BY MonthsOfYears
<1>2. YearOf(t) = y /\ (t \div 100) % 100 = m /\ t % 100 = d
  BY <1>1, DatesOfYears
<1> HIDE DEF t
<1>3. NextDay(t) = IF d < MonthLength(y, m) THEN t + 1
                   ELSE IF m < 12 THEN Date(y, m + 1, 1)
                   ELSE Date(y + 1, 1, 1)
  BY <1>2, Zenon DEF NextDay
<1> QED BY <1>3, Zenon DEF t

\* The next day is a day of the calendar, one day later, and a date like every day.
LEMMA NextDays ==
    ASSUME NEW t \in Days
    PROVE  /\ HasBuildDate(t)
           /\ HasBuildDate(t + 1) <=> t + 1 = NextDay(t)
           /\ YearOf(NextDay(t)) \in Years =>
                NextDay(t) \in Days /\ BuildDate(NextDay(t)) = BuildDate(t) + 1
<1>0. PICK y \in Years, m \in 1..12 : \E d \in 1..MonthLength(y, m) : t = Date(y, m, d)
  BY DayOf
<1>1. PICK d \in 1..MonthLength(y, m) : t = Date(y, m, d)
  BY <1>0
<1>2. /\ y \in Nat /\ 0 < y /\ y \in Nat \ {0} /\ m \in MonthDigits
      /\ MonthLength(y, m) = DaysInMonth(y, m) /\ MonthLength(y, m) \in 28..31
  BY MonthsOfYears
<1>3. /\ d \in Nat /\ d >= 1 /\ d <= DaysInMonth(y, m)
      /\ d \in DayDigits /\ d + 1 \in DayDigits /\ 1 \in DayDigits /\ 1 \in MonthDigits
  <2>1. d \in Nat /\ d >= 1 /\ d <= MonthLength(y, m) /\ d + 1 \in Nat /\ d + 1 <= 32
    BY <1>2
  <2> QED BY <1>2, <2>1, DigitRanges
<1>4. HasBuildDate(t) /\ BuildDate(t) = DayNumber(y, m, d)
  BY <1>1, <1>2, <1>3, DateTag
<1>5. t + 1 = Date(y, m, d + 1)
  BY <1>1, <1>2, <1>3, SMT DEF Date
<1>6. HasBuildDate(t + 1) <=> d + 1 <= DaysInMonth(y, m)
  <2>1. HasBuildDate(Date(y, m, d + 1)) <=>
          m \in 1..12 /\ d + 1 >= 1 /\ d + 1 <= DaysInMonth(y, m)
    BY <1>2, <1>3, DateTag
  <2> QED BY <1>3, <1>5, <2>1
<1>7. NextDay(t) = IF d < MonthLength(y, m) THEN t + 1
                   ELSE IF m < 12 THEN Date(y, m + 1, 1)
                   ELSE Date(y + 1, 1, 1)
  BY <1>1, <1>3, NextDayOf
<1>8. CASE d < MonthLength(y, m)
  <2>1. NextDay(t) = t + 1 /\ d + 1 \in 1..MonthLength(y, m) /\ d + 1 <= DaysInMonth(y, m)
    BY <1>2, <1>3, <1>7, <1>8
  <2>2. NextDay(t) \in Days
    BY <1>5, <2>1, DayIs
  <2>3. BuildDate(Date(y, m, d + 1)) = DayNumber(y, m, d + 1)
    BY <1>2, <1>3, DateTag
  <2>4. DayNumber(y, m, d + 1) = DayNumber(y, m, d) + 1
    BY <1>2, <1>3, DaysAreCounted
  <2> QED BY <1>4, <1>5, <1>6, <2>1, <2>2, <2>3, <2>4
<1>9. CASE d = MonthLength(y, m) /\ m < 12
  <2>1. NextDay(t) = Date(y, m + 1, 1) /\ m + 1 \in 1..12
    BY <1>7, <1>9
  <2>2. MonthLength(y, m + 1) \in 28..31 /\ m + 1 \in MonthDigits
    BY <2>1, MonthsOfYears
  <2>3. 1 \in 1..MonthLength(y, m + 1)
    BY <2>2
  <2>4. NextDay(t) \in Days
    BY <2>1, <2>3, DayIs
  <2>5. BuildDate(Date(y, m + 1, 1)) = DayNumber(y, m + 1, 1)
    BY <1>3, <2>2, DateTag
  <2>6. DayNumber(y, m + 1, 1) = DayNumber(y, m, DaysInMonth(y, m)) + 1
    BY <1>2, <1>9, DaysAreCounted
  <2>7. ~(d + 1 <= DaysInMonth(y, m)) /\ t + 1 # NextDay(t)
    BY <1>1, <1>2, <1>3, <1>9, <2>1, SMT DEF Date
  <2> QED BY <1>2, <1>4, <1>6, <1>9, <2>1, <2>4, <2>5, <2>6, <2>7
<1>10. CASE d = MonthLength(y, m) /\ m = 12
  <2>1. NextDay(t) = Date(y + 1, 1, 1)
    BY <1>7, <1>10
  <2>2. ~(d + 1 <= DaysInMonth(y, m)) /\ t + 1 # NextDay(t)
    BY <1>1, <1>2, <1>3, <1>10, <2>1, SMT DEF Date
  <2>3. ASSUME YearOf(NextDay(t)) \in Years
        PROVE  NextDay(t) \in Days /\ BuildDate(NextDay(t)) = BuildDate(t) + 1
    <3>1. YearOf(Date(y + 1, 1, 1)) = y + 1
      BY <1>2, SMT DEF Date, YearOf
    <3>2. y + 1 \in Years
      BY <2>1, <2>3, <3>1
    <3>3. MonthLength(y + 1, 1) \in 28..31
      BY <3>2, MonthsOfYears
    <3>4. 1 \in 1..MonthLength(y + 1, 1) /\ 1 \in 1..12
      BY <3>3
    <3>5. NextDay(t) \in Days
      BY <2>1, <3>2, <3>4, DayIs
    <3>6. BuildDate(Date(y + 1, 1, 1)) = DayNumber(y + 1, 1, 1)
      BY <1>3, <3>2, DateTag
    <3>7. DayNumber(y + 1, 1, 1) = DayNumber(y, 12, DaysInMonth(y, 12)) + 1
      BY <1>2, DaysAreCounted
    <3> QED BY <1>2, <1>4, <1>10, <2>1, <3>5, <3>6, <3>7
  <2> QED BY <1>4, <1>6, <2>2, <2>3
<1> QED BY <1>2, <1>3, <1>8, <1>9, <1>10

\* The day that the walk has reached is as many days after the start as have passed.
WindowInv ==
    start # 0 => /\ start \in Days /\ day \in Days /\ elapsed \in Nat
                 /\ BuildDate(start) \in Int /\ BuildDate(day) = BuildDate(start) + elapsed

LEMMA WindowInvariant == WindowSpec => [](WindowInv /\ (start = 0 => elapsed = 0))
<1> DEFINE Inv == WindowInv /\ (start = 0 => elapsed = 0)
<1>1. WindowInit => Inv
  BY DEF WindowInit, WindowInv
<1>2. Inv /\ [WalkStarts \/ Tomorrow]_windowVars => Inv'
  <2> SUFFICES ASSUME Inv, [WalkStarts \/ Tomorrow]_windowVars PROVE Inv'
    OBVIOUS
  <2>1. CASE UNCHANGED windowVars
    BY <2>1 DEF windowVars, WindowInv
  <2>2. CASE WalkStarts
    <3>1. start' \in Days /\ day' = start' /\ elapsed' = 0
      BY <2>2, WindowAssumption DEF WalkStarts
    <3>0. PICK y \in Years, m \in 1..12 : \E d \in 1..MonthLength(y, m) : start' = Date(y, m, d)
      BY <3>1, DayOf
    <3>2. PICK d \in 1..MonthLength(y, m) : start' = Date(y, m, d)
      BY <3>0
    <3>3. d \in DayDigits /\ m \in MonthDigits /\ d \in Int /\ y \in Nat
      <4>1. y \in Nat /\ m \in MonthDigits /\ MonthLength(y, m) \in 28..31
        BY MonthsOfYears
      <4>2. d \in Nat /\ d <= 32
        BY <3>2, <4>1
      <4> QED BY <4>1, <4>2, DigitRanges
    <3>4. BuildDate(start') = DayNumber(y, m, d)
      BY <3>2, <3>3, DateTag
    <3>5. DayNumber(y, m, d) \in Int
      BY <3>2, <3>3 DEF DayNumber
    <3>6. start' # 0
      <4>1. Date(y, m, d) > 0
        BY <3>3, DatesOfYears
      <4> QED BY <3>2, <4>1
    <3>7. BuildDate(start)' = BuildDate(start') /\ BuildDate(day)' = BuildDate(start')
      BY <3>1 DEF BuildDate
    <3> QED BY <3>1, <3>4, <3>5, <3>6, <3>7 DEF WindowInv
  <2>3. CASE Tomorrow
    <3>1. /\ start # 0 /\ start' = start /\ day' = NextDay(day) /\ elapsed' = elapsed + 1
          /\ YearOf(NextDay(day)) \in Years
      BY <2>3 DEF Tomorrow
    <3>2. /\ start \in Days /\ day \in Days /\ elapsed \in Nat
          /\ BuildDate(start) \in Int /\ BuildDate(day) = BuildDate(start) + elapsed
      BY <3>1 DEF WindowInv
    <3>3. NextDay(day) \in Days /\ BuildDate(NextDay(day)) = BuildDate(day) + 1
      BY <3>1, <3>2, NextDays
    <3>4. BuildDate(start)' = BuildDate(start) /\ BuildDate(day)' = BuildDate(NextDay(day))
      BY <3>1 DEF BuildDate
    <3> QED BY <3>1, <3>2, <3>3, <3>4 DEF WindowInv
  <2> QED BY <2>1, <2>2, <2>3
<1> HIDE DEF Inv
<1>3. WindowSpec => []Inv
  BY <1>1, <1>2, PTL DEF WindowSpec
<1> QED BY <1>3, PTL DEF Inv

\* A tag built on the 45th day after the zero-day is inside the window and one built on the 46th
\* is not, from any day of any year; an exempt component has no window.
THEOREM WindowCloses == WindowSpec => []WindowClosesAfter45Days
<1>1. WindowInv => WindowClosesAfter45Days
  <2> SUFFICES ASSUME WindowInv, start # 0
               PROVE  /\ ValidatePatchWindow(Windowed, day, BuildDate(start)) = "OK" <=> elapsed <= 45
                      /\ ValidatePatchWindow(Exempt, day, BuildDate(start)) = "OK"
    BY DEF WindowClosesAfter45Days
  <2>1. /\ day \in Days /\ elapsed \in Nat
        /\ BuildDate(start) \in Int /\ BuildDate(day) = BuildDate(start) + elapsed
    BY DEF WindowInv
  <2>2. HasBuildDate(day)
    BY <2>1, NextDays
  <2>3. BuildDate(day) > BuildDate(start) + PatchWindowDays <=> ~(elapsed <= 45)
    BY <2>1 DEF PatchWindowDays
  <2> QED BY <2>2, <2>3, WindowAssumption DEF ValidatePatchWindow, IsPatchWindowExempt
<1> QED BY <1>1, WindowInvariant, PTL

\* Of all numbers that look like dates just the days of the calendar are dates.
THEOREM DatesAreDays == WindowSpec => []OnlyDatesAreBuildDates
<1>1. WindowInv => OnlyDatesAreBuildDates
  BY NextDays DEF WindowInv, OnlyDatesAreBuildDates
<1> QED BY <1>1, WindowInvariant, PTL

-----------------------------------------------------------------------------
(* Tokens                                                                  *)

\* The token of a request that is tried again was fetched for it: only a registry that denies
\* every token refuses it.
TokenInv ==
    /\ access \in {"public", "token", "denied"}
    /\ step = "retry" /\ ~Authorized => access = "denied"
    /\ TokenRenewed

\* A listing ends unauthorized only at a registry that denies every token it has handed out,
\* however often a token runs out between two pages, whatever the names and the limit.
THEOREM TokensAreRenewed == ListingSpec => []TokenRenewed
<1>1. InitListing => TokenInv
  BY DEF InitListing, TokenInv, TokenRenewed
<1>2. TokenInv /\ [NextListing]_<<registryVars, listVars>> => TokenInv'
  <2> SUFFICES ASSUME TokenInv, [NextListing]_<<registryVars, listVars>> PROVE TokenInv'
    OBVIOUS
  <2> USE DEF TokenInv, TokenRenewed, Authorized, registryVars, listVars
  <2>1. ASSUME NEW n \in Name, Publish(n) PROVE TokenInv'
    BY <2>1 DEF Publish
  <2>2. CASE TokenExpires
    BY <2>2 DEF TokenExpires
  <2>3. CASE ListTags
    BY <2>3 DEF ListTags
  <2>4. CASE getTagsPage
    BY <2>4 DEF getTagsPage, Ended
  <2>5. CASE Unauthorized
    BY <2>5 DEF Unauthorized, Ended
  <2>6. CASE fetchBearerToken
    BY <2>6 DEF fetchBearerToken
  <2>7. CASE RequestFails
    BY <2>7 DEF RequestFails, Ended
  <2>8. CASE UNCHANGED <<registryVars, listVars>>
    BY <2>8
  <2> QED BY <2>1, <2>2, <2>3, <2>4, <2>5, <2>6, <2>7, <2>8 DEF NextListing
<1> QED BY <1>1, <1>2, PTL DEF ListingSpec, TokenInv

-----------------------------------------------------------------------------
(* The listing                                                             *)

\* Listed adds the names of a page one after the other.
LEMMA ListedFold ==
    ASSUME tags \in Seq(Name), NEW page \in Seq(Name)
    PROVE  \E g : /\ g[0] = tags
                  /\ \A i \in 1..Len(page) : g[i] = AddName(g[i - 1], page[i])
                  /\ Listed(page) = g[Len(page)]
<1> DEFINE A == Seq(Name)
           Step == [x \in A \X Name |-> AddName(x[1], x[2])]
           S == DOMAIN page
           Eq(it) == it = [s \in SUBSET S |->
                             IF s = {} THEN tags ELSE AddName(it[s \ {Max(s)}], page[Max(s)])]
           iter == CHOOSE it : Eq(it)
<1>1. Step \in [A \X Name -> A]
  BY DEF AddName
<1>2. PICK it : Iterates(it, A, Step, tags, page)
  <2> HIDE DEF Step
  <2> QED BY <1>1, IterationExists
<1>3. Eq(it)
  <2>1. ASSUME NEW s \in SUBSET S, s # {}
        PROVE  it[s \ {Max(s)}] \in A /\ page[Max(s)] \in Name
    BY <1>2, <2>1, Iteration, ZenonT(40)
  <2>2. \A s \in SUBSET S :
           it[s] = IF s = {} THEN tags ELSE AddName(it[s \ {Max(s)}], page[Max(s)])
    BY <1>2, <2>1 DEF Iterates
  <2>3. it = [s \in SUBSET S |-> it[s]]
    BY <1>2 DEF Iterates
  <2> QED BY <2>2, <2>3
<1>4. Eq(iter)
  <2> HIDE DEF Eq
  <2> QED BY <1>3
<1>5. Listed(page) = iter[DOMAIN page]
  BY Zenon DEF Listed, FoldLeft, MapThenFoldSet
<1>6. S = 1..Len(page)
  OBVIOUS
<1> HIDE DEF iter
<1> DEFINE g == [i \in 0..Len(page) |-> iter[1..i]]
<1>7. g[0] = tags
  BY <1>4
<1>8. ASSUME NEW i \in 1..Len(page) PROVE g[i] = AddName(g[i - 1], page[i])
  <2>1. 1..i \in SUBSET S /\ 1..i # {} /\ (1..i) \ {i} = 1..(i - 1)
    BY <1>6
  <2>2. Max(1..i) = i
    BY MaxOfInterval
  <2> HIDE DEF S
  <2>3. iter[1..i] = AddName(iter[1..(i - 1)], page[i])
    BY <1>4, <2>1, <2>2
  <2> QED BY <2>3
<1>9. g[Len(page)] = Listed(page)
  BY <1>5, <1>6
<1> QED BY <1>7, <1>8, <1>9

\* No name of the registry is listed twice, none that is no tag, and none beyond the limit.
ProperTags(all) ==
    /\ all \in Seq(Name \ Skipped) /\ Len(all) <= limit
    /\ \A i, j \in 1..Len(all) : all[i] = all[j] => i = j

LEMMA NoTags == ProperTags(<<>>)
<1>1. Len(<<>>) = 0 /\ <<>> \in Seq(Name \ Skipped)
  OBVIOUS
<1>2. 0 <= limit
  BY ListingAssumption
<1> QED BY <1>1, <1>2 DEF ProperTags

LEMMA NameAdded ==
    ASSUME NEW all, ProperTags(all), NEW n \in Name
    PROVE  /\ ProperTags(AddName(all, n))
           /\ ToSet(all) \subseteq ToSet(AddName(all, n))
           /\ Len(all) <= Len(AddName(all, n))
           /\ Len(AddName(all, n)) < limit /\ n \notin Skipped => n \in ToSet(AddName(all, n))
<1> USE DEF ProperTags
<1>1. CASE n \in Skipped \/ Contains(all, n) \/ Len(all) = limit
  <2>1. AddName(all, n) = all
    BY <1>1 DEF AddName
  <2>2. Len(all) < limit /\ n \notin Skipped => n \in ToSet(all)
    BY <1>1, ListingAssumption DEF Contains, ToSet
  <2> QED BY <2>1, <2>2
<1>2. CASE ~(n \in Skipped \/ Contains(all, n) \/ Len(all) = limit)
  <2> DEFINE more == Append(all, n)
  <2>1. AddName(all, n) = more
    BY <1>2 DEF AddName
  <2>2. more \in Seq(Name \ Skipped) /\ Len(more) = Len(all) + 1
    BY <1>2
  <2>3. more[Len(all) + 1] = n /\ \A i \in 1..Len(all) : more[i] = all[i] /\ all[i] # n
    BY <1>2 DEF Contains
  <2>4. Len(more) <= limit
    BY <1>2, <2>2, ListingAssumption
  <2>5. \A i, j \in 1..Len(more) : more[i] = more[j] => i = j
    BY <2>2, <2>3
  <2>6. ToSet(all) \subseteq ToSet(more) /\ n \in ToSet(more)
    BY <2>2, <2>3 DEF ToSet
  <2> QED BY <2>1, <2>2, <2>4, <2>5, <2>6
<1> QED BY <1>1, <1>2

\* A page adds all its tags, unless the limit is reached.
LEMMA PageListed ==
    ASSUME ProperTags(tags), NEW page \in Seq(Name)
    PROVE  /\ ProperTags(Listed(page))
           /\ ToSet(tags) \subseteq ToSet(Listed(page))
           /\ Len(Listed(page)) < limit => ToSet(page) \ Skipped \subseteq ToSet(Listed(page))
<1>0. tags \in Seq(Name)
  BY DEF ProperTags
<1>1. PICK g : /\ g[0] = tags
               /\ \A i \in 1..Len(page) : g[i] = AddName(g[i - 1], page[i])
               /\ Listed(page) = g[Len(page)]
  BY <1>0, ListedFold
<1> DEFINE Good(i) == /\ ProperTags(g[i])
                      /\ ToSet(tags) \subseteq ToSet(g[i])
                      /\ Len(g[i]) < limit => \A j \in 1..i : page[j] \notin Skipped => page[j] \in ToSet(g[i])
           S == {i \in Nat : i <= Len(page) => Good(i)}
<1>2. 0 \in S
  BY <1>1
<1>3. ASSUME NEW i \in Nat, i \in S PROVE i + 1 \in S
  <2> SUFFICES ASSUME i + 1 <= Len(page) PROVE Good(i + 1)
    OBVIOUS
  <2>1. Good(i) /\ i + 1 \in 1..Len(page) /\ page[i + 1] \in Name
    BY <1>3
  <2>2. g[i + 1] = AddName(g[i], page[i + 1])
    BY <1>1, <2>1
  <2>3. /\ ProperTags(g[i + 1])
        /\ ToSet(g[i]) \subseteq ToSet(g[i + 1])
        /\ Len(g[i]) <= Len(g[i + 1])
        /\ Len(g[i + 1]) < limit /\ page[i + 1] \notin Skipped => page[i + 1] \in ToSet(g[i + 1])
    BY <2>1, <2>2, NameAdded
  <2>4. Len(g[i]) \in Nat /\ Len(g[i + 1]) \in Nat
    BY <2>1, <2>3 DEF ProperTags
  <2>5. ASSUME Len(g[i + 1]) < limit, NEW j \in 1..(i + 1), page[j] \notin Skipped
        PROVE  page[j] \in ToSet(g[i + 1])
    <3>1. CASE j = i + 1
      BY <2>3, <2>5, <3>1
    <3>2. CASE j \in 1..i
      BY <2>1, <2>3, <2>4, <2>5, <3>2, ListingAssumption
    <3> QED BY <3>1, <3>2
  <2> QED BY <2>1, <2>3, <2>5
<1>4. Good(Len(page))
  <2> HIDE DEF Good
  <2>1. Nat \subseteq S
    <3> HIDE DEF S
    <3> QED BY <1>2, <1>3, Induction
  <2> QED BY <2>1
<1> QED BY <1>1, <1>4, SMTT(30) DEF ToSet

\* What the pages from number n on still hold.
Rest(n) == {published[i] : i \in n..Len(published)}

\* As long as the listing goes on, a tag that was there at its start is listed or still to come.
ListingInv ==
    /\ published \in Seq(Name)
    /\ ProperTags(tags)
    /\ next \in Nat
    /\ step \in {"idle", "page", "token", "retry", "done"}
    /\ step = "idle" => tags = <<>>
    /\ step # "done" => outcome = ""
    /\ step \in {"page", "token", "retry"} =>
         next >= 1 /\ atStart \ Skipped \subseteq ToSet(tags) \cup Rest(next)
    /\ NothingSkipped

\* A name in front moves all others by one, so what was to come still is.
LEMMA PublishKeepsRest ==
    ASSUME published \in Seq(Name), NEW n \in Name, Publish(n), NEW k \in Nat, k >= 1
    PROVE  published' \in Seq(Name) /\ Rest(k) \subseteq Rest(k)'
<1>1. published' = <<n>> \o published
  BY DEF Publish
<1>2. published' \in Seq(Name) /\ Len(published') = Len(published) + 1
  BY <1>1
<1>3. \A i \in 1..Len(published) : published'[i + 1] = published[i]
  BY <1>1
<1>4. ASSUME NEW i \in k..Len(published) PROVE published[i] \in Rest(k)'
  <2>1. i + 1 \in k..Len(published') /\ published'[i + 1] = published[i]
    BY <1>2, <1>3
  <2> QED BY <2>1 DEF Rest
<1> QED BY <1>2, <1>4 DEF Rest

\* A page is a part of what is to come, and the next link leads to the rest.
LEMMA PageOfRest ==
    ASSUME published \in Seq(Name), next \in Nat, next >= 1
    PROVE  LET last == Min({next + pageSize - 1, Len(published)})
               page == SubSeq(published, next, last)
           IN  /\ last \in Int
               /\ page \in Seq(Name)
               /\ last < Len(published) => last + 1 \in Nat \ {0}
               /\ Rest(next) \subseteq
                    ToSet(page) \cup (IF last < Len(published) THEN Rest(last + 1) ELSE {})
<1> DEFINE p == next + pageSize - 1
           last == Min({p, Len(published)})
           page == SubSeq(published, next, last)
<1>1. pageSize \in Nat \ {0}
  BY ListingAssumption DEF pageSize
<1>2. p \in Nat /\ p >= next
  BY <1>1
<1>3. last = (IF p <= Len(published) THEN p ELSE Len(published))
  <2> HIDE DEF p
  <2> QED BY <1>2 DEF Min
<1>4. last \in Nat /\ last <= Len(published) /\ (last < Len(published) => last >= next)
  <2> HIDE DEF p, last
  <2> QED BY <1>2, <1>3
<1> HIDE DEF last
<1>5. page \in Seq(Name)
  BY <1>4
<1>6. ASSUME NEW i \in next..Len(published), i <= last PROVE published[i] \in ToSet(page)
  <2>1. /\ Len(page) = last - next + 1
        /\ \A j \in 1..(last - next + 1) : page[j] = published[next + j - 1]
    BY <1>4, <1>6, SubSeqProperties
  <2>2. i - next + 1 \in 1..Len(page) /\ page[i - next + 1] = published[i]
    BY <1>4, <1>6, <2>1
  <2>3. DOMAIN page = 1..Len(page)
    BY <1>5
  <2> QED BY <2>2, <2>3 DEF ToSet
<1>7. ASSUME NEW i \in next..Len(published), i > last
      PROVE  last < Len(published) /\ published[i] \in Rest(last + 1)
  BY <1>4, <1>7 DEF Rest
<1>8. Rest(next) \subseteq
         ToSet(page) \cup (IF last < Len(published) THEN Rest(last + 1) ELSE {})
  BY <1>4, <1>6, <1>7 DEF Rest
<1>9. last \in Int /\ (last < Len(published) => last + 1 \in Nat \ {0})
  BY <1>4
<1> HIDE DEF page
<1> QED BY <1>5, <1>8, <1>9 DEF last, page

LEMMA PageKeepsListingInv ==
    ASSUME ListingInv, getTagsPage PROVE ListingInv'
<1> DEFINE last == Min({next + pageSize - 1, Len(published)})
           page == SubSeq(published, next, last)
           nextURL == IF last < Len(published) THEN last + 1 ELSE 0
           more == IF last < Len(published) THEN Rest(last + 1) ELSE {}
           listed == Listed(page)
<1>1. /\ step \in {"page", "retry"}
      /\ tags' = listed /\ next' = nextURL
      /\ IF Continues(nextURL, listed) THEN step' = "page" /\ outcome' = outcome
         ELSE step' = "done" /\ outcome' = IF listed = <<>> THEN "no tags found" ELSE "OK"
      /\ UNCHANGED <<published, atStart>>
  BY DEF getTagsPage, Ended, registryVars
<1>2. /\ last \in Int /\ page \in Seq(Name)
      /\ last < Len(published) => last + 1 \in Nat \ {0}
      /\ Rest(next) \subseteq ToSet(page) \cup more
  BY <1>1, PageOfRest DEF ListingInv
<1> HIDE DEF last, page
<1>3. /\ ProperTags(listed)
      /\ ToSet(tags) \subseteq ToSet(listed)
      /\ Len(listed) < limit => ToSet(page) \ Skipped \subseteq ToSet(listed)
  BY <1>2, PageListed DEF ListingInv
<1> HIDE DEF listed
<1>4. Len(listed) < limit => atStart \ Skipped \subseteq ToSet(listed) \cup more
  BY <1>1, <1>2, <1>3 DEF ListingInv
<1>5. CASE Continues(nextURL, listed)
  <2>1. last < Len(published) /\ Len(listed) < limit
    BY <1>5 DEF Continues
  <2>2. more = Rest(next)'
    BY <1>1, <2>1 DEF Rest
  <2>3. atStart' \ Skipped \subseteq ToSet(tags') \cup Rest(next)'
    BY <1>1, <1>4, <2>1, <2>2
  <2>4. step' = "page" /\ outcome' = "" /\ next' \in Nat /\ next' >= 1
    <3>1. next' = last + 1 /\ last + 1 \in Nat \ {0} /\ outcome = ""
      BY <1>1, <1>2, <2>1 DEF ListingInv
    <3>2. step' = "page" /\ outcome' = outcome
      BY <1>1, <1>5
    <3>3. next' \in Nat \ {0}
      BY <3>1
    <3>4. next' >= 1
      BY <3>3
    <3>5. outcome' = ""
      BY <3>1, <3>2
    <3> QED BY <3>2, <3>3, <3>4, <3>5
  <2>5. published' \in Seq(Name) /\ ProperTags(tags)'
    BY <1>1, <1>3 DEF ListingInv, ProperTags
  <2> QED BY <2>3, <2>4, <2>5 DEF ListingInv, NothingSkipped
<1>6. CASE ~Continues(nextURL, listed)
  <2>1. ASSUME Len(listed) < limit
        PROVE  /\ atStart' \ Skipped \subseteq ToSet(tags')
               /\ Len(tags') = Cardinality(ToSet(tags'))
    <3>1. ~(last < Len(published))
      BY <1>2, <1>6, <2>1 DEF Continues
    <3>2. Len(listed) = Cardinality(ToSet(listed))
      BY <1>3, LenIsCardinality DEF ProperTags
    <3> QED BY <1>1, <1>4, <2>1, <3>1, <3>2
  <2>2. NothingSkipped'
    BY <1>1, <2>1 DEF NothingSkipped
  <2>3. step' = "done" /\ next' \in Nat
    BY <1>1, <1>2, <1>6
  <2>4. published' \in Seq(Name) /\ ProperTags(tags)'
    BY <1>1, <1>3 DEF ListingInv, ProperTags
  <2> QED BY <2>2, <2>3, <2>4 DEF ListingInv
<1> QED BY <1>5, <1>6

LEMMA SameListing ==
    ASSUME ListingInv, UNCHANGED <<published, step, next, tags, outcome, atStart>>
    PROVE  ListingInv'
<1>1. ProperTags(tags)' /\ NothingSkipped'
  BY DEF ListingInv, ProperTags, NothingSkipped
<1>2. step \in {"page", "token", "retry"} =>
        next >= 1 /\ atStart' \ Skipped \subseteq ToSet(tags') \cup Rest(next)'
  BY DEF ListingInv, Rest
<1>3. /\ published' \in Seq(Name) /\ next' \in Nat
      /\ step' = "idle" => tags' = <<>>
      /\ step' # "done" => outcome' = ""
  BY DEF ListingInv
<1> QED BY <1>1, <1>2, <1>3 DEF ListingInv

LEMMA ListingInvariant == ListingSpec => []ListingInv
<1>1. InitListing => ListingInv
  <2> SUFFICES ASSUME InitListing PROVE ListingInv
    OBVIOUS
  <2>1. tags = <<>> /\ ProperTags(<<>>)
    BY NoTags DEF InitListing
  <2>2. published = <<>> /\ step = "idle" /\ next = 0 /\ outcome = ""
    BY Zenon DEF InitListing
  <2>3. published \in Seq(Name)
    BY <2>2, EmptySeq
  <2>4. ProperTags(tags) /\ NothingSkipped
    BY <2>1, <2>2 DEF NothingSkipped
  <2> QED BY <2>1, <2>2, <2>3, <2>4 DEF ListingInv
<1>2. ListingInv /\ [NextListing]_<<registryVars, listVars>> => ListingInv'
  <2> SUFFICES ASSUME ListingInv, [NextListing]_<<registryVars, listVars>> PROVE ListingInv'
    OBVIOUS
  <2>1. ASSUME NEW n \in Name, Publish(n) PROVE ListingInv'
    <3>1. published' \in Seq(Name)
      <4>1. published \in Seq(Name) /\ published' = <<n>> \o published
        BY <2>1 DEF ListingInv, Publish
      <4> QED BY <4>1
    <3>2. next >= 1 => Rest(next) \subseteq Rest(next)'
      <4>1. \A k \in Nat : k >= 1 => Rest(k) \subseteq Rest(k)'
        BY <2>1, PublishKeepsRest DEF ListingInv
      <4>2. next \in Nat /\ next' = next
        BY <2>1 DEF ListingInv, Publish, listVars
      <4> QED BY <4>1, <4>2 DEF Rest
    <3>3. UNCHANGED <<tokenOK, step, next, bearerToken, tags, outcome, atStart>> /\ step # "done"
      BY <2>1 DEF Publish, listVars
    <3>4. ProperTags(tags)' /\ NothingSkipped'
      BY <3>3 DEF ListingInv, ProperTags, NothingSkipped
    <3> QED BY <3>1, <3>2, <3>3, <3>4 DEF ListingInv
  <2>2. CASE TokenExpires
    BY <2>2, SameListing DEF TokenExpires, registryVars
  <2>3. CASE ListTags
    <3>1. ToSet(published) = Rest(1)
      <4>1. published \in Seq(Name)
        BY DEF ListingInv
      <4>2. DOMAIN published = 1..Len(published)
        BY <4>1
      <4> QED BY <4>2 DEF ToSet, Rest
    <3>2. /\ step' = "page" /\ next' = 1 /\ atStart' = ToSet(published)
          /\ UNCHANGED <<published, tags, outcome>>
      BY <2>3 DEF ListTags, registryVars
    <3>3. Rest(next)' = Rest(1)
      BY <3>2 DEF Rest
    <3>4. atStart' \ Skipped \subseteq ToSet(tags') \cup Rest(next)'
      BY <3>1, <3>2, <3>3
    <3>5. outcome = "" /\ published' \in Seq(Name) /\ ProperTags(tags)'
      BY <2>3, <3>2 DEF ListTags, ListingInv, ProperTags
    <3>6. NothingSkipped'
      BY <3>2, <3>5 DEF NothingSkipped
    <3>7. next' \in Nat /\ next' >= 1
      BY <3>2
    <3> QED BY <3>2, <3>4, <3>5, <3>6, <3>7 DEF ListingInv
  <2>4. CASE getTagsPage
    BY <2>4, PageKeepsListingInv
  <2>5. CASE Unauthorized
    <3>1. /\ step \in {"page", "retry"} /\ step' \in {"token", "done"}
          /\ step' = "token" => outcome' = outcome
          /\ step' = "done" => outcome' = "unauthorized"
          /\ UNCHANGED <<published, next, tags, atStart>>
      BY <2>5 DEF Unauthorized, Ended, registryVars
    <3>2. ProperTags(tags)' /\ NothingSkipped'
      BY <3>1 DEF ListingInv, ProperTags, NothingSkipped
    <3>3. next >= 1 /\ atStart' \ Skipped \subseteq ToSet(tags') \cup Rest(next)'
      BY <3>1 DEF ListingInv, Rest
    <3>4. published' \in Seq(Name) /\ next' \in Nat /\ (step' = "token" => outcome' = "")
      BY <3>1 DEF ListingInv
    <3> QED BY <3>1, <3>2, <3>3, <3>4 DEF ListingInv
  <2>6. CASE fetchBearerToken
    <3>1. /\ step = "token" /\ step' = "retry"
          /\ UNCHANGED <<published, next, tags, outcome, atStart>>
      BY <2>6 DEF fetchBearerToken, registryVars
    <3>2. ProperTags(tags)' /\ NothingSkipped'
      BY <3>1 DEF ListingInv, ProperTags, NothingSkipped
    <3>3. next >= 1 /\ atStart' \ Skipped \subseteq ToSet(tags') \cup Rest(next)'
      BY <3>1 DEF ListingInv, Rest
    <3>4. published' \in Seq(Name) /\ next' \in Nat /\ outcome' = ""
      BY <3>1 DEF ListingInv
    <3> QED BY <3>1, <3>2, <3>3, <3>4 DEF ListingInv
  <2>7. CASE RequestFails
    <3>1. /\ tags' = <<>> /\ step' = "done" /\ outcome' = "failed"
          /\ UNCHANGED <<published, next>>
      BY <2>7 DEF RequestFails, Ended, registryVars
    <3>2. ProperTags(tags)' /\ NothingSkipped'
      BY <3>1, NoTags DEF ProperTags, NothingSkipped
    <3>3. published' \in Seq(Name) /\ next' \in Nat
      BY <3>1 DEF ListingInv
    <3> QED BY <3>1, <3>2, <3>3 DEF ListingInv
  <2>8. CASE UNCHANGED <<registryVars, listVars>>
    <3>1. UNCHANGED <<published, step, next, tags, outcome, atStart>>
      BY <2>8 DEF registryVars, listVars
    <3> QED BY <3>1, SameListing
  <2> QED BY <2>1, <2>2, <2>3, <2>4, <2>5, <2>6, <2>7, <2>8 DEF NextListing
<1> QED BY <1>1, <1>2, PTL DEF ListingSpec

\* Every tag that was published when a listing started is listed, once, if the limit is not
\* reached: whatever the registry holds, however its pages fall and whatever is pushed or
\* expires in between.
THEOREM NothingIsSkipped == ListingSpec => []NothingSkipped
<1>1. ListingInv => NothingSkipped
  BY DEF ListingInv
<1> QED BY <1>1, ListingInvariant, PTL
-----------------------------------------------------------------------------
(* The order                                                               *)

\* Versions, each newer than all that follow.
NewestFirst(q) ==
    /\ q \in Seq({t \in TagName : ParseTag[t].ok})
    /\ \A i, j \in 1..Len(q) : i < j => Newer(q[i], q[j])

\* The tags that are newer than a given one are the first ones, and so counting them gives the
\* place of that one.
LEMMA NewerOnesAreFirst ==
    ASSUME NEW q, NewestFirst(q), NEW t \in TagName
    PROVE  LET k == Cardinality({i \in DOMAIN q : Newer(q[i], t)})
           IN  k \in 0..Len(q) /\ \A i \in 1..Len(q) : Newer(q[i], t) <=> i <= k
<1> DEFINE D == {i \in DOMAIN q : Newer(q[i], t)}
<1>1. /\ Len(q) \in Nat /\ DOMAIN q = 1..Len(q) /\ D \in SUBSET (1..Len(q))
      /\ \A i \in 1..Len(q) : q[i] \in TagName
  BY DEF NewestFirst
<1>2. CASE D = {}
  <2>1. Cardinality(D) = 0
    BY <1>2, FS_EmptySet
  <2>2. \A i \in 1..Len(q) : ~Newer(q[i], t)
    BY <1>1, <1>2
  <2> QED BY <1>1, <2>1, <2>2
<1>3. CASE D # {}
  <2>1. Max(D) \in D /\ \A i \in D : Max(D) >= i
    BY <1>1, <1>3, MaxOfIndices
  <2>2. Max(D) \in 1..Len(q) /\ Newer(q[Max(D)], t)
    BY <1>1, <2>1
  <2>3. ASSUME NEW i \in 1..Len(q), i <= Max(D) PROVE Newer(q[i], t)
    <3>1. CASE i = Max(D)
      BY <2>2, <3>1
    <3>2. CASE i < Max(D)
      <4>1. Newer(q[i], q[Max(D)])
        BY <2>2, <3>2 DEF NewestFirst
      <4> QED BY <1>1, <2>2, <4>1, TagsAreOrdered
    <3> QED BY <2>2, <2>3, <3>1, <3>2
  <2>4. D = 1..Max(D)
    <3> HIDE DEF D
    <3>1. \A i \in 1..Max(D) : i \in D
      BY <1>1, <2>2, <2>3 DEF D
    <3>2. \A i \in D : i \in 1..Max(D)
      BY <1>1, <2>1, <2>2
    <3> QED BY <3>1, <3>2
  <2>5. Cardinality(D) = Max(D)
    <3> HIDE DEF D
    <3>1. Cardinality(1..Max(D)) = Max(D)
      BY <2>2, FS_Interval
    <3> QED BY <2>4, <3>1
  <2>6. \A i \in 1..Len(q) : Newer(q[i], t) <=> i <= Max(D)
    BY <1>1, <2>1, <2>3
  <2> HIDE DEF D
  <2>7. Cardinality(D) \in 0..Len(q) /\ \A i \in 1..Len(q) : Newer(q[i], t) <=> i <= Cardinality(D)
    BY <2>2, <2>5, <2>6
  <2> QED BY <2>7 DEF D
<1> QED BY <1>2, <1>3

\* Insert keeps the order and adds the tag if it is a version.
LEMMA Inserted ==
    ASSUME NEW q, NewestFirst(q), NEW t \in TagName
    PROVE  /\ NewestFirst(Insert(q, t))
           /\ ToSet(Insert(q, t)) = ToSet(q) \cup (IF ParseTag[t].ok THEN {t} ELSE {})
<1>1. CASE ~ParseTag[t].ok \/ Contains(q, t)
  <2>1. Insert(q, t) = q
    BY <1>1 DEF Insert
  <2>2. ParseTag[t].ok => t \in ToSet(q)
    BY <1>1 DEF Contains, ToSet, NewestFirst
  <2> QED BY <2>1, <2>2
<1>2. CASE ParseTag[t].ok /\ ~Contains(q, t)
  <2> DEFINE k == Cardinality({i \in DOMAIN q : Newer(q[i], t)})
             V == {u \in TagName : ParseTag[u].ok}
             n == Len(q)
             front == SubSeq(q, 1, k)
             back == SubSeq(q, k + 1, n)
             r == front \o <<t>> \o back
  <2>1. k \in 0..n /\ \A i \in 1..n : Newer(q[i], t) <=> i <= k
    BY NewerOnesAreFirst
  <2>2. Insert(q, t) = r
    BY <1>2 DEF Insert
  <2> HIDE DEF k
  <2>3. q \in Seq(V) /\ n \in Nat /\ t \in V /\ \A i \in 1..n : q[i] \in V /\ q[i] # t
    BY <1>2 DEF NewestFirst, Contains
  <2>4. /\ front \in Seq(V) /\ Len(front) = k
        /\ \A i \in 1..k : front[i] = q[i]
    BY <2>1, <2>3
  <2>5. /\ back \in Seq(V) /\ Len(back) = n - k
        /\ \A i \in 1..(n - k) : back[i] = q[k + i]
    BY <2>1, <2>3
  <2> HIDE DEF front, back
  <2>6. /\ r \in Seq(V) /\ Len(r) = n + 1
        /\ \A i \in 1..k : r[i] = q[i]
        /\ r[k + 1] = t
        /\ \A i \in (k + 2)..(n + 1) : r[i] = q[i - 1]
    <3> DEFINE h == front \o <<t>>
    <3>1. /\ h \in Seq(V) /\ Len(h) = k + 1 /\ h[k + 1] = t
          /\ \A i \in 1..k : h[i] = q[i]
      BY <2>1, <2>3, <2>4
    <3> HIDE DEF h
    <3>2. /\ h \o back \in Seq(V) /\ Len(h \o back) = n + 1
          /\ \A i \in 1..(k + 1) : (h \o back)[i] = h[i]
          /\ \A i \in (k + 2)..(n + 1) : (h \o back)[i] = back[i - (k + 1)]
      BY <2>1, <2>3, <2>5, <3>1
    <3>3. \A i \in (k + 2)..(n + 1) : back[i - (k + 1)] = q[i - 1]
      <4>1. SUFFICES ASSUME NEW i \in (k + 2)..(n + 1) PROVE back[i - (k + 1)] = q[i - 1]
        OBVIOUS
      <4>2. i - (k + 1) \in 1..(n - k) /\ k + (i - (k + 1)) = i - 1
        BY <2>1, <2>3
      <4> QED BY <2>5, <4>2
    <3> QED BY <2>1, <3>1, <3>2, <3>3 DEF h
  <2> HIDE DEF r
  <2>7. ASSUME NEW i \in 1..(n + 1), NEW j \in 1..(n + 1), i < j PROVE Newer(r[i], r[j])
    <3>1. \A u, v \in 1..n : u < v => Newer(q[u], q[v])
      BY DEF NewestFirst
    <3>2. \A u \in (k + 1)..n : Newer(t, q[u])
      <4>1. SUFFICES ASSUME NEW u \in (k + 1)..n PROVE Newer(t, q[u])
        OBVIOUS
      <4>2. u \in 1..n /\ ~(u <= k)
        BY <2>1
      <4>3. ~Newer(q[u], t) /\ q[u] # t /\ q[u] \in TagName
        BY <2>1, <2>3, <4>2
      <4> QED BY <4>3, TagsAreOrdered
    <3>3. CASE i <= k /\ j <= k
      BY <2>1, <2>6, <2>7, <3>1, <3>3
    <3>4. CASE i <= k /\ j = k + 1
      BY <2>1, <2>6, <3>4
    <3>5. CASE i <= k /\ j > k + 1
      <4>1. r[i] = q[i] /\ r[j] = q[j - 1] /\ i < j - 1 /\ i \in 1..n /\ j - 1 \in 1..n
        BY <2>1, <2>6, <3>5
      <4> QED BY <3>1, <4>1
    <3>6. CASE i = k + 1 /\ j > k + 1
      <4>1. r[i] = t /\ r[j] = q[j - 1] /\ j - 1 \in (k + 1)..n
        BY <2>1, <2>6, <3>6
      <4> QED BY <3>2, <4>1
    <3>7. CASE i > k + 1
      <4>1. /\ r[i] = q[i - 1] /\ r[j] = q[j - 1] /\ i - 1 < j - 1
            /\ i - 1 \in 1..n /\ j - 1 \in 1..n
        BY <2>1, <2>6, <2>7, <3>7
      <4> QED BY <3>1, <4>1
    <3> QED BY <2>1, <2>7, <3>3, <3>4, <3>5, <3>6, <3>7
  <2>8. NewestFirst(r)
    BY <2>6, <2>7 DEF NewestFirst
  <2>9. ToSet(r) = ToSet(q) \cup {t}
    <3>1. DOMAIN r = 1..(n + 1) /\ DOMAIN q = 1..n
      BY <2>3, <2>6
    <3>2. \A i \in 1..(n + 1) : r[i] = t \/ \E j \in 1..n : r[i] = q[j]
      <4>1. SUFFICES ASSUME NEW i \in 1..(n + 1) PROVE r[i] = t \/ \E j \in 1..n : r[i] = q[j]
        OBVIOUS
      <4>2. CASE i <= k
        BY <2>1, <2>6, <4>2
      <4>3. CASE i = k + 1
        BY <2>6, <4>3
      <4>4. CASE i > k + 1
        <5>1. i - 1 \in 1..n /\ r[i] = q[i - 1]
          BY <2>1, <2>6, <4>4
        <5> QED BY <5>1
      <4> QED BY <2>1, <4>2, <4>3, <4>4
    <3>3. \A j \in 1..n : \E i \in 1..(n + 1) : r[i] = q[j]
      <4>1. SUFFICES ASSUME NEW j \in 1..n PROVE \E i \in 1..(n + 1) : r[i] = q[j]
        OBVIOUS
      <4>2. CASE j <= k
        <5>1. j \in 1..(n + 1) /\ r[j] = q[j]
          BY <2>1, <2>6, <4>2
        <5> QED BY <5>1
      <4>3. CASE j > k
        <5>1. j + 1 \in (k + 2)..(n + 1) /\ r[j + 1] = q[j]
          BY <2>1, <2>6, <4>3
        <5> QED BY <2>1, <5>1
      <4> QED BY <2>1, <4>2, <4>3
    <3>4. k + 1 \in 1..(n + 1) /\ r[k + 1] = t
      BY <2>1, <2>6
    <3>5. ToSet(q) = {q[i] : i \in 1..n} /\ ToSet(r) = {r[i] : i \in 1..(n + 1)}
      BY <3>1 DEF ToSet
    <3>6. ToSet(r) \subseteq ToSet(q) \cup {t}
      BY <3>2, <3>5
    <3>7. ToSet(q) \subseteq ToSet(r) /\ t \in ToSet(r)
      BY <3>3, <3>4, <3>5
    <3> QED BY <3>6, <3>7
  <2> QED BY <1>2, <2>2, <2>8, <2>9
<1> QED BY <1>1, <1>2
\* OrderTags inserts the tags one after the other.
LEMMA OrderFold ==
    ASSUME NEW all \in Seq(TagName)
    PROVE  \E g : /\ g[0] = <<>>
                  /\ \A i \in 1..Len(all) : g[i] = Insert(g[i - 1], all[i])
                  /\ OrderTags(all) = g[Len(all)]
<1> DEFINE A == {q \in Seq(TagName) : NewestFirst(q)}
           Step == [x \in A \X TagName |-> Insert(x[1], x[2])]
           S == DOMAIN all
           Eq(it) == it = [s \in SUBSET S |->
                             IF s = {} THEN <<>> ELSE Insert(it[s \ {Max(s)}], all[Max(s)])]
           iter == CHOOSE it : Eq(it)
<1>1. Step \in [A \X TagName -> A]
  <2>1. \A q \in A, t \in TagName : Insert(q, t) \in A
    <3>1. SUFFICES ASSUME NEW q \in A, NEW t \in TagName PROVE Insert(q, t) \in A
      OBVIOUS
    <3>2. NewestFirst(Insert(q, t))
      BY Inserted
    <3>3. Insert(q, t) \in Seq(TagName)
      BY <3>2 DEF NewestFirst
    <3> QED BY <3>2, <3>3
  <2> QED BY <2>1
<1>2. <<>> \in A
  BY DEF NewestFirst
<1>3. PICK it : Iterates(it, A, Step, <<>>, all)
  <2> HIDE DEF Step, A
  <2> QED BY <1>1, <1>2, IterationExists
<1>4. Eq(it)
  <2> HIDE DEF A
  <2>1. ASSUME NEW s \in SUBSET S, s # {}
        PROVE  it[s \ {Max(s)}] \in A /\ all[Max(s)] \in TagName
    BY <1>3, <2>1, Iteration
  <2>2. \A s \in SUBSET S :
           it[s] = IF s = {} THEN <<>> ELSE Insert(it[s \ {Max(s)}], all[Max(s)])
    BY <1>3, <2>1 DEF Iterates
  <2>3. it = [s \in SUBSET S |-> it[s]]
    BY <1>3 DEF Iterates
  <2> QED BY <2>2, <2>3
<1>5. Eq(iter)
  <2> HIDE DEF Eq
  <2> QED BY <1>4
<1>6. OrderTags(all) = iter[DOMAIN all]
  BY Zenon DEF OrderTags, FoldLeft, MapThenFoldSet
<1>7. S = 1..Len(all)
  OBVIOUS
<1> HIDE DEF iter
<1> DEFINE g == [i \in 0..Len(all) |-> iter[1..i]]
<1>8. g[0] = <<>>
  BY <1>5
<1>9. ASSUME NEW i \in 1..Len(all) PROVE g[i] = Insert(g[i - 1], all[i])
  <2>1. 1..i \in SUBSET S
    BY <1>7
  <2>2. i \in Nat /\ i \in 1..i /\ (1..i) \ {i} = 1..(i - 1)
    OBVIOUS
  <2>3. Max(1..i) = i
    BY <2>2, MaxOfInterval
  <2> HIDE DEF S
  <2>4. iter[1..i] = Insert(iter[1..(i - 1)], all[i])
    BY <1>5, <2>1, <2>2, <2>3
  <2> QED BY <2>4
<1>10. g[Len(all)] = OrderTags(all)
  BY <1>6, <1>7
<1> QED BY <1>8, <1>9, <1>10

\* OrderTags keeps the versions and orders them, whatever is listed.
LEMMA Ordered ==
    ASSUME NEW all \in Seq(TagName)
    PROVE  /\ NewestFirst(OrderTags(all))
           /\ ToSet(OrderTags(all)) = {t \in ToSet(all) : ParseTag[t].ok}
<1>1. PICK g : /\ g[0] = <<>>
               /\ \A i \in 1..Len(all) : g[i] = Insert(g[i - 1], all[i])
               /\ OrderTags(all) = g[Len(all)]
  BY OrderFold
<1> DEFINE Good(i) == /\ NewestFirst(g[i])
                      /\ ToSet(g[i]) = {t \in {all[j] : j \in 1..i} : ParseTag[t].ok}
           S == {i \in Nat : i <= Len(all) => Good(i)}
<1>2. 0 \in S
  <2>1. NewestFirst(<<>>) /\ ToSet(<<>>) = {}
    BY DEF NewestFirst, ToSet
  <2>2. {all[j] : j \in 1..0} = {}
    OBVIOUS
  <2> QED BY <1>1, <2>1, <2>2
<1>3. ASSUME NEW i \in Nat, i \in S PROVE i + 1 \in S
  <2> SUFFICES ASSUME i + 1 <= Len(all) PROVE Good(i + 1)
    OBVIOUS
  <2>1. Good(i) /\ i + 1 \in 1..Len(all) /\ all[i + 1] \in TagName
    BY <1>3
  <2>2. g[i + 1] = Insert(g[i], all[i + 1])
    BY <1>1, <2>1
  <2>3. /\ NewestFirst(g[i + 1])
        /\ ToSet(g[i + 1]) = ToSet(g[i]) \cup (IF ParseTag[all[i + 1]].ok THEN {all[i + 1]} ELSE {})
    BY <2>1, <2>2, Inserted
  <2>4. {all[j] : j \in 1..(i + 1)} = {all[j] : j \in 1..i} \cup {all[i + 1]}
    <3>1. 1..(i + 1) = (1..i) \cup {i + 1}
      OBVIOUS
    <3> QED BY <3>1
  <2>5. ToSet(g[i + 1]) = {t \in {all[j] : j \in 1..(i + 1)} : ParseTag[t].ok}
    BY <2>1, <2>3, <2>4
  <2> QED BY <2>3, <2>5
<1>4. Good(Len(all))
  <2> HIDE DEF Good
  <2>1. Nat \subseteq S
    <3> HIDE DEF S
    <3> QED BY <1>2, <1>3, Induction
  <2> QED BY <2>1
<1>5. ToSet(all) = {all[j] : j \in 1..Len(all)}
  BY DEF ToSet
<1> QED BY <1>1, <1>4, <1>5

\* Where a tag is found in an ordered list.
LEMMA Found ==
    ASSUME NEW q, NewestFirst(q), NEW t
    PROVE  /\ IndexOf(q, t) \in 0..Len(q)
           /\ IndexOf(q, t) = 0 <=> t \notin ToSet(q)
           /\ IndexOf(q, t) # 0 => q[IndexOf(q, t)] = t
<1> DEFINE I == {i \in 1..Len(q) : q[i] = t}
<1>1. IndexOf(q, t) = IF I # {} THEN Min(I) ELSE 0
  BY DEF IndexOf, SelectInSeq
<1>2. Len(q) \in Nat /\ ToSet(q) = {q[i] : i \in 1..Len(q)}
  BY DEF NewestFirst, ToSet
<1>3. CASE I = {}
  <2>1. t \notin ToSet(q)
    BY <1>2, <1>3
  <2> QED BY <1>1, <1>2, <1>3, <2>1
<1>4. CASE I # {}
  <2>1. Min(I) \in I
    BY <1>2, <1>4, MinOfIndices
  <2> HIDE DEF I
  <2>2. IndexOf(q, t) \in I
    BY <1>1, <1>4, <2>1
  <2> QED BY <1>2, <2>2 DEF I
<1> QED BY <1>3, <1>4

\* Which of two tags of the list is newer is which comes first.
LEMMA EarlierIsNewer ==
    ASSUME NEW q, NewestFirst(q), NEW i \in 1..Len(q), NEW j \in 1..Len(q)
    PROVE  Newer(q[i], q[j]) <=> i < j
<1>1. q[i] \in TagName /\ q[j] \in TagName /\ Len(q) \in Nat
  BY DEF NewestFirst
<1>2. CASE i < j
  BY <1>2 DEF NewestFirst
<1>3. CASE i = j
  BY <1>1, <1>3, TagsAreOrdered
<1>4. CASE j < i
  <2>1. Newer(q[j], q[i])
    BY <1>4 DEF NewestFirst
  <2>2. ~Newer(q[i], q[j])
    BY <1>1, <2>1, TagsAreOrdered
  <2> QED BY <1>4, <2>2
<1> QED BY <1>1, <1>2, <1>3, <1>4

\* What the commands get from a listing.
LEMMA NamesAreTags == ListingInv => names \in Seq(TagName)
<1> SUFFICES ASSUME ListingInv PROVE names \in Seq(TagName)
  OBVIOUS
<1>1. tags \in Seq(Name \ Skipped)
  BY DEF ListingInv, ProperTags
<1>2. tags \in Seq(TagName)
  BY <1>1, NoTagAssumption
<1> QED BY <1>2, EmptySeq DEF names

\* What the commands order, after any number of steps: the versions among the names, each once.
LEMMA OrderedNames ==
    ASSUME ListingInv
    PROVE  /\ NewestFirst(OrderTags(names))
           /\ ToSet(OrderTags(names)) = {t \in ToSet(names) : ParseTag[t].ok}
           /\ names \in Seq(TagName)
BY NamesAreTags, Ordered

\* OrderedNewestFirst: whatever the registry answers and in whatever order, every version it
\* lists is in the ordered list once, and no later one compares as newer.
THEOREM OrderedList == ListingSpec => []OrderedNewestFirst
<1>1. ListingInv => OrderedNewestFirst
  <2> SUFFICES ASSUME ListingInv PROVE OrderedNewestFirst
    OBVIOUS
  <2>1. NewestFirst(OrderTags(names)) /\ ToSet(OrderTags(names)) = {t \in ToSet(names) : ParseTag[t].ok}
    BY OrderedNames
  <2> DEFINE q == OrderTags(names)
  <2> HIDE DEF q
  <2>2. DOMAIN q = 1..Len(q) /\ \A i, j \in 1..Len(q) : i < j => Newer(q[i], q[j])
    BY <2>1 DEF NewestFirst, q
  <2> QED BY <2>1, <2>2 DEF OrderedNewestFirst, q
<1> QED BY <1>1, ListingInvariant, PTL

\* How image-patch answers an explicit tag: by the place of the two tags in the ordered list.
LEMMA ExplicitAnswer ==
    ASSUME NEW q, q = OrderTags(names), q # <<>>,
           NEW c, IndexOf(q, c) > 0, NEW r, r # NoTag
    PROVE  resolvePatchTargetTag(c, r) =
             IF IndexOf(q, r) = 0 THEN Refused("not found")
             ELSE IF IndexOf(q, r) = IndexOf(q, c) THEN Refused("already running")
             ELSE IF IndexOf(q, r) > IndexOf(q, c) THEN Refused("older")
             ELSE CheckLine(c, r, TRUE)
<1>1. IndexOf(q, c) # 0
  BY SMT
<1> QED BY <1>1 DEF resolvePatchTargetTag

\* ... and without one.
LEMMA DefaultAnswer ==
    ASSUME NEW q, q = OrderTags(names), q # <<>>, NEW c, IndexOf(q, c) > 0
    PROVE  resolvePatchTargetTag(c, NoTag) =
             IF IndexOf(q, c) = 1 THEN Refused("already the latest")
             ELSE CheckLine(c, DefaultTarget(q, IndexOf(q, c)), FALSE)
<1>1. IndexOf(q, c) # 0
  BY SMT
<1> QED BY <1>1 DEF resolvePatchTargetTag

\* ... and of a tag that is not listed.
LEMMA NoAnswer ==
    ASSUME NEW q, q = OrderTags(names), NEW c, NEW r
    PROVE  /\ q = <<>> => resolvePatchTargetTag(c, r) = Refused("no tags")
           /\ q # <<>> /\ IndexOf(q, c) = 0
                => resolvePatchTargetTag(c, r) = Refused("current not found")
<1>1. ASSUME IndexOf(q, c) = 0 PROVE ~(IndexOf(q, c) > 0)
  BY <1>1
<1>2. CASE q = <<>>
  <2>1. NewestFirst(<<>>) /\ ToSet(<<>>) = {}
    BY DEF NewestFirst, ToSet
  <2>2. IndexOf(q, c) = 0
    BY <1>2, <2>1, Found
  <2> QED BY <1>1, <1>2, <2>2 DEF resolvePatchTargetTag
<1>3. CASE q # <<>> /\ IndexOf(q, c) = 0
  BY <1>1, <1>3 DEF resolvePatchTargetTag
<1> QED BY <1>2, <1>3

LEMMA RefusedIsNotOK ==
    ASSUME NEW reason, reason # "OK" PROVE Refused(reason).reason # "OK"
BY DEF Refused

\* Where a version of the list is found, and what that says of it.
LEMMA Place ==
    ASSUME NEW q, NewestFirst(q), NEW t \in ToSet(q)
    PROVE  /\ q # <<>> /\ t \in TagName /\ ParseTag[t].ok
           /\ IndexOf(q, t) \in 1..Len(q) /\ IndexOf(q, t) > 0 /\ q[IndexOf(q, t)] = t
<1>1. Len(q) \in Nat /\ ToSet(q) = {q[i] : i \in 1..Len(q)}
  BY DEF NewestFirst, ToSet
<1>2. IndexOf(q, t) \in 1..Len(q) /\ IndexOf(q, t) > 0 /\ q[IndexOf(q, t)] = t
  <2>1. IndexOf(q, t) \in 0..Len(q) /\ IndexOf(q, t) # 0 /\ q[IndexOf(q, t)] = t
    BY Found
  <2> QED BY <1>1, <2>1
<1>3. t \in TagName /\ ParseTag[t].ok
  <2>1. PICK i \in 1..Len(q) : q[i] = t
    BY <1>1
  <2> QED BY <2>1 DEF NewestFirst
<1>4. q # <<>>
  BY <1>1
<1> QED BY <1>2, <1>3, <1>4

\* CLIAgreesWithPolicy: the order decides an explicit target by position, the controller by
\* comparing the two tags; in a list that is ordered both say the same.
THEOREM CLIAgrees == ListingSpec => []CLIAgreesWithPolicy
<1>1. ListingInv => CLIAgreesWithPolicy
  <2> SUFFICES ASSUME ListingInv,
                      NEW c \in {t \in ToSet(names) : ParseTag[t].ok}, NEW r \in Name \ Skipped
               PROVE  resolvePatchTargetTag(c, r).reason = "OK"
                      <=> ValidateExplicitTarget(c, r, ToSet(OrderTags(names))) = "OK"
    BY DEF CLIAgreesWithPolicy
  <2> DEFINE q == OrderTags(names)
             i == IndexOf(q, c)
             j == IndexOf(q, r)
  <2>1. NewestFirst(q) /\ c \in ToSet(q)
    BY OrderedNames
  <2>2. r \in TagName /\ r # NoTag
    BY NoTagAssumption
  <2> HIDE DEF q
  <2>3. q # <<>> /\ c \in TagName /\ ParseTag[c].ok /\ i \in 1..Len(q) /\ i > 0 /\ q[i] = c
    BY <2>1, Place
  <2>4. resolvePatchTargetTag(c, r) = IF j = 0 THEN Refused("not found")
                                      ELSE IF j = i THEN Refused("already running")
                                      ELSE IF j > i THEN Refused("older")
                                      ELSE CheckLine(c, r, TRUE)
    BY <2>2, <2>3, ExplicitAnswer DEF q
  <2>5. CASE r \notin ToSet(q)
    <3>1. j = 0
      BY <2>1, <2>5, Found
    <3>2. resolvePatchTargetTag(c, r) = Refused("not found")
      BY <2>4, <3>1
    <3>3. ValidateExplicitTarget(c, r, ToSet(OrderTags(names))) = "TagNotFound"
      BY <2>5 DEF ValidateExplicitTarget, q
    <3> QED BY <3>2, <3>3, RefusedIsNotOK
  <2>6. CASE r \in ToSet(q)
    <3>1. ParseTag[r].ok /\ j \in 1..Len(q) /\ j > 0 /\ q[j] = r
      BY <2>1, <2>6, Place
    <3>2. ValidateExplicitTarget(c, r, ToSet(OrderTags(names))) = ValidateAgainstBaseline(c, r)
      BY <2>6 DEF ValidateExplicitTarget, q
    <3>3. ValidateAgainstBaseline(c, r) = "OK"
            <=> Newer(r, c) /\ CheckLine(c, r, TRUE).reason = "OK"
      BY <2>2, <2>3, <3>1, LinesAgree
    <3>4. Newer(r, c) <=> j < i
      BY <2>1, <2>3, <3>1, EarlierIsNewer
    <3>5. Refused("already running").reason # "OK" /\ Refused("older").reason # "OK"
      BY DEF Refused
    <3>6. i \in Int /\ j \in Int /\ j # 0
      BY <2>3, <3>1, SMT DEF NewestFirst
    <3> HIDE DEF i, j
    <3>7. CASE j < i
      <4>1. j # i /\ ~(j > i)
        BY <3>6, <3>7
      <4>2. resolvePatchTargetTag(c, r) = CheckLine(c, r, TRUE)
        BY <2>4, <3>6, <4>1
      <4> QED BY <3>2, <3>3, <3>4, <3>7, <4>2
    <3>8. CASE ~(j < i)
      <4>1. j = i \/ j > i
        BY <3>6, <3>8
      <4>2. resolvePatchTargetTag(c, r) \in {Refused("already running"), Refused("older")}
        BY <2>4, <3>6, <4>1
      <4> QED BY <3>2, <3>3, <3>4, <3>5, <3>8, <4>2
    <3> QED BY <3>7, <3>8
  <2> QED BY <2>5, <2>6
<1> QED BY <1>1, ListingInvariant, PTL

\* What the default target is: the tag before the running one in the list.
LEMMA DefaultFound ==
    ASSUME NEW q, q = OrderTags(names), NewestFirst(q), NEW c \in ToSet(q),
           resolvePatchTargetTag(c, NoTag).reason = "OK"
    PROVE  /\ IndexOf(q, c) - 1 \in 1..Len(q)
           /\ resolvePatchTargetTag(c, NoTag).tag = q[IndexOf(q, c) - 1]
<1> DEFINE i == IndexOf(q, c)
<1>1. q # <<>> /\ i \in 1..Len(q) /\ i > 0
  BY Place
<1>2. resolvePatchTargetTag(c, NoTag) = IF i = 1 THEN Refused("already the latest")
                                        ELSE CheckLine(c, DefaultTarget(q, i), FALSE)
  BY <1>1, DefaultAnswer
<1>3. i # 1
  BY <1>2, RefusedIsNotOK
<1>4. CheckLine(c, q[i - 1], FALSE).reason = "OK"
  BY <1>2, <1>3 DEF DefaultTarget
<1>5. CheckLine(c, q[i - 1], FALSE).tag = q[i - 1]
  BY <1>4 DEF CheckLine, Refused
<1>6. i - 1 \in 1..Len(q)
  <2>1. Len(q) \in Nat
    BY DEF NewestFirst
  <2> HIDE DEF i
  <2> QED BY <1>1, <1>3, <2>1
<1>7. resolvePatchTargetTag(c, NoTag) = CheckLine(c, q[i - 1], FALSE)
  BY <1>2, <1>3 DEF DefaultTarget
<1> QED BY <1>5, <1>6, <1>7

\* NextNewerTag: image-patch without --tag never skips a tag, whatever is listed.
THEOREM NextTagIsNext == ListingSpec => []NextNewerTag
<1>1. ListingInv => NextNewerTag
  <2> SUFFICES ASSUME ListingInv, NEW c \in Name \ Skipped,
                      resolvePatchTargetTag(c, NoTag).reason = "OK"
               PROVE  LET target == resolvePatchTargetTag(c, NoTag)
                      IN  /\ Newer(target.tag, c)
                          /\ \A t \in ToSet(OrderTags(names)) :
                                ~(Newer(t, c) /\ Newer(target.tag, t))
    BY DEF NextNewerTag
  <2> DEFINE q == OrderTags(names)
             i == IndexOf(q, c)
             target == resolvePatchTargetTag(c, NoTag)
  <2>1. NewestFirst(q)
    BY OrderedNames
  <2>2. c \in ToSet(q)
    <3>1. q # <<>>
      <4>1. q = <<>> => resolvePatchTargetTag(c, NoTag) = Refused("no tags")
        BY NoAnswer
      <4> QED BY <4>1, RefusedIsNotOK
    <3>2. i # 0
      <4>1. q # <<>> /\ i = 0 => resolvePatchTargetTag(c, NoTag) = Refused("current not found")
        BY NoAnswer
      <4> QED BY <3>1, <4>1, RefusedIsNotOK
    <3> HIDE DEF q
    <3> QED BY <2>1, <3>2, Found
  <2>3. i \in 1..Len(q) /\ q[i] = c
    <3> HIDE DEF q
    <3> QED BY <2>1, <2>2, Place
  <2>4. i - 1 \in 1..Len(q) /\ target.tag = q[i - 1]
    <3>1. \A p : p = q => (NewestFirst(p) /\ c \in ToSet(p) =>
             IndexOf(p, c) - 1 \in 1..Len(p) /\ target.tag = p[IndexOf(p, c) - 1])
      BY DefaultFound
    <3> QED BY <2>1, <2>2, <3>1
  <2>5. Len(q) \in Nat
    BY <2>1 DEF NewestFirst
  <2> HIDE DEF q, i, target
  <2>6. Newer(target.tag, c)
    <3>1. i - 1 < i
      BY <2>3, <2>5
    <3> QED BY <2>1, <2>3, <2>4, <3>1, EarlierIsNewer
  <2>7. ASSUME NEW t \in ToSet(q) PROVE ~(Newer(t, c) /\ Newer(target.tag, t))
    <3> DEFINE j == IndexOf(q, t)
    <3>1. j \in 1..Len(q) /\ q[j] = t
      BY <2>1, Place
    <3>2. Newer(t, c) <=> j < i
      BY <2>1, <2>3, <3>1, EarlierIsNewer
    <3>3. Newer(target.tag, t) <=> i - 1 < j
      BY <2>1, <2>4, <3>1, EarlierIsNewer
    <3> HIDE DEF j
    <3>4. ~(j < i /\ i - 1 < j)
      BY <2>3, <2>5, <3>1
    <3> QED BY <3>2, <3>3, <3>4
  <2> QED BY <2>6, <2>7 DEF q, target
<1> QED BY <1>1, ListingInvariant, PTL

\* What image-list shows: the tags up to the running one, and the one behind it.
LEMMA Shown ==
    ASSUME NEW q, q = OrderTags(names), NewestFirst(q), NEW c \in ToSet(q)
    PROVE  LET i == IndexOf(q, c)
               listing == selectTagsForCVEListing(c)
               shown == ToSet(listing.tags)
           IN  /\ \A j \in 1..i : q[j] \in shown
               /\ \A t \in shown :
                     (\E j \in 1..i : t = q[j]) \/ (t = listing.previous /\ t # NoTag)
               /\ listing.previous # NoTag =>
                     /\ listing.previous \in shown
                     /\ i + 1 \in 1..Len(q) /\ listing.previous = q[i + 1]
<1> DEFINE i == IndexOf(q, c)
           listing == selectTagsForCVEListing(c)
<1>1. i \in 1..Len(q) /\ i # 0 /\ Len(q) \in Nat /\ q \in Seq(TagName)
  <2>1. i \in 1..Len(q) /\ i > 0
    BY Place
  <2> QED BY <2>1 DEF NewestFirst
<1>2. CASE i = Len(q)
  <2>1. listing.tags = q /\ listing.previous = NoTag
    BY <1>1, <1>2 DEF selectTagsForCVEListing
  <2>2. ToSet(q) = {q[j] : j \in 1..Len(q)}
    BY <1>1 DEF ToSet
  <2> HIDE DEF i, listing
  <2> QED BY <1>1, <1>2, <2>1, <2>2 DEF i, listing
<1>3. CASE i # Len(q)
  <2>1. listing.tags = SubSeq(q, 1, i + 1) /\ listing.previous = q[i + 1]
    BY <1>1, <1>3 DEF selectTagsForCVEListing
  <2> DEFINE s == SubSeq(q, 1, i + 1)
  <2>2. /\ s \in Seq(TagName) /\ Len(s) = i + 1 /\ \A j \in 1..(i + 1) : s[j] = q[j]
        /\ i \in Nat /\ i + 1 \in 1..Len(q) /\ q[i + 1] \in TagName
    <3> HIDE DEF i
    <3> QED BY <1>1, <1>3
  <2> HIDE DEF i, s
  <2>3. ToSet(s) = {s[j] : j \in 1..(i + 1)}
    <3>1. DOMAIN s = 1..(i + 1)
      BY <2>2
    <3> QED BY <3>1 DEF ToSet
  <2>4. 1..(i + 1) = 1..i \cup {i + 1}
    BY <2>2
  <2>5. \A j \in 1..i : q[j] \in ToSet(s)
    BY <2>2, <2>3, <2>4
  <2>6. \A t \in ToSet(s) : (\E j \in 1..i : t = q[j]) \/ t = q[i + 1]
    BY <2>2, <2>3, <2>4
  <2>7. q[i + 1] \in ToSet(s) /\ q[i + 1] # NoTag
    BY <2>2, <2>3, <2>4, NoTagAssumption
  <2> QED BY <2>1, <2>2, <2>5, <2>6, <2>7 DEF i, s
<1> QED BY <1>2, <1>3

\* ListingMatchesPatching: image-list decides by position and date what it shows as eligible and
\* as blocked, image-patch compares the tag it is asked for with the running one: of the eligible
\* tags it accepts the newer ones of the running line, and no other tag.
THEOREM ListingMatches == ListingSpec => []ListingMatchesPatching
<1>1. ListingInv => ListingMatchesPatching
  <2> SUFFICES ASSUME ListingInv, NEW c \in {t \in ToSet(names) : ParseTag[t].ok}
               PROVE  LET listing == selectTagsForCVEListing(c)
                          split == splitTagsByPatchWindow(listing.tags, c, listing.previous)
                          newer == {t \in ToSet(names) : ParseTag[t].ok /\ Newer(t, c)}
                          inWindow(t) == ValidatePatchWindow(ListedFor, t, ZeroDay) = "OK"
                          accepted(t) == resolvePatchTargetTag(c, t).reason = "OK" /\ inWindow(t)
                      IN  /\ split.eligible = {c} \cup ({listing.previous} \ {NoTag})
                                              \cup {t \in newer : inWindow(t)}
                          /\ split.blocked = {t \in newer : ~inWindow(t)}
                          /\ \A t \in Name \ Skipped :
                               accepted(t) <=> t \in split.eligible \cap newer /\ SameLine(c, t)
    BY DEF ListingMatchesPatching
  <2> DEFINE q == OrderTags(names)
             i == IndexOf(q, c)
             listing == selectTagsForCVEListing(c)
             previous == listing.previous
             shown == ToSet(listing.tags)
             split == splitTagsByPatchWindow(listing.tags, c, previous)
             newer == {t \in ToSet(names) : ParseTag[t].ok /\ Newer(t, c)}
             inWindow(t) == ValidatePatchWindow(ListedFor, t, ZeroDay) = "OK"
  <2>1. NewestFirst(q) /\ c \in ToSet(q) /\ newer = {t \in ToSet(q) : Newer(t, c)}
    BY OrderedNames
  <2>2. /\ split.eligible = {t \in shown : IsPatchWindowExempt(ListedFor) \/ Eligible(t, c, previous)}
        /\ split.blocked = shown \ split.eligible
    BY DEF splitTagsByPatchWindow
  <2>3. /\ split.eligible = {t \in shown : t = c \/ t = previous \/ inWindow(t)}
        /\ split.blocked = {t \in shown : t # c /\ t # previous /\ ~inWindow(t)}
    <3>1. IsPatchWindowExempt(ListedFor) => \A t \in shown : inWindow(t)
      BY DEF ValidatePatchWindow
    <3> QED BY <2>2, <3>1 DEF Eligible
  <2>4. q = OrderTags(names)
    OBVIOUS
  <2> HIDE DEF q, split, newer, inWindow
  <2>5. /\ \A j \in 1..i : q[j] \in shown
        /\ \A t \in shown : (\E j \in 1..i : t = q[j]) \/ (t = previous /\ t # NoTag)
        /\ previous # NoTag => previous \in shown /\ i + 1 \in 1..Len(q) /\ previous = q[i + 1]
    BY <2>1, <2>4, Shown
  <2>6. q # <<>> /\ c \in TagName /\ i \in 1..Len(q) /\ i > 0 /\ q[i] = c
    BY <2>1, Place
  <2>7. Len(q) \in Nat /\ ToSet(q) = {q[j] : j \in 1..Len(q)}
    BY <2>1 DEF NewestFirst, ToSet
  <2> HIDE DEF i, listing, shown, previous
  \* The newer tags are those before c.
  <2>8. \A j \in 1..Len(q) : Newer(q[j], c) <=> j < i
    BY <2>1, <2>6, EarlierIsNewer
  <2>9. newer = {q[j] : j \in {k \in 1..Len(q) : k < i}}
    BY <2>1, <2>7, <2>8
  <2>10. \A t \in newer : t \in shown /\ t # c /\ t # previous /\ t # NoTag
    <3> SUFFICES ASSUME NEW j \in 1..Len(q), j < i
                 PROVE  q[j] \in shown /\ q[j] # c /\ q[j] # previous /\ q[j] # NoTag
      BY <2>9
    <3>1. j \in 1..i
      BY <2>6, <2>7
    <3>2. Newer(q[j], c) /\ ~Newer(q[i], c)
      BY <2>6, <2>7, <2>8
    <3>3. q[j] # NoTag
      BY <2>1, NoTagAssumption DEF NewestFirst
    <3>4. previous # NoTag => ~Newer(previous, c)
      BY <2>5, <2>6, <2>7, <2>8
    <3> QED BY <2>5, <2>6, <3>1, <3>2, <3>3, <3>4
  <2>11. \A t \in shown : t \in newer \/ t = c \/ (t = previous /\ t # NoTag)
    <3> SUFFICES ASSUME NEW j \in 1..i PROVE q[j] \in newer \/ q[j] = c
      BY <2>5
    <3>1. j = i \/ (j \in 1..Len(q) /\ j < i)
      BY <2>6, <2>7
    <3> QED BY <2>6, <2>9, <3>1
  <2>12. c \in shown /\ (previous # NoTag => previous \in shown)
    <3>1. i \in 1..i
      BY <2>6, <2>7
    <3> QED BY <2>5, <2>6, <3>1
  <2>13. split.eligible = {c} \cup ({previous} \ {NoTag}) \cup {t \in newer : inWindow(t)}
    BY <2>3, <2>10, <2>11, <2>12
  <2>14. split.blocked = {t \in newer : ~inWindow(t)}
    BY <2>3, <2>10, <2>11
  <2>15. ASSUME NEW t \in Name \ Skipped
         PROVE  (resolvePatchTargetTag(c, t).reason = "OK" /\ inWindow(t))
                <=> t \in split.eligible \cap newer /\ SameLine(c, t)
    <3> DEFINE j == IndexOf(q, t)
    <3>1. t # NoTag
      BY NoTagAssumption
    <3>2. resolvePatchTargetTag(c, t) = IF j = 0 THEN Refused("not found")
                                        ELSE IF j = i THEN Refused("already running")
                                        ELSE IF j > i THEN Refused("older")
                                        ELSE CheckLine(c, t, TRUE)
      BY <2>4, <2>6, <3>1, ExplicitAnswer, ZenonT(40) DEF i
    <3>3. j \in 0..Len(q) /\ (j = 0 <=> t \notin ToSet(q)) /\ (j # 0 => q[j] = t)
      BY <2>1, Found
    <3>4. t \in newer <=> (j # 0 /\ j < i)
      <4> HIDE DEF j
      <4>1. CASE j = 0
        BY <2>1, <3>3, <4>1
      <4>2. CASE j # 0
        <5>1. j \in 1..Len(q) /\ q[j] = t /\ t \in ToSet(q)
          BY <2>7, <3>3, <4>2
        <5> QED BY <2>1, <2>8, <4>2, <5>1
      <4> QED BY <4>1, <4>2
    <3>5. CASE t \notin newer
      <4> HIDE DEF j
      <4>1. j = 0 \/ j = i \/ j > i
        BY <2>6, <2>7, <3>3, <3>4, <3>5
      <4>2. resolvePatchTargetTag(c, t).reason # "OK"
        BY <3>2, <4>1, RefusedIsNotOK
      <4> QED BY <3>5, <4>2
    <3>6. CASE t \in newer
      <4>1. resolvePatchTargetTag(c, t) = CheckLine(c, t, TRUE)
        <5> HIDE DEF j
        <5>1. j # 0 /\ j # i /\ ~(j > i)
          BY <2>6, <2>7, <3>3, <3>4, <3>6
        <5> QED BY <3>2, <5>1
      <4>2. resolvePatchTargetTag(c, t).reason = "OK" <=> SameLine(c, t)
        <5>1. ParseTag[c].major \in Nat /\ ParseTag[c].minor \in Nat
              /\ ParseTag[t].major \in Nat /\ ParseTag[t].minor \in Nat
          BY <2>6, NoTagAssumption, ParseTagAssumption DEF Tag
        <5>2. CASE SameLine(c, t)
          <6>1. ~IsNewerMinorRelease(ParseTag[c], ParseTag[t])
            BY <5>1, <5>2 DEF SameLine, IsNewerMinorRelease
          <6> QED BY <4>1, <5>2, <6>1 DEF CheckLine
        <5>3. CASE ~SameLine(c, t)
          <6>1. \/ resolvePatchTargetTag(c, t) = Refused("newer minor")
                \/ resolvePatchTargetTag(c, t) = Refused("other line")
            BY <4>1, <5>3 DEF CheckLine
          <6> QED BY <5>3, <6>1, RefusedIsNotOK
        <5> QED BY <5>2, <5>3
      <4>3. t \in split.eligible <=> inWindow(t)
        BY <2>10, <2>13, <3>6
      <4> QED BY <3>6, <4>2, <4>3
    <3> QED BY <3>5, <3>6
  <2> QED BY <2>13, <2>14, <2>15 DEF split, listing, previous, newer, inWindow
<1> QED BY <1>1, ListingInvariant, PTL
=============================================================================
