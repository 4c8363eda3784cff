--------------------------- MODULE NetworkRowsProofs ---------------------------
(***************************************************************************)
(* Proofs about NetworkRows and the times it renders with CivilDate.       *)
(*                                                                         *)
(* The rendered date is the calendar's: from one day to the next, and from *)
(* one second to the next, the fields the sensor computes change as those  *)
(* of the calendar do, for every day and second from 1970 on.  The         *)
(* divisions of the algorithm are turned into linear inequalities first;   *)
(* the facts about years, months and eras follow from those.               *)
(***************************************************************************)
EXTENDS NetworkRows, SequenceTheorems, FiniteSetTheorems, WellFoundedInduction, TLAPS

\* n is the quotient of x by k.
IsQuotient(n, x, k) == k * n <= x /\ x < k * n + k

\* y is the year of the era of the day doe, a, b and c the quotients it is computed from.
IsYear(doe, a, b, c, y) ==
    /\ IsQuotient(a, doe, 1460) /\ IsQuotient(b, doe, 36524) /\ IsQuotient(c, doe, 146096)
    /\ IsQuotient(y, doe - a + b - c, 365)

\* A day of an era.
InEra(doe) == doe < 146097

LEMMA YearIsYear ==
  ASSUME NEW doe \in Nat, InEra(doe)
  PROVE  /\ year_of_era(doe) \in Nat
         /\ \E a, b, c \in Nat : IsYear(doe, a, b, c, year_of_era(doe))
<1> DEFINE a == doe \div 1460
           b == doe \div 36524
           c == doe \div 146096
<1>1. a \in Nat /\ IsQuotient(a, doe, 1460)
  BY SMT DEF IsQuotient
<1>2. b \in Nat /\ IsQuotient(b, doe, 36524)
  BY SMT DEF IsQuotient
<1>3. c \in Nat /\ IsQuotient(c, doe, 146096)
  BY SMT DEF IsQuotient
<1>4. year_of_era(doe) = (doe - a + b - c) \div 365
  BY SMT DEF year_of_era
<1> HIDE DEF a, b, c
<1>5. doe - a + b - c \in Nat
  BY <1>1, <1>2, <1>3, SMT DEF InEra, IsQuotient
<1>6. ASSUME NEW x \in Nat  PROVE x \div 365 \in Nat /\ IsQuotient(x \div 365, x, 365)
  BY SMT DEF IsQuotient
<1> QED BY <1>1, <1>2, <1>3, <1>4, <1>5, <1>6, SMT DEF IsYear

\* p and q are the quotients the first day of the year y is computed from.
IsStart(y, p, q) ==
    /\ IsQuotient(p, y, 4) /\ IsQuotient(q, y, 100)
    /\ year_start(y) = 365 * y + p - q

LEMMA QuotientsOfYear ==
  ASSUME NEW yoe \in Nat
  PROVE  \E p, q \in Nat : IsStart(yoe, p, q)
<1> DEFINE p == yoe \div 4
           q == yoe \div 100
<1>1. p \in Nat /\ IsQuotient(p, yoe, 4)
  BY SMT DEF IsQuotient
<1>2. q \in Nat /\ IsQuotient(q, yoe, 100)
  BY SMT DEF IsQuotient
<1>3. year_start(yoe) = 365 * yoe + p - q
  BY SMT DEF year_start
<1> HIDE DEF p, q
<1>4. IsStart(yoe, p, q)
  BY <1>1, <1>2, <1>3 DEF IsStart
<1> QED BY <1>1, <1>2, <1>4, SMT

-----------------------------------------------------------------------------
(* Years. *)

LEMMA LeapByQuotients ==
  ASSUME NEW y \in Nat, NEW p \in Nat, NEW q \in Nat,
         IsStart(y, p, q), y <= 399
  PROVE  IsLeap(y + 1) <=> y = 4 * p + 3 /\ (y = 100 * q + 99 => y = 399)
<1>1. (y + 1) % 4 = 0 <=> y = 4 * p + 3
  BY SMT DEF IsStart, IsQuotient
<1>2. (y + 1) % 100 = 0 <=> y = 100 * q + 99
  BY SMT DEF IsStart, IsQuotient
<1>3. (y + 1) % 400 = 0 <=> y = 399
  BY SMT
<1> QED BY <1>1, <1>2, <1>3, SMT DEF IsLeap

\* The day doe is in the year y, and the 366th of it only if it may have one.
InYear(doe, y, p, q) ==
    /\ y <= 399
    /\ 365 * y + p - q <= doe /\ doe <= 365 * y + p - q + 365
    /\ doe = 365 * y + p - q + 365 => y = 4 * p + 3 /\ (y = 100 * q + 99 => y = 399)

LEMMA YearBounds ==
  ASSUME NEW doe \in Nat, InEra(doe), NEW a \in Nat, NEW b \in Nat, NEW c \in Nat,
         NEW y \in Nat, NEW p \in Nat, NEW q \in Nat,
         IsYear(doe, a, b, c, y), IsStart(y, p, q)
  PROVE  InYear(doe, y, p, q)
<1>1. y <= 399
  BY SMTT(60) DEF InEra, IsYear, IsStart, IsQuotient
<1>2. 365 * y + p - q <= doe /\ doe <= 365 * y + p - q + 365
  BY SMTT(60) DEF InEra, IsYear, IsStart, IsQuotient
<1>3. doe = 365 * y + p - q + 365 => y = 4 * p + 3 /\ (y = 100 * q + 99 => y = 399)
  BY SMTT(60) DEF InEra, IsYear, IsStart, IsQuotient
<1> QED BY <1>1, <1>2, <1>3, SMT DEF InYear

\* The year y, which begins with the day a, has begun on the day doe and is not over.
IsDayOf(doe, y, a) ==
    /\ y = year_of_era(doe) /\ y <= 399 /\ a = year_start(y)
    /\ a <= doe /\ doe <= a + 365
    /\ doe = a + 365 => IsLeap(y + 1)

(* A day of the era is in the year that year_of_era names, which has begun *)
(* and is not over; only a leap year has a 366th day.                      *)
LEMMA YearOfEra ==
  ASSUME NEW doe \in Nat, InEra(doe)
  PROVE  \E y \in Nat, a \in Int : IsDayOf(doe, y, a)
<1>1. PICK y \in Nat : y = year_of_era(doe)
  BY YearIsYear, SMT
<1>2. PICK a, b, c \in Nat : IsYear(doe, a, b, c, y)
  BY <1>1, YearIsYear, SMT
<1>3. PICK p, q \in Nat : IsStart(y, p, q)
  BY QuotientsOfYear, SMT
<1>4. InYear(doe, y, p, q)
  BY <1>2, <1>3, YearBounds, SMT
<1>5. y <= 399
  BY <1>4, SMT DEF InYear
<1>6. IsLeap(y + 1) <=> y = 4 * p + 3 /\ (y = 100 * q + 99 => y = 399)
  BY <1>3, <1>5, LeapByQuotients, SMT
<1>7. year_start(y) = 365 * y + p - q
  BY <1>3, SMT DEF IsStart
<1>8. IsDayOf(doe, y, 365 * y + p - q)
  BY <1>1, <1>4, <1>6, <1>7, SMT DEF InYear, IsDayOf
<1> QED BY <1>8, SMT

\* The day after doe is in the year w, where doe is in the year y.
NextIn(doe, y, w, p, q) ==
    /\ w = y \/ w = y + 1
    /\ w = y + 1 => 365 * w + p - q = doe + 1

LEMMA YearQuotientsStep ==
  ASSUME NEW doe \in Nat, NEW next \in Nat, next = doe + 1, InEra(next),
         NEW a \in Nat, NEW b \in Nat, NEW c \in Nat,
         NEW y \in Nat, IsYear(doe, a, b, c, y),
         NEW a1 \in Nat, NEW b1 \in Nat, NEW c1 \in Nat,
         NEW w \in Nat, IsYear(next, a1, b1, c1, w),
         NEW p \in Nat, NEW q \in Nat, IsStart(w, p, q)
  PROVE  NextIn(doe, y, w, p, q)
<1>1. w = y \/ w = y + 1
  BY SMTT(60) DEF InEra, IsYear, IsStart, IsQuotient
<1>2. w = y + 1 => 365 * w + p - q = doe + 1
  BY SMTT(60) DEF InEra, IsYear, IsStart, IsQuotient
<1> QED BY <1>1, <1>2, SMT DEF NextIn

(* From one day of an era to the next either the day of the year goes up   *)
(* by one, or the next year begins.                                        *)
LEMMA YearStep ==
  ASSUME NEW doe \in Nat, InEra(doe + 1)
  PROVE  LET y == year_of_era(doe)
         IN \/ year_of_era(doe + 1) = y
            \/ year_of_era(doe + 1) = y + 1 /\ year_start(y + 1) = doe + 1
<1>1. PICK next \in Nat : next = doe + 1 /\ InEra(next) /\ InEra(doe)
  BY SMT DEF InEra
<1>2. PICK y \in Nat : y = year_of_era(doe)
  BY <1>1, YearIsYear, SMT
<1>3. PICK w \in Nat : w = year_of_era(next)
  BY <1>1, YearIsYear, SMT
<1>4. PICK a, b, c \in Nat : IsYear(doe, a, b, c, y)
  BY <1>1, <1>2, YearIsYear, SMT
<1>5. PICK a1, b1, c1 \in Nat : IsYear(next, a1, b1, c1, w)
  BY <1>1, <1>3, YearIsYear, SMT
<1>6. PICK p, q \in Nat : IsStart(w, p, q)
  BY QuotientsOfYear, SMT
<1>7. NextIn(doe, y, w, p, q)
  BY <1>1, <1>4, <1>5, <1>6, YearQuotientsStep, Zenon
<1>8. year_start(w) = 365 * w + p - q
  BY <1>6, SMT DEF IsStart
<1> QED BY <1>1, <1>2, <1>3, <1>7, <1>8, SMT DEF NextIn

(* A year that begins in March has 366 days if it ends in a leap year's    *)
(* February.                                                               *)
LEMMA YearLength ==
  ASSUME NEW y \in Nat, y + 1 <= 399
  PROVE  year_start(y + 1) - year_start(y) = IF IsLeap(y + 1) THEN 366 ELSE 365
<1>1. PICK w \in Nat : w = y + 1
  BY SMT
<1>2. PICK p, q \in Nat : IsStart(y, p, q)
  BY QuotientsOfYear, SMT
<1>3. PICK r, s \in Nat : IsStart(w, r, s)
  BY QuotientsOfYear, SMT
<1>4. IsLeap(y + 1) <=> y = 4 * p + 3 /\ (y = 100 * q + 99 => y = 399)
  BY <1>2, LeapByQuotients, SMT
<1>5. r = IF y = 4 * p + 3 THEN p + 1 ELSE p
  BY <1>1, <1>2, <1>3, SMT DEF IsStart, IsQuotient
<1>6. s = IF y = 100 * q + 99 THEN q + 1 ELSE q
  BY <1>1, <1>2, <1>3, SMT DEF IsStart, IsQuotient
<1>7. y = 100 * q + 99 => y = 4 * p + 3
  BY <1>2, SMT DEF IsStart, IsQuotient
<1>8. year_start(y) = 365 * y + p - q /\ year_start(y + 1) = 365 * (y + 1) + r - s
  BY <1>1, <1>2, <1>3, SMT DEF IsStart
<1> QED BY <1>4, <1>5, <1>6, <1>7, <1>8, SMT

-----------------------------------------------------------------------------
(* Months. *)

\* The days of the mp-th month from March on, February taken as that of a leap year.
Days(mp) == IF mp \in {1, 3, 6, 8} THEN 30 ELSE IF mp = 11 THEN 29 ELSE 31

\* mp is the month of the day doy, and t the quotient the day of the month is computed from.
IsMonth(doy, mp, t) == IsQuotient(mp, 5 * doy + 2, 153) /\ IsQuotient(t, 153 * mp + 2, 5)

LEMMA MonthIsMonth ==
  ASSUME NEW doy \in Nat
  PROVE  /\ month_of_year(doy) \in Nat
         /\ \E t \in Nat : IsMonth(doy, month_of_year(doy), t) /\ day_of_month(doy) = doy - t + 1
<1>1. ASSUME NEW x \in Nat  PROVE x \div 153 \in Nat /\ IsQuotient(x \div 153, x, 153)
  BY SMT DEF IsQuotient
<1>2. 5 * doy + 2 \in Nat
  BY SMT
<1>3. PICK mp \in Nat : mp = month_of_year(doy) /\ IsQuotient(mp, 5 * doy + 2, 153)
  BY <1>1, <1>2, SMT DEF month_of_year
<1>4. (153 * mp + 2) \div 5 \in Nat /\ IsQuotient((153 * mp + 2) \div 5, 153 * mp + 2, 5)
  BY SMT DEF IsQuotient
<1>5. PICK t \in Nat : t = (153 * mp + 2) \div 5 /\ IsQuotient(t, 153 * mp + 2, 5)
  BY <1>4, Zenon
<1>6. day_of_month(doy) = doy - t + 1
  BY <1>3, <1>5, SMT DEF day_of_month
<1>7. IsMonth(doy, mp, t)
  BY <1>3, <1>5, SMT DEF IsMonth
<1> QED BY <1>3, <1>6, <1>7, SMT

\* The day d is a day of the month mp; the days from the 337th on are those of February.
InMonth(doy, mp, d) ==
    /\ mp <= 11 /\ 1 <= d /\ d <= Days(mp)
    /\ mp = 11 <=> doy >= 337
    /\ mp = 11 => d = doy - 336

LEMMA MonthBounds ==
  ASSUME NEW doy \in Nat, doy <= 365, NEW mp \in Nat, NEW t \in Nat, IsMonth(doy, mp, t)
  PROVE  InMonth(doy, mp, doy - t + 1)
<1>1. mp <= 11
  BY SMT DEF IsMonth, IsQuotient
<1>2. 1 <= doy - t + 1
  BY <1>1, SMT DEF IsMonth, IsQuotient
<1>3. doy - t + 1 <= Days(mp)
  BY <1>1, SMT DEF IsMonth, IsQuotient, Days
<1>4. /\ mp = 11 <=> doy >= 337
      /\ mp = 11 => doy - t + 1 = doy - 336
  BY <1>1, SMT DEF IsMonth, IsQuotient
<1> QED BY <1>1, <1>2, <1>3, <1>4, SMT DEF InMonth

LEMMA MonthOfYear ==
  ASSUME NEW doy \in Nat, doy <= 365
  PROVE  /\ month_of_year(doy) \in Nat /\ day_of_month(doy) \in Int
         /\ InMonth(doy, month_of_year(doy), day_of_month(doy))
<1>1. PICK mp \in Nat : mp = month_of_year(doy)
  BY MonthIsMonth, SMT
<1>2. PICK t \in Nat : IsMonth(doy, mp, t) /\ day_of_month(doy) = doy - t + 1
  BY <1>1, MonthIsMonth, SMT
<1>3. InMonth(doy, mp, doy - t + 1)
  BY <1>2, MonthBounds, SMT
<1> QED BY <1>1, <1>2, <1>3, SMT

\* The day after d in the month mp is e in nx: in the same month, or the first of the next.
NextInMonth(mp, d, nx, e) ==
    \/ nx = mp /\ e = d + 1
    \/ nx = mp + 1 /\ mp < 11 /\ d = Days(mp) /\ e = 1

LEMMA MonthQuotientsStep ==
  ASSUME NEW doy \in Nat, NEW next \in Nat, next = doy + 1, next <= 365,
         NEW mp \in Nat, NEW t \in Nat, IsMonth(doy, mp, t),
         NEW nx \in Nat, NEW u \in Nat, IsMonth(next, nx, u)
  PROVE  NextInMonth(mp, doy - t + 1, nx, next - u + 1)
<1>1. mp <= 11 /\ nx <= 11
  BY SMT DEF IsMonth, IsQuotient
<1>2. nx = mp \/ nx = mp + 1
  BY <1>1, SMT DEF IsMonth, IsQuotient
<1>3. nx = mp => t = u
  BY <1>1, SMT DEF IsMonth, IsQuotient
<1>4. nx = mp + 1 => doy - t + 1 = Days(mp) /\ next - u + 1 = 1
  BY <1>1, SMT DEF IsMonth, IsQuotient, Days
<1> QED BY <1>1, <1>2, <1>3, <1>4, SMT DEF NextInMonth

LEMMA MonthStep ==
  ASSUME NEW doy \in Nat, doy + 1 <= 365
  PROVE  NextInMonth(month_of_year(doy), day_of_month(doy),
                     month_of_year(doy + 1), day_of_month(doy + 1))
<1>1. PICK next \in Nat : next = doy + 1 /\ next <= 365
  BY SMT
<1>2. PICK mp, nx \in Nat : mp = month_of_year(doy) /\ nx = month_of_year(next)
  BY MonthIsMonth, SMT
<1>3. PICK t \in Nat : IsMonth(doy, mp, t) /\ day_of_month(doy) = doy - t + 1
  BY <1>2, MonthIsMonth, SMT
<1>4. PICK u \in Nat : IsMonth(next, nx, u) /\ day_of_month(next) = next - u + 1
  BY <1>2, MonthIsMonth, SMT
<1>5. NextInMonth(mp, doy - t + 1, nx, next - u + 1)
  BY <1>1, <1>3, <1>4, MonthQuotientsStep, Zenon
<1> QED BY <1>1, <1>2, <1>3, <1>4, <1>5, SMT

\* The month the code makes of the mp-th month from March on.
Month(mp) == IF mp < 10 THEN mp + 3 ELSE mp - 9
Year(y, mp) == IF mp < 10 THEN y ELSE y + 1

LEMMA DateInYear ==
  ASSUME NEW y \in Nat, NEW doy \in Nat, doy <= 365, NEW mp \in Nat, mp = month_of_year(doy)
  PROVE  date_in_year(y, doy) =
           [year |-> Year(y, mp), month |-> Month(mp), day |-> day_of_month(doy)]
<1>1. mp <= 11
  BY MonthOfYear, SMT DEF InMonth
<1>2. (IF Month(mp) <= 2 THEN y + 1 ELSE y) = Year(y, mp)
  BY <1>1, SMT DEF Year, Month
<1>3. date_in_year(y, doy) =
        [year |-> IF Month(mp) <= 2 THEN y + 1 ELSE y, month |-> Month(mp),
         day |-> day_of_month(doy)]
  BY SMT DEF date_in_year, Month
<1> QED BY <1>2, <1>3, SMT

LEMMA DaysOfMonth ==
  ASSUME NEW y \in Nat, NEW mp \in Nat, mp <= 11
  PROVE  /\ mp < 11 => MonthLength(Year(y, mp), Month(mp)) = Days(mp)
         /\ mp = 11 => MonthLength(Year(y, mp), Month(mp)) = IF IsLeap(y + 1) THEN 29 ELSE 28
<1>1. Month(mp) = 2 <=> mp = 11
  BY SMT DEF Month
<1>2. Month(mp) \in {4, 6, 9, 11} <=> mp \in {1, 3, 6, 8}
  BY SMT DEF Month
<1>3. mp = 11 => Year(y, mp) = y + 1
  BY SMT DEF Year
<1> QED BY <1>1, <1>2, <1>3, SMT DEF MonthLength, Days

-----------------------------------------------------------------------------
(* Dates. *)

LEMMA DayInYear ==
  ASSUME NEW y \in Nat, NEW doy \in Nat, doy + 1 <= 365, doy = 364 => IsLeap(y + 1)
  PROVE  date_in_year(y, doy + 1) = NextDate(date_in_year(y, doy))
<1>1. PICK next \in Nat : next = doy + 1 /\ next <= 365 /\ doy <= 365
  BY SMT
<1>2. PICK mp, nx \in Nat : mp = month_of_year(doy) /\ nx = month_of_year(next)
  BY <1>1, MonthOfYear, SMT
<1>3. PICK d, e \in Int : d = day_of_month(doy) /\ e = day_of_month(next)
  BY <1>1, MonthOfYear, SMT
<1>4. InMonth(doy, mp, d) /\ NextInMonth(mp, d, nx, e)
  <2>1. InMonth(doy, mp, d)
    BY <1>1, <1>2, <1>3, MonthOfYear, SMT
  <2>2. NextInMonth(mp, d, nx, e)
    BY <1>1, <1>2, <1>3, MonthStep, SMT
  <2> QED BY <2>1, <2>2
<1>5. /\ date_in_year(y, doy) = [year |-> Year(y, mp), month |-> Month(mp), day |-> d]
      /\ date_in_year(y, next) = [year |-> Year(y, nx), month |-> Month(nx), day |-> e]
  BY <1>1, <1>2, <1>3, DateInYear, SMT
<1>6. PICK len : len = MonthLength(Year(y, mp), Month(mp))
  OBVIOUS
<1>7. /\ mp < 11 => len = Days(mp)
      /\ mp = 11 => len = IF IsLeap(y + 1) THEN 29 ELSE 28
  <2>1. mp <= 11
    BY <1>4, SMT DEF InMonth
  <2> QED BY <1>6, <2>1, DaysOfMonth, SMT
<1>8. CASE nx = mp /\ e = d + 1
  <2>1. mp < 11 => d < Days(mp)
    <3>1. InMonth(next, nx, e)
      BY <1>1, <1>2, <1>3, MonthOfYear, SMT
    <3> QED BY <1>8, <3>1, SMT DEF InMonth, Days
  <2>2. mp = 11 => d < IF IsLeap(y + 1) THEN 29 ELSE 28
    <3>1. mp = 11 => d = doy - 336
      BY <1>4, SMT DEF InMonth
    <3> QED BY <1>1, <3>1, SMT
  <2>3. d < len
    <3>1. mp <= 11
      BY <1>4, SMT DEF InMonth
    <3> QED BY <1>7, <2>1, <2>2, <3>1, SMT
  <2> QED BY <1>1, <1>5, <1>6, <1>8, <2>3, SMT DEF NextDate
<1>9. CASE nx = mp + 1 /\ mp < 11 /\ d = Days(mp) /\ e = 1
  <2>1. ~(d < len)
    BY <1>7, <1>9, SMT
  <2>2. \/ Month(mp) < 12 /\ Month(nx) = Month(mp) + 1 /\ Year(y, nx) = Year(y, mp)
        \/ ~(Month(mp) < 12) /\ Month(nx) = 1 /\ Year(y, nx) = Year(y, mp) + 1
    BY <1>9, SMT DEF Month, Year
  <2> QED BY <1>1, <1>5, <1>6, <1>9, <2>1, <2>2, SMT DEF NextDate
<1> QED BY <1>4, <1>8, <1>9 DEF NextInMonth

LEMMA YearEnd ==
  ASSUME NEW y \in Nat, NEW doy \in Nat, doy = IF IsLeap(y + 1) THEN 365 ELSE 364
  PROVE  date_in_year(y + 1, 0) = NextDate(date_in_year(y, doy))
<1>1. doy >= 337 /\ doy <= 365
  BY SMT
<1>2. month_of_year(doy) = 11 /\ day_of_month(doy) = doy - 336
  BY <1>1, MonthOfYear, SMT DEF InMonth
<1>3. date_in_year(y, doy) = [year |-> y + 1, month |-> 2, day |-> doy - 336]
  <2>1. Year(y, 11) = y + 1 /\ Month(11) = 2
    BY SMT DEF Year, Month
  <2> QED BY <1>1, <1>2, <2>1, DateInYear, SMT
<1>4. month_of_year(0) = 0 /\ day_of_month(0) = 1
  <2>1. month_of_year(0) = 0
    BY SMT DEF month_of_year
  <2> QED BY <2>1, SMT DEF day_of_month
<1>5. date_in_year(y + 1, 0) = [year |-> y + 1, month |-> 3, day |-> 1]
  <2>1. Year(y + 1, 0) = y + 1 /\ Month(0) = 3
    BY SMT DEF Year, Month
  <2> QED BY <1>4, <2>1, DateInYear, SMT
<1>6. MonthLength(y + 1, 2) = doy - 336
  BY SMT DEF MonthLength
<1> QED BY <1>1, <1>3, <1>5, <1>6, SMT DEF NextDate

LEMMA LeapInEra ==
  ASSUME NEW era \in Nat, NEW x \in Nat
  PROVE  IsLeap(x + era * 400) <=> IsLeap(x)
<1>1. (x + era * 400) % 4 = x % 4
  BY SMT
<1>2. (x + era * 400) % 100 = x % 100
  BY SMT
<1>3. (x + era * 400) % 400 = x % 400
  BY SMT
<1> QED BY <1>1, <1>2, <1>3, SMT DEF IsLeap

LEMMA DayInEra ==
  ASSUME NEW era \in Nat, NEW doe \in Nat, InEra(doe + 1)
  PROVE  date_in_era(era, doe + 1) = NextDate(date_in_era(era, doe))
<1>1. PICK next \in Nat : next = doe + 1 /\ InEra(next) /\ InEra(doe)
  BY SMT DEF InEra
<1>2. PICK y \in Nat, a \in Int : IsDayOf(doe, y, a)
  BY <1>1, YearOfEra, SMT
<1>3. PICK w \in Nat, b \in Int : IsDayOf(next, w, b)
  BY <1>1, YearOfEra, SMT
<1>4. /\ y = year_of_era(doe) /\ w = year_of_era(next)
      /\ a = year_start(y) /\ b = year_start(w)
      /\ y <= 399 /\ w <= 399
      /\ 0 <= doe - a /\ doe - a <= 365
      /\ 0 <= next - b /\ next - b <= 365
      /\ next - b = 365 => IsLeap(w + 1)
  BY <1>2, <1>3, SMT DEF IsDayOf
<1>5. PICK Y \in Nat : Y = y + era * 400
  BY SMT
<1>6. PICK doy \in Nat : doy = doe - a
  BY <1>4, SMT
<1>7. date_in_era(era, doe) = date_in_year(Y, doy)
  BY <1>4, <1>5, <1>6, SMT DEF date_in_era
<1>8. date_in_era(era, next) = date_in_year(w + era * 400, next - b)
  BY <1>4, SMT DEF date_in_era
<1>9. IsLeap(Y + 1) <=> IsLeap(y + 1)
  <2>1. Y + 1 = (y + 1) + era * 400 /\ y + 1 \in Nat
    BY <1>5, SMT
  <2> QED BY <2>1, LeapInEra, SMT
<1>10. CASE w = y
  <2>1. next - b = doy + 1 /\ doy + 1 <= 365
    BY <1>1, <1>4, <1>6, <1>10, SMT
  <2>2. doy = 364 => IsLeap(Y + 1)
    <3>1. doy = 364 => next - b = 365
      BY <2>1, SMT
    <3> QED BY <1>4, <1>9, <1>10, <3>1, SMT
  <2>3. date_in_year(Y, doy + 1) = NextDate(date_in_year(Y, doy))
    BY <2>1, <2>2, DayInYear, SMT
  <2>4. date_in_era(era, next) = date_in_year(Y, doy + 1)
    BY <1>5, <1>8, <1>10, <2>1, SMT
  <2> QED BY <1>1, <1>7, <2>3, <2>4, SMT
<1>11. CASE w = y + 1 /\ b = next
  <2>1. b - a = IF IsLeap(y + 1) THEN 366 ELSE 365
    <3>1. y + 1 <= 399
      BY <1>4, <1>11, SMT
    <3> QED BY <1>4, <1>11, <3>1, YearLength, SMT
  <2>2. doy = IF IsLeap(Y + 1) THEN 365 ELSE 364
    BY <1>1, <1>6, <1>9, <1>11, <2>1, SMT
  <2>3. date_in_year(Y + 1, 0) = NextDate(date_in_year(Y, doy))
    BY <2>2, YearEnd, SMT
  <2>4. next - b = 0 /\ w + era * 400 = Y + 1
    BY <1>5, <1>11, SMT
  <2> QED BY <1>1, <1>7, <1>8, <2>3, <2>4, SMT
<1>12. w = y \/ (w = y + 1 /\ b = next)
  BY <1>1, <1>4, YearStep, SMT
<1> QED BY <1>10, <1>11, <1>12, SMT

(* The last day of an era is the 29 February of a year divisible by 400.   *)
LEMMA EraEnd ==
  ASSUME NEW era \in Nat
  PROVE  date_in_era(era + 1, 0) = NextDate(date_in_era(era, 146096))
<1>1. PICK Y \in Nat : Y = 399 + era * 400
  BY SMT
<1>2. date_in_era(era + 1, 0) = date_in_year(Y + 1, 0)
  <2>1. year_of_era(0) = 0 /\ year_start(0) = 0
    BY SMT DEF year_of_era, year_start
  <2>2. 0 + (era + 1) * 400 = Y + 1 /\ 0 - 0 = 0
    BY <1>1, SMT
  <2> QED BY <2>1, <2>2, SMT DEF date_in_era
<1>3. date_in_era(era, 146096) = date_in_year(Y, 365)
  <2>1. year_of_era(146096) = 399
    BY SMT DEF year_of_era
  <2>2. year_start(399) = 145731
    BY SMT DEF year_start
  <2> QED BY <1>1, <2>1, <2>2, SMT DEF date_in_era
<1>4. IsLeap(Y + 1)
  <2>1. IsLeap(400) /\ Y + 1 = 400 + era * 400
    BY <1>1, SMT DEF IsLeap
  <2> QED BY <2>1, LeapInEra, SMT
<1>5. date_in_year(Y + 1, 0) = NextDate(date_in_year(Y, 365))
  BY <1>4, YearEnd, SMT
<1> QED BY <1>2, <1>3, <1>5, SMT

-----------------------------------------------------------------------------
(* The theorems. *)

(* civil_from_days follows the calendar: the date of the next day is the   *)
(* next date, over every month's end, leap day, century and era.           *)
THEOREM NextDay ==
  ASSUME NEW days \in Nat
  PROVE  civil_from_days(days + 1) = NextDate(civil_from_days(days))
<1>1. PICK z \in Nat : z = days + 719468
  BY SMT
<1>2. PICK era \in Nat : era = z \div 146097
  BY SMT
<1>3. PICK doe \in Nat : doe = z % 146097
  BY SMT
<1>4. z = 146097 * era + doe /\ doe < 146097
  BY <1>2, <1>3, SMT
<1>5. civil_from_days(days) = date_in_era(era, doe)
  BY <1>1, <1>2, <1>3, SMT DEF civil_from_days
<1>6. civil_from_days(days + 1) = date_in_era((z + 1) \div 146097, (z + 1) % 146097)
  <2>1. days + 1 + 719468 = z + 1
    BY <1>1, SMT
  <2> QED BY <2>1, SMT DEF civil_from_days
<1>7. CASE doe < 146096
  <2>1. (z + 1) \div 146097 = era
    BY <1>4, <1>7, SMT
  <2>2. (z + 1) % 146097 = doe + 1
    BY <1>4, <1>7, SMT
  <2>3. InEra(doe + 1)
    BY <1>7, SMT DEF InEra
  <2> QED BY <1>5, <1>6, <2>1, <2>2, <2>3, DayInEra, SMT
<1>8. CASE doe = 146096
  <2>1. (z + 1) \div 146097 = era + 1
    BY <1>4, <1>8, SMT
  <2>2. (z + 1) % 146097 = 0
    BY <1>4, <1>8, SMT
  <2> QED BY <1>5, <1>6, <1>8, <2>1, <2>2, EraEnd, SMT
<1> QED BY <1>4, <1>7, <1>8, SMT

\* The hour, the minute and the second of the second x of a day.
IsTime(x, h, m, s) ==
    /\ h = x \div 3600 /\ m = (x % 3600) \div 60 /\ s = x % 60
    /\ h <= 23 /\ m <= 59 /\ s <= 59 /\ x = 3600 * h + 60 * m + s

LEMMA TimeOfDay ==
  ASSUME NEW x \in Nat, x <= 86399
  PROVE  \E h, m, s \in Nat : IsTime(x, h, m, s)
<1>1. PICK h \in Nat : h = x \div 3600
  BY SMT
<1>2. PICK r \in Nat : r = x % 3600
  BY SMT
<1>3. x = 3600 * h + r /\ r < 3600
  BY <1>1, <1>2, SMT
<1>4. PICK m \in Nat : m = r \div 60
  BY SMT
<1>5. PICK s \in Nat : s = x % 60
  BY SMT
<1>6. r = 60 * m + s /\ s < 60
  BY <1>3, <1>4, <1>5, SMT
<1>7. IsTime(x, h, m, s)
  <2>1. h <= 23 /\ m <= 59 /\ s <= 59 /\ x = 3600 * h + 60 * m + s
    BY <1>3, <1>6, SMT
  <2> QED BY <1>1, <1>2, <1>4, <1>5, <2>1, SMT DEF IsTime
<1> QED BY <1>7, SMT

(* rfc3339_from_unix ticks like a clock: the timestamp of the next second  *)
(* is the next timestamp, over the end of every minute, hour and day.      *)
THEOREM NextTimestamp ==
  ASSUME NEW seconds \in Nat
  PROVE  rfc3339_from_unix(seconds + 1) = NextSecond(rfc3339_from_unix(seconds))
<1>1. PICK d \in Nat : d = seconds \div 86400
  BY SMT
<1>2. PICK x \in Nat : x = seconds % 86400
  BY SMT
<1>3. seconds = 86400 * d + x /\ x <= 86399
  BY <1>1, <1>2, SMT
<1>4. PICK h, m, s \in Nat : IsTime(x, h, m, s)
  BY <1>3, TimeOfDay, SMT
<1>5. rfc3339_from_unix(seconds) =
        [date |-> civil_from_days(d), hour |-> h, minute |-> m, second |-> s]
  <2>1. h = x \div 3600 /\ m = (x % 3600) \div 60 /\ s = x % 60
    BY <1>4 DEF IsTime
  <2> QED BY <1>1, <1>2, <2>1, SMT DEF rfc3339_from_unix
<1>6. PICK x1 \in Nat : x1 = (seconds + 1) % 86400
  BY SMT
<1>7. x1 <= 86399
  BY <1>6, SMT
<1>8. PICK h1, m1, s1 \in Nat : IsTime(x1, h1, m1, s1)
  BY <1>7, TimeOfDay, SMT
<1>9. rfc3339_from_unix(seconds + 1) =
        [date |-> civil_from_days((seconds + 1) \div 86400), hour |-> h1, minute |-> m1, second |-> s1]
  <2>1. h1 = x1 \div 3600 /\ m1 = (x1 % 3600) \div 60 /\ s1 = x1 % 60
    BY <1>8 DEF IsTime
  <2> QED BY <1>6, <2>1, SMT DEF rfc3339_from_unix
<1>10. CASE x = 86399
  <2>1. (seconds + 1) \div 86400 = d + 1
    BY <1>3, <1>10, SMT
  <2>2. x1 = 0
    BY <1>3, <1>6, <1>10, SMT
  <2>3. h = 23 /\ m = 59 /\ s = 59 /\ h1 = 0 /\ m1 = 0 /\ s1 = 0
    <3>1. h <= 23 /\ m <= 59 /\ s <= 59 /\ 86399 = 3600 * h + 60 * m + s
      BY <1>4, <1>10 DEF IsTime
    <3>2. 0 = 3600 * h1 + 60 * m1 + s1
      BY <1>8, <2>2 DEF IsTime
    <3> QED BY <3>1, <3>2, SMT
  <2> QED BY <1>5, <1>9, <2>1, <2>3, NextDay, SMT DEF NextSecond
<1>11. CASE x < 86399
  <2>1. (seconds + 1) \div 86400 = d
    BY <1>3, <1>11, SMT
  <2>2. x1 = x + 1
    BY <1>3, <1>6, <1>11, SMT
  <2>3. \/ s < 59 /\ h1 = h /\ m1 = m /\ s1 = s + 1
        \/ s = 59 /\ m < 59 /\ h1 = h /\ m1 = m + 1 /\ s1 = 0
        \/ s = 59 /\ m = 59 /\ h < 23 /\ h1 = h + 1 /\ m1 = 0 /\ s1 = 0
    <3>1. h <= 23 /\ m <= 59 /\ s <= 59 /\ x = 3600 * h + 60 * m + s
      BY <1>4 DEF IsTime
    <3>2. h1 <= 23 /\ m1 <= 59 /\ s1 <= 59 /\ x + 1 = 3600 * h1 + 60 * m1 + s1
      BY <1>8, <2>2 DEF IsTime
    <3> QED BY <1>11, <3>1, <3>2, SMT
  <2> QED BY <1>5, <1>9, <2>1, <2>3, SMT DEF NextSecond
<1> QED BY <1>3, <1>10, <1>11, SMT

-----------------------------------------------------------------------------
(* Times are read back as they were rendered.                              *)

\* The fields of a timestamp name a second.
IsDate(d) == d.year \in Nat \ {0} /\ d.month \in 1..12 /\ d.day \in 1..MonthLength(d.year, d.month)
IsTimestamp(t) ==
    IsDate(t.date) /\ t.hour \in 0..23 /\ t.minute \in 0..59 /\ t.second \in 0..59

(* A year has 365 days, or 366.                                            *)
LEMMA YearDays ==
  ASSUME NEW y \in Nat \ {0}
  PROVE  /\ DaysBeforeYear(y) \in Int
         /\ DaysBeforeYear(y + 1) = DaysBeforeYear(y) + (IF IsLeap(y) THEN 366 ELSE 365)
<1>1. PICK x \in Nat : x = y - 1
  BY SMT
<1>2. y \div 4 = x \div 4 + (IF y % 4 = 0 THEN 1 ELSE 0)
  BY <1>1, SMT
<1>3. y \div 100 = x \div 100 + (IF y % 100 = 0 THEN 1 ELSE 0)
  BY <1>1, SMT
<1>4. y \div 400 = x \div 400 + (IF y % 400 = 0 THEN 1 ELSE 0)
  BY <1>1, SMT
<1>5. PICK a, b, c \in Nat : a = x \div 4 /\ b = x \div 100 /\ c = x \div 400
  BY SMT
<1>6. DaysBeforeYear(y) = 365 * (y - 1970) + a - b + c - 477
  BY <1>1, <1>5, SMT DEF DaysBeforeYear
<1>7. DaysBeforeYear(y + 1) = 365 * (y + 1 - 1970) + y \div 4 - y \div 100 + y \div 400 - 477
  BY SMT DEF DaysBeforeYear
<1>8. /\ y % 400 = 0 => y % 100 = 0
      /\ y % 100 = 0 => y % 4 = 0
  BY SMT
<1> QED BY <1>2, <1>3, <1>4, <1>5, <1>6, <1>7, <1>8, SMT DEF IsLeap

(* A month begins where the one before it ends.                            *)
LEMMA MonthDays ==
  ASSUME NEW y \in Nat, NEW m \in 1..12
  PROVE  /\ DaysBeforeMonth(y, m) \in Int /\ MonthLength(y, m) \in Nat /\ DaysBeforeMonth(y, 1) = 0
         /\ m < 12 => DaysBeforeMonth(y, m + 1) = DaysBeforeMonth(y, m) + MonthLength(y, m)
         /\ DaysBeforeMonth(y, 12) + MonthLength(y, 12) = IF IsLeap(y) THEN 366 ELSE 365
<1>1. m \in {1, 2, 3, 4, 5, 6, 7, 8, 9, 10, 11, 12}
  BY SMT
<1>2. PICK leap \in BOOLEAN : leap = IsLeap(y)
  BY DEF IsLeap
<1>3. \A n \in 1..12 : DaysBeforeMonth(y, n) =
          (367 * n - 362) \div 12 - (IF n <= 2 THEN 0 ELSE IF leap THEN 1 ELSE 2)
  BY <1>2, SMT DEF DaysBeforeMonth
<1>4. \A n \in 1..12 : MonthLength(y, n) =
          IF n = 2 THEN IF leap THEN 29 ELSE 28 ELSE IF n \in {4, 6, 9, 11} THEN 30 ELSE 31
  BY <1>2, SMT DEF MonthLength
<1>5. DaysBeforeMonth(y, m) \in Int /\ MonthLength(y, m) \in Nat
  BY <1>3, <1>4, SMT
<1>6. DaysBeforeMonth(y, 1) = 0 /\ DaysBeforeMonth(y, 12) + MonthLength(y, 12) = IF leap THEN 366 ELSE 365
  BY <1>3, <1>4, SMT
<1>7. m < 12 => DaysBeforeMonth(y, m + 1) = DaysBeforeMonth(y, m) + MonthLength(y, m)
  BY <1>1, <1>3, <1>4, SMT
<1> QED BY <1>2, <1>5, <1>6, <1>7

\* The days from 1970 to a date.
DayNumber(d) == DaysBeforeYear(d.year) + DaysBeforeMonth(d.year, d.month) + d.day - 1

(* The next date is the next day.                                          *)
LEMMA NextDateIsNextDay ==
  ASSUME NEW d, IsDate(d)
  PROVE  IsDate(NextDate(d)) /\ DayNumber(d) \in Int /\ DayNumber(NextDate(d)) = DayNumber(d) + 1
<1>1. PICK y \in Nat \ {0}, m \in 1..12, n \in Nat :
        y = d.year /\ m = d.month /\ n = d.day /\ 1 <= n /\ n <= MonthLength(y, m)
  <2>1. MonthLength(d.year, d.month) \in Nat
    BY SMT DEF MonthLength
  <2> QED BY <2>1, SMT DEF IsDate
<1>2. PICK by, bm \in Int, len \in Nat :
        by = DaysBeforeYear(y) /\ bm = DaysBeforeMonth(y, m) /\ len = MonthLength(y, m)
  <2>1. DaysBeforeYear(y) \in Int
    BY YearDays
  <2>2. y \in Nat
    OBVIOUS
  <2>3. DaysBeforeMonth(y, m) \in Int /\ MonthLength(y, m) \in Nat
    BY <2>2, MonthDays, ZenonT(60)
  <2> QED BY <2>1, <2>3
<1>3. DayNumber(d) = by + bm + n - 1
  BY <1>1, <1>2 DEF DayNumber
<1>4. CASE n < len
  <2>1. NextDate(d) = [year |-> y, month |-> m, day |-> n + 1]
    BY <1>1, <1>2, <1>4 DEF NextDate
  <2>2. DayNumber(NextDate(d)) = by + bm + (n + 1) - 1
    BY <1>2, <2>1 DEF DayNumber
  <2>3. IsDate(NextDate(d))
    BY <1>1, <1>2, <1>4, <2>1, SMT DEF IsDate
  <2> QED BY <1>3, <2>2, <2>3, SMT
<1>5. CASE n = len /\ m < 12
  <2>1. NextDate(d) = [year |-> y, month |-> m + 1, day |-> 1]
    BY <1>1, <1>2, <1>5, SMT DEF NextDate
  <2>2. DaysBeforeMonth(y, m + 1) = bm + len
    BY <1>2, <1>5, MonthDays
  <2>3. DayNumber(NextDate(d)) = by + (bm + len) + 1 - 1
    BY <1>2, <2>1, <2>2 DEF DayNumber
  <2>4. IsDate(NextDate(d))
    <3>1. m + 1 \in 1..12
      BY <1>5, SMT
    <3>2. 1 \in 1..MonthLength(y, m + 1)
      BY <3>1, SMT DEF MonthLength
    <3> QED BY <1>1, <2>1, <3>1, <3>2 DEF IsDate
  <2> QED BY <1>3, <1>5, <2>3, <2>4, SMT
<1>6. CASE n = len /\ m = 12
  <2>1. NextDate(d) = [year |-> y + 1, month |-> 1, day |-> 1]
    BY <1>1, <1>2, <1>6, SMT DEF NextDate
  <2>2. DaysBeforeYear(y + 1) = by + (bm + len) /\ DaysBeforeMonth(y + 1, 1) = 0
    <3>1. DaysBeforeYear(y + 1) = by + (IF IsLeap(y) THEN 366 ELSE 365)
      BY <1>2, YearDays
    <3>2. bm + len = IF IsLeap(y) THEN 366 ELSE 365
      BY <1>2, <1>6, MonthDays
    <3>3. DaysBeforeMonth(y + 1, 1) = 0
      BY MonthDays, SMT
    <3> QED BY <3>1, <3>2, <3>3
  <2>3. DayNumber(NextDate(d)) = by + (bm + len) + 0 + 1 - 1
    BY <1>2, <2>1, <2>2 DEF DayNumber
  <2>4. IsDate(NextDate(d))
    <3>1. 1 \in 1..MonthLength(y + 1, 1) /\ y + 1 \in Nat \ {0}
      BY SMT DEF MonthLength
    <3> QED BY <2>1, <3>1, SMT DEF IsDate
  <2> QED BY <1>3, <1>6, <2>3, <2>4, SMT
<1>7. (n < len) \/ (n = len /\ m < 12) \/ (n = len /\ m = 12)
  BY <1>1, <1>2, SMT
<1> QED BY <1>3, <1>4, <1>5, <1>6, <1>7

(* The next timestamp is the next instant.                                 *)
LEMMA NextSecondIsNextInstant ==
  ASSUME NEW t, IsTimestamp(t)
  PROVE  IsTimestamp(NextSecond(t)) /\ instant(t) \in Int /\ instant(NextSecond(t)) = instant(t) + 1
<1>1. PICK h \in 0..23, m, s \in 0..59, D, E \in Int :
        /\ h = t.hour /\ m = t.minute /\ s = t.second
        /\ D = DayNumber(t.date) /\ E = DayNumber(NextDate(t.date)) /\ E = D + 1
  <2>1. DayNumber(t.date) \in Int /\ DayNumber(NextDate(t.date)) = DayNumber(t.date) + 1
    BY NextDateIsNextDay DEF IsTimestamp
  <2>2. PICK D, E \in Int : D = DayNumber(t.date) /\ E = DayNumber(NextDate(t.date)) /\ E = D + 1
    BY <2>1
  <2>3. t.hour \in 0..23 /\ t.minute \in 0..59 /\ t.second \in 0..59
    BY DEF IsTimestamp
  <2> HIDE DEF DayNumber
  <2> QED BY <2>2, <2>3
<1>2. IsDate(t.date) /\ IsDate(NextDate(t.date))
  BY NextDateIsNextDay DEF IsTimestamp
<1>3. instant(t) = 86400 * D + 3600 * h + 60 * m + s
  BY <1>1 DEF instant, DayNumber
<1>4. CASE s < 59
  <2>1. NextSecond(t) = [date |-> t.date, hour |-> h, minute |-> m, second |-> s + 1]
    BY <1>1, <1>4 DEF NextSecond
  <2>2. instant(NextSecond(t)) = 86400 * D + 3600 * h + 60 * m + (s + 1)
    BY <1>1, <2>1 DEF instant, DayNumber
  <2>3. s + 1 \in 0..59
    BY <1>4
  <2>4. IsTimestamp(NextSecond(t))
    BY <1>2, <2>1, <2>3 DEF IsTimestamp
  <2> QED BY <1>3, <2>2, <2>4
<1>5. CASE ~(s < 59) /\ m < 59
  <2>1. NextSecond(t) = [date |-> t.date, hour |-> h, minute |-> m + 1, second |-> 0]
    BY <1>1, <1>5 DEF NextSecond
  <2>2. instant(NextSecond(t)) = 86400 * D + 3600 * h + 60 * (m + 1) + 0
    BY <1>1, <2>1 DEF instant, DayNumber
  <2>3. m + 1 \in 0..59 /\ 0 \in 0..59 /\ s = 59
    BY <1>5
  <2> QED BY <1>2, <1>3, <2>1, <2>2, <2>3 DEF IsTimestamp
<1>6. CASE ~(s < 59) /\ ~(m < 59) /\ h < 23
  <2>1. NextSecond(t) = [date |-> t.date, hour |-> h + 1, minute |-> 0, second |-> 0]
    BY <1>1, <1>6 DEF NextSecond
  <2>2. instant(NextSecond(t)) = 86400 * D + 3600 * (h + 1) + 60 * 0 + 0
    BY <1>1, <2>1 DEF instant, DayNumber
  <2>3. h + 1 \in 0..23 /\ 0 \in 0..59 /\ s = 59 /\ m = 59
    BY <1>6
  <2> QED BY <1>2, <1>3, <2>1, <2>2, <2>3 DEF IsTimestamp
<1>7. CASE ~(s < 59) /\ ~(m < 59) /\ ~(h < 23)
  <2>1. NextSecond(t) = [date |-> NextDate(t.date), hour |-> 0, minute |-> 0, second |-> 0]
    BY <1>1, <1>7 DEF NextSecond
  <2>2. instant(NextSecond(t)) = 86400 * E + 3600 * 0 + 60 * 0 + 0
    BY <1>1, <2>1 DEF instant, DayNumber
  <2>3. 0 \in 0..23 /\ 0 \in 0..59 /\ s = 59 /\ m = 59 /\ h = 23
    BY <1>7
  <2> QED BY <1>1, <1>2, <1>3, <2>1, <2>2, <2>3 DEF IsTimestamp
<1> QED BY <1>4, <1>5, <1>6, <1>7

(* 1970 begins at second 0.                                                *)
LEMMA TimeBegins ==
  IsTimestamp(rfc3339_from_unix(0)) /\ instant(rfc3339_from_unix(0)) = 0
<1>1. civil_from_days(0) = [year |-> 1970, month |-> 1, day |-> 1]
  <2>1. 719468 \div 146097 = 4 /\ 719468 % 146097 = 135080
    BY SMT
  <2>2. year_of_era(135080) = 369 /\ year_start(369) = 134774
    BY SMT DEF year_of_era, year_start
  <2>3. civil_from_days(0) = date_in_year(1969, 306)
    BY <2>1, <2>2, SMT DEF civil_from_days, date_in_era
  <2>4. month_of_year(306) = 10 /\ day_of_month(306) = 1
    BY SMT DEF month_of_year, day_of_month
  <2> QED BY <2>3, <2>4, SMT DEF date_in_year
<1>2. rfc3339_from_unix(0) =
        [date |-> [year |-> 1970, month |-> 1, day |-> 1], hour |-> 0, minute |-> 0, second |-> 0]
  <2>1. 0 \div 86400 = 0 /\ 0 % 86400 = 0 /\ 0 \div 3600 = 0 /\ 0 % 3600 = 0 /\ 0 \div 60 = 0 /\ 0 % 60 = 0
    BY SMT
  <2> QED BY <1>1, <2>1 DEF rfc3339_from_unix
<1>3. DaysBeforeYear(1970) = 0 /\ DaysBeforeMonth(1970, 1) = 0 /\ MonthLength(1970, 1) = 31
  BY SMT DEF DaysBeforeYear, DaysBeforeMonth, MonthLength
<1> QED BY <1>2, <1>3, SMT DEF IsTimestamp, IsDate, instant

(* rfc3339_from_unix and Instant.parse are each other's inverse: the text  *)
(* of a row's ts denotes the second the row was stamped with, whatever     *)
(* second since 1970 that is.                                              *)
THEOREM TimesReadBack ==
  ASSUME NEW seconds \in Nat
  PROVE  instant(rfc3339_from_unix(seconds)) = seconds
<1> DEFINE OK(n) == IsTimestamp(rfc3339_from_unix(n)) /\ instant(rfc3339_from_unix(n)) = n
           T == {n \in Nat : ~OK(n)}
<1>1. ASSUME T # {} PROVE FALSE
  <2>1. PICK x \in T : \A y \in T : <<y, x>> \notin OpToRel(<, Nat)
    <3>1. T \subseteq Nat
      OBVIOUS
    <3> HIDE DEF T
    <3> QED BY <1>1, <3>1, NatLessThanWellFounded, WFMin
  <2>2. \A y \in T : ~(y < x)
    BY <2>1 DEF OpToRel
  <2>3. x # 0
    <3>1. x \in Nat /\ ~OK(x)
      BY <2>1
    <3> QED BY <3>1, TimeBegins
  <2>4. PICK y \in Nat : x = y + 1
    BY <2>3, SMT
  <2> HIDE DEF OK
  <2>5. OK(y)
    <3>1. y < x
      BY <2>4
    <3> QED BY <2>2, <2>4, <3>1
  <2>6. rfc3339_from_unix(x) = NextSecond(rfc3339_from_unix(y))
    BY <2>4, NextTimestamp
  <2>7. OK(x)
    BY <2>4, <2>5, <2>6, NextSecondIsNextInstant DEF OK
  <2> QED BY <2>7
<1> HIDE DEF OK
<1>2. OK(seconds)
  BY <1>1
<1> QED BY <1>2 DEF OK

-----------------------------------------------------------------------------
(* Types.                                                                  *)

\* A row of the sensor shows the second it was drained in.
AyaRows ==
    {[source |-> "aya_connect", conn |-> c, ts |-> rfc3339_from_unix(n), drained |-> n] :
        c \in Conns, n \in Nat}
FlowRows == [source : {"honeynet"}, conn : Conns, second : Nat, half : 0..1]
Piece == [row : AyaRows \cup FlowRows, piece : 1..5]

TypeOK ==
    /\ capacity \in Nat \ {0} /\ start \in Nat /\ ticks \in Nat
    /\ ring \in Seq(Conns) /\ seen \subseteq Conns /\ logged \subseteq Conns
    /\ sensor \in {"draining", "stopped", "failed", "ended"}
    /\ line \in Seq(Piece) /\ buffer \in Seq(Piece) /\ file \in Seq(Piece)

(* The clock of a run counts from a second after 1970.                     *)
LEMMA NowIsASecond == TypeOK => Now \in Nat
<1>1. ASSUME NEW n \in Nat  PROVE n \div 2 \in Nat
  BY SMT
<1> QED BY <1>1, SMT DEF TypeOK, Now

(* A row is written as its pieces in their order.                          *)
LEMMA PiecesOfRow ==
  ASSUME NEW row \in AyaRows \cup FlowRows
  PROVE  to_writer(row) \in Seq(Piece)
<1>1. DOMAIN Pieces = 1..5
  BY DEF Pieces
<1>2. to_writer(row) \in [1..5 -> Piece]
  BY <1>1 DEF to_writer, Piece
<1>3. PICK s : s = to_writer(row)
  OBVIOUS
<1>4. s \in [1..5 -> Piece] /\ 5 \in Nat
  BY <1>2, <1>3
<1>5. s \in Seq(Piece)
  <2> HIDE DEF Piece
  <2>1. Seq(Piece) = UNION {[1..n -> Piece] : n \in Nat}
    BY SeqDef
  <2> QED BY <1>4, <2>1, Zenon
<1> QED BY <1>3, <1>5

(* What is left of a list and what is taken from it are lists again.       *)
LEMMA Cut ==
  ASSUME NEW S, NEW s \in Seq(S), NEW k \in 0..Len(s)
  PROVE  SubSeq(s, 1, k) \in Seq(S) /\ SubSeq(s, k + 1, Len(s)) \in Seq(S)
<1>1. Len(s) \in Nat /\ \A n \in 1..Len(s) : s[n] \in S
  OBVIOUS
<1>2. \A n \in 1..k : s[n] \in S
  BY <1>1
<1>3. \A n \in (k + 1)..Len(s) : s[n] \in S
  BY <1>1
<1> QED BY <1>1, <1>2, <1>3, SubSeqProperties

LEMMA InitTyped == Init => TypeOK
BY StartsAreSeconds, SizesArePositive DEF Init, TypeOK

(* TypeOK is kept by each action.                                          *)
LEMMA NextTyped == TypeOK /\ [Next]_vars => TypeOK'
<1> SUFFICES ASSUME TypeOK, [Next]_vars  PROVE TypeOK'
  OBVIOUS
<1>1. ASSUME NEW c \in Conns, LogFlow(c)  PROVE TypeOK'
  <2>1. ticks % 2 \in 0..1
    BY SMT DEF TypeOK
  <2>2. HoneynetRow(c) \in FlowRows
    BY <2>1, NowIsASecond DEF HoneynetRow, FlowRows
  <2>3. to_writer(HoneynetRow(c)) \in Seq(Piece)
    BY <2>2, PiecesOfRow
  <2>4. file' \in Seq(Piece)
    BY <1>1, <2>3, ConcatProperties DEF LogFlow, TypeOK
  <2> QED BY <1>1, <2>4 DEF LogFlow, TypeOK, fixed
<1>2. ASSUME NEW c \in Conns, Connect(c)  PROVE TypeOK'
  BY <1>2, AppendProperties DEF Connect, TypeOK, fixed
<1>3. CASE Tick
  BY <1>3 DEF Tick, TypeOK
<1>4. CASE Drain
  <2>1. Head(ring) \in Conns /\ Tail(ring) \in Seq(Conns)
    BY <1>4, HeadTailProperties DEF Drain, TypeOK
  <2>2. render_network_event(Head(ring)) \in AyaRows
    BY <2>1, NowIsASecond DEF render_network_event, rfc3339_now, AyaRows
  <2>3. line' \in Seq(Piece)
    BY <1>4, <2>2, PiecesOfRow DEF Drain
  <2> QED BY <1>4, <2>1, <2>3 DEF Drain, TypeOK, fixed
<1>5. CASE Fill
  <2>1. PICK room : room = Smaller(Len(line), capacity - Len(buffer))
    OBVIOUS
  <2>2. room \in 0..Len(line)
    BY <1>5, <2>1 DEF Fill, Smaller, TypeOK
  <2>3. SubSeq(line, 1, room) \in Seq(Piece) /\ SubSeq(line, room + 1, Len(line)) \in Seq(Piece)
    BY <2>2, Cut DEF TypeOK
  <2>4. buffer' = buffer \o SubSeq(line, 1, room) /\ line' = SubSeq(line, room + 1, Len(line))
    BY <1>5, <2>1 DEF Fill
  <2>5. buffer' \in Seq(Piece) /\ line' \in Seq(Piece)
    BY <2>3, <2>4, ConcatProperties DEF TypeOK
  <2> QED BY <1>5, <2>5 DEF Fill, TypeOK, fixed
<1>6. CASE Spill \/ Stop
  <2>1. file' = file \o buffer /\ buffer' = <<>>
    BY <1>6 DEF Spill, Stop, Appended
  <2>2. file' \in Seq(Piece) /\ buffer' \in Seq(Piece)
    BY <2>1, ConcatProperties, EmptySeq DEF TypeOK
  <2> QED BY <1>6, <2>2 DEF Spill, Stop, TypeOK, fixed
<1>7. CASE Fail \/ DropWriter
  <2>1. file' \in Seq(Piece) /\ buffer' \in Seq(Piece)
    <3>1. CASE WrittenInPart
      <4>1. PICK k \in 0..Len(buffer) : /\ file' = Appended(SubSeq(buffer, 1, k))
                                        /\ buffer' = SubSeq(buffer, k + 1, Len(buffer))
        BY <3>1 DEF WrittenInPart
      <4>2. SubSeq(buffer, 1, k) \in Seq(Piece) /\ SubSeq(buffer, k + 1, Len(buffer)) \in Seq(Piece)
        BY Cut DEF TypeOK
      <4> QED BY <4>1, <4>2, ConcatProperties DEF Appended, TypeOK
    <3>2. CASE UNCHANGED <<buffer, file>>
      BY <3>2 DEF TypeOK
    <3> QED BY <1>7, <3>1, <3>2 DEF Fail, DropWriter
  <2> QED BY <1>7, <2>1 DEF Fail, DropWriter, TypeOK, fixed
<1>8. CASE UNCHANGED vars
  BY <1>8 DEF vars, TypeOK, fixed
<1> QED BY <1>1, <1>2, <1>3, <1>4, <1>5, <1>6, <1>7, <1>8 DEF Next

(* The variables of both writers and the file they share hold what the     *)
(* module says they hold.                                                  *)
THEOREM TypeCorrect == Spec => []TypeOK
BY InitTyped, NextTyped, PTL DEF Spec

(* Whenever the sensor writes a row, the time it renders goes to that of   *)
(* the next second as the calendar does: no instant of a run, in any year, *)
(* has the wrong date.                                                     *)
THEOREM TimestampsFollowTheCalendar == Spec => []RenderedTimeTicks
<1>1. TypeOK => RenderedTimeTicks
  BY NowIsASecond, NextTimestamp, SMT DEF RenderedTimeTicks
<1> QED BY <1>1, TypeCorrect, PTL

(* bestAyaMatch over a file the sensor and the honeynet share: the text of *)
(* a time decides nothing but what the clock said, so a connect and its    *)
(* flow can be joined exactly when the event was drained in the second of  *)
(* the flow or in the window before it, in any year.                       *)
THEOREM OnlyTheDrainDecides == Spec => []JoinNeedsTimelyDrain
<1>1. TypeOK => JoinNeedsTimelyDrain
  <2> SUFFICES ASSUME TypeOK, NEW aya \in network, NEW flow \in network,
                      aya.source = "aya_connect", flow.source = "honeynet"
               PROVE  inWindow(aya, flow) <=>
                        /\ aya.drained <= flow.second
                        /\ 2 * (flow.second - aya.drained) + flow.half <= 2 * JoinWindow
    BY DEF JoinNeedsTimelyDrain
  <2>1. network \subseteq AyaRows \cup FlowRows
    <3>1. LineStarts \subseteq DOMAIN file /\ file \in Seq(Piece)
      BY DEF LineStarts, TypeOK
    <3>2. \A i \in DOMAIN file : file[i].row \in AyaRows \cup FlowRows
      <4>1. \A i \in DOMAIN file : file[i] \in Piece
        BY <3>1
      <4> QED BY <4>1 DEF Piece
    <3> QED BY <3>1, <3>2 DEF network, events
  <2>2. aya \in AyaRows /\ flow \in FlowRows
    BY <2>1 DEF AyaRows, FlowRows
  <2>3. PICK n \in Nat : aya.drained = n /\ aya.ts = rfc3339_from_unix(n)
    BY <2>2 DEF AyaRows
  <2>4. instant(aya.ts) = n
    BY <2>3, TimesReadBack
  <2>5. PICK s \in Nat, h \in 0..1 : s = flow.second /\ h = flow.half
    BY <2>2 DEF FlowRows
  <2>6. JoinWindow \in Nat
    BY SizesArePositive
  <2>7. (n <= s /\ (s - n < JoinWindow \/ (s - n = JoinWindow /\ h = 0)))
          <=> (n <= s /\ 2 * (s - n) + h <= 2 * JoinWindow)
    BY <2>6, SMT
  <2> QED BY <2>3, <2>4, <2>5, <2>7 DEF inWindow
<1> QED BY <1>1, TypeCorrect, PTL

-----------------------------------------------------------------------------
(* The sensor's part of the file.                                          *)

(* What holds of 0 and goes on from each number to the next holds up to n. *)
LEMMA Climb ==
  ASSUME NEW n \in Nat, NEW T, 0 \in T, \A m \in 1..n : m - 1 \in T => m \in T
  PROVE  \A m \in 0..n : m \in T
<1> DEFINE Bad == {m \in 0..n : m \notin T}
<1>1. ASSUME Bad # {} PROVE FALSE
  <2>1. PICK x \in Bad : \A y \in Bad : <<y, x>> \notin OpToRel(<, Nat)
    <3>1. Bad \subseteq Nat
      OBVIOUS
    <3> HIDE DEF Bad
    <3> QED BY <1>1, <3>1, NatLessThanWellFounded, WFMin
  <2>2. x \in 1..n /\ x \notin T
    OBVIOUS
  <2>3. x - 1 \in Bad
    BY <2>2
  <2>4. x - 1 \in Nat /\ x \in Nat /\ x - 1 < x
    BY <2>2
  <2>5. <<x - 1, x>> \in OpToRel(<, Nat)
    BY <2>4 DEF OpToRel
  <2> QED BY <2>1, <2>3, <2>5
<1> QED BY <1>1

\* What n pieces come to, if those before the last come to what g says.
PartAt(pieces, g, n) ==
    IF n = 0 THEN <<>>
    ELSE IF OfSensor(pieces[n]) THEN Append(g[n - 1], pieces[n]) ELSE g[n - 1]

(* The function of OwnPart exists: it is built piece by piece.             *)
LEMMA PartIsDefined ==
  ASSUME NEW pieces, NEW N \in Nat
  PROVE  \E g : g = [n \in 0..N |-> PartAt(pieces, g, n)]
<1> DEFINE Reads(g, m) == g = [n \in 0..m |-> PartAt(pieces, g, n)]
           T == {m \in 0..N : \E g : Reads(g, m)}
<1>1. \E g : Reads(g, 0)
  <2>1. PICK g : g = [n \in {0} |-> <<>>]
    OBVIOUS
  <2>2. g = [n \in 0..0 |-> PartAt(pieces, g, n)]
    BY <2>1 DEF PartAt
  <2> QED BY <2>2
<1>2. ASSUME NEW m \in 1..N, NEW g, Reads(g, m - 1) PROVE \E h : Reads(h, m)
  <2>1. PICK h : h = [n \in 0..m |-> IF n = m THEN PartAt(pieces, g, m) ELSE g[n]]
    OBVIOUS
  <2>2. ASSUME NEW n \in 0..m PROVE h[n] = PartAt(pieces, h, n)
    <3>1. n # 0 => n - 1 \in 0..m /\ n - 1 # m
      OBVIOUS
    <3>2. n # 0 => h[n - 1] = g[n - 1]
      BY <2>1, <3>1
    <3>3. PartAt(pieces, h, n) = PartAt(pieces, g, n)
      BY <3>2 DEF PartAt
    <3>4. n # m => n \in 0..(m - 1)
      OBVIOUS
    <3>5. n # m => g[n] = PartAt(pieces, g, n)
      BY <1>2, <3>4
    <3> HIDE DEF PartAt
    <3> QED BY <2>1, <3>3, <3>5
  <2> QED BY <2>1, <2>2
<1>3. 0 \in T
  BY <1>1
<1>4. \A m \in 1..N : m - 1 \in T => m \in T
  <2> SUFFICES ASSUME NEW m \in 1..N, m - 1 \in T PROVE m \in T
    OBVIOUS
  <2>1. PICK g : Reads(g, m - 1)
    OBVIOUS
  <2>2. \E h : Reads(h, m)
    BY <1>2, <2>1
  <2> HIDE DEF Reads
  <2> QED BY <2>2
<1>5. N \in T
  <2> HIDE DEF T
  <2> QED BY <1>3, <1>4, Climb
<1> QED BY <1>5

(* What OwnPart computes.                                                  *)
LEMMA PartIsRead ==
  ASSUME NEW S, NEW pieces \in Seq(S)
  PROVE  \E g : /\ \A n \in 0..Len(pieces) : g[n] = PartAt(pieces, g, n)
                /\ OwnPart(pieces) = g[Len(pieces)]
<1> DEFINE Reads(g) == g = [n \in 0..Len(pieces) |-> PartAt(pieces, g, n)]
<1>1. PICK h : h = CHOOSE g : Reads(g)
  OBVIOUS
<1>2. Reads(h)
  <2>1. Len(pieces) \in Nat
    OBVIOUS
  <2> QED BY <1>1, <2>1, PartIsDefined
<1>3. OwnPart(pieces) = (CHOOSE g : Reads(g))[Len(pieces)]
  BY DEF OwnPart, PartAt
<1>4. \A n \in 0..Len(pieces) : h[n] = PartAt(pieces, h, n)
  <2>1. PICK D : D = 0..Len(pieces)
    OBVIOUS
  <2> QED BY <1>2, <2>1
<1> QED BY <1>1, <1>3, <1>4

(* A piece of the sensor is added at the end, another is passed over.      *)
LEMMA PartAppend ==
  ASSUME NEW S, NEW pieces \in Seq(S), NEW p \in S
  PROVE  OwnPart(Append(pieces, p)) = IF OfSensor(p) THEN Append(OwnPart(pieces), p)
                                      ELSE OwnPart(pieces)
<1>1. PICK N \in Nat : N = Len(pieces)
  OBVIOUS
<1>2. PICK more \in Seq(S) : /\ more = Append(pieces, p) /\ Len(more) = N + 1 /\ more[N + 1] = p
                             /\ \A n \in 1..N : more[n] = pieces[n]
  <2>1. PICK more : more = Append(pieces, p)
    OBVIOUS
  <2>2. more \in Seq(S) /\ Len(more) = N + 1 /\ \A n \in 1..N : more[n] = pieces[n]
    BY <1>1, <2>1, AppendProperties
  <2>3. more[N + 1] = p
    BY <1>1, <2>1
  <2> QED BY <2>1, <2>2, <2>3
<1>3. PICK g : /\ \A n \in 0..N : g[n] = PartAt(pieces, g, n)
               /\ OwnPart(pieces) = g[N]
  BY <1>1, PartIsRead
<1>4. PICK h : /\ \A n \in 0..(N + 1) : h[n] = PartAt(more, h, n)
               /\ OwnPart(more) = h[N + 1]
  BY <1>2, PartIsRead
<1> DEFINE Good(n) == g[n] = h[n]
<1>5. Good(0)
  BY <1>3, <1>4 DEF PartAt
<1>6. ASSUME NEW m \in 1..N, Good(m - 1) PROVE Good(m)
  <2>1. g[m] = PartAt(pieces, g, m) /\ h[m] = PartAt(more, h, m)
    BY <1>3, <1>4
  <2>2. m # 0 /\ g[m - 1] = h[m - 1] /\ more[m] = pieces[m]
    BY <1>2, <1>6
  <2>3. g[m] = h[m]
    BY <2>1, <2>2 DEF PartAt
  <2> QED BY <2>3
<1>7. Good(N)
  <2> HIDE DEF Good
  <2> DEFINE T == {n \in 0..N : Good(n)}
  <2>1. 0 \in T /\ \A m \in 1..N : m - 1 \in T => m \in T
    BY <1>5, <1>6
  <2>2. \A m \in 0..N : m \in T
    <3> HIDE DEF T
    <3> QED BY <2>1, Climb
  <2> QED BY <2>2
<1>8. h[N + 1] = IF OfSensor(p) THEN Append(h[N], p) ELSE h[N]
  <2>1. h[N + 1] = PartAt(more, h, N + 1) /\ N + 1 # 0 /\ N + 1 - 1 = N
    BY <1>4
  <2> QED BY <1>2, <2>1 DEF PartAt
<1> QED BY <1>2, <1>3, <1>4, <1>7, <1>8

(* OwnPart gives a list of the pieces it is given.                         *)
LEMMA PartTyped ==
  ASSUME NEW S, NEW pieces \in Seq(S)
  PROVE  OwnPart(pieces) \in Seq(S)
<1>1. PICK N \in Nat : N = Len(pieces)
  OBVIOUS
<1>2. PICK g : /\ \A n \in 0..N : g[n] = PartAt(pieces, g, n)
               /\ OwnPart(pieces) = g[N]
  BY <1>1, PartIsRead
<1> DEFINE Good(n) == g[n] \in Seq(S)
<1>3. Good(0)
  <2>1. g[0] = <<>>
    BY <1>2 DEF PartAt
  <2> QED BY <2>1, EmptySeq
<1>4. ASSUME NEW m \in 1..N, Good(m - 1) PROVE Good(m)
  <2>1. g[m] = PartAt(pieces, g, m) /\ m # 0 /\ g[m - 1] \in Seq(S) /\ pieces[m] \in S
    BY <1>1, <1>2, <1>4
  <2>2. g[m] \in Seq(S)
    BY <2>1, AppendProperties DEF PartAt
  <2> QED BY <2>2
<1>5. Good(N)
  <2> HIDE DEF Good
  <2> DEFINE T == {n \in 0..N : Good(n)}
  <2>1. 0 \in T /\ \A m \in 1..N : m - 1 \in T => m \in T
    BY <1>3, <1>4
  <2>2. \A m \in 0..N : m \in T
    <3> HIDE DEF T
    <3> QED BY <2>1, Climb
  <2> QED BY <2>2
<1> QED BY <1>2, <1>5

(* So what the sensor writes comes to the end of its part, and what the    *)
(* honeynet writes does not touch it.                                      *)
LEMMA PartConcat ==
  ASSUME NEW S, NEW pieces \in Seq(S), NEW more \in Seq(S)
  PROVE  /\ (\A n \in 1..Len(more) : OfSensor(more[n]))
              => OwnPart(pieces \o more) = OwnPart(pieces) \o more
         /\ (\A n \in 1..Len(more) : ~OfSensor(more[n]))
              => OwnPart(pieces \o more) = OwnPart(pieces)
<1>1. PICK N \in Nat : N = Len(more)
  OBVIOUS
<1> DEFINE Front(n) == SubSeq(more, 1, n)
<1>2. Front(0) = <<>> /\ Front(N) = more
  BY <1>1
<1>3. ASSUME NEW n \in 1..N
      PROVE  /\ Front(n) = Append(Front(n - 1), more[n])
             /\ Front(n - 1) \in Seq(S) /\ more[n] \in S
             /\ pieces \o Front(n) = Append(pieces \o Front(n - 1), more[n])
             /\ pieces \o Front(n - 1) \in Seq(S)
  <2>1. Front(n) = Front(n - 1) \o <<more[n]>>
    BY <1>1, SubSeqRecursiveSecond
  <2>2. Front(n - 1) \in Seq(S) /\ more[n] \in S /\ <<more[n]>> \in Seq(S)
    BY <1>1, Cut
  <2> HIDE DEF Front
  <2>3. pieces \o (Front(n - 1) \o <<more[n]>>) = (pieces \o Front(n - 1)) \o <<more[n]>>
    BY <2>2, ConcatAssociative
  <2>4. pieces \o Front(n - 1) \in Seq(S)
    BY <2>2, ConcatProperties
  <2> QED BY <2>1, <2>2, <2>3, <2>4, AppendIsConcat
<1> HIDE DEF Front
<1>4. pieces \o <<>> = pieces /\ OwnPart(pieces) \in Seq(S) /\ OwnPart(pieces) \o <<>> = OwnPart(pieces)
  BY PartTyped, ConcatEmptySeq
<1>5. ASSUME \A n \in 1..Len(more) : OfSensor(more[n])
      PROVE  OwnPart(pieces \o more) = OwnPart(pieces) \o more
  <2> DEFINE Good(n) == OwnPart(pieces \o Front(n)) = OwnPart(pieces) \o Front(n)
  <2>1. Good(0)
    BY <1>2, <1>4
  <2>2. ASSUME NEW m \in 1..N, Good(m - 1) PROVE Good(m)
    <3>1. OfSensor(more[m])
      BY <1>1, <1>5
    <3>2. OwnPart(pieces \o Front(m)) = Append(OwnPart(pieces \o Front(m - 1)), more[m])
      <4>1. PICK before \in Seq(S), p \in S : before = pieces \o Front(m - 1) /\ p = more[m]
        BY <1>3
      <4>2. OwnPart(Append(before, p)) = Append(OwnPart(before), p)
        BY <3>1, <4>1, PartAppend
      <4> QED BY <1>3, <4>1, <4>2
    <3>3. OwnPart(pieces \o Front(m - 1)) = OwnPart(pieces) \o Front(m - 1)
      BY <2>2
    <3>4. Append(OwnPart(pieces) \o Front(m - 1), more[m]) = OwnPart(pieces) \o Front(m)
      <4>1. PICK own \in Seq(S) : own = OwnPart(pieces)
        BY <1>4
      <4>2. PICK front \in Seq(S), p \in S : front = Front(m - 1) /\ p = more[m]
        BY <1>3
      <4>3. <<p>> \in Seq(S) /\ own \o front \in Seq(S)
        BY ConcatProperties
      <4>4. Append(own \o front, p) = (own \o front) \o <<p>> /\ Append(front, p) = front \o <<p>>
        BY <4>3, AppendIsConcat
      <4>5. (own \o front) \o <<p>> = own \o (front \o <<p>>)
        BY <4>3, ConcatAssociative
      <4> QED BY <1>3, <4>1, <4>2, <4>4, <4>5
    <3> QED BY <3>2, <3>3, <3>4
  <2>3. Good(N)
    <3> HIDE DEF Good
    <3> DEFINE T == {n \in 0..N : Good(n)}
    <3>1. 0 \in T /\ \A m \in 1..N : m - 1 \in T => m \in T
      BY <2>1, <2>2
    <3>2. \A m \in 0..N : m \in T
      <4> HIDE DEF T
      <4> QED BY <3>1, Climb
    <3> QED BY <3>2
  <2> QED BY <1>2, <2>3
<1>6. ASSUME \A n \in 1..Len(more) : ~OfSensor(more[n])
      PROVE  OwnPart(pieces \o more) = OwnPart(pieces)
  <2> DEFINE Good(n) == OwnPart(pieces \o Front(n)) = OwnPart(pieces)
  <2>1. Good(0)
    BY <1>2, <1>4
  <2>2. ASSUME NEW m \in 1..N, Good(m - 1) PROVE Good(m)
    <3>1. ~OfSensor(more[m])
      BY <1>1, <1>6
    <3>2. PICK before \in Seq(S), p \in S : before = pieces \o Front(m - 1) /\ p = more[m]
      BY <1>3
    <3>3. OwnPart(Append(before, p)) = OwnPart(before)
      BY <3>1, <3>2, PartAppend
    <3>4. OwnPart(pieces \o Front(m)) = OwnPart(pieces \o Front(m - 1))
      BY <1>3, <3>2, <3>3
    <3> QED BY <2>2, <3>4
  <2>3. Good(N)
    <3> HIDE DEF Good
    <3> DEFINE T == {n \in 0..N : Good(n)}
    <3>1. 0 \in T /\ \A m \in 1..N : m - 1 \in T => m \in T
      BY <2>1, <2>2
    <3>2. \A m \in 0..N : m \in T
      <4> HIDE DEF T
      <4> QED BY <3>1, Climb
    <3> QED BY <3>2
  <2> QED BY <1>2, <2>3
<1> QED BY <1>5, <1>6

-----------------------------------------------------------------------------
(* What the pieces in the file are next to.                                *)

Continues(p, q) == q.row = p.row /\ q.piece = p.piece + 1
Follows(p, q) == IF p.piece = 5 THEN q.piece = 1 ELSE Continues(p, q)

\* What the sensor has yet to write: its rows go on where they stopped, and are whole at the end.
Handed(s) ==
    /\ \A n \in 1..Len(s) : OfSensor(s[n])
    /\ \A n \in 1..Len(s) : IF n = Len(s) THEN s[n].piece = 5 ELSE Follows(s[n], s[n + 1])

\* s goes on where the sensor's part of f ends.
Resumes(f, s) ==
    \/ (\A i \in 1..Len(f) : ~OfSensor(f[i])) /\ (Len(s) = 0 \/ s[1].piece = 1)
    \/ \E i \in 1..Len(f) :
          /\ OfSensor(f[i]) /\ \A j \in (i + 1)..Len(f) : ~OfSensor(f[j])
          /\ IF Len(s) = 0 THEN f[i].piece = 5 ELSE Follows(f[i], s[1])

\* Rows of the honeynet are in one place, those of the sensor in order.
FlowsInOnePlace(f) ==
    \A i \in 1..Len(f) : ~OfSensor(f[i]) =>
        /\ f[i].piece # 5 => i < Len(f) /\ Continues(f[i], f[i + 1])
        /\ f[i].piece # 1 => i > 1 /\ Continues(f[i - 1], f[i])
Preceded(f, i) ==
    \E j \in 1..(i - 1) : /\ OfSensor(f[j]) /\ Continues(f[j], f[i])
                          /\ \A k \in (j + 1)..(i - 1) : ~OfSensor(f[k])
SensorInOrder(f) ==
    \A i \in 1..Len(f) : OfSensor(f[i]) =>
        /\ i < Len(f) /\ OfSensor(f[i + 1]) => Follows(f[i], f[i + 1])
        /\ f[i].piece # 1 => Preceded(f, i)

(* Pieces written one after the other, however they are split.             *)
LEMMA PiecesAssociate ==
  ASSUME NEW s \in Seq(Piece), NEW t \in Seq(Piece), NEW u \in Seq(Piece)
  PROVE  (s \o t) \o u = s \o (t \o u)
BY ConcatAssociative

(* What is taken off a line and put behind the buffer is between both.     *)
LEMMA TakenPieces ==
  ASSUME NEW b \in Seq(Piece), NEW l \in Seq(Piece), NEW room \in 0..Len(l)
  PROVE  (b \o SubSeq(l, 1, room)) \o SubSeq(l, room + 1, Len(l)) = b \o l
<1>1. PICK s \in Seq(Piece), u \in Seq(Piece) : s = SubSeq(l, 1, room) /\ u = SubSeq(l, room + 1, Len(l))
  BY Cut
<1>2. s \o u = l
  <2>1. 1 \in 1..Len(l) + 1 /\ room \in (1 - 1)..Len(l) /\ Len(l) \in room..Len(l)
    OBVIOUS
  <2>2. s \o u = SubSeq(l, 1, Len(l))
    BY <1>1, <2>1, ConcatAdjacentSubSeq, Zenon
  <2> QED BY <2>2, SubSeqFull, Zenon
<1>3. (b \o s) \o u = b \o (s \o u)
  BY PiecesAssociate, ZenonT(60)
<1> QED BY <1>1, <1>2, <1>3, Zenon

(* The elements of a list and of what it is followed by.                   *)
LEMMA Joined ==
  ASSUME NEW S, NEW s \in Seq(S), NEW t \in Seq(S),
         NEW N \in Nat, NEW M \in Nat, N = Len(s), M = Len(t)
  PROVE  /\ s \o t \in Seq(S) /\ Len(s \o t) = N + M
         /\ \A i \in 1..N : (s \o t)[i] = s[i]
         /\ \A i \in 1..M : (s \o t)[N + i] = t[i]
<1>1. /\ s \o t \in Seq(S) /\ Len(s \o t) = N + M
      /\ \A i \in 1..(N + M) : (s \o t)[i] = IF i <= N THEN s[i] ELSE t[i - N]
  BY ConcatProperties
<1>2. ASSUME NEW i \in 1..N PROVE (s \o t)[i] = s[i]
  BY <1>1
<1>3. ASSUME NEW i \in 1..M PROVE (s \o t)[N + i] = t[i]
  <2>1. N + i \in 1..(N + M) /\ ~(N + i <= N) /\ N + i - N = i
    OBVIOUS
  <2> QED BY <1>1, <2>1
<1> QED BY <1>1, <1>2, <1>3

(* What the sensor writes keeps the file in order, wherever it ends.       *)
LEMMA SensorAppends ==
  ASSUME NEW f \in Seq(Piece), NEW s \in Seq(Piece), NEW t \in Seq(Piece),
         Handed(s \o t), Resumes(f, s \o t), FlowsInOnePlace(f), SensorInOrder(f)
  PROVE  Handed(t) /\ Resumes(f \o s, t) /\ FlowsInOnePlace(f \o s) /\ SensorInOrder(f \o s)
<1>1. PICK N \in Nat, M \in Nat, L \in Nat : N = Len(f) /\ M = Len(s) /\ L = Len(t)
  OBVIOUS
<1>2. PICK w \in Seq(Piece) : /\ w = f \o s /\ Len(w) = N + M
                              /\ \A i \in 1..N : w[i] = f[i]
                              /\ \A m \in 1..M : w[N + m] = s[m]
  <2>1. PICK w : w = f \o s
    OBVIOUS
  <2>2. /\ w \in Seq(Piece) /\ Len(w) = N + M
        /\ \A i \in 1..N : w[i] = f[i]
        /\ \A m \in 1..M : w[N + m] = s[m]
    BY <1>1, <2>1, Joined
  <2> QED BY <2>1, <2>2
<1>3. PICK r \in Seq(Piece) : /\ r = s \o t /\ Len(r) = M + L
                              /\ \A m \in 1..M : r[m] = s[m]
                              /\ \A l \in 1..L : r[M + l] = t[l]
  <2>1. PICK r : r = s \o t
    OBVIOUS
  <2>2. /\ r \in Seq(Piece) /\ Len(r) = M + L
        /\ \A m \in 1..M : r[m] = s[m]
        /\ \A l \in 1..L : r[M + l] = t[l]
    BY <1>1, <2>1, Joined
  <2> QED BY <2>1, <2>2
<1>4. /\ \A m \in 1..(M + L) : OfSensor(r[m])
      /\ \A m \in 1..(M + L) : IF m = M + L THEN r[m].piece = 5 ELSE Follows(r[m], r[m + 1])
  BY <1>3 DEF Handed
<1>5. \A m \in 1..M : OfSensor(w[N + m]) /\ w[N + m] = r[m]
  BY <1>2, <1>3, <1>4, SMTT(60)
<1>6. Handed(t)
  <2>1. ASSUME NEW l \in 1..L
        PROVE  OfSensor(t[l]) /\ IF l = L THEN t[l].piece = 5 ELSE Follows(t[l], t[l + 1])
    <3>1. M + l \in 1..(M + L) /\ (M + l = M + L <=> l = L) /\ M + l + 1 = M + (l + 1)
          /\ (l # L => l + 1 \in 1..L)
      OBVIOUS
    <3> QED BY <1>3, <1>4, <3>1
  <2> QED BY <1>1, <2>1 DEF Handed
<1>7. Resumes(w, t)
  <2>1. CASE M = 0
    <3>1. s = <<>>
      BY <1>1, <2>1, EmptySeq
    <3>2. w = f /\ r = t
      BY <1>2, <1>3, <3>1, ConcatEmptySeq
    <3> QED BY <1>3, <3>2
  <2>2. CASE M # 0
    <3>1. N + M \in 1..Len(w) /\ (N + M + 1)..Len(w) = {} /\ M \in 1..M
      BY <1>2, <2>2
    <3>2. w[N + M] = r[M] /\ OfSensor(w[N + M]) /\ M \in 1..(M + L)
      BY <1>5, <3>1
    <3>3. IF Len(t) = 0 THEN w[N + M].piece = 5 ELSE Follows(w[N + M], t[1])
      <4>1. CASE L = 0
        BY <1>1, <1>4, <3>2, <4>1
      <4>2. CASE L # 0
        <5>1. r[M + 1] = t[1] /\ M # M + L
          BY <1>3, <4>2
        <5> QED BY <1>1, <1>4, <3>2, <4>2, <5>1
      <4> QED BY <4>1, <4>2
    <3>4. \A j \in (N + M + 1)..Len(w) : ~OfSensor(w[j])
      BY <3>1
    <3> QED BY <3>1, <3>2, <3>3, <3>4 DEF Resumes
  <2> QED BY <2>1, <2>2
<1>8. FlowsInOnePlace(w)
  <2> SUFFICES ASSUME NEW i \in 1..Len(w), ~OfSensor(w[i])
               PROVE  /\ w[i].piece # 5 => i < Len(w) /\ Continues(w[i], w[i + 1])
                      /\ w[i].piece # 1 => i > 1 /\ Continues(w[i - 1], w[i])
    BY DEF FlowsInOnePlace
  <2>1. i \in 1..N
    <3>1. CASE i > N
      <4>1. PICK m \in 1..M : i = N + m
        BY <1>2, <3>1
      <4> QED BY <1>5, <4>1
    <3> QED BY <1>2, <3>1
  <2>2. w[i] = f[i]
    BY <1>2, <2>1
  <2>3. /\ f[i].piece # 5 => i < N /\ Continues(f[i], f[i + 1])
        /\ f[i].piece # 1 => i > 1 /\ Continues(f[i - 1], f[i])
    BY <1>1, <2>1, <2>2 DEF FlowsInOnePlace
  <2>4. i < N => w[i + 1] = f[i + 1] /\ i < Len(w)
    <3>1. i < N => i + 1 \in 1..N /\ i < N + M
      BY <2>1
    <3> QED BY <1>2, <3>1
  <2>5. i > 1 => w[i - 1] = f[i - 1]
    <3>1. i > 1 => i - 1 \in 1..N
      BY <2>1
    <3> QED BY <1>2, <3>1
  <2> QED BY <2>2, <2>3, <2>4, <2>5
<1>9. SensorInOrder(w)
  <2>1. ASSUME NEW i \in 1..N, OfSensor(f[i])
        PROVE  /\ i < Len(w) /\ OfSensor(w[i + 1]) => Follows(w[i], w[i + 1])
               /\ w[i].piece # 1 => Preceded(w, i)
    <3>1. /\ i < N /\ OfSensor(f[i + 1]) => Follows(f[i], f[i + 1])
          /\ f[i].piece # 1 => Preceded(f, i)
      BY <1>1, <2>1 DEF SensorInOrder
    <3>2. ASSUME Preceded(f, i) PROVE Preceded(w, i)
      <4>1. PICK j \in 1..(i - 1) : /\ OfSensor(f[j]) /\ Continues(f[j], f[i])
                                    /\ \A k \in (j + 1)..(i - 1) : ~OfSensor(f[k])
        BY <3>2 DEF Preceded
      <4>2. w[j] = f[j] /\ w[i] = f[i]
        BY <1>2
      <4>3. ASSUME NEW k \in (j + 1)..(i - 1) PROVE ~OfSensor(w[k])
        <5>1. k \in 1..N
          OBVIOUS
        <5> QED BY <1>2, <4>1, <5>1
      <4> QED BY <4>1, <4>2, <4>3 DEF Preceded
    <3>3. CASE i < N
      <4>1. i + 1 \in 1..N
        BY <3>3
      <4>2. w[i] = f[i] /\ w[i + 1] = f[i + 1]
        BY <1>2, <4>1
      <4> QED BY <3>1, <3>2, <3>3, <4>2
    <3>4. CASE i = N
      <4>1. M # 0 => Follows(f[i], r[1])
        <5>1. PICK k \in 1..N : /\ \A j \in (k + 1)..N : ~OfSensor(f[j])
                                /\ IF M + L = 0 THEN f[k].piece = 5 ELSE Follows(f[k], r[1])
          BY <1>1, <1>3, <2>1 DEF Resumes
        <5>2. k = i
          BY <2>1, <3>4, <5>1
        <5> QED BY <5>1, <5>2
      <4>2. i < Len(w) => M # 0 /\ w[i + 1] = r[1]
        BY <1>2, <1>5, <3>4
      <4>3. w[i] = f[i]
        BY <1>2
      <4> QED BY <3>1, <3>2, <4>1, <4>2, <4>3
    <3> QED BY <3>3, <3>4
  <2>2. ASSUME NEW m \in 1..M
        PROVE  /\ m < M => Follows(w[N + m], w[N + m + 1])
               /\ w[N + m].piece # 1 => Preceded(w, N + m)
    <3>1. w[N + m] = r[m] /\ m \in 1..(M + L) /\ (m < M => w[N + m + 1] = r[m + 1] /\ m # M + L)
      BY <1>5
    <3>2. m < M => Follows(w[N + m], w[N + m + 1])
      BY <1>4, <3>1
    <3>3. CASE m = 1 /\ w[N + m].piece # 1
      <4>1. PICK k \in 1..N : /\ OfSensor(f[k]) /\ \A j \in (k + 1)..N : ~OfSensor(f[j])
                              /\ IF M + L = 0 THEN f[k].piece = 5 ELSE Follows(f[k], r[1])
        BY <1>1, <1>3, <3>1, <3>3 DEF Resumes
      <4>2. Continues(f[k], r[1])
        <5>1. M + L # 0 /\ r[1].piece # 1
          BY <3>1, <3>3
        <5> QED BY <4>1, <5>1 DEF Follows
      <4>3. w[k] = f[k] /\ w[N + m] = r[1] /\ k \in 1..(N + m - 1) /\ N + m - 1 = N
        BY <1>2, <3>1, <3>3
      <4>4. ASSUME NEW j \in (k + 1)..(N + m - 1) PROVE ~OfSensor(w[j])
        <5>1. j \in 1..N /\ j \in (k + 1)..N
          BY <4>3
        <5> QED BY <1>2, <4>1, <5>1
      <4>5. Preceded(w, N + m)
        BY <4>1, <4>2, <4>3, <4>4 DEF Preceded
      <4> QED BY <3>2, <4>5
    <3>4. CASE m # 1 /\ w[N + m].piece # 1
      <4>1. m - 1 \in 1..M /\ m - 1 \in 1..(M + L) /\ m - 1 # M + L /\ m - 1 + 1 = m
        BY <3>4
      <4>2. Follows(r[m - 1], r[m]) /\ OfSensor(w[N + (m - 1)]) /\ w[N + (m - 1)] = r[m - 1]
        BY <1>4, <1>5, <4>1
      <4>3. Continues(w[N + (m - 1)], w[N + m])
        BY <3>1, <3>4, <4>2 DEF Follows
      <4>4. N + (m - 1) \in 1..(N + m - 1) /\ (N + (m - 1) + 1)..(N + m - 1) = {}
        BY <3>4
      <4>5. \A k \in (N + (m - 1) + 1)..(N + m - 1) : ~OfSensor(w[k])
        BY <4>4
      <4>6. Preceded(w, N + m)
        BY <4>2, <4>3, <4>4, <4>5 DEF Preceded
      <4> QED BY <3>2, <4>6
    <3> QED BY <3>2, <3>3, <3>4
  <2>3. ASSUME NEW i \in 1..Len(w), OfSensor(w[i])
        PROVE  /\ i < Len(w) /\ OfSensor(w[i + 1]) => Follows(w[i], w[i + 1])
               /\ w[i].piece # 1 => Preceded(w, i)
    <3>1. CASE i \in 1..N
      <4>1. OfSensor(f[i])
        BY <1>2, <2>3, <3>1
      <4> QED BY <2>1, <3>1, <4>1
    <3>2. CASE i \notin 1..N
      <4>1. PICK m \in 1..M : i = N + m
        BY <1>2, <3>2
      <4>2. i < Len(w) => m < M
        BY <1>2, <4>1
      <4> QED BY <2>2, <4>1, <4>2
    <3> QED BY <3>1, <3>2
  <2> QED BY <2>3 DEF SensorInOrder
<1> QED BY <1>2, <1>6, <1>7, <1>8, <1>9

(* What the honeynet writes keeps it in order too.                         *)
LEMMA FlowAppends ==
  ASSUME NEW f \in Seq(Piece), NEW row \in FlowRows, NEW s \in Seq(Piece),
         Resumes(f, s), FlowsInOnePlace(f), SensorInOrder(f)
  PROVE  LET w == f \o to_writer(row)
         IN  /\ w \in Seq(Piece) /\ Len(w) = Len(f) + 5
             /\ \A i \in 1..Len(f) : w[i] = f[i]
             /\ \A k \in 1..5 : w[Len(f) + k] = [row |-> row, piece |-> k] /\ ~OfSensor(w[Len(f) + k])
             /\ Resumes(w, s) /\ FlowsInOnePlace(w) /\ SensorInOrder(w)
<1>1. PICK N \in Nat, L \in Nat : N = Len(f) /\ L = Len(s)
  OBVIOUS
<1>2. PICK z : /\ z = to_writer(row) /\ z \in Seq(Piece) /\ Len(z) = 5
               /\ \A k \in 1..5 : z[k] = [row |-> row, piece |-> k]
  <2>1. to_writer(row) \in Seq(Piece)
    BY PiecesOfRow
  <2>2. DOMAIN Pieces = 1..5
    BY DEF Pieces
  <2>3. to_writer(row) = [k \in 1..5 |-> [row |-> row, piece |-> k]]
    BY <2>2 DEF to_writer
  <2>4. Len(to_writer(row)) = 5
    BY <2>3
  <2> QED BY <2>1, <2>3, <2>4, ZenonT(60)
<1>3. row.source = "honeynet"
  BY DEF FlowRows
<1>4. \A k \in 1..5 : ~OfSensor(z[k]) /\ z[k].row = row /\ z[k].piece = k
  BY <1>2, <1>3 DEF OfSensor
<1>5. PICK w : w = f \o z
  OBVIOUS
<1>6. /\ w \in Seq(Piece) /\ Len(w) = N + 5
      /\ \A i \in 1..N : w[i] = f[i]
      /\ \A k \in 1..5 : w[N + k] = z[k]
  <2>1. PICK M \in Nat : z \in Seq(Piece) /\ M = Len(z)
    BY <1>2
  <2>2. N \in Nat /\ N = Len(f)
    BY <1>1
  <2>3. /\ f \o z \in Seq(Piece) /\ Len(f \o z) = N + M
        /\ \A i \in 1..N : (f \o z)[i] = f[i]
        /\ \A k \in 1..M : (f \o z)[N + k] = z[k]
    <3>1. PICK r \in Seq(Piece) : r = z
      BY <2>1
    <3>2. M = Len(r) /\ N = Len(f)
      BY <2>1, <2>2, <3>1
    <3>3. /\ f \o r \in Seq(Piece) /\ Len(f \o r) = N + M
          /\ \A i \in 1..N : (f \o r)[i] = f[i]
          /\ \A k \in 1..M : (f \o r)[N + k] = r[k]
      BY ONLY <3>2, f \in Seq(Piece), r \in Seq(Piece), N \in Nat, M \in Nat, Joined
    <3> QED BY <3>1, <3>3
  <2> QED BY <1>2, <1>5, <2>1, <2>3
<1>7. \A k \in 1..5 : ~OfSensor(w[N + k]) /\ w[N + k].row = row /\ w[N + k].piece = k
  BY <1>4, <1>6
<1>8. Resumes(w, s)
  <2>1. ASSUME NEW j \in 1..Len(w), OfSensor(w[j]) PROVE j \in 1..N
    <3>1. CASE j > N
      <4>1. PICK k \in 1..5 : j = N + k
        BY <1>6, <3>1
      <4> QED BY <1>7, <2>1, <4>1
    <3> QED BY <1>6, <3>1
  <2>2. CASE (\A i \in 1..N : ~OfSensor(f[i])) /\ (Len(s) = 0 \/ s[1].piece = 1)
    <3>1. \A i \in 1..Len(w) : ~OfSensor(w[i])
      BY <1>6, <2>1, <2>2
    <3> QED BY <2>2, <3>1 DEF Resumes
  <2>3. ASSUME NEW i \in 1..N, OfSensor(f[i]), \A j \in (i + 1)..N : ~OfSensor(f[j]),
               IF Len(s) = 0 THEN f[i].piece = 5 ELSE Follows(f[i], s[1])
        PROVE  Resumes(w, s)
    <3>1. i \in 1..Len(w) /\ w[i] = f[i]
      BY <1>6
    <3>2. ASSUME NEW j \in (i + 1)..Len(w), OfSensor(w[j]) PROVE FALSE
      <4>1. j \in 1..Len(w)
        BY <1>6
      <4>2. j \in 1..N
        BY <2>1, <3>2, <4>1
      <4>3. j \in (i + 1)..N /\ w[j] = f[j]
        BY <1>6, <4>2
      <4> QED BY <2>3, <3>2, <4>3
    <3> QED BY <2>3, <3>1, <3>2 DEF Resumes
  <2> QED BY <1>1, <2>2, <2>3 DEF Resumes
<1>9. FlowsInOnePlace(w)
  <2> SUFFICES ASSUME NEW i \in 1..Len(w), ~OfSensor(w[i])
               PROVE  /\ w[i].piece # 5 => i < Len(w) /\ Continues(w[i], w[i + 1])
                      /\ w[i].piece # 1 => i > 1 /\ Continues(w[i - 1], w[i])
    BY DEF FlowsInOnePlace
  <2>1. CASE i \in 1..N
    <3>1. w[i] = f[i]
      BY <1>6, <2>1
    <3>2. /\ f[i].piece # 5 => i < N /\ Continues(f[i], f[i + 1])
          /\ f[i].piece # 1 => i > 1 /\ Continues(f[i - 1], f[i])
      BY <1>1, <2>1, <3>1 DEF FlowsInOnePlace
    <3>3. i < N => w[i + 1] = f[i + 1] /\ i < Len(w)
      <4>1. i < N => i + 1 \in 1..N /\ i < N + 5
        BY <2>1
      <4> QED BY <1>6, <4>1
    <3>4. i > 1 => w[i - 1] = f[i - 1]
      <4>1. i > 1 => i - 1 \in 1..N
        BY <2>1
      <4> QED BY <1>6, <4>1
    <3> QED BY <3>1, <3>2, <3>3, <3>4
  <2>2. CASE i \notin 1..N
    <3>1. PICK k \in 1..5 : i = N + k
      BY <1>6, <2>2
    <3>2. w[i].row = row /\ w[i].piece = k
      BY <1>7, <3>1
    <3>3. k # 5 => i < Len(w) /\ Continues(w[i], w[i + 1])
      <4>1. k # 5 => k + 1 \in 1..5 /\ i + 1 = N + (k + 1) /\ i < N + 5
        BY <3>1
      <4>2. k # 5 => w[i + 1].row = row /\ w[i + 1].piece = k + 1
        BY <1>7, <4>1
      <4> QED BY <1>6, <3>2, <4>1, <4>2 DEF Continues
    <3>4. k # 1 => i > 1 /\ Continues(w[i - 1], w[i])
      <4>1. k # 1 => k - 1 \in 1..5 /\ i - 1 = N + (k - 1) /\ i > 1 /\ (k - 1) + 1 = k
        BY <3>1
      <4>2. k # 1 => w[i - 1].row = row /\ w[i - 1].piece = k - 1
        BY <1>7, <4>1
      <4> QED BY <3>2, <4>1, <4>2 DEF Continues
    <3> QED BY <3>2, <3>3, <3>4
  <2> QED BY <2>1, <2>2
<1>10. SensorInOrder(w)
  <2> SUFFICES ASSUME NEW i \in 1..Len(w), OfSensor(w[i])
               PROVE  /\ i < Len(w) /\ OfSensor(w[i + 1]) => Follows(w[i], w[i + 1])
                      /\ w[i].piece # 1 => Preceded(w, i)
    BY DEF SensorInOrder
  <2>1. ASSUME NEW j \in 1..Len(w), OfSensor(w[j]) PROVE j \in 1..N
    <3>1. CASE j > N
      <4>1. PICK k \in 1..5 : j = N + k
        BY <1>6, <3>1
      <4> QED BY <1>7, <2>1, <4>1
    <3> QED BY <1>6, <3>1
  <2>2. i \in 1..N /\ w[i] = f[i]
    BY <1>6, <2>1
  <2>3. /\ i < N /\ OfSensor(f[i + 1]) => Follows(f[i], f[i + 1])
        /\ f[i].piece # 1 => Preceded(f, i)
    BY <1>1, <2>2 DEF SensorInOrder
  <2>4. ASSUME i < Len(w), OfSensor(w[i + 1]) PROVE Follows(w[i], w[i + 1])
    <3>1. i + 1 \in 1..Len(w)
      BY <2>4
    <3>2. i + 1 \in 1..N
      BY <2>1, <2>4, <3>1
    <3>3. w[i + 1] = f[i + 1] /\ i < N
      BY <1>6, <3>2
    <3> QED BY <2>2, <2>3, <2>4, <3>3
  <2>5. ASSUME Preceded(f, i) PROVE Preceded(w, i)
    <3>1. PICK j \in 1..(i - 1) : /\ OfSensor(f[j]) /\ Continues(f[j], f[i])
                                  /\ \A k \in (j + 1)..(i - 1) : ~OfSensor(f[k])
      BY <2>5 DEF Preceded
    <3>2. w[j] = f[j]
      BY <1>6, <2>2
    <3>3. ASSUME NEW k \in (j + 1)..(i - 1) PROVE ~OfSensor(w[k])
      <4>1. k \in 1..N
        BY <2>2
      <4> QED BY <1>6, <3>1, <4>1
    <3> QED BY <2>2, <3>1, <3>2, <3>3 DEF Preceded
  <2> QED BY <2>2, <2>3, <2>4, <2>5
<1>11. \A k \in 1..5 : w[N + k] = [row |-> row, piece |-> k] /\ ~OfSensor(w[N + k])
  BY <1>2, <1>6, <1>7
<1>12. w = f \o to_writer(row)
  BY <1>2, <1>5
<1> QED BY <1>1, <1>6, <1>8, <1>9, <1>10, <1>11, <1>12

\* What the sensor has drained and not yet written, and what the file holds.
Rest == buffer \o line

OrderInv ==
    /\ Handed(Rest) /\ Resumes(file, Rest)
    /\ FlowsInOnePlace(file) /\ SensorInOrder(file)

FlowsInv ==
    /\ \A c \in logged : \E i \in 1..Len(file) :
          ~OfSensor(file[i]) /\ file[i].piece = 1 /\ file[i].row.conn = c
    /\ \A i \in 1..Len(file) : ~OfSensor(file[i]) => file[i].row.conn \in logged

(* A step writes some of what the buffer holds to the end of the file:     *)
(* s is written, t stays in the buffer.                                    *)
Writes(s, t) ==
    /\ s \in Seq(Piece) /\ t \in Seq(Piece) /\ buffer = s \o t
    /\ file' = file \o s /\ buffer' = t /\ line' = line

(* Spill, Stop, and the writes that fail in part, do nothing else.         *)
LEMMA WritesSomeOrAll ==
  ASSUME TypeOK, Spill \/ Stop \/ ((Fail \/ DropWriter) /\ WrittenInPart)
  PROVE  \E s, t : Writes(s, t)
<1>1. CASE Spill \/ Stop
  <2>1. file' = file \o buffer /\ buffer' = <<>> /\ line' = line
    BY <1>1 DEF Spill, Stop, Appended
  <2>2. buffer = buffer \o <<>> /\ <<>> \in Seq(Piece)
    BY ConcatEmptySeq DEF TypeOK
  <2>3. Writes(buffer, <<>>)
    BY <2>1, <2>2 DEF Writes, TypeOK
  <2> QED BY <2>3
<1>2. CASE (Fail \/ DropWriter) /\ WrittenInPart
  <2>1. PICK k \in 0..Len(buffer) : /\ file' = file \o SubSeq(buffer, 1, k)
                                    /\ buffer' = SubSeq(buffer, k + 1, Len(buffer))
    BY <1>2 DEF WrittenInPart, Appended
  <2>2. line' = line
    BY <1>2 DEF Fail, DropWriter
  <2>3. PICK s, u : s = SubSeq(buffer, 1, k) /\ u = SubSeq(buffer, k + 1, Len(buffer))
    OBVIOUS
  <2>4. s \in Seq(Piece) /\ u \in Seq(Piece)
    BY <2>3, Cut DEF TypeOK
  <2>5. s \o u = buffer
    <3>1. 1 \in 1..Len(buffer) + 1 /\ k \in (1 - 1)..Len(buffer) /\ Len(buffer) \in k..Len(buffer)
      BY DEF TypeOK
    <3>2. s \o u = SubSeq(buffer, 1, Len(buffer))
      BY <2>3, <3>1, ConcatAdjacentSubSeq DEF TypeOK
    <3> QED BY <3>2, SubSeqFull DEF TypeOK
  <2>6. Writes(s, u)
    BY <2>1, <2>2, <2>3, <2>4, <2>5 DEF Writes
  <2> QED BY <2>6
<1> QED BY <1>1, <1>2

(* What stays in the buffer is followed by the row being written.          *)
LEMMA WritesOfRest ==
  ASSUME TypeOK, NEW s, NEW t, Writes(s, t)
  PROVE  t \o line \in Seq(Piece) /\ Rest = s \o (t \o line) /\ Rest' = t \o line
<1>0. s \in Seq(Piece) /\ t \in Seq(Piece) /\ line \in Seq(Piece)
  BY DEF TypeOK, Writes
<1>1. (s \o t) \o line = s \o (t \o line) /\ t \o line \in Seq(Piece)
  BY ONLY <1>0, PiecesAssociate, ConcatProperties
<1> QED BY <1>1 DEF Writes, Rest

(* Both writers keep the order of the pieces.                              *)
LEMMA OrderStep == TypeOK /\ OrderInv /\ [Next]_vars => OrderInv'
<1> SUFFICES ASSUME TypeOK, OrderInv, [Next]_vars PROVE OrderInv'
  OBVIOUS
<1>1. buffer \in Seq(Piece) /\ line \in Seq(Piece) /\ file \in Seq(Piece) /\ Rest \in Seq(Piece)
  BY ConcatProperties DEF TypeOK, Rest
<1>2. ASSUME UNCHANGED <<Rest, file>> PROVE OrderInv'
  BY <1>2 DEF OrderInv
<1>3. ASSUME NEW s, NEW t, Writes(s, t) PROVE OrderInv'
  <2>1. PICK u : u = t \o line
    OBVIOUS
  <2>2. /\ s \in Seq(Piece) /\ u \in Seq(Piece) /\ file' = file \o s
        /\ Rest = s \o u /\ Rest' = u
    BY <1>3, <2>1, WritesOfRest DEF Writes
  <2>3. Handed(u) /\ Resumes(file \o s, u) /\ FlowsInOnePlace(file \o s) /\ SensorInOrder(file \o s)
    BY <1>1, <2>2, SensorAppends DEF OrderInv
  <2> QED BY <2>2, <2>3 DEF OrderInv
<1>4. ASSUME NEW c \in Conns, LogFlow(c) PROVE OrderInv'
  <2>1. PICK row \in FlowRows : row = HoneynetRow(c)
    <3>1. ticks % 2 \in 0..1
      BY SMT DEF TypeOK
    <3> QED BY <3>1, NowIsASecond DEF HoneynetRow, FlowRows
  <2>2. file' = file \o to_writer(row) /\ Rest' = Rest
    BY <1>4, <2>1 DEF LogFlow, Rest
  <2>3. PICK w : w = file \o to_writer(row)
    OBVIOUS
  <2>4. Resumes(w, Rest) /\ FlowsInOnePlace(w) /\ SensorInOrder(w)
    BY <1>1, <2>3, FlowAppends DEF OrderInv
  <2> QED BY <2>2, <2>3, <2>4 DEF OrderInv
<1>5. CASE Drain
  <2>1. line = <<>> /\ buffer' = buffer /\ file' = file
    BY <1>5 DEF Drain
  <2>2. Head(ring) \in Conns
    BY <1>5, HeadTailProperties DEF Drain, TypeOK
  <2>3. PICK row \in AyaRows : row = render_network_event(Head(ring))
    <3>1. render_network_event(Head(ring)) \in AyaRows
      BY <2>2, NowIsASecond DEF render_network_event, rfc3339_now, AyaRows
    <3> QED BY <3>1
  <2>4. PICK z : /\ z = to_writer(row) /\ z \in Seq(Piece) /\ Len(z) = 5
                 /\ \A k \in 1..5 : z[k] = [row |-> row, piece |-> k]
    <3>1. to_writer(row) \in Seq(Piece)
      BY PiecesOfRow
    <3>2. DOMAIN Pieces = 1..5
      BY DEF Pieces
    <3>3. to_writer(row) = [k \in 1..5 |-> [row |-> row, piece |-> k]]
      BY <3>2 DEF to_writer
    <3>4. Len(to_writer(row)) = 5
      BY <3>3
    <3> QED BY <3>1, <3>3, <3>4, ZenonT(60)
  <2>5. \A k \in 1..5 : OfSensor(z[k]) /\ z[k].row = row /\ z[k].piece = k
    <3>1. row.source = "aya_connect"
      BY DEF AyaRows
    <3> QED BY <2>4, <3>1 DEF OfSensor
  <2>6. Rest = buffer /\ Rest' = buffer \o z
    BY <1>1, <1>5, <2>1, <2>3, <2>4, ConcatEmptySeq DEF Rest, Drain
  <2>7. PICK M \in Nat : M = Len(buffer)
    BY <1>1
  <2>8. PICK b : b = buffer \o z
    OBVIOUS
  <2>9. /\ b \in Seq(Piece) /\ Len(b) = M + 5
        /\ \A i \in 1..M : b[i] = buffer[i]
        /\ \A k \in 1..5 : b[M + k] = z[k]
    <3>1. PICK L \in Nat : z \in Seq(Piece) /\ L = Len(z)
      BY <2>4
    <3>2. /\ b \in Seq(Piece) /\ Len(b) = M + L
          /\ \A i \in 1..M : b[i] = buffer[i]
          /\ \A k \in 1..L : b[M + k] = z[k]
      BY <1>1, <2>7, <2>8, <3>1, Joined
    <3> QED BY <2>4, <3>1, <3>2
  <2>10. /\ \A n \in 1..M : OfSensor(buffer[n])
         /\ \A n \in 1..M : IF n = M THEN buffer[n].piece = 5 ELSE Follows(buffer[n], buffer[n + 1])
    BY <2>6, <2>7 DEF OrderInv, Handed
  <2>11. Handed(b)
    <3>1. ASSUME NEW n \in 1..M
          PROVE  OfSensor(b[n]) /\ Follows(b[n], b[n + 1])
      <4>1. b[n] = buffer[n] /\ OfSensor(b[n])
        BY <2>9, <2>10
      <4>2. CASE n = M
        <5>1. b[n + 1] = z[1]
          BY <2>9, <4>2
        <5>2. b[n].piece = 5 /\ b[n + 1].piece = 1
          BY <2>5, <2>10, <4>1, <4>2, <5>1
        <5> QED BY <4>1, <5>2 DEF Follows
      <4>3. CASE n # M
        <5>1. n + 1 \in 1..M
          BY <4>3
        <5>2. b[n + 1] = buffer[n + 1]
          BY <2>9, <5>1
        <5> QED BY <2>10, <4>1, <4>3, <5>2
      <4> QED BY <4>2, <4>3
    <3>2. ASSUME NEW k \in 1..5
          PROVE  OfSensor(b[M + k]) /\ IF k = 5 THEN b[M + k].piece = 5
                                       ELSE Follows(b[M + k], b[M + k + 1])
      <4>1. OfSensor(b[M + k]) /\ b[M + k].piece = k /\ b[M + k].row = row
        BY <2>5, <2>9
      <4>2. k # 5 => k + 1 \in 1..5 /\ M + k + 1 = M + (k + 1)
        OBVIOUS
      <4>3. k # 5 => b[M + k + 1].piece = k + 1 /\ b[M + k + 1].row = row
        BY <2>5, <2>9, <4>2
      <4> QED BY <4>1, <4>3 DEF Follows, Continues
    <3>3. ASSUME NEW n \in 1..Len(b)
          PROVE  OfSensor(b[n]) /\ IF n = Len(b) THEN b[n].piece = 5 ELSE Follows(b[n], b[n + 1])
      <4>1. CASE n \in 1..M
        <5>1. n # Len(b)
          BY <2>9, <4>1
        <5> QED BY <3>1, <4>1, <5>1
      <4>2. CASE n \notin 1..M
        <5>1. PICK k \in 1..5 : n = M + k
          BY <2>9, <4>2
        <5>2. n = Len(b) <=> k = 5
          BY <2>9, <5>1
        <5> QED BY <3>2, <5>1, <5>2
      <4> QED BY <4>1, <4>2
    <3> QED BY <3>3 DEF Handed
  <2>12. Resumes(file, b)
    <3>1. Resumes(file, buffer)
      BY <2>6 DEF OrderInv
    <3>2. CASE M = 0
      <4>1. b[1].piece = 1 /\ Len(b) # 0
        <5>1. b[M + 1] = z[1]
          BY <2>9
        <5> QED BY <2>5, <2>9, <3>2, <5>1
      <4>2. ASSUME NEW i \in 1..Len(file), file[i].piece = 5 PROVE Follows(file[i], b[1])
        BY <4>1, <4>2 DEF Follows
      <4>3. Len(buffer) = 0
        BY <2>7, <3>2
      <4> QED BY <3>1, <4>1, <4>2, <4>3 DEF Resumes
    <3>3. CASE M # 0
      <4>1. b[1] = buffer[1] /\ Len(b) # 0 /\ Len(buffer) # 0
        BY <2>7, <2>9, <3>3
      <4> QED BY <3>1, <4>1 DEF Resumes
    <3> QED BY <3>2, <3>3
  <2> QED BY <2>1, <2>6, <2>8, <2>11, <2>12 DEF OrderInv
<1>6. CASE Fill
  <2>1. PICK room : room = Smaller(Len(line), capacity - Len(buffer))
    OBVIOUS
  <2>2. room \in 0..Len(line)
    BY <1>6, <2>1 DEF Fill, Smaller, TypeOK
  <2>3. buffer' = buffer \o SubSeq(line, 1, room) /\ line' = SubSeq(line, room + 1, Len(line)) /\ file' = file
    BY <1>6, <2>1 DEF Fill
  <2>4. buffer' \o line' = buffer \o line
    BY <1>1, <2>2, <2>3, TakenPieces, Zenon
  <2> QED BY <1>2, <2>3, <2>4 DEF Rest
<1>7. CASE Spill \/ Stop \/ Fail \/ DropWriter
  <2>1. CASE UNCHANGED <<buffer, file>>
    <3>1. line' = line
      BY <1>7 DEF Spill, Stop, Fail, DropWriter
    <3> QED BY <1>2, <2>1, <3>1 DEF Rest
  <2>2. CASE ~UNCHANGED <<buffer, file>>
    <3>1. Spill \/ Stop \/ ((Fail \/ DropWriter) /\ WrittenInPart)
      BY <1>7, <2>2 DEF Fail, DropWriter
    <3> QED BY <1>3, <3>1, WritesSomeOrAll
  <2> QED BY <2>1, <2>2
<1>8. CASE Tick \/ \E c \in Conns : Connect(c)
  BY <1>2, <1>8 DEF Tick, Connect, Rest
<1>9. CASE UNCHANGED vars
  BY <1>2, <1>9 DEF vars, Rest
<1> QED BY <1>4, <1>5, <1>6, <1>7, <1>8, <1>9 DEF Next

(* What a step writes is the sensor's.                                     *)
LEMMA SensorWrites ==
  ASSUME TypeOK, NEW s, NEW t, Writes(s, t), Handed(Rest)
  PROVE  \A n \in 1..Len(s) : OfSensor(s[n])
<1>1. PICK u \in Seq(Piece) : u = t \o line /\ Rest = s \o u
  BY WritesOfRest
<1>2. PICK N \in Nat, M \in Nat : N = Len(s) /\ M = Len(u)
  BY DEF Writes
<1>3. s \in Seq(Piece)
  BY DEF Writes
<1>4. /\ Len(s \o u) = N + M
      /\ \A n \in 1..N : (s \o u)[n] = s[n]
  BY ONLY <1>2, <1>3, u \in Seq(Piece), N \in Nat, M \in Nat, Joined
<1>5. \A n \in 1..(N + M) : OfSensor((s \o u)[n])
  BY <1>1, <1>4 DEF Handed
<1>6. \A n \in 1..N : n \in 1..(N + M)
  OBVIOUS
<1> QED BY <1>2, <1>4, <1>5, <1>6

(* What every connection that is logged has in the file, and no other.     *)
LEMMA FlowsStep == TypeOK /\ OrderInv /\ FlowsInv /\ [Next]_vars => FlowsInv'
<1> SUFFICES ASSUME TypeOK, OrderInv, FlowsInv, [Next]_vars PROVE FlowsInv'
  OBVIOUS
<1>1. file \in Seq(Piece) /\ Rest \in Seq(Piece)
  BY ConcatProperties DEF TypeOK, Rest
<1>2. ASSUME file' = file, logged' = logged PROVE FlowsInv'
  BY <1>2 DEF FlowsInv
<1>3. ASSUME NEW s, NEW t, Writes(s, t), logged' = logged PROVE FlowsInv'
  <2>1. PICK N \in Nat, M \in Nat : N = Len(file) /\ M = Len(s)
    BY <1>1, <1>3 DEF Writes
  <2>2. s \in Seq(Piece) /\ file' = file \o s
    BY <1>3 DEF Writes
  <2>3. PICK w : w = file \o s
    OBVIOUS
  <2>4. /\ Len(w) = N + M
        /\ \A i \in 1..N : w[i] = file[i]
        /\ \A m \in 1..M : w[N + m] = s[m]
    <3>1. file \in Seq(Piece) /\ s \in Seq(Piece) /\ N = Len(file) /\ M = Len(s)
      BY <1>1, <2>1, <2>2
    <3>2. /\ Len(file \o s) = N + M
          /\ \A i \in 1..N : (file \o s)[i] = file[i]
          /\ \A m \in 1..M : (file \o s)[N + m] = s[m]
      BY ONLY <3>1, N \in Nat, M \in Nat, Joined
    <3> QED BY <2>3, <3>2
  <2>5. \A m \in 1..M : OfSensor(s[m])
    BY <1>3, <2>1, SensorWrites DEF OrderInv
  <2>6. ASSUME NEW i \in 1..Len(w), ~OfSensor(w[i]) PROVE i \in 1..N
    <3>1. CASE i > N
      <4>1. i - N \in 1..M /\ i = N + (i - N)
        BY <2>4, <3>1
      <4>2. OfSensor(w[i])
        BY <2>4, <2>5, <4>1
      <4> QED BY <2>6, <4>2
    <3> QED BY <2>4, <3>1
  <2>7. \A i \in 1..N : i \in 1..Len(w)
    BY <2>4
  <2>8. ASSUME NEW c \in logged
        PROVE  \E i \in 1..Len(w) : ~OfSensor(w[i]) /\ w[i].piece = 1 /\ w[i].row.conn = c
    <3>1. PICK i \in 1..N : ~OfSensor(file[i]) /\ file[i].piece = 1 /\ file[i].row.conn = c
      BY <2>1 DEF FlowsInv
    <3> QED BY <2>4, <2>7, <3>1
  <2>9. ASSUME NEW i \in 1..Len(w), ~OfSensor(w[i]) PROVE w[i].row.conn \in logged
    <3>1. i \in 1..N /\ w[i] = file[i]
      BY <2>4, <2>6, <2>9
    <3> QED BY <2>1, <2>9, <3>1 DEF FlowsInv
  <2>10. file' = w /\ logged' = logged
    BY <1>3, <2>2, <2>3
  <2> QED BY <2>8, <2>9, <2>10 DEF FlowsInv
<1>4. ASSUME NEW c \in Conns, LogFlow(c) PROVE FlowsInv'
  <2>1. PICK row \in FlowRows : row = HoneynetRow(c)
    <3>1. ticks % 2 \in 0..1
      BY SMT DEF TypeOK
    <3> QED BY <3>1, NowIsASecond DEF HoneynetRow, FlowRows
  <2>2. row.conn = c
    BY <2>1 DEF HoneynetRow
  <2>3. PICK N \in Nat : N = Len(file)
    BY <1>1
  <2>4. PICK w : w = file \o to_writer(row)
    OBVIOUS
  <2>5. /\ Len(w) = N + 5
        /\ \A i \in 1..N : w[i] = file[i]
        /\ \A k \in 1..5 : w[N + k] = [row |-> row, piece |-> k] /\ ~OfSensor(w[N + k])
    BY <1>1, <2>3, <2>4, FlowAppends, ZenonT(60) DEF OrderInv
  <2>6. file' = w /\ logged' = logged \cup {c}
    BY <1>4, <2>1, <2>4 DEF LogFlow
  <2>7. \A i \in 1..N : i \in 1..Len(w)
    BY <2>5
  <2>8. ASSUME NEW d \in logged \cup {c}
        PROVE  \E i \in 1..Len(w) : ~OfSensor(w[i]) /\ w[i].piece = 1 /\ w[i].row.conn = d
    <3>1. CASE d = c
      <4>1. N + 1 \in 1..Len(w) /\ 1 \in 1..5
        BY <2>5
      <4>2. ~OfSensor(w[N + 1]) /\ w[N + 1].piece = 1 /\ w[N + 1].row.conn = c
        BY <2>2, <2>5, <4>1
      <4> QED BY <3>1, <4>1, <4>2
    <3>2. CASE d \in logged
      <4>1. PICK i \in 1..N : ~OfSensor(file[i]) /\ file[i].piece = 1 /\ file[i].row.conn = d
        BY <2>3, <3>2 DEF FlowsInv
      <4> QED BY <2>5, <2>7, <4>1
    <3> QED BY <3>1, <3>2
  <2>9. ASSUME NEW i \in 1..Len(w), ~OfSensor(w[i]) PROVE w[i].row.conn \in logged \cup {c}
    <3>1. CASE i \in 1..N
      BY <2>3, <2>5, <2>9, <3>1 DEF FlowsInv
    <3>2. CASE i \notin 1..N
      <4>1. i - N \in 1..5 /\ i = N + (i - N)
        BY <2>5, <3>2
      <4>2. w[i].row = row
        BY <2>5, <4>1
      <4> QED BY <2>2, <4>2
    <3> QED BY <3>1, <3>2
  <2> QED BY <2>6, <2>8, <2>9 DEF FlowsInv
<1>5. CASE Spill \/ Stop \/ Fail \/ DropWriter
  <2>1. logged' = logged
    BY <1>5 DEF Spill, Stop, Fail, DropWriter
  <2>2. CASE file' = file
    BY <1>2, <2>1, <2>2
  <2>3. CASE file' # file
    <3>1. Spill \/ Stop \/ ((Fail \/ DropWriter) /\ WrittenInPart)
      BY <1>5, <2>3 DEF Fail, DropWriter
    <3> QED BY <1>3, <2>1, <3>1, WritesSomeOrAll
  <2> QED BY <2>2, <2>3
<1>6. CASE Tick \/ Drain \/ Fill \/ (\E c \in Conns : Connect(c)) \/ UNCHANGED vars
  BY <1>2, <1>6 DEF Tick, Drain, Fill, Connect, vars
<1> QED BY <1>4, <1>5, <1>6 DEF Next

-----------------------------------------------------------------------------
(* The sensor's log keeps what it is handed.                               *)

Handing == SensorPart \o buffer

(* The sensor's part of a file of pieces is a list of pieces.              *)
LEMMA PartOfFile == TypeOK => SensorPart \in Seq(Piece) /\ Handing \in Seq(Piece)
<1> SUFFICES ASSUME TypeOK PROVE SensorPart \in Seq(Piece) /\ Handing \in Seq(Piece)
  OBVIOUS
<1>1. file \in Seq(Piece) /\ buffer \in Seq(Piece)
  BY DEF TypeOK
<1>2. SensorPart \in Seq(Piece)
  BY <1>1, PartTyped DEF SensorPart
<1> QED BY <1>1, <1>2, ConcatProperties DEF Handing

(* A list is the beginning of what it is followed up to.                   *)
LEMMA Beginning ==
  ASSUME NEW S, NEW s \in Seq(S), NEW t \in Seq(S)
  PROVE  /\ SensorLog!IsPrefix(s, s \o t)
         /\ t # <<>> => SensorLog!IsStrictPrefix(s, s \o t)
<1>1. PICK N \in Nat, M \in Nat : N = Len(s) /\ M = Len(t)
  OBVIOUS
<1>2. PICK w : w = s \o t
  OBVIOUS
<1>3. w \in Seq(S) /\ Len(w) = N + M /\ \A i \in 1..N : w[i] = s[i]
  <2>1. /\ s \o t \in Seq(S) /\ Len(s \o t) = N + M
        /\ \A i \in 1..N : (s \o t)[i] = s[i]
    BY ONLY <1>1, s \in Seq(S), t \in Seq(S), N \in Nat, M \in Nat, Joined
  <2> QED BY <1>2, <2>1
<1>4. SubSeq(w, 1, N) = s
  <2>1. PICK v : v = SubSeq(w, 1, N)
    OBVIOUS
  <2>2. 1 \in 1..Len(w) + 1 /\ N \in (1 - 1)..Len(w)
    BY <1>3
  <2>3. \A i \in 1..N : i \in 1..Len(w) /\ w[i] \in S
    BY <1>3
  <2>4. v \in Seq(S) /\ Len(v) = N /\ \A i \in 1..N : v[i] = w[i]
    BY <1>3, <2>1, <2>3, SubSeqProperties
  <2> QED BY <1>1, <1>3, <2>1, <2>4, SeqEqual
<1>5. SubSeq(s, 1, N) = s
  BY <1>1, SubSeqFull
<1>6. t # <<>> => s # w
  BY <1>1, <1>3, EmptySeq
<1> QED BY <1>1, <1>2, <1>3, <1>4, <1>5, <1>6 DEF SensorLog!IsPrefix, SensorLog!IsStrictPrefix

(* A write of the sensor changes its part of the file by what is written,  *)
(* and nothing of what was handed over.                                    *)
LEMMA WriteKeeps ==
  ASSUME TypeOK, Handed(Rest), NEW s, NEW t, Writes(s, t)
  PROVE  /\ SensorPart' = SensorPart \o s /\ Handing' = Handing
         /\ SensorLog!IsPrefix(SensorPart', Handing)
         /\ IF s = <<>> THEN SensorPart' = SensorPart
            ELSE SensorLog!IsStrictPrefix(SensorPart, SensorPart')
<1>1. /\ file \in Seq(Piece) /\ s \in Seq(Piece) /\ t \in Seq(Piece)
      /\ buffer = s \o t /\ file' = file \o s /\ buffer' = t
  BY DEF Writes, TypeOK
<1>2. PICK P \in Seq(Piece) : P = SensorPart
  BY PartOfFile
<1>3. SensorPart' = P \o s
  <2>1. \A n \in 1..Len(s) : OfSensor(s[n])
    BY SensorWrites
  <2>2. OwnPart(file \o s) = OwnPart(file) \o s
    BY <1>1, <2>1, PartConcat
  <2> QED BY <1>1, <1>2, <2>2 DEF SensorPart
<1>4. P \o s \in Seq(Piece) /\ (P \o s) \o t = P \o (s \o t)
  BY <1>1, <1>2, ConcatProperties, PiecesAssociate
<1>5. Handing = (P \o s) \o t /\ Handing' = (P \o s) \o t
  BY <1>1, <1>2, <1>3, <1>4 DEF Handing
<1>6. SensorLog!IsPrefix(P \o s, (P \o s) \o t)
  BY <1>1, <1>4, Beginning
<1>7. s # <<>> => SensorLog!IsStrictPrefix(P, P \o s)
  BY <1>1, <1>2, Beginning
<1>8. s = <<>> => P \o s = P
  BY <1>2, ConcatEmptySeq
<1> QED BY <1>2, <1>3, <1>5, <1>6, <1>7, <1>8

(* What the honeynet writes is none of it.                                 *)
LEMMA FlowIsNotKept ==
  ASSUME TypeOK, NEW c \in Conns, LogFlow(c)
  PROVE  SensorPart' = SensorPart
<1>1. PICK row \in FlowRows : row = HoneynetRow(c)
  <2>1. ticks % 2 \in 0..1
    BY SMT DEF TypeOK
  <2> QED BY <2>1, NowIsASecond DEF HoneynetRow, FlowRows
<1>2. to_writer(row) \in Seq(Piece) /\ file \in Seq(Piece)
  BY PiecesOfRow DEF TypeOK
<1>3. \A n \in 1..Len(to_writer(row)) : ~OfSensor(to_writer(row)[n])
  <2>1. DOMAIN Pieces = 1..5
    BY DEF Pieces
  <2>2. to_writer(row) = [k \in 1..5 |-> [row |-> row, piece |-> k]]
    BY <2>1 DEF to_writer
  <2>3. Len(to_writer(row)) = 5
    BY <2>2
  <2>4. row.source = "honeynet"
    BY DEF FlowRows
  <2> QED BY <2>2, <2>3, <2>4 DEF OfSensor
<1>4. OwnPart(file \o to_writer(row)) = OwnPart(file)
  BY <1>2, <1>3, PartConcat
<1> QED BY <1>1, <1>4 DEF LogFlow, SensorPart

LogState == IF sensor = "stopped" THEN "closed"
            ELSE IF sensor = "draining" THEN "open" ELSE "broken"

(* Every step hands over, keeps, closes or breaks, or is none of the log's.*)
LEMMA KeepStep ==
  ASSUME TypeOK, OrderInv, [Next]_vars
  PROVE  [SensorLog!Next]_<<SensorPart \o buffer, SensorPart, LogState>>
<1> DEFINE Stutter == Handing' = Handing /\ SensorPart' = SensorPart /\ LogState' = LogState
<1>1. Handing \in Seq(Piece) /\ SensorPart \in Seq(Piece) /\ buffer \in Seq(Piece) /\ line \in Seq(Piece)
  BY PartOfFile DEF TypeOK
<1>2. ASSUME buffer' = buffer, file' = file
      PROVE  Handing' = Handing /\ SensorPart' = SensorPart
  BY <1>2 DEF Handing, SensorPart
<1>3. Handed(Rest)
  BY DEF OrderInv
<1>4. SensorLog!IsPrefix(Handing, Handing)
  <2>1. Handing \o <<>> = Handing /\ <<>> \in Seq(Piece)
    BY <1>1, ConcatEmptySeq
  <2> QED BY <1>1, <2>1, Beginning
<1>5. ASSUME NEW c \in Conns, LogFlow(c) PROVE Stutter
  BY <1>5, FlowIsNotKept DEF LogFlow, Handing, LogState
<1>6. CASE Fill
  <2>1. PICK room : room = Smaller(Len(line), capacity - Len(buffer))
    OBVIOUS
  <2>2. room \in 1..Len(line)
    BY <1>6, <2>1 DEF Fill, Smaller, TypeOK
  <2>3. PICK s : s = SubSeq(line, 1, room)
    OBVIOUS
  <2>4. s \in Seq(Piece) /\ s # <<>>
    <3>1. room \in 0..Len(line)
      BY <2>2
    <3>2. s \in Seq(Piece)
      BY <1>1, <2>3, <3>1, Cut
    <3>3. 1 \in 1..Len(line) + 1 /\ room \in (1 - 1)..Len(line)
      BY <1>1, <2>2
    <3>4. Len(s) = room
      BY <1>1, <2>2, <2>3, <3>3, SubSeqProperties
    <3> QED BY <2>2, <3>2, <3>4, EmptySeq
  <2>5. buffer' = buffer \o s /\ file' = file
    BY <1>6, <2>1, <2>3 DEF Fill
  <2>6. Handing' = Handing \o s
    <3>1. (SensorPart \o buffer) \o s = SensorPart \o (buffer \o s)
      BY <1>1, <2>4, PiecesAssociate
    <3> QED BY <2>5, <3>1 DEF Handing, SensorPart
  <2>7. SensorLog!IsStrictPrefix(Handing, Handing \o s)
    BY <1>1, <2>4, Beginning
  <2>8. sensor = "draining" /\ sensor' = sensor /\ SensorPart' = SensorPart
    BY <1>6, <2>5 DEF Fill, SensorPart
  <2> QED BY <2>6, <2>7, <2>8 DEF SensorLog!Next, SensorLog!Hand, Handing, LogState
<1>7. ASSUME NEW s, NEW t, Writes(s, t)
      PROVE  /\ SensorPart' = SensorPart \o s /\ Handing' = Handing
             /\ SensorLog!IsPrefix(SensorPart', Handing)
             /\ IF s = <<>> THEN SensorPart' = SensorPart
                ELSE SensorLog!IsStrictPrefix(SensorPart, SensorPart')
  BY <1>3, <1>7, WriteKeeps
<1>8. CASE Spill
  <2>1. buffer # <<>>
    BY <1>8, SizesArePositive DEF Spill, Full, TypeOK
  <2>2. buffer \o <<>> = buffer /\ <<>> \in Seq(Piece)
    BY <1>1, ConcatEmptySeq
  <2>3. Writes(buffer, <<>>)
    BY <1>1, <1>8, <2>2 DEF Spill, Appended, Writes
  <2>4. sensor = "draining" /\ sensor' = sensor
    BY <1>8 DEF Spill, Full
  <2> QED BY <1>7, <2>1, <2>3, <2>4 DEF SensorLog!Next, SensorLog!Keep, Handing, LogState
<1>9. CASE Stop
  <2>1. buffer \o <<>> = buffer /\ <<>> \in Seq(Piece)
    BY <1>1, ConcatEmptySeq
  <2>2. Writes(buffer, <<>>)
    BY <1>1, <1>9, <2>1 DEF Stop, Appended, Writes
  <2>3. SensorPart' = Handing /\ Handing' = Handing
    BY <1>7, <2>2 DEF Handing
  <2>4. sensor = "draining" /\ sensor' = "stopped"
    BY <1>9 DEF Stop, Over
  <2> QED BY <2>3, <2>4 DEF SensorLog!Next, SensorLog!Close, Handing, LogState
<1>10. CASE Fail
  <2>1. sensor = "draining" /\ sensor' = "failed"
    BY <1>10 DEF Fail
  <2>2. CASE UNCHANGED <<buffer, file>>
    BY <1>2, <2>1, <2>2 DEF SensorLog!Next, SensorLog!Break, Handing, LogState
  <2>3. CASE WrittenInPart
    <3>1. PICK s, t : Writes(s, t)
      BY <1>10, <2>3, WritesSomeOrAll
    <3>2. CASE s = <<>>
      BY <1>7, <2>1, <3>1, <3>2 DEF SensorLog!Next, SensorLog!Break, Handing, LogState
    <3>3. CASE s # <<>>
      BY <1>7, <2>1, <3>1, <3>3 DEF SensorLog!Next, SensorLog!Keep, Handing, LogState
    <3> QED BY <3>2, <3>3
  <2> QED BY <1>10, <2>2, <2>3 DEF Fail
<1>11. CASE DropWriter
  <2>1. sensor = "failed" /\ sensor' = "ended" /\ WrittenInPart
    BY <1>11 DEF DropWriter
  <2>2. PICK s, t : Writes(s, t)
    BY <1>11, <2>1, WritesSomeOrAll
  <2>3. CASE s = <<>>
    BY <1>7, <2>1, <2>2, <2>3 DEF Handing, LogState
  <2>4. CASE s # <<>>
    BY <1>7, <2>1, <2>2, <2>4 DEF SensorLog!Next, SensorLog!Keep, Handing, LogState
  <2> QED BY <2>3, <2>4
<1>12. CASE Tick \/ Drain \/ (\E c \in Conns : Connect(c)) \/ UNCHANGED vars
  <2>1. buffer' = buffer /\ file' = file /\ sensor' = sensor
    BY <1>12 DEF Tick, Drain, Connect, vars
  <2> QED BY <1>2, <2>1 DEF Handing, LogState
<1> QED BY <1>5, <1>6, <1>8, <1>9, <1>10, <1>11, <1>12 DEF Next, Handing

(* Before the first piece there is no part of anybody in the file.         *)
LEMMA NothingYet == OwnPart(<<>>) = <<>>
<1>1. <<>> \in Seq(Piece) /\ Len(<<>>) = 0
  BY EmptySeq
<1>2. PICK e \in Seq(Piece) : e = <<>> /\ Len(e) = 0
  BY <1>1
<1>3. PICK g : (\A n \in 0..Len(e) : g[n] = PartAt(e, g, n)) /\ OwnPart(e) = g[Len(e)]
  BY PartIsRead
<1>4. g[0] = PartAt(e, g, 0) /\ OwnPart(e) = g[0]
  BY <1>2, <1>3
<1> QED BY <1>2, <1>4 DEF PartAt

(* The order of the pieces holds of every run, and so does what the        *)
(* connections that are logged have in the file.                           *)
LEMMA InitOrdered == Init => OrderInv /\ FlowsInv
<1> SUFFICES ASSUME Init PROVE OrderInv /\ FlowsInv
  OBVIOUS
<1>1. buffer = <<>> /\ line = <<>> /\ file = <<>> /\ logged = {}
  BY DEF Init
<1>2. <<>> \o <<>> = <<>> /\ Len(<<>>) = 0
  OBVIOUS
<1>3. \A i \in 1..0 : FALSE
  OBVIOUS
<1> QED BY <1>1, <1>2, <1>3 DEF OrderInv, FlowsInv, Rest, Handed, Resumes, FlowsInOnePlace, SensorInOrder

LEMMA Ordered == Spec => [](TypeOK /\ OrderInv /\ FlowsInv)
<1>1. Init => TypeOK /\ OrderInv /\ FlowsInv
  BY InitTyped, InitOrdered
<1>2. TypeOK /\ OrderInv /\ FlowsInv /\ [Next]_vars => (TypeOK /\ OrderInv /\ FlowsInv)'
  BY NextTyped, OrderStep, FlowsStep
<1> QED BY <1>1, <1>2, PTL DEF Spec

(* The sensor's log keeps what it is handed: whatever the honeynet writes  *)
(* between, wherever a full buffer ends inside a row and however a write   *)
(* fails, the rows of the sensor are in network.jsonl in the order they    *)
(* were drained, none twice, and all of them once run_sensor has returned. *)
THEOREM KeepsWhatIsHanded == Spec => KeepsWhatItIsHanded
<1>1. Init => SensorLog!Init
  <2>1. Init => SensorPart = <<>> /\ SensorPart \o buffer = <<>>
    BY NothingYet DEF Init, SensorPart
  <2> QED BY <2>1 DEF Init, SensorLog!Init
<1>2. TypeOK /\ OrderInv /\ [Next]_vars
        => [SensorLog!Next]_<<SensorPart \o buffer, SensorPart, LogState>>
  BY KeepStep
<1>3. Spec => [](TypeOK /\ OrderInv)
  BY Ordered, PTL
<1> QED BY <1>1, <1>2, <1>3, PTL DEF Spec, KeepsWhatItIsHanded, SensorLog!Spec, LogState

-----------------------------------------------------------------------------
(* What the shared file costs.                                             *)

\* A run whose rows fit the buffer writes it once, when it stops.
Total == Len(SensorPart) + Len(buffer) + Len(line)
GoesOn(f, i) == f[i].piece = 5 \/ (i < Len(f) /\ f[i + 1].row = f[i].row)

OneWriteInv ==
    /\ sensor = "draining" /\ Total <= capacity => \A i \in 1..Len(file) : ~OfSensor(file[i])
    /\ sensor = "stopped" /\ Total <= capacity =>
          \A i \in 1..Len(file) : OfSensor(file[i]) => GoesOn(file, i)

LEMMA OneWriteStep == TypeOK /\ OrderInv /\ OneWriteInv /\ [Next]_vars => OneWriteInv'
<1> SUFFICES ASSUME TypeOK, OrderInv, OneWriteInv, [Next]_vars PROVE OneWriteInv'
  OBVIOUS
<1>1. /\ file \in Seq(Piece) /\ buffer \in Seq(Piece) /\ line \in Seq(Piece)
      /\ SensorPart \in Seq(Piece) /\ Handed(Rest) /\ capacity \in Nat
  BY PartOfFile DEF TypeOK, OrderInv
<1>2. PICK P \in Nat, B \in Nat, L \in Nat, N \in Nat :
        P = Len(SensorPart) /\ B = Len(buffer) /\ L = Len(line) /\ N = Len(file)
  BY <1>1
<1>3. Total = P + B + L
  BY <1>2 DEF Total
<1>4. ASSUME NEW c \in Conns, LogFlow(c) PROVE OneWriteInv'
  <2>1. Total' = Total /\ sensor' = sensor /\ capacity' = capacity
    BY <1>4, FlowIsNotKept DEF LogFlow, Total, fixed
  <2>2. PICK row \in FlowRows : row = HoneynetRow(c)
    <3>1. ticks % 2 \in 0..1
      BY SMT DEF TypeOK
    <3> QED BY <3>1, NowIsASecond DEF HoneynetRow, FlowRows
  <2>3. PICK w : w = file \o to_writer(row)
    OBVIOUS
  <2>4. /\ Len(w) = N + 5
        /\ \A i \in 1..N : w[i] = file[i]
        /\ \A k \in 1..5 : ~OfSensor(w[N + k])
    <3>1. Rest \in Seq(Piece)
      BY <1>1, ConcatProperties DEF Rest
    <3> QED BY <1>1, <1>2, <2>3, <3>1, FlowAppends, ZenonT(60) DEF OrderInv
  <2>5. file' = w
    BY <1>4, <2>2, <2>3 DEF LogFlow
  <2>6. ASSUME NEW i \in 1..Len(w), OfSensor(w[i]) PROVE i \in 1..N
    <3>1. CASE i > N
      <4>1. i - N \in 1..5 /\ i = N + (i - N)
        BY <2>4, <3>1
      <4> QED BY <2>4, <2>6, <4>1
    <3> QED BY <2>4, <3>1
  <2>7. ASSUME \A i \in 1..N : ~OfSensor(file[i]) PROVE \A i \in 1..Len(w) : ~OfSensor(w[i])
    BY <2>4, <2>6, <2>7
  <2>8. ASSUME \A i \in 1..N : OfSensor(file[i]) => GoesOn(file, i), NEW i \in 1..Len(w), OfSensor(w[i])
        PROVE  GoesOn(w, i)
    <3>1. i \in 1..N /\ w[i] = file[i]
      BY <2>4, <2>6, <2>8
    <3>2. file[i].piece = 5 \/ (i < N /\ file[i + 1].row = file[i].row)
      BY <1>2, <2>8, <3>1 DEF GoesOn
    <3>3. CASE file[i].piece = 5
      BY <3>1, <3>3 DEF GoesOn
    <3>4. CASE i < N /\ file[i + 1].row = file[i].row
      <4>1. i + 1 \in 1..N /\ i < Len(w)
        BY <2>4, <3>1, <3>4
      <4>2. w[i + 1] = file[i + 1]
        BY <2>4, <4>1
      <4> QED BY <3>1, <3>4, <4>1, <4>2 DEF GoesOn
    <3> QED BY <3>2, <3>3, <3>4
  <2> QED BY <1>2, <2>1, <2>5, <2>7, <2>8 DEF OneWriteInv
<1>5. CASE Drain
  <2>1. /\ line = <<>> /\ buffer' = buffer /\ file' = file /\ sensor' = "draining" /\ sensor = "draining"
        /\ capacity' = capacity
    BY <1>5 DEF Drain, fixed
  <2>2. PICK n \in Nat : Len(line') = n
    <3>1. line' \in Seq(Piece)
      BY NextTyped DEF TypeOK
    <3> QED BY <3>1
  <2>3. Total = P + B /\ Total' = P + B + n
    <3>1. L = 0
      BY <1>2, <2>1
    <3>2. SensorPart' = SensorPart
      BY <2>1 DEF SensorPart
    <3>3. Total' = P + B + n
      BY <1>2, <2>1, <2>2, <3>2 DEF Total
    <3> QED BY <1>3, <3>1, <3>3
  <2>4. Total' <= capacity => Total <= capacity
    BY <1>1, <2>3
  <2> QED BY <2>1, <2>4 DEF OneWriteInv
<1>6. CASE Fill
  <2>1. PICK room : room = Smaller(Len(line), capacity - Len(buffer))
    OBVIOUS
  <2>2. room \in 1..L
    BY <1>1, <1>2, <1>6, <2>1 DEF Fill, Smaller
  <2>3. PICK s, u : s = SubSeq(line, 1, room) /\ u = SubSeq(line, room + 1, Len(line))
    OBVIOUS
  <2>4. s \in Seq(Piece) /\ u \in Seq(Piece) /\ Len(s) = room /\ Len(u) = L - room
    <3>1. room \in 0..Len(line)
      BY <1>2, <2>2
    <3>2. s \in Seq(Piece) /\ u \in Seq(Piece)
      BY <1>1, <2>3, <3>1, Cut
    <3>3. Len(s) = room
      BY <1>1, <1>2, <2>2, <2>3, SubSeqProperties
    <3>4. Len(u) = L - room
      <4>1. Len(SubSeq(line, room + 1, L)) = IF room + 1 <= L THEN L - (room + 1) + 1 ELSE 0
        BY <1>1, <1>2, <2>2, SubSeqProperties
      <4> QED BY <1>2, <2>2, <2>3, <4>1
    <3> QED BY <3>2, <3>3, <3>4
  <2>5. buffer' = buffer \o s /\ line' = u /\ file' = file /\ sensor' = sensor /\ capacity' = capacity
    BY <1>6, <2>1, <2>3 DEF Fill, fixed
  <2>6. Len(buffer \o s) = B + room
    BY ONLY <1>1, <1>2, <2>4, B \in Nat, room \in 1..L, L \in Nat, ConcatProperties
  <2>7. SensorPart' = SensorPart
    BY <2>5 DEF SensorPart
  <2>8. Total' = P + (B + room) + (L - room)
    BY <1>2, <2>4, <2>5, <2>6, <2>7 DEF Total
  <2>9. Total' = Total
    BY <1>3, <2>2, <2>8
  <2> QED BY <2>5, <2>9 DEF OneWriteInv
<1>7. CASE Spill \/ Stop
  <2>1. PICK w : w = file \o buffer
    OBVIOUS
  <2>2. file' = w /\ buffer' = <<>> /\ line' = line /\ capacity' = capacity
    BY <1>7, <2>1 DEF Spill, Stop, Appended, fixed
  <2>3. Total' = Total
    <3>1. buffer \o <<>> = buffer /\ <<>> \in Seq(Piece)
      BY <1>1, ConcatEmptySeq
    <3>2. Writes(buffer, <<>>)
      BY <1>1, <2>1, <2>2, <3>1 DEF Writes
    <3>3. SensorPart' = SensorPart \o buffer
      BY <1>1, <3>2, WriteKeeps
    <3>4. Len(SensorPart \o buffer) = P + B
      BY ONLY <1>1, <1>2, ConcatProperties
    <3>5. Total' = P + B + 0 + L
      BY <1>2, <2>2, <3>3, <3>4 DEF Total
    <3> QED BY <1>3, <3>5
  <2>4. CASE Spill
    <3>1. sensor' = "draining" /\ B = capacity /\ L # 0
      BY <1>1, <1>2, <2>4, EmptySeq DEF Spill, Full
    <3>2. Total > capacity
      BY <1>1, <1>2, <1>3, <3>1
    <3> QED BY <1>1, <1>3, <2>2, <2>3, <3>1, <3>2 DEF OneWriteInv
  <2>5. CASE Stop
    <3>1. sensor = "draining" /\ sensor' = "stopped" /\ line = <<>>
      BY <2>5 DEF Stop, Over
    <3>2. ASSUME Total <= capacity, NEW i \in 1..Len(w), OfSensor(w[i]) PROVE GoesOn(w, i)
      <4>1. \A j \in 1..N : ~OfSensor(file[j])
        BY <1>2, <3>1, <3>2 DEF OneWriteInv
      <4>2. /\ Len(w) = N + B
            /\ \A j \in 1..N : w[j] = file[j]
            /\ \A m \in 1..B : w[N + m] = buffer[m]
        <5>1. /\ Len(file \o buffer) = N + B
              /\ \A j \in 1..N : (file \o buffer)[j] = file[j]
              /\ \A m \in 1..B : (file \o buffer)[N + m] = buffer[m]
          BY ONLY <1>1, <1>2, N \in Nat, B \in Nat, Joined
        <5> QED BY <2>1, <5>1
      <4>3. PICK m \in 1..B : i = N + m
        <5>1. i \notin 1..N
          BY <3>2, <4>1, <4>2
        <5>2. i - N \in 1..B /\ i = N + (i - N)
          BY <4>2, <5>1
        <5> QED BY <5>2
      <4>4. IF m = B THEN buffer[m].piece = 5 ELSE Follows(buffer[m], buffer[m + 1])
        <5>1. Rest = buffer
          BY <1>1, <3>1, ConcatEmptySeq DEF Rest
        <5> QED BY <1>1, <1>2, <5>1 DEF Handed
      <4>5. w[i] = buffer[m]
        BY <4>2, <4>3
      <4>6. CASE m = B
        BY <4>4, <4>5, <4>6 DEF GoesOn
      <4>7. CASE m # B
        <5>1. m + 1 \in 1..B /\ i + 1 = N + (m + 1) /\ i < N + B
          BY <4>3, <4>7
        <5>2. w[i + 1] = buffer[m + 1]
          BY <4>2, <5>1
        <5> QED BY <4>2, <4>4, <4>5, <4>7, <5>1, <5>2 DEF GoesOn, Follows, Continues
      <4> QED BY <4>6, <4>7
    <3> QED BY <2>2, <2>3, <3>1, <3>2 DEF OneWriteInv
  <2> QED BY <1>7, <2>4, <2>5
<1>8. CASE Fail \/ DropWriter
  <2>1. sensor' \in {"failed", "ended"}
    BY <1>8 DEF Fail, DropWriter
  <2> QED BY <2>1 DEF OneWriteInv
<1>9. CASE Tick \/ (\E c \in Conns : Connect(c)) \/ UNCHANGED vars
  BY <1>9 DEF Tick, Connect, vars, fixed, OneWriteInv, Total, SensorPart
<1> QED BY <1>4, <1>5, <1>6, <1>7, <1>8, <1>9 DEF Next

(* The fifth piece ends a line, the third is the null.                     *)
LEMMA PieceNames ==
  ASSUME NEW k \in 1..5
  PROVE  /\ Pieces[k] = "newline" <=> k = 5
         /\ Pieces[k] = "null" <=> k = 3
<1>1. Pieces[1] = "open" /\ Pieces[2] = "text" /\ Pieces[3] = "null" /\ Pieces[4] = "close" /\ Pieces[5] = "newline"
  BY DEF Pieces
<1>2. k = 1 \/ k = 2 \/ k = 3 \/ k = 4 \/ k = 5
  OBVIOUS
<1> QED BY <1>1, <1>2

(* What a place in the file holds.                                         *)
LEMMA PieceShape ==
  ASSUME TypeOK, NEW i \in 1..Len(file)
  PROVE  /\ file[i].piece \in 1..5 /\ file[i] = [row |-> file[i].row, piece |-> file[i].piece]
         /\ file[i].row \in AyaRows \cup FlowRows
<1>1. file[i] \in Piece
  BY DEF TypeOK
<1> QED BY <1>1 DEF Piece

(* A row is read at a place from which four pieces follow each other.      *)
LEMMA FourInARow ==
  ASSUME TypeOK, NEW i \in 1..Len(file), file[i].piece = 1,
         \A j \in 1..Len(file) :
            file[j].row = file[i].row /\ file[j].piece < 4 =>
                j < Len(file) /\ Continues(file[j], file[j + 1])
  PROVE  ReadsRow(i)
<1>1. PICK N \in Nat : N = Len(file) /\ DOMAIN file = 1..N
  BY DEF TypeOK
<1> DEFINE At(k) == i + k - 1 \in 1..N /\ file[i + k - 1] = [row |-> file[i].row, piece |-> k]
<1>2. At(1)
  <2>1. i + 1 - 1 = i
    BY <1>1
  <2> QED BY <1>1, <2>1, PieceShape
<1>3. ASSUME NEW k \in 1..3, At(k) PROVE At(k + 1)
  <2>1. PICK j \in 1..N : j = i + k - 1
    BY <1>3
  <2>2. file[j].row = file[i].row /\ file[j].piece = k /\ k < 4
    BY <1>3, <2>1
  <2>3. j < N /\ Continues(file[j], file[j + 1])
    BY <1>1, <2>1, <2>2
  <2>4. j + 1 \in 1..N /\ j + 1 = i + (k + 1) - 1
    BY <1>1, <2>1, <2>3
  <2>5. file[j + 1] = [row |-> file[i].row, piece |-> k + 1]
    <3>1. file[j + 1] = [row |-> file[j + 1].row, piece |-> file[j + 1].piece]
      BY <1>1, <2>4, PieceShape
    <3> QED BY <2>2, <2>3, <3>1 DEF Continues
  <2> QED BY <2>4, <2>5
<1> HIDE DEF At
<1>4. At(1) /\ At(2) /\ At(3) /\ At(4)
  <2>1. At(2)
    <3>1. 1 \in 1..3 /\ 1 + 1 = 2
      OBVIOUS
    <3> QED BY <1>2, <1>3, <3>1
  <2>2. At(3)
    <3>1. 2 \in 1..3 /\ 2 + 1 = 3
      OBVIOUS
    <3> QED BY <1>3, <2>1, <3>1
  <2>3. At(4)
    <3>1. 3 \in 1..3 /\ 3 + 1 = 4
      OBVIOUS
    <3> QED BY <1>3, <2>2, <3>1
  <2> QED BY <1>2, <2>1, <2>2, <2>3
<1>5. \A k \in 1..4 : At(k)
  <2>1. \A k \in 1..4 : k = 1 \/ k = 2 \/ k = 3 \/ k = 4
    OBVIOUS
  <2> QED BY <1>4, <2>1
<1> QED BY <1>1, <1>5 DEF ReadsRow, Closing, At

(* The first piece of a row begins a line, unless it is a flow's and what  *)
(* is before it is a row of the sensor that was cut off.                   *)
LEMMA FirstPieceBeginsALine ==
  ASSUME TypeOK, OrderInv, NEW i \in 1..Len(file), file[i].piece = 1
  PROVE  \/ i \in LineStarts
         \/ ~OfSensor(file[i]) /\ i - 1 \in Breaks
<1> SUFFICES ASSUME i \notin LineStarts PROVE ~OfSensor(file[i]) /\ i - 1 \in Breaks
  OBVIOUS
<1>1. PICK N \in Nat : N = Len(file) /\ DOMAIN file = 1..N
  BY DEF TypeOK
<1>2. i # 1 /\ Pieces[file[i - 1].piece] # "newline"
  BY <1>1 DEF LineStarts
<1>3. PICK j \in 1..N : j = i - 1 /\ j < N /\ j + 1 = i
  BY <1>1, <1>2
<1>4. file[j].piece \in 1..5 /\ file[j].piece # 5 /\ Pieces[file[j].piece] # "newline"
  BY <1>1, <1>2, <1>3, PieceShape, PieceNames
<1>5. ~Continues(file[j], file[i])
  <2>1. ASSUME NEW p \in 1..5 PROVE p + 1 # 1
    OBVIOUS
  <2> QED BY <1>4, <2>1 DEF Continues
<1>6. OfSensor(file[j])
  <2>1. ~OfSensor(file[j]) => Continues(file[j], file[j + 1])
    BY <1>1, <1>4 DEF OrderInv, FlowsInOnePlace
  <2> QED BY <1>3, <1>5, <2>1
<1>7. ~OfSensor(file[i])
  <2>1. OfSensor(file[j + 1]) => Follows(file[j], file[j + 1])
    BY <1>1, <1>3, <1>6 DEF OrderInv, SensorInOrder
  <2> QED BY <1>3, <1>4, <1>5, <2>1 DEF Follows
<1>8. file[i].row # file[j].row
  BY <1>6, <1>7 DEF OfSensor
<1>9. j \in Breaks
  BY <1>1, <1>3, <1>4, <1>6, <1>8 DEF Breaks
<1> QED BY <1>3, <1>7, <1>9

(* The block of a flow is read wherever it begins a line.                  *)
LEMMA FlowIsWhole ==
  ASSUME TypeOK, OrderInv, NEW i \in 1..Len(file), ~OfSensor(file[i]), file[i].piece = 1
  PROVE  ReadsRow(i)
<1>1. ASSUME NEW j \in 1..Len(file), file[j].row = file[i].row, file[j].piece < 4
      PROVE  j < Len(file) /\ Continues(file[j], file[j + 1])
  <2>1. ~OfSensor(file[j]) /\ file[j].piece # 5
    <3>1. \A p \in 1..5 : p < 4 => p # 5
      OBVIOUS
    <3> QED BY <1>1, <3>1, PieceShape DEF OfSensor
  <2> QED BY <2>1 DEF OrderInv, FlowsInOnePlace
<1> QED BY <1>1, FourInARow

(* A row of the sensor that is not cut off is read where it begins a line. *)
LEMMA UnbrokenIsWhole ==
  ASSUME TypeOK, OrderInv, NEW i \in 1..Len(file), OfSensor(file[i]), file[i].piece = 1,
         file[i].row \notin BrokenRows
  PROVE  ReadsRow(i)
<1>1. ASSUME NEW j \in 1..Len(file), file[j].row = file[i].row, file[j].piece < 4
      PROVE  j < Len(file) /\ Continues(file[j], file[j + 1])
  <2>1. PICK N \in Nat : N = Len(file) /\ DOMAIN file = 1..N
    BY DEF TypeOK
  <2>2. OfSensor(file[j]) /\ file[j].piece # 5 /\ Pieces[file[j].piece] # "newline"
    <3>1. \A p \in 1..5 : p < 4 => p # 5
      OBVIOUS
    <3>2. file[j].piece \in 1..5 /\ file[j].piece # 5
      BY <1>1, <3>1, PieceShape
    <3> QED BY <1>1, <3>2, PieceNames DEF OfSensor
  <2>3. j \notin Breaks
    BY <1>1 DEF BrokenRows
  <2>4. j # N /\ file[j + 1].row = file[j].row
    BY <2>1, <2>2, <2>3 DEF Breaks
  <2>5. j < N /\ OfSensor(file[j + 1])
    BY <2>1, <2>2, <2>4 DEF OfSensor
  <2>6. Follows(file[j], file[j + 1])
    BY <2>1, <2>2, <2>5 DEF OrderInv, SensorInOrder
  <2> QED BY <2>1, <2>2, <2>5, <2>6 DEF Follows
<1> QED BY <1>1, FourInARow

\* The connection of the flow that follows the place i.
NextFlow == [i \in Breaks |-> file[i + 1].row.conn]

(* A flow that is logged and not read follows a row that was cut off,      *)
(* unless nothing is read.                                                 *)
LEMMA LostAfterABreak ==
  ASSUME TypeOK, OrderInv, FlowsInv, ~throws
  PROVE  \A c \in logged \ FlowsRead : \E i \in Breaks : NextFlow[i] = c
<1> SUFFICES ASSUME NEW c \in logged \ FlowsRead PROVE \E i \in Breaks : NextFlow[i] = c
  OBVIOUS
<1>1. PICK i \in 1..Len(file) : ~OfSensor(file[i]) /\ file[i].piece = 1 /\ file[i].row.conn = c
  BY DEF FlowsInv
<1>2. file[i].row.source = "honeynet"
  <2>1. PICK r \in AyaRows \cup FlowRows : r = file[i].row
    BY PieceShape
  <2>2. r.source # "aya_connect"
    BY <1>1, <2>1 DEF OfSensor
  <2>3. r.source = "honeynet"
    BY <2>2 DEF AyaRows, FlowRows
  <2> QED BY <2>1, <2>3
<1>3. ReadsRow(i)
  BY <1>1, FlowIsWhole
<1>4. i \notin LineStarts
  <2>1. ASSUME i \in LineStarts PROVE FALSE
    <3>1. file[i].row \in network
      BY <1>3, <2>1 DEF network, events
    <3>2. c \in FlowsRead
      BY <1>1, <1>2, <3>1 DEF FlowsRead
    <3> QED BY <3>2
  <2> QED BY <2>1
<1>5. i - 1 \in Breaks
  BY <1>1, <1>4, FirstPieceBeginsALine
<1>6. NextFlow[i - 1] = c
  <2>1. (i - 1) + 1 = i
    OBVIOUS
  <2> QED BY <1>1, <1>5, <2>1 DEF NextFlow
<1> QED BY <1>5, <1>6

(* So there are no more lost flows than breaks.                            *)
LEMMA OneFlowPerBreak ==
  ASSUME TypeOK, OrderInv, FlowsInv, ~throws
  PROVE  Cardinality(logged \ FlowsRead) <= Cardinality(Breaks)
<1>1. IsFiniteSet(Breaks)
  <2>1. Len(file) \in Nat /\ DOMAIN file = 1..Len(file)
    BY DEF TypeOK
  <2>2. IsFiniteSet(1..Len(file))
    BY <2>1, FS_Interval
  <2>3. Breaks \subseteq 1..Len(file)
    BY <2>1 DEF Breaks
  <2> QED BY <2>2, <2>3, FS_Subset
<1> DEFINE Named == {NextFlow[i] : i \in Breaks}
<1>2. NextFlow \in Surjection(Breaks, Named)
  BY DEF NextFlow, Surjection
<1>3. IsFiniteSet(Named) /\ Cardinality(Named) <= Cardinality(Breaks)
  <2> HIDE DEF Named
  <2> QED BY <1>1, <1>2, FS_Surjection
<1>4. logged \ FlowsRead \subseteq Named
  BY LostAfterABreak
<1>5. Cardinality(logged \ FlowsRead) <= Cardinality(Named)
  <2> HIDE DEF Named
  <2> QED BY <1>3, <1>4, FS_Subset
<1>6. Cardinality(logged \ FlowsRead) \in Nat /\ Cardinality(Named) \in Nat /\ Cardinality(Breaks) \in Nat
  <2> HIDE DEF Named
  <2>1. IsFiniteSet(logged \ FlowsRead)
    BY <1>3, <1>4, FS_Subset
  <2> QED BY <1>1, <1>3, <2>1, FS_CardinalityType
<1> HIDE DEF Named
<1>7. \A a, b, c \in Nat : a <= b /\ b <= c => a <= c
  OBVIOUS
<1> QED BY <1>3, <1>5, <1>6, <1>7

(* A row of the sensor that is in the file begins in it.                   *)
LEMMA RowBegins ==
  ASSUME TypeOK, OrderInv, NEW r \in SensorRows
  PROVE  \E i \in 1..Len(file) : OfSensor(file[i]) /\ file[i].row = r /\ file[i].piece = 1
<1> DEFINE Has(k) == \E i \in 1..Len(file) : OfSensor(file[i]) /\ file[i].row = r /\ file[i].piece = k
<1>1. PICK k \in 1..5 : Has(k)
  <2>1. PICK i \in 1..Len(file) : OfSensor(file[i]) /\ file[i].row = r
    BY DEF SensorRows, TypeOK
  <2>2. file[i].piece \in 1..5
    BY PieceShape
  <2> QED BY <2>1, <2>2
<1>2. ASSUME NEW m \in 2..5, Has(m) PROVE Has(m - 1)
  <2>1. PICK i \in 1..Len(file) : OfSensor(file[i]) /\ file[i].row = r /\ file[i].piece = m
    BY <1>2
  <2>2. m # 1
    OBVIOUS
  <2>3. PICK j \in 1..(i - 1) : OfSensor(file[j]) /\ Continues(file[j], file[i])
    BY <2>1, <2>2 DEF OrderInv, SensorInOrder, Preceded
  <2>4. j \in 1..Len(file)
    BY DEF TypeOK
  <2>5. PICK p \in 1..5 : p = file[j].piece
    BY <2>4, PieceShape
  <2>6. m = p + 1 /\ file[j].row = r
    BY <2>1, <2>3, <2>5 DEF Continues
  <2>7. p = m - 1
    BY <2>6
  <2> QED BY <2>3, <2>4, <2>5, <2>6, <2>7
<1> HIDE DEF Has
<1>3. (Has(5) => Has(4)) /\ (Has(4) => Has(3)) /\ (Has(3) => Has(2)) /\ (Has(2) => Has(1))
  <2>1. 5 \in 2..5 /\ 4 \in 2..5 /\ 3 \in 2..5 /\ 2 \in 2..5 /\ 5 - 1 = 4 /\ 4 - 1 = 3 /\ 3 - 1 = 2 /\ 2 - 1 = 1
    OBVIOUS
  <2> QED BY <1>2, <2>1
<1>4. k = 1 \/ k = 2 \/ k = 3 \/ k = 4 \/ k = 5
  OBVIOUS
<1>5. Has(1)
  BY <1>1, <1>3, <1>4
<1> QED BY <1>5 DEF Has

(* A row of the sensor that was not cut off is read, if any row is.        *)
LEMMA UnbrokenIsRead ==
  ASSUME TypeOK, OrderInv, ~throws
  PROVE  SensorRows \ BrokenRows \subseteq network
<1> SUFFICES ASSUME NEW r \in SensorRows \ BrokenRows PROVE r \in network
  OBVIOUS
<1>1. PICK i \in 1..Len(file) : OfSensor(file[i]) /\ file[i].row = r /\ file[i].piece = 1
  BY RowBegins
<1>2. ReadsRow(i)
  BY <1>1, UnbrokenIsWhole
<1>3. i \in LineStarts
  BY <1>1, FirstPieceBeginsALine
<1> QED BY <1>1, <1>2, <1>3 DEF network, events

(* A line that begins inside a row is the rest of one that was cut off.    *)
LEMMA MiddleBeginsAfterABreak ==
  ASSUME TypeOK, OrderInv, NEW i \in LineStarts, file[i].piece # 1
  PROVE  \E j \in Breaks : file[i].piece = file[j].piece + 1
<1>1. PICK N \in Nat : N = Len(file) /\ DOMAIN file = 1..N
  BY DEF TypeOK
<1>2. i \in 1..N /\ (i = 1 \/ Pieces[file[i - 1].piece] = "newline")
  BY <1>1 DEF LineStarts
<1>3. i > 1 => i - 1 \in 1..N /\ file[i - 1].piece = 5
  <2>1. i > 1 => i - 1 \in 1..N
    BY <1>2
  <2>2. ASSUME i > 1 PROVE file[i - 1].piece = 5
    <3>1. PICK j \in 1..N : j = i - 1
      BY <2>1, <2>2
    <3>2. file[j].piece \in 1..5
      BY <1>1, PieceShape
    <3>3. Pieces[file[j].piece] = "newline"
      <4>1. i # 1
        BY <1>2, <2>2
      <4> QED BY <1>2, <3>1, <4>1
    <3> QED BY <3>1, <3>2, <3>3, PieceNames
  <2> QED BY <2>1, <2>2
<1>4. file[i].piece \in 1..5
  BY <1>1, <1>2, PieceShape
<1>5. OfSensor(file[i])
  <2>1. ASSUME ~OfSensor(file[i]) PROVE FALSE
    <3>1. i > 1 /\ Continues(file[i - 1], file[i])
      BY <1>1, <1>2, <2>1 DEF OrderInv, FlowsInOnePlace
    <3>2. file[i].piece = 5 + 1
      BY <1>3, <3>1 DEF Continues
    <3> QED BY <1>4, <3>2
  <2> QED BY <2>1
<1>6. PICK j \in 1..(i - 1) : /\ OfSensor(file[j]) /\ Continues(file[j], file[i])
                              /\ \A k \in (j + 1)..(i - 1) : ~OfSensor(file[k])
  BY <1>1, <1>2, <1>5 DEF OrderInv, SensorInOrder, Preceded
<1>7. j \in 1..N /\ j < N
  BY <1>2
<1>8. file[j].piece \in 1..5 /\ file[j].piece # 5
  <2>1. PICK p \in 1..5 : p = file[j].piece
    BY <1>1, <1>7, PieceShape
  <2>2. PICK q \in 1..5 : q = file[i].piece
    BY <1>4
  <2>3. q = p + 1
    BY <1>6, <2>1, <2>2 DEF Continues
  <2>4. p # 5
    BY <2>3
  <2> QED BY <2>1, <2>4
<1>9. file[j + 1].row # file[j].row
  <2>1. ASSUME file[j + 1].row = file[j].row PROVE FALSE
    <3>1. OfSensor(file[j + 1])
      BY <1>6, <2>1 DEF OfSensor
    <3>2. j + 1 \notin (j + 1)..(i - 1)
      BY <1>6, <3>1
    <3>3. j = i - 1 /\ i > 1
      BY <1>2, <3>2
    <3> QED BY <1>3, <1>8, <3>3
  <2> QED BY <2>1
<1>10. j \in Breaks
  <2>1. Pieces[file[j].piece] # "newline"
    BY <1>8, PieceNames
  <2> QED BY <1>1, <1>6, <1>7, <1>9, <2>1 DEF Breaks
<1> QED BY <1>6, <1>10 DEF Continues

(* A null at the head of a line is what a break left there.                *)
LEMMA ThrowsAtABreak ==
  ASSUME TypeOK, OrderInv, throws
  PROVE  \E i \in Breaks : Pieces[file[i].piece + 1] = "null"
<1>1. PICK i \in LineStarts : Pieces[file[i].piece] = "null"
  BY DEF throws
<1>2. i \in 1..Len(file)
  BY DEF LineStarts, TypeOK
<1>3. file[i].piece # 1
  BY <1>1 DEF Pieces
<1>4. PICK j \in Breaks : file[i].piece = file[j].piece + 1
  BY <1>3, MiddleBeginsAfterABreak
<1> QED BY <1>1, <1>4

(* Where no row was cut off, every line is one row.                        *)
LEMMA LinesAreRows ==
  ASSUME TypeOK, OrderInv, Breaks = {}, NEW i \in LineStarts
  PROVE  file[i].piece = 1 /\ ReadsRow(i)
<1>1. i \in 1..Len(file)
  BY DEF LineStarts, TypeOK
<1>2. file[i].piece = 1
  BY MiddleBeginsAfterABreak
<1>3. file[i].row \notin BrokenRows
  BY DEF BrokenRows
<1> QED BY <1>1, <1>2, <1>3, FlowIsWhole, UnbrokenIsWhole

(* A flow that is read was logged.                                         *)
LEMMA ReadIsLogged ==
  ASSUME TypeOK, FlowsInv
  PROVE  FlowsRead \subseteq logged
<1> SUFFICES ASSUME NEW r \in network, r.source = "honeynet" PROVE r.conn \in logged
  BY DEF FlowsRead
<1>1. PICK i \in DOMAIN file : file[i].row = r
  BY DEF network, events, LineStarts
<1>2. i \in 1..Len(file) /\ ~OfSensor(file[i])
  BY <1>1 DEF OfSensor, TypeOK
<1> QED BY <1>1, <1>2 DEF FlowsInv

(* A run whose rows fit the buffer is read whole.                          *)
LEMMA OneWriteIsReadWhole ==
  ASSUME TypeOK, OrderInv, FlowsInv, OneWriteInv,
         Total <= capacity, sensor \in {"draining", "stopped"}
  PROVE  ~throws /\ parseErrors = {} /\ FlowsRead = logged
<1>1. Breaks = {}
  <2> SUFFICES ASSUME NEW i \in Breaks PROVE FALSE
    OBVIOUS
  <2>1. /\ i \in 1..Len(file) /\ OfSensor(file[i]) /\ Pieces[file[i].piece] # "newline"
        /\ i = Len(file) \/ file[i + 1].row # file[i].row
    BY DEF Breaks, TypeOK
  <2>2. GoesOn(file, i)
    BY <2>1 DEF OneWriteInv
  <2>3. file[i].piece # 5
    BY <2>1, PieceNames, PieceShape
  <2>4. i < Len(file) => i # Len(file)
    BY <2>1 DEF TypeOK
  <2> QED BY <2>1, <2>2, <2>3, <2>4 DEF GoesOn
<1>2. \A i \in LineStarts : file[i].piece = 1 /\ ReadsRow(i)
  BY <1>1, LinesAreRows
<1>3. Pieces[1] # "null"
  BY DEF Pieces
<1>4. ~throws /\ parseErrors = {}
  BY <1>2, <1>3 DEF throws, parseErrors
<1>5. logged \subseteq FlowsRead
  BY <1>1, <1>4, LostAfterABreak
<1> QED BY <1>4, <1>5, ReadIsLogged

(* What the shared file costs: where the reader returns, a flow is lost    *)
(* only where a write of the sensor ended inside a row, one flow to each   *)
(* such place, and no row of the sensor but those it broke there; where it *)
(* throws every row is lost, and one of those places is before a null; a   *)
(* run whose rows fit the buffer is read whole.  Proved for every number   *)
(* of connections, every capacity of the buffer and any interleaving of    *)
(* the two writers.                                                        *)
THEOREM DamageIsOnePerBreak == Spec => []DamageIsOneFlowPerBreak
<1>1. Init => OneWriteInv
  BY DEF Init, OneWriteInv, OfSensor
<1>2. TypeOK /\ OrderInv /\ OneWriteInv /\ [Next]_vars => OneWriteInv'
  BY OneWriteStep
<1>3. TypeOK /\ OrderInv /\ FlowsInv /\ OneWriteInv => DamageIsOneFlowPerBreak
  <2> SUFFICES ASSUME TypeOK, OrderInv, FlowsInv, OneWriteInv PROVE DamageIsOneFlowPerBreak
    OBVIOUS
  <2>1. ~throws => /\ Cardinality(logged \ FlowsRead) <= Cardinality(Breaks)
                   /\ SensorRows \ BrokenRows \subseteq network
    BY OneFlowPerBreak, UnbrokenIsRead
  <2>2. throws => \E i \in Breaks : Pieces[file[i].piece + 1] = "null"
    BY ThrowsAtABreak
  <2>3. Total <= capacity /\ sensor \in {"draining", "stopped"} =>
            ~throws /\ parseErrors = {} /\ FlowsRead = logged
    BY OneWriteIsReadWhole
  <2> QED BY <2>1, <2>2, <2>3 DEF DamageIsOneFlowPerBreak, Total
<1> QED BY <1>1, <1>2, <1>3, Ordered, PTL DEF Spec
=============================================================================
