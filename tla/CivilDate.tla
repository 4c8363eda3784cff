------------------------------- MODULE CivilDate -------------------------------
(***************************************************************************)
(* How the sensor renders the time of a row: sensor.rs takes the seconds   *)
(* since 1970 apart by hand, without a date library, with Hinnant's        *)
(* algorithm: an era is 400 years of 146097 days, and years begin on 1     *)
(* March so that the leap day comes last.                                  *)
(*                                                                         *)
(* A timestamp is the record of the fields its text shows.  The seconds    *)
(* are a u64, so the days are natural numbers and the branch of the code   *)
(* for days before the first era is never taken.                           *)
(***************************************************************************)
EXTENDS Integers

-----------------------------------------------------------------------------
(* civil_from_days. *)

\* The year of the era the doe-th day of the era is in.
year_of_era(doe) == (doe - doe \div 1460 + doe \div 36524 - doe \div 146096) \div 365

year_start_Julian(yoe) == 365 * yoe + yoe \div 4  \* mutant: every fourth year is leap
\* The day of the era the year yoe begins with.
year_start(yoe) == 365 * yoe + yoe \div 4 - yoe \div 100

\* The month, counted from March, of the doy-th day of a year, and the day in it.
month_of_year(doy) == (5 * doy + 2) \div 153
day_of_month(doy) == doy - (153 * month_of_year(doy) + 2) \div 5 + 1

\* The date of the doy-th day of the year y that begins in March.
date_in_year(y, doy) ==
    LET mp == month_of_year(doy)
        m == IF mp < 10 THEN mp + 3 ELSE mp - 9
    IN [year |-> IF m <= 2 THEN y + 1 ELSE y, month |-> m, day |-> day_of_month(doy)]

date_in_era(era, doe) ==
    date_in_year(year_of_era(doe) + era * 400, doe - year_start(year_of_era(doe)))

civil_from_days(days) ==
    LET z == days + 719468
    IN date_in_era(z \div 146097, z % 146097)

\* The timestamp written for a moment given in seconds since 1970.
rfc3339_from_unix(seconds) ==
    LET second_of_day == seconds % 86400
    IN [date |-> civil_from_days(seconds \div 86400), hour |-> second_of_day \div 3600,
        minute |-> (second_of_day % 3600) \div 60, second |-> second_of_day % 60]

-----------------------------------------------------------------------------
(* The calendar itself, for reference.  *)

IsLeap(year) == year % 4 = 0 /\ (year % 100 # 0 \/ year % 400 = 0)
MonthLength(year, month) ==
    IF month = 2 THEN IF IsLeap(year) THEN 29 ELSE 28
                 ELSE IF month \in {4, 6, 9, 11} THEN 30 ELSE 31

NextDate(d) ==
    IF d.day < MonthLength(d.year, d.month)
    THEN [year |-> d.year, month |-> d.month, day |-> d.day + 1]
    ELSE IF d.month < 12
    THEN [year |-> d.year, month |-> d.month + 1, day |-> 1]
    ELSE [year |-> d.year + 1, month |-> 1, day |-> 1]

\* The next second, there being no leap seconds in this time.
NextSecond(t) ==
    IF t.second < 59
    THEN [date |-> t.date, hour |-> t.hour, minute |-> t.minute, second |-> t.second + 1]
    ELSE IF t.minute < 59
    THEN [date |-> t.date, hour |-> t.hour, minute |-> t.minute + 1, second |-> 0]
    ELSE IF t.hour < 23
    THEN [date |-> t.date, hour |-> t.hour + 1, minute |-> 0, second |-> 0]
    ELSE [date |-> NextDate(t.date), hour |-> 0, minute |-> 0, second |-> 0]
=============================================================================
