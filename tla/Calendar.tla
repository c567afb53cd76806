------------------------------ MODULE Calendar ------------------------------
(* lib/time/time.c: gmtime and timegm, from a time_t to a date and back.  A   *)
(* day has CalUnits units in place of 86400 seconds, which are divided alike. *)
(* A definition Mut... is a wrong form of the definition below it.            *)
EXTENDS Integers, FiniteSets, Sequences

CONSTANTS CalUnits,    \* units of a day
          CalTimes     \* the times, from 1970 on

VARIABLES calT, calTm, calBack    \* a time, its date, and the time of that date
calVars == <<calT, calTm, calBack>>

IsLeap(y)    == y % 4 = 0 /\ (y % 100 # 0 \/ y % 400 # 0)
MonthLen     == <<31, 28, 31, 30, 31, 30, 31, 31, 30, 31, 30, 31>>
MonthDays(y, m)  == MonthLen[m + 1] + (IF IsLeap(y) /\ m = 1 THEN 1 ELSE 0)
YearUnits(y)     == (365 + (IF IsLeap(y) THEN 1 ELSE 0)) * CalUnits
MonthUnits(y, m) == MonthDays(y, m) * CalUnits

\* The loops of gmtime: what is left of t, and the year or the month.
RECURSIVE YearOf(_, _)
YearOf(t, y) == IF t >= YearUnits(y) THEN YearOf(t - YearUnits(y), y + 1) ELSE <<t, y>>
RECURSIVE MonthOf(_, _, _)
MonthOf(t, y, m) ==
  IF t >= MonthUnits(y, m) THEN MonthOf(t - MonthUnits(y, m), y, m + 1) ELSE <<t, m>>
Gmtime(t) ==
  LET y == YearOf(t, 70)
      m == MonthOf(y[1], y[2], 0)
  IN  [wday |-> (t \div CalUnits + 4) % 7, clock |-> t % CalUnits,
       year |-> y[2], yday |-> y[1] \div CalUnits,
       mon  |-> m[2], mday |-> m[1] \div CalUnits + 1]

\* The loops of timegm
RECURSIVE MonthsBefore(_, _)
MonthsBefore(y, m) == IF m = 0 THEN 0 ELSE MonthUnits(y, m - 1) + MonthsBefore(y, m - 1)
RECURSIVE YearsBefore(_)
YearsBefore(y) == IF y <= 70 THEN 0 ELSE YearUnits(y - 1) + YearsBefore(y - 1)
Timegm(tm) ==
  (tm.mday - 1) * CalUnits + tm.clock + MonthsBefore(tm.year, tm.mon) + YearsBefore(tm.year)

NoDate == [wday |-> 0, clock |-> 0, year |-> 0, yday |-> 0, mon |-> 0, mday |-> 0]
\* The time zone is that of time 0: localtime adds it and mktime takes it off.
Localtime == calTm = NoDate /\ calTm' = Gmtime(calT) /\ UNCHANGED <<calT, calBack>>
Mktime    == /\ calTm # NoDate /\ calBack = -1
             /\ calBack' = Timegm(calTm) /\ UNCHANGED <<calT, calTm>>
CalInit == calT \in CalTimes /\ calTm = NoDate /\ calBack = -1
CalNext == Localtime \/ Mktime

-----------------------------------------------------------------------------
(* Properties.                                                               *)

\* Days from the first of January 1970 to a date, by the Gregorian rule.
TrueLeap(y) == (y % 4 = 0 /\ y % 100 # 0) \/ y % 400 = 0
TrueLen(y, m) == MonthLen[m] + (IF m = 2 /\ TrueLeap(y) THEN 1 ELSE 0)
RECURSIVE TrueDays(_, _)
TrueDays(y, m) == IF m = 1 THEN 0 ELSE TrueLen(y, m - 1) + TrueDays(y, m - 1)
TrueYear(y) == 365 * (y - 1970) + Cardinality({x \in 1970 .. y - 1 : TrueLeap(x)})

\* gmtime gives the date of the Gregorian calendar, and the day of the week and
\* of the year, for every day a time_t has, though the leap year rule of time.c
\* counts centuries from 1900; and timegm is its inverse.
CalendarExact ==
  LET y == calTm.year + 1900
      m == calTm.mon + 1
      d == calT \div CalUnits
  IN  /\ calTm # NoDate => /\ m \in 1 .. 12 /\ calTm.mday \in 1 .. TrueLen(y, m)
                           /\ calTm.yday = TrueDays(y, m) + calTm.mday - 1
                           /\ TrueYear(y) + calTm.yday = d
                           /\ (calTm.wday - 6 - (d - 10957)) % 7 = 0  \* Saturday, 1.1.2000
      /\ calBack # -1 => calBack = calT
=============================================================================
