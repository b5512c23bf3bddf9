---------------------------- MODULE ExpiryDates -----------------------------
(***************************************************************************)
(* parse_expiry of model.cpp: from "27JUN25" to an instant.                *)
(*                                                                         *)
(* The text is what parse_expiry cuts it into: its length, the number the  *)
(* characters before the last five make (or {}), the three letters after   *)
(* them, and the number the last two make (or {}).  Instants are counted in*)
(* hours since the epoch; the code counts nanoseconds of whole hours.      *)
(***************************************************************************)
EXTENDS Integers, Sequences

Months == <<"JAN", "FEB", "MAR", "APR", "MAY", "JUN",
            "JUL", "AUG", "SEP", "OCT", "NOV", "DEC">>

kDeribitExpiryHourUtc == 8
-----------------------------------------------------------------------------
(* std::chrono: the proleptic Gregorian calendar. *)

IsLeap(y) == y % 4 = 0 /\ (y % 100 # 0 \/ y % 400 = 0)

LastDay(y, m) ==
    CASE m = 2 -> IF IsLeap(y) THEN 29 ELSE 28
      [] m \in {4, 6, 9, 11} -> 30
      [] OTHER -> 31

(* date.ok() *)
IsDate(y, m, d) == d \in 1..LastDay(y, m)

DaysBeforeYear(y) ==
    365 * (y - 1) + (y - 1) \div 4 - (y - 1) \div 100 + (y - 1) \div 400

DaysBeforeMonth(y, m) ==
    (367 * m - 362) \div 12
        - (IF m <= 2 THEN 0 ELSE IF IsLeap(y) THEN 1 ELSE 2)

(* sys_days{date} *)
SysDays(y, m, d) ==
    DaysBeforeYear(y) - DaysBeforeYear(1970) + DaysBeforeMonth(y, m) + d - 1
-----------------------------------------------------------------------------
(* Mutant of MonthFromName: months counted from 0. *)
MonthFromZero(name) == {i - 1 : i \in {j \in DOMAIN Months : Months[j] = name}}

MonthFromName(name) == {i \in DOMAIN Months : Months[i] = name}

(* Two digits of year are of this century. *)
ParseExpiry(text) ==
    IF text.size \in 6..7
    THEN {24 * SysDays(2000 + d[3], d[2], d[1]) + kDeribitExpiryHourUtc :
             d \in {x \in text.day \X MonthFromName(text.month) \X text.year :
                        IsDate(2000 + x[3], x[2], x[1])}}
    ELSE {}

=============================================================================
