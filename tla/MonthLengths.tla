----------------------------- MODULE MonthLengths -----------------------------
(***************************************************************************)
(* Leap years and the lengths of months: DAYS, is_leap and                 *)
(* last_day_of_month of src/expr.rs.                                       *)
(***************************************************************************)
EXTENDS Integers

DAYS == <<31, 28, 31, 30, 31, 30, 31, 31, 30, 31, 30, 31>>

is_leap(year) == year % 400 = 0 \/ (year % 4 = 0 /\ year % 100 # 0)

last_day_of_month(year, month) ==
    DAYS[month] + (IF month = 2 /\ is_leap(year) THEN 1 ELSE 0)

=============================================================================
