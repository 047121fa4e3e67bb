------------------------------ MODULE Matching ------------------------------
(***************************************************************************)
(* Which preferences a slot answers to (matching_service.py, utils/time.py,*)
(* and the matrix of customer_service.py).  A datetime is an hour of the   *)
(* week, counted from Monday 00:00 UTC, with the offset it is written in:  *)
(* minutes and the week itself decide nothing.  Offsets are whole hours.   *)
(***************************************************************************)
EXTENDS Integers

CONSTANT None       \* no value: any service, no customer

WeekHours == 168
DateTime == [utc : 0 .. WeekHours - 1, offset : -12 .. 14]

LocalHour(dt) == (dt.utc + dt.offset + WeekHours) % WeekHours
Weekday(dt) == LocalHour(dt) \div 24

\* slots.start_time is a timestamptz: it comes back in UTC.
Stored(dt) == [dt EXCEPT !.offset = 0]

\* Slip: Python's weekday taken for the day.
MondayFirst(dt) == Weekday(dt)

\* 0 is Sunday.
CalculateDayOfWeek(dt) == (Weekday(dt) + 1) % 7

\* The night falls to MORNING before six and to EVENING from eleven.
GetTimeSlot(dt) ==
    LET hour == LocalHour(dt) % 24
    IN IF hour < 12 THEN "MORNING" ELSE IF hour < 16 THEN "AFTERNOON" ELSE "EVENING"

TimeSlots == {"MORNING", "AFTERNOON", "EVENING"}

\* CustomerCreateRequest's defaults; an empty list of services asks for any.
OrElse(list, default) == IF list = {} THEN default ELSE list

Matrix(days, times, services) == days \X times \X OrElse(services, {None})

\* find_matching_customers_by_criteria, on one row: an ad-hoc slot (no service)
\* matches only rows that take any service.
Matches(pref, dt, service) ==
    /\ pref[1] = CalculateDayOfWeek(dt)
    /\ pref[2] = GetTimeSlot(dt)
    /\ pref[3] \in {None, service}
=============================================================================
