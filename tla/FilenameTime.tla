-------------------------- MODULE FilenameTime ---------------------------
(* Names and rollover times of log files: FilenameTime::reset              *)
(* (utils/log_filename_time.cpp), and the constructor of the same name in  *)
(* utils/InterfaceHelper.cpp with the same body.                           *)
(*                                                                         *)
(* Times are seconds since the epoch in UTC.  The offset of standard time  *)
(* from UTC cancels (tzoffset) and is left out.  Daylight saving does not: *)
(* mktime takes tm_now, a time in UTC, for a local one, and when daylight  *)
(* saving would be in force then it moves tm_now by the shift, before the  *)
(* name is formatted from it.  When the shift ends names come round again. *)
EXTENDS Integers

CONSTANTS
    Minute,         \* seconds in a minute (60 in the code)
    Hour,           \* minutes in an hour (60 in the code)
    Daylight,       \* the times at which mktime finds daylight saving
    DaylightShift   \* the seconds it moves tm_now by then

ASSUME CalendarAssumption == Minute \in Nat \ {0} /\ Hour \in Nat \ {0}
ASSUME DaylightAssumption == DaylightShift \in Nat

rollover_min_default == 5

(* -1 and 0 stand for the default.                                         *)
ChosenRollover(min) == IF min \in {-1, 0} THEN rollover_min_default ELSE min

(* tm_now after mktime(&tm_now), as the time its fields spell, and its     *)
(* minute.                                                                 *)
tm_now(t) == IF t \in Daylight THEN t + DaylightShift ELSE t
tm_min(t) == (tm_now(t) \div Minute) % Hour
StartOfMinute(t) == (t \div Minute) * Minute

(* A file's name spells tm_now to the second.                              *)
fname_str(t) == tm_now(t)

(* Has a later second up to now the same name?                             *)
CameAgain(t, now) == \E u \in (t + 1)..now : fname_str(u) = fname_str(t)

(* mktime of tm_now with its minutes rounded down and its seconds zeroed,  *)
(* plus one window; tm_isdst, copied with it, takes the shift back.        *)
rollover_time(t, min) ==
    LET r == ChosenRollover(min)
    IN  StartOfMinute(tm_now(t)) - (tm_min(t) % r) * Minute + r * Minute
            - (tm_now(t) - t)
==========================================================================
