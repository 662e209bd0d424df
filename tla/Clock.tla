------------------------------- MODULE Clock -------------------------------
(***************************************************************************)
(* The station's calendar (src/app/utils/misc.c): a timestamp of the time  *)
(* server becomes a date, and the timers of the two power modes move the   *)
(* time of day on by the seconds they slept (src/app/user/user_main.c).    *)
(*                                                                         *)
(* Real time, now, advances by what the timers count.  Not modelled are    *)
(* the drift of the oscillator, the seconds a refresh or a request takes,  *)
(* and the part of a minute that is lost when a press or a client stops    *)
(* the clock between two ticks.  The code moves the time of day only; the  *)
(* day changes with the next timestamp.                                    *)
(***************************************************************************)
EXTENDS Integers, FiniteSetsExt

CONSTANTS
  Starts,         \* seconds since 1970 at which the station may be started
  Horizon,        \* how long it is watched, seconds
  TimeUpdates,    \* timeUpdate of the configuration, minutes
  WeatherUpdate,  \* weatherUpdate of the configuration, hours
  Night           \* the hours of nightSpan, empty when it is not valid

ASSUME ClockAssumption ==
  /\ Starts \subseteq Nat
  /\ Horizon \in Nat
  /\ TimeUpdates \subseteq 1..30     \* CONFIG_UPDATE_MIN..CONFIG_TIME_UPDATE_MAX
  /\ WeatherUpdate \in 1..24
  /\ Night \subseteq 0..23

\* No answer carries a timestamp of 00:00:00 UTC exactly, at which praseTimestamp
\* shows midnight for 8 o'clock: everything the clock adds is a multiple of 15 s.
ASSUME OffBeatAssumption == \A s \in Starts : s % 15 # 0

VARIABLES
  start, now,               \* real time
  date,                     \* DATE_POS, zero until a timestamp was parsed
  calendar,                 \* the same part of the Context's, which the views draw
  timeTick, weatherTick,    \* UpdateInfo
  timeUpdate,               \* as loaded from the configuration
  seconds,                  \* WAKEUP_INTERVAL_POS, 0 before the first light sleep
  mode,                     \* "awake", "light", or waiting for the server in either
  updated                   \* history: when a tick or an answer last drew the page

clockVars == <<start, now, date, calendar, timeTick, weatherTick, timeUpdate, seconds,
               mode, updated>>

timeCompare == timeUpdate * 60
weatherCompare == WeatherUpdate * 3600

NoDate == [year |-> 0, month |-> 0, day |-> 0, hour |-> 0, minute |-> 0, second |-> 0]

\* The date is zero until the first answer.
IsSet == date.year > 0

-----------------------------------------------------------------------------
(***************************************************************************)
(* From a timestamp to a date.                                             *)
(***************************************************************************)
TimeZone == 8

dayOfMonth == <<31, 28, 31, 30, 31, 30, 31, 31, 30, 31, 30, 31>>

\* The days before month m, when February has 28 + leap days.
DaysBefore(m, leap) ==
  MapThenSumSet(LAMBDA k : dayOfMonth[k], 1..m-1) + (IF m > 2 THEN leap ELSE 0)

\* The year is the one of four the remaining days fall in, the fourth of them has
\* 366; the month is the first whose days are not exceeded.
PraseDate(ts) ==
  LET days == (ts + 3600 * TimeZone) \div 86400 + 1
      remain == days % 1461
      year == IF remain < 1095 THEN remain \div 365 ELSE 3
      leap == IF year = 3 THEN 1 ELSE 0
      day == remain - 365 * year
      month == Min({m \in 1..12 : day <= DaysBefore(m + 1, leap)})
  IN  [year |-> 1970 + 4 * (days \div 1461) + year,
       month |-> month,
       day |-> day - DaysBefore(month, leap)]

\* The parts of a count of seconds.
OfDay(t) == t % 86400
HourOf(t) == t \div 3600
MinuteOf(t) == (t \div 60) % 60
SecondOf(t) == t % 60

\* The hour is shifted to the time zone, except at midnight.
PraseHour(ts) ==
  LET hour == HourOf(OfDay(ts)) + TimeZone
  IN  IF OfDay(ts) = 0 THEN 0 ELSE IF hour >= 24 THEN hour - 24 ELSE hour

PraseTimestamp(ts) ==
  LET ymd == PraseDate(ts)
  IN  [year |-> ymd.year, month |-> ymd.month, day |-> ymd.day,
       hour |-> PraseHour(ts), minute |-> MinuteOf(ts), second |-> SecondOf(ts)]

\* Seeded bug: the minute after 59 is 60.
AdvanceMutant(d, minutes, secs) ==
  LET second == d.second + secs
      minute == d.minute + minutes + (IF second > 59 THEN 1 ELSE 0)
  IN  [d EXCEPT !.second = second % 60,
                !.minute = IF minute <= 60 THEN minute ELSE minute - 60,
                !.hour = IF minute <= 60 THEN @ ELSE (@ + 1) % 24]

\* The carries of updateClockByTick: less than an hour, so each at most once.
Advance(d, minutes, secs) ==
  LET second == d.second + secs
      minute == d.minute + minutes + (IF second > 59 THEN 1 ELSE 0)
  IN  [year |-> d.year, month |-> d.month, day |-> d.day,
       hour |-> IF minute <= 59 THEN d.hour ELSE IF d.hour < 23 THEN d.hour + 1 ELSE 0,
       minute |-> IF minute <= 59 THEN minute ELSE minute - 60,
       second |-> IF second > 59 THEN second - 60 ELSE second]

UpdateClockByTick(d, unit) == Advance(d, unit \div 60, SecondOf(unit))

-----------------------------------------------------------------------------
(***************************************************************************)
(* The interval of light sleep (enterLightSleep).                          *)
(***************************************************************************)

\* Seeded bug: ten minutes share the interval of twenty.
WakeupIntervalMutant(m) ==
  CASE m \in {2} -> 120 [] m = 3 -> 180 [] m \in {4, 10, 20} -> 240
    [] m \in {5, 15} -> 150 [] m = 30 -> 225 [] OTHER -> 60

\* WakeupInterval by way of WakeupLUT; what the menu does not offer wakes every
\* minute.
WakeupInterval(m) ==
  CASE m = 2 -> 120
    [] m = 3 -> 180
    [] m \in {4, 20} -> 240
    [] m \in {5, 10, 15} -> 150
    [] m = 30 -> 225
    [] OTHER -> 60

-----------------------------------------------------------------------------
(***************************************************************************)
(* The station's day.                                                      *)
(***************************************************************************)
ClockInit ==
  /\ start \in Starts
  /\ now = start
  /\ date = NoDate
  /\ calendar = NoDate
  /\ timeTick = 0
  /\ weatherTick = 0
  /\ timeUpdate \in TimeUpdates
  /\ seconds = 0
  /\ mode = "request"
  /\ updated = start

\* What an answer of the time server does with or without a time: the page is drawn;
\* the first, or one to a request made awake, arms the clock and loads the counters
\* (requestFinishedHandler, loadConfigIntoRTCMenory).
Answered ==
  /\ mode \in {"request", "light_request"}
  /\ mode' = IF mode = "request" THEN "awake" ELSE "light"
  /\ IF mode = "request" THEN timeTick' = 0 /\ weatherTick' = 0
                         ELSE UNCHANGED <<timeTick, weatherTick>>
  /\ updated' = now
  /\ UNCHANGED <<start, now, timeUpdate, seconds>>

\* calendarRecvCallback with a timestamp.
TimeAnswer ==
  /\ Answered
  /\ date' = PraseTimestamp(now)
  /\ calendar' = date'

\* The same without one: the calendar was cleared, DATE_POS keeps its value.
NoTimeAnswer ==
  /\ Answered
  /\ calendar' = NoDate
  /\ UNCHANGED date

\* A timer of unit seconds has fired: the clock moves on, and the calendar with it.
Elapse(unit) ==
  /\ now + unit <= start + Horizon
  /\ now' = now + unit
  /\ date' = UpdateClockByTick(date, unit)
  /\ calendar' = date'
  /\ UNCHANGED <<start, timeUpdate, seconds>>

\* The counters are compared with the configuration; a weather update asks for the
\* time again.
Compare(unit, request) ==
  IF weatherTick + unit >= weatherCompare
  THEN /\ weatherTick' = 0
       /\ timeTick' = 0
       /\ mode' = request
       /\ UNCHANGED updated
  ELSE /\ weatherTick' = weatherTick + unit
       /\ UNCHANGED mode
       /\ IF timeTick + unit >= timeCompare
          THEN timeTick' = 0 /\ updated' = now'
          ELSE timeTick' = timeTick + unit /\ UNCHANGED updated

\* clockTimerCallback.
MinuteTick == mode = "awake" /\ Elapse(60) /\ Compare(60, "request")

\* lightSleepWakeupCallback in the hours that are not updated: the counters run on.
NightTick ==
  /\ mode = "light"
  /\ Elapse(seconds)
  /\ date'.hour \in Night
  /\ timeTick' = timeTick + seconds
  /\ weatherTick' = weatherTick + seconds
  /\ UNCHANGED <<mode, updated>>

\* lightSleepWakeupCallback in the others.
WakeTick ==
  /\ mode = "light"
  /\ Elapse(seconds)
  /\ date'.hour \notin Night
  /\ Compare(seconds, "light_request")

\* enterLightSleep, after a double click, a request or auto sleep: the interval is
\* chosen the first time.  The page a double click draws leaves the counters alone.
Sleep ==
  /\ mode = "awake"
  /\ mode' = "light"
  /\ seconds' = IF seconds = 0 THEN WakeupInterval(timeUpdate) ELSE seconds
  /\ UNCHANGED <<start, now, date, calendar, timeTick, weatherTick, timeUpdate, updated>>

ClockNext == TimeAnswer \/ NoTimeAnswer \/ MinuteTick \/ NightTick \/ WakeTick \/ Sleep

ClockSpec == ClockInit /\ [][ClockNext]_clockVars

-----------------------------------------------------------------------------
(***************************************************************************)
(* Properties.                                                             *)
(***************************************************************************)

\* Types; outside the night the counters stay below what they are compared with,
\* and the time of day is one that can be shown.
ClockTypeOK ==
  /\ start \in Starts
  /\ now \in start..start + Horizon
  /\ date.hour \in 0..23 /\ date.minute \in 0..59 /\ date.second \in 0..59
  /\ calendar \in {date, NoDate}
  /\ updated \in start..now
  /\ timeUpdate \in TimeUpdates
  /\ timeTick \in Nat /\ weatherTick \in Nat
  /\ date.hour \notin Night => timeTick < timeCompare /\ weatherTick < weatherCompare
  /\ seconds \in {0, 60, 120, 150, 180, 225, 240}
  /\ mode \in {"awake", "light", "request", "light_request"}

LocalTime(t) == t + 3600 * TimeZone

TimeOfDay(d) == d.hour * 3600 + d.minute * 60 + d.second

\* Whatever mix of minute ticks, light sleep and answers with or without a time, the
\* station knows the real time of day, and it is what the views draw; except that an
\* answer without a time has it draw 00:00 until the next tick (time_request.c:56).
KeepsTime ==
  IsSet =>
    /\ TimeOfDay(date) = OfDay(LocalTime(now))
    /\ calendar = date \/ (calendar = NoDate /\ now = updated)

\* By day the page is updated at the first tick at which it is as old as the user
\* chose, awake or from light sleep, and exactly then when light sleep began a whole
\* number of its intervals after the last update.  It is old at once after a night.
WakesWhenDue ==
  [][now' # now /\ mode' = mode /\ date.hour \notin Night /\ date'.hour \notin Night =>
       LET unit == now' - now
           age == now' - updated
       IN  IF updated' = updated
           THEN age < timeCompare
           ELSE /\ updated' = now'
                /\ timeCompare <= age /\ age < timeCompare + unit
                /\ (now - updated) % unit = 0 => age = timeCompare]_clockVars

LeapYear(y) == y % 4 = 0 /\ (y % 100 # 0 \/ y % 400 = 0)

\* Days from 1 January 1970 to a date of the Gregorian calendar.
DayNumber(y, m, d) ==
  365 * (y - 1970) + Cardinality({k \in 1970..y-1 : LeapYear(k)})
    + DaysBefore(m, IF LeapYear(y) THEN 1 ELSE 0) + d - 1

\* misc.c:121: a timestamp is parsed into year, month, day, hour, minute, second.
DateIsRight ==
  [][TimeAnswer =>
       /\ date'.month \in 1..12
       /\ date'.day >= 1
       /\ DayNumber(date'.year, date'.month, date'.day) = LocalTime(now) \div 86400]_clockVars

=============================================================================
