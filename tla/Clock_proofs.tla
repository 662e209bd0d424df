---------------------------- MODULE Clock_proofs ----------------------------
(***************************************************************************)
(* The clock keeps time, for every start, horizon, configuration and       *)
(* night.  Hours, minutes and seconds are bounded by inequalities rather   *)
(* than ranges, and remainders stay under the names Clock gives them, so   *)
(* that a step is either about remainders or about sums.                   *)
(***************************************************************************)
EXTENDS Clock, TLAPS

\* Seconds of a day, past midnight once at most.
Wrap(t) == IF t < 86400 THEN t ELSE t - 86400

\* A date with a time of day.
IsClock(d) ==
  /\ d.hour \in Nat /\ d.hour < 24
  /\ d.minute \in Nat /\ d.minute < 60
  /\ d.second \in Nat /\ d.second < 60

\* What the remainders of a timestamp say of its time of day.
LEMMA SplitDay ==
  ASSUME NEW t \in Nat
  PROVE  /\ OfDay(t) \in Nat /\ OfDay(t) < 86400
         /\ OfDay(t + 28800) = IF OfDay(t) < 57600 THEN OfDay(t) + 28800
                                                   ELSE OfDay(t) - 57600
         /\ SecondOf(t) = SecondOf(OfDay(t))
         /\ MinuteOf(t) = MinuteOf(OfDay(t))
  BY SMTT(60) DEF OfDay, SecondOf, MinuteOf

\* A time of day is the sum of its hours, minutes and seconds.
LEMMA SplitTime ==
  ASSUME NEW r \in Nat, r < 86400
  PROVE  /\ HourOf(r) \in Nat /\ HourOf(r) < 24
         /\ MinuteOf(r) \in Nat /\ MinuteOf(r) < 60
         /\ SecondOf(r) \in Nat /\ SecondOf(r) < 60
         /\ HourOf(r) * 3600 + MinuteOf(r) * 60 + SecondOf(r) = r
  <1> DEFINE m == r \div 60
  <1>1. m \in Nat /\ m < 1440 /\ r % 60 \in Nat /\ r % 60 < 60 /\ r = 60 * m + (r % 60)
    OBVIOUS
  <1>2. r \div 3600 = m \div 60
    OBVIOUS
  <1> HIDE DEF m
  <1>3. /\ m \div 60 \in Nat /\ m \div 60 < 24
        /\ m % 60 \in Nat /\ m % 60 < 60
        /\ m = 60 * (m \div 60) + (m % 60)
    BY <1>1
  <1>4. (r \div 3600) * 3600 + (m % 60) * 60 + (r % 60) = r
    BY <1>1, <1>2, <1>3
  <1> QED BY <1>1, <1>2, <1>3, <1>4 DEF m, HourOf, MinuteOf, SecondOf

-----------------------------------------------------------------------------
\* The time of day of a timestamp, away from midnight UTC.
LEMMA PraseKeepsTime ==
  ASSUME NEW t \in Nat, OfDay(t) # 0
  PROVE  /\ IsClock(PraseTimestamp(t))
         /\ TimeOfDay(PraseTimestamp(t)) = OfDay(LocalTime(t))
  <1> DEFINE d == PraseTimestamp(t)
  <1>1. LocalTime(t) = t + 28800
    BY DEF LocalTime, TimeZone
  <1>2. PICK r \in Nat : r = OfDay(t) /\ r < 86400 /\ r # 0
    BY SplitDay
  <1>3. /\ OfDay(LocalTime(t)) = IF r < 57600 THEN r + 28800 ELSE r - 57600
        /\ SecondOf(t) = SecondOf(r)
        /\ MinuteOf(t) = MinuteOf(r)
    BY <1>1, <1>2, SplitDay
  <1>4. PICK h \in Nat, m \in Nat, s \in Nat :
          /\ h = HourOf(r) /\ m = MinuteOf(r) /\ s = SecondOf(r)
          /\ h < 24 /\ m < 60 /\ s < 60
          /\ h * 3600 + m * 60 + s = r
    BY <1>2, SplitTime
  <1>5. d.hour = PraseHour(t) /\ d.minute = MinuteOf(t) /\ d.second = SecondOf(t)
    BY DEF PraseTimestamp
  <1>6. PraseHour(t) = IF h + 8 >= 24 THEN h + 8 - 24 ELSE h + 8
    BY <1>2, <1>4 DEF PraseHour, TimeZone
  <1> HIDE DEF d
  <1>7. PICK hour \in Nat : /\ hour = d.hour /\ hour < 24
                            /\ hour = IF h < 16 THEN h + 8 ELSE h - 16
    BY <1>4, <1>5, <1>6
  <1>8. d.minute = m /\ d.second = s
    BY <1>3, <1>4, <1>5
  <1>9. IsClock(d)
    BY <1>4, <1>7, <1>8 DEF IsClock
  <1>10. hour * 3600 + m * 60 + s = IF r < 57600 THEN r + 28800 ELSE r - 57600
    BY <1>4, <1>7
  <1>11. TimeOfDay(d) = OfDay(LocalTime(t))
    BY <1>3, <1>7, <1>8, <1>10 DEF TimeOfDay
  <1> QED BY <1>9, <1>11 DEF d

\* The carries: u minutes and v seconds move a time of day on by their sum.
LEMMA AdvanceAdds ==
  ASSUME NEW d, IsClock(d), NEW u \in Nat, NEW v \in Nat, u < 60, v < 60
  PROVE  /\ IsClock(Advance(d, u, v))
         /\ TimeOfDay(Advance(d, u, v)) = Wrap(TimeOfDay(d) + 60 * u + v)
  <1> DEFINE e == Advance(d, u, v)
  <1>1. PICK hour \in Nat, minute \in Nat, second \in Nat :
          /\ hour = d.hour /\ minute = d.minute /\ second = d.second
          /\ hour < 24 /\ minute < 60 /\ second < 60
    BY DEF IsClock
  <1>2. PICK s \in Nat : s = second + v
    OBVIOUS
  <1>3. PICK m \in Nat : m = minute + u + (IF s > 59 THEN 1 ELSE 0)
    OBVIOUS
  <1>4. PICK s1 \in Nat : s1 = (IF s > 59 THEN s - 60 ELSE s) /\ s1 < 60
    BY <1>1, <1>2
  <1>5. PICK m1 \in Nat : m1 = (IF m <= 59 THEN m ELSE m - 60) /\ m1 < 60
    BY <1>1, <1>3
  <1>6. PICK h1 \in Nat :
          /\ h1 = IF m <= 59 THEN hour ELSE IF hour < 23 THEN hour + 1 ELSE 0
          /\ h1 < 24
    BY <1>1
  <1>7. e.hour = h1 /\ e.minute = m1 /\ e.second = s1
    BY <1>1, <1>2, <1>3, <1>4, <1>5, <1>6 DEF Advance
  <1> HIDE DEF e
  <1>8. IsClock(e)
    BY <1>4, <1>5, <1>6, <1>7 DEF IsClock
  <1>9. PICK t \in Nat : t = hour * 3600 + minute * 60 + second + 60 * u + v
    OBVIOUS
  <1>10. 60 * m + s1 = 60 * minute + second + 60 * u + v
    BY <1>2, <1>3, <1>4
  <1>11. h1 * 3600 + m1 * 60 + s1 = IF t < 86400 THEN t ELSE t - 86400
    <2> hour < 24 /\ minute < 60 /\ second < 60
      BY <1>1
    <2>1. CASE m <= 59
      BY <1>4, <1>5, <1>6, <1>9, <1>10, <2>1
    <2>2. CASE m > 59 /\ hour < 23
      BY <1>4, <1>5, <1>6, <1>9, <1>10, <2>2
    <2>3. CASE m > 59 /\ hour = 23
      BY <1>4, <1>5, <1>6, <1>9, <1>10, <2>3
    <2> QED BY <2>1, <2>2, <2>3
  <1>12. TimeOfDay(d) + 60 * u + v = t
    BY <1>1, <1>9 DEF TimeOfDay
  <1>13. TimeOfDay(e) = h1 * 3600 + m1 * 60 + s1
    BY <1>7 DEF TimeOfDay
  <1>14. TimeOfDay(e) = Wrap(t)
    BY <1>11, <1>13 DEF Wrap
  <1> QED BY <1>8, <1>12, <1>14 DEF e

\* A tick of less than an hour moves the time of day on by its seconds.
LEMMA TickKeepsTime ==
  ASSUME NEW d, IsClock(d), NEW unit \in Nat, unit < 3600
  PROVE  /\ IsClock(UpdateClockByTick(d, unit))
         /\ TimeOfDay(UpdateClockByTick(d, unit)) = Wrap(TimeOfDay(d) + unit)
         /\ UpdateClockByTick(d, unit).year = d.year
  <1>1. PICK u \in Nat, v \in Nat : u = unit \div 60 /\ v = SecondOf(unit)
    BY DEF SecondOf
  <1>2. unit = 60 * u + v /\ u < 60 /\ v < 60
    BY <1>1 DEF SecondOf
  <1>3. UpdateClockByTick(d, unit) = Advance(d, u, v)
    BY <1>1 DEF UpdateClockByTick
  <1>4. PICK t \in Nat : t = TimeOfDay(d)
    BY DEF IsClock, TimeOfDay
  <1>5. t + 60 * u + v = t + unit
    BY <1>2
  <1>6. Advance(d, u, v).year = d.year
    BY DEF Advance
  <1> QED BY <1>2, <1>3, <1>4, <1>5, <1>6, AdvanceAdds

-----------------------------------------------------------------------------
\* What the timers count.
Units == {0, 60, 120, 150, 180, 225, 240}

(***************************************************************************)
(* The time of day is the real one.  The inductive invariant adds that     *)
(* real time stays off the one second praseTimestamp gets wrong, and that  *)
(* a light sleep, when it is entered, has its interval.                    *)
(***************************************************************************)
ClockInv ==
  /\ now \in Nat
  /\ now % 15 # 0
  /\ seconds \in Units
  /\ IsClock(date)
  /\ IsSet => TimeOfDay(date) = OfDay(LocalTime(now))
  /\ calendar = date \/ (calendar = NoDate /\ now = updated)

\* Ticks are whole quarters of a minute.
LEMMA OffBeat ==
  ASSUME NEW t \in Nat, t % 15 # 0
  PROVE  /\ OfDay(t) # 0
         /\ \A unit \in Units : (t + unit) % 15 # 0
  BY SMTT(60) DEF OfDay, Units

\* Real time of day wraps as the clock does.
LEMMA LocalTimeWraps ==
  ASSUME NEW t \in Nat, NEW unit \in Nat, unit < 3600
  PROVE  OfDay(LocalTime(t + unit)) = Wrap(OfDay(LocalTime(t)) + unit)
  <1>1. LocalTime(t + unit) = t + unit + 28800 /\ LocalTime(t) = t + 28800
    BY DEF LocalTime, TimeZone
  <1>2. PICK n \in Nat : n = t + 28800
    OBVIOUS
  <1>3. (n + unit) % 86400 = IF (n % 86400) + unit < 86400 THEN (n % 86400) + unit
                                                          ELSE (n % 86400) + unit - 86400
    BY SMTT(60)
  <1>4. LocalTime(t) = n /\ LocalTime(t + unit) = n + unit
    BY <1>1, <1>2
  <1>5. OfDay(n + unit) = Wrap(OfDay(n) + unit)
    BY <1>3 DEF OfDay, Wrap
  <1> QED BY <1>4, <1>5

\* Initially the date is not set.
LEMMA InitKeeps == ClockInit => ClockInv
  <1> SUFFICES ASSUME ClockInit PROVE ClockInv
    OBVIOUS
  <1>1. now \in Nat /\ now % 15 # 0
    BY ClockAssumption, OffBeatAssumption DEF ClockInit
  <1>2. /\ date.hour = 0 /\ date.minute = 0 /\ date.second = 0 /\ date.year = 0
        /\ calendar = date
    BY DEF ClockInit, NoDate
  <1>3. IsClock(date) /\ ~IsSet
    BY <1>2 DEF IsClock, IsSet
  <1>4. seconds = 0
    BY DEF ClockInit
  <1> QED BY <1>1, <1>2, <1>3, <1>4 DEF ClockInv, Units

\* A timer that fires moves real time and the time of day on together.
LEMMA ElapseKeeps ==
  ASSUME ClockInv, NEW unit \in Units, Elapse(unit)
  PROVE  ClockInv'
  <1>1. /\ now' = now + unit
        /\ date' = UpdateClockByTick(date, unit)
        /\ calendar' = date'
        /\ seconds' = seconds
    BY DEF Elapse
  <1>2. unit \in Nat /\ unit < 3600
    BY DEF Units
  <1>3. now \in Nat /\ now % 15 # 0 /\ IsClock(date) /\ seconds \in Units
    BY DEF ClockInv
  <1>4. now' \in Nat /\ now' % 15 # 0
    BY <1>1, <1>2, <1>3, OffBeat DEF Units
  <1>5. /\ IsClock(date')
        /\ TimeOfDay(date') = Wrap(TimeOfDay(date) + unit)
        /\ date'.year = date.year
    BY <1>1, <1>2, <1>3, TickKeepsTime
  <1>6. OfDay(LocalTime(now')) = Wrap(OfDay(LocalTime(now)) + unit)
    BY <1>1, <1>2, <1>3, LocalTimeWraps
  <1>7. ASSUME IsSet' PROVE TimeOfDay(date') = OfDay(LocalTime(now'))
    <2>1. IsSet
      BY <1>5, <1>7 DEF IsSet
    <2>2. TimeOfDay(date) = OfDay(LocalTime(now))
      BY <2>1 DEF ClockInv
    <2> QED BY <1>5, <1>6, <2>2
  <1> QED BY <1>1, <1>3, <1>4, <1>5, <1>7 DEF ClockInv

\* Every step keeps the invariant.
LEMMA NextKeeps == ClockInv /\ [ClockNext]_clockVars => ClockInv'
  <1> SUFFICES ASSUME ClockInv, [ClockNext]_clockVars PROVE ClockInv'
    OBVIOUS
  <1>1. CASE TimeAnswer
    <2>1. /\ now' = now /\ seconds' = seconds /\ date' = PraseTimestamp(now)
          /\ calendar' = date'
      BY <1>1 DEF TimeAnswer, Answered
    <2>2. now \in Nat /\ OfDay(now) # 0
      BY OffBeat DEF ClockInv
    <2>3. IsClock(date') /\ TimeOfDay(date') = OfDay(LocalTime(now'))
      BY <2>1, <2>2, PraseKeepsTime
    <2> QED BY <2>1, <2>3 DEF ClockInv
  <1>2. CASE NoTimeAnswer
    BY <1>2 DEF NoTimeAnswer, Answered, ClockInv, IsSet
  <1>3. CASE MinuteTick
    BY <1>3, ElapseKeeps DEF MinuteTick, Units
  <1>4. CASE NightTick
    BY <1>4, ElapseKeeps DEF NightTick, ClockInv
  <1>5. CASE WakeTick
    BY <1>5, ElapseKeeps DEF WakeTick, ClockInv
  <1>6. CASE Sleep
    <2>1. UNCHANGED <<now, date, calendar, updated>>
      BY <1>6 DEF Sleep
    <2>2. seconds' = seconds \/ seconds' = WakeupInterval(timeUpdate)
      BY <1>6 DEF Sleep
    <2>3. WakeupInterval(timeUpdate) \in Units
      BY DEF WakeupInterval, Units
    <2> QED BY <2>1, <2>2, <2>3 DEF ClockInv, IsSet
  <1>7. CASE UNCHANGED clockVars
    BY <1>7 DEF clockVars, ClockInv, IsSet
  <1> QED BY <1>1, <1>2, <1>3, <1>4, <1>5, <1>6, <1>7 DEF ClockNext

\* Whatever is configured, and however minute ticks, light sleep, nights, answers
\* with a time and answers without one follow each other, the station knows the real
\* time of day and draws it, or 00:00 from an answer without a time to the next tick.
THEOREM TimeIsKept == ClockSpec => []KeepsTime
  <1>1. ClockInv => KeepsTime
    BY DEF ClockInv, KeepsTime
  <1> QED BY <1>1, InitKeeps, NextKeeps, PTL DEF ClockSpec

-----------------------------------------------------------------------------
(***************************************************************************)
(* The counters and the interval of light sleep.                           *)
(***************************************************************************)

\* The interval is the one of the configuration; a request of light sleep is made
\* with the counters cleared, and otherwise the counter is the age of the page.
PageAge == mode \in {"awake", "light"} => timeTick = now - updated

TickInv ==
  /\ ClockTypeOK
  /\ PageAge
  /\ seconds # 0 => seconds = WakeupInterval(timeUpdate)
  /\ mode \in {"light", "light_request"} => seconds # 0
  /\ mode = "light_request" => timeTick = 0 /\ weatherTick = 0

LEMMA ComparesArePositive ==
  ASSUME ClockTypeOK
  PROVE  /\ timeUpdate \in 1..30
         /\ timeCompare \in Nat /\ timeCompare > 0
         /\ weatherCompare \in Nat /\ weatherCompare > 0
  <1>1. timeUpdate \in 1..30
    BY ClockAssumption DEF ClockTypeOK
  <1>2. WeatherUpdate \in 1..24
    BY ClockAssumption
  <1> QED BY <1>1, <1>2 DEF timeCompare, weatherCompare

LEMMA IntervalType ==
  ASSUME NEW m
  PROVE  WakeupInterval(m) \in {60, 120, 150, 180, 225, 240}
  BY DEF WakeupInterval

LEMMA TickInit == ClockInit => TickInv
  <1> SUFFICES ASSUME ClockInit PROVE TickInv
    OBVIOUS
  <1>1. start \in Nat /\ now = start /\ Horizon \in Nat /\ start \in Starts
    BY ClockAssumption DEF ClockInit
  <1>2. timeUpdate \in 1..30 /\ WeatherUpdate \in 1..24
    BY ClockAssumption DEF ClockInit
  <1>3. 0 < timeCompare /\ 0 < weatherCompare
    BY <1>2 DEF timeCompare, weatherCompare
  <1>4. PageAge /\ updated \in start..now /\ calendar \in {date, NoDate}
    BY <1>1 DEF ClockInit, PageAge
  <1>5. date.hour = 0 /\ date.minute = 0 /\ date.second = 0
    BY DEF ClockInit, NoDate
  <1>6. now \in start..start + Horizon
    BY <1>1
  <1> QED BY <1>1, <1>3, <1>4, <1>5, <1>6 DEF ClockInit, TickInv, ClockTypeOK

\* What a timer that fires leaves of the types, whatever the counters become.
LEMMA ElapseTypes ==
  ASSUME ClockInv, ClockInv', TickInv, NEW unit \in Units, Elapse(unit)
  PROVE  /\ start' = start /\ start \in Starts
         /\ now' \in start'..start' + Horizon
         /\ date'.hour \in 0..23 /\ date'.minute \in 0..59 /\ date'.second \in 0..59
         /\ calendar' = date' /\ updated \in start'..now' /\ now' \in start'..now'
         /\ timeUpdate' = timeUpdate /\ seconds' = seconds
  <1>1. now \in start..start + Horizon /\ start \in Starts /\ start \in Nat /\ Horizon \in Nat
    BY ClockAssumption DEF TickInv, ClockTypeOK
  <1>2. now + unit =< start + Horizon /\ now' = now + unit /\ unit \in Nat
    BY DEF Elapse, Units
  <1>3. IsClock(date')
    BY DEF ClockInv
  <1>4. date'.hour \in 0..23 /\ date'.minute \in 0..59 /\ date'.second \in 0..59
    BY <1>3 DEF IsClock
  <1>5. updated \in start..now
    BY DEF TickInv, ClockTypeOK
  <1> QED BY <1>1, <1>2, <1>4, <1>5 DEF Elapse

\* The comparison leaves the counters below what they are compared with.
LEMMA CompareBounds ==
  ASSUME TickInv, NEW unit \in Units, NEW request \in {"request", "light_request"},
         timeUpdate' = timeUpdate, mode # request, Compare(unit, request)
  PROVE  /\ timeTick' \in Nat /\ timeTick' < timeCompare'
         /\ weatherTick' \in Nat /\ weatherTick' < weatherCompare'
         /\ mode' \in {mode, request}
         /\ mode' # mode => timeTick' = 0 /\ weatherTick' = 0
         /\ updated' \in {updated, now'}
         /\ mode' = mode => \/ updated' = updated /\ timeTick' = timeTick + unit
                            \/ /\ updated' = now' /\ timeTick' = 0
                               /\ timeTick + unit >= timeCompare
  <1>1. timeCompare' = timeCompare /\ weatherCompare' = weatherCompare
    BY DEF timeCompare, weatherCompare
  <1>2. /\ timeCompare \in Nat /\ timeCompare > 0
        /\ weatherCompare \in Nat /\ weatherCompare > 0
    BY ComparesArePositive DEF TickInv
  <1>3. unit \in Nat /\ timeTick \in Nat /\ weatherTick \in Nat
    BY DEF Units, TickInv, ClockTypeOK
  <1>4. CASE weatherTick + unit >= weatherCompare
    BY <1>1, <1>2, <1>4 DEF Compare
  <1>5. CASE ~(weatherTick + unit >= weatherCompare)
    BY <1>1, <1>2, <1>3, <1>5 DEF Compare
  <1> QED BY <1>4, <1>5

\* The counter goes on with the age of the page, and starts again with it.
LEMMA ComparesKeepAge ==
  ASSUME TickInv, NEW unit \in Units, NEW request \in {"request", "light_request"},
         mode \in {"awake", "light"},
         now \in Nat, now' = now + unit, timeUpdate' = timeUpdate, Compare(unit, request)
  PROVE  PageAge' /\ updated' \in {updated, now'}
  <1>1. timeTick = now - updated /\ unit \in Nat /\ updated \in Nat
    BY ClockAssumption DEF TickInv, PageAge, ClockTypeOK, Units
  <1>2. CASE mode' = request
    BY <1>2, CompareBounds DEF PageAge
  <1>3. CASE mode' = mode
    <2>1. \/ updated' = updated /\ timeTick' = timeTick + unit
          \/ updated' = now' /\ timeTick' = 0
      BY <1>3, CompareBounds
    <2>2. timeTick' = now' - updated'
      BY <1>1, <2>1
    <2>3. updated' \in {updated, now'}
      BY CompareBounds
    <2> QED BY <2>2, <2>3 DEF PageAge
  <1> QED BY <1>2, <1>3, CompareBounds

LEMMA TickNext ==
  ClockInv /\ ClockInv' /\ TickInv /\ [ClockNext]_clockVars => TickInv'
  <1> SUFFICES ASSUME ClockInv, ClockInv', TickInv, [ClockNext]_clockVars PROVE TickInv'
    OBVIOUS
  <1>1. timeTick \in Nat /\ weatherTick \in Nat /\ seconds \in {0, 60, 120, 150, 180, 225, 240}
    BY DEF TickInv, ClockTypeOK
  <1>2. CASE TimeAnswer \/ NoTimeAnswer
    <2> Answered
      BY <1>2 DEF TimeAnswer, NoTimeAnswer
    <2>1. UNCHANGED <<start, now, timeUpdate, seconds>> /\ updated' = now
      BY DEF Answered
    <2>2. timeTick' = 0 /\ weatherTick' = 0
      BY DEF Answered, TickInv
    <2>3. mode' \in {"awake", "light"} /\ (mode' = "light" => mode = "light_request")
      BY DEF Answered
    <2>6. calendar' \in {date', NoDate}
      BY <1>2 DEF TimeAnswer, NoTimeAnswer
    <2>7. now \in start..now /\ now - now = 0
      BY ClockAssumption DEF TickInv, ClockTypeOK
    <2>4. date'.hour \in 0..23 /\ date'.minute \in 0..59 /\ date'.second \in 0..59
      BY DEF ClockInv, IsClock
    <2>5. timeCompare' > 0 /\ weatherCompare' > 0
      BY <2>1, ComparesArePositive DEF TickInv, timeCompare, weatherCompare
    <2> QED BY <2>1, <2>2, <2>3, <2>4, <2>5, <2>6, <2>7 DEF TickInv, ClockTypeOK, PageAge
  <1>3. CASE MinuteTick
    <2>1. Elapse(60) /\ Compare(60, "request") /\ 60 \in Units /\ mode = "awake"
      BY <1>3 DEF MinuteTick, Units
    <2>2. now \in Nat /\ now' = now + 60 /\ timeUpdate' = timeUpdate
      BY <2>1 DEF Elapse, ClockInv
    <2>3. PageAge' /\ updated' \in {updated, now'}
      BY <2>1, <2>2, ComparesKeepAge
    <2> QED BY <2>1, <2>3, ElapseTypes, CompareBounds DEF TickInv, ClockTypeOK
  <1>4. CASE NightTick
    <2>1. /\ Elapse(seconds) /\ seconds \in Units /\ mode = "light" /\ mode' = mode
          /\ date'.hour \in Night
          /\ timeTick' = timeTick + seconds /\ weatherTick' = weatherTick + seconds
      BY <1>4 DEF NightTick, ClockInv
    <2>2. timeTick' \in Nat /\ weatherTick' \in Nat
      BY <1>1, <2>1
    <2>3. updated' = updated /\ now \in Nat /\ now' = now + seconds /\ updated \in Nat
      BY <1>4, <2>1, ClockAssumption DEF NightTick, Elapse, ClockInv, TickInv, ClockTypeOK
    <2>4. PageAge'
      BY <1>1, <2>1, <2>3 DEF TickInv, PageAge
    <2> QED BY <2>1, <2>2, <2>3, <2>4, ElapseTypes DEF TickInv, ClockTypeOK
  <1>5. CASE WakeTick
    <2>1. Elapse(seconds) /\ Compare(seconds, "light_request") /\ seconds \in Units
          /\ mode = "light"
      BY <1>5 DEF WakeTick, ClockInv
    <2>2. now \in Nat /\ now' = now + seconds /\ timeUpdate' = timeUpdate
      BY <2>1 DEF Elapse, ClockInv
    <2>3. PageAge' /\ updated' \in {updated, now'}
      BY <2>1, <2>2, ComparesKeepAge
    <2> QED BY <2>1, <2>3, ElapseTypes, CompareBounds DEF TickInv, ClockTypeOK
  <1>6. CASE Sleep
    <2>1. /\ UNCHANGED <<start, now, date, calendar, timeTick, weatherTick, timeUpdate, updated>>
          /\ mode = "awake" /\ mode' = "light"
          /\ seconds' = IF seconds = 0 THEN WakeupInterval(timeUpdate) ELSE seconds
      BY <1>6 DEF Sleep
    <2>2. /\ seconds' \in {60, 120, 150, 180, 225, 240}
          /\ seconds' = WakeupInterval(timeUpdate')
      BY <1>1, <2>1, IntervalType DEF TickInv
    <2> QED BY <2>1, <2>2 DEF TickInv, ClockTypeOK, PageAge, timeCompare, weatherCompare
  <1>7. CASE UNCHANGED clockVars
    BY <1>7 DEF clockVars, TickInv, ClockTypeOK, PageAge, timeCompare, weatherCompare
  <1> QED BY <1>2, <1>3, <1>4, <1>5, <1>6, <1>7 DEF ClockNext

\* Every interval of the table fills the configured minutes.
LEMMA IntervalDivides ==
  ASSUME NEW m \in 1..30
  PROVE  (m * 60) % WakeupInterval(m) = 0
  <1>1. CASE m = 2
    BY <1>1 DEF WakeupInterval
  <1>2. CASE m = 3
    BY <1>2 DEF WakeupInterval
  <1>3. CASE m = 4 \/ m = 20
    BY <1>3 DEF WakeupInterval
  <1>4. CASE m = 5 \/ m = 10 \/ m = 15
    BY <1>4 DEF WakeupInterval
  <1>5. CASE m = 30
    BY <1>5 DEF WakeupInterval
  <1>6. CASE m \notin {2, 3, 4, 5, 10, 15, 20, 30}
    <2>1. WakeupInterval(m) = 60
      BY <1>6 DEF WakeupInterval
    <2>2. (m * 60) % 60 = 0
      OBVIOUS
    <2> QED BY <2>1, <2>2
  <1> QED BY <1>1, <1>2, <1>3, <1>4, <1>5, <1>6

LEMMA TicksHold == ClockSpec => []TickInv
  BY InitKeeps, NextKeeps, TickInit, TickNext, PTL DEF ClockSpec

\* The update counters stay below what they are compared with by day, the time of
\* day can be shown, and every variable has its type (user_main.c:211).
THEOREM ClockIsTyped == ClockSpec => []ClockTypeOK
  <1>1. TickInv => ClockTypeOK
    BY DEF TickInv
  <1> QED BY <1>1, TicksHold, PTL

\* A page that was fresh a whole number of intervals ago is due exactly.
LEMMA DueExactly ==
  ASSUME NEW unit \in {60, 120, 150, 180, 225, 240}, NEW m \in 1..30,
         (m * 60) % unit = 0, NEW age \in Nat, age % unit = 0,
         age < m * 60, age + unit >= m * 60
  PROVE  age + unit = m * 60
  <1>1. m * 60 \in Nat
    OBVIOUS
  <1>2. CASE unit \in {60, 120}
    BY <1>1, <1>2
  <1>3. CASE unit \in {150, 180}
    BY <1>1, <1>3
  <1>4. CASE unit \in {225, 240}
    <2>1. CASE unit = 225
      <3>1. m * 60 = 225 * ((m * 60) \div 225) /\ age = 225 * (age \div 225)
        BY <1>1, <2>1
      <3>2. (m * 60) \div 225 \in Nat /\ age \div 225 \in Nat
        BY <1>1
      <3> QED BY <1>1, <2>1, <3>1, <3>2
    <2>2. CASE unit = 240
      <3>1. m * 60 = 240 * ((m * 60) \div 240) /\ age = 240 * (age \div 240)
        BY <1>1, <2>2
      <3>2. (m * 60) \div 240 \in Nat /\ age \div 240 \in Nat
        BY <1>1
      <3> QED BY <1>1, <2>2, <3>1, <3>2
    <2> QED BY <1>4, <2>1, <2>2
  <1>5. unit \in {60, 120} \/ unit \in {150, 180} \/ unit \in {225, 240}
    OBVIOUS
  <1> QED BY <1>2, <1>3, <1>4, <1>5

\* What a tick of the awake clock or of light sleep by day does with the page.
LEMMA TickIsDue ==
  ASSUME ClockInv, TickInv, NEW unit \in {60, 120, 150, 180, 225, 240},
         timeCompare % unit = 0,
         mode \in {"awake", "light"}, date.hour \notin Night, mode' = mode,
         NEW request \in {"request", "light_request"},
         Elapse(unit), Compare(unit, request)
  PROVE  IF updated' = updated
         THEN now' - updated < timeCompare
         ELSE /\ updated' = now'
              /\ timeCompare <= now' - updated /\ now' - updated < timeCompare + unit
              /\ (now - updated) % unit = 0 => now' - updated = timeCompare
  <1>1. /\ now \in Nat /\ updated \in Nat /\ timeTick \in Nat /\ now' = now + unit
        /\ timeTick = now - updated /\ timeTick < timeCompare
        /\ timeCompare = timeUpdate * 60 /\ timeUpdate \in 1..30
    BY ClockAssumption, ComparesArePositive
    DEF ClockInv, TickInv, PageAge, ClockTypeOK, Elapse, timeCompare
  <1>2. now' - updated = timeTick + unit
    BY <1>1
  <1>3. mode' # request
    BY DEF TickInv
  <1>4. ~(weatherTick + unit >= weatherCompare)
    BY <1>3 DEF Compare
  <1>5. CASE timeTick + unit >= timeCompare
    <2>1. updated' = now' /\ updated' # updated
      BY <1>1, <1>2, <1>4, <1>5 DEF Compare
    <2>2. timeCompare <= now' - updated /\ now' - updated < timeCompare + unit
      BY <1>1, <1>2, <1>5
    <2>3. timeTick % unit = 0 => timeTick + unit = timeCompare
      BY <1>1, <1>5, DueExactly
    <2> QED BY <1>1, <1>2, <2>1, <2>2, <2>3
  <1>6. CASE ~(timeTick + unit >= timeCompare)
    <2>1. updated' = updated
      BY <1>4, <1>6 DEF Compare
    <2> QED BY <1>1, <1>2, <1>6, <2>1
  <1> QED BY <1>5, <1>6

\* For every choice of the menu, and every other the configuration allows, the page
\* is updated by day at the first tick at which it is old enough, and a light sleep
\* begun with a fresh page ends exactly then (user_main.c:1032).
THEOREM SleepEndsWhenDue == ClockSpec => WakesWhenDue
  <1> DEFINE Due ==
        now' # now /\ mode' = mode /\ date.hour \notin Night /\ date'.hour \notin Night =>
          LET unit == now' - now
              age == now' - updated
          IN  IF updated' = updated
              THEN age < timeCompare
              ELSE /\ updated' = now'
                   /\ timeCompare <= age /\ age < timeCompare + unit
                   /\ (now - updated) % unit = 0 => age = timeCompare
  <1>1. ASSUME ClockInv, TickInv, [ClockNext]_clockVars PROVE [Due]_clockVars
    <2> SUFFICES ASSUME now' # now, mode' = mode, date.hour \notin Night, date'.hour \notin Night
                 PROVE  Due
      OBVIOUS
    <2>1. timeUpdate \in 1..30 /\ timeCompare = timeUpdate * 60 /\ now \in Nat
      BY <1>1, ComparesArePositive DEF TickInv, ClockInv, timeCompare
    <2>2. CASE MinuteTick
      <3>1. timeCompare % 60 = 0
        BY <2>1
      <3>2. mode = "awake" /\ Elapse(60) /\ Compare(60, "request")
        BY <2>2 DEF MinuteTick
      <3>3. now' - now = 60
        BY <2>1, <3>2 DEF Elapse
      <3>4. IF updated' = updated
            THEN now' - updated < timeCompare
            ELSE /\ updated' = now'
                 /\ timeCompare <= now' - updated /\ now' - updated < timeCompare + 60
                 /\ (now - updated) % 60 = 0 => now' - updated = timeCompare
        BY <1>1, <3>1, <3>2, TickIsDue
      <3> QED BY <3>3, <3>4
    <2>3. CASE WakeTick
      <3>1. mode = "light" /\ Elapse(seconds) /\ Compare(seconds, "light_request")
        BY <2>3 DEF WakeTick
      <3>2. seconds = WakeupInterval(timeUpdate)
        BY <1>1, <3>1 DEF TickInv
      <3>3. seconds \in {60, 120, 150, 180, 225, 240} /\ timeCompare % seconds = 0
        BY <2>1, <3>2, IntervalType, IntervalDivides
      <3>4. now' - now = seconds
        BY <2>1, <3>1, <3>3 DEF Elapse
      <3>5. IF updated' = updated
            THEN now' - updated < timeCompare
            ELSE /\ updated' = now'
                 /\ timeCompare <= now' - updated /\ now' - updated < timeCompare + seconds
                 /\ (now - updated) % seconds = 0 => now' - updated = timeCompare
        BY <1>1, <3>1, <3>3, TickIsDue
      <3> QED BY <3>4, <3>5
    <2>4. ~NightTick
      BY DEF NightTick
    <2>5. ~TimeAnswer /\ ~NoTimeAnswer /\ ~Sleep /\ ~UNCHANGED clockVars
      BY DEF TimeAnswer, NoTimeAnswer, Answered, Sleep, clockVars
    <2> QED BY <1>1, <2>2, <2>3, <2>4, <2>5 DEF ClockNext
  <1>2. WakesWhenDue <=> [][Due]_clockVars
    BY PTL DEF WakesWhenDue
  <1> HIDE DEF Due
  <1>3. ClockSpec => []ClockInv
    BY InitKeeps, NextKeeps, PTL DEF ClockSpec
  <1>4. ClockSpec => [][Due]_clockVars
    BY <1>1, <1>3, TicksHold, PTL DEF ClockSpec
  <1> QED BY <1>2, <1>4, PTL

=============================================================================
