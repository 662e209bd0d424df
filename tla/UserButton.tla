---------------------------- MODULE UserButton ----------------------------
(***************************************************************************)
(* The user's button (src/app/driver/user_button.c): an interrupt on both  *)
(* edges tells clicks, double clicks and long presses apart, and a timer   *)
(* reports a single click once no second one can follow.                   *)
(*                                                                         *)
(* The interrupt acknowledges the edge, waits 5 ms for the contacts to     *)
(* settle and only then reads the level: edges in between are latched and  *)
(* raise it again.  The timer's callback is ordinary code, which the       *)
(* interrupt may cut between any two of its statements.                    *)
(*                                                                         *)
(* Time runs in units long against both (100 ms on the board); the clock   *)
(* is the 32-bit microsecond counter, which wraps at Wrap.                 *)
(***************************************************************************)
EXTENDS Integers

CONSTANTS
  LongClick,      \* LONG_CLICK_TIME
  DoubleTimeout,  \* DOUBLE_CLICK_TIMEOUT
  SingleDelay,    \* SINGLE_CLICK_TRIGGER_DELAY
  Wrap            \* the counter's range

ASSUME ButtonAssumption ==
  /\ LongClick \in Nat /\ DoubleTimeout \in Nat /\ SingleDelay \in Nat /\ Wrap \in Nat
  /\ 0 < DoubleTimeout /\ DoubleTimeout < SingleDelay
  /\ DoubleTimeout < LongClick /\ LongClick < Wrap

DOUBLE_CLICK_COUNT == 2

\* Bound of shorts: presses that come too late for a double click and too early
\* for the timer are never reported.
Unreported == 3

VARIABLES
  level,          \* of the pin: "LOW" while the button is pressed
  status,         \* the pin's bit in GPIO_STATUS: an edge to handle
  isr,            \* "out", or "settle" in the interrupt's delay
  ketEvent,       \* "UP" or "DOWN"
  firstTime,      \* of the last press
  secondTime,     \* of the last release
  clickCount,
  forceExit,
  clickTimer,     \* units to go, Off when it is not armed
  callback,       \* the next statement of clickTimerCallback, or "idle"
  cut,            \* a press or release came while it ran
  clock,          \* system_get_time()
  \* what really happened, for the properties
  age,            \* units since the last press or release, at most Wrap
  attended,       \* an interrupt has read the level
  last,           \* the last press: "none", "short", "medium" or "long"
  shorts,         \* short presses no report was made for, at most Unreported
  report          \* the listener the last step called

pinVars == <<level, status, isr>>
keyVars == <<ketEvent, firstTime, secondTime, age, attended, last>>
clickVars == <<clickCount, forceExit, clickTimer, shorts>>
timerVars == <<callback, cut>>
vars == <<pinVars, keyVars, clickVars, timerVars, clock, report>>

Off == -1

\* Types are well-formed.
ButtonTypeOK ==
  /\ level \in {"HIGH", "LOW"}
  /\ status \in BOOLEAN
  /\ isr \in {"out", "settle"}
  /\ ketEvent \in {"UP", "DOWN"}
  /\ firstTime \in 0..(Wrap - 1)
  /\ secondTime \in 0..(Wrap - 1)
  /\ clickCount \in 0..(DOUBLE_CLICK_COUNT - 1)
  /\ forceExit \in BOOLEAN
  /\ clickTimer \in {Off} \cup 0..SingleDelay
  /\ callback \in {"idle", "disarm", "count", "listen"}
  /\ cut \in BOOLEAN
  /\ clock \in 0..(Wrap - 1)
  /\ age \in 0..Wrap
  /\ attended \in BOOLEAN
  /\ last \in {"none", "short", "medium", "long"}
  /\ shorts \in Int
  /\ report \in {"none", "click", "double", "long"}

\* UserButtonInit and UserButtonIRQInit: the button may be held at power on,
\* which chooses the setup mode.
Init ==
  /\ level \in {"HIGH", "LOW"}
  /\ status = FALSE
  /\ isr = "out"
  /\ ketEvent = "UP"
  /\ firstTime = 0
  /\ secondTime = 0
  /\ clickCount = 0
  /\ forceExit = FALSE
  /\ clickTimer = Off
  /\ callback = "idle"
  /\ cut = FALSE
  /\ clock = 0
  /\ age = Wrap
  /\ attended = FALSE
  /\ last = "none"
  /\ shorts = 0
  /\ report = "none"

-----------------------------------------------------------------------------
(***************************************************************************)
(* The pin and the clock.                                                  *)
(***************************************************************************)

\* Seeded bug: an interrupt on the falling edge only.
EdgeMutant ==
  /\ ~cut
  /\ level' = IF level = "HIGH" THEN "LOW" ELSE "HIGH"
  /\ status' = (status \/ level = "HIGH")
  /\ report' = "none"
  /\ UNCHANGED <<isr, keyVars, clickVars, timerVars, clock>>

\* The user presses or releases, or the contacts bounce.  The callback takes
\* microseconds: no second press or release comes before its end.
Edge ==
  /\ ~cut
  /\ level' = IF level = "HIGH" THEN "LOW" ELSE "HIGH"
  /\ status' = TRUE
  /\ report' = "none"
  /\ UNCHANGED <<isr, keyVars, clickVars, timerVars, clock>>

\* A unit passes; interrupts and due timers are served well within it.
Tick ==
  /\ ~status /\ isr = "out" /\ callback = "idle" /\ clickTimer # 0
  /\ clock' = (clock + 1) % Wrap
  /\ age' = IF age < Wrap THEN age + 1 ELSE age
  /\ clickTimer' = IF clickTimer = Off THEN Off ELSE clickTimer - 1
  /\ report' = "none"
  /\ UNCHANGED <<pinVars, ketEvent, firstTime, secondTime, attended, last,
                 clickCount, forceExit, timerVars, shorts>>

-----------------------------------------------------------------------------
(***************************************************************************)
(* The interrupt (gpio_irq_handler).                                       *)
(***************************************************************************)

EnterIrq ==
  /\ isr = "out"
  /\ status
  /\ isr' = "settle"
  /\ status' = FALSE
  /\ report' = "none"
  /\ UNCHANGED <<level, keyVars, clickVars, timerVars, clock>>

\* Seeded bug: over a wrap the operands are swapped.
ElapseMutant(a, b) == IF b < a THEN a - b ELSE b - a

\* The time from a to b as the code computes it: one unit short over a wrap.
Elapse(a, b) == IF b < a THEN (Wrap - 1) - a + b ELSE b - a

\* A level that is not new is noise.
Noise ==
  /\ ketEvent = IF level = "HIGH" THEN "UP" ELSE "DOWN"
  /\ report' = "none"
  /\ UNCHANGED <<ketEvent, firstTime, secondTime, age, last, clickVars>>

\* The button goes down; a click that waits is either the first of two, or too
\* old and given up.
Pressed ==
  /\ level = "LOW" /\ ketEvent = "UP"
  /\ ketEvent' = "DOWN"
  /\ firstTime' = clock
  /\ age' = 0
  /\ report' = "none"
  /\ UNCHANGED <<secondTime, last, shorts>>
  /\ IF clickCount > 0
     THEN /\ forceExit' = TRUE
          /\ clickTimer' = Off
          /\ clickCount' = IF Elapse(secondTime, clock) > DoubleTimeout THEN 0
                                                                        ELSE clickCount
     ELSE UNCHANGED <<forceExit, clickTimer, clickCount>>

\* The button goes up after so many units.
Lifted ==
  /\ level = "HIGH" /\ ketEvent = "DOWN"
  /\ ketEvent' = "UP"
  /\ secondTime' = clock
  /\ age' = 0
  /\ UNCHANGED firstTime

Held == Elapse(firstTime, clock)

LongPress ==
  /\ Lifted
  /\ Held > LongClick
  /\ report' = "long"
  /\ last' = "long"
  /\ UNCHANGED clickVars

\* Neither a click nor a long press.
MediumPress ==
  /\ Lifted
  /\ Held <= LongClick /\ Held > DoubleTimeout
  /\ clickCount' = 0
  /\ report' = "none"
  /\ last' = "medium"
  /\ UNCHANGED <<forceExit, clickTimer, shorts>>

\* Seeded bugs: the timer is not armed; forceExit stays set from the press.
AwaitSecondUnarmed == forceExit' = FALSE /\ UNCHANGED clickTimer
AwaitSecondForced == clickTimer' = SingleDelay /\ UNCHANGED forceExit

\* The timer reports the click unless a second one comes.
AwaitSecond == forceExit' = FALSE /\ clickTimer' = SingleDelay

\* Seeded bug: one click too many is awaited.
CompletesMutant == clickCount + 1 > DOUBLE_CLICK_COUNT

Completes == clickCount + 1 >= DOUBLE_CLICK_COUNT

\* The second click is reported at once, the first one by the timer.
ShortPress ==
  /\ Lifted
  /\ Held <= DoubleTimeout
  /\ last' = "short"
  /\ IF Completes
     THEN /\ clickCount' = 0
          /\ report' = "double"
          /\ shorts' = shorts - 1
          /\ UNCHANGED <<forceExit, clickTimer>>
     ELSE /\ clickCount' = clickCount + 1
          /\ report' = "none"
          /\ shorts' = IF shorts < Unreported THEN shorts + 1 ELSE shorts
          /\ AwaitSecond

\* The level is read and judged.
LeaveIrq ==
  /\ isr = "settle"
  /\ isr' = "out"
  /\ attended' = TRUE
  /\ \/ Noise /\ UNCHANGED cut
     \/ /\ Pressed \/ LongPress \/ MediumPress \/ ShortPress
        /\ cut' = (callback # "idle")
  /\ UNCHANGED <<level, status, callback, clock>>

-----------------------------------------------------------------------------
(***************************************************************************)
(* The timer (clickTimerCallback), a statement at a time.                  *)
(***************************************************************************)

Expire ==
  /\ clickTimer = 0
  /\ callback = "idle"
  /\ isr = "out"
  /\ clickTimer' = Off
  /\ callback' = "disarm"
  /\ report' = "none"
  /\ UNCHANGED <<pinVars, keyVars, clickCount, forceExit, shorts, cut, clock>>

Disarm ==
  /\ callback = "disarm"
  /\ isr = "out"
  /\ clickTimer' = Off
  /\ callback' = "count"
  /\ report' = "none"
  /\ UNCHANGED <<pinVars, keyVars, clickCount, forceExit, shorts, cut, clock>>

ResetCount ==
  /\ callback = "count"
  /\ isr = "out"
  /\ clickCount' = 0
  /\ callback' = "listen"
  /\ report' = "none"
  /\ UNCHANGED <<pinVars, keyVars, clickTimer, forceExit, shorts, cut, clock>>

Listen ==
  /\ callback = "listen"
  /\ isr = "out"
  /\ callback' = "idle"
  /\ cut' = FALSE
  /\ IF forceExit
     THEN report' = "none" /\ UNCHANGED shorts
     ELSE report' = "click" /\ shorts' = shorts - 1
  /\ UNCHANGED <<pinVars, keyVars, clickCount, clickTimer, forceExit, clock>>

-----------------------------------------------------------------------------

Interrupt == EnterIrq \/ LeaveIrq

Callback == Expire \/ Disarm \/ ResetCount \/ Listen

Next == Edge \/ Tick \/ Interrupt \/ Callback

\* Time passes, and interrupts and callbacks run.
Spec == Init /\ [][Next]_vars /\ WF_vars(Tick) /\ WF_vars(Interrupt) /\ WF_vars(Callback)

-----------------------------------------------------------------------------
(***************************************************************************)
(* Properties.                                                             *)
(***************************************************************************)

\* Once every edge is handled the driver has the key as it is: an edge during
\* the settling time is handled afterwards, so that no press or release is lost
\* and the next one taken for noise.
KeyFollowsPin ==
  attended /\ ~status /\ isr = "out" => (ketEvent = "DOWN" <=> level = "LOW")

\* A counted click is always on its way to be reported: a press that cuts the
\* timer's callback leaves no click counted and no timer running.  A long press
\* is the exception: it keeps the click before it.
CountedIsPending ==
  clickCount > 0 /\ ketEvent = "UP" /\ last = "short"
    => clickTimer # Off \/ callback # "idle"

\* A listener is called only for presses that were made: a click for a short
\* press not reported before, a double click for two, a long press for one that
\* lasted.
ReportsArePresses ==
  [][ /\ report' = "click" => shorts >= 1
      /\ report' = "double" => shorts >= 1 /\ last' = "short"
      /\ report' = "long" => age > LongClick ]_vars

\* When the user stops, the last short press is reported by the timer: no
\* interleaving of the callback with the interrupt leaves forceExit set for it.
ClickIsReported ==
  (last = "short" /\ ketEvent = "UP" /\ clickCount > 0)
    ~> (report = "click" \/ level = "LOW")
=============================================================================
