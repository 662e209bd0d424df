------------------------- MODULE UserButton_proofs -------------------------
(***************************************************************************)
(* Proofs about UserButton for every choice of the thresholds: the driver  *)
(* never loses an edge, never a counted click, and reports nothing that    *)
(* was not pressed.                                                        *)
(***************************************************************************)
EXTENDS UserButton, TLAPS

\* What the two invariants need of the types.
KeyTypes ==
  /\ level \in {"HIGH", "LOW"}
  /\ ketEvent \in {"UP", "DOWN"}
  /\ isr \in {"out", "settle"}
  /\ clickTimer \in {Off} \cup Nat

\* The inductive form of CountedIsPending: once the callback is past the reset of
\* the count, only an armed timer reports what an interrupt has counted since.
Pending ==
  clickCount > 0 /\ ketEvent = "UP" /\ last = "short"
    => clickTimer # Off \/ callback \in {"disarm", "count"}

ButtonInv == KeyTypes /\ KeyFollowsPin /\ Pending

LEMMA ButtonInitially == Init => ButtonInv
<1>1. SUFFICES ASSUME Init PROVE ButtonInv
  OBVIOUS
<1>2. KeyTypes
  BY <1>1 DEF Init, KeyTypes
<1>3. KeyFollowsPin /\ Pending
  BY <1>1 DEF Init, KeyFollowsPin, Pending
<1> QED
  BY <1>2, <1>3 DEF ButtonInv

\* Every branch of the interrupt leaves the key as the pin was read.
LEMMA LeaveIrqReads ==
  ASSUME KeyTypes, LeaveIrq
  PROVE  /\ ketEvent' = "DOWN" <=> level = "LOW"
         /\ ketEvent' \in {"UP", "DOWN"}
<1>1. CASE Noise
  BY <1>1 DEF KeyTypes, Noise
<1>2. CASE Pressed
  BY <1>2 DEF Pressed
<1>3. CASE LongPress \/ MediumPress \/ ShortPress
  BY <1>3 DEF LongPress, MediumPress, ShortPress, Lifted
<1> QED
  BY <1>1, <1>2, <1>3 DEF LeaveIrq

LEMMA LeaveIrqTimer ==
  ASSUME KeyTypes, LeaveIrq
  PROVE  clickTimer' \in {Off} \cup Nat
<1>1. CASE Noise \/ LongPress \/ MediumPress
  BY <1>1 DEF KeyTypes, Noise, LongPress, MediumPress, clickVars
<1>2. CASE Pressed
  BY <1>2 DEF KeyTypes, Pressed
<1>3. CASE ShortPress
  BY <1>3, ButtonAssumption DEF KeyTypes, ShortPress, AwaitSecond
<1> QED
  BY <1>1, <1>2, <1>3 DEF LeaveIrq

\* A short press is counted with the timer armed; the other branches leave no
\* short press counted, or change nothing.
LEMMA LeaveIrqPending ==
  ASSUME Pending, LeaveIrq
  PROVE  Pending'
<1>0. callback' = callback
  BY DEF LeaveIrq
<1>1. CASE Noise
  BY <1>0, <1>1 DEF Noise, Pending, clickVars
<1>2. CASE Pressed
  BY <1>2 DEF Pressed, Pending
<1>3. CASE LongPress
  BY <1>3 DEF LongPress, Pending
<1>4. CASE MediumPress
  BY <1>4 DEF MediumPress, Pending
<1>5. CASE ShortPress
  <2>1. clickCount' = 0 \/ clickTimer' = SingleDelay
    BY <1>5 DEF ShortPress, AwaitSecond
  <2>2. SingleDelay # Off
    BY ButtonAssumption DEF Off
  <2> QED
    BY <2>1, <2>2 DEF Pending
<1> QED
  BY <1>1, <1>2, <1>3, <1>4, <1>5 DEF LeaveIrq

LEMMA ButtonStep == ButtonInv /\ [Next]_vars => ButtonInv'
<1>1. SUFFICES ASSUME ButtonInv, [Next]_vars PROVE ButtonInv'
  OBVIOUS
<1> USE <1>1 DEF ButtonInv
<1>2. CASE Edge
  <2>1. KeyTypes'
    BY <1>2 DEF Edge, KeyTypes, keyVars, clickVars
  <2>2. KeyFollowsPin'
    BY <1>2 DEF Edge, KeyFollowsPin
  <2>3. Pending'
    BY <1>2 DEF Edge, Pending, keyVars, clickVars, timerVars
  <2> QED
    BY <2>1, <2>2, <2>3
<1>3. CASE Tick
  <2>1. KeyTypes' /\ (clickTimer # Off => clickTimer' # Off)
    BY <1>3 DEF Tick, KeyTypes, pinVars, Off
  <2>2. KeyFollowsPin'
    BY <1>3 DEF Tick, KeyFollowsPin, pinVars
  <2>3. Pending'
    BY <1>3, <2>1 DEF Tick, Pending, timerVars
  <2> QED
    BY <2>1, <2>2, <2>3
<1>4. CASE EnterIrq
  <2>1. KeyTypes'
    BY <1>4 DEF EnterIrq, KeyTypes, keyVars, clickVars
  <2>2. KeyFollowsPin'
    BY <1>4 DEF EnterIrq, KeyFollowsPin
  <2>3. Pending'
    BY <1>4 DEF EnterIrq, Pending, keyVars, clickVars, timerVars
  <2> QED
    BY <2>1, <2>2, <2>3
<1>5. CASE LeaveIrq
  <2>1. level' = level /\ isr' = "out"
    BY <1>5 DEF LeaveIrq
  <2>2. KeyTypes'
    BY <1>5, <2>1, LeaveIrqReads, LeaveIrqTimer DEF KeyTypes
  <2>3. KeyFollowsPin'
    BY <1>5, <2>1, LeaveIrqReads DEF KeyFollowsPin
  <2> QED
    BY <1>5, <2>2, <2>3, LeaveIrqPending
<1>6. CASE Callback
  <2>1. KeyTypes' /\ KeyFollowsPin'
    BY <1>6 DEF Callback, Expire, Disarm, ResetCount, Listen, KeyTypes, KeyFollowsPin,
                pinVars, keyVars
  <2>2. Pending'
    BY <1>6 DEF Callback, Expire, Disarm, ResetCount, Listen, Pending, keyVars
  <2> QED
    BY <2>1, <2>2
<1>7. CASE UNCHANGED vars
  BY <1>7 DEF vars, pinVars, keyVars, clickVars, timerVars, KeyTypes, KeyFollowsPin, Pending
<1> QED
  BY <1>1, <1>2, <1>3, <1>4, <1>5, <1>6, <1>7 DEF Next, Interrupt

LEMMA ButtonInvHolds == Spec => []ButtonInv
  BY ButtonInitially, ButtonStep, PTL DEF Spec

\* Whatever the interleaving of edges, interrupts and the callback, once every
\* edge is handled the driver has the key as it is.
THEOREM NoEdgeIsLost == Spec => []KeyFollowsPin
<1>1. ButtonInv => KeyFollowsPin
  BY DEF ButtonInv
<1> QED
  BY <1>1, ButtonInvHolds, PTL

\* A short press that is counted has a timer or a callback to report it.
THEOREM NoClickIsLost == Spec => []CountedIsPending
<1>1. ButtonInv => CountedIsPending
  BY DEF ButtonInv, Pending, CountedIsPending
<1> QED
  BY <1>1, ButtonInvHolds, PTL

-----------------------------------------------------------------------------
(***************************************************************************)
(* Types.  The count of clicks stays below DOUBLE_CLICK_COUNT because the  *)
(* press that would reach it is reported and clears it.                    *)
(***************************************************************************)

\* What clickVars and the times must be, without the words.
CountTypes ==
  /\ firstTime \in 0..(Wrap - 1) /\ secondTime \in 0..(Wrap - 1)
  /\ clock \in 0..(Wrap - 1) /\ age \in 0..Wrap
  /\ clickCount \in 0..(DOUBLE_CLICK_COUNT - 1)
  /\ clickTimer \in {Off} \cup 0..SingleDelay
  /\ shorts \in Int

WordTypes ==
  /\ level \in {"HIGH", "LOW"}
  /\ isr \in {"out", "settle"}
  /\ ketEvent \in {"UP", "DOWN"}
  /\ callback \in {"idle", "disarm", "count", "listen"}
  /\ last \in {"none", "short", "medium", "long"}
  /\ report \in {"none", "click", "double", "long"}
  /\ status \in BOOLEAN /\ forceExit \in BOOLEAN /\ cut \in BOOLEAN
  /\ attended \in BOOLEAN

LEMMA CountInit == Init => CountTypes /\ WordTypes
<1>1. SUFFICES ASSUME Init PROVE CountTypes /\ WordTypes
  OBVIOUS
<1>2. 0 \in 0..(Wrap - 1) /\ Wrap \in 0..Wrap /\ 0 \in 0..(DOUBLE_CLICK_COUNT - 1) /\ 0 \in Int
  BY ButtonAssumption DEF DOUBLE_CLICK_COUNT
<1>3. CountTypes
  BY <1>1, <1>2 DEF Init, CountTypes
<1>4. WordTypes
  BY <1>1 DEF Init, WordTypes
<1> QED
  BY <1>3, <1>4

LEMMA LeaveIrqCounts ==
  ASSUME CountTypes, LeaveIrq
  PROVE  CountTypes'
<1>0. /\ clock' = clock /\ SingleDelay \in 0..SingleDelay
      /\ 0 \in 0..(DOUBLE_CLICK_COUNT - 1) /\ 0 \in 0..Wrap
  BY ButtonAssumption DEF LeaveIrq, DOUBLE_CLICK_COUNT
<1>1. CASE Noise
  BY <1>0, <1>1 DEF Noise, CountTypes, clickVars
<1>2. CASE Pressed
  BY <1>0, <1>2 DEF Pressed, CountTypes
<1>3. CASE LongPress
  BY <1>0, <1>3 DEF LongPress, Lifted, CountTypes, clickVars
<1>4. CASE MediumPress
  BY <1>0, <1>4 DEF MediumPress, Lifted, CountTypes
<1>5. CASE ShortPress
  <2>1. /\ firstTime' = firstTime /\ secondTime' = clock /\ age' = 0
        /\ shorts' \in Int
    BY <1>5 DEF ShortPress, Lifted, CountTypes
  <2>2. clickTimer' = clickTimer \/ clickTimer' = SingleDelay
    BY <1>5 DEF ShortPress, AwaitSecond
  <2>3. clickCount' \in 0..(DOUBLE_CLICK_COUNT - 1)
    BY <1>5 DEF ShortPress, Completes, CountTypes, DOUBLE_CLICK_COUNT
  <2> QED
    BY <1>0, <2>1, <2>2, <2>3 DEF CountTypes
<1> QED
  BY <1>1, <1>2, <1>3, <1>4, <1>5 DEF LeaveIrq

LEMMA LeaveIrqWords ==
  ASSUME WordTypes, LeaveIrq
  PROVE  WordTypes'
<1>0. UNCHANGED <<level, status, callback>> /\ isr' = "out" /\ attended' = TRUE
  BY DEF LeaveIrq
<1>1. cut' \in BOOLEAN
  BY DEF LeaveIrq, WordTypes
<1>2. CASE Noise
  BY <1>0, <1>1, <1>2 DEF Noise, WordTypes, clickVars
<1>3. CASE Pressed
  BY <1>0, <1>1, <1>3 DEF Pressed, WordTypes
<1>4. CASE LongPress \/ MediumPress
  BY <1>0, <1>1, <1>4 DEF LongPress, MediumPress, Lifted, WordTypes, clickVars
<1>5. CASE ShortPress
  BY <1>0, <1>1, <1>5 DEF ShortPress, Lifted, AwaitSecond, WordTypes
<1> QED
  BY <1>2, <1>3, <1>4, <1>5 DEF LeaveIrq

LEMMA TypeStep == CountTypes /\ WordTypes /\ [Next]_vars => CountTypes' /\ WordTypes'
<1>1. SUFFICES ASSUME CountTypes, WordTypes, [Next]_vars PROVE CountTypes' /\ WordTypes'
  OBVIOUS
<1>2. CASE Edge
  BY <1>1, <1>2 DEF Edge, CountTypes, WordTypes, keyVars, clickVars, timerVars
<1>3. CASE Tick
  <2>1. CountTypes'
    <3>1. clock' \in 0..(Wrap - 1) /\ age' \in 0..Wrap
      BY <1>1, <1>3, ButtonAssumption DEF Tick, CountTypes
    <3>2. clickTimer' \in {Off} \cup 0..SingleDelay
      BY <1>1, <1>3, ButtonAssumption DEF Tick, CountTypes, Off
    <3> QED
      BY <1>1, <1>3, <3>1, <3>2 DEF Tick, CountTypes
  <2>2. WordTypes'
    BY <1>1, <1>3 DEF Tick, WordTypes, pinVars, timerVars
  <2> QED
    BY <2>1, <2>2
<1>4. CASE EnterIrq
  BY <1>1, <1>4 DEF EnterIrq, CountTypes, WordTypes, keyVars, clickVars, timerVars
<1>5. CASE LeaveIrq
  BY <1>1, <1>5, LeaveIrqCounts, LeaveIrqWords
<1>6. CASE Callback
  <2>1. CountTypes'
    <3>1. 0 \in 0..(DOUBLE_CLICK_COUNT - 1)
      BY DEF DOUBLE_CLICK_COUNT
    <3> QED
      BY <1>1, <1>6, <3>1
      DEF Callback, Expire, Disarm, ResetCount, Listen, CountTypes, keyVars, pinVars
  <2>2. WordTypes'
    BY <1>1, <1>6
    DEF Callback, Expire, Disarm, ResetCount, Listen, WordTypes, keyVars, pinVars
  <2> QED
    BY <2>1, <2>2
<1>7. CASE UNCHANGED vars
  BY <1>1, <1>7 DEF vars, pinVars, keyVars, clickVars, timerVars, CountTypes, WordTypes
<1> QED
  BY <1>1, <1>2, <1>3, <1>4, <1>5, <1>6, <1>7 DEF Next, Interrupt

\* Types: no more than one click is ever counted, and the timer is never armed for
\* longer than its delay (user_button.c:74, 96).
THEOREM ButtonIsTyped == Spec => []ButtonTypeOK
<1>1. CountTypes /\ WordTypes => ButtonTypeOK
  BY DEF CountTypes, WordTypes, ButtonTypeOK
<1> QED
  BY <1>1, CountInit, TypeStep, PTL DEF Spec

-----------------------------------------------------------------------------
(***************************************************************************)
(* Every report is of presses that were made.                              *)
(***************************************************************************)

\* The press in progress began age units ago, as far as the counter tells.
PressIsTimed ==
  ketEvent = "DOWN" /\ age < Wrap =>
    clock = firstTime + age \/ clock = firstTime + age - Wrap

\* A release never cuts the callback: it would take a press before it, and no second
\* edge comes before the callback's end.
CutByPress ==
  callback # "idle" => ketEvent = "UP" \/ (cut /\ level = "LOW")

\* A timer that runs is of a click that was counted last.
TimerIsOfClick ==
  clickTimer # Off =>
    clickCount > 0 /\ ketEvent = "UP" /\ ~forceExit /\ callback = "idle"

\* What is counted, or is about to be reported, was not reported before.
ReportIsOwed ==
  /\ shorts >= 0
  /\ clickCount > 0 => shorts >= 1
  /\ callback # "idle" /\ ~forceExit => shorts >= 1
  /\ callback = "listen" => clickCount = 0

ReportInv ==
  /\ CountTypes /\ WordTypes
  /\ PressIsTimed /\ CutByPress /\ TimerIsOfClick /\ ReportIsOwed

LEMMA ReportInitially == Init => ReportInv
<1>1. SUFFICES ASSUME Init PROVE ReportInv
  OBVIOUS
<1>2. CountTypes /\ WordTypes
  BY <1>1, CountInit
<1> QED
  BY <1>1, <1>2 DEF Init, ReportInv, PressIsTimed, CutByPress, TimerIsOfClick, ReportIsOwed

\* The time measured is never more than the time that passed.
LEMMA HeldAtMostAge ==
  ASSUME CountTypes, PressIsTimed, ketEvent = "DOWN", age < Wrap
  PROVE  Held =< age
  BY ButtonAssumption DEF CountTypes, PressIsTimed, Held, Elapse

LEMMA LeaveIrqOwes ==
  ASSUME ReportInv, LeaveIrq
  PROVE  PressIsTimed' /\ CutByPress' /\ TimerIsOfClick' /\ ReportIsOwed'
<1>0. /\ UNCHANGED <<level, callback, clock>>
      /\ level \in {"HIGH", "LOW"} /\ ketEvent \in {"UP", "DOWN"}
      /\ PressIsTimed /\ CutByPress /\ TimerIsOfClick /\ ReportIsOwed
  BY DEF LeaveIrq, ReportInv, WordTypes
<1>1. CASE Noise /\ UNCHANGED cut
  BY <1>0, <1>1
  DEF Noise, clickVars, PressIsTimed, CutByPress, TimerIsOfClick, ReportIsOwed
<1>2. CASE Pressed /\ cut' = (callback # "idle")
  <2>1. PressIsTimed'
    BY <1>0, <1>2 DEF Pressed, PressIsTimed, ReportInv, CountTypes
  <2>2. CutByPress'
    BY <1>0, <1>2 DEF Pressed, CutByPress
  <2>3. TimerIsOfClick'
    BY <1>0, <1>2 DEF Pressed, TimerIsOfClick, ReportInv, CountTypes, DOUBLE_CLICK_COUNT
  <2>4. ReportIsOwed'
    BY <1>0, <1>2 DEF Pressed, ReportIsOwed
  <2> QED
    BY <2>1, <2>2, <2>3, <2>4
<1>3. CASE LongPress \/ MediumPress \/ ShortPress
  <2>1. level = "HIGH" /\ ketEvent = "DOWN" /\ ketEvent' = "UP" /\ callback = "idle"
          /\ clickTimer = Off
    BY <1>0, <1>3 DEF LongPress, MediumPress, ShortPress, Lifted, CutByPress, TimerIsOfClick
  <2>2. PressIsTimed' /\ CutByPress'
    BY <1>0, <2>1 DEF PressIsTimed, CutByPress
  <2>3. CASE LongPress
    BY <1>0, <2>1, <2>2, <2>3 DEF LongPress, clickVars, TimerIsOfClick, ReportIsOwed
  <2>4. CASE MediumPress
    BY <1>0, <2>1, <2>2, <2>4 DEF MediumPress, TimerIsOfClick, ReportIsOwed
  <2>5. CASE ShortPress
    <3>1. CASE Completes
      <4>1. clickCount' = 0 /\ UNCHANGED clickTimer /\ shorts' = shorts - 1
        BY <2>5, <3>1 DEF ShortPress
      <4>2. clickCount > 0 /\ shorts \in Int
        BY <3>1 DEF ReportInv, CountTypes, Completes, DOUBLE_CLICK_COUNT
      <4>3. shorts' >= 0
        BY <1>0, <4>1, <4>2 DEF ReportIsOwed
      <4> QED
        BY <1>0, <2>1, <2>2, <4>1, <4>3 DEF TimerIsOfClick, ReportIsOwed
    <3>2. CASE ~Completes
      <4>1. clickCount' = clickCount + 1 /\ forceExit' = FALSE
              /\ shorts' = IF shorts < Unreported THEN shorts + 1 ELSE shorts
        BY <2>5, <3>2 DEF ShortPress, AwaitSecond
      <4>2. clickCount = 0 /\ clickCount' = 1
        BY <3>2, <4>1 DEF ReportInv, CountTypes, Completes, DOUBLE_CLICK_COUNT
      <4> QED
        BY <1>0, <2>1, <2>2, <4>1, <4>2
          DEF TimerIsOfClick, ReportIsOwed, ReportInv, CountTypes, Unreported
    <3> QED
      BY <3>1, <3>2
  <2> QED
    BY <1>3, <2>3, <2>4, <2>5
<1> QED
  BY <1>1, <1>2, <1>3 DEF LeaveIrq

LEMMA ReportStep == ReportInv /\ [Next]_vars => ReportInv'
<1>1. SUFFICES ASSUME ReportInv, [Next]_vars PROVE ReportInv'
  OBVIOUS
<1>2. CountTypes' /\ WordTypes'
  BY <1>1, TypeStep DEF ReportInv
<1> USE <1>1, <1>2 DEF ReportInv
<1>3. CASE Edge
  BY <1>3 DEF Edge, keyVars, clickVars, timerVars, PressIsTimed, CutByPress, TimerIsOfClick,
              ReportIsOwed
<1>4. CASE Tick
  <2>1. PressIsTimed'
    BY <1>4, ButtonAssumption DEF Tick, CountTypes, PressIsTimed
  <2>2. CutByPress' /\ TimerIsOfClick' /\ ReportIsOwed'
    BY <1>4 DEF Tick, pinVars, timerVars, CutByPress, TimerIsOfClick, ReportIsOwed
  <2> QED
    BY <2>1, <2>2
<1>5. CASE EnterIrq
  BY <1>5 DEF EnterIrq, keyVars, clickVars, timerVars, PressIsTimed, CutByPress,
              TimerIsOfClick, ReportIsOwed
<1>6. CASE LeaveIrq
  BY <1>6, LeaveIrqOwes
<1>7. CASE Callback
  <2>1. PressIsTimed'
    BY <1>7 DEF Callback, Expire, Disarm, ResetCount, Listen, keyVars, PressIsTimed
  <2>2. CutByPress'
    <3>1. CASE Expire
      BY <3>1, ButtonAssumption DEF Expire, pinVars, keyVars, CutByPress, TimerIsOfClick, Off
    <3>2. CASE Disarm \/ ResetCount \/ Listen
      BY <3>2 DEF Disarm, ResetCount, Listen, pinVars, keyVars, CutByPress
    <3> QED
      BY <1>7, <3>1, <3>2 DEF Callback
  <2>3. TimerIsOfClick'
    BY <1>7 DEF Callback, Expire, Disarm, ResetCount, Listen, keyVars, TimerIsOfClick
  <2>4. ReportIsOwed'
    <3>1. CASE Expire
      <4>1. clickTimer # Off
        BY <3>1 DEF Expire, Off
      <4> QED
        BY <3>1, <4>1 DEF Expire, TimerIsOfClick, ReportIsOwed
    <3>2. CASE Disarm \/ ResetCount
      BY <3>2 DEF Disarm, ResetCount, ReportIsOwed
    <3>3. CASE Listen
      BY <3>3 DEF Listen, ReportIsOwed, CountTypes
    <3> QED
      BY <1>7, <3>1, <3>2, <3>3 DEF Callback
  <2> QED
    BY <2>1, <2>2, <2>3, <2>4
<1>8. CASE UNCHANGED vars
  BY <1>8 DEF vars, pinVars, keyVars, clickVars, timerVars, PressIsTimed, CutByPress,
              TimerIsOfClick, ReportIsOwed
<1> QED
  BY <1>1, <1>3, <1>4, <1>5, <1>6, <1>7, <1>8 DEF Next, Interrupt

\* A listener is only called for presses that were made, whatever the interleaving
\* of the interrupt with the callback and however often the counter wraps
\* (user_button.c:60-125).
THEOREM NoReportIsMadeUp == Spec => ReportsArePresses
<1> DEFINE Made == /\ report' = "click" => shorts >= 1
                   /\ report' = "double" => shorts >= 1 /\ last' = "short"
                   /\ report' = "long" => age > LongClick
<1>1. ASSUME ReportInv, Next PROVE Made
  <2>1. CASE Edge \/ Tick \/ EnterIrq \/ Expire \/ Disarm \/ ResetCount
    BY <2>1 DEF Edge, Tick, EnterIrq, Expire, Disarm, ResetCount
  <2>2. CASE Listen
    BY <1>1, <2>2 DEF Listen, ReportInv, ReportIsOwed
  <2>3. CASE LeaveIrq
    <3>1. CASE Noise \/ Pressed \/ MediumPress
      BY <3>1 DEF Noise, Pressed, MediumPress
    <3>2. CASE LongPress
      <4>1. ketEvent = "DOWN" /\ Held > LongClick /\ report' = "long"
        BY <3>2 DEF LongPress, Lifted
      <4>2. age < Wrap => Held =< age
        BY <1>1, <4>1, HeldAtMostAge DEF ReportInv
      <4>3. Held \in Int /\ age \in 0..Wrap
        BY <1>1, ButtonAssumption DEF ReportInv, CountTypes, Held, Elapse
      <4> QED
        BY <4>1, <4>2, <4>3, ButtonAssumption
    <3>3. CASE ShortPress
      <4>1. CASE Completes
        <5>1. clickCount > 0
          BY <1>1, <4>1 DEF ReportInv, CountTypes, Completes, DOUBLE_CLICK_COUNT
        <5> QED
          BY <1>1, <3>3, <4>1, <5>1 DEF ShortPress, ReportInv, ReportIsOwed
      <4>2. CASE ~Completes
        BY <3>3, <4>2 DEF ShortPress
      <4> QED
        BY <4>1, <4>2
    <3> QED
      BY <2>3, <3>1, <3>2, <3>3 DEF LeaveIrq
  <2> QED
    BY <1>1, <2>1, <2>2, <2>3 DEF Next, Interrupt, Callback
<1>2. ReportInv /\ [Next]_vars => [Made]_vars
  BY <1>1
<1>3. ReportInv /\ [Next]_vars => ReportInv'
  BY ReportStep
<1> HIDE DEF Made
<1>4. Spec => [][Made]_vars
  BY <1>2, <1>3, ReportInitially, PTL DEF Spec
<1> QED
  BY <1>4 DEF ReportsArePresses, Made

=============================================================================
