---------------------------- MODULE Panel_proofs ----------------------------
(***************************************************************************)
(* The e-paper driver for every set of pictures, every time-out that fits  *)
(* its byte and every number of refreshes: the driver, its timer, the pins *)
(* and the panel agree, and a refresh is not cut short.                    *)
(***************************************************************************)
EXTENDS Panel, TLAPS

\* The panel is on, and the pin has the level of the type that was sent last.
Listening(e) ==
  /\ e \in Driver
  /\ ~e.misread
  /\ e.transfer_type # UNKNOWN_TYPE => e.dc = e.transfer_type
  /\ e.panel \notin {"off", "asleep"}

\* Between refreshes the power is cut and the level of the pin is not known.
AtRest(e) ==
  /\ e \in Driver
  /\ ~e.misread
  /\ e.epd_status = "IDLE" /\ ~e.timer /\ ~e.power
  /\ e.panel = "off"
  /\ e.transfer_type = UNKNOWN_TYPE

\* While one goes on the panel is at work or done, and its pin is an input.
Running(e) ==
  /\ Listening(e)
  /\ e.epd_status = "BUSY" /\ e.timer /\ e.power
  /\ ~e.busyOut
  /\ e.panel \in {"refreshing", "shown"}

\* While a refresh goes on its time-out has not come, and its event is still due.
PanelInv ==
  /\ AtRest(d) \/ (Running(d) /\ d.sleepTimeOut < Timeout)
  /\ updating \in BOOLEAN
  /\ posted \in Nat
  /\ FinishesOnce

-----------------------------------------------------------------------------
(***************************************************************************)
(* What the functions of the driver do.                                    *)
(***************************************************************************)

\* Values that the functions give the fields of a driver keep its type.
LEMMA StatusIsTyped ==
  ASSUME NEW e \in Driver
  PROVE  /\ [e EXCEPT !.sleepTimeOut = 0, !.epd_status = "IDLE"] \in Driver
         /\ [e EXCEPT !.sleepTimeOut = 0, !.epd_status = "BUSY", !.timer = TRUE] \in Driver
         /\ [e EXCEPT !.timer = FALSE, !.epd_status = "IDLE"] \in Driver
<1>1. 0 \in 0..255
  OBVIOUS
<1>2. [e EXCEPT !.sleepTimeOut = 0, !.epd_status = "IDLE"] \in Driver
  BY <1>1 DEF Driver
<1>3. [e EXCEPT !.sleepTimeOut = 0, !.epd_status = "BUSY", !.timer = TRUE] \in Driver
  BY <1>1 DEF Driver
<1>4. [e EXCEPT !.timer = FALSE, !.epd_status = "IDLE"] \in Driver
  BY DEF Driver
<1> QED  BY <1>2, <1>3, <1>4

\* The fields that no byte that is sent disturbs.
Kept(e, f) ==
  /\ f.epd_status = e.epd_status
  /\ f.timer = e.timer
  /\ f.sleepTimeOut = e.sleepTimeOut
  /\ f.power = e.power
  /\ f.busyOut = e.busyOut
  /\ f.panel = e.panel
  /\ f.refreshes = e.refreshes

LEMMA SendIsRead ==
  ASSUME NEW e, Listening(e), NEW type \in {COMMAND_TYPE, DATA_TYPE}
  PROVE  /\ Listening(Send(e, type))
         /\ Kept(e, Send(e, type))
<1> DEFINE dc == IF e.transfer_type # type THEN type ELSE e.dc
           f == [e EXCEPT !.transfer_type = type, !.dc = type, !.misread = FALSE]
<1>1. dc = type
  BY DEF Listening, COMMAND_TYPE, DATA_TYPE, UNKNOWN_TYPE
<1>2. (e.misread \/ dc # type \/ e.panel \in {"off", "asleep"}) = FALSE
  BY <1>1 DEF Listening
<1>3. Send(e, type) = f
  BY <1>1, <1>2 DEF Send, Listening, Driver
<1>4. f \in Driver
  BY DEF Listening, Driver, COMMAND_TYPE, DATA_TYPE, UNKNOWN_TYPE, Low, High
<1>5. Kept(e, f)
  BY DEF Kept, Listening, Driver
<1>6. ~f.misread /\ f.dc = f.transfer_type /\ f.panel = e.panel
  BY DEF Listening, Driver
<1> HIDE DEF f
<1> QED  BY <1>3, <1>4, <1>5, <1>6 DEF Listening

LEMMA CommandIsRead ==
  ASSUME NEW e, Listening(e)
  PROVE  Listening(Command(e)) /\ Kept(e, Command(e))
<1>1. Listening(Send(e, COMMAND_TYPE)) /\ Kept(e, Send(e, COMMAND_TYPE))
  BY SendIsRead
<1>2. Listening(Command(e)) /\ Kept(Send(e, COMMAND_TYPE), Command(e))
  BY <1>1, SendIsRead DEF Command
<1> QED  BY <1>1, <1>2 DEF Kept

\* EPDDoSleep cuts the power, and forgets the level of the pin.
LEMMA SleepCutsPower ==
  ASSUME NEW e, Listening(e), NEW f,
         \/ ~e.timer /\ f = [EPDDoSleep(e) EXCEPT !.sleepTimeOut = 0, !.epd_status = "IDLE"]
         \/ f = [EPDDoSleep(e) EXCEPT !.timer = FALSE, !.epd_status = "IDLE"]
  PROVE  AtRest(f) /\ f.refreshes = e.refreshes
<1> DEFINE c == Command(e)
<1>1. c \in Driver /\ ~c.misread /\ c.timer = e.timer /\ c.refreshes = e.refreshes
  BY CommandIsRead DEF Kept, Listening
<1>2. EPDDoSleep(e) = [c EXCEPT !.transfer_type = UNKNOWN_TYPE, !.dc = High,
                                !.busyOut = TRUE, !.panel = "off", !.power = FALSE]
  BY DEF EPDDoSleep
<1> HIDE DEF c
<1>3. /\ EPDDoSleep(e) \in Driver
      /\ EPDDoSleep(e).transfer_type = UNKNOWN_TYPE
      /\ EPDDoSleep(e).panel = "off"
      /\ ~EPDDoSleep(e).power
      /\ ~EPDDoSleep(e).misread
      /\ EPDDoSleep(e).timer = e.timer
      /\ EPDDoSleep(e).refreshes = e.refreshes
  BY <1>1, <1>2 DEF Driver, UNKNOWN_TYPE, Low, High
<1>4. CASE ~e.timer /\ f = [EPDDoSleep(e) EXCEPT !.sleepTimeOut = 0, !.epd_status = "IDLE"]
  <2>1. f \in Driver
    BY <1>3, <1>4, StatusIsTyped
  <2>2. /\ f.epd_status = "IDLE" /\ f.panel = "off" /\ f.transfer_type = UNKNOWN_TYPE
        /\ f.timer = EPDDoSleep(e).timer /\ f.power = EPDDoSleep(e).power
        /\ f.misread = EPDDoSleep(e).misread /\ f.refreshes = e.refreshes
    BY <1>3, <1>4 DEF Driver
  <2> QED  BY <1>3, <1>4, <2>1, <2>2 DEF AtRest
<1>5. CASE f = [EPDDoSleep(e) EXCEPT !.timer = FALSE, !.epd_status = "IDLE"]
  <2>1. f \in Driver
    BY <1>3, <1>5, StatusIsTyped
  <2>2. /\ f.epd_status = "IDLE" /\ f.panel = "off" /\ f.transfer_type = UNKNOWN_TYPE
        /\ f.timer = FALSE /\ f.power = EPDDoSleep(e).power
        /\ f.misread = EPDDoSleep(e).misread /\ f.refreshes = e.refreshes
    BY <1>3, <1>5 DEF Driver
  <2> QED  BY <1>3, <2>1, <2>2 DEF AtRest
<1> QED  BY <1>4, <1>5

\* What the calls of postDelayTimerCallback make of a driver at rest: a refresh that
\* goes on, or one that is over at once because the panel never raised BUSY.
LEMMA RefreshStartsOrEnds ==
  ASSUME NEW e, AtRest(e), NEW works \in BOOLEAN, NEW on,
         on = EPDTurnOnDisplay(EPDFlush(EPDInit(EPDReset(EPDGpioSetup(e)))), works)
  PROVE  /\ on.refreshes = e.refreshes
         /\ (Running(on) /\ on.sleepTimeOut = 0) \/ AtRest(on)
<1> DEFINE e1 == EPDReset(EPDGpioSetup(e))
           e2 == EPDInit(e1)
           e3 == EPDFlush(e2)
           e4 == Send(Command(e3), COMMAND_TYPE)
           e5 == [e4 EXCEPT !.panel = IF works THEN "refreshing" ELSE @,
                            !.image = IF works THEN Unknown ELSE @]
           On(f) == /\ Listening(f)
                    /\ f.epd_status = "IDLE" /\ ~f.timer /\ f.power /\ ~f.busyOut
                    /\ f.refreshes = e.refreshes
<1>1. On(e1)
  <2> DEFINE g == EPDGpioSetup(e)
  <2>1. /\ g \in Driver /\ ~g.misread /\ g.transfer_type = UNKNOWN_TYPE
        /\ ~g.timer /\ ~g.busyOut /\ g.refreshes = e.refreshes
    <3>1. g \in Driver
      BY ZenonT(60) DEF AtRest, EPDGpioSetup, Driver
    <3>2. /\ g.misread = e.misread /\ g.transfer_type = e.transfer_type
          /\ g.timer = FALSE /\ g.busyOut = FALSE /\ g.refreshes = e.refreshes
      BY DEF AtRest, EPDGpioSetup, Driver
    <3> QED  BY <3>1, <3>2 DEF AtRest
  <2>2. e1 = [g EXCEPT !.epd_status = "IDLE", !.power = TRUE, !.panel = "reset"]
    BY DEF EPDReset
  <2> HIDE DEF g, e1
  <2>3. e1 \in Driver
    BY ZenonT(60), <2>1, <2>2 DEF Driver
  <2>4. /\ e1.misread = g.misread /\ e1.transfer_type = UNKNOWN_TYPE
        /\ e1.panel = "reset" /\ e1.epd_status = "IDLE" /\ e1.power = TRUE
        /\ e1.timer = g.timer /\ e1.busyOut = g.busyOut /\ e1.refreshes = e.refreshes
    BY <2>1, <2>2 DEF Driver
  <2> QED  BY <2>1, <2>3, <2>4 DEF Listening
<1> HIDE DEF e1
<1>2. On(e2) /\ e2.panel = "ready"
  <2>1. On(Command(e1))
    BY <1>1, CommandIsRead DEF Kept
  <2>2. e2 = [Command(e1) EXCEPT !.panel = "ready"]
    BY <1>1 DEF EPDInit
  <2> QED  BY <2>1, <2>2 DEF Listening, Driver
<1> HIDE DEF e2
<1>3. On(e3) /\ e3.panel = "ready"
  <2>1. On(Command(e2)) /\ Command(e2).panel = "ready"
    BY <1>2, CommandIsRead DEF Kept
  <2>2. e3 = [Command(e2) EXCEPT !.ram = e2.buffer]
    BY <1>2 DEF EPDFlush
  <2> QED  BY <1>2, <2>1, <2>2 DEF Listening, Driver
<1> HIDE DEF e3
<1>4. On(e4) /\ e4.panel = "ready"
  <2>1. On(Command(e3)) /\ Command(e3).panel = "ready"
    BY <1>3, CommandIsRead DEF Kept
  <2> QED  BY <2>1, SendIsRead DEF Kept
<1>5. on = EPDAutoSleep(e5)
  BY <1>3 DEF EPDTurnOnDisplay, e1, e2, e3
<1> HIDE DEF e4
<1>6. On(e5) /\ e5.panel = IF works THEN "refreshing" ELSE "ready"
  <2>1. e5 \in Driver
    <3>1. CASE works
      <4>1. e4 \in Driver
        BY <1>4 DEF Listening
      <4>2. [e4 EXCEPT !.panel = "refreshing", !.image = Unknown] \in Driver
        BY <4>1 DEF Driver
      <4>3. e5 = [e4 EXCEPT !.panel = "refreshing", !.image = Unknown]
        BY <3>1
      <4> QED  BY <4>2, <4>3
    <3>2. CASE ~works
      BY ZenonT(60), <1>4, <3>2 DEF Listening, Driver
    <3> QED  BY <3>1, <3>2
  <2>2. /\ e5.panel = IF works THEN "refreshing" ELSE "ready"
        /\ e5.misread = e4.misread /\ e5.transfer_type = e4.transfer_type
        /\ e5.dc = e4.dc /\ e5.epd_status = e4.epd_status /\ e5.power = e4.power
        /\ e5.timer = e4.timer /\ e5.busyOut = e4.busyOut /\ e5.refreshes = e4.refreshes
    BY <1>4 DEF Listening, Driver
  <2> HIDE DEF e5
  <2> QED  BY <1>4, <2>1, <2>2 DEF Listening
<1> HIDE DEF e5
<1>7. CASE works
  <2>1. on = [e5 EXCEPT !.sleepTimeOut = 0, !.epd_status = "BUSY", !.timer = TRUE]
    BY <1>5, <1>6, <1>7 DEF EPDAutoSleep, BusyPin
  <2>2. on \in Driver
    BY <1>6, <2>1, StatusIsTyped DEF Listening
  <2>3. /\ on.sleepTimeOut = 0 /\ on.epd_status = "BUSY" /\ on.timer = TRUE
        /\ on.panel = "refreshing" /\ on.misread = e5.misread
        /\ on.transfer_type = e5.transfer_type /\ on.dc = e5.dc
        /\ on.power = e5.power /\ on.busyOut = e5.busyOut /\ on.refreshes = e.refreshes
    BY <1>6, <1>7, <2>1 DEF Listening, Driver
  <2> QED  BY <1>6, <2>2, <2>3 DEF Running, Listening
<1>8. CASE ~works
  <2>1. on = [EPDDoSleep(e5) EXCEPT !.sleepTimeOut = 0, !.epd_status = "IDLE"]
    BY <1>5, <1>6, <1>8 DEF EPDAutoSleep, BusyPin, Low, High
  <2> QED  BY <1>6, <2>1, SleepCutsPower
<1> QED  BY <1>7, <1>8

-----------------------------------------------------------------------------
(***************************************************************************)
(* The steps.                                                              *)
(***************************************************************************)

LEMMA InvAgrees == PanelInv => DriverAgrees
<1> SUFFICES ASSUME PanelInv PROVE DriverAgrees
  OBVIOUS
<1>1. d \in Driver /\ ~d.misread
  BY DEF PanelInv, AtRest, Running, Listening
<1>2. posted \in 0..MaxRefreshes
  BY <1>1, PanelAssumption DEF PanelInv, FinishesOnce, Driver
<1>3. PowerFollowsRefresh
  <2>1. CASE AtRest(d)
    BY <2>1 DEF AtRest, PowerFollowsRefresh, Driver
  <2>2. CASE Running(d)
    BY <1>1, <2>2 DEF Running, PowerFollowsRefresh, Driver
  <2> QED  BY <2>1, <2>2 DEF PanelInv
<1> QED  BY <1>1, <1>2, <1>3 DEF PanelInv, DriverAgrees, PanelTypeOK, BytesAreRead

LEMMA InitAgrees == Init => PanelInv
<1> SUFFICES ASSUME Init PROVE PanelInv
  OBVIOUS
<1>1. AtRest(d)
  BY PanelAssumption
  DEF Init, AtRest, Driver, UNKNOWN_TYPE, COMMAND_TYPE, DATA_TYPE, Low, High, White, Unknown
<1>2. d.refreshes = 0 /\ d.epd_status = "IDLE" /\ posted = 0 /\ updating = FALSE
  BY DEF Init
<1>3. FinishesOnce
  BY <1>2 DEF FinishesOnce
<1> QED  BY <1>1, <1>2, <1>3 DEF PanelInv

\* A tick counts, or ends the refresh: then the panel is done or the time is over.
LEMMA TickDoes ==
  ASSUME PanelInv, Tick
  PROVE  /\ Running(d) /\ d'.refreshes = d.refreshes
         /\ \/ /\ Running(d') /\ d'.sleepTimeOut < Timeout
               /\ d'.panel = d.panel /\ d'.ram = d.ram
               /\ posted' = posted
            \/ /\ AtRest(d')
               /\ d.panel = "shown" \/ d.sleepTimeOut + 1 = Timeout
               /\ posted' = posted + 1
<1> DEFINE e == [d EXCEPT !.sleepTimeOut = (@ + 1) % 256]
<1>1. Running(d) /\ d.sleepTimeOut < Timeout
  BY DEF PanelInv, AtRest, Tick
<1>2. d \in Driver /\ d.sleepTimeOut \in 0..255
  BY <1>1 DEF Running, Listening, Driver
<1>3. /\ (d.sleepTimeOut + 1) % 256 = d.sleepTimeOut + 1
      /\ d.sleepTimeOut + 1 \in 0..255
  BY <1>1, <1>2, PanelAssumption
<1>4. /\ Running(e)
      /\ e.sleepTimeOut = d.sleepTimeOut + 1
      /\ e.panel = d.panel /\ e.ram = d.ram /\ e.refreshes = d.refreshes
  BY <1>1, <1>2, <1>3 DEF Running, Listening, Driver
<1>5. /\ \/ RefreshOver(e) /\ d' = [EPDDoSleep(e) EXCEPT !.timer = FALSE, !.epd_status = "IDLE"]
         \/ ~RefreshOver(e) /\ d' = e
      /\ posted' = IF RefreshOver(e) THEN posted + 1 ELSE posted
  BY DEF Tick
<1> HIDE DEF e
<1>6. CASE RefreshOver(e)
  <2>1. AtRest(d') /\ d'.refreshes = d.refreshes
    BY <1>4, <1>5, <1>6, SleepCutsPower DEF Running
  <2>2. e.sleepTimeOut >= Timeout \/ e.panel # "refreshing"
    BY <1>6 DEF RefreshOver, BusyPin, Low, High
  <2>3. d.panel = "shown" \/ d.sleepTimeOut + 1 = Timeout
    BY <1>1, <1>2, <1>4, <2>2, PanelAssumption DEF Running
  <2> QED  BY <1>1, <1>5, <1>6, <2>1, <2>3
<1>7. CASE ~RefreshOver(e)
  <2>1. e.sleepTimeOut < Timeout
    BY <1>2, <1>4, <1>7, PanelAssumption DEF RefreshOver
  <2> QED  BY <1>1, <1>4, <1>5, <1>7, <2>1
<1> QED  BY <1>6, <1>7

LEMMA StepAgrees == PanelInv /\ [Next]_vars => PanelInv'
<1> SUFFICES ASSUME PanelInv, [Next]_vars PROVE PanelInv'
  OBVIOUS
<1>1. CASE Draw
  <2>1. PICK p \in Pictures : d' = [d EXCEPT !.buffer = p]
    BY <1>1 DEF Draw
  <2>2. updating' \in BOOLEAN /\ posted' = posted
    BY <1>1 DEF Draw
  <2>3. CASE AtRest(d)
    <3>1. AtRest(d') /\ d'.refreshes = d.refreshes /\ d'.epd_status = d.epd_status
      BY <2>1, <2>3 DEF AtRest, Driver
    <3> QED  BY <2>2, <3>1 DEF PanelInv, FinishesOnce
  <2>4. CASE Running(d) /\ d.sleepTimeOut < Timeout
    <3>1. /\ Running(d') /\ d'.sleepTimeOut = d.sleepTimeOut
          /\ d'.refreshes = d.refreshes /\ d'.epd_status = d.epd_status
      BY <2>1, <2>4 DEF Running, Listening, Driver
    <3> QED  BY <2>2, <2>4, <3>1 DEF PanelInv, FinishesOnce
  <2> QED  BY <2>3, <2>4 DEF PanelInv
<1>2. CASE Refresh
  <2>1. CASE MayRefresh
    <3>1. PICK works \in BOOLEAN :
            LET on == EPDTurnOnDisplay(EPDFlush(EPDInit(EPDReset(EPDGpioSetup(d)))), works)
            IN  /\ d' = [on EXCEPT !.refreshes = @ + 1]
                /\ posted' = IF on.epd_status = "IDLE" THEN posted + 1 ELSE posted
      BY <1>2, <2>1 DEF Refresh
    <3> DEFINE on == EPDTurnOnDisplay(EPDFlush(EPDInit(EPDReset(EPDGpioSetup(d)))), works)
    <3>2. /\ d' = [on EXCEPT !.refreshes = on.refreshes + 1]
          /\ posted' = IF on.epd_status = "IDLE" THEN posted + 1 ELSE posted
      BY <3>1
    <3>3. AtRest(d) /\ d.refreshes \in Nat /\ d.refreshes < MaxRefreshes /\ updating' = FALSE
      BY <1>2, <2>1 DEF Refresh, MayRefresh, PanelInv, AtRest, Running, Driver
    <3>4. /\ on.refreshes = d.refreshes
          /\ (Running(on) /\ on.sleepTimeOut = 0) \/ AtRest(on)
      BY <3>3, RefreshStartsOrEnds
    <3>5. posted = d.refreshes
      BY <3>3 DEF PanelInv, FinishesOnce, AtRest
    <3> HIDE DEF on
    <3>6. CASE Running(on) /\ on.sleepTimeOut = 0
      <4>1. /\ Running(d') /\ d'.sleepTimeOut = 0
            /\ d'.refreshes = d.refreshes + 1 /\ d'.epd_status = "BUSY"
        BY <3>2, <3>3, <3>4, <3>6, PanelAssumption DEF Running, Listening, Driver
      <4>2. posted' = posted
        BY <3>2, <3>6 DEF Running
      <4>3. FinishesOnce'
        BY <3>3, <3>5, <4>1, <4>2 DEF FinishesOnce
      <4>4. 0 < Timeout
        BY PanelAssumption
      <4> QED  BY <3>3, <4>1, <4>2, <4>3, <4>4 DEF PanelInv
    <3>7. CASE AtRest(on)
      <4>1. /\ AtRest(d')
            /\ d'.refreshes = d.refreshes + 1 /\ d'.epd_status = "IDLE"
        BY <3>2, <3>3, <3>4, <3>7, PanelAssumption DEF AtRest, Driver
      <4>2. posted' = posted + 1
        BY <3>2, <3>7 DEF AtRest
      <4>3. FinishesOnce'
        BY <3>3, <3>5, <4>1, <4>2 DEF FinishesOnce
      <4>4. posted' \in Nat
        BY <3>3, <3>5, <4>2
      <4> QED  BY <3>3, <4>1, <4>3, <4>4 DEF PanelInv
    <3> QED  BY <3>4, <3>6, <3>7
  <2>2. CASE ~MayRefresh
    BY <1>2, <2>2 DEF Refresh, PanelInv, FinishesOnce
  <2> QED  BY <2>1, <2>2
<1>3. CASE PanelDone
  <2>1. Running(d) /\ d.sleepTimeOut < Timeout
    BY <1>3 DEF PanelInv, PanelDone, AtRest
  <2>2. /\ Running(d') /\ d'.sleepTimeOut = d.sleepTimeOut
        /\ d'.refreshes = d.refreshes /\ d'.epd_status = d.epd_status
    BY <1>3, <2>1 DEF PanelDone, Running, Listening, Driver
  <2> QED  BY <1>3, <2>1, <2>2 DEF PanelDone, PanelInv, FinishesOnce
<1>4. CASE Tick
  <2>1. d.refreshes \in Nat /\ d.epd_status = "BUSY" /\ updating' = updating
    BY <1>4, TickDoes DEF Tick, Running, Listening, Driver
  <2>2. CASE Running(d') /\ d'.sleepTimeOut < Timeout /\ posted' = posted
    BY <1>4, <2>1, <2>2, TickDoes DEF PanelInv, FinishesOnce, Running
  <2>3. CASE AtRest(d') /\ posted' = posted + 1
    BY <1>4, <2>1, <2>3, TickDoes DEF PanelInv, FinishesOnce, AtRest
  <2> QED  BY <1>4, <2>2, <2>3, TickDoes
<1>5. CASE UNCHANGED vars
  BY <1>5 DEF vars, PanelInv, FinishesOnce
<1> QED  BY <1>1, <1>2, <1>3, <1>4, <1>5 DEF Next

\* The refresh that a tick or a drawing meets is the one that goes on.
LEMMA StepIsWhole ==
  ASSUME PanelInv, [Next]_vars, d.panel = "refreshing"
  PROVE  /\ d'.panel # "refreshing" =>
              (d'.panel = "shown" /\ d'.image = d.ram) \/ d.sleepTimeOut + 1 = Timeout
         /\ d'.panel = "refreshing" => d'.ram = d.ram
<1>1. d \in Driver /\ d.epd_status = "BUSY"
  BY DEF PanelInv, AtRest, Running, Listening
<1>2. CASE Draw
  BY <1>1, <1>2 DEF Draw, Driver
<1>3. CASE Refresh
  BY <1>1, <1>3 DEF Refresh, MayRefresh
<1>4. CASE PanelDone
  BY <1>1, <1>4 DEF PanelDone, Driver
<1>5. CASE Tick
  BY <1>5, TickDoes DEF AtRest
<1>6. CASE UNCHANGED vars
  BY <1>6 DEF vars
<1> QED  BY <1>2, <1>3, <1>4, <1>5, <1>6 DEF Next

-----------------------------------------------------------------------------

\* The driver, its timer, the pins and the panel agree: types are right, the
\* finished event is posted once for each refresh, the power follows the status and
\* every byte is read as what it is (ssd1675b.c:136, 213, 402).
THEOREM DriverAlwaysAgrees == Spec => []DriverAgrees
  BY InvAgrees, InitAgrees, StepAgrees, PTL DEF Spec

\* No refresh is cut short before its time-out, and what is drawn meanwhile does
\* not change the picture (ssd1675b.c:215, user_main.c:954).
THEOREM RefreshIsAlwaysWhole == Spec => RefreshIsWhole
<1>1. PanelInv /\ [Next]_vars =>
        [/\ d.panel = "refreshing" /\ d'.panel # "refreshing" =>
              (d'.panel = "shown" /\ d'.image = d.ram) \/ d.sleepTimeOut + 1 = Timeout
         /\ d.panel = "refreshing" /\ d'.panel = "refreshing" => d'.ram = d.ram]_vars
  BY StepIsWhole
<1> QED  BY <1>1, InitAgrees, StepAgrees, PTL DEF Spec, RefreshIsWhole

=============================================================================
