------------------------------- MODULE Panel -------------------------------
(***************************************************************************)
(* The e-paper driver, src/app/driver/ssd1675b.c, with the panel at the    *)
(* other end of its wires and the functions of user_main.c that draw and   *)
(* refresh.                                                                *)
(*                                                                         *)
(* A picture is a number.  The driver runs to completion: a refresh is one *)
(* step, made of the driver's calls, each of which takes the record of its *)
(* variables, the pins and the panel to the next one.                      *)
(***************************************************************************)
EXTENDS Integers, Sequences, FiniteSets

CONSTANTS
  Pictures,     \* what can be drawn
  Timeout,      \* EPD_REFRESH_TIMEOUT / 500
  MaxRefreshes  \* bound: refreshes

ASSUME PanelAssumption == Timeout \in 1..255 /\ MaxRefreshes \in Nat /\ Pictures # {}

VARIABLES
  d,        \* the driver's variables, the pins and the panel
  updating, \* EVENT_UPDATE_EPD waits in the delay slot (user_main.c:997)
  posted    \* MAIN_EVENT_EPD_FINISH posted so far

vars == <<d, updating, posted>>

Low == 0
High == 1
COMMAND_TYPE == 0
DATA_TYPE == 1
UNKNOWN_TYPE == 2
White == 0
Unknown == -1

\* buffer is the display RAM; busyOut: the driver puts the BUSY pin high itself;
\* misread: a byte reached the panel as something else than what was sent.
Driver ==
  [epd_status : {"IDLE", "BUSY"}, timer : BOOLEAN, sleepTimeOut : 0..255,
   transfer_type : {COMMAND_TYPE, DATA_TYPE, UNKNOWN_TYPE}, dc : {Low, High},
   buffer : Pictures \cup {White}, power : BOOLEAN, busyOut : BOOLEAN,
   panel : {"off", "reset", "ready", "refreshing", "shown", "asleep"},
   ram : Pictures \cup {White, Unknown}, image : Pictures \cup {White, Unknown},
   misread : BOOLEAN, refreshes : 0..MaxRefreshes]

-----------------------------------------------------------------------------
(***************************************************************************)
(* The driver's functions.                                                 *)
(***************************************************************************)

\* EPDGpioSetup: the power is off until EPDReset, and BUSY is an input.
EPDGpioSetup(e) ==
  [e EXCEPT !.power = FALSE, !.busyOut = FALSE, !.timer = FALSE,
            !.panel = "off", !.ram = Unknown]

EPDReset(e) == [e EXCEPT !.epd_status = "IDLE", !.power = TRUE, !.panel = "reset"]

\* Seeded bug: the level of the pin is kept by what was sent, not by what it is.
SendMutant(e, type) ==
  [e EXCEPT !.transfer_type = type,
            !.dc = IF e.transfer_type = UNKNOWN_TYPE THEN type ELSE @,
            !.misread = @ \/ (e.transfer_type # UNKNOWN_TYPE /\ e.dc # type)]

\* SoftSpiSendByte: D/C is set when the type is not that of the last byte.
Send(e, type) ==
  LET dc == IF e.transfer_type # type THEN type ELSE e.dc
  IN  [e EXCEPT !.transfer_type = type, !.dc = dc,
                !.misread = @ \/ dc # type \/ e.panel \in {"off", "asleep"}]

\* A command with its data, as all of them are but MASTER_ACTIVATION.
Command(e) == Send(Send(e, COMMAND_TYPE), DATA_TYPE)

EPDInit(e) == IF e.epd_status = "BUSY" THEN e ELSE [Command(e) EXCEPT !.panel = "ready"]

\* EPDFlush and EPDFillData.
EPDFlush(e) == IF e.epd_status = "BUSY" THEN e ELSE [Command(e) EXCEPT !.ram = e.buffer]

\* EPDDoSleep: the pins are left high, BUSY with them, and the power is cut.
EPDDoSleep(e) ==
  [Command(e) EXCEPT !.transfer_type = UNKNOWN_TYPE, !.dc = High, !.busyOut = TRUE,
                     !.panel = "off", !.power = FALSE]

\* What GPIO_INPUT_GET reads at the BUSY pin.
BusyPin(e) == IF e.busyOut \/ e.panel = "refreshing" THEN High ELSE Low

EPDAutoSleep(e) ==
  IF BusyPin(e) = High
  THEN [e EXCEPT !.sleepTimeOut = 0, !.epd_status = "BUSY", !.timer = TRUE]
  ELSE [EPDDoSleep(e) EXCEPT !.sleepTimeOut = 0, !.epd_status = "IDLE"]

\* EPDTurnOnDisplay, on a panel that starts to refresh or, being broken, does not.
EPDTurnOnDisplay(e, works) ==
  IF e.epd_status = "BUSY" THEN e
  ELSE LET sent == Send(Command(e), COMMAND_TYPE)
       IN  EPDAutoSleep([sent EXCEPT !.panel = IF works THEN "refreshing" ELSE @,
                                     !.image = IF works THEN Unknown ELSE @])

-----------------------------------------------------------------------------
(***************************************************************************)
(* The actions.                                                            *)
(***************************************************************************)

\* EPDGpioSetup and EPDDisplayRAMInit, at the start.
Init ==
  /\ d = [epd_status |-> "IDLE", timer |-> FALSE, sleepTimeOut |-> 0,
          transfer_type |-> UNKNOWN_TYPE, dc |-> Low, buffer |-> White,
          power |-> FALSE, busyOut |-> FALSE, panel |-> "off", ram |-> Unknown,
          image |-> Unknown, misread |-> FALSE, refreshes |-> 0]
  /\ updating = FALSE
  /\ posted = 0

\* EPDDisplayClear and a page, an image or a message, then postEventDelay: at any
\* time, also while the panel refreshes.
Draw ==
  /\ \E p \in Pictures : d' = [d EXCEPT !.buffer = p]
  /\ updating' = TRUE
  /\ UNCHANGED posted

\* Seeded bug: a refresh does not wait for the one before.
MayRefreshMutant == TRUE

\* user_main.c:954.
MayRefresh == d.epd_status = "IDLE"

\* postDelayTimerCallback of EVENT_UPDATE_EPD: nothing happens while the panel
\* refreshes, and what was drawn is not shown.
Refresh ==
  /\ updating
  /\ d.refreshes < MaxRefreshes
  /\ updating' = FALSE
  /\ IF MayRefresh
     THEN \E works \in BOOLEAN :
            LET on == EPDTurnOnDisplay(EPDFlush(EPDInit(EPDReset(EPDGpioSetup(d)))), works)
            IN  /\ d' = [on EXCEPT !.refreshes = @ + 1]
                /\ posted' = IF on.epd_status = "IDLE" THEN posted + 1 ELSE posted
     ELSE UNCHANGED <<d, posted>>

\* The panel shows what was flushed, and lowers BUSY.
PanelDone ==
  /\ d.panel = "refreshing"
  /\ d' = [d EXCEPT !.panel = "shown", !.image = d.ram]
  /\ UNCHANGED <<updating, posted>>

\* Seeded bug: the driver waits for the panel only.
RefreshOverMutant(e) == BusyPin(e) = Low

\* The time-out or the BUSY pin ends a refresh (ssd1675b.c:216).
RefreshOver(e) == e.sleepTimeOut >= Timeout \/ BusyPin(e) = Low

\* timerCallback, each half second.  sleepTimeOut is a byte.
Tick ==
  LET e == [d EXCEPT !.sleepTimeOut = (@ + 1) % 256]
  IN  /\ d.timer
      /\ d' = IF RefreshOver(e)
              THEN [EPDDoSleep(e) EXCEPT !.timer = FALSE, !.epd_status = "IDLE"] ELSE e
      /\ posted' = IF RefreshOver(e) THEN posted + 1 ELSE posted
      /\ UNCHANGED updating

Next == Draw \/ Refresh \/ PanelDone \/ Tick

\* The timer repeats until it is disarmed; nothing is assumed of the panel.
Spec == Init /\ [][Next]_vars /\ WF_vars(Tick)

-----------------------------------------------------------------------------
(***************************************************************************)
(* Properties.                                                             *)
(***************************************************************************)

PanelTypeOK == d \in Driver /\ updating \in BOOLEAN /\ posted \in 0..MaxRefreshes

\* Each refresh posts MAIN_EVENT_EPD_FINISH once, when it is over: the handler of
\* that event puts the station to sleep (user_main.c:760).
FinishesOnce == posted = d.refreshes - (IF d.epd_status = "BUSY" THEN 1 ELSE 0)

\* The timer runs and the panel has power while a refresh goes on, and only then.
PowerFollowsRefresh ==
  d.power = (d.epd_status = "BUSY") /\ d.timer = (d.epd_status = "BUSY")

\* Each byte reaches a panel that is on, as the command or the data it is
\* (ssd1675b.c:136).
BytesAreRead == ~d.misread

\* The driver, its timer, the pins and the panel agree after each step.
DriverAgrees == PanelTypeOK /\ FinishesOnce /\ PowerFollowsRefresh /\ BytesAreRead

\* A refresh is not cut short before its time-out, and a panel that has shown a
\* picture shows what was in the display RAM when it was flushed, whatever is drawn
\* meanwhile (ssd1675b.c:215).
RefreshIsWhole ==
  [][/\ d.panel = "refreshing" /\ d'.panel # "refreshing" =>
          (d'.panel = "shown" /\ d'.image = d.ram) \/ d.sleepTimeOut + 1 = Timeout
     /\ d.panel = "refreshing" /\ d'.panel = "refreshing" => d'.ram = d.ram]_vars

\* The driver comes to rest by itself, also when BUSY stays high (ssd1675b.c:216).
ComesToRest == d.epd_status = "BUSY" ~> ~d.power

=============================================================================
