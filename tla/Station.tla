------------------------------ MODULE Station ------------------------------
(***************************************************************************)
(* The station's main loop (src/app/user/user_main.c): power modes, Wi-Fi  *)
(* events, timers, the delayed event, the e-paper refresh and the requests *)
(* of HttpChain, with the button and the UDP requests that reach them.     *)
(*                                                                         *)
(* The SDK runs timer, network and event callbacks one at a time to their  *)
(* end, so each callback is one action.  The button interrupt only writes  *)
(* delayEventId and arms its timer: cutting a callback short it has the    *)
(* effect it has before or after the callback.                             *)
(*                                                                         *)
(* Time is abstract: a timer that is armed may fire.  Whether a counter of *)
(* UpdateInfo or AutoSleep has reached its compare value, and whether the  *)
(* hour is in the night span, is chosen at each tick.                      *)
(***************************************************************************)
EXTENDS HttpChain

CONSTANTS
  ReconnectMax,   \* WIFI_RECONNECT_MAX
  IdleMax,        \* IDLE_TIMEOUT_MAX, minutes
  Faults,         \* what the network may do: see FaultKinds
  Presses,        \* what the user does with the button
  Requests        \* the UDP requests clients send

FaultKinds == {"no_answer", "closed", "refused", "lost"}
PressKinds == {"click", "double", "long"}
FreezeTypes == {"PREVIEW", "FIXED", "SLEEP"}
ModeRequests == {"NONE", "MODEM", "LIGHT", "SHUTDOWN"}
RequestKinds == FreezeTypes \cup ModeRequests \cup {"update", "reboot", "format"}

ASSUME StationAssumption ==
  /\ ReconnectMax \in Nat
  /\ IdleMax \in Nat \ {0}
  /\ Faults \subseteq FaultKinds
  /\ Presses \subseteq PressKinds
  /\ Requests \subseteq RequestKinds

VARIABLES
  cpu,            \* "on", "light", or "off": deep sleep, restart or no power
  low,            \* hw_get_battery_level() < 20
  stopped,        \* history: a client has stopped the clock, not armed since
  \* RTC memory
  powermode,      \* PowerMode
  clkarm,         \* CLOCKARM_POS
  bootFlag,       \* POWER_ON_REASON_POS = POWER_BY_RESET_SET
  reconnect,      \* RECONNECT_POS
  idleTick,       \* IDLE_TICK_POS
  isEntered,      \* NightSpan.isEntered
  recent,         \* less than a minute since NETUPDATE_POS
  \* timers and the interrupt
  clockTimer,     \* armed
  idleTimer,      \* armed
  delayEventId,   \* while postDelayTimer is armed, "NONE" otherwise
  irq,            \* the GPIO interrupt is on; off once WAKEUP_INTERVAL is set
  \* radio and display
  opmode, link,
  epd,            \* epd_status
  drawn,          \* the display RAM holds what the panel does not show
  \* others
  internet,       \* RUNTIME_INTERNET_BIT
  served,         \* handlerInit done, and the UDP server up
  udpEvent        \* udpEventId while udpTimer is armed, "NONE" otherwise

rtcVars == <<powermode, clkarm, bootFlag, reconnect, idleTick, isEntered, recent>>
timerVars == <<clockTimer, idleTimer, delayEventId, irq>>
radioVars == <<opmode, link>>
epdVars == <<epd, drawn>>
udpVars == <<served, udpEvent>>
vars == <<cpu, low, stopped, rtcVars, timerVars, radioVars, epdVars, internet, udpVars,
          httpVars>>

Types == {"NONE", "MODEM", "LIGHT", "SHUTDOWN", "REBOOT", "BATLOW"}
WifiStates == {"DEFAULT", "ON", "OFF"}
PowerModes == [type : Types, wifiState : WifiStates, refresh : BOOLEAN]

Mode(t, w, r) == [type |-> t, wifiState |-> w, refresh |-> r]

\* Only the type is assigned before the struct is written: the rest is what the
\* stack held.
TypeOnly(t) == \E w \in WifiStates, r \in BOOLEAN : powermode' = Mode(t, w, r)

\* Types are well-formed.
StationTypeOK ==
  /\ HttpTypeOK
  /\ cpu \in {"on", "light", "off"}
  /\ low \in BOOLEAN
  /\ stopped \in BOOLEAN
  /\ powermode \in PowerModes
  /\ clkarm \in BOOLEAN
  /\ bootFlag \in BOOLEAN
  /\ reconnect \in 0..ReconnectMax
  /\ idleTick \in 0..IdleMax
  /\ isEntered \in BOOLEAN
  /\ recent \in BOOLEAN
  /\ clockTimer \in BOOLEAN
  /\ idleTimer \in BOOLEAN
  /\ delayEventId \in {"NONE", "UPDATE_EPD", "DOUBLE_CLICK", "LONG_CLICK"}
  /\ irq \in BOOLEAN
  /\ opmode \in {"NULL", "STATION", "SOFTAP"}
  /\ link \in {"off", "connecting", "associated", "up", "leaving"}
  /\ epd \in {"IDLE", "BUSY"}
  /\ drawn \in BOOLEAN
  /\ internet \in BOOLEAN
  /\ served \in BOOLEAN
  /\ udpEvent \in {"NONE", "SHUTDOWN", "NETUPDATE", "REBOOT"} \cup FreezeTypes

-----------------------------------------------------------------------------
(***************************************************************************)
(* Start.  user_init clears the RTC memory and the timers; memory that is  *)
(* not RTC memory starts at zero.                                          *)
(***************************************************************************)

StationInit ==
  /\ HttpInit
  /\ cpu = "off"
  /\ low \in BOOLEAN
  /\ stopped = FALSE
  /\ powermode = Mode("NONE", "DEFAULT", FALSE)
  /\ clkarm = FALSE
  /\ bootFlag = FALSE
  /\ reconnect = 0
  /\ idleTick = 0
  /\ isEntered = FALSE
  /\ recent = TRUE
  /\ clockTimer = FALSE
  /\ idleTimer = FALSE
  /\ delayEventId = "NONE"
  /\ irq = TRUE
  /\ opmode = "NULL"
  /\ link = "off"
  /\ epd = "IDLE"
  /\ drawn = FALSE
  /\ internet = FALSE
  /\ served = FALSE
  /\ udpEvent = "NONE"

\* Memory and timers after a reset.
Cleared ==
  /\ stopped' = FALSE
  /\ clkarm' = FALSE
  /\ reconnect' = 0
  /\ idleTick' = 0
  /\ isEntered' = FALSE
  /\ recent' = TRUE
  /\ clockTimer' = FALSE
  /\ irq' = TRUE
  /\ link' = "off"
  /\ epd' = "IDLE"
  /\ internet' = FALSE
  /\ served' = FALSE
  /\ udpEvent' = "NONE"
  /\ step' = 0
  /\ open' = FALSE
  /\ timeoutTimer' = FALSE
  /\ isTimeout' = FALSE

-----------------------------------------------------------------------------
(***************************************************************************)
(* Helpers of the callbacks, on disjoint parts of the state.               *)
(***************************************************************************)

\* postEventDelay(EVENT_UPDATE_EPD, ..) after something was drawn.
DrawAndPost == drawn' = TRUE /\ delayEventId' = "UPDATE_EPD"

Undrawn == UNCHANGED <<drawn, delayEventId>>

\* Seeded bug: the flag stays set.
CloseTimerMutant == clockTimer' = FALSE /\ UNCHANGED clkarm

\* closeTimerHandler.
CloseTimer == clockTimer' = FALSE /\ clkarm' = FALSE

ClockKept == UNCHANGED <<clockTimer, clkarm>>

\* wifi_station_disconnect: the event comes later.
LeaveWifi ==
  /\ link' = IF link = "off" THEN "off" ELSE "leaving"
  /\ UNCHANGED opmode

\* wifi_set_opmode(STATION_MODE) and wifi_station_connect.
JoinWifi ==
  /\ opmode' = "STATION"
  /\ link' = IF link \in {"associated", "up"} THEN link ELSE "connecting"

\* enterLightSleep.  The interrupt goes off the first time and stays off.
EnterLightSleep == cpu' = "light" /\ irq' = FALSE

StayAwake == UNCHANGED <<cpu, irq>>

\* system_deep_sleep(0) and system_restart.
PowerOff == cpu' = "off"

\* Seeded bug: the picture is drawn and its refresh not posted.
BatteryLowShutdownMutant ==
  TypeOnly("BATLOW") /\ drawn' = TRUE /\ UNCHANGED delayEventId

\* batteryLowShutdown.
BatteryLowShutdown == TypeOnly("BATLOW") /\ DrawAndPost

-----------------------------------------------------------------------------
(***************************************************************************)
(* Power on.                                                               *)
(***************************************************************************)

\* user_init and wifi_mode_setup: setup when there is no configuration or the
\* button is held, and the soft AP waits for a client.  A level of 10 or less
\* stops the start; one between 10 and 20 is low and starts normally.
Boot ==
  /\ cpu = "off"
  /\ cpu' = "on"
  /\ Cleared
  /\ DrawAndPost
  /\ UNCHANGED low
  /\ \/ /\ low
        /\ TypeOnly("BATLOW")
        /\ opmode' = "NULL"
        /\ idleTimer' = FALSE
        /\ bootFlag' = FALSE
     \/ /\ powermode' = Mode("NONE", "DEFAULT", FALSE)
        /\ \E setup \in BOOLEAN :
             /\ opmode' = IF setup THEN "SOFTAP" ELSE "NULL"
             /\ idleTimer' = setup
             /\ bootFlag' = ~setup

\* The battery runs down; it is charged only while the station is off.
BatteryDrains ==
  /\ ~low
  /\ low' = TRUE
  /\ UNCHANGED <<cpu, stopped, rtcVars, timerVars, radioVars, epdVars, internet, udpVars,
                 httpVars>>

BatteryCharged ==
  /\ cpu = "off"
  /\ low
  /\ low' = FALSE
  /\ UNCHANGED <<cpu, stopped, rtcVars, timerVars, radioVars, epdVars, internet, udpVars,
                 httpVars>>

\* The minute of NETUPDATE_POS passes: longer than a refresh, a request and the
\* delays of the posted events.
MinutePasses ==
  /\ cpu = "on"
  /\ recent
  /\ delayEventId = "NONE" /\ udpEvent = "NONE" /\ epd = "IDLE" /\ ~timeoutTimer
  /\ recent' = FALSE
  /\ UNCHANGED <<cpu, low, stopped, powermode, clkarm, bootFlag, reconnect, idleTick,
                 isEntered, timerVars, radioVars, epdVars, internet, udpVars, httpVars>>

-----------------------------------------------------------------------------
(***************************************************************************)
(* Timers.                                                                 *)
(***************************************************************************)

\* In modem sleep the radio is on every other minute, and for a weather update.
RadioRests(weather) ==
  powermode.type = "MODEM" /\ powermode.wifiState = "ON" /\ ~weather

RadioWakes == powermode.type = "MODEM" /\ powermode.wifiState = "OFF"

\* The PowerMode a tick leaves; idle: AutoSleep.tick has reached its compare value.
TickMode(weather, idle) ==
  IF RadioRests(weather) THEN [powermode EXCEPT !.wifiState = "OFF"]
  ELSE IF RadioWakes
       THEN [powermode EXCEPT !.wifiState = "ON", !.refresh = weather]
       ELSE IF powermode.type = "NONE" /\ idle
            THEN [powermode EXCEPT !.type = "LIGHT"]
            ELSE powermode

\* clockTimerCallback, with the counters of UpdateInfo due or not.  A weather
\* update waits for the radio when it wakes, and the time is then not due either.
ClockTick ==
  /\ cpu = "on"
  /\ clockTimer
  /\ UNCHANGED <<cpu, low, stopped, bootFlag, reconnect, idleTick, isEntered, recent,
                 idleTimer, irq, epd, internet, udpVars>>
  /\ \/ /\ low
        /\ BatteryLowShutdown
        /\ ClockKept
        /\ UNCHANGED <<radioVars, httpVars>>
     \/ /\ ~low
        /\ \E weather, time, idle \in BOOLEAN :
             LET request == weather /\ ~RadioWakes
                 redraw == time /\ ~weather
                 sleep == /\ ~request /\ ~redraw
                          /\ TickMode(weather, idle).type = "LIGHT"
                          /\ opmode = "STATION"
             IN  /\ powermode' = TickMode(weather, idle)
                 /\ IF request THEN RequestBasicWeather ELSE UNCHANGED httpVars
                 /\ IF redraw THEN DrawAndPost ELSE Undrawn
                 /\ IF request \/ sleep THEN CloseTimer ELSE ClockKept
                 /\ CASE RadioRests(weather) \/ sleep -> LeaveWifi
                      [] RadioWakes -> JoinWifi
                      [] OTHER -> UNCHANGED radioVars

\* lightSleepWakeupCallback.
LightWake ==
  /\ cpu = "light"
  /\ UNCHANGED <<low, stopped, clkarm, bootFlag, reconnect, idleTick, recent, clockTimer,
                 idleTimer, epd, internet, udpVars, httpVars>>
  /\ \/ /\ low
        /\ BatteryLowShutdown
        /\ cpu' = "on"
        /\ UNCHANGED <<irq, isEntered, radioVars>>
     \/ /\ ~low
        /\ \E night, weather, time \in BOOLEAN :
             LET join == ~night /\ weather
                 redraw == IF night THEN ~isEntered ELSE time /\ ~weather
             IN  /\ isEntered' = night
                 /\ powermode' = IF join THEN [powermode EXCEPT !.refresh = TRUE]
                                         ELSE powermode
                 /\ IF join THEN JoinWifi ELSE UNCHANGED radioVars
                 /\ IF redraw THEN DrawAndPost ELSE Undrawn
                 /\ IF join \/ redraw THEN cpu' = "on" /\ UNCHANGED irq
                                      ELSE EnterLightSleep

\* powerToggleHandler for a shutdown or an idle timeout.
ShowPowerOff == clockTimer' = FALSE /\ UNCHANGED clkarm /\ DrawAndPost

\* Seeded bug: the counter is not written back.
IdleTickMutant ==
  /\ cpu = "on"
  /\ idleTimer
  /\ UNCHANGED <<cpu, low, stopped, clkarm, clockTimer, bootFlag, reconnect, isEntered, recent,
                 idleTick, idleTimer, irq, radioVars, epd, internet, udpVars, httpVars>>
  /\ IF low THEN BatteryLowShutdown ELSE Undrawn /\ UNCHANGED powermode

\* idleTimerCallback.
IdleTick ==
  /\ cpu = "on"
  /\ idleTimer
  /\ UNCHANGED <<cpu, low, stopped, bootFlag, reconnect, isEntered, recent, idleTimer, irq,
                 radioVars, epd, internet, udpVars, httpVars>>
  /\ IF idleTick + 1 >= IdleMax
     THEN /\ powermode' = Mode("SHUTDOWN", "DEFAULT", FALSE)
          /\ ShowPowerOff
          /\ UNCHANGED idleTick
     ELSE /\ idleTick' = idleTick + 1
          /\ IF low THEN BatteryLowShutdown ELSE Undrawn /\ UNCHANGED powermode
          /\ ClockKept

\* postDelayTimerCallback for EVENT_UPDATE_EPD: given up when the panel is busy.
UpdateEpd ==
  /\ delayEventId = "UPDATE_EPD"
  /\ delayEventId' = "NONE"
  /\ epd' = "BUSY"
  /\ drawn' = IF epd = "IDLE" THEN FALSE ELSE drawn
  /\ UNCHANGED <<powermode, clockTimer, clkarm>>

\* The same for EVENT_DOUBLE_CLICK: light sleep after a refresh.
DoubleClicked ==
  /\ delayEventId = "DOUBLE_CLICK"
  /\ UNCHANGED epd
  /\ IF internet /\ opmode \in {"NULL", "STATION"}
     THEN /\ CloseTimer
          /\ powermode' = Mode("LIGHT", "DEFAULT", FALSE)
          /\ DrawAndPost
     ELSE /\ delayEventId' = "NONE"
          /\ UNCHANGED <<powermode, clockTimer, clkarm, drawn>>

\* The same for EVENT_LONG_CLICK: shutdown after a refresh.
LongClicked ==
  /\ delayEventId = "LONG_CLICK"
  /\ powermode' = Mode("SHUTDOWN", "DEFAULT", FALSE)
  /\ ShowPowerOff
  /\ UNCHANGED epd

PostedEvent ==
  /\ cpu = "on"
  /\ UpdateEpd \/ DoubleClicked \/ LongClicked
  /\ UNCHANGED <<cpu, low, stopped, bootFlag, reconnect, idleTick, isEntered, recent,
                 idleTimer, irq, radioVars, internet, udpVars, httpVars>>

-----------------------------------------------------------------------------
(***************************************************************************)
(* The end of a refresh (epdFinishedHandler), after three to ten seconds.  *)
(***************************************************************************)

\* The boot picture is shown: station_info_setup joins the network.
FinishBoot ==
  /\ bootFlag
  /\ bootFlag' = FALSE
  /\ JoinWifi
  /\ StayAwake
  /\ UNCHANGED clockTimer

\* The shown picture was the last thing to do before a sleep.
FinishSleep ==
  /\ ~bootFlag
  /\ powermode.type \in {"LIGHT", "SHUTDOWN"}
  /\ \/ opmode = "NULL" /\ EnterLightSleep /\ UNCHANGED <<radioVars, clockTimer>>
     \/ opmode = "STATION" /\ clockTimer' = FALSE /\ LeaveWifi /\ StayAwake
     \/ /\ opmode = "SOFTAP"
        /\ opmode' = "NULL"
        /\ PowerOff
        /\ UNCHANGED <<link, clockTimer, irq>>
  /\ UNCHANGED bootFlag

FinishBatteryLow ==
  /\ ~bootFlag
  /\ powermode.type = "BATLOW"
  /\ IF opmode = "STATION"
     THEN clockTimer' = FALSE /\ LeaveWifi /\ StayAwake
     ELSE opmode' = "NULL" /\ PowerOff /\ UNCHANGED <<link, clockTimer, irq>>
  /\ UNCHANGED bootFlag

FinishReboot ==
  /\ ~bootFlag
  /\ powermode.type = "REBOOT"
  /\ PowerOff
  /\ UNCHANGED <<radioVars, clockTimer, irq, bootFlag>>

FinishOther ==
  /\ ~bootFlag
  /\ powermode.type \in {"NONE", "MODEM"}
  /\ UNCHANGED <<cpu, irq, radioVars, clockTimer, bootFlag>>

EpdFinished ==
  /\ cpu = "on"
  /\ epd = "BUSY"
  /\ epd' = "IDLE"
  /\ FinishBoot \/ FinishSleep \/ FinishBatteryLow \/ FinishReboot \/ FinishOther
  /\ UNCHANGED <<low, stopped, powermode, clkarm, reconnect, idleTick, isEntered, recent,
                 idleTimer, delayEventId, drawn, internet, udpVars, httpVars>>

-----------------------------------------------------------------------------
(***************************************************************************)
(* Wi-Fi events (wifi_event_callback).                                     *)
(***************************************************************************)

\* EVENT_STAMODE_CONNECTED.
Connected ==
  /\ cpu = "on"
  /\ link = "connecting"
  /\ link' = "associated"
  /\ reconnect' = 0
  /\ UNCHANGED <<cpu, low, stopped, powermode, clkarm, bootFlag, idleTick, isEntered, recent,
                 timerVars, opmode, epdVars, internet, udpVars, httpVars>>

\* EVENT_STAMODE_GOT_IP.
GotIp ==
  /\ cpu = "on"
  /\ link = "associated"
  /\ link' = "up"
  /\ \/ /\ powermode.type = "NONE"
        /\ served' = TRUE
        /\ RequestBasicWeather
        /\ UNCHANGED powermode
     \/ /\ powermode.type # "NONE" /\ powermode.refresh
        /\ powermode' = [powermode EXCEPT !.refresh = FALSE]
        /\ RequestBasicWeather
        /\ UNCHANGED served
     \/ /\ powermode.type # "NONE" /\ ~powermode.refresh
        /\ UNCHANGED <<powermode, served, httpVars>>
  /\ UNCHANGED <<cpu, low, stopped, clkarm, bootFlag, reconnect, idleTick, isEntered, recent,
                 timerVars, opmode, epdVars, internet, udpEvent>>

\* EVENT_STAMODE_DISCONNECTED without a power mode: the SDK tries again, and
\* after ReconnectMax events the station opens its own network.
RetryWifi ==
  /\ powermode.type = "NONE"
  /\ reconnect < ReconnectMax
  /\ reconnect' = reconnect + 1
  /\ link' = IF link = "leaving" THEN "off" ELSE "connecting"
  /\ StayAwake
  /\ ClockKept
  /\ UNCHANGED <<opmode, idleTimer, served, drawn, delayEventId>>

\* Seeded bug: the clock goes on ticking.
OpenSoftApMutant ==
  /\ powermode.type = "NONE"
  /\ reconnect >= ReconnectMax
  /\ served' = FALSE
  /\ idleTimer' = TRUE
  /\ opmode' = "SOFTAP"
  /\ link' = "off"
  /\ DrawAndPost
  /\ StayAwake
  /\ UNCHANGED <<reconnect, clkarm, clockTimer>>

OpenSoftAp ==
  /\ powermode.type = "NONE"
  /\ reconnect >= ReconnectMax
  /\ served' = FALSE
  /\ clockTimer' = FALSE
  /\ idleTimer' = TRUE
  /\ opmode' = "SOFTAP"
  /\ link' = "off"
  /\ DrawAndPost
  /\ StayAwake
  /\ UNCHANGED <<reconnect, clkarm>>

\* Seeded bug: light sleep with the radio still on.
RadioOffMutant ==
  /\ opmode' = IF powermode.type = "LIGHT" THEN opmode ELSE "NULL"
  /\ link' = "off"
  /\ \/ powermode.type = "MODEM" /\ StayAwake
     \/ powermode.type = "LIGHT" /\ EnterLightSleep
     \/ powermode.type \in {"SHUTDOWN", "BATLOW"} /\ PowerOff /\ UNCHANGED irq
  /\ ClockKept
  /\ UNCHANGED <<reconnect, idleTimer, served, drawn, delayEventId>>

\* In the other modes the radio goes off, and the CPU with it.
RadioOff ==
  /\ opmode' = "NULL"
  /\ link' = "off"
  /\ \/ powermode.type = "MODEM" /\ StayAwake
     \/ powermode.type = "LIGHT" /\ EnterLightSleep
     \/ powermode.type \in {"SHUTDOWN", "BATLOW"} /\ PowerOff /\ UNCHANGED irq
  /\ ClockKept
  /\ UNCHANGED <<reconnect, idleTimer, served, drawn, delayEventId>>

\* Before a restart the event changes nothing, and the SDK tries again.
RestartPending ==
  /\ powermode.type = "REBOOT"
  /\ link' = IF link = "leaving" THEN "off" ELSE "connecting"
  /\ StayAwake
  /\ ClockKept
  /\ UNCHANGED <<opmode, reconnect, idleTimer, served, drawn, delayEventId>>

\* A disconnection the station asked for, a refused attempt, or a lost network.
Disconnected ==
  /\ cpu = "on"
  /\ \/ link = "leaving"
     \/ link = "connecting" /\ "refused" \in Faults
     \/ link \in {"associated", "up"} /\ "lost" \in Faults
  /\ RetryWifi \/ OpenSoftAp \/ RadioOff \/ RestartPending
  /\ UNCHANGED <<low, stopped, powermode, bootFlag, idleTick, isEntered, recent, epd,
                 internet, udpEvent, httpVars>>

\* EVENT_SOFTAPMODE_STACONNECTED and _STADISCONNECTED.
ApClient(joins) ==
  /\ cpu = "on"
  /\ opmode = "SOFTAP"
  /\ served # joins
  /\ served' = joins
  /\ reconnect' = IF joins THEN 0 ELSE reconnect
  /\ UNCHANGED <<cpu, low, stopped, powermode, clkarm, bootFlag, idleTick, isEntered, recent,
                 timerVars, radioVars, epdVars, internet, udpEvent, httpVars>>

-----------------------------------------------------------------------------
(***************************************************************************)
(* Requests to the weather and time servers.                               *)
(***************************************************************************)

\* Seeded bug: the clock is armed without its flag.
RequestFinishedMutant ==
  IF low
  THEN BatteryLowShutdown /\ ClockKept /\ UNCHANGED <<internet, isEntered>>
  ELSE /\ internet' = TRUE
       /\ DrawAndPost
       /\ UNCHANGED powermode
       /\ IF ~clkarm /\ powermode.type # "LIGHT"
          THEN clockTimer' = TRUE /\ isEntered' = FALSE /\ UNCHANGED clkarm
          ELSE ClockKept /\ UNCHANGED isEntered

\* requestFinishedHandler: the clock is armed again unless it runs, or the
\* station is about to sleep; loadConfigIntoRTCMenory resets isEntered.
RequestFinished ==
  IF low
  THEN BatteryLowShutdown /\ ClockKept /\ UNCHANGED <<internet, isEntered>>
  ELSE /\ internet' = TRUE
       /\ DrawAndPost
       /\ UNCHANGED powermode
       /\ IF ~clkarm /\ powermode.type # "LIGHT"
          THEN clkarm' = TRUE /\ clockTimer' = TRUE /\ isEntered' = FALSE
          ELSE ClockKept /\ UNCHANGED isEntered

\* The answer of a request; the calendar's sets NETUPDATE_POS when it holds a time.
HttpAnswer ==
  /\ cpu = "on"
  /\ link = "up"
  /\ Received
  /\ UNCHANGED <<cpu, low, bootFlag, reconnect, idleTick, idleTimer, irq,
                 radioVars, epd, udpVars>>
  /\ \/ /\ NextRequest
        /\ UNCHANGED <<powermode, clkarm, isEntered, recent, clockTimer, delayEventId,
                       drawn, internet>>
     \/ /\ LastAnswer
        /\ recent' \in {recent, TRUE}
        /\ RequestFinished
  /\ stopped' = (stopped /\ ~clockTimer')

HttpClosed ==
  /\ cpu = "on"
  /\ "closed" \in Faults
  /\ Closed
  /\ UNCHANGED <<cpu, low, stopped, rtcVars, timerVars, radioVars, epdVars, internet, udpVars>>

\* httpTimeoutHandler: the view is drawn, and nothing else.
HttpTimeout ==
  /\ cpu = "on"
  /\ "no_answer" \in Faults \/ link # "up" \/ ~open
  /\ Expired
  /\ drawn' = TRUE
  /\ UNCHANGED <<cpu, low, stopped, rtcVars, timerVars, radioVars, epd, internet, udpVars>>

-----------------------------------------------------------------------------
(***************************************************************************)
(* The user and UDP clients.                                               *)
(***************************************************************************)

\* userClickListener, 600 ms after the press.
Click ==
  /\ cpu = "on"
  /\ irq
  /\ "click" \in Presses
  /\ internet
  /\ ~recent
  /\ opmode \in {"NULL", "STATION"}
  /\ recent' = TRUE
  /\ CloseTimer
  /\ IF opmode = "NULL"
     THEN /\ powermode' = [powermode EXCEPT !.refresh = TRUE]
          /\ JoinWifi
          /\ UNCHANGED httpVars
     ELSE /\ RequestBasicWeather
          /\ UNCHANGED <<powermode, radioVars>>
  /\ UNCHANGED <<cpu, low, stopped, bootFlag, reconnect, idleTick, isEntered, idleTimer,
                 delayEventId, irq, epdVars, internet, udpVars>>

\* userDoubleClickListener and userLongClickListener, in the interrupt.
Press(kind, evt) ==
  /\ cpu = "on"
  /\ irq
  /\ kind \in Presses
  /\ delayEventId' = evt
  /\ UNCHANGED <<cpu, low, stopped, rtcVars, clockTimer, idleTimer, irq, radioVars, epdVars,
                 internet, udpVars, httpVars>>

\* A client with a token reaches the UDP server.
Reachable == cpu = "on" /\ served /\ (link = "up" \/ opmode = "SOFTAP")

\* onPowerModeRequest, writing.  Without a connected station only NONE and
\* SHUTDOWN are allowed.
PowerModeRequest(type) ==
  /\ Reachable
  /\ type \in Requests
  /\ (opmode = "STATION" /\ internet) \/ type \in {"NONE", "SHUTDOWN"}
  /\ powermode' = Mode(type, IF type = "NONE" THEN "DEFAULT" ELSE "ON", FALSE)
  /\ udpEvent' = IF type = "SHUTDOWN" THEN "SHUTDOWN" ELSE udpEvent
  /\ UNCHANGED <<cpu, low, stopped, clkarm, bootFlag, reconnect, idleTick, isEntered, recent,
                 timerVars, radioVars, epdVars, internet, served, httpVars>>

\* onNetUpdateRequest, at most once a minute.
NetUpdateRequest ==
  /\ Reachable
  /\ "update" \in Requests
  /\ internet
  /\ ~recent
  /\ recent' = TRUE
  /\ udpEvent' = "NETUPDATE"
  /\ UNCHANGED <<cpu, low, stopped, powermode, clkarm, bootFlag, reconnect, idleTick,
                 isEntered, timerVars, radioVars, epdVars, internet, served, httpVars>>

\* onFsFormatRequest: the clock is stopped before the sectors are erased, whatever
\* the range asked for, and no handler arms it again.  Its limit of the battery is
\* below the one of low.
FormatRequest ==
  /\ Reachable
  /\ "format" \in Requests
  /\ CloseTimer
  /\ stopped' = TRUE
  /\ UNCHANGED <<cpu, low, powermode, bootFlag, reconnect, idleTick, isEntered, recent,
                 idleTimer, delayEventId, irq, radioVars, epdVars, internet, udpVars,
                 httpVars>>

\* onRebootRequest and freezeFrame.
DeferRequest(evt) ==
  /\ Reachable
  /\ \/ evt \in Requests \cap FreezeTypes
     \/ evt = "REBOOT" /\ "reboot" \in Requests
  /\ udpEvent' = evt
  /\ UNCHANGED <<cpu, low, stopped, rtcVars, timerVars, radioVars, epdVars, internet, served,
                 httpVars>>

\* displayImageHandler for a picture that is there and well-formed.
ShowImage(t) ==
  /\ DrawAndPost
  /\ IF t = "PREVIEW" THEN ClockKept ELSE CloseTimer
  /\ stopped' = (stopped \/ t = "FIXED")
  /\ IF t = "SLEEP" THEN TypeOnly("SHUTDOWN") ELSE UNCHANGED powermode

\* udpTimerCallback.  A freeze is given up when another file request came in
\* between, the panel is busy or the picture is not one.
UdpTimer ==
  /\ cpu = "on"
  /\ udpEvent # "NONE"
  /\ udpEvent' = "NONE"
  /\ UNCHANGED <<low, bootFlag, reconnect, idleTick, isEntered, recent, idleTimer, irq,
                 radioVars, epd, internet, served>>
  /\ \/ /\ udpEvent = "SHUTDOWN"
        /\ ShowPowerOff
        /\ UNCHANGED <<cpu, stopped, powermode, httpVars>>
     \/ /\ udpEvent = "NETUPDATE"
        /\ CloseTimer
        /\ RequestBasicWeather
        /\ Undrawn
        /\ UNCHANGED <<cpu, stopped, powermode>>
     \/ /\ udpEvent = "REBOOT"
        /\ \/ /\ powermode' = [powermode EXCEPT !.type = "REBOOT"]
              /\ ShowPowerOff
              /\ UNCHANGED cpu
           \/ /\ PowerOff
              /\ Undrawn
              /\ ClockKept
              /\ UNCHANGED powermode
        /\ UNCHANGED <<stopped, httpVars>>
     \/ /\ udpEvent \in FreezeTypes
        /\ epd = "IDLE"
        /\ ShowImage(udpEvent)
        /\ UNCHANGED <<cpu, httpVars>>
     \/ /\ udpEvent \in FreezeTypes
        /\ Undrawn
        /\ ClockKept
        /\ UNCHANGED <<cpu, stopped, powermode, httpVars>>

-----------------------------------------------------------------------------

Environment ==
  \/ Boot
  \/ BatteryDrains
  \/ BatteryCharged
  \/ MinutePasses
  \/ \E joins \in BOOLEAN : ApClient(joins)
  \/ Click
  \/ Press("double", "DOUBLE_CLICK")
  \/ Press("long", "LONG_CLICK")
  \/ \E type \in ModeRequests : PowerModeRequest(type)
  \/ NetUpdateRequest
  \/ FormatRequest
  \/ \E evt \in FreezeTypes \cup {"REBOOT"} : DeferRequest(evt)

Callbacks ==
  \/ ClockTick
  \/ LightWake
  \/ IdleTick
  \/ PostedEvent
  \/ EpdFinished
  \/ Connected
  \/ GotIp
  \/ Disconnected
  \/ HttpAnswer
  \/ HttpClosed
  \/ HttpTimeout
  \/ UdpTimer

Next == Environment \/ Callbacks

Spec == StationInit /\ [][Next]_vars

\* An armed timer fires, a refresh ends, an attempt to join ends one way or the
\* other, and a disconnection that was asked for is reported.
FairSpec ==
  /\ Spec
  /\ WF_vars(ClockTick)
  /\ WF_vars(LightWake)
  /\ WF_vars(IdleTick)
  /\ WF_vars(PostedEvent)
  /\ WF_vars(UdpTimer)
  /\ WF_vars(EpdFinished)
  /\ WF_vars(HttpAnswer \/ HttpTimeout)
  /\ WF_vars(link = "connecting" /\ (Connected \/ Disconnected))
  /\ WF_vars(link = "associated" /\ (GotIp \/ Disconnected))
  /\ WF_vars(link = "leaving" /\ Disconnected)

-----------------------------------------------------------------------------
(***************************************************************************)
(* Properties.                                                             *)
(***************************************************************************)

\* The clock runs only under its flag: requestFinishedHandler, which trusts the
\* flag, never arms a running clock a second time, and a handler that clears the
\* flag has stopped the clock.
ClockUnderFlag == clockTimer => clkarm

\* The CPU is in light sleep only with the radio off: enterLightSleep is called
\* after the disconnection has arrived or when there was no radio, never in
\* between, from whatever mix of timers, presses and requests.
SleepsWithoutRadio == cpu = "light" => opmode = "NULL" /\ link = "off"

\* The soft AP never goes to modem or light sleep: no timer of the station mode
\* survives the change, and a request for these modes is refused.
ApNeverSleeps == opmode = "SOFTAP" => powermode.type \notin {"MODEM", "LIGHT"}

\* A request that waits for its answer has its timer running: closing, a new
\* request, sleep and wake-up never leave it waiting for ever.
WaitIsTimed == open /\ ~isTimeout => timeoutTimer

\* An answer is taken up, by starting the next request or by finishing the
\* chain, only in the request's three seconds and on a joined network.
AnswersInTime ==
  [][(step # 0 /\ step' = step + 1) \/ (~internet /\ internet')
       => timeoutTimer /\ ~isTimeout /\ link = "up"]_vars

\* There is always a timer, a refresh, a request or a network event to come: the
\* station never ends up running with nothing that would wake it.  A client may
\* stop its clock for good, by a format (udp_handler.c:999) or a fixed picture
\* (user_main.c:872): then nothing is to come, but the client can still reach it.
NeverStalls ==
  cpu = "on" =>
    \/ clockTimer \/ idleTimer \/ timeoutTimer
    \/ delayEventId # "NONE" \/ udpEvent # "NONE"
    \/ epd = "BUSY"
    \/ link \in {"connecting", "associated", "leaving"}
    \/ stopped /\ Reachable

\* Once its battery is low the station turns itself off, whatever it was doing,
\* unless a client has stopped for good the clock that would notice it.
LowBatteryTurnsOff == (low /\ cpu # "off") ~> (cpu = "off" \/ []stopped)

\* A station that opened its own network turns itself off when nobody sets it up.
SetupEnds == (opmode = "SOFTAP") ~> (cpu = "off")

=============================================================================
