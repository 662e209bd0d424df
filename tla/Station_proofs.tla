--------------------------- MODULE Station_proofs ---------------------------
(***************************************************************************)
(* Proofs about the station of module Station, for every length of the     *)
(* request chain, every set of network faults, presses and requests, and   *)
(* any interleaving of them; StationGoesOn says which sets it is about.    *)
(***************************************************************************)
EXTENDS Station, TLAPS

-----------------------------------------------------------------------------
(***************************************************************************)
(* The power mode.                                                         *)
(***************************************************************************)
LEMMA ModeType ==
  ASSUME NEW t \in Types, NEW w \in WifiStates, NEW r \in BOOLEAN
  PROVE  /\ Mode(t, w, r) \in PowerModes
         /\ Mode(t, w, r).type = t
  BY DEF Mode, PowerModes

LEMMA TickModeType ==
  ASSUME powermode \in PowerModes, NEW weather \in BOOLEAN, NEW idle \in BOOLEAN
  PROVE  TickMode(weather, idle) \in PowerModes
  BY DEF TickMode, PowerModes, Types, WifiStates

\* The parts of a mode that a handler updates in place.
LEMMA ModeUpdateType ==
  ASSUME NEW p \in PowerModes, NEW r \in BOOLEAN
  PROVE  /\ [p EXCEPT !.refresh = r] \in PowerModes
         /\ [p EXCEPT !.refresh = r].type = p.type
         /\ [p EXCEPT !.type = "REBOOT"] \in PowerModes
         /\ [p EXCEPT !.type = "REBOOT"].type = "REBOOT"
  BY DEF PowerModes, Types

LEMMA TypeOnlyType ==
  ASSUME NEW t \in Types, TypeOnly(t)
  PROVE  powermode' \in PowerModes /\ powermode'.type = t
  BY ModeType DEF TypeOnly

LEMMA BatteryLowType ==
  ASSUME BatteryLowShutdown
  PROVE  powermode' \in PowerModes /\ powermode'.type = "BATLOW"
  BY TypeOnlyType DEF BatteryLowShutdown, Types

LEMMA ModeInit == StationInit => powermode \in PowerModes
  BY ModeType DEF StationInit, Types, WifiStates

LEMMA ModeNext == powermode \in PowerModes /\ [Next]_vars => powermode' \in PowerModes
  <1> SUFFICES ASSUME powermode \in PowerModes, [Next]_vars, powermode' # powermode
               PROVE  powermode' \in PowerModes
    OBVIOUS
  <1>1. CASE Boot
    BY <1>1, TypeOnlyType, ModeType DEF Boot, Types, WifiStates
  <1>2. CASE Click
    BY <1>2, ModeUpdateType DEF Click
  <1>3. ASSUME NEW t \in ModeRequests, PowerModeRequest(t)
        PROVE  powermode' \in PowerModes
    BY <1>3, ModeType DEF PowerModeRequest, ModeRequests, Types, WifiStates
  <1>4. CASE ClockTick
    BY <1>4, BatteryLowType, TickModeType DEF ClockTick
  <1>5. CASE LightWake
    BY <1>5, BatteryLowType, ModeUpdateType DEF LightWake
  <1>6. CASE IdleTick
    BY <1>6, BatteryLowType, ModeType DEF IdleTick, Types, WifiStates
  <1>7. CASE PostedEvent
    BY <1>7, ModeType
    DEF PostedEvent, UpdateEpd, DoubleClicked, LongClicked, Types, WifiStates
  <1>8. CASE GotIp
    BY <1>8, ModeUpdateType DEF GotIp
  <1>9. CASE HttpAnswer
    BY <1>9, BatteryLowType DEF HttpAnswer, RequestFinished
  <1>10. CASE UdpTimer
    BY <1>10, TypeOnlyType, ModeUpdateType DEF UdpTimer, ShowImage, Types
  <1> QED
    BY <1>1, <1>2, <1>3, <1>4, <1>5, <1>6, <1>7, <1>8, <1>9, <1>10
    DEF Next, Environment, Callbacks, vars, rtcVars, BatteryDrains, BatteryCharged,
        MinutePasses, ApClient, Press, NetUpdateRequest, FormatRequest, DeferRequest, EpdFinished,
        Connected, Disconnected, HttpClosed, HttpTimeout

-----------------------------------------------------------------------------
(***************************************************************************)
(* The clock and its flag: inductive as it stands.                         *)
(***************************************************************************)
LEMMA ClockInit == StationInit => ClockUnderFlag
  BY DEF StationInit, ClockUnderFlag

LEMMA ClockNext == ClockUnderFlag /\ [Next]_vars => ClockUnderFlag'
  <1> SUFFICES ASSUME ClockUnderFlag, [Next]_vars PROVE ClockUnderFlag'
    OBVIOUS
  <1> USE DEF ClockUnderFlag, rtcVars, timerVars
  <1>1. CASE UNCHANGED <<clockTimer, clkarm>>
    BY <1>1
  <1>2. CASE Boot
    BY <1>2 DEF Boot, Cleared
  <1>3. CASE Click
    BY <1>3 DEF Click, CloseTimer
  <1>4. CASE ClockTick
    BY <1>4 DEF ClockTick, CloseTimer, ClockKept
  <1>5. CASE IdleTick
    BY <1>5 DEF IdleTick, ShowPowerOff, ClockKept
  <1>6. CASE PostedEvent
    BY <1>6 DEF PostedEvent, UpdateEpd, DoubleClicked, LongClicked, ShowPowerOff, CloseTimer
  <1>7. CASE EpdFinished
    BY <1>7 DEF EpdFinished, FinishBoot, FinishSleep, FinishBatteryLow, FinishReboot,
                FinishOther
  <1>8. CASE Disconnected
    <2>1. UNCHANGED clkarm /\ (clockTimer' => clockTimer)
      <3>1. CASE ClockKept /\ UNCHANGED clkarm
        BY <3>1 DEF ClockKept
      <3>2. CASE OpenSoftAp
        BY <3>2 DEF OpenSoftAp
      <3> QED BY <1>8, <3>1, <3>2 DEF Disconnected, RetryWifi, RadioOff, RestartPending, ClockKept
    <2> QED BY <2>1
  <1>9. CASE HttpAnswer
    BY <1>9 DEF HttpAnswer, RequestFinished, ClockKept
  <1>10. CASE UdpTimer
    <2>1. ClockKept \/ ShowPowerOff \/ CloseTimer
      BY <1>10 DEF UdpTimer, ShowImage
    <2> QED BY <2>1 DEF ShowPowerOff, CloseTimer, ClockKept
  <1>11. CASE FormatRequest
    BY <1>11 DEF FormatRequest, CloseTimer
  <1> QED
    BY <1>1, <1>2, <1>3, <1>4, <1>5, <1>6, <1>7, <1>8, <1>9, <1>10, <1>11
    DEF Next, Environment, Callbacks, vars, BatteryDrains, BatteryCharged, MinutePasses,
        ApClient, Press, PowerModeRequest, NetUpdateRequest, DeferRequest, LightWake,
        Connected, GotIp, HttpClosed, HttpTimeout

\* requestFinishedHandler never arms a clock that runs.
THEOREM ClockRunsUnderFlag == Spec => []ClockUnderFlag
  BY ClockInit, ClockNext, PTL DEF Spec

-----------------------------------------------------------------------------
(***************************************************************************)
(* The radio.  SleepsWithoutRadio and ApNeverSleeps are not inductive: a   *)
(* refresh that ends in NULL mode enters light sleep whatever link says,   *)
(* and a clock that ran on the soft AP would turn on light sleep.          *)
(***************************************************************************)
RadioInv ==
  /\ powermode \in PowerModes
  /\ opmode # "STATION" => link = "off"
  /\ cpu = "light" => opmode = "NULL"
  /\ opmode = "SOFTAP" => ~clockTimer
  /\ opmode = "SOFTAP" => powermode.type \notin {"MODEM", "LIGHT"}

LEMMA RadioInit == StationInit => RadioInv
  BY ModeInit DEF StationInit, RadioInv

LEMMA RadioNext == RadioInv /\ [Next]_vars => RadioInv'
  <1> SUFFICES ASSUME RadioInv, [Next]_vars PROVE RadioInv'
    OBVIOUS
  <1> USE DEF rtcVars, timerVars, radioVars
  <1>m. powermode' \in PowerModes
    BY ModeNext DEF RadioInv
  <1> USE <1>m DEF RadioInv
  <1>1. CASE UNCHANGED <<cpu, powermode, opmode, link, clockTimer>>
    BY <1>1
  <1>2. CASE Boot
    BY <1>2, TypeOnlyType, ModeType DEF Boot, Cleared, Types, WifiStates
  <1>3. CASE Click
    BY <1>3 DEF Click, JoinWifi, CloseTimer
  <1>4. ASSUME NEW t \in ModeRequests, PowerModeRequest(t) PROVE RadioInv'
    BY <1>4, ModeType DEF PowerModeRequest, ModeRequests, Types, WifiStates
  <1>5. CASE ClockTick
    BY <1>5 DEF ClockTick, LeaveWifi, JoinWifi, CloseTimer, ClockKept
  <1>6. CASE LightWake
    BY <1>6 DEF LightWake, JoinWifi, EnterLightSleep
  <1>7. CASE IdleTick
    <2>1. powermode'.type \in {powermode.type, "SHUTDOWN", "BATLOW"}
      BY <1>7, BatteryLowType, ModeType DEF IdleTick, Types, WifiStates
    <2> QED BY <1>7, <2>1 DEF IdleTick, ShowPowerOff, ClockKept
  <1>8. CASE PostedEvent
    <2>1. CASE UpdateEpd
      BY <1>8, <2>1 DEF PostedEvent, UpdateEpd
    <2>2. CASE DoubleClicked
      BY <1>8, <2>2 DEF PostedEvent, DoubleClicked, CloseTimer
    <2>3. CASE LongClicked
      BY <1>8, <2>3, ModeType
      DEF PostedEvent, LongClicked, ShowPowerOff, Types, WifiStates
    <2> QED BY <1>8, <2>1, <2>2, <2>3 DEF PostedEvent
  <1>9. CASE EpdFinished
    <2>1. CASE FinishBoot
      BY <1>9, <2>1 DEF EpdFinished, FinishBoot, JoinWifi, StayAwake
    <2>2. CASE FinishSleep
      BY <1>9, <2>2 DEF EpdFinished, FinishSleep, EnterLightSleep, LeaveWifi, StayAwake,
                        PowerOff
    <2>3. CASE FinishBatteryLow
      BY <1>9, <2>3 DEF EpdFinished, FinishBatteryLow, LeaveWifi, StayAwake, PowerOff
    <2>4. CASE FinishReboot
      BY <1>9, <2>4 DEF EpdFinished, FinishReboot, PowerOff
    <2>5. CASE FinishOther
      BY <1>9, <2>5 DEF EpdFinished, FinishOther
    <2> QED BY <1>9, <2>1, <2>2, <2>3, <2>4, <2>5 DEF EpdFinished
  <1>10. CASE Connected
    BY <1>10 DEF Connected
  <1>11. CASE GotIp
    BY <1>11 DEF GotIp
  <1>12. CASE Disconnected
    BY <1>12 DEF Disconnected, RetryWifi, OpenSoftAp, RadioOff, RestartPending, ClockKept,
                 StayAwake, EnterLightSleep, PowerOff
  <1>13. CASE HttpAnswer
    <2>1. opmode = "STATION"
      BY <1>13 DEF HttpAnswer
    <2>2. UNCHANGED <<cpu, opmode, link>>
      BY <1>13 DEF HttpAnswer
    <2>3. cpu # "light"
      BY <1>13 DEF HttpAnswer
    <2> QED BY <2>1, <2>2, <2>3
  <1>14. CASE UdpTimer
    <2>1. powermode'.type \in {powermode.type, "REBOOT", "SHUTDOWN"}
      BY <1>14, TypeOnlyType, ModeUpdateType DEF UdpTimer, ShowImage, Types
    <2>2. clockTimer' => clockTimer
      <3>1. ClockKept \/ ShowPowerOff \/ CloseTimer
        BY <1>14 DEF UdpTimer, ShowImage
      <3> QED BY <3>1 DEF ShowPowerOff, CloseTimer, ClockKept
    <2>3. cpu' \in {cpu, "off"} /\ UNCHANGED <<opmode, link>>
      BY <1>14 DEF UdpTimer, PowerOff
    <2> QED BY <2>1, <2>2, <2>3
  <1>15. CASE FormatRequest
    BY <1>15 DEF FormatRequest, CloseTimer
  <1> QED
    BY <1>1, <1>2, <1>3, <1>4, <1>5, <1>6, <1>7, <1>8, <1>9, <1>10, <1>11, <1>12,
       <1>13, <1>14, <1>15
    DEF Next, Environment, Callbacks, vars, BatteryDrains, BatteryCharged, MinutePasses,
        ApClient, Press, NetUpdateRequest, DeferRequest, HttpClosed, HttpTimeout

\* Light sleep is entered only when the radio is off.
THEOREM LightSleepWithoutRadio == Spec => []SleepsWithoutRadio
  <1>1. RadioInv => SleepsWithoutRadio
    BY DEF RadioInv, SleepsWithoutRadio
  <1> QED BY <1>1, RadioInit, RadioNext, PTL DEF Spec

\* The soft AP stays awake.
THEOREM SoftApStaysAwake == Spec => []ApNeverSleeps
  <1>1. RadioInv => ApNeverSleeps
    BY DEF RadioInv, ApNeverSleeps
  <1> QED BY <1>1, RadioInit, RadioNext, PTL DEF Spec

-----------------------------------------------------------------------------
(***************************************************************************)
(* The requests.  An answer in time has its timer running because every    *)
(* open request that has not timed out has; and steps are counted.         *)
(***************************************************************************)
HttpInv == step \in Nat /\ WaitIsTimed

LEMMA RequestInv == RequestBasicWeather => HttpInv'
  BY DEF RequestBasicWeather, DoGet, HttpInv, WaitIsTimed

LEMMA HttpInvInit == StationInit => HttpInv
  BY DEF StationInit, HttpInit, HttpInv, WaitIsTimed

LEMMA HttpInvNext == HttpInv /\ [Next]_vars => HttpInv'
  <1> SUFFICES ASSUME HttpInv, [Next]_vars PROVE HttpInv'
    OBVIOUS
  <1>1. CASE UNCHANGED httpVars
    BY <1>1 DEF HttpInv, WaitIsTimed, httpVars
  <1>2. CASE Boot
    BY <1>2 DEF Boot, Cleared, HttpInv, WaitIsTimed
  <1>3. CASE RequestBasicWeather
    BY <1>3, RequestInv
  <1>4. CASE HttpAnswer
    <2>1. CASE NextRequest
      BY <2>1 DEF NextRequest, DoGet, HttpInv, WaitIsTimed
    <2>2. CASE LastAnswer
      BY <2>2 DEF LastAnswer, HttpInv, WaitIsTimed
    <2> QED BY <1>4, <2>1, <2>2 DEF HttpAnswer
  <1>5. CASE Closed
    BY <1>5 DEF Closed, HttpInv, WaitIsTimed
  <1>6. CASE Expired
    BY <1>6 DEF Expired, HttpInv, WaitIsTimed
  <1> QED
    BY <1>1, <1>2, <1>3, <1>4, <1>5, <1>6
    DEF Next, Environment, Callbacks, vars, BatteryDrains, BatteryCharged, MinutePasses,
        ApClient, Click, Press, PowerModeRequest, NetUpdateRequest, FormatRequest,
        DeferRequest, ClockTick, LightWake, IdleTick, PostedEvent, EpdFinished, Connected, GotIp,
        Disconnected, HttpClosed, HttpTimeout, UdpTimer

\* No request waits without its timer.
THEOREM RequestsAreTimed == Spec => []WaitIsTimed
  <1>1. HttpInv => WaitIsTimed
    BY DEF HttpInv
  <1> QED BY <1>1, HttpInvInit, HttpInvNext, PTL DEF Spec

\* A step that takes up an answer is the handler of one that came in time.
LEMMA AnswerStep ==
  ASSUME HttpInv, [Next]_vars,
         (step # 0 /\ step' = step + 1) \/ (~internet /\ internet')
  PROVE  HttpAnswer
  <1>1. CASE Boot
    BY <1>1 DEF Boot, Cleared, HttpInv
  <1>2. CASE step # 0 /\ step' = step + 1
    <2>1. step' # step /\ step' # 1
      BY <1>2 DEF HttpInv
    <2>2. ~UNCHANGED httpVars /\ ~RequestBasicWeather /\ ~Closed /\ ~Expired
      BY <2>1 DEF httpVars, RequestBasicWeather, DoGet, Closed, Expired
    <2> QED
      BY <1>1, <2>2
      DEF Next, Environment, Callbacks, vars, BatteryDrains, BatteryCharged, MinutePasses,
          ApClient, Click, Press, PowerModeRequest, NetUpdateRequest, FormatRequest,
          DeferRequest, ClockTick, LightWake, IdleTick, PostedEvent, EpdFinished, Connected, GotIp,
          Disconnected, HttpClosed, HttpTimeout, UdpTimer
  <1>3. CASE ~internet /\ internet'
    <2>1. ~UNCHANGED internet
      BY <1>3
    <2> QED
      BY <1>1, <2>1
      DEF Next, Environment, Callbacks, vars, BatteryDrains, BatteryCharged, MinutePasses,
          ApClient, Click, Press, PowerModeRequest, NetUpdateRequest, FormatRequest,
          DeferRequest, ClockTick, LightWake, IdleTick, PostedEvent, EpdFinished, Connected, GotIp,
          Disconnected, HttpClosed, HttpTimeout, UdpTimer
  <1> QED BY <1>1, <1>2, <1>3

\* Only an answer in time is taken up.
THEOREM AnswersComeInTime == Spec => AnswersInTime
  <1>1. ASSUME HttpInv, [Next]_vars
        PROVE  [(step # 0 /\ step' = step + 1) \/ (~internet /\ internet')
                  => timeoutTimer /\ ~isTimeout /\ link = "up"]_vars
    <2> SUFFICES ASSUME (step # 0 /\ step' = step + 1) \/ (~internet /\ internet')
                 PROVE  timeoutTimer /\ ~isTimeout /\ link = "up"
      OBVIOUS
    <2>1. HttpAnswer
      BY <1>1, AnswerStep
    <2> QED BY <1>1, <2>1 DEF HttpAnswer, Received, HttpInv, WaitIsTimed
  <1> QED BY <1>1, HttpInvInit, HttpInvNext, PTL DEF Spec, AnswersInTime

-----------------------------------------------------------------------------
(***************************************************************************)
(* Types, in three parts that the actions keep apart: flags, the others    *)
(* but the power mode, and the requests.                                   *)
(***************************************************************************)
FlagTypes ==
  /\ low \in BOOLEAN
  /\ stopped \in BOOLEAN
  /\ clkarm \in BOOLEAN
  /\ bootFlag \in BOOLEAN
  /\ isEntered \in BOOLEAN
  /\ recent \in BOOLEAN
  /\ clockTimer \in BOOLEAN
  /\ idleTimer \in BOOLEAN
  /\ irq \in BOOLEAN
  /\ drawn \in BOOLEAN
  /\ internet \in BOOLEAN
  /\ served \in BOOLEAN

WordTypes ==
  /\ cpu \in {"on", "light", "off"}
  /\ reconnect \in 0..ReconnectMax
  /\ idleTick \in 0..IdleMax
  /\ delayEventId \in {"NONE", "UPDATE_EPD", "DOUBLE_CLICK", "LONG_CLICK"}
  /\ opmode \in {"NULL", "STATION", "SOFTAP"}
  /\ link \in {"off", "connecting", "associated", "up", "leaving"}
  /\ epd \in {"IDLE", "BUSY"}
  /\ udpEvent \in {"NONE", "SHUTDOWN", "NETUPDATE", "REBOOT"} \cup FreezeTypes

LEMMA Bounds ==
  /\ 0 \in 0..LastStep /\ 1 \in 0..LastStep
  /\ \A k \in 0..LastStep : k < LastStep => k + 1 \in 0..LastStep
  /\ 0 \in 0..ReconnectMax /\ 0 \in 0..IdleMax
  /\ \A k \in 0..ReconnectMax : k < ReconnectMax => k + 1 \in 0..ReconnectMax
  /\ \A k \in 0..IdleMax : ~(k + 1 >= IdleMax) => k + 1 \in 0..IdleMax
  BY LastStepAssumption, StationAssumption

TypeInv ==
  powermode \in PowerModes /\ HttpTypeOK /\ FlagTypes /\ WordTypes

LEMMA TypeInit == StationInit => TypeInv
  <1> SUFFICES ASSUME StationInit PROVE TypeInv
    OBVIOUS
  <1>1. HttpTypeOK
    BY Bounds DEF StationInit, HttpInit, HttpTypeOK
  <1>2. FlagTypes
    BY DEF StationInit, FlagTypes
  <1>3. WordTypes
    BY Bounds DEF StationInit, WordTypes
  <1> QED BY <1>1, <1>2, <1>3, ModeInit DEF TypeInv

LEMMA RequestTypes == RequestBasicWeather => HttpTypeOK'
  BY Bounds DEF RequestBasicWeather, DoGet, HttpTypeOK

LEMMA HttpTypeNext == HttpTypeOK /\ [Next]_vars => HttpTypeOK'
  <1> SUFFICES ASSUME HttpTypeOK, [Next]_vars PROVE HttpTypeOK'
    OBVIOUS
  <1>1. CASE UNCHANGED httpVars
    BY <1>1 DEF HttpTypeOK, httpVars
  <1>2. CASE Boot
    BY <1>2, Bounds DEF Boot, Cleared, HttpTypeOK
  <1>3. CASE RequestBasicWeather
    BY <1>3, RequestTypes
  <1>4. CASE HttpAnswer
    <2>1. CASE NextRequest
      <3>1. step' = step + 1 /\ step < LastStep
        BY <2>1 DEF NextRequest, DoGet
      <3>2. step' \in 0..LastStep
        BY <3>1, Bounds DEF HttpTypeOK
      <3> QED BY <2>1, <3>2 DEF NextRequest, DoGet, HttpTypeOK
    <2>2. CASE LastAnswer
      BY <2>2 DEF LastAnswer, HttpTypeOK
    <2> QED BY <1>4, <2>1, <2>2 DEF HttpAnswer
  <1>5. CASE Closed
    BY <1>5 DEF Closed, HttpTypeOK
  <1>6. CASE Expired
    BY <1>6 DEF Expired, HttpTypeOK
  <1> QED
    BY <1>1, <1>2, <1>3, <1>4, <1>5, <1>6
    DEF Next, Environment, Callbacks, vars, BatteryDrains, BatteryCharged, MinutePasses,
        ApClient, Click, Press, PowerModeRequest, NetUpdateRequest, FormatRequest,
        DeferRequest, ClockTick, LightWake, IdleTick, PostedEvent, EpdFinished, Connected, GotIp,
        Disconnected, HttpClosed, HttpTimeout, UdpTimer

\* The helpers of the callbacks.
LEMMA HelperTypes ==
  ASSUME FlagTypes, WordTypes
  PROVE  /\ DrawAndPost \/ Undrawn \/ BatteryLowShutdown =>
              /\ drawn' \in BOOLEAN
              /\ delayEventId' \in {"NONE", "UPDATE_EPD", "DOUBLE_CLICK", "LONG_CLICK"}
         /\ CloseTimer \/ ClockKept => clockTimer' \in BOOLEAN /\ clkarm' \in BOOLEAN
         /\ ShowPowerOff =>
              /\ clockTimer' \in BOOLEAN /\ clkarm' \in BOOLEAN
              /\ drawn' \in BOOLEAN
              /\ delayEventId' \in {"NONE", "UPDATE_EPD", "DOUBLE_CLICK", "LONG_CLICK"}
         /\ LeaveWifi \/ JoinWifi \/ UNCHANGED radioVars =>
              /\ opmode' \in {"NULL", "STATION", "SOFTAP"}
              /\ link' \in {"off", "connecting", "associated", "up", "leaving"}
         /\ EnterLightSleep \/ StayAwake =>
              cpu' \in {"on", "light", "off"} /\ irq' \in BOOLEAN
  BY DEF FlagTypes, WordTypes, DrawAndPost, Undrawn, BatteryLowShutdown, CloseTimer,
         ClockKept, ShowPowerOff, LeaveWifi, JoinWifi, EnterLightSleep, StayAwake, radioVars

LEMMA FlagNext == TypeInv /\ [Next]_vars => FlagTypes'
  <1> SUFFICES ASSUME TypeInv, [Next]_vars PROVE FlagTypes'
    OBVIOUS
  <1> USE DEF FlagTypes, rtcVars, timerVars, epdVars, udpVars
  <1>0. FlagTypes /\ WordTypes
    BY DEF TypeInv
  <1>1. CASE Boot
    BY <1>0, <1>1 DEF Boot, Cleared, DrawAndPost
  <1>2. CASE BatteryDrains \/ BatteryCharged \/ MinutePasses \/ NetUpdateRequest
    BY ZenonT(60), <1>0, <1>2 DEF BatteryDrains, BatteryCharged, MinutePasses, NetUpdateRequest
  <1>3. CASE \E joins \in BOOLEAN : ApClient(joins)
    BY <1>0, <1>3, Bounds DEF ApClient
  <1>4. CASE Click
    BY <1>0, <1>4 DEF Click, CloseTimer
  <1>5. CASE Press("double", "DOUBLE_CLICK") \/ Press("long", "LONG_CLICK")
    BY <1>0, <1>5 DEF Press
  <1>6. CASE (\E type \in ModeRequests : PowerModeRequest(type))
               \/ \E evt \in FreezeTypes \cup {"REBOOT"} : DeferRequest(evt)
    <2>1. CASE \E type \in ModeRequests : PowerModeRequest(type)
      BY <1>0, <2>1 DEF PowerModeRequest
    <2>2. CASE \E evt \in FreezeTypes \cup {"REBOOT"} : DeferRequest(evt)
      BY <1>0, <2>2 DEF DeferRequest
    <2> QED BY <1>6, <2>1, <2>2
  <1>7. CASE ClockTick
    <2>1. UNCHANGED <<low, stopped, bootFlag, isEntered, recent, idleTimer, irq, internet, served>>
      BY <1>7 DEF ClockTick
    <2>2. drawn' \in BOOLEAN /\ clockTimer' \in BOOLEAN /\ clkarm' \in BOOLEAN
      BY <1>0, <1>7, HelperTypes DEF ClockTick
    <2> QED BY <1>0, <2>1, <2>2
  <1>8. CASE LightWake
    <2>1. UNCHANGED <<low, stopped, clkarm, bootFlag, recent, clockTimer, idleTimer, internet, served>>
      BY <1>8 DEF LightWake
    <2>2. drawn' \in BOOLEAN /\ irq' \in BOOLEAN /\ isEntered' \in BOOLEAN
      BY <1>0, <1>8, HelperTypes DEF LightWake
    <2> QED BY <1>0, <2>1, <2>2
  <1>9. CASE IdleTick
    <2>1. UNCHANGED <<low, stopped, bootFlag, isEntered, recent, idleTimer, irq, internet, served>>
      BY <1>9 DEF IdleTick
    <2>2. drawn' \in BOOLEAN /\ clockTimer' \in BOOLEAN /\ clkarm' \in BOOLEAN
      BY <1>0, <1>9, HelperTypes DEF IdleTick
    <2> QED BY <1>0, <2>1, <2>2
  <1>10. CASE PostedEvent
    <2>1. UNCHANGED <<low, stopped, bootFlag, isEntered, recent, idleTimer, irq, internet, served>>
      BY <1>10 DEF PostedEvent
    <2>2. drawn' \in BOOLEAN /\ clockTimer' \in BOOLEAN /\ clkarm' \in BOOLEAN
      BY <1>0, <1>10, HelperTypes DEF PostedEvent, UpdateEpd, DoubleClicked, LongClicked
    <2> QED BY <1>0, <2>1, <2>2
  <1>11. CASE EpdFinished
    <2>1. UNCHANGED <<low, stopped, clkarm, isEntered, recent, idleTimer, drawn, internet, served>>
      BY <1>11 DEF EpdFinished
    <2>2. clockTimer' \in BOOLEAN /\ irq' \in BOOLEAN /\ bootFlag' \in BOOLEAN
      BY <1>0, <1>11, HelperTypes
      DEF EpdFinished, FinishBoot, FinishSleep, FinishBatteryLow, FinishReboot, FinishOther
    <2> QED BY <1>0, <2>1, <2>2
  <1>12. CASE Connected \/ GotIp \/ HttpClosed \/ HttpTimeout
    <2>1. CASE Connected
      BY <1>0, <2>1, Bounds DEF Connected
    <2>2. CASE GotIp
      BY ZenonT(60), <1>0, <2>2 DEF GotIp
    <2>3. CASE HttpClosed \/ HttpTimeout
      BY ZenonT(60), <1>0, <2>3 DEF HttpClosed, HttpTimeout
    <2> QED BY <1>12, <2>1, <2>2, <2>3
  <1>13. CASE Disconnected
    <2>1. UNCHANGED <<low, stopped, bootFlag, isEntered, recent, internet>>
      BY <1>13 DEF Disconnected
    <2>2. /\ drawn' \in BOOLEAN /\ clockTimer' \in BOOLEAN /\ clkarm' \in BOOLEAN
          /\ irq' \in BOOLEAN /\ idleTimer' \in BOOLEAN /\ served' \in BOOLEAN
      <3>1. CASE RetryWifi \/ RadioOff \/ RestartPending
        BY <1>0, <3>1, HelperTypes DEF RetryWifi, RadioOff, RestartPending
      <3>2. CASE OpenSoftAp
        BY <1>0, <3>2, HelperTypes DEF OpenSoftAp
      <3> QED BY <1>13, <3>1, <3>2 DEF Disconnected
    <2> QED BY <1>0, <2>1, <2>2
  <1>14. CASE HttpAnswer
    <2>1. UNCHANGED <<low, bootFlag, idleTimer, irq, served>> /\ stopped' \in BOOLEAN
      BY <1>0, <1>14 DEF HttpAnswer
    <2>2. /\ drawn' \in BOOLEAN /\ clockTimer' \in BOOLEAN /\ clkarm' \in BOOLEAN
          /\ isEntered' \in BOOLEAN /\ recent' \in BOOLEAN /\ internet' \in BOOLEAN
      BY <1>0, <1>14, HelperTypes DEF HttpAnswer, RequestFinished
    <2> QED BY <1>0, <2>1, <2>2
  <1>15. CASE UdpTimer
    <2>1. UNCHANGED <<low, bootFlag, isEntered, recent, idleTimer, irq, internet, served>>
      BY <1>15 DEF UdpTimer
    <2>2. drawn' \in BOOLEAN /\ clockTimer' \in BOOLEAN /\ clkarm' \in BOOLEAN
      BY <1>0, <1>15, HelperTypes DEF UdpTimer, ShowImage
    <2>3. stopped' \in BOOLEAN
      BY <1>0, <1>15 DEF UdpTimer, ShowImage
    <2> QED BY <1>0, <2>1, <2>2, <2>3
  <1>16. CASE FormatRequest
    BY <1>0, <1>16, HelperTypes DEF FormatRequest
  <1>17. CASE UNCHANGED vars
    BY <1>0, <1>17 DEF vars
  <1> QED
    BY <1>1, <1>2, <1>3, <1>4, <1>5, <1>6, <1>7, <1>8, <1>9, <1>10, <1>11, <1>12, <1>13,
       <1>14, <1>15, <1>16, <1>17
    DEF Next, Environment, Callbacks

LEMMA WordNext == TypeInv /\ [Next]_vars => WordTypes'
  <1> SUFFICES ASSUME TypeInv, [Next]_vars PROVE WordTypes'
    OBVIOUS
  <1> USE DEF WordTypes, rtcVars, timerVars, radioVars, epdVars, udpVars
  <1>0. FlagTypes /\ WordTypes
    BY DEF TypeInv
  <1>1. CASE Boot
    BY <1>0, <1>1, Bounds DEF Boot, Cleared, DrawAndPost
  <1>2. CASE BatteryDrains \/ BatteryCharged \/ MinutePasses \/ NetUpdateRequest
    BY <1>0, <1>2 DEF BatteryDrains, BatteryCharged, MinutePasses, NetUpdateRequest
  <1>3. CASE \E joins \in BOOLEAN : ApClient(joins)
    BY <1>0, <1>3, Bounds DEF ApClient
  <1>4. CASE Click
    BY <1>0, <1>4, HelperTypes DEF Click
  <1>5. CASE Press("double", "DOUBLE_CLICK") \/ Press("long", "LONG_CLICK")
    BY <1>0, <1>5 DEF Press
  <1>6. CASE (\E type \in ModeRequests : PowerModeRequest(type))
               \/ \E evt \in FreezeTypes \cup {"REBOOT"} : DeferRequest(evt)
    <2>1. CASE \E type \in ModeRequests : PowerModeRequest(type)
      BY <1>0, <2>1 DEF PowerModeRequest
    <2>2. CASE \E evt \in FreezeTypes \cup {"REBOOT"} : DeferRequest(evt)
      BY <1>0, <2>2 DEF DeferRequest
    <2> QED BY <1>6, <2>1, <2>2
  <1>7. CASE ClockTick
    <2>1. UNCHANGED <<cpu, reconnect, idleTick, epd, udpEvent>>
      BY <1>7 DEF ClockTick
    <2>2. delayEventId' \in {"NONE", "UPDATE_EPD", "DOUBLE_CLICK", "LONG_CLICK"}
      BY <1>0, <1>7, HelperTypes DEF ClockTick
    <2>3. /\ opmode' \in {"NULL", "STATION", "SOFTAP"}
          /\ link' \in {"off", "connecting", "associated", "up", "leaving"}
      BY <1>0, <1>7, HelperTypes DEF ClockTick
    <2> QED BY <1>0, <2>1, <2>2, <2>3
  <1>8. CASE LightWake
    <2>1. UNCHANGED <<reconnect, idleTick, epd, udpEvent>>
      BY <1>8 DEF LightWake
    <2>2. delayEventId' \in {"NONE", "UPDATE_EPD", "DOUBLE_CLICK", "LONG_CLICK"}
      BY <1>0, <1>8, HelperTypes DEF LightWake
    <2>3. /\ opmode' \in {"NULL", "STATION", "SOFTAP"}
          /\ link' \in {"off", "connecting", "associated", "up", "leaving"}
      BY <1>0, <1>8, HelperTypes DEF LightWake
    <2>4. cpu' \in {"on", "light", "off"}
      BY <1>0, <1>8, HelperTypes DEF LightWake
    <2> QED BY <1>0, <2>1, <2>2, <2>3, <2>4
  <1>9. CASE IdleTick
    <2>1. UNCHANGED <<cpu, reconnect, opmode, link, epd, udpEvent>>
      BY <1>9 DEF IdleTick
    <2>2. delayEventId' \in {"NONE", "UPDATE_EPD", "DOUBLE_CLICK", "LONG_CLICK"}
      BY <1>0, <1>9, HelperTypes DEF IdleTick
    <2>3. idleTick' \in 0..IdleMax
      <3>1. idleTick' = idleTick \/ (idleTick' = idleTick + 1 /\ ~(idleTick + 1 >= IdleMax))
        BY <1>9 DEF IdleTick
      <3> QED BY <1>0, <3>1, Bounds
    <2> QED BY <1>0, <2>1, <2>2, <2>3
  <1>10. CASE PostedEvent
    <2>1. UNCHANGED <<cpu, reconnect, idleTick, opmode, link, udpEvent>>
      BY <1>10 DEF PostedEvent
    <2>2. /\ delayEventId' \in {"NONE", "UPDATE_EPD", "DOUBLE_CLICK", "LONG_CLICK"}
          /\ epd' \in {"IDLE", "BUSY"}
      BY <1>0, <1>10, HelperTypes DEF PostedEvent, UpdateEpd, DoubleClicked, LongClicked
    <2> QED BY <1>0, <2>1, <2>2
  <1>11. CASE EpdFinished
    <2>1. UNCHANGED <<reconnect, idleTick, delayEventId, udpEvent>> /\ epd' = "IDLE"
      BY <1>11 DEF EpdFinished
    <2>2. /\ opmode' \in {"NULL", "STATION", "SOFTAP"}
          /\ link' \in {"off", "connecting", "associated", "up", "leaving"}
          /\ cpu' \in {"on", "light", "off"}
      <3>1. CASE FinishBoot \/ FinishReboot \/ FinishOther
        BY <1>0, <3>1, HelperTypes
        DEF FinishBoot, FinishReboot, FinishOther, PowerOff
      <3>2. CASE FinishSleep
        BY <1>0, <3>2, HelperTypes DEF FinishSleep, PowerOff
      <3>3. CASE FinishBatteryLow
        BY <1>0, <3>3, HelperTypes DEF FinishBatteryLow, PowerOff
      <3> QED BY <1>11, <3>1, <3>2, <3>3 DEF EpdFinished
    <2> QED BY <1>0, <2>1, <2>2
  <1>12. CASE Connected \/ GotIp \/ HttpClosed \/ HttpTimeout
    <2>1. CASE Connected
      BY <1>0, <2>1, Bounds DEF Connected
    <2>2. CASE GotIp
      BY <1>0, <2>2 DEF GotIp
    <2>3. CASE HttpClosed \/ HttpTimeout
      BY <1>0, <2>3 DEF HttpClosed, HttpTimeout
    <2> QED BY <1>12, <2>1, <2>2, <2>3
  <1>13. CASE Disconnected
    <2>1. UNCHANGED <<idleTick, epd, udpEvent>>
      BY <1>13 DEF Disconnected
    <2>2. /\ delayEventId' \in {"NONE", "UPDATE_EPD", "DOUBLE_CLICK", "LONG_CLICK"}
          /\ opmode' \in {"NULL", "STATION", "SOFTAP"}
          /\ link' \in {"off", "connecting", "associated", "up", "leaving"}
          /\ cpu' \in {"on", "light", "off"}
          /\ reconnect' \in 0..ReconnectMax
      <3>1. CASE RetryWifi
        <4>1. reconnect' \in 0..ReconnectMax
          BY <1>0, <3>1, Bounds DEF RetryWifi
        <4> QED BY <1>0, <3>1, <4>1, HelperTypes DEF RetryWifi
      <3>2. CASE OpenSoftAp
        BY <1>0, <3>2, HelperTypes DEF OpenSoftAp
      <3>3. CASE RadioOff
        BY <1>0, <3>3, HelperTypes DEF RadioOff, PowerOff
      <3>4. CASE RestartPending
        BY <1>0, <3>4, HelperTypes DEF RestartPending
      <3> QED BY <1>13, <3>1, <3>2, <3>3, <3>4 DEF Disconnected
    <2> QED BY <1>0, <2>1, <2>2
  <1>14. CASE HttpAnswer
    <2>1. UNCHANGED <<cpu, reconnect, idleTick, opmode, link, epd, udpEvent>>
      BY <1>14 DEF HttpAnswer
    <2>2. delayEventId' \in {"NONE", "UPDATE_EPD", "DOUBLE_CLICK", "LONG_CLICK"}
      BY <1>0, <1>14, HelperTypes DEF HttpAnswer, RequestFinished
    <2> QED BY <1>0, <2>1, <2>2
  <1>15. CASE UdpTimer
    <2>1. UNCHANGED <<reconnect, idleTick, opmode, link, epd>> /\ udpEvent' = "NONE"
      BY <1>15 DEF UdpTimer
    <2>2. delayEventId' \in {"NONE", "UPDATE_EPD", "DOUBLE_CLICK", "LONG_CLICK"}
      BY <1>0, <1>15, HelperTypes DEF UdpTimer, ShowImage
    <2>3. cpu' \in {"on", "light", "off"}
      BY <1>0, <1>15 DEF UdpTimer, PowerOff
    <2> QED BY <1>0, <2>1, <2>2, <2>3
  <1>16. CASE FormatRequest
    BY <1>0, <1>16, HelperTypes DEF FormatRequest
  <1>17. CASE UNCHANGED vars
    BY <1>0, <1>17 DEF vars
  <1> QED
    BY <1>1, <1>2, <1>3, <1>4, <1>5, <1>6, <1>7, <1>8, <1>9, <1>10, <1>11, <1>12, <1>13,
       <1>14, <1>15, <1>16, <1>17
    DEF Next, Environment, Callbacks

\* Every variable of the station keeps its type, among them the counters of
\* reconnections and of idle minutes their limits (user_main.c:603, 1012).
THEOREM StationIsTyped == Spec => []StationTypeOK
  <1>1. TypeInv /\ [Next]_vars => TypeInv'
    BY ModeNext, HttpTypeNext, FlagNext, WordNext DEF TypeInv
  <1>2. TypeInv => StationTypeOK
    BY DEF TypeInv, FlagTypes, WordTypes, StationTypeOK
  <1> QED BY <1>1, <1>2, TypeInit, PTL DEF Spec

-----------------------------------------------------------------------------
(***************************************************************************)
(* Something to wake the station.  With a network that refuses at most, a  *)
(* user that clicks at most and clients that ask for neither NONE nor      *)
(* MODEM, every end of a timer, a refresh or a request leaves another one, *)
(* a link that is about to change, or a clock that a client stopped.  Each *)
(* restriction is needed: without any one of them the code does stall.     *)
(***************************************************************************)
OnlyRefusals ==
  /\ Faults \subseteq {"refused"}
  /\ Presses \subseteq {"click"}
  /\ Requests \cap {"NONE", "MODEM"} = {}

\* A refresh goes on or is posted: EpdFinished will decide what comes next.
RefreshToCome == delayEventId = "UPDATE_EPD" \/ epd = "BUSY"

\* What the restrictions leave out, and the idle timer of the soft AP, which is
\* not disarmed before the power goes off.
KindsLeft ==
  /\ powermode.type # "MODEM"
  /\ delayEventId \in {"NONE", "UPDATE_EPD"}
  /\ opmode = "SOFTAP" => idleTimer
  /\ timeoutTimer => open

\* Who stops the clock came over the station's network, which the server goes on
\* serving until the soft AP is opened.
ServedInv == ~idleTimer => (stopped \/ udpEvent # "NONE" => served)

\* The way into light sleep is without radio and clock.
LightInv ==
  cpu = "light" /\ ~idleTimer =>
    /\ powermode.type \in {"LIGHT", "SHUTDOWN"}
    /\ opmode = "NULL"
    /\ ~bootFlag
    /\ ~clockTimer

\* Until the boot picture is shown there is no network and no other mode.
BootInv ==
  bootFlag =>
    powermode.type = "NONE" /\ opmode = "NULL" /\ ~internet /\ udpEvent = "NONE"

\* Without a mode that ends in sleep the clock is only ever stopped together
\* with its flag, so the end of a chain arms it.
ClockInv ==
  /\ powermode.type = "NONE" => (clkarm => clockTimer)
  /\ powermode.type = "NONE" => udpEvent # "SHUTDOWN" /\ link # "leaving"
  /\ clockTimer => link = "up"

\* A restart comes with the refresh before it, and nothing takes its mode back
\* once the network is gone.
RestartInv ==
  /\ powermode.type = "REBOOT" => RefreshToCome
  /\ powermode.type = "REBOOT" /\ link = "leaving" => udpEvent = "NONE"
  /\ opmode = "STATION" /\ link = "off" => powermode.type = "REBOOT" /\ udpEvent = "NONE"

\* What is to come, by the state of the radio.
RadioGoesOn ==
  /\ opmode = "NULL" => RefreshToCome /\ (bootFlag \/ powermode.type # "NONE")
  /\ link \in {"connecting", "associated"} =>
       powermode.type = "NONE" \/ powermode.refresh \/ RefreshToCome
  /\ link = "up" =>
       clockTimer \/ timeoutTimer \/ stopped \/ (powermode.type # "NONE" /\ RefreshToCome)

AwakeInv == BootInv /\ ClockInv /\ RestartInv /\ RadioGoesOn

StallInv ==
  /\ TypeInv
  /\ RadioInv
  /\ KindsLeft
  /\ ServedInv
  /\ LightInv
  /\ cpu = "on" /\ ~idleTimer => AwakeInv

LEMMA StallInit == ASSUME OnlyRefusals PROVE StationInit => StallInv
  <1> SUFFICES ASSUME StationInit PROVE StallInv
    OBVIOUS
  <1>1. KindsLeft
    BY DEF StationInit, HttpInit, KindsLeft, Mode
  <1>2. cpu = "off"
    BY DEF StationInit
  <1>3. ServedInv
    BY DEF StationInit, ServedInv
  <1> QED BY <1>1, <1>2, <1>3, TypeInit, RadioInit DEF StallInv, LightInv

\* Without modem sleep a tick leaves the mode or makes it light sleep.
LEMMA TickWithoutModem ==
  ASSUME powermode \in PowerModes, powermode.type # "MODEM",
         NEW weather \in BOOLEAN, NEW idle \in BOOLEAN
  PROVE  /\ ~RadioRests(weather) /\ ~RadioWakes
         /\ \/ TickMode(weather, idle) = powermode
            \/ powermode.type = "NONE" /\ TickMode(weather, idle).type = "LIGHT"
         /\ TickMode(weather, idle).refresh = powermode.refresh
  BY DEF RadioRests, RadioWakes, TickMode, PowerModes

LEMMA ServedNext ==
  ASSUME TypeInv, KindsLeft, ServedInv, [Next]_vars
  PROVE  ServedInv'
  <1> USE DEF ServedInv, KindsLeft, rtcVars, timerVars, udpVars
  <1>1. CASE UNCHANGED <<idleTimer, stopped, udpEvent, served>>
    BY <1>1
  <1>2. CASE Boot
    BY <1>2 DEF Boot, Cleared
  <1>3. ASSUME NEW joins \in BOOLEAN, ApClient(joins) PROVE ServedInv'
    BY <1>3 DEF ApClient
  <1>4. CASE GotIp
    BY <1>4 DEF GotIp
  <1>5. CASE Disconnected
    BY <1>5 DEF Disconnected, RetryWifi, OpenSoftAp, RadioOff, RestartPending
  <1>6. CASE HttpAnswer
    BY <1>6 DEF HttpAnswer
  <1>7. CASE NetUpdateRequest \/ FormatRequest
    BY <1>7 DEF NetUpdateRequest, FormatRequest, Reachable
  <1>8. ASSUME NEW t \in ModeRequests, PowerModeRequest(t) PROVE ServedInv'
    BY <1>8 DEF PowerModeRequest, Reachable
  <1>9. ASSUME NEW evt \in FreezeTypes \cup {"REBOOT"}, DeferRequest(evt) PROVE ServedInv'
    BY <1>9 DEF DeferRequest, Reachable
  <1>10. CASE UdpTimer
    BY <1>10 DEF UdpTimer, ShowImage
  <1> QED
    BY <1>1, <1>2, <1>3, <1>4, <1>5, <1>6, <1>7, <1>8, <1>9, <1>10
    DEF Next, Environment, Callbacks, vars, BatteryDrains, BatteryCharged, MinutePasses,
        Click, Press, ClockTick, LightWake, IdleTick, PostedEvent, EpdFinished, Connected,
        HttpClosed, HttpTimeout

LEMMA StallNext ==
  ASSUME OnlyRefusals, StallInv, [Next]_vars
  PROVE  KindsLeft' /\ LightInv' /\ (cpu' = "on" /\ ~idleTimer' => AwakeInv')
  <1> DEFINE Kept == KindsLeft' /\ LightInv' /\ (cpu' = "on" /\ ~idleTimer' => AwakeInv')
  <1> USE DEF RefreshToCome, rtcVars, timerVars, radioVars, epdVars, udpVars, httpVars
  <1>t. TypeInv /\ FlagTypes /\ WordTypes /\ powermode \in PowerModes /\ HttpTypeOK
    BY DEF StallInv, TypeInv
  <1>i. /\ RadioInv /\ KindsLeft /\ LightInv
        /\ cpu = "on" /\ ~idleTimer => AwakeInv
    BY DEF StallInv
  <1> USE DEF AwakeInv, BootInv, ClockInv, RestartInv, RadioGoesOn, KindsLeft, LightInv,
              RadioInv, FlagTypes, WordTypes
  <1>1. CASE Boot
    <2>1. /\ cpu' = "on" /\ delayEventId' = "UPDATE_EPD" /\ ~clkarm' /\ ~clockTimer'
          /\ link' = "off" /\ ~internet' /\ udpEvent' = "NONE" /\ ~timeoutTimer'
      BY <1>1 DEF Boot, Cleared, DrawAndPost
    <2>2. \/ /\ powermode'.type = "BATLOW" /\ opmode' = "NULL" /\ ~bootFlag'
          \/ /\ powermode'.type = "NONE" /\ opmode' = "SOFTAP" /\ idleTimer' /\ ~bootFlag'
          \/ /\ powermode'.type = "NONE" /\ opmode' = "NULL" /\ bootFlag'
      <3>1. CASE TypeOnly("BATLOW") /\ opmode' = "NULL" /\ bootFlag' = FALSE
        BY <3>1, TypeOnlyType DEF Types
      <3>2. ASSUME NEW setup \in BOOLEAN, powermode' = Mode("NONE", "DEFAULT", FALSE),
                   opmode' = (IF setup THEN "SOFTAP" ELSE "NULL"),
                   idleTimer' = setup, bootFlag' = ~setup
            PROVE  \/ powermode'.type = "NONE" /\ opmode' = "SOFTAP" /\ idleTimer' /\ ~bootFlag'
                   \/ powermode'.type = "NONE" /\ opmode' = "NULL" /\ bootFlag'
        BY <3>2 DEF Mode
      <3> QED BY <1>1, <3>1, <3>2 DEF Boot
    <2> QED BY <2>1, <2>2
  <1>2. CASE BatteryDrains \/ BatteryCharged \/ MinutePasses
    BY <1>2, <1>t, <1>i DEF BatteryDrains, BatteryCharged, MinutePasses
  <1>3. ASSUME NEW joins \in BOOLEAN, ApClient(joins) PROVE Kept
    BY <1>3, <1>t, <1>i DEF ApClient
  <1>4. CASE Click
    BY <1>4, <1>t, <1>i, ModeUpdateType
    DEF Click, JoinWifi, CloseTimer, RequestBasicWeather, DoGet
  <1>5. ~Press("double", "DOUBLE_CLICK") /\ ~Press("long", "LONG_CLICK") /\ ~HttpClosed
    BY DEF Press, OnlyRefusals, HttpClosed
  <1>6. ASSUME NEW t \in ModeRequests, PowerModeRequest(t) PROVE Kept
    <2>1. t \in {"LIGHT", "SHUTDOWN"}
      BY <1>6 DEF PowerModeRequest, ModeRequests, OnlyRefusals
    <2>2. powermode'.type = t
      BY <1>6 DEF PowerModeRequest, Mode
    <2>3. udpEvent' = udpEvent \/ (t = "SHUTDOWN" /\ udpEvent' = "SHUTDOWN")
      BY <1>6 DEF PowerModeRequest
    <2>4. cpu = "on" /\ (link = "up" \/ opmode = "SOFTAP")
      BY <1>6 DEF PowerModeRequest, Reachable
    <2>5. UNCHANGED <<cpu, clkarm, bootFlag, clockTimer, idleTimer, delayEventId, opmode,
                      link, epd, internet, timeoutTimer, open, stopped>>
      BY <1>6 DEF PowerModeRequest
    <2> QED BY <1>t, <1>i, <2>1, <2>2, <2>3, <2>4, <2>5
  <1>7. CASE NetUpdateRequest
    BY <1>7, <1>t, <1>i DEF NetUpdateRequest, Reachable
  <1>7f. CASE FormatRequest
    BY <1>7f, <1>t, <1>i DEF FormatRequest, Reachable, CloseTimer
  <1>8. ASSUME NEW evt \in FreezeTypes \cup {"REBOOT"}, DeferRequest(evt) PROVE Kept
    BY <1>8, <1>t, <1>i DEF DeferRequest, Reachable, FreezeTypes, OnlyRefusals
  <1>9. CASE ClockTick
    <2>1. /\ cpu = "on" /\ clockTimer
          /\ UNCHANGED <<cpu, bootFlag, idleTimer, epd, internet, udpEvent>>
      BY <1>9 DEF ClockTick
    <2>2. CASE BatteryLowShutdown /\ ClockKept /\ UNCHANGED <<radioVars, httpVars>>
      BY <1>t, <1>i, <2>1, <2>2, BatteryLowType
      DEF BatteryLowShutdown, DrawAndPost, ClockKept
    <2>3. ASSUME NEW weather \in BOOLEAN, NEW time \in BOOLEAN, NEW idle \in BOOLEAN,
                 powermode' = TickMode(weather, idle),
                 IF weather THEN RequestBasicWeather ELSE UNCHANGED httpVars,
                 IF time /\ ~weather THEN DrawAndPost ELSE Undrawn,
                 IF \/ weather
                    \/ ~weather /\ ~time /\ powermode'.type = "LIGHT" /\ opmode = "STATION"
                 THEN CloseTimer ELSE ClockKept,
                 IF ~weather /\ ~time /\ powermode'.type = "LIGHT" /\ opmode = "STATION"
                 THEN LeaveWifi ELSE UNCHANGED radioVars
          PROVE  Kept
      <3>1. \/ powermode' = powermode
            \/ /\ powermode.type = "NONE" /\ powermode'.type = "LIGHT"
               /\ powermode'.refresh = powermode.refresh
        BY <1>t, <1>i, <2>3, TickWithoutModem
      <3>2. CASE weather
        BY <1>t, <1>i, <2>1, <2>3, <3>1, <3>2
        DEF RequestBasicWeather, DoGet, Undrawn, CloseTimer
      <3>3. CASE ~weather /\ ~time /\ powermode'.type = "LIGHT" /\ opmode = "STATION"
        BY <1>t, <1>i, <2>1, <2>3, <3>1, <3>3 DEF Undrawn, CloseTimer, LeaveWifi
      <3>4. CASE ~weather /\ ~(~time /\ powermode'.type = "LIGHT" /\ opmode = "STATION")
        BY <1>t, <1>i, <2>1, <2>3, <3>1, <3>4 DEF Undrawn, DrawAndPost, ClockKept
      <3> QED BY <3>2, <3>3, <3>4
    <2>4. ~RadioWakes /\ \A weather \in BOOLEAN : ~RadioRests(weather)
      BY <1>i DEF RadioWakes, RadioRests
    <2> QED BY <1>9, <2>2, <2>3, <2>4 DEF ClockTick
  <1>10. CASE LightWake
    <2>1. /\ cpu = "light"
          /\ UNCHANGED <<clkarm, bootFlag, clockTimer, idleTimer, epd, internet, udpEvent,
                         timeoutTimer, open>>
      BY <1>10 DEF LightWake
    <2>2. CASE BatteryLowShutdown /\ cpu' = "on" /\ UNCHANGED radioVars
      BY <1>t, <1>i, <2>1, <2>2, BatteryLowType DEF BatteryLowShutdown, DrawAndPost
    <2>3. CASE /\ powermode' = [powermode EXCEPT !.refresh = TRUE] /\ JoinWifi
               /\ cpu' = "on" /\ UNCHANGED delayEventId
      <3>1. powermode'.type = powermode.type /\ powermode'.refresh
        BY <1>t, <2>3 DEF PowerModes
      <3> QED BY <1>t, <1>i, <2>1, <2>3, <3>1 DEF JoinWifi
    <2>4. CASE /\ UNCHANGED <<powermode, opmode, link>>
               /\ DrawAndPost /\ cpu' = "on"
      BY <1>t, <1>i, <2>1, <2>4 DEF DrawAndPost
    <2>5. CASE UNCHANGED <<powermode, opmode, link>> /\ Undrawn /\ EnterLightSleep
      BY <1>t, <1>i, <2>1, <2>5 DEF Undrawn, EnterLightSleep
    <2> QED BY <1>10, <2>2, <2>3, <2>4, <2>5 DEF LightWake, Undrawn
  <1>11. CASE IdleTick
    <2>1. /\ cpu = "on" /\ idleTimer
          /\ UNCHANGED <<cpu, idleTimer, opmode, link, udpEvent, timeoutTimer, open>>
      BY <1>11 DEF IdleTick
    <2>2. powermode'.type \in {powermode.type, "SHUTDOWN", "BATLOW"}
      BY <1>11, BatteryLowType, ModeType DEF IdleTick, Types, WifiStates
    <2>3. delayEventId' \in {delayEventId, "UPDATE_EPD"}
      BY <1>11 DEF IdleTick, ShowPowerOff, DrawAndPost, Undrawn, BatteryLowShutdown
    <2> QED BY <1>i, <2>1, <2>2, <2>3
  <1>12. CASE PostedEvent
    <2>1. UpdateEpd
      BY <1>12, <1>i DEF PostedEvent, DoubleClicked, LongClicked
    <2>2. /\ delayEventId' = "NONE" /\ epd' = "BUSY"
          /\ UNCHANGED <<cpu, powermode, clockTimer, clkarm, bootFlag, idleTimer, opmode,
                         link, internet, udpEvent, timeoutTimer, open, stopped>>
      BY <1>12, <2>1 DEF PostedEvent, UpdateEpd
    <2> QED BY <1>t, <1>i, <2>2
  <1>13. CASE EpdFinished
    BY <1>13, <1>t, <1>i
    DEF EpdFinished, FinishBoot, FinishSleep, FinishBatteryLow, FinishReboot, FinishOther,
        JoinWifi, LeaveWifi, StayAwake, PowerOff, EnterLightSleep
  <1>14. CASE Connected
    BY <1>14, <1>t, <1>i DEF Connected
  <1>15. CASE GotIp
    <2>1. /\ cpu = "on" /\ link = "associated" /\ link' = "up"
          /\ UNCHANGED <<cpu, clkarm, bootFlag, clockTimer, idleTimer, delayEventId, opmode,
                         epd, internet, udpEvent>>
      BY <1>15 DEF GotIp
    <2>2. \/ timeoutTimer' /\ open'
          \/ /\ powermode.type # "NONE" /\ ~powermode.refresh
             /\ UNCHANGED <<timeoutTimer, open>>
      BY <1>15 DEF GotIp, RequestBasicWeather, DoGet
    <2>3. powermode'.type = powermode.type
      BY <1>15, <1>t, ModeUpdateType DEF GotIp
    <2>4. opmode = "STATION"
      BY <1>i, <2>1
    <2> QED BY <1>t, <1>i, <2>1, <2>2, <2>3, <2>4
  <1>16. CASE Disconnected
    BY <1>16, <1>t, <1>i
    DEF Disconnected, RetryWifi, OpenSoftAp, RadioOff, RestartPending, DrawAndPost,
        ClockKept, StayAwake, EnterLightSleep, PowerOff, OnlyRefusals
  <1>17. CASE HttpAnswer
    <2>1. /\ cpu = "on" /\ link = "up" /\ opmode = "STATION"
          /\ UNCHANGED <<cpu, bootFlag, idleTimer, opmode, link, epd, udpEvent>>
      BY <1>17, <1>i DEF HttpAnswer
    <2>2. CASE /\ NextRequest
               /\ UNCHANGED <<powermode, clkarm, clockTimer, delayEventId, internet>>
      BY <1>t, <1>i, <2>1, <2>2 DEF NextRequest, DoGet
    <2>3. CASE LastAnswer /\ RequestFinished
      <3>1. timeoutTimer' = FALSE /\ delayEventId' = "UPDATE_EPD"
        BY <2>3 DEF LastAnswer, RequestFinished, BatteryLowShutdown, DrawAndPost
      <3>2. \/ powermode'.type = "BATLOW" /\ UNCHANGED <<clockTimer, clkarm>>
            \/ powermode' = powermode /\ clockTimer' /\ clkarm'
            \/ /\ powermode' = powermode /\ UNCHANGED <<clockTimer, clkarm>>
               /\ clkarm \/ powermode.type = "LIGHT"
        BY <2>3, BatteryLowType DEF RequestFinished, ClockKept
      <3>3. ~bootFlag \/ idleTimer
        BY <1>i, <2>1
      <3> QED BY <1>t, <1>i, <2>1, <3>1, <3>2, <3>3
    <2> QED BY <1>17, <2>2, <2>3 DEF HttpAnswer
  <1>18. CASE HttpTimeout
    BY <1>18, <1>t, <1>i DEF HttpTimeout, Expired, OnlyRefusals
  <1>19. CASE UdpTimer
    <2>1. /\ cpu = "on" /\ udpEvent # "NONE" /\ udpEvent' = "NONE"
          /\ UNCHANGED <<bootFlag, idleTimer, opmode, link, epd, internet>>
      BY <1>19 DEF UdpTimer
    <2>2. CASE udpEvent = "SHUTDOWN" /\ ShowPowerOff /\ UNCHANGED <<cpu, powermode, httpVars>>
      BY <1>t, <1>i, <2>1, <2>2 DEF ShowPowerOff, DrawAndPost
    <2>3. CASE CloseTimer /\ RequestBasicWeather /\ Undrawn /\ UNCHANGED <<cpu, powermode>>
      BY <1>t, <1>i, <2>1, <2>3 DEF CloseTimer, RequestBasicWeather, DoGet, Undrawn
    <2>4. CASE /\ powermode' = [powermode EXCEPT !.type = "REBOOT"] /\ ShowPowerOff
               /\ UNCHANGED <<cpu, httpVars>>
      <3>1. powermode'.type = "REBOOT"
        BY <1>t, <2>4, ModeUpdateType
      <3> QED BY <1>t, <1>i, <2>1, <2>4, <3>1 DEF ShowPowerOff, DrawAndPost
    <2>5. CASE PowerOff /\ Undrawn /\ ClockKept /\ UNCHANGED <<powermode, httpVars>>
      BY <1>t, <1>i, <2>1, <2>5 DEF PowerOff, Undrawn, ClockKept
    <2>6. CASE udpEvent \in FreezeTypes /\ ShowImage(udpEvent) /\ UNCHANGED <<cpu, httpVars>>
      <3>1. delayEventId' = "UPDATE_EPD"
        BY <2>6 DEF ShowImage, DrawAndPost
      <3>2. \/ powermode' = powermode /\ UNCHANGED <<clockTimer, clkarm>> /\ UNCHANGED stopped
            \/ powermode' = powermode /\ ~clockTimer' /\ ~clkarm' /\ stopped'
            \/ powermode'.type = "SHUTDOWN" /\ ~clockTimer' /\ ~clkarm'
        BY <1>t, <1>i, <2>6, TypeOnlyType DEF ShowImage, FreezeTypes, CloseTimer, ClockKept, Types
      <3> QED BY <1>t, <1>i, <2>1, <2>6, <3>1, <3>2
    <2>7. CASE Undrawn /\ ClockKept /\ UNCHANGED <<cpu, stopped, powermode, httpVars>>
      BY <1>t, <1>i, <2>1, <2>7 DEF Undrawn, ClockKept
    <2> QED BY <1>19, <2>2, <2>3, <2>4, <2>5, <2>6, <2>7 DEF UdpTimer
  <1>20. CASE UNCHANGED vars
    BY <1>20, <1>t, <1>i DEF vars
  <1> QED
    BY <1>1, <1>2, <1>3, <1>4, <1>5, <1>6, <1>7, <1>7f, <1>8, <1>9, <1>10, <1>11, <1>12, <1>13,
       <1>14, <1>15, <1>16, <1>17, <1>18, <1>19, <1>20
    DEF Next, Environment, Callbacks

\* With refusals, clicks and clients that ask for neither NONE nor MODEM, a station
\* that runs has always something to come (user_main.c: timers, epdFinishedHandler,
\* Wi-Fi events), or its clock was stopped by a client that can still reach it.
THEOREM StationGoesOn == ASSUME OnlyRefusals PROVE Spec => []NeverStalls
  <1>1. StallInv /\ [Next]_vars => StallInv'
    <2>1. TypeInv /\ [Next]_vars => TypeInv'
      BY ModeNext, HttpTypeNext, FlagNext, WordNext DEF TypeInv
    <2> QED BY <2>1, RadioNext, ServedNext, StallNext DEF StallInv
  <1>2. StallInv => NeverStalls
    BY
    DEF StallInv, RadioInv, NeverStalls, AwakeInv, ClockInv, RestartInv, RadioGoesOn,
        KindsLeft, ServedInv, Reachable, RefreshToCome, TypeInv, WordTypes
  <1>3. StationInit => StallInv
    BY StallInit
  <1> QED BY <1>1, <1>2, <1>3, PTL DEF Spec

=============================================================================
