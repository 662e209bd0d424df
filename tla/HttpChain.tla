----------------------------- MODULE HttpChain -----------------------------
(***************************************************************************)
(* The weather and time requests: the chain of basic_controller.c over the *)
(* single HTTP client of http_utils.c.  Each request is answered, or its   *)
(* three second timer expires; the answer of one starts the next.          *)
(*                                                                         *)
(* The client has one espconn, which doGet clears: an earlier connection   *)
(* is forgotten by the code, and the model has at most one outstanding.    *)
(***************************************************************************)
EXTENDS Naturals

CONSTANT LastStep   \* requests of a chain: itianqi 7, 8, 102, 3 and the calendar

ASSUME LastStepAssumption == LastStep \in Nat \ {0}

VARIABLES
  step,           \* the request whose recvCallback is set, 0 before the first
  open,           \* a lookup or connection is outstanding
  timeoutTimer,   \* armed
  isTimeout

httpVars == <<step, open, timeoutTimer, isTimeout>>

HttpTypeOK ==
  /\ step \in 0..LastStep
  /\ open \in BOOLEAN
  /\ timeoutTimer \in BOOLEAN
  /\ isTimeout \in BOOLEAN

HttpInit ==
  /\ step = 0
  /\ open = FALSE
  /\ timeoutTimer = FALSE
  /\ isTimeout = FALSE

\* Seeded bug: the timer is not armed.
DoGetMutant(k) ==
  /\ step' = k
  /\ open' = TRUE
  /\ isTimeout' = FALSE
  /\ UNCHANGED timeoutTimer

\* doGet, called by requestItianqi7, 8, 102, 3 and requestCalendar after they
\* set their recvCallback.
DoGet(k) ==
  /\ step' = k
  /\ open' = TRUE
  /\ timeoutTimer' = TRUE
  /\ isTimeout' = FALSE

\* requestBasicWeather.
RequestBasicWeather == DoGet(1)

\* Seeded bug: the answer of a request that timed out is taken.
ReceivedMutant == open

\* http_recv_callback ends a body with the timer still running: the timer is
\* stopped and recvCallback called.
Received == open /\ ~isTimeout

\* recvCallback disconnects and posts the next step to basicHttpResultHandler.
NextRequest == step < LastStep /\ DoGet(step + 1)

\* The last recvCallback posts CTRL_FINISHED, which becomes
\* MAIN_EVENT_REQUEST_FINISH.
LastAnswer ==
  /\ step = LastStep
  /\ open' = FALSE
  /\ timeoutTimer' = FALSE
  /\ isTimeout' = FALSE
  /\ UNCHANGED step

\* http_disconnect_callback: the other side closes before its answer is complete.
Closed ==
  /\ open
  /\ open' = FALSE
  /\ isTimeout' = FALSE
  /\ UNCHANGED <<step, timeoutTimer>>

\* http_timeout_callback, before it calls timeoutCallback.  The connection
\* stays: httpTimeoutHandler does not disconnect.
Expired ==
  /\ timeoutTimer
  /\ isTimeout' = TRUE
  /\ timeoutTimer' = FALSE
  /\ UNCHANGED <<step, open>>

\* The program restarts: see Station's power cycles and HttpClient's exceptions.
HttpRestart ==
  /\ step' = 0
  /\ open' = FALSE
  /\ timeoutTimer' = FALSE
  /\ isTimeout' = FALSE

HttpNext ==
  \/ RequestBasicWeather
  \/ Received /\ (NextRequest \/ LastAnswer)
  \/ Closed
  \/ Expired
  \/ HttpRestart

\* The chain alone: what HttpClient implements and Station is composed with.
HttpSpec == HttpInit /\ [][HttpNext]_httpVars

=============================================================================
