----------------------------- MODULE HttpClient -----------------------------
(***************************************************************************)
(* The HTTP client (src/app/network/http_utils.c) and the requests that    *)
(* use it (src/app/controller): lookup, connection, the assembly of a body *)
(* from packets, the time-out, and what each recvCallback does with the    *)
(* shared context before it asks for the next page over the event bus.     *)
(* It implements HttpChain, which the station is composed with.            *)
(*                                                                         *)
(* There is one struct espconn.  doGet clears it without closing what it   *)
(* was connected to, and the SDK finds the callbacks of every connection   *)
(* in it: a connection that timed out and was never closed stays in        *)
(* "late", and what it still brings goes to the request that came after.   *)
(*                                                                         *)
(* External: the lookup, the connection and the servers.  The headers of   *)
(* an answer come in one packet, a lookup that timed out is not answered   *)
(* later, and espconn_disconnect ends the callbacks of its connection.     *)
(***************************************************************************)
EXTENDS EventBus, Sequences, SequencesExt

CONSTANTS
  BufferSize,   \* bufferSize, in units of a body
  Answers,      \* what servers may send, see AnswerType
  MaxChains     \* bound: updates that are started

\* What the recvCallback of a page clears before it reads, and what it reads, in
\* groups that a tag of their own introduces, in the order of the page.
Itianqi7 == [clears |-> {"icon", "today", "almanac"}, reads |-> <<"today", "almanac">>]
Itianqi8 == [clears |-> {"tomorrow"}, reads |-> <<"tomorrow">>]
Itianqi102 == [clears |-> {"icon", "cityName", "indices"},
               reads |-> <<"icon", "cityName", "indices">>]
Itianqi3 == [clears |-> {}, reads |-> <<"forecast">>]
Systime == [clears |-> {"date"}, reads |-> <<"date">>]

\* The order in which basicHttpResultHandler asks for them.
Pages == <<Itianqi7, Itianqi8, Itianqi102, Itianqi3, Systime>>
LastStep == Len(Pages)
\* The shared context, in fields that are filled together.
BasicWeather == {"icon", "today", "tomorrow", "cityName", "indices"}
CalendarFields == {"almanac", "date"}
Fields == BasicWeather \cup CalendarFields \cup {"forecast"}

HTTP_OK == 200
HTTP_NOT_FOUND == 404

\* code: the response code.  framing: a Content-Length, or chunks whose end
\* marker comes in one packet or is "split" over two.  body: its units.
\* zero: the last header line ends in 0, so that a packet of headers alone ends
\* in the five bytes of HTTP_CHUNK_END.
AnswerType == [code : {HTTP_OK, HTTP_NOT_FOUND}, framing : {"length", "chunked", "split"},
               body : Nat, zero : BOOLEAN]

ASSUME HttpAssumption ==
  /\ BufferSize \in Nat \ {0}
  /\ Answers \subseteq AnswerType
  /\ MaxChains \in Nat

VARIABLES
  registered,         \* user_init has registered this many handlers
  step,               \* the page whose recvCallback is set, 0 before the first
  chain,              \* updates started
  outcome,            \* of the last update: "none", "running", "finished", "timeout"
  conn,               \* http_espconn: "closed", "lookup", "connecting", "open"
  http_code, hasContentLength, content_length, isTimeout,
  httpBuffer,         \* its first "total" units: connection and place in the answer
  timeoutTimer,       \* armed
  peer,               \* the connection: its id, its answer, and what is to come
  late,               \* connections that were forgotten open
  abandoned,          \* the updates that started while there was one
  overruns,           \* the updates with a copy that ran past the end of httpBuffer
  body,               \* what the last recvCallback was given, for which page of which
                      \* update, and whether the answer was at its end
  context             \* by field: the update it is from, 0 when cleared

chainVars == <<registered, step, chain, outcome>>
stateVars == <<http_code, hasContentLength, content_length, isTimeout>>
history == <<abandoned, overruns>>
connVars == <<conn, peer, late, history>>
vars == <<entity, chainVars, stateVars, connVars, httpBuffer, timeoutTimer, body, context>>

\* The connection made for a page of an update.
Id == <<chain, step>>
Nobody == [id |-> <<0, 0>>, code |-> HTTP_OK, framing |-> "length", rest |-> 0,
           length |-> 0, zero |-> FALSE, begun |-> FALSE]

\* What total is: the units of the buffer in use.
total == Len(httpBuffer)

Garbage == <<0, 0, 0>>   \* what lies behind a packet in memory

\* The events that are registered for, in their order.
Subscribers ==
  <<"MAIN_EVENT_DISPLAY_IMAGE", "MAIN_EVENT_REQUEST_FINISH", "MAIN_EVENT_EPD_FINISH",
    "MAIN_EVENT_CLOSE_TIMER", "MAIN_EVENT_POWERTOGGLE", "BASIC_CTRL_EVENT_UPDATE">>

\* Types are well-formed.
HttpClientTypeOK ==
  /\ entity \in [Slots -> {Free} \cup [handler : {"main", "basicHttpResultHandler"},
                                       eventId : Range(Subscribers)]]
  /\ registered \in 0..6
  /\ step \in 0..LastStep
  /\ chain \in 0..MaxChains
  /\ outcome \in {"none", "running", "finished", "timeout"}
  /\ conn \in {"closed", "lookup", "connecting", "open"}
  /\ http_code \in {0, HTTP_OK, HTTP_NOT_FOUND}
  /\ hasContentLength \in BOOLEAN
  /\ content_length \in Nat
  /\ isTimeout \in BOOLEAN
  /\ total \in 0..BufferSize
  /\ timeoutTimer \in BOOLEAN
  /\ \A p \in late : p.begun \in BOOLEAN /\ p.rest \in Nat
  /\ overruns \subseteq 0..MaxChains
  /\ context \in [Fields -> 0..MaxChains]

-----------------------------------------------------------------------------
(***************************************************************************)
(* Start.  user_init registers the handlers of user_main.c, then           *)
(* basicControllerInit the one of the requests.                            *)
(***************************************************************************)

Reset ==
  /\ step' = 0
  /\ conn' = "closed"
  /\ http_code' = 0
  /\ hasContentLength' = FALSE
  /\ content_length' = 0
  /\ isTimeout' = FALSE
  /\ httpBuffer' = <<>>
  /\ timeoutTimer' = FALSE
  /\ peer' = Nobody
  /\ late' = {}
  /\ body' = [page |-> 0, update |-> 0, of |-> <<>>, whole |-> TRUE]
  /\ context' = [f \in Fields |-> 0]

Init ==
  /\ EventBusInit
  /\ registered = 0
  /\ step = 0
  /\ chain = 0
  /\ outcome = "none"
  /\ conn = "closed"
  /\ http_code = 0
  /\ hasContentLength = FALSE
  /\ content_length = 0
  /\ isTimeout = FALSE
  /\ httpBuffer = <<>>
  /\ timeoutTimer = FALSE
  /\ peer = Nobody
  /\ late = {}
  /\ abandoned = {}
  /\ overruns = {}
  /\ body = [page |-> 0, update |-> 0, of |-> <<>>, whole |-> TRUE]
  /\ context = [f \in Fields |-> 0]

RegisterHandler ==
  /\ registered < Len(Subscribers)
  /\ registered' = registered + 1
  /\ Regist(IF registered' = 6 THEN "basicHttpResultHandler" ELSE "main",
            Subscribers[registered'])
  /\ UNCHANGED <<step, chain, outcome, stateVars, connVars, httpBuffer,
                 timeoutTimer, body, context>>

\* An exception restarts the station: RAM is lost and user_init runs again.  What
\* is remembered of the updates is the model's own.
Restart ==
  /\ Reset
  /\ entity' = [i \in Slots |-> Free]
  /\ registered' = 0
  /\ outcome' = "none"
  /\ UNCHANGED <<chain, abandoned>>

-----------------------------------------------------------------------------
(***************************************************************************)
(* The requests.                                                           *)
(***************************************************************************)

\* Seeded bug: the timer is not armed.
DoGetMutant(k) ==
  /\ step' = k
  /\ http_code' = 0
  /\ content_length' = 0
  /\ isTimeout' = FALSE
  /\ hasContentLength' = FALSE
  /\ httpBuffer' = <<>>
  /\ timeoutTimer' = FALSE
  /\ conn' = "lookup"
  /\ peer' = Nobody

\* doGet for page k, called by requestItianqi7, 8, 102, 3 and requestCalendar.
DoGet(k) ==
  /\ step' = k
  /\ http_code' = 0
  /\ content_length' = 0
  /\ isTimeout' = FALSE
  /\ hasContentLength' = FALSE
  /\ httpBuffer' = <<>>
  /\ timeoutTimer' = TRUE
  /\ conn' = "lookup"
  /\ peer' = Nobody

\* requestBasicWeather, from the station's callbacks.  An open connection is
\* forgotten.
RequestBasicWeather ==
  /\ registered = Len(Subscribers)
  /\ chain < MaxChains
  /\ chain' = chain + 1
  /\ outcome' = "running"
  /\ DoGet(1)
  /\ late' = IF conn = "open" THEN late \cup {peer} ELSE late
  /\ abandoned' = IF late' # {} THEN abandoned \cup {chain'} ELSE abandoned
  /\ UNCHANGED <<entity, registered, overruns, body, context>>

\* dns_callback with an address: memory for the connection, and its callbacks.
LookupDone ==
  /\ conn = "lookup"
  /\ conn' = "connecting"
  /\ UNCHANGED <<entity, chainVars, stateVars, peer, late, history, httpBuffer,
                 timeoutTimer, body, context>>

\* dns_callback without one: the address is read through a null pointer.
LookupFails == conn = "lookup" /\ Restart /\ UNCHANGED overruns

\* http_connect_callback sends the request, in the buffer the body will go to.
\* The server has an answer.
Connected ==
  /\ conn = "connecting"
  /\ conn' = "open"
  /\ \E a \in Answers :
       peer' = [id |-> Id, code |-> a.code, framing |-> a.framing, rest |-> a.body,
                length |-> a.body, zero |-> a.zero, begun |-> FALSE]
  /\ UNCHANGED <<entity, chainVars, stateVars, late, history, httpBuffer,
                 timeoutTimer, body, context>>

-----------------------------------------------------------------------------
(***************************************************************************)
(* The end of a connection.                                                *)
(***************************************************************************)

\* http_disconnect_callback.
Clear ==
  /\ conn' = "closed"
  /\ http_code' = 0
  /\ hasContentLength' = FALSE
  /\ content_length' = 0
  /\ isTimeout' = FALSE
  /\ httpBuffer' = <<>>
  /\ peer' = Nobody

\* The other side closes.
RemoteClose ==
  /\ conn = "open"
  /\ Clear
  /\ UNCHANGED <<entity, chainVars, late, history, timeoutTimer, body, context>>

\* The SDK looks for the callbacks of a forgotten connection in http_espconn.
Registered == conn \in {"connecting", "open"}

\* A forgotten connection closes: its callback clears what belongs to the one in
\* use, which is then forgotten in its turn.
LateClose ==
  \E p \in late :
    /\ IF Registered
       THEN /\ Clear
            /\ late' = (late \ {p}) \cup (IF conn = "open" THEN {peer} ELSE {})
       ELSE late' = late \ {p} /\ UNCHANGED <<conn, stateVars, httpBuffer, peer>>
    /\ UNCHANGED <<entity, chainVars, history, timeoutTimer, body, context>>

\* http_timeout_callback.  Its timeoutCallback, httpTimeoutHandler, draws the view
\* and does not disconnect.
Expire ==
  /\ timeoutTimer
  /\ timeoutTimer' = FALSE
  /\ isTimeout' = TRUE
  /\ outcome' = "timeout"
  /\ UNCHANGED <<entity, registered, step, chain, http_code, hasContentLength,
                 content_length, connVars, httpBuffer, body, context>>

-----------------------------------------------------------------------------
(***************************************************************************)
(* What the recvCallbacks do with a body.                                  *)
(***************************************************************************)

\* The update that each group of page k in a body is from, 0 when it is missing:
\* the tag of a group is looked for behind that of the group before it.
Found(k, of) ==
  LET n == Len(Pages[k].reads)
      place[g \in 0..n] ==
        IF g = 0 THEN 0
        ELSE LET at == {i \in place[g - 1] + 1..Len(of) : of[i][2] = k /\ of[i][3] = g}
             IN  IF at = {} THEN Len(of) + 1 ELSE Min(at)
  IN  [g \in 1..n |-> IF place[g] <= Len(of) THEN of[place[g]][1] ELSE 0]

\* Seeded bug: what the page does not bring is left from the update before.
ParseMutant(k, of) ==
  context' = [f \in Fields |->
    LET at == {g \in DOMAIN Pages[k].reads : Pages[k].reads[g] = f /\ Found(k, of)[g] # 0}
    IN  IF at # {} THEN Found(k, of)[Min(at)] ELSE context[f]]

\* itianqi7, 8, 102, 3 and calendarRecvCallback, without what they post.
Parse(k, of) ==
  context' = [f \in Fields |->
    LET at == {g \in DOMAIN Pages[k].reads : Pages[k].reads[g] = f /\ Found(k, of)[g] # 0}
    IN  IF at # {} THEN Found(k, of)[Min(at)]
        ELSE IF f \in Pages[k].clears THEN 0 ELSE context[f]]

\* What their post comes to: basicHttpResultHandler starts the next request, or
\* tells user_main.c that the update is over.
PostNext ==
  CASE HandlerOf("BASIC_CTRL_EVENT_UPDATE") # "basicHttpResultHandler" ->
         Clear /\ timeoutTimer' = FALSE /\ UNCHANGED <<step, outcome>>
    [] step < LastStep -> DoGet(step + 1) /\ UNCHANGED outcome
    [] OTHER -> /\ Clear
                /\ timeoutTimer' = FALSE
                /\ outcome' = "finished"
                /\ UNCHANGED step

\* The end of a body: the timer is stopped and recvCallback disconnects, reads
\* and posts.  The SDK ends the connection in use, a forgotten one stays.
Deliver(of, whole) ==
  /\ body' = [page |-> step, update |-> chain, of |-> of, whole |-> whole]
  /\ Parse(step, of)
  /\ PostNext
  /\ UNCHANGED <<entity, registered, chain, abandoned>>

-----------------------------------------------------------------------------
(***************************************************************************)
(* http_recv_callback.                                                     *)
(***************************************************************************)

\* n units of connection p, from where it is.
Units(p, n) == [i \in 1..n |-> <<p.id[1], p.id[2], p.length - p.rest + i>>]

\* What is left of p after a packet with n units.
Sent(p, n) == [p EXCEPT !.rest = p.rest - n, !.begun = TRUE]

\* The header, when the packet begins with one.
Header(p) ==
  IF p.begun
  THEN [code |-> http_code, sized |-> hasContentLength, length |-> content_length]
  ELSE [code |-> p.code, sized |-> hasContentLength \/ p.framing = "length",
        length |-> IF p.framing = "length" THEN p.length ELSE content_length]

\* The packet ends in HTTP_CHUNK_END: the last one of a chunked body, unless the
\* end is split over two, or one of headers alone whose last line ends in 0.
EndsInMark(p, n) ==
  \/ n = p.rest /\ p.framing = "chunked"
  \/ ~p.begun /\ n = 0 /\ p.zero

\* The five bytes are taken off a packet that has no others behind its header:
\* end - start wraps to nearly 2^32.
Wraps(p, n, h) == ~h.sized /\ ~p.begun /\ n = 0 /\ p.zero

\* Seeded bug: the room in the buffer is not looked at.
CopiedMutant(p, n, h) == Units(p, n)

\* What a packet appends, as much as the buffer holds.
Copied(p, n, h) ==
  LET room == BufferSize - total
  IN  IF Wraps(p, n, h) THEN [i \in 1..room |-> Garbage]
      ELSE Units(p, Min({n, room}))

\* Seeded bug: the length is compared with one unit more than was received.
IsCompleteMutant(p, n, h, buffer) ==
  \/ Len(buffer) >= BufferSize
  \/ h.sized /\ Len(buffer) + 1 >= h.length
  \/ ~h.sized /\ EndsInMark(p, n)

\* The test that ends a body, for both kinds of framing.
IsComplete(p, n, h, buffer) ==
  \/ Len(buffer) >= BufferSize
  \/ h.sized /\ Len(buffer) >= h.length
  \/ ~h.sized /\ EndsInMark(p, n)

\* Seeded bug: the body of a request that timed out is delivered.
CompletesMutant(p, n, h, buffer) == IsComplete(p, n, h, buffer)

Completes(p, n, h, buffer) == ~isTimeout /\ IsComplete(p, n, h, buffer)

\* http_recv_callback for a packet of p with n units, which leaves the connections
\* as peer1 and late1.  An answer of 404 is dropped and its request left to the
\* timer.  A count that wraps behind other data is not cut: the copy writes over
\* all that lies behind the buffer, until the exception.
Receive(p, n, peer1, late1) ==
  LET h == Header(p)
      taken == h.code # HTTP_NOT_FOUND
      buffer == IF taken THEN httpBuffer \o Copied(p, n, h) ELSE httpBuffer
      endless == taken /\ Wraps(p, n, h) /\ total > 0
      over == taken /\ Completes(p, n, h, buffer)
  IN  /\ overruns' = IF endless \/ Len(buffer) > BufferSize
                     THEN overruns \cup {chain} ELSE overruns
      /\ \/ endless /\ Restart
         \/ ~endless /\ over /\ Deliver(buffer, n = p.rest) /\ late' = late1
         \/ /\ ~endless /\ ~over
            /\ http_code' = h.code
            /\ hasContentLength' = h.sized
            /\ content_length' = h.length
            /\ httpBuffer' = buffer
            /\ peer' = peer1
            /\ late' = late1
            /\ UNCHANGED <<entity, chainVars, conn, abandoned, isTimeout,
                           timeoutTimer, body, context>>

\* A packet has units, but for one of headers alone.
Packets(p) == {n \in 0..p.rest : p.begun => n > 0}

Packet ==
  /\ conn = "open"
  /\ \E n \in Packets(peer) : Receive(peer, n, Sent(peer, n), late)

\* A packet of a forgotten connection goes to the request in use, or to nobody.
LatePacket ==
  \E p \in late : \E n \in Packets(p) :
    LET late1 == (late \ {p}) \cup {Sent(p, n)}
    IN  IF Registered THEN Receive(p, n, peer, late1)
        ELSE /\ late' = late1
             /\ UNCHANGED <<entity, chainVars, stateVars, conn, peer, history,
                            httpBuffer, timeoutTimer, body, context>>

-----------------------------------------------------------------------------

Next ==
  \/ RegisterHandler
  \/ RequestBasicWeather
  \/ LookupDone
  \/ LookupFails
  \/ Connected
  \/ Packet
  \/ LatePacket
  \/ RemoteClose
  \/ LateClose
  \/ Expire

\* Software timers expire.
Spec == Init /\ [][Next]_vars /\ WF_vars(Expire)

-----------------------------------------------------------------------------
(***************************************************************************)
(* Properties.                                                             *)
(***************************************************************************)

\* No copy writes past the end of the buffer (http_utils.c:280, 300), but for those
\* of an update that began with a connection forgotten open: headers of that one
\* that end in HTTP_CHUNK_END, behind a part of the new answer, count below zero.
BufferIsKept == overruns \subseteq abandoned

\* A recvCallback is given the answer to its own request (http_utils.c:245),
\* whole or cut off at the end of the buffer, and read from its beginning: no
\* byte of another page, none twice and none missing in between.  Two things
\* break it and are excluded: a connection forgotten after a time-out, and a
\* packet of headers that ends in HTTP_CHUNK_END.
OwnAnswer ==
  \/ body.update \in abandoned
  \/ \E i \in DOMAIN body.of : body.of[i] = Garbage
  \/ /\ body.whole \/ Len(body.of) = BufferSize
     /\ body.of = [i \in DOMAIN body.of |-> <<body.update, body.page, i>>]

\* What a page can show together is of one update (context.c:26): while there
\* is an icon, the texts beside it are from the icon's update or empty.
\* nointernet_layout.c is drawn when there is none.
ShownTogether ==
  context["icon"] # 0 /\ abandoned \cap (context["icon"]..chain) = {} =>
    \A f \in {"today", "almanac", "tomorrow", "cityName", "indices"} :
      context[f] \in {0, context["icon"]}

\* A field is of the update that finished or empty, but for the forecast, which
\* itianqi3RecvCallback does not clear (itianqi3_request.c:49).
FinishedIsFresh ==
  outcome = "finished" /\ chain \notin abandoned =>
    \A f \in Fields \ {"forecast"} : context[f] \in {0, chain}

\* What is shown together is of one update, and a finished update has left nothing
\* of another on the page: what it did not bring is empty, not old.
UpdateIsWhole == ShownTogether /\ FinishedIsFresh

\* Every update finishes or times out (http_utils.c:108).
UpdateEnds == (outcome = "running") ~> (outcome # "running")

\* The chain that the station is composed with.
Chain == INSTANCE HttpChain WITH open <- conn # "closed"

\* The client implements it: whatever packets and forgotten connections do, the
\* station sees requests answered in order, closed or timed out.
RefinesChain == Chain!HttpSpec

=============================================================================
