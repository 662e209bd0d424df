------------------------- MODULE HttpClient_proofs -------------------------
(***************************************************************************)
(* The HTTP client implements the chain of requests that the station is    *)
(* composed with, keeps its types and copies into its buffer, gives every  *)
(* recvCallback the answer to its own request, and leaves a context of one *)
(* update; for every buffer size, every set of answers and every number of *)
(* updates, when the event bus has room for the handlers that user_init    *)
(* and basicControllerInit register.                                       *)
(***************************************************************************)
EXTENDS HttpClient, TLAPS, WellFoundedInduction

\* eventbus.h has SUBSCRIBER_MAX 32.
RoomForAll == SubscriberMax >= 6

\* What the six calls of regist leave in the table, in the order they are made.
Entry(i) == [handler |-> IF i = 5 THEN "basicHttpResultHandler" ELSE "main",
             eventId |-> Subscribers[i + 1]]

BusFills ==
  /\ registered \in 0..6
  /\ entity \in [Slots -> {Free} \cup {Entry(i) : i \in 0..5}]
  /\ \A i \in Slots : entity[i] = IF i < registered THEN Entry(i) ELSE Free

\* A request is only made when everybody has registered.
RequestsAreAnswered == conn # "closed" => registered = 6

HttpInv ==
  /\ BusFills
  /\ RequestsAreAnswered
  /\ step \in 0..LastStep

-----------------------------------------------------------------------------

LEMMA LastStepIsFive == LastStep = 5
  BY DEF LastStep, Pages

LEMMA SixSubscribers == Len(Subscribers) = 6
  BY DEF Subscribers

LEMMA EntriesAreTaken == \A i \in 0..5 : Entry(i) # Free
  <1> SUFFICES ASSUME NEW i \in 0..5
               PROVE  Entry(i).eventId # "NONE"
    BY DEF Free
  <1> QED  BY DEF Entry, Subscribers

LEMMA LeastOfTail ==
  ASSUME NEW a \in Nat, NEW b \in Nat, a =< b
  PROVE  Min(a..b) = a
  BY DEF Min

\* Each registration takes the next slot.
LEMMA RegistFills ==
  ASSUME RoomForAll, SubscriberMax \in Nat, BusFills, RegisterHandler
  PROVE  BusFills'
<1>1. registered \in 0..5 /\ registered' = registered + 1
  BY SixSubscribers DEF RegisterHandler, BusFills
<1>2. {i \in Slots : entity[i] = Free} = registered..(SubscriberMax - 1)
  BY <1>1, EntriesAreTaken DEF BusFills, Slots, RoomForAll
<1>3. Min(registered..(SubscriberMax - 1)) = registered
  BY <1>1, LeastOfTail DEF RoomForAll
<1>4. registered \in Slots
  BY <1>1 DEF Slots, RoomForAll
<1>5. entity' = [entity EXCEPT ![registered] = Entry(registered)]
  <2>1. registered..(SubscriberMax - 1) # {}
    BY <1>1 DEF RoomForAll
  <2>2. Entry(registered) =
          [handler |-> IF registered' = 6 THEN "basicHttpResultHandler" ELSE "main",
           eventId |-> Subscribers[registered']]
    BY <1>1 DEF Entry
  <2> QED  BY <1>2, <1>3, <2>1, <2>2 DEF RegisterHandler, Regist
<1>6. entity' \in [Slots -> {Free} \cup {Entry(i) : i \in 0..5}]
  BY <1>1, <1>5 DEF BusFills
<1>7. ASSUME NEW i \in Slots
      PROVE  entity'[i] = IF i < registered' THEN Entry(i) ELSE Free
  <2>1. CASE i = registered
    BY <1>1, <1>4, <1>5, <2>1 DEF BusFills
  <2>2. CASE i # registered
    <3>1. entity'[i] = entity[i]
      BY <1>5, <2>2 DEF BusFills
    <3>2. i < registered' <=> i < registered
      BY <1>1, <2>2 DEF Slots
    <3> QED  BY <3>1, <3>2 DEF BusFills
  <2> QED  BY <2>1, <2>2
<1>8. registered' \in 0..6
  BY <1>1
<1> QED  BY <1>6, <1>7, <1>8 DEF BusFills

\* When all are there, the posts of the recvCallbacks reach the controller.
LEMMA ControllerAnswers ==
  ASSUME RoomForAll, SubscriberMax \in Nat, BusFills, registered = 6
  PROVE  HandlerOf("BASIC_CTRL_EVENT_UPDATE") = "basicHttpResultHandler"
<1>1. 5 \in Slots /\ entity[5] = Entry(5)
  BY DEF Slots, RoomForAll, BusFills
<1>2. Entry(5).eventId = "BASIC_CTRL_EVENT_UPDATE"
  BY DEF Entry, Subscribers
<1>3. ASSUME NEW i \in Slots, entity[i].eventId = "BASIC_CTRL_EVENT_UPDATE"
      PROVE  i = 5
  <2>1. CASE i < 6
    <3>1. i \in 0..5 /\ entity[i] = Entry(i)
      BY <2>1 DEF Slots, BusFills
    <3>2. Subscribers[i + 1] = "BASIC_CTRL_EVENT_UPDATE"
      BY <1>3, <3>1 DEF Entry
    <3> QED  BY <3>1, <3>2 DEF Subscribers
  <2>2. CASE ~(i < 6)
    BY <1>3, <2>2 DEF BusFills, Free
  <2> QED  BY <2>1, <2>2
<1>4. {i \in Slots : entity[i].eventId = "BASIC_CTRL_EVENT_UPDATE"} = {5}
  BY <1>1, <1>2, <1>3
<1>5. Min({5}) = 5
  BY DEF Min
<1>6. Entry(5).handler = "basicHttpResultHandler"
  BY DEF Entry
<1>7. Min({i \in Slots : entity[i].eventId = "BASIC_CTRL_EVENT_UPDATE"}) = 5
  BY <1>4, <1>5
<1>8. {i \in Slots : entity[i].eventId = "BASIC_CTRL_EVENT_UPDATE"} # {}
  BY <1>4
<1> QED  BY <1>1, <1>6, <1>7, <1>8 DEF HandlerOf

-----------------------------------------------------------------------------
(***************************************************************************)
(* Every step maps to a step of the chain, and keeps the invariant.        *)
(***************************************************************************)

\* The code's restarts, after a failed lookup or a copy that runs out of memory.
LEMMA RestartMaps ==
  ASSUME SubscriberMax \in Nat, HttpInv, Restart
  PROVE  HttpInv' /\ Chain!HttpRestart
<1>1. BusFills'
  BY DEF Restart, BusFills, Slots
<1> QED  BY <1>1, LastStepIsFive
         DEF Restart, Reset, HttpInv, RequestsAreAnswered, Chain!HttpRestart

\* A delivered body is the answer the chain waits for: it was not late, and its
\* post starts the next request or ends the update.
LEMMA DeliverMaps ==
  ASSUME RoomForAll, SubscriberMax \in Nat, HttpInv, conn # "closed", ~isTimeout,
         NEW of, NEW whole, Deliver(of, whole)
  PROVE  HttpInv' /\ Chain!Received /\ (Chain!NextRequest \/ Chain!LastAnswer)
<1>1. registered = 6
  BY DEF HttpInv, RequestsAreAnswered
<1>2. HandlerOf("BASIC_CTRL_EVENT_UPDATE") = "basicHttpResultHandler"
  BY <1>1, ControllerAnswers DEF HttpInv
<1>3. UNCHANGED <<entity, registered>>
  BY DEF Deliver
<1>4. BusFills'
  BY <1>3 DEF HttpInv, BusFills
<1>5. CASE step < LastStep
  <2>1. DoGet(step + 1)
    BY <1>2, <1>5 DEF Deliver, PostNext
  <2> QED  BY <1>1, <1>3, <1>4, <1>5, <2>1, LastStepIsFive
           DEF DoGet, HttpInv, RequestsAreAnswered, Chain!Received, Chain!NextRequest,
               Chain!DoGet
<1>6. CASE ~(step < LastStep)
  <2>1. Clear /\ timeoutTimer' = FALSE /\ step' = step
    BY <1>2, <1>6 DEF Deliver, PostNext
  <2> QED  BY <1>1, <1>3, <1>4, <1>6, <2>1, LastStepIsFive
           DEF Clear, HttpInv, RequestsAreAnswered, Chain!Received, Chain!LastAnswer
<1> QED  BY <1>5, <1>6

\* A packet for the request in use is a restart, an answer or nothing.
LEMMA ReceiveMaps ==
  ASSUME RoomForAll, SubscriberMax \in Nat, HttpInv, Registered,
         NEW p, NEW n, NEW peer1, NEW late1, Receive(p, n, peer1, late1)
  PROVE  HttpInv' /\ [Chain!HttpNext]_(Chain!httpVars)
<1>0. conn # "closed"
  BY DEF Registered
<1>1. CASE Restart
  BY <1>1, RestartMaps DEF Chain!HttpNext
<1>2. CASE \E of, whole : ~isTimeout /\ Deliver(of, whole)
  <2>1. PICK of, whole : ~isTimeout /\ Deliver(of, whole)
    BY <1>2
  <2> QED  BY <1>0, <2>1, DeliverMaps DEF Chain!HttpNext
<1>3. CASE UNCHANGED <<entity, chainVars, conn, isTimeout, timeoutTimer>>
  BY <1>3 DEF HttpInv, BusFills, RequestsAreAnswered, chainVars, Chain!httpVars
<1>4. Restart \/ (\E of, whole : ~isTimeout /\ Deliver(of, whole))
        \/ UNCHANGED <<entity, chainVars, conn, isTimeout, timeoutTimer>>
  BY DEF Receive, Completes
<1> QED  BY <1>1, <1>2, <1>3, <1>4

LEMMA StepMaps ==
  ASSUME RoomForAll, SubscriberMax \in Nat, HttpInv, [Next]_vars
  PROVE  HttpInv' /\ [Chain!HttpNext]_(Chain!httpVars)
<1> USE DEF HttpInv, RequestsAreAnswered, Chain!httpVars
<1>1. CASE RegisterHandler
  <2>1. BusFills'
    BY <1>1, RegistFills
  <2>2. UNCHANGED <<step, conn, timeoutTimer, isTimeout>>
    BY <1>1 DEF RegisterHandler, connVars, history, stateVars
  <2>3. conn = "closed"
    BY <1>1, SixSubscribers DEF RegisterHandler, BusFills
  <2> QED  BY <2>1, <2>2, <2>3
<1>2. CASE RequestBasicWeather
  <2>1. UNCHANGED <<entity, registered>> /\ registered = 6 /\ DoGet(1)
    BY <1>2, SixSubscribers DEF RequestBasicWeather
  <2>2. Chain!RequestBasicWeather
    BY <2>1 DEF DoGet, Chain!RequestBasicWeather, Chain!DoGet
  <2> QED  BY <2>1, <2>2, LastStepIsFive DEF DoGet, BusFills, Chain!HttpNext
<1>3. CASE LookupDone
  BY <1>3 DEF LookupDone, chainVars, stateVars, BusFills
<1>4. CASE LookupFails
  BY <1>4, RestartMaps DEF LookupFails, Chain!HttpNext
<1>5. CASE Connected
  BY <1>5 DEF Connected, chainVars, stateVars, BusFills
<1>6. CASE Packet
  BY <1>6, ReceiveMaps DEF Packet, Registered
<1>7. CASE LatePacket
  <2>1. CASE Registered
    BY <1>7, <2>1, ReceiveMaps DEF LatePacket
  <2>2. CASE ~Registered
    BY <1>7, <2>2 DEF LatePacket, chainVars, stateVars, BusFills
  <2> QED  BY <2>1, <2>2
<1>8. CASE RemoteClose
  BY <1>8 DEF RemoteClose, Clear, chainVars, BusFills, Chain!HttpNext, Chain!Closed
<1>9. CASE LateClose
  <2>1. UNCHANGED <<entity, registered, step, timeoutTimer>>
    BY <1>9 DEF LateClose, chainVars
  <2>2. CASE Registered
    <3>1. conn # "closed" /\ Clear
      BY <1>9, <2>2 DEF LateClose, Registered
    <3> QED  BY <2>1, <3>1 DEF Clear, BusFills, Chain!HttpNext, Chain!Closed
  <2>3. CASE ~Registered
    BY <1>9, <2>1, <2>3 DEF LateClose, stateVars, BusFills
  <2> QED  BY <2>2, <2>3
<1>10. CASE Expire
  BY <1>10 DEF Expire, connVars, history, BusFills, Chain!HttpNext, Chain!Expired
<1>11. CASE UNCHANGED vars
  BY <1>11 DEF vars, chainVars, stateVars, connVars, history, BusFills
<1> QED  BY <1>1, <1>2, <1>3, <1>4, <1>5, <1>6, <1>7, <1>8, <1>9, <1>10, <1>11
         DEF Next

LEMMA InitMaps ==
  ASSUME SubscriberMax \in Nat, Init
  PROVE  HttpInv /\ Chain!HttpInit
  BY LastStepIsFive
  DEF Init, EventBusInit, Slots, HttpInv, BusFills, RequestsAreAnswered, Chain!HttpInit

\* The client implements the chain of basic_controller.c, whatever packets,
\* forgotten connections and failed lookups do (http_utils.c:154, eventbus.c:29).
THEOREM ClientRefinesChain ==
  ASSUME RoomForAll
  PROVE  Spec => RefinesChain
<1>1. SubscriberMax \in Nat
  BY SubscriberAssumption
<1>2. Init => HttpInv /\ Chain!HttpInit
  BY <1>1, InitMaps
<1>3. HttpInv /\ [Next]_vars => HttpInv' /\ [Chain!HttpNext]_(Chain!httpVars)
  BY <1>1, StepMaps
<1> QED  BY <1>2, <1>3, PTL DEF Spec, RefinesChain, Chain!HttpSpec

-----------------------------------------------------------------------------
(***************************************************************************)
(* Types: the buffer, the bodies and the context.                          *)
(***************************************************************************)

\* A set of naturals has a least element, and Min finds it.
LEMMA LeastNatural ==
  ASSUME NEW T \in SUBSET Nat, T # {}
  PROVE  Min(T) \in T /\ \A y \in T : Min(T) =< y
<1> DEFINE R == OpToRel(<, Nat)
<1>1. IsWellFoundedOn(R, Nat)
  BY NatLessThanWellFounded
<1>2. ASSUME NEW x \in T, NEW y \in T, y < x PROVE <<y, x>> \in R
  BY <1>2 DEF OpToRel
<1> HIDE DEF R
<1>3. PICK x \in T : \A y \in T : ~ (<<y, x>> \in R)
  BY <1>1, WFMin
<1>4. ASSUME NEW y \in T PROVE ~ (y < x)
  BY <1>2, <1>3
<1>5. \A y \in T : x =< y
  BY <1>4
<1> QED  BY <1>5 DEF Min

LEMMA MinOfTwo ==
  ASSUME NEW a \in Nat, NEW b \in Nat
  PROVE  Min({a, b}) = IF a =< b THEN a ELSE b
<1>1. \A x \in {a, b} : (\A y \in {a, b} : x =< y) => x = IF a =< b THEN a ELSE b
  OBVIOUS
<1>2. \E x \in {a, b} : \A y \in {a, b} : x =< y
  OBVIOUS
<1> QED  BY <1>1, <1>2 DEF Min

\* A unit of an update no later than c.
UnitType(c) == (0..c) \X Nat \X Nat
\* A connection of an update no later than c.
ConnType(c) == [id : (0..c) \X (0..5), code : {HTTP_OK, HTTP_NOT_FOUND},
                framing : {"length", "chunked", "split"}, rest : Nat, length : Nat,
                zero : BOOLEAN, begun : BOOLEAN]

LEMMA PageLengths ==
  \A k \in 1..5 : Len(Pages[k].reads) \in 1..3
  BY DEF Pages, Itianqi7, Itianqi8, Itianqi102, Itianqi3, Systime

\* The search for the groups of a page finds units of that page in the body.
LEMMA FoundIsThere ==
  ASSUME NEW c \in Nat, NEW of \in Seq(UnitType(c)), NEW k \in 1..5,
         NEW g \in 1..Len(Pages[k].reads)
  PROVE  Found(k, of)[g] = 0 \/ \E i \in 1..Len(of) : of[i][2] = k /\ Found(k, of)[g] = of[i][1]
<1> DEFINE n == Len(Pages[k].reads)
           At(a, h) == {i \in a + 1..Len(of) : of[i][2] = k /\ of[i][3] = h}
           After(a, h) == IF At(a, h) = {} THEN Len(of) + 1 ELSE Min(At(a, h))
           Is(f) == f = [h \in 0..n |-> IF h = 0 THEN 0 ELSE After(f[h - 1], h)]
           place == CHOOSE f : Is(f)
           witness == [h \in 0..n |-> IF h = 0 THEN 0 ELSE IF h = 1 THEN After(0, 1)
                         ELSE IF h = 2 THEN After(After(0, 1), 2)
                         ELSE After(After(After(0, 1), 2), 3)]
<1>0. n \in 1..3
  BY PageLengths
<1>1. Is(place)
  <2>1. Is(witness)
    <3> HIDE DEF After, n
    <3> QED  BY <1>0
  <2> QED  BY <2>1
<1>2. Found(k, of) = [h \in 1..n |-> IF place[h] <= Len(of) THEN of[place[h]][1] ELSE 0]
  BY DEF Found
<1> HIDE DEF n, place, After
<1>3. \A h \in 1..n : place[h] = After(place[h - 1], h)
  BY <1>0, <1>1
<1>4. place[0] = 0
  BY <1>0, <1>1
<1>5. ASSUME NEW a \in Nat, NEW h \in 1..n
      PROVE  After(a, h) \in Nat /\ (After(a, h) <= Len(of) => After(a, h) \in At(a, h))
  <2>1. At(a, h) \in SUBSET Nat
    OBVIOUS
  <2>2. CASE At(a, h) = {}
    BY <2>2 DEF After
  <2>3. CASE At(a, h) # {}
    <3> HIDE DEF At
    <3>1. Min(At(a, h)) \in At(a, h)
      BY <2>1, <2>3, LeastNatural
    <3> QED  BY <2>1, <2>3, <3>1 DEF After
  <2> QED  BY <2>2, <2>3
<1>6. \A h \in 0..n : place[h] \in Nat
  <2>1. place[1] \in Nat
    <3>1. 1 \in 1..n /\ 1 - 1 = 0
      BY <1>0
    <3> QED  BY <1>3, <1>4, <1>5, <3>1
  <2>2. ASSUME 2 <= n PROVE place[2] \in Nat
    <3>1. 2 \in 1..n /\ 2 - 1 = 1
      BY <1>0, <2>2
    <3>2. place[2] = After(place[2 - 1], 2)
      BY <1>3, <3>1
    <3>3. place[2] = After(place[1], 2)
      BY <3>1, <3>2
    <3> QED  BY <1>5, <2>1, <3>1, <3>3
  <2>3. ASSUME 3 <= n PROVE place[3] \in Nat
    <3>1. 3 \in 1..n /\ 3 - 1 = 2 /\ 2 <= n
      BY <1>0, <2>3
    <3>2. place[3] = After(place[3 - 1], 3)
      BY <1>3, <3>1
    <3>3. place[3] = After(place[2], 3)
      BY <3>1, <3>2
    <3> QED  BY <1>5, <2>2, <2>3, <3>1, <3>3
  <2> QED  BY <1>0, <1>4, <2>1, <2>2, <2>3
<1>7. g \in 1..n
  BY DEF n
<1>8. place[g] <= Len(of) => place[g] \in At(place[g - 1], g)
  <2>1. g - 1 \in 0..n
    BY <1>0, <1>7
  <2> HIDE DEF At
  <2>2. place[g - 1] \in Nat
    BY <1>6, <2>1
  <2>3. place[g] = After(place[g - 1], g)
    BY <1>3, <1>7
  <2> QED  BY <1>5, <1>7, <2>2, <2>3
<1> QED  BY <1>2, <1>6, <1>7, <1>8, <1>0

\* What a recvCallback leaves in the context: the groups its page reads are from
\* a unit of the body or empty, and what it neither reads nor clears is as before.
Reads(k) == {Pages[k].reads[g] : g \in 1..Len(Pages[k].reads)}
Fills(k, of) ==
  \A f \in Fields :
    /\ f \notin Reads(k) => context'[f] = IF f \in Pages[k].clears THEN 0 ELSE context[f]
    /\ f \in Pages[k].clears =>
         context'[f] = 0 \/ \E i \in 1..Len(of) : of[i][2] = k /\ context'[f] = of[i][1]

LEMMA ParseFills ==
  ASSUME NEW c \in Nat, NEW of \in Seq(UnitType(c)), NEW k \in 1..5,
         context \in [Fields -> 0..c], Parse(k, of)
  PROVE  context' \in [Fields -> 0..c] /\ Fills(k, of)
<1> DEFINE At(f) == {g \in DOMAIN Pages[k].reads : Pages[k].reads[g] = f /\ Found(k, of)[g] # 0}
           kept(f) == IF f \in Pages[k].clears THEN 0 ELSE context[f]
<1>1. /\ DOMAIN Pages[k].reads = 1..Len(Pages[k].reads)
      /\ Len(Pages[k].reads) \in 1..3
  BY DEF Pages, Itianqi7, Itianqi8, Itianqi102, Itianqi3, Systime
<1>2. context' = [f \in Fields |-> IF At(f) # {} THEN Found(k, of)[Min(At(f))] ELSE kept(f)]
  BY DEF Parse
<1>3. ASSUME NEW f \in Fields
      PROVE  /\ context'[f] \in 0..c
             /\ f \notin {Pages[k].reads[g] : g \in 1..Len(Pages[k].reads)} => context'[f] = kept(f)
             /\ f \in Pages[k].clears =>
                  context'[f] = 0 \/ \E i \in 1..Len(of) : of[i][2] = k /\ context'[f] = of[i][1]
  <2>1. CASE At(f) = {}
    BY <1>2, <2>1
  <2>2. CASE At(f) # {}
    <3> DEFINE g == Min(At(f))
    <3>1. g \in At(f)
      <4>1. At(f) \in SUBSET Nat
        BY <1>1
      <4> QED  BY <4>1, <2>2, LeastNatural
    <3>2. g \in 1..Len(Pages[k].reads) /\ Pages[k].reads[g] = f /\ Found(k, of)[g] # 0
      BY <1>1, <3>1
    <3>3. context'[f] = Found(k, of)[g]
      BY <1>2, <2>2
    <3> HIDE DEF g
    <3>4. PICK i \in 1..Len(of) : of[i][2] = k /\ Found(k, of)[g] = of[i][1]
      BY <3>2, FoundIsThere
    <3>5. of[i][1] \in 0..c
      BY DEF UnitType
    <3> QED  BY <3>2, <3>3, <3>4, <3>5
  <2> QED  BY <2>1, <2>2
<1>4. context' \in [Fields -> 0..c]
  BY <1>2, <1>3
<1> QED  BY <1>3, <1>4 DEF Fills, Reads

\* What a packet adds to the buffer: units of its connection, in order, as many as
\* there is room for, or what lies behind the packet.
Appended(c, p, n, h, buffer) ==
  /\ buffer \in Seq(UnitType(c))
  /\ Len(buffer) \in total..BufferSize
  /\ \A i \in 1..total : buffer[i] = httpBuffer[i]
  /\ Wraps(p, n, h) => \A i \in total + 1..Len(buffer) : buffer[i] = Garbage
  /\ Wraps(p, n, h) => Len(buffer) = BufferSize
  /\ ~Wraps(p, n, h) =>
       /\ Len(buffer) = IF total + n <= BufferSize THEN total + n ELSE BufferSize
       /\ \A i \in total + 1..Len(buffer) :
            buffer[i] = <<p.id[1], p.id[2], p.length - p.rest + (i - total)>>

LEMMA CopiedFits ==
  ASSUME NEW c \in Nat, NEW p \in ConnType(c), NEW n \in 0..p.rest, NEW h,
         p.rest <= p.length,
         httpBuffer \in Seq(UnitType(c)), total <= BufferSize,
         NEW buffer, buffer = httpBuffer \o Copied(p, n, h)
  PROVE  Appended(c, p, n, h, buffer)
<1> DEFINE copied == Copied(p, n, h)
           room == BufferSize - total
           m == IF n <= room THEN n ELSE room
<1>0. total \in Nat /\ room \in Nat /\ BufferSize \in Nat /\ n \in Nat /\ m \in Nat
  BY HttpAssumption DEF total, ConnType
<1>1. CASE Wraps(p, n, h)
  <2>1. copied = [i \in 1..room |-> Garbage]
    BY <1>1 DEF Copied
  <2>2. Garbage \in UnitType(c)
    BY DEF Garbage, UnitType
  <2>3. copied \in Seq(UnitType(c)) /\ Len(copied) = room
    BY <1>0, <2>1, <2>2
  <2> QED  BY <1>0, <1>1, <2>1, <2>3 DEF total, Appended
<1>2. CASE ~Wraps(p, n, h)
  <2>1. copied = Units(p, m)
    BY <1>0, <1>2, MinOfTwo DEF Copied
  <2>2. copied = [i \in 1..m |-> <<p.id[1], p.id[2], p.length - p.rest + i>>]
    BY <2>1 DEF Units
  <2>3. \A i \in 1..m : <<p.id[1], p.id[2], p.length - p.rest + i>> \in UnitType(c)
    BY <1>0 DEF UnitType, ConnType
  <2>4. copied \in Seq(UnitType(c)) /\ Len(copied) = m
    BY <1>0, <2>2, <2>3
  <2> QED  BY <1>0, <1>2, <2>2, <2>4 DEF total, Appended
<1> QED  BY <1>1, <1>2

\* Every variable has its type, and what the buffer, the connections and the context
\* hold is of an update that was started.
WellTyped ==
  /\ HttpInv
  /\ conn # "closed" => step \in 1..5
  /\ chain \in 0..MaxChains
  /\ outcome \in {"none", "running", "finished", "timeout"}
  /\ conn \in {"closed", "lookup", "connecting", "open"}
  /\ http_code \in {0, HTTP_OK, HTTP_NOT_FOUND}
  /\ hasContentLength \in BOOLEAN
  /\ content_length \in Nat
  /\ isTimeout \in BOOLEAN
  /\ timeoutTimer \in BOOLEAN
  /\ httpBuffer \in Seq(UnitType(chain)) /\ Len(httpBuffer) =< BufferSize
  /\ peer \in ConnType(chain) /\ peer.rest =< peer.length
  /\ late \subseteq ConnType(chain) /\ \A p \in late : p.rest =< p.length
  /\ context \in [Fields -> 0..chain]

LEMMA TypesGrow ==
  ASSUME NEW c \in Nat, NEW d \in Nat, c =< d
  PROVE  UnitType(c) \subseteq UnitType(d) /\ ConnType(c) \subseteq ConnType(d)
  BY DEF UnitType, ConnType

LEMMA NobodyIsTyped ==
  ASSUME NEW c \in Nat
  PROVE  Nobody \in ConnType(c) /\ Nobody.rest =< Nobody.length
  BY DEF Nobody, ConnType

LEMMA SentIsTyped ==
  ASSUME NEW c \in Nat, NEW p \in ConnType(c), p.rest =< p.length, NEW n \in Packets(p)
  PROVE  /\ n \in 0..p.rest /\ (p.begun => n > 0)
         /\ Sent(p, n) = [p EXCEPT !.rest = p.rest - n, !.begun = TRUE]
         /\ Sent(p, n) \in ConnType(c)
         /\ Sent(p, n).rest = p.rest - n /\ Sent(p, n).length = p.length
         /\ Sent(p, n).rest =< Sent(p, n).length
<1>1. n \in 0..p.rest /\ (p.begun => n > 0)
  BY DEF Packets
<1>2. p.rest \in Nat /\ p.length \in Nat /\ p.rest - n \in Nat
  BY <1>1 DEF ConnType
<1>3. Sent(p, n) = [p EXCEPT !.rest = p.rest - n, !.begun = TRUE]
  BY DEF Sent
<1>4. Sent(p, n) \in ConnType(c)
  BY <1>2, <1>3 DEF ConnType
<1>5. Sent(p, n).rest = p.rest - n /\ Sent(p, n).length = p.length
  BY <1>3 DEF ConnType
<1> QED  BY <1>1, <1>2, <1>3, <1>4, <1>5

LEMMA TypedInit == ASSUME Init PROVE WellTyped
<1>1. HttpInv
  BY InitMaps, SubscriberAssumption
<1>2. chain = 0 /\ peer \in ConnType(0) /\ peer.rest =< peer.length
  BY NobodyIsTyped DEF Init
<1>3. httpBuffer \in Seq(UnitType(0)) /\ Len(httpBuffer) =< BufferSize
  BY HttpAssumption DEF Init
<1>4. context \in [Fields -> 0..0] /\ chain \in 0..MaxChains
  BY <1>2, HttpAssumption DEF Init
<1> QED  BY <1>1, <1>2, <1>3, <1>4 DEF Init, WellTyped

LEMMA TypedRestart ==
  ASSUME WellTyped, Restart
  PROVE  WellTyped'
<1>1. HttpInv'
  BY RestartMaps, SubscriberAssumption DEF WellTyped
<1>2. chain' = chain /\ chain \in Nat
  BY HttpAssumption DEF Restart, WellTyped
<1>3. peer' \in ConnType(chain) /\ peer'.rest =< peer'.length
  BY <1>2, NobodyIsTyped DEF Restart, Reset
<1>4. httpBuffer' \in Seq(UnitType(chain)) /\ Len(httpBuffer') =< BufferSize
  BY HttpAssumption DEF Restart, Reset
<1>5. context' \in [Fields -> 0..chain]
  BY <1>2 DEF Restart, Reset
<1> QED  BY <1>1, <1>2, <1>3, <1>4, <1>5 DEF Restart, Reset, WellTyped

\* A post ends or restarts the request, and leaves the connections forgotten alone.
LEMMA PostEnds ==
  ASSUME RoomForAll, WellTyped, conn # "closed", NEW of, NEW whole, Deliver(of, whole)
  PROVE  /\ UNCHANGED <<entity, registered, chain, abandoned>>
         /\ body' = [page |-> step, update |-> chain, of |-> of, whole |-> whole]
         /\ Parse(step, of)
         /\ conn' \in {"closed", "lookup"}
         /\ http_code' = 0 /\ hasContentLength' = FALSE /\ content_length' = 0
         /\ isTimeout' = FALSE /\ timeoutTimer' \in BOOLEAN
         /\ httpBuffer' = <<>> /\ peer' = Nobody
         /\ \/ step < LastStep /\ step' = step + 1 /\ outcome' = outcome
            \/ step = LastStep /\ step' = step /\ outcome' = "finished"
<1>1. registered = 6 /\ BusFills /\ step \in 0..LastStep
  BY DEF WellTyped, HttpInv, RequestsAreAnswered
<1>2. HandlerOf("BASIC_CTRL_EVENT_UPDATE") = "basicHttpResultHandler"
  BY <1>1, ControllerAnswers, SubscriberAssumption
<1>3. CASE step < LastStep
  <2>1. DoGet(step + 1) /\ UNCHANGED outcome
    BY <1>2, <1>3 DEF Deliver, PostNext
  <2> QED  BY <1>3, <2>1 DEF Deliver, DoGet
<1>4. CASE ~(step < LastStep)
  <2>1. Clear /\ timeoutTimer' = FALSE /\ outcome' = "finished" /\ UNCHANGED step
    BY <1>2, <1>4 DEF Deliver, PostNext
  <2>2. step = LastStep
    BY <1>1, <1>4, LastStepIsFive
  <2>3. /\ UNCHANGED <<entity, registered, chain, abandoned>>
        /\ body' = [page |-> step, update |-> chain, of |-> of, whole |-> whole]
        /\ Parse(step, of)
    BY DEF Deliver
  <2> QED  BY <2>1, <2>2, <2>3 DEF Clear
<1> QED  BY <1>3, <1>4

LEMMA TypedDeliver ==
  ASSUME RoomForAll, WellTyped, conn # "closed", ~isTimeout,
         NEW of \in Seq(UnitType(chain)), NEW whole, Deliver(of, whole),
         NEW late1 \in SUBSET ConnType(chain), \A p \in late1 : p.rest =< p.length,
         late' = late1
  PROVE  WellTyped'
<1>0. /\ chain' = chain /\ Parse(step, of)
      /\ conn' \in {"closed", "lookup"}
      /\ http_code' = 0 /\ hasContentLength' = FALSE /\ content_length' = 0
      /\ isTimeout' = FALSE /\ timeoutTimer' \in BOOLEAN
      /\ httpBuffer' = <<>> /\ peer' = Nobody
      /\ \/ step < LastStep /\ step' = step + 1 /\ outcome' = outcome
         \/ step = LastStep /\ step' = step /\ outcome' = "finished"
  BY PostEnds
<1>1. HttpInv'
  BY DeliverMaps, SubscriberAssumption DEF WellTyped
<1>2. chain \in Nat /\ step \in 1..5
  BY HttpAssumption DEF WellTyped
<1>3. peer' \in ConnType(chain) /\ peer'.rest =< peer'.length
  BY <1>0, <1>2, NobodyIsTyped
<1>4. httpBuffer' \in Seq(UnitType(chain)) /\ Len(httpBuffer') =< BufferSize
  BY <1>0, HttpAssumption
<1>5. context' \in [Fields -> 0..chain]
  BY <1>0, <1>2, ParseFills DEF WellTyped
<1>6. step' \in 1..5
  BY <1>0, <1>2, LastStepIsFive
<1>7. outcome' \in {"none", "running", "finished", "timeout"}
  BY <1>0 DEF WellTyped
<1> QED  BY <1>0, <1>1, <1>3, <1>4, <1>5, <1>6, <1>7 DEF WellTyped

LEMMA TypedReceive ==
  ASSUME RoomForAll, WellTyped, conn # "closed",
         NEW p \in ConnType(chain), p.rest =< p.length, NEW n \in 0..p.rest,
         NEW peer1 \in ConnType(chain), peer1.rest =< peer1.length,
         NEW late1 \in SUBSET ConnType(chain), \A q \in late1 : q.rest =< q.length,
         Receive(p, n, peer1, late1)
  PROVE  WellTyped'
<1> DEFINE h == Header(p)
           buffer == IF h.code # HTTP_NOT_FOUND THEN httpBuffer \o Copied(p, n, h)
                     ELSE httpBuffer
<1>1. chain \in Nat /\ httpBuffer \in Seq(UnitType(chain)) /\ total =< BufferSize
  BY HttpAssumption DEF WellTyped, total
<1>2. buffer \in Seq(UnitType(chain)) /\ Len(buffer) =< BufferSize
  <2>1. CASE h.code = HTTP_NOT_FOUND
    BY <1>1, <2>1 DEF total
  <2>2. CASE h.code # HTTP_NOT_FOUND
    <3>1. buffer = httpBuffer \o Copied(p, n, h)
      BY <2>2
    <3> HIDE DEF buffer, h
    <3>2. Len(buffer) \in total..BufferSize /\ buffer \in Seq(UnitType(chain))
      BY <1>1, <3>1, CopiedFits DEF Appended
    <3> QED  BY <1>1, <3>2, HttpAssumption DEF total
  <2> QED  BY <2>1, <2>2
<1>3. /\ h.code \in {0, HTTP_OK, HTTP_NOT_FOUND}
      /\ h.sized \in BOOLEAN
      /\ h.length \in Nat
  BY DEF Header, ConnType, WellTyped
<1>4. \/ Restart
      \/ ~isTimeout /\ Deliver(buffer, n = p.rest) /\ late' = late1
      \/ /\ http_code' = h.code
         /\ hasContentLength' = h.sized
         /\ content_length' = h.length
         /\ httpBuffer' = buffer
         /\ peer' = peer1
         /\ late' = late1
         /\ UNCHANGED <<entity, chainVars, conn, abandoned, isTimeout,
                        timeoutTimer, body, context>>
  BY DEF Receive, Completes
<1> HIDE DEF buffer, h
<1>5. CASE Restart
  BY <1>5, TypedRestart
<1>6. CASE ~isTimeout /\ Deliver(buffer, n = p.rest) /\ late' = late1
  BY <1>2, <1>6, TypedDeliver
<1>7. CASE /\ http_code' = h.code
           /\ hasContentLength' = h.sized
           /\ content_length' = h.length
           /\ httpBuffer' = buffer
           /\ peer' = peer1
           /\ late' = late1
           /\ UNCHANGED <<entity, chainVars, conn, abandoned, isTimeout,
                          timeoutTimer, body, context>>
  <2>1. UNCHANGED <<entity, registered, step, chain, outcome, conn, isTimeout, timeoutTimer,
                    context>>
    BY <1>7 DEF chainVars
  <2>2. HttpInv'
    BY <2>1 DEF WellTyped, HttpInv, BusFills, RequestsAreAnswered
  <2>3. httpBuffer' \in Seq(UnitType(chain)) /\ Len(httpBuffer') =< BufferSize
    BY <1>2, <1>7
  <2>4. peer' \in ConnType(chain) /\ peer'.rest =< peer'.length
    BY <1>7
  <2>5. late' \subseteq ConnType(chain) /\ \A q \in late' : q.rest =< q.length
    BY <1>7
  <2>6. http_code' \in {0, HTTP_OK, HTTP_NOT_FOUND} /\ hasContentLength' \in BOOLEAN
          /\ content_length' \in Nat
    BY <1>3, <1>7
  <2> QED  BY <2>1, <2>2, <2>3, <2>4, <2>5, <2>6 DEF WellTyped
<1> QED  BY <1>4, <1>5, <1>6, <1>7

\* Clear ends the request of a connection.
LEMMA ClearIsTyped ==
  ASSUME WellTyped, Clear, UNCHANGED <<entity, chainVars, timeoutTimer, context>>,
         late' \subseteq ConnType(chain), \A q \in late' : q.rest =< q.length
  PROVE  WellTyped'
<1>1. UNCHANGED <<entity, registered, step, chain, outcome, timeoutTimer, context>>
  BY DEF chainVars
<1>2. HttpInv'
  BY <1>1 DEF Clear, WellTyped, HttpInv, BusFills, RequestsAreAnswered
<1>3. peer' \in ConnType(chain) /\ peer'.rest =< peer'.length
  BY NobodyIsTyped DEF Clear, WellTyped
<1>4. httpBuffer' \in Seq(UnitType(chain)) /\ Len(httpBuffer') =< BufferSize
  BY HttpAssumption DEF Clear
<1> QED  BY <1>1, <1>2, <1>3, <1>4 DEF Clear, WellTyped

\* The other variables are as they were, but perhaps the connection and the timer.
LEMMA QuietIsTyped ==
  ASSUME WellTyped, HttpInv', UNCHANGED <<chainVars, http_code, hasContentLength, content_length>>,
         UNCHANGED <<httpBuffer, context>>, conn' \in {conn, "connecting", "open"},
         conn' # "closed" => conn # "closed",
         isTimeout' \in BOOLEAN, timeoutTimer' \in BOOLEAN,
         peer' \in ConnType(chain), peer'.rest =< peer'.length,
         late' \subseteq ConnType(chain), \A q \in late' : q.rest =< q.length
  PROVE  WellTyped'
<1>1. UNCHANGED <<registered, step, chain, outcome>>
  BY DEF chainVars
<1>2. chain' = chain /\ httpBuffer' = httpBuffer /\ context' = context
  BY <1>1
<1> QED  BY <1>1, <1>2 DEF WellTyped

LEMMA TypedNext ==
  ASSUME RoomForAll, WellTyped, [Next]_vars
  PROVE  WellTyped'
<1>0. /\ HttpInv' /\ chain \in Nat /\ HttpInv
      /\ peer \in ConnType(chain) /\ peer.rest =< peer.length
      /\ late \subseteq ConnType(chain) /\ \A q \in late : q.rest =< q.length
      /\ conn \in {"closed", "lookup", "connecting", "open"}
      /\ isTimeout \in BOOLEAN /\ timeoutTimer \in BOOLEAN
  BY StepMaps, SubscriberAssumption, HttpAssumption DEF WellTyped
<1>1. CASE RegisterHandler
  BY <1>0, <1>1 DEF RegisterHandler, WellTyped, connVars, history, stateVars
<1>2. CASE RequestBasicWeather
  <2>1. /\ chain < MaxChains /\ chain' = chain + 1 /\ outcome' = "running" /\ DoGet(1)
        /\ late' \subseteq late \cup {peer} /\ context' = context
    BY <1>2 DEF RequestBasicWeather
  <2>2. /\ step' = 1 /\ conn' = "lookup" /\ http_code' = 0 /\ content_length' = 0
        /\ isTimeout' = FALSE /\ hasContentLength' = FALSE /\ httpBuffer' = <<>>
        /\ timeoutTimer' = TRUE /\ peer' = Nobody
    BY <2>1 DEF DoGet
  <2>3. chain' \in 0..MaxChains /\ chain' \in Nat /\ chain =< chain'
    BY <1>0, <2>1, HttpAssumption
  <2>4. late' \subseteq ConnType(chain') /\ \A q \in late' : q.rest =< q.length
    BY <1>0, <2>1, <2>3, TypesGrow
  <2>5. peer' \in ConnType(chain') /\ peer'.rest =< peer'.length
    BY <2>2, <2>3, NobodyIsTyped
  <2>6. context' \in [Fields -> 0..chain']
    BY <1>0, <2>1, <2>3 DEF WellTyped
  <2>7. httpBuffer' \in Seq(UnitType(chain')) /\ Len(httpBuffer') =< BufferSize
    BY <2>2, HttpAssumption
  <2>8. /\ step' \in 1..5 /\ conn' \in {"closed", "lookup", "connecting", "open"}
        /\ http_code' \in {0, HTTP_OK, HTTP_NOT_FOUND} /\ content_length' \in Nat
        /\ outcome' \in {"none", "running", "finished", "timeout"}
    BY <2>1, <2>2
  <2>9. isTimeout' \in BOOLEAN /\ hasContentLength' \in BOOLEAN /\ timeoutTimer' \in BOOLEAN
    BY <2>2
  <2> QED  BY <1>0, <2>3, <2>4, <2>5, <2>6, <2>7, <2>8, <2>9 DEF WellTyped
<1>3. CASE LookupDone
  <2>1. /\ UNCHANGED <<chainVars, http_code, hasContentLength, content_length, httpBuffer,
                       context>>
        /\ UNCHANGED <<peer, late, isTimeout, timeoutTimer>>
        /\ conn # "closed" /\ conn' = "connecting"
    BY <1>3 DEF LookupDone, stateVars
  <2> QED  BY <1>0, <2>1, QuietIsTyped
<1>4. CASE LookupFails
  BY <1>4, TypedRestart DEF LookupFails
<1>5. CASE Connected
  <2>1. UNCHANGED <<chainVars, http_code, hasContentLength, content_length, httpBuffer, context>>
          /\ UNCHANGED <<late, isTimeout, timeoutTimer>> /\ conn # "closed" /\ conn' = "open"
    BY <1>5 DEF Connected, stateVars
  <2>2. PICK a \in Answers :
          peer' = [id |-> Id, code |-> a.code, framing |-> a.framing, rest |-> a.body,
                   length |-> a.body, zero |-> a.zero, begun |-> FALSE]
    BY <1>5 DEF Connected
  <2>3. a \in AnswerType /\ Id \in (0..chain) \X (0..5)
    BY <1>0, <2>1, HttpAssumption, LastStepIsFive DEF Id, HttpInv
  <2>4. peer' \in ConnType(chain) /\ peer'.rest =< peer'.length
    BY <2>2, <2>3 DEF AnswerType, ConnType
  <2> QED  BY <1>0, <2>1, <2>4, QuietIsTyped
<1>6. CASE Packet
  <2>1. PICK n \in Packets(peer) : Receive(peer, n, Sent(peer, n), late)
    BY <1>6 DEF Packet
  <2>2. /\ n \in 0..peer.rest
        /\ Sent(peer, n) \in ConnType(chain) /\ Sent(peer, n).rest =< Sent(peer, n).length
    BY <1>0, <2>1, SentIsTyped
  <2>3. conn # "closed"
    BY <1>6 DEF Packet
  <2> QED  BY <1>0, <2>1, <2>2, <2>3, TypedReceive
<1>7. CASE LatePacket
  <2>1. PICK p \in late : \E n \in Packets(p) :
          LET late1 == (late \ {p}) \cup {Sent(p, n)}
          IN  IF Registered THEN Receive(p, n, peer, late1)
              ELSE /\ late' = late1
                   /\ UNCHANGED <<entity, chainVars, stateVars, conn, peer, history,
                                  httpBuffer, timeoutTimer, body, context>>
    BY <1>7 DEF LatePacket
  <2>2. PICK n \in Packets(p) :
          LET late1 == (late \ {p}) \cup {Sent(p, n)}
          IN  IF Registered THEN Receive(p, n, peer, late1)
              ELSE /\ late' = late1
                   /\ UNCHANGED <<entity, chainVars, stateVars, conn, peer, history,
                                  httpBuffer, timeoutTimer, body, context>>
    BY <2>1
  <2> DEFINE late1 == (late \ {p}) \cup {Sent(p, n)}
  <2>3. /\ n \in 0..p.rest /\ p \in ConnType(chain) /\ p.rest =< p.length
        /\ Sent(p, n) \in ConnType(chain) /\ Sent(p, n).rest =< Sent(p, n).length
    BY <1>0, <2>2, SentIsTyped
  <2>4. late1 \in SUBSET ConnType(chain) /\ \A q \in late1 : q.rest =< q.length
    BY <1>0, <2>3
  <2> HIDE DEF late1
  <2>5. CASE Registered
    <3>1. Receive(p, n, peer, late1) /\ conn # "closed"
      BY <2>2, <2>5 DEF Registered, late1
    <3> QED  BY <1>0, <2>3, <2>4, <3>1, TypedReceive
  <2>6. CASE ~Registered
    <3>1. late' = late1
            /\ UNCHANGED <<chainVars, http_code, hasContentLength, content_length,
                            httpBuffer, context>>
            /\ UNCHANGED <<conn, peer, isTimeout, timeoutTimer>>
      BY <2>2, <2>6 DEF late1, stateVars
    <3> QED  BY <1>0, <2>4, <3>1, QuietIsTyped
  <2> QED  BY <2>5, <2>6
<1>8. CASE RemoteClose
  BY <1>0, <1>8, ClearIsTyped DEF RemoteClose
<1>9. CASE LateClose
  <2>1. UNCHANGED <<entity, chainVars, timeoutTimer, context>> /\ late' \subseteq late \cup {peer}
    BY <1>9 DEF LateClose
  <2>2. late' \subseteq ConnType(chain) /\ \A q \in late' : q.rest =< q.length
    BY <1>0, <2>1
  <2>3. CASE Clear
    BY <2>1, <2>2, <2>3, ClearIsTyped
  <2>4. CASE UNCHANGED <<conn, stateVars, httpBuffer, peer>>
    BY <1>0, <2>1, <2>2, <2>4, QuietIsTyped DEF stateVars
  <2> QED  BY <1>9, <2>3, <2>4 DEF LateClose
<1>10. CASE Expire
  <2>1. /\ UNCHANGED <<registered, step, chain, http_code, hasContentLength,
                       content_length, httpBuffer, context>>
        /\ UNCHANGED <<conn, peer, late>>
        /\ isTimeout' = TRUE /\ timeoutTimer' = FALSE /\ outcome' = "timeout"
    BY <1>10 DEF Expire, connVars, history
  <2> QED  BY <1>0, <2>1 DEF WellTyped
<1>11. CASE UNCHANGED vars
  BY <1>0, <1>11 DEF vars, chainVars, stateVars, connVars, history, WellTyped
<1> QED  BY <1>1, <1>2, <1>3, <1>4, <1>5, <1>6, <1>7, <1>8, <1>9, <1>10, <1>11
         DEF Next

\* A copy that runs past the end of the buffer is counted for the update in use.
LEMMA OverrunsGrow ==
  ASSUME [Next]_vars
  PROVE  overruns' \in {overruns, overruns \cup {chain}}
<1>1. ASSUME NEW p, NEW n, NEW peer1, NEW late1, Receive(p, n, peer1, late1)
      PROVE  overruns' \in {overruns, overruns \cup {chain}}
  BY <1>1 DEF Receive
<1>2. CASE Packet
  BY <1>1, <1>2 DEF Packet
<1>3. CASE LatePacket
  BY <1>1, <1>3 DEF LatePacket, history
<1>4. CASE RegisterHandler \/ Expire \/ UNCHANGED vars
  BY <1>4 DEF RegisterHandler, Expire, vars, connVars, history
<1>5. CASE RequestBasicWeather \/ LookupDone \/ LookupFails \/ Connected
  BY <1>5 DEF RequestBasicWeather, LookupDone, LookupFails, Connected, history
<1>6. CASE RemoteClose \/ LateClose
  BY <1>6 DEF RemoteClose, LateClose, history
<1> QED  BY <1>2, <1>3, <1>4, <1>5, <1>6 DEF Next

\* Every variable of the client keeps its type.
THEOREM ClientIsTyped ==
  ASSUME RoomForAll
  PROVE  Spec => []HttpClientTypeOK
<1> DEFINE Typed == WellTyped /\ overruns \subseteq 0..MaxChains
<1>1. ASSUME Typed PROVE HttpClientTypeOK
  <2>1. /\ registered \in 0..6 /\ entity \in [Slots -> {Free} \cup {Entry(i) : i \in 0..5}]
        /\ step \in 0..LastStep
    BY <1>1 DEF WellTyped, HttpInv, BusFills
  <2>2. \A i \in 0..5 : Entry(i) \in [handler : {"main", "basicHttpResultHandler"},
                                     eventId : Range(Subscribers)]
    <3>1. \A i \in 0..5 : i + 1 \in DOMAIN Subscribers
      BY DEF Subscribers
    <3> QED  BY <3>1 DEF Entry, Range
  <2>3. chain \in 0..MaxChains /\ 0..chain \subseteq 0..MaxChains
    BY <1>1, HttpAssumption DEF WellTyped
  <2>4. total \in 0..BufferSize
    <3>1. Len(httpBuffer) \in Nat
      BY <1>1 DEF WellTyped
    <3> QED  BY <1>1, <3>1, HttpAssumption DEF WellTyped, total
  <2>5. context \in [Fields -> 0..MaxChains]
    BY <1>1, <2>3 DEF WellTyped
  <2>6. \A p \in late : p.begun \in BOOLEAN /\ p.rest \in Nat
    BY <1>1 DEF WellTyped, ConnType
  <2>7. entity \in [Slots -> {Free} \cup [handler : {"main", "basicHttpResultHandler"},
                                          eventId : Range(Subscribers)]]
    BY <2>1, <2>2
  <2> QED  BY <1>1, <2>1, <2>3, <2>4, <2>5, <2>6, <2>7 DEF WellTyped, HttpClientTypeOK
<1>2. Init => Typed
  BY TypedInit DEF Init
<1>3. Typed /\ [Next]_vars => Typed'
  BY TypedNext, OverrunsGrow DEF WellTyped
<1> HIDE DEF Typed
<1> QED  BY <1>1, <1>2, <1>3, PTL DEF Spec

-----------------------------------------------------------------------------
(***************************************************************************)
(* A recvCallback is given the answer to its own request.                  *)
(***************************************************************************)

\* What has come of an answer when n of its units have.
Arrived(n) == IF n =< BufferSize THEN n ELSE BufferSize

HasGarbage(buffer) == \E i \in 1..Len(buffer) : buffer[i] = Garbage

\* The units of the buffer are the first n of page k's answer in update c.
Holds(buffer, c, k, n) ==
  /\ Len(buffer) = Arrived(n)
  /\ \A i \in 1..Len(buffer) : buffer[i] = <<c, k, i>>

\* While no connection is forgotten open, what doGet keeps of the header and of
\* the body is that of its own connection.
OwnPeer ==
  /\ peer.id = Id
  /\ ~peer.begun => ~hasContentLength /\ peer.rest = peer.length /\ httpBuffer = <<>>
  /\ peer.begun =>
       /\ http_code = peer.code
       /\ hasContentLength <=> peer.framing = "length"
       /\ hasContentLength => content_length = peer.length
       /\ peer.code = HTTP_OK =>
            HasGarbage(httpBuffer) \/ Holds(httpBuffer, chain, step, peer.length - peer.rest)

Undisturbed ==
  chain \notin abandoned =>
    /\ late = {}
    /\ conn = "open" => OwnPeer
    /\ conn # "open" => ~hasContentLength /\ httpBuffer = <<>>

BodyInv ==
  /\ body.of \in Seq(UnitType(chain)) /\ body.update \in 0..chain
  /\ \/ body.update \in abandoned
     \/ HasGarbage(body.of)
     \/ /\ body.whole \/ Len(body.of) = BufferSize
        /\ \A i \in 1..Len(body.of) : body.of[i] = <<body.update, body.page, i>>

\* The body of an answer, when nothing else came.
LEMMA OwnBody ==
  ASSUME WellTyped, conn = "open", OwnPeer, NEW n \in Packets(peer),
         NEW h, h = Header(peer), h.code # HTTP_NOT_FOUND,
         NEW buffer, buffer = httpBuffer \o Copied(peer, n, h)
  PROVE  /\ HasGarbage(buffer) \/ Holds(buffer, chain, step, peer.length - (peer.rest - n))
         /\ IsComplete(peer, n, h, buffer) /\ ~HasGarbage(buffer) =>
              n = peer.rest \/ Len(buffer) = BufferSize
<1>0. /\ chain \in Nat /\ peer \in ConnType(chain) /\ peer.rest =< peer.length
      /\ httpBuffer \in Seq(UnitType(chain)) /\ total =< BufferSize /\ BufferSize \in Nat \ {0}
  BY HttpAssumption DEF WellTyped, total
<1>1. n \in 0..peer.rest /\ (peer.begun => n > 0)
  BY <1>0, SentIsTyped
<1>2. peer.rest \in Nat /\ peer.length \in Nat /\ peer.begun \in BOOLEAN /\ total \in Nat
  BY <1>0 DEF ConnType, total
<1>3. /\ buffer \in Seq(UnitType(chain))
      /\ Len(buffer) \in total..BufferSize
      /\ \A i \in 1..total : buffer[i] = httpBuffer[i]
      /\ Wraps(peer, n, h) => \A i \in total + 1..Len(buffer) : buffer[i] = Garbage
      /\ Wraps(peer, n, h) => Len(buffer) = BufferSize
      /\ ~Wraps(peer, n, h) =>
           /\ Len(buffer) = IF total + n <= BufferSize THEN total + n ELSE BufferSize
           /\ \A i \in total + 1..Len(buffer) :
                buffer[i] = <<peer.id[1], peer.id[2], peer.length - peer.rest + (i - total)>>
  <2>1. Appended(chain, peer, n, h, buffer)
    BY <1>0, <1>1, CopiedFits
  <2> QED  BY <2>1 DEF Appended
<1>4. ~peer.begun => total = 0
  BY DEF OwnPeer, total
<1>5. CASE Wraps(peer, n, h)
  <2>1. total = 0 /\ Len(buffer) = BufferSize
    BY <1>3, <1>4, <1>5 DEF Wraps
  <2>2. 1 \in total + 1..Len(buffer) /\ 1 \in 1..Len(buffer)
    BY <1>0, <2>1
  <2>3. HasGarbage(buffer)
    BY <1>3, <1>5, <2>2 DEF HasGarbage
  <2> QED  BY <2>3
<1>6. CASE ~Wraps(peer, n, h)
  <2>1. CASE HasGarbage(httpBuffer)
    <3>1. PICK i \in 1..Len(httpBuffer) : httpBuffer[i] = Garbage
      BY <2>1 DEF HasGarbage
    <3>2. i \in 1..total /\ i \in 1..Len(buffer)
      BY <1>2, <1>3 DEF total
    <3>3. HasGarbage(buffer)
      BY <1>3, <3>1, <3>2 DEF HasGarbage
    <3> QED  BY <3>3
  <2>2. CASE ~HasGarbage(httpBuffer)
    <3> DEFINE came == peer.length - peer.rest
    <3>0. came \in Nat /\ n \in Nat
      BY <1>0, <1>1, <1>2
    <3>1. Holds(httpBuffer, chain, step, came)
      <4>1. CASE peer.begun
        <5>1. peer.code = HTTP_OK
          BY <1>0, <4>1 DEF OwnPeer, ConnType, Header
        <5> QED  BY <2>2, <4>1, <5>1 DEF OwnPeer
      <4>2. CASE ~peer.begun
        <5>1. httpBuffer = <<>> /\ came = 0
          BY <1>2, <4>2 DEF OwnPeer
        <5> QED  BY <1>0, <5>1 DEF Holds, Arrived
      <4> QED  BY <4>1, <4>2
    <3>2. total = Arrived(came) /\ \A i \in 1..total : httpBuffer[i] = <<chain, step, i>>
      BY <3>1 DEF Holds, total
    <3>3. peer.id[1] = chain /\ peer.id[2] = step
      BY DEF OwnPeer, Id
    <3>4. Len(buffer) = Arrived(came + n)
      BY <1>0, <1>3, <1>6, <3>0, <3>2 DEF Arrived
    <3>5. \A i \in 1..Len(buffer) : buffer[i] = <<chain, step, i>>
      <4>1. ASSUME NEW i \in 1..Len(buffer) PROVE buffer[i] = <<chain, step, i>>
        <5>1. CASE i =< total
          BY <1>2, <1>3, <3>2, <5>1, SMTT(30)
        <5>2. CASE i > total
          <6>1. total = came
            BY <1>0, <1>2, <1>3, <3>0, <3>2, <4>1, <5>2 DEF Arrived
          <6>2. i \in total + 1..Len(buffer) /\ came + (i - total) = i
            BY <1>2, <3>0, <4>1, <5>2, <6>1
          <6> QED  BY <1>3, <1>6, <3>3, <6>2
        <5> QED  BY <1>2, <5>1, <5>2
      <4> QED  BY <4>1
    <3>6. came + n = peer.length - (peer.rest - n)
      BY <1>1, <1>2
    <3>7. Holds(buffer, chain, step, peer.length - (peer.rest - n))
      BY <3>4, <3>5, <3>6 DEF Holds
    <3>8. ASSUME IsComplete(peer, n, h, buffer), Len(buffer) # BufferSize
          PROVE  n = peer.rest
      <4>1. Len(buffer) = came + n /\ Len(buffer) < BufferSize
        BY <1>0, <1>3, <3>0, <3>4, <3>8 DEF Arrived
      <4>2. CASE h.sized
        <5>1. h.length = peer.length
          BY <1>2, <4>2 DEF Header, OwnPeer
        <5>2. came + n >= peer.length
          BY <1>0, <3>8, <4>1, <4>2, <5>1 DEF IsComplete, EndsInMark
        <5> QED  BY <1>0, <1>1, <1>2, <3>6, <5>2
      <4>3. CASE ~h.sized
        <5>1. EndsInMark(peer, n)
          BY <1>0, <3>8, <4>1, <4>3 DEF IsComplete
        <5> QED  BY <1>6, <4>3, <5>1 DEF EndsInMark, Wraps
      <4> QED  BY <4>2, <4>3
    <3> QED  BY <3>7, <3>8
  <2> QED  BY <2>1, <2>2
<1> QED  BY <1>5, <1>6

LEMMA RestartIsUndisturbed ==
  ASSUME WellTyped, Restart
  PROVE  Undisturbed' /\ BodyInv'
<1>1. late' = {} /\ conn' = "closed" /\ hasContentLength' = FALSE /\ httpBuffer' = <<>>
  BY DEF Restart, Reset
<1>2. chain' \in Nat /\ body' = [page |-> 0, update |-> 0, of |-> <<>>, whole |-> TRUE]
  BY HttpAssumption DEF Restart, Reset, WellTyped
<1>3. Undisturbed'
  BY <1>1 DEF Undisturbed
<1>4. body'.of \in Seq(UnitType(chain')) /\ body'.update \in 0..chain'
        /\ body'.whole /\ Len(body'.of) = 0
  BY <1>2
<1>5. BodyInv'
  BY <1>4 DEF BodyInv
<1> QED  BY <1>3, <1>5

\* A packet of the connection in use.
LEMMA OwnPacket ==
  ASSUME RoomForAll, WellTyped, Undisturbed, BodyInv, Packet
  PROVE  Undisturbed' /\ BodyInv'
<1>0. /\ chain \in Nat /\ conn = "open" /\ conn # "closed"
      /\ peer \in ConnType(chain) /\ peer.rest =< peer.length
      /\ httpBuffer \in Seq(UnitType(chain)) /\ total =< BufferSize /\ BufferSize \in Nat
  BY HttpAssumption DEF WellTyped, Packet, total
<1>1. PICK n \in Packets(peer) : Receive(peer, n, Sent(peer, n), late)
  BY DEF Packet
<1>2. /\ n \in 0..peer.rest
      /\ Sent(peer, n) = [peer EXCEPT !.rest = peer.rest - n, !.begun = TRUE]
      /\ Sent(peer, n).rest = peer.rest - n /\ Sent(peer, n).length = peer.length
  <2>1. n \in 0..peer.rest
    BY <1>0, SentIsTyped
  <2>2. Sent(peer, n).rest = peer.rest - n /\ Sent(peer, n).length = peer.length
    BY <1>0, SentIsTyped
  <2> QED  BY <2>1, <2>2 DEF Sent
<1> DEFINE h == Header(peer)
           added == httpBuffer \o Copied(peer, n, h)
           buffer == IF h.code # HTTP_NOT_FOUND THEN added ELSE httpBuffer
<1>3. \/ Restart
      \/ /\ h.code # HTTP_NOT_FOUND /\ Completes(peer, n, h, added)
         /\ Deliver(added, n = peer.rest) /\ late' = late
      \/ /\ http_code' = h.code
         /\ hasContentLength' = h.sized
         /\ content_length' = h.length
         /\ httpBuffer' = buffer
         /\ peer' = Sent(peer, n)
         /\ late' = late
         /\ UNCHANGED <<entity, chainVars, conn, abandoned, isTimeout,
                        timeoutTimer, body, context>>
  BY <1>1 DEF Receive
<1>4. ASSUME h.code # HTTP_NOT_FOUND
      PROVE  added \in Seq(UnitType(chain)) /\ Len(added) =< BufferSize
  <2>1. Appended(chain, peer, n, h, added)
    BY <1>0, <1>2, CopiedFits
  <2> QED  BY <1>0, <2>1 DEF Appended, total
<1>5. ASSUME h.code # HTTP_NOT_FOUND, OwnPeer
      PROVE  /\ HasGarbage(added) \/ Holds(added, chain, step, peer.length - (peer.rest - n))
             /\ IsComplete(peer, n, h, added) /\ ~HasGarbage(added) =>
                  n = peer.rest \/ Len(added) = BufferSize
  BY <1>0, <1>5, OwnBody
<1> HIDE DEF added
<1>6. CASE Restart
  BY <1>6, RestartIsUndisturbed
<1>7. CASE /\ h.code # HTTP_NOT_FOUND /\ Completes(peer, n, h, added)
           /\ Deliver(added, n = peer.rest) /\ late' = late
  <2>1. /\ UNCHANGED <<chain, abandoned>>
        /\ body' = [page |-> step, update |-> chain, of |-> added, whole |-> n = peer.rest]
        /\ conn' \in {"closed", "lookup"} /\ hasContentLength' = FALSE /\ httpBuffer' = <<>>
    BY <1>0, <1>7, PostEnds
  <2>2. Undisturbed'
    BY <1>7, <2>1 DEF Undisturbed
  <2>3. /\ body'.of = added /\ body'.update = chain /\ body'.page = step
        /\ body'.whole = (n = peer.rest)
    BY <2>1
  <2>4. body'.of \in Seq(UnitType(chain)) /\ body'.update \in 0..chain
    BY <1>0, <1>4, <1>7, <2>3
  <2>5. ASSUME chain \notin abandoned, ~HasGarbage(added)
        PROVE  /\ body'.whole \/ Len(added) = BufferSize
               /\ \A i \in 1..Len(added) : added[i] = <<chain, step, i>>
    <3>1. OwnPeer
      BY <1>0, <2>5 DEF Undisturbed
    <3> QED  BY <1>5, <1>7, <2>3, <2>5, <3>1 DEF Completes, Holds
  <2>6. BodyInv'
    BY <2>1, <2>3, <2>4, <2>5 DEF BodyInv
  <2> QED  BY <2>2, <2>6
<1>8. CASE /\ http_code' = h.code
           /\ hasContentLength' = h.sized
           /\ content_length' = h.length
           /\ httpBuffer' = buffer
           /\ peer' = Sent(peer, n)
           /\ late' = late
           /\ UNCHANGED <<entity, chainVars, conn, abandoned, isTimeout,
                          timeoutTimer, body, context>>
  <2>1. UNCHANGED <<chain, step, abandoned, body, conn>>
    BY <1>8 DEF chainVars
  <2>2. BodyInv'
    BY <2>1 DEF BodyInv
  <2>3. ASSUME chain \notin abandoned
        PROVE  late = {} /\ OwnPeer'
    <3>1. late = {} /\ OwnPeer
      BY <1>0, <2>3 DEF Undisturbed
    <3>2. peer'.id = peer.id /\ peer'.begun /\ peer'.code = peer.code
            /\ peer'.framing = peer.framing
            /\ peer'.length = peer.length /\ peer'.rest = peer.rest - n
      BY <1>0, <1>2, <1>8 DEF ConnType
    <3>3. Id' = Id
      BY <2>1 DEF Id
    <3>4. h.code = peer.code /\ (h.sized <=> peer.framing = "length")
            /\ (h.sized => h.length = peer.length)
      BY <1>0, <3>1 DEF OwnPeer, Header, ConnType
    <3>5. peer.code = HTTP_OK =>
            \/ HasGarbage(httpBuffer')
            \/ Holds(httpBuffer', chain, step, peer.length - (peer.rest - n))
      <4>1. CASE peer.code = HTTP_OK
        <5>1. h.code # HTTP_NOT_FOUND
          BY <3>4, <4>1 DEF HTTP_OK, HTTP_NOT_FOUND
        <5> QED  BY <1>5, <1>8, <3>1, <5>1
      <4> QED  BY <4>1
    <3>6. chain' = chain /\ step' = step
      BY <2>1
    <3>7. OwnPeer'
      BY <1>8, <3>1, <3>2, <3>3, <3>4, <3>5, <3>6 DEF OwnPeer
    <3> QED  BY <3>1, <3>7
  <2> QED  BY <1>0, <1>8, <2>1, <2>2, <2>3 DEF Undisturbed
<1> QED  BY <1>3, <1>6, <1>7, <1>8

\* A packet while a connection is forgotten: its update is one of those excluded.
LEMMA LatePacketDisturbs ==
  ASSUME RoomForAll, WellTyped, Undisturbed, BodyInv, LatePacket
  PROVE  Undisturbed' /\ BodyInv'
<1>0. chain \in abandoned /\ chain \in Nat
  BY HttpAssumption DEF LatePacket, Undisturbed, WellTyped
<1>b. PICK p \in late : \E n \in Packets(p) :
        LET late1 == (late \ {p}) \cup {Sent(p, n)}
        IN  IF Registered THEN Receive(p, n, peer, late1)
            ELSE /\ late' = late1
                 /\ UNCHANGED <<entity, chainVars, stateVars, conn, peer, history,
                                httpBuffer, timeoutTimer, body, context>>
  BY DEF LatePacket
<1>1. PICK n \in Packets(p) :
        LET late1 == (late \ {p}) \cup {Sent(p, n)}
        IN  IF Registered THEN Receive(p, n, peer, late1)
            ELSE /\ late' = late1
                 /\ UNCHANGED <<entity, chainVars, stateVars, conn, peer, history,
                                httpBuffer, timeoutTimer, body, context>>
  BY <1>b
<1>2. p \in ConnType(chain) /\ p.rest =< p.length /\ n \in 0..p.rest
  <2>1. p \in ConnType(chain) /\ p.rest =< p.length
    BY DEF WellTyped
  <2> QED  BY <1>0, <2>1, SentIsTyped
<1> DEFINE h == Header(p)
           added == httpBuffer \o Copied(p, n, h)
<1>3. \/ Restart
      \/ conn # "closed" /\ h.code # HTTP_NOT_FOUND /\ Deliver(added, n = p.rest)
      \/ UNCHANGED <<chain, abandoned, body>>
  BY <1>1 DEF Receive, chainVars, history, Registered
<1>4. ASSUME h.code # HTTP_NOT_FOUND
      PROVE  added \in Seq(UnitType(chain))
  <2>1. Appended(chain, p, n, h, added)
    <3>1. httpBuffer \in Seq(UnitType(chain)) /\ total =< BufferSize
      BY DEF WellTyped, total
    <3> QED  BY <1>0, <1>2, <3>1, CopiedFits
  <2> QED  BY <2>1 DEF Appended
<1> HIDE DEF added
<1>5. CASE Restart
  BY <1>5, RestartIsUndisturbed
<1>6. CASE conn # "closed" /\ h.code # HTTP_NOT_FOUND /\ Deliver(added, n = p.rest)
  <2>1. /\ UNCHANGED <<chain, abandoned>>
        /\ body' = [page |-> step, update |-> chain, of |-> added, whole |-> n = p.rest]
    BY <1>6, PostEnds
  <2>2. body'.of = added /\ body'.update = chain /\ chain \in 0..chain
    BY <1>0, <2>1
  <2>3. added \in Seq(UnitType(chain))
    BY <1>4, <1>6
  <2>4. BodyInv'
    BY <1>0, <2>1, <2>2, <2>3 DEF BodyInv
  <2> QED  BY <1>0, <2>1, <2>4 DEF Undisturbed
<1>7. CASE UNCHANGED <<chain, abandoned, body>>
  BY <1>0, <1>7 DEF Undisturbed, BodyInv
<1> QED  BY <1>3, <1>5, <1>6, <1>7

OwnInv == WellTyped /\ Undisturbed /\ BodyInv

LEMMA OwnInit == ASSUME Init PROVE OwnInv
<1>1. late = {} /\ conn = "closed" /\ hasContentLength = FALSE /\ httpBuffer = <<>> /\ chain = 0
  BY DEF Init
<1>2. body.of = <<>> /\ body.update = 0 /\ body.whole
  BY DEF Init
<1>3. body.of \in Seq(UnitType(chain)) /\ body.update \in 0..chain /\ Len(body.of) = 0
  BY <1>1, <1>2
<1> QED  BY <1>1, <1>2, <1>3, TypedInit DEF OwnInv, Undisturbed, BodyInv

LEMMA OwnNext ==
  ASSUME RoomForAll, OwnInv, [Next]_vars
  PROVE  OwnInv'
<1>0. WellTyped /\ Undisturbed /\ BodyInv /\ WellTyped' /\ chain \in Nat
  BY TypedNext, HttpAssumption DEF OwnInv, WellTyped
<1>a. ASSUME UNCHANGED <<chain, body, abandoned>>
      PROVE  BodyInv'
  BY <1>0, <1>a DEF BodyInv
<1>1. CASE RegisterHandler
  <2>1. UNCHANGED <<chain, step, body, abandoned, late, conn, hasContentLength, httpBuffer,
                    http_code, content_length, peer>>
    BY <1>1 DEF RegisterHandler, connVars, history, stateVars
  <2> QED  BY <1>0, <1>a, <2>1 DEF OwnInv, Undisturbed, OwnPeer, Id
<1>2. CASE RequestBasicWeather
  <2>1. /\ conn' = "lookup" /\ hasContentLength' = FALSE /\ httpBuffer' = <<>> /\ body' = body
        /\ chain' = chain + 1
        /\ abandoned' = IF late' # {} THEN abandoned \cup {chain'} ELSE abandoned
    BY <1>2 DEF RequestBasicWeather, DoGet
  <2>2. Undisturbed'
    BY <2>1 DEF Undisturbed
  <2>3. 0..chain \subseteq 0..chain' /\ UnitType(chain) \subseteq UnitType(chain')
    BY <1>0, <2>1, TypesGrow
  <2>4. body.of \in Seq(UnitType(chain'))
    BY <1>0, <2>3 DEF BodyInv
  <2>5. BodyInv'
    BY <1>0, <2>1, <2>3, <2>4 DEF BodyInv
  <2> QED  BY <1>0, <2>2, <2>5 DEF OwnInv
<1>3. CASE LookupDone
  <2>1. UNCHANGED <<chain, body, abandoned, late, hasContentLength, httpBuffer>>
          /\ conn = "lookup" /\ conn' = "connecting"
    BY <1>3 DEF LookupDone, stateVars, chainVars, history
  <2> QED  BY <1>0, <1>a, <2>1 DEF OwnInv, Undisturbed
<1>4. CASE LookupFails
  BY <1>0, <1>4, RestartIsUndisturbed DEF LookupFails, OwnInv
<1>5. CASE Connected
  <2>1. UNCHANGED <<chain, step, body, abandoned, late, hasContentLength, httpBuffer>>
          /\ conn = "connecting" /\ conn' = "open"
    BY <1>5 DEF Connected, stateVars, chainVars, history
  <2>2. peer'.id = Id /\ peer'.begun = FALSE /\ peer'.rest = peer'.length
    BY <1>5 DEF Connected
  <2>3. Id' = Id
    BY <2>1 DEF Id
  <2> QED  BY <1>0, <1>a, <2>1, <2>2, <2>3 DEF OwnInv, Undisturbed, OwnPeer
<1>6. CASE Packet
  BY <1>0, <1>6, OwnPacket DEF OwnInv
<1>7. CASE LatePacket
  BY <1>0, <1>7, LatePacketDisturbs DEF OwnInv
<1>8. CASE RemoteClose
  BY <1>0, <1>a, <1>8 DEF RemoteClose, Clear, chainVars, history, OwnInv, Undisturbed
<1>9. CASE LateClose
  BY <1>0, <1>a, <1>9 DEF LateClose, chainVars, history, OwnInv, Undisturbed
<1>10. CASE Expire
  <2>1. UNCHANGED <<chain, step, body, abandoned, late, conn, hasContentLength, httpBuffer,
                    http_code, content_length, peer>>
    BY <1>10 DEF Expire, connVars, history
  <2> QED  BY <1>0, <1>a, <2>1 DEF OwnInv, Undisturbed, OwnPeer, Id
<1>11. CASE UNCHANGED vars
  <2>1. UNCHANGED <<chain, step, body, abandoned, late, conn, hasContentLength, httpBuffer,
                    http_code, content_length, peer>>
    BY <1>11 DEF vars, chainVars, stateVars, connVars, history
  <2> QED  BY <1>0, <1>a, <2>1 DEF OwnInv, Undisturbed, OwnPeer, Id
<1> QED  BY <1>1, <1>2, <1>3, <1>4, <1>5, <1>6, <1>7, <1>8, <1>9, <1>10, <1>11
         DEF Next

\* Unless a connection was forgotten open, a recvCallback is given the answer to its
\* own request, whole or up to the end of the buffer and in order (http_utils.c:245);
\* the bodies that a header ending in 0 fills with garbage are excluded.
THEOREM AnswersAreOwn ==
  ASSUME RoomForAll
  PROVE  Spec => []OwnAnswer
<1>1. ASSUME OwnInv PROVE OwnAnswer
  <2>1. body.of \in Seq(UnitType(chain))
    BY <1>1 DEF OwnInv, BodyInv
  <2>2. DOMAIN body.of = 1..Len(body.of)
    BY <2>1
  <2>3. body.of = [i \in DOMAIN body.of |-> body.of[i]]
    BY <2>1
  <2> QED  BY <1>1, <2>2, <2>3 DEF OwnInv, BodyInv, OwnAnswer, HasGarbage
<1>2. Init => OwnInv
  BY OwnInit
<1>3. OwnInv /\ [Next]_vars => OwnInv'
  BY OwnNext
<1> QED  BY <1>1, <1>2, <1>3, PTL DEF Spec

-----------------------------------------------------------------------------
(***************************************************************************)
(* The copies stay in the buffer.                                          *)
(***************************************************************************)

\* An update once excluded stays so: its mark is the model's, no restart clears it.
LEMMA AbandonedStay ==
  ASSUME RoomForAll, WellTyped, [Next]_vars
  PROVE  abandoned \subseteq abandoned'
<1>1. ASSUME NEW p, NEW n, NEW peer1, NEW late1, Receive(p, n, peer1, late1)
      PROVE  abandoned' = abandoned
  BY <1>1 DEF Receive, Restart, Deliver
<1>2. CASE Packet
  BY <1>1, <1>2 DEF Packet
<1>3. CASE LatePacket
  BY <1>1, <1>3 DEF LatePacket, history
<1>4. CASE RegisterHandler \/ Expire \/ UNCHANGED vars
  BY <1>4 DEF RegisterHandler, Expire, vars, connVars, history
<1>5. CASE RequestBasicWeather \/ LookupDone \/ LookupFails \/ Connected
  BY <1>5 DEF RequestBasicWeather, LookupDone, LookupFails, Restart, Connected, history
<1>6. CASE RemoteClose \/ LateClose
  BY <1>6 DEF RemoteClose, LateClose, history
<1> QED  BY <1>2, <1>3, <1>4, <1>5, <1>6 DEF Next

\* A packet of the connection in use stays in the buffer: behind a header there is
\* nothing yet that a count below zero could be added to.
LEMMA OwnPacketFits ==
  ASSUME WellTyped, Undisturbed, Packet, chain \notin abandoned
  PROVE  overruns' = overruns
<1>0. /\ conn = "open" /\ chain \in Nat /\ OwnPeer
      /\ peer \in ConnType(chain) /\ peer.rest =< peer.length
      /\ httpBuffer \in Seq(UnitType(chain)) /\ total =< BufferSize /\ BufferSize \in Nat
  BY HttpAssumption DEF WellTyped, Undisturbed, Packet, total
<1>1. PICK n \in Packets(peer) : Receive(peer, n, Sent(peer, n), late)
  BY DEF Packet
<1>2. n \in 0..peer.rest
  BY <1>0, SentIsTyped
<1> DEFINE h == Header(peer)
           added == httpBuffer \o Copied(peer, n, h)
           buffer == IF h.code # HTTP_NOT_FOUND THEN added ELSE httpBuffer
<1>3. Len(added) \in Nat /\ Len(added) =< BufferSize
  <2>1. Appended(chain, peer, n, h, added)
    BY <1>0, <1>2, CopiedFits
  <2> QED  BY <1>0, <2>1 DEF Appended, total
<1>4. ~(Wraps(peer, n, h) /\ total > 0)
  <2>1. ~peer.begun => total = 0
    BY <1>0 DEF OwnPeer, total
  <2> QED  BY <2>1 DEF Wraps
<1>5. ~(Len(buffer) > BufferSize)
  <2> HIDE DEF added
  <2>1. Len(httpBuffer) \in Nat /\ Len(httpBuffer) =< BufferSize
    BY <1>0 DEF total
  <2> QED  BY <1>0, <1>3, <2>1
<1> QED  BY <1>1, <1>4, <1>5 DEF Receive

\* No copy runs past the end of the buffer (http_utils.c:280, 300) in an update that
\* found no connection forgotten open.
THEOREM CopiesStayInside ==
  ASSUME RoomForAll
  PROVE  Spec => []BufferIsKept
<1>1. Init => OwnInv /\ BufferIsKept
  BY OwnInit DEF Init, BufferIsKept
<1>2. ASSUME OwnInv, BufferIsKept, [Next]_vars
      PROVE  OwnInv' /\ BufferIsKept'
  <2>1. OwnInv' /\ abandoned \subseteq abandoned'
    BY <1>2, OwnNext, AbandonedStay DEF OwnInv
  <2>2. overruns' = overruns \/ chain \in abandoned
    <3>1. CASE Packet
      BY <1>2, <3>1, OwnPacketFits DEF OwnInv
    <3>2. CASE LatePacket
      BY <1>2, <3>2 DEF LatePacket, OwnInv, Undisturbed
    <3>3. CASE RegisterHandler \/ Expire \/ UNCHANGED vars
      BY <3>3 DEF RegisterHandler, Expire, vars, connVars, history
    <3>4. CASE RequestBasicWeather \/ LookupDone \/ LookupFails \/ Connected
      BY <3>4 DEF RequestBasicWeather, LookupDone, LookupFails, Connected, history
    <3>5. CASE RemoteClose \/ LateClose
      BY <3>5 DEF RemoteClose, LateClose, history
    <3> QED  BY <1>2, <3>1, <3>2, <3>3, <3>4, <3>5 DEF Next
  <2>3. overruns' \in {overruns, overruns \cup {chain}}
    BY <1>2, OverrunsGrow
  <2> QED  BY <1>2, <2>1, <2>2, <2>3 DEF BufferIsKept
<1> QED  BY <1>1, <1>2, PTL DEF Spec

-----------------------------------------------------------------------------
(***************************************************************************)
(* What is shown together is of one update.                                *)
(***************************************************************************)

\* The units an update receives are its own.
OwnUnits(buffer) == \A i \in 1..Len(buffer) : buffer[i] = Garbage \/ buffer[i][1] = chain
UnitsInv == chain \notin abandoned => OwnUnits(httpBuffer)

\* How far the update has come: what the pages so far have left.
Progress ==
  chain \notin abandoned =>
    /\ step >= 2 => context["today"] \in {0, chain} /\ context["almanac"] \in {0, chain}
    /\ step \in {2, 3} => context["icon"] = 0
    /\ step >= 3 => context["tomorrow"] \in {0, chain}
    /\ step >= 4 => /\ context["icon"] \in {0, chain}
                    /\ context["cityName"] \in {0, chain}
                    /\ context["indices"] \in {0, chain}
    /\ outcome = "finished" => step = 5 /\ context["date"] \in {0, chain}

WholeInv == OwnInv /\ UnitsInv /\ Progress /\ ShownTogether

\* A delivery of what the update received.
Delivery ==
  \E of \in Seq(UnitType(chain)) : \E whole \in BOOLEAN :
    conn # "closed" /\ Deliver(of, whole) /\ (chain \notin abandoned => OwnUnits(of))

\* What a step does to the update and to the context.
LEMMA StepKinds ==
  ASSUME RoomForAll, OwnInv, UnitsInv, [Next]_vars
  PROVE  /\ UnitsInv'
         /\ \/ Restart
            \/ Delivery
            \/ RequestBasicWeather
            \/ UNCHANGED <<context, chain, step, abandoned>> /\ outcome' \in {outcome, "timeout"}
<1>0. WellTyped /\ Undisturbed /\ OwnInv' /\ chain \in Nat
  BY OwnNext, HttpAssumption DEF OwnInv, WellTyped
<1> DEFINE Quiet == /\ UNCHANGED <<context, chain, step, abandoned>>
                     /\ outcome' \in {outcome, "timeout"}
<1>e. ASSUME httpBuffer' = <<>> PROVE UnitsInv'
  BY <1>e DEF UnitsInv, OwnUnits
<1>k. ASSUME UNCHANGED <<chain, abandoned, httpBuffer>> PROVE UnitsInv'
  BY <1>k DEF UnitsInv, OwnUnits
<1>r. ASSUME Restart PROVE UnitsInv'
  BY <1>r, <1>e DEF Restart, Reset
<1>d. ASSUME conn # "closed", NEW of, NEW whole, Deliver(of, whole) PROVE UnitsInv'
  BY <1>0, <1>d, <1>e, PostEnds
<1>p. ASSUME NEW p \in ConnType(chain), p.rest =< p.length, NEW n \in 0..p.rest,
             NEW peer1, NEW late1, Receive(p, n, peer1, late1), Registered,
             chain \notin abandoned => conn = "open" /\ p = peer
      PROVE  UnitsInv' /\ (Restart \/ Delivery \/ Quiet)
  <2> DEFINE h == Header(p)
             added == httpBuffer \o Copied(p, n, h)
             buffer == IF h.code # HTTP_NOT_FOUND THEN added ELSE httpBuffer
  <2>1. \/ Restart
        \/ h.code # HTTP_NOT_FOUND /\ Deliver(added, n = p.rest)
        \/ httpBuffer' = buffer /\ UNCHANGED <<context, chain, step, abandoned, outcome>>
    BY <1>p DEF Receive, chainVars
  <2>2. conn # "closed"
    BY <1>p DEF Registered
  <2>3. ASSUME h.code # HTTP_NOT_FOUND
        PROVE  /\ added \in Seq(UnitType(chain))
               /\ chain \notin abandoned => OwnUnits(added)
    <3>1. httpBuffer \in Seq(UnitType(chain)) /\ total =< BufferSize /\ Len(httpBuffer) = total
      BY <1>0 DEF WellTyped, total
    <3>2. Appended(chain, p, n, h, added)
      BY <1>0, <1>p, <3>1, CopiedFits
    <3>3. ASSUME chain \notin abandoned, NEW i \in 1..Len(added)
          PROVE  added[i] = Garbage \/ added[i][1] = chain
      <4>1. OwnUnits(httpBuffer) /\ p.id[1] = chain
        BY <1>0, <1>p, <3>3 DEF UnitsInv, Undisturbed, OwnPeer, Id
      <4>2. i \in 1..total \/ i \in total + 1..Len(added)
        BY <3>1, <3>3
      <4> HIDE DEF added, h
      <4>3. CASE i \in 1..total
        BY <3>1, <3>2, <4>1, <4>3 DEF Appended, OwnUnits
      <4>4. CASE i \in total + 1..Len(added)
        BY <3>2, <4>1, <4>4 DEF Appended
      <4> QED  BY <4>2, <4>3, <4>4
    <3> QED  BY <3>2, <3>3 DEF Appended, OwnUnits
  <2> HIDE DEF added, h
  <2>4. CASE Restart
    BY <1>r, <2>4
  <2>5. CASE h.code # HTTP_NOT_FOUND /\ Deliver(added, n = p.rest)
    <3>1. Delivery
      BY <2>2, <2>3, <2>5 DEF Delivery
    <3> QED  BY <1>d, <2>2, <2>5, <3>1
  <2>6. CASE httpBuffer' = buffer /\ UNCHANGED <<context, chain, step, abandoned, outcome>>
    <3>1. chain \notin abandoned => OwnUnits(buffer)
      BY <2>3 DEF UnitsInv
    <3>2. UnitsInv'
      BY <2>6, <3>1 DEF UnitsInv, OwnUnits
    <3> QED  BY <2>6, <3>2
  <2> QED  BY <2>1, <2>4, <2>5, <2>6
<1>1. CASE RegisterHandler
  BY <1>1, <1>k DEF RegisterHandler, connVars, history, stateVars
<1>2. CASE RequestBasicWeather
  BY <1>2, <1>e DEF RequestBasicWeather, DoGet
<1>3. CASE LookupDone
  BY <1>3, <1>k DEF LookupDone, chainVars, history
<1>4. CASE LookupFails
  BY <1>4, <1>r DEF LookupFails
<1>5. CASE Connected
  BY <1>5, <1>k DEF Connected, chainVars, history
<1>6. CASE Packet
  <2>1. PICK n \in Packets(peer) : Receive(peer, n, Sent(peer, n), late)
    BY <1>6 DEF Packet
  <2>2. conn = "open" /\ Registered /\ peer \in ConnType(chain) /\ peer.rest =< peer.length
    BY <1>0, <1>6 DEF Packet, Registered, WellTyped
  <2>3. n \in 0..peer.rest
    BY <1>0, <2>2, SentIsTyped
  <2> QED  BY <1>p, <2>1, <2>2, <2>3
<1>7. CASE LatePacket
  <2>1. PICK p \in late : \E n \in Packets(p) :
          LET late1 == (late \ {p}) \cup {Sent(p, n)}
          IN  IF Registered THEN Receive(p, n, peer, late1)
              ELSE /\ late' = late1
                   /\ UNCHANGED <<entity, chainVars, stateVars, conn, peer, history,
                                  httpBuffer, timeoutTimer, body, context>>
    BY <1>7 DEF LatePacket
  <2>2. PICK n \in Packets(p) :
          LET late1 == (late \ {p}) \cup {Sent(p, n)}
          IN  IF Registered THEN Receive(p, n, peer, late1)
              ELSE /\ late' = late1
                   /\ UNCHANGED <<entity, chainVars, stateVars, conn, peer, history,
                                  httpBuffer, timeoutTimer, body, context>>
    BY <2>1
  <2>3. p \in ConnType(chain) /\ p.rest =< p.length /\ chain \in abandoned
    BY <1>0 DEF WellTyped, Undisturbed
  <2>4. n \in 0..p.rest
    BY <1>0, <2>3, SentIsTyped
  <2>5. CASE Registered
    BY <1>p, <2>2, <2>3, <2>4, <2>5
  <2>6. CASE ~Registered
    BY <1>k, <2>2, <2>6 DEF chainVars, history
  <2> QED  BY <2>5, <2>6
<1>8. CASE RemoteClose
  BY <1>8, <1>e DEF RemoteClose, Clear, chainVars, history
<1>9. CASE LateClose
  BY <1>9, <1>e, <1>k DEF LateClose, Clear, chainVars, history
<1>10. CASE Expire
  BY <1>10, <1>k DEF Expire, connVars, history
<1>11. CASE UNCHANGED vars
  BY <1>11, <1>k DEF vars, chainVars, connVars, history
<1> QED  BY <1>1, <1>2, <1>3, <1>4, <1>5, <1>6, <1>7, <1>8, <1>9, <1>10, <1>11
         DEF Next

LEMMA PageParts ==
  /\ Pages[1].clears = {"icon", "today", "almanac"} /\ Reads(1) = {"today", "almanac"}
  /\ Pages[2].clears = {"tomorrow"} /\ Reads(2) = {"tomorrow"}
  /\ Pages[3].clears = {"icon", "cityName", "indices"} /\ Reads(3) = {"icon", "cityName", "indices"}
  /\ Pages[4].clears = {} /\ Reads(4) = {"forecast"}
  /\ Pages[5].clears = {"date"} /\ Reads(5) = {"date"}
<1> USE DEF Reads, Pages, Itianqi7, Itianqi8, Itianqi102, Itianqi3, Systime
<1>1. Pages[1].clears = {"icon", "today", "almanac"} /\ Reads(1) = {"today", "almanac"}
  OBVIOUS
<1>2. Pages[2].clears = {"tomorrow"} /\ Reads(2) = {"tomorrow"}
  OBVIOUS
<1>3. /\ Pages[3].clears = {"icon", "cityName", "indices"}
       /\ Reads(3) = {"icon", "cityName", "indices"}
  OBVIOUS
<1>4. Pages[4].clears = {} /\ Reads(4) = {"forecast"}
  OBVIOUS
<1>5. Pages[5].clears = {"date"} /\ Reads(5) = {"date"}
  OBVIOUS
<1> QED  BY <1>1, <1>2, <1>3, <1>4, <1>5

\* A page of an update that was not disturbed leaves, of what it clears, what the
\* update brought or nothing.
LEMMA DeliveryFills ==
  ASSUME RoomForAll, WholeInv, Delivery
  PROVE  /\ step \in 1..5 /\ UNCHANGED <<chain, abandoned>>
         /\ \A f \in Fields :
              /\ f \notin Reads(step) =>
                   context'[f] = IF f \in Pages[step].clears THEN 0 ELSE context[f]
              /\ f \in Pages[step].clears /\ chain \notin abandoned => context'[f] \in {0, chain}
         /\ \/ step < 5 /\ step' = step + 1 /\ outcome' = outcome
            \/ step = 5 /\ step' = 5 /\ outcome' = "finished"
<1>0. WellTyped /\ chain \in Nat
  BY HttpAssumption DEF WholeInv, OwnInv, WellTyped
<1>1. PICK of \in Seq(UnitType(chain)), whole \in BOOLEAN :
        conn # "closed" /\ Deliver(of, whole) /\ (chain \notin abandoned => OwnUnits(of))
  BY DEF Delivery
<1>2. step \in 1..5 /\ context \in [Fields -> 0..chain]
  BY <1>0, <1>1 DEF WellTyped
<1>3. /\ UNCHANGED <<chain, abandoned>> /\ Parse(step, of)
      /\ \/ step < LastStep /\ step' = step + 1 /\ outcome' = outcome
         \/ step = LastStep /\ step' = step /\ outcome' = "finished"
  BY <1>0, <1>1, PostEnds
<1>4. \A f \in Fields :
        /\ f \notin Reads(step) =>
             context'[f] = IF f \in Pages[step].clears THEN 0 ELSE context[f]
        /\ f \in Pages[step].clears =>
             context'[f] = 0 \/ \E i \in 1..Len(of) : of[i][2] = step /\ context'[f] = of[i][1]
  <2>1. Fills(step, of)
    BY <1>0, <1>2, <1>3, ParseFills
  <2> QED  BY <2>1 DEF Fills
<1>5. ASSUME NEW f \in Fields, f \in Pages[step].clears, chain \notin abandoned
      PROVE  context'[f] \in {0, chain}
  <2>1. CASE context'[f] # 0
    <3>1. PICK i \in 1..Len(of) : of[i][2] = step /\ context'[f] = of[i][1]
      BY <1>4, <1>5, <2>1
    <3>2. of[i] # Garbage
      BY <1>2, <3>1 DEF Garbage
    <3> QED  BY <1>1, <1>5, <3>1, <3>2 DEF OwnUnits
  <2> QED  BY <2>1
<1> QED  BY <1>2, <1>3, <1>4, <1>5, LastStepIsFive

LEMMA FieldNames ==
  {"icon", "today", "almanac", "tomorrow", "cityName", "indices", "date", "forecast"} = Fields
  BY DEF Fields, BasicWeather, CalendarFields

LEMMA ProgressNext ==
  ASSUME RoomForAll, WholeInv, [Next]_vars
  PROVE  Progress'
<1>0. UnitsInv /\ OwnInv /\ Progress /\ WellTyped /\ chain \in Nat /\ step \in 0..5
        /\ context \in [Fields -> 0..chain]
  BY HttpAssumption, LastStepIsFive DEF WholeInv, OwnInv, WellTyped, HttpInv
<1>1. CASE Restart
  <2>1. step' = 0 /\ outcome' = "none"
    BY <1>1 DEF Restart, Reset
  <2> QED  BY <2>1 DEF Progress
<1>2. CASE RequestBasicWeather
  <2>1. step' = 1 /\ outcome' = "running"
    BY <1>2 DEF RequestBasicWeather, DoGet
  <2> QED  BY <2>1 DEF Progress
<1>3. CASE UNCHANGED <<context, chain, step, abandoned>> /\ outcome' \in {outcome, "timeout"}
  BY <1>0, <1>3 DEF Progress
<1>4. CASE Delivery
  <2>1. /\ step \in 1..5 /\ UNCHANGED <<chain, abandoned>>
        /\ \A f \in Fields :
             /\ f \notin Reads(step) =>
                  context'[f] = IF f \in Pages[step].clears THEN 0 ELSE context[f]
             /\ f \in Pages[step].clears /\ chain \notin abandoned => context'[f] \in {0, chain}
        /\ \/ step < 5 /\ step' = step + 1 /\ outcome' = outcome
           \/ step = 5 /\ step' = 5 /\ outcome' = "finished"
    BY <1>4, DeliveryFills
  <2> SUFFICES ASSUME chain \notin abandoned
               PROVE  Progress'
    BY <2>1 DEF Progress
  <2>2. CASE step = 1
    BY <1>0, <2>1, <2>2, PageParts, FieldNames DEF Progress
  <2>3. CASE step = 2
    BY <1>0, <2>1, <2>3, PageParts, FieldNames DEF Progress
  <2>4. CASE step = 3
    BY <1>0, <2>1, <2>4, PageParts, FieldNames DEF Progress
  <2>5. CASE step = 4
    BY <1>0, <2>1, <2>5, PageParts, FieldNames DEF Progress
  <2>6. CASE step = 5
    BY <1>0, <2>1, <2>6, PageParts, FieldNames DEF Progress
  <2> QED  BY <2>1, <2>2, <2>3, <2>4, <2>5, <2>6
<1> QED  BY <1>0, <1>1, <1>2, <1>3, <1>4, StepKinds

LEMMA ShownNext ==
  ASSUME RoomForAll, WholeInv, [Next]_vars
  PROVE  ShownTogether'
<1>0. UnitsInv /\ OwnInv /\ Progress /\ ShownTogether /\ WellTyped /\ WellTyped'
        /\ chain \in Nat /\ context \in [Fields -> 0..chain]
        /\ context' \in [Fields -> 0..chain'] /\ chain' \in Nat
  BY TypedNext, HttpAssumption DEF WholeInv, OwnInv, WellTyped
<1>1. CASE Restart
  <2>1. context'["icon"] = 0
    BY <1>1, FieldNames DEF Restart, Reset
  <2> QED  BY <2>1 DEF ShownTogether
<1>2. CASE RequestBasicWeather
  <2>1. chain' = chain + 1 /\ abandoned \subseteq abandoned' /\ context' = context
    BY <1>2 DEF RequestBasicWeather
  <2>2. context["icon"] \in 0..chain
    BY <1>0, FieldNames
  <2>3. context["icon"]..chain \subseteq context["icon"]..chain'
    BY <1>0, <2>1, <2>2
  <2> QED  BY <1>0, <2>1, <2>3 DEF ShownTogether
<1>3. CASE UNCHANGED <<context, chain, step, abandoned>> /\ outcome' \in {outcome, "timeout"}
  BY <1>0, <1>3 DEF ShownTogether
<1>4. CASE Delivery
  <2>1. /\ step \in 1..5 /\ UNCHANGED <<chain, abandoned>>
        /\ \A f \in Fields :
             /\ f \notin Reads(step) =>
                  context'[f] = IF f \in Pages[step].clears THEN 0 ELSE context[f]
             /\ f \in Pages[step].clears /\ chain \notin abandoned => context'[f] \in {0, chain}
    BY <1>4, DeliveryFills
  <2>2. context'["icon"] \in 0..chain
    BY <1>0, <2>1, FieldNames
  <2> SUFFICES ASSUME context'["icon"] # 0, abandoned \cap (context'["icon"]..chain) = {},
                      NEW f \in {"today", "almanac", "tomorrow", "cityName", "indices"}
               PROVE  context'[f] \in {0, context'["icon"]}
    BY <2>1 DEF ShownTogether
  <2>3. chain \notin abandoned
    BY <1>0, <2>2
  <2>4. CASE step = 1
    BY <2>1, <2>4, PageParts, FieldNames
  <2>5. CASE step = 2
    BY <1>0, <2>1, <2>3, <2>5, PageParts, FieldNames DEF Progress
  <2>6. CASE step = 3
    <3>1. /\ context["today"] \in {0, chain} /\ context["almanac"] \in {0, chain}
          /\ context["tomorrow"] \in {0, chain}
      BY <1>0, <2>3, <2>6 DEF Progress
    <3>2. context'["icon"] = chain
      BY <2>1, <2>3, <2>6, PageParts, FieldNames
    <3> QED  BY <2>1, <2>3, <2>6, <3>1, <3>2, PageParts, FieldNames
  <2>7. CASE step \in {4, 5}
    <3>1. context'["icon"] = context["icon"] /\ context'[f] = context[f]
      BY <2>1, <2>7, PageParts, FieldNames
    <3> QED  BY <1>0, <3>1 DEF ShownTogether
  <2> QED  BY <2>1, <2>4, <2>5, <2>6, <2>7
<1> QED  BY <1>0, <1>1, <1>2, <1>3, <1>4, StepKinds

LEMMA WholeInit == ASSUME Init PROVE WholeInv
<1>1. OwnInv
  BY OwnInit
<1>2. httpBuffer = <<>> /\ step = 0 /\ outcome = "none" /\ context["icon"] = 0
  BY FieldNames DEF Init
<1> QED  BY <1>1, <1>2 DEF WholeInv, UnitsInv, OwnUnits, Progress, ShownTogether

\* Whatever connections time out, close or are forgotten, what a page can show
\* together is of one update, and an update that finishes leaves nothing of another
\* but the forecast: a field is of it or empty (context.c:26, itianqi3_request.c:49).
THEOREM UpdatesAreWhole ==
  ASSUME RoomForAll
  PROVE  Spec => []UpdateIsWhole
<1>1. ASSUME WholeInv PROVE UpdateIsWhole
  <2>1. Progress /\ ShownTogether
    BY <1>1 DEF WholeInv
  <2>2. FinishedIsFresh
    BY <2>1, FieldNames DEF Progress, FinishedIsFresh
  <2> QED  BY <2>1, <2>2 DEF UpdateIsWhole
<1>2. Init => WholeInv
  BY WholeInit
<1>3. WholeInv /\ [Next]_vars => WholeInv'
  BY OwnNext, StepKinds, ProgressNext, ShownNext DEF WholeInv
<1> QED  BY <1>1, <1>2, <1>3, PTL DEF Spec

=============================================================================
