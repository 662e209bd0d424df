------------------------------ MODULE EventBus ------------------------------
(***************************************************************************)
(* The event bus (src/app/utils/eventbus.c): a table of handlers with one  *)
(* bit per slot in EntityBitmap.  A post runs the first handler registered *)
(* for the event inside the call, so the modules that post take the result *)
(* of HandlerOf and go on with what that handler does.                     *)
(***************************************************************************)
EXTENDS Naturals, FiniteSetsExt

CONSTANT SubscriberMax   \* SUBSCRIBER_MAX

ASSUME SubscriberAssumption == SubscriberMax \in Nat \ {0}

VARIABLE entity   \* by slot, the handler and its event, Free when the bit is clear

Free == [handler |-> "NULL", eventId |-> "NONE"]

Slots == 0..SubscriberMax - 1

EventBusInit == entity = [i \in Slots |-> Free]

\* Seeded bug: the last slot is not looked at.
RegistMutant(handler, eventId) ==
  LET free == {i \in 0..SubscriberMax - 2 : entity[i] = Free}
  IN  entity' = IF free = {} THEN entity
                ELSE [entity EXCEPT ![Min(free)] =
                        [handler |-> handler, eventId |-> eventId]]

\* regist: the first free slot, or none when the table is full, and the caller
\* is not told.
Regist(handler, eventId) ==
  LET free == {i \in Slots : entity[i] = Free}
  IN  entity' = IF free = {} THEN entity
                ELSE [entity EXCEPT ![Min(free)] =
                        [handler |-> handler, eventId |-> eventId]]

\* post: who answers an event, "NULL" when nobody does.
HandlerOf(eventId) ==
  LET slots == {i \in Slots : entity[i].eventId = eventId}
  IN  IF slots = {} THEN "NULL" ELSE entity[Min(slots)].handler

=============================================================================
