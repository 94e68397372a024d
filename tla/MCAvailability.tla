--------------------------- MODULE MCAvailability ---------------------------
(* Model-checking instance of the calendar tools: a behaviour is a call of   *)
(* one of the two availability tools, or a series of calls that edit an      *)
(* event, and the other tools' variables stay as they are.                   *)
EXTENDS FreeTime, MeetingSlots, EventEditing

VARIABLE tool

vars == <<tool, freeVars, slotVars, eventVars>>

\* An attendee is busy in one run of minutes, or not at all.  A day has ten
\* minutes here and a sample at least three.
OneRun == {i..j : i \in {3, 5, 9, 12}, j \in {2, 4, 9, 13}}

DayWork == {[start |-> 3, end |-> 6]}

FreeIdle ==
  /\ calendar = <<>>
  /\ window = [start |-> 0, end |-> 1, limit |-> 1, recurring |-> TRUE]
  /\ phase = "list" /\ todo = {} /\ cursor = 0 /\ freeSlots = <<>>
  /\ outcome = "none"

SlotIdle ==
  /\ busy = [a \in Attendees |-> {}]
  /\ request = [start |-> 0, end |-> 2, duration |-> 2, limit |-> 1, hours |-> NoHours]
  /\ merged = [a \in Attendees |-> [count |-> 0, free |-> {}]]
  /\ stage = "ask" /\ at = 0 /\ slots = <<>> /\ reply = "none"

\* Requests about an event of at most three days.
EventRequest(t) ==
  [tool |-> t, start |-> Omitted, end |-> Omitted, allDay |-> FALSE, add |-> <<>>,
   remove |-> <<>>, other |-> FALSE, notify |-> TRUE, decline |-> FALSE]

AtMostOnePerson == {<<>>} \cup {<<p>> : p \in People}

SomeEventRequests ==
  {[EventRequest("create") EXCEPT !.start = t[1], !.end = t[2], !.allDay = d, !.add = a] :
     t \in {<<1, 2>>, <<1, 3>>, <<2, 5>>}, d \in BOOLEAN, a \in AtMostOnePerson}
  \cup
  {[EventRequest("update") EXCEPT !.start = s, !.end = e] :
     s \in {Omitted, 0, 1, 2}, e \in {Omitted, 3, 4}}
  \cup
  {[EventRequest("update") EXCEPT !.add = a] :
     a \in AtMostOnePerson \cup {<<p, p>> : p \in People}}
  \cup
  {[EventRequest("update") EXCEPT !.remove = r, !.other = o] :
     r \in AtMostOnePerson, o \in BOOLEAN}
  \cup {[EventRequest("delete") EXCEPT !.notify = n] : n \in BOOLEAN}
  \cup {[EventRequest("respond") EXCEPT !.decline = d] : d \in BOOLEAN}

SomeRanges ==
  {[start |-> 1, end |-> 3, allDay |-> FALSE], [start |-> 2, end |-> 4, allDay |-> TRUE]}

EventIdle ==
  /\ event = NoEvent /\ copy = NoEvent /\ shadow = NoEvent
  /\ asked = EventRequest("delete")
  /\ status = "none" /\ told = FALSE /\ meddled = FALSE /\ raced = FALSE
  /\ asks = 0 /\ meddling = 0

Init ==
  \/ tool = "get_my_availability" /\ FreeInit /\ SlotIdle /\ EventIdle
  \/ tool = "find_free_slots" /\ SlotInit /\ FreeIdle /\ EventIdle
  \/ tool = "events" /\ EventInit /\ FreeIdle /\ SlotIdle

Next ==
  \/ tool = "get_my_availability" /\ FreeNext /\ UNCHANGED <<tool, slotVars, eventVars>>
  \/ tool = "find_free_slots" /\ SlotNext /\ UNCHANGED <<tool, freeVars, eventVars>>
  \/ tool = "events" /\ EventNext /\ UNCHANGED <<tool, freeVars, slotVars>>

Spec == Init /\ [][Next]_vars

\* "filters by work hours": whatever is offered lies within the work hours of
\* one day (tests/test_ews_backend.py).
WorkHoursRespected == \A t \in Offered : InsideOneDay(t)
=============================================================================
