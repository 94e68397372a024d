------------------------------ MODULE FreeTime ------------------------------
(***************************************************************************)
(* get_my_availability (exchange_client/calendar.py): the events of the    *)
(* window, at most `limit` of them, and _compute_free_slots, which walks   *)
(* the busy ones in the order of their starts with a cursor.               *)
(*                                                                         *)
(* External: what the calendar holds.  Exchange lists an event if it       *)
(* touches the window; it also lists events that end when, or before, they *)
(* start.  An all-day event is one whose moments are midnights.            *)
(***************************************************************************)
EXTENDS Integers, Sequences, FiniteSets

CONSTANTS Moments,     \* the instants events and windows begin and end at
          Events,      \* identities of the events of a calendar
          Limits       \* values of the request's limit

ASSUME FreeTimeAssumption ==
  /\ Moments \subseteq Int
  /\ IsFiniteSet(Events)
  /\ Limits \subseteq Nat \ {0}

\* "free": free_busy_status is "free"; "nodata" counts as busy.
Statuses == {"free", "busy", "nodata"}

VARIABLES
  calendar,   \* the events that exist: their times, status, recurrence
  window,     \* the request: its start and end, limit, include_recurring
  phase,      \* "list", "walk", "done"
  todo,       \* the busy events the loop has not come to
  cursor,     \* _compute_free_slots' local of that name
  freeSlots,  \* its result so far
  outcome     \* "none", "ok", "response_too_large" or "error"

freeVars == <<calendar, window, phase, todo, cursor, freeSlots, outcome>>

CalendarEvents == [start : Moments, end : Moments, status : Statuses,
                   recurring : BOOLEAN]

Windows == {w \in [start : Moments, end : Moments, limit : Limits,
                   recurring : BOOLEAN] : w.start < w.end}

Later(x, y) == IF x < y THEN y ELSE x
Earlier(x, y) == IF x < y THEN x ELSE y

-----------------------------------------------------------------------------
\* What the folder view, or the availability service for a mailbox shared with
\* free/busy rights only, answers to the request.
Listed == {e \in DOMAIN calendar :
             /\ calendar[e].start < window.end
             /\ calendar[e].end > window.start
             /\ calendar[e].recurring => window.recurring}

TooMany(n) == n > window.limit

Blocks(e) == calendar[e].status # "free"

\* The events that reach the loop, cut down to the window.
CountsEvenIfEmpty(e) == calendar[e].end > window.start /\ calendar[e].start < window.end
Counts(e) == /\ calendar[e].end > calendar[e].start
             /\ calendar[e].end > window.start
             /\ calendar[e].start < window.end

BusyStart(e) == Later(calendar[e].start, window.start)
BusyEndUncut(e) == calendar[e].end
BusyEnd(e) == Earlier(calendar[e].end, window.end)

CursorAfterLast(e) == BusyEnd(e)
CursorAfter(e) == IF BusyEnd(e) > cursor THEN BusyEnd(e) ELSE cursor

-----------------------------------------------------------------------------
FreeInit ==
  /\ \E S \in SUBSET Events : calendar \in [S -> CalendarEvents]
  /\ window \in Windows
  /\ phase = "list"
  /\ todo = {}
  /\ cursor = window.start
  /\ freeSlots = <<>>
  /\ outcome = "none"

\* _list_events_page returns all the events, or `limit` of them: then it said
\* that there are more, and the answer is refused.
List ==
  /\ phase = "list"
  /\ \/ /\ TooMany(Cardinality(Listed))
        /\ phase' = "done" /\ outcome' = "response_too_large"
        /\ UNCHANGED todo
     \/ /\ ~TooMany(Cardinality(Listed))
        /\ phase' = "walk"
        /\ \E page \in SUBSET Listed :
             /\ Cardinality(page) = Earlier(Cardinality(Listed), window.limit)
             /\ todo' = {e \in page : Blocks(e) /\ Counts(e)}
        /\ UNCHANGED outcome
     \/ /\ phase' = "done" /\ outcome' = "error"    \* an EWS request failed
        /\ UNCHANGED todo
  /\ UNCHANGED <<calendar, window, cursor, freeSlots>>

\* One turn of the loop over the busy intervals, sorted by their starts.
Walk(e) ==
  /\ phase = "walk"
  /\ e \in todo
  /\ \A f \in todo : BusyStart(e) <= BusyStart(f)
  /\ todo' = todo \ {e}
  /\ freeSlots' = IF BusyStart(e) > cursor
                  THEN Append(freeSlots, [start |-> cursor, end |-> BusyStart(e)])
                  ELSE freeSlots
  /\ cursor' = CursorAfter(e)
  /\ UNCHANGED <<calendar, window, phase, outcome>>

\* After the loop: what is left of the window is free.
Close ==
  /\ phase = "walk"
  /\ todo = {}
  /\ freeSlots' = IF cursor < window.end
                  THEN Append(freeSlots, [start |-> cursor, end |-> window.end])
                  ELSE freeSlots
  /\ phase' = "done"
  /\ outcome' = "ok"
  /\ UNCHANGED <<calendar, window, todo, cursor>>

FreeNext == List \/ (\E e \in Events : Walk(e)) \/ Close

FreeSpec == FreeInit /\ [][FreeNext]_freeVars

-----------------------------------------------------------------------------
FreeTypeOK ==
  /\ \E S \in SUBSET Events : calendar \in [S -> CalendarEvents]
  /\ window \in Windows
  /\ phase \in {"list", "walk", "done"}
  /\ todo \subseteq DOMAIN calendar
  /\ cursor \in window.start..window.end
  /\ freeSlots \in Seq([start : Int, end : Int])
  /\ outcome \in {"none", "ok", "response_too_large", "error"}

\* The moment t is inside an appointment that blocks it.
Taken(t) ==
  \E e \in DOMAIN calendar :
    /\ calendar[e].start <= t /\ t < calendar[e].end
    /\ calendar[e].status # "free"
    /\ calendar[e].recurring => window.recurring

InSlot(t) ==
  \E i \in 1..Len(freeSlots) : freeSlots[i].start <= t /\ t < freeSlots[i].end

\* An answer is never partial: a moment of the window is inside a free slot
\* exactly if no appointment of the whole calendar blocks it, in whatever order
\* and overlap they come and however many there are.
FreeMeansFree ==
  outcome = "ok" =>
    \A t \in window.start..(window.end - 1) : InSlot(t) <=> ~Taken(t)

\* Slots are not empty, in order, and there is busy time between two of them:
\* an appointment that occupies no time does not "split the free time around a
\* moment nobody is actually busy".
SlotsMaximal ==
  \A i \in 1..Len(freeSlots) :
    /\ freeSlots[i].start < freeSlots[i].end
    /\ i < Len(freeSlots) => freeSlots[i].end < freeSlots[i + 1].start

-----------------------------------------------------------------------------
(***************************************************************************)
(* The loop invariant: up to the cursor the slots are right, what was      *)
(* passed ends by then, and no slot reaches into what is still to come.    *)
(***************************************************************************)
Blocking == {e \in Listed : Blocks(e) /\ Counts(e)}

PassedInv ==
  /\ todo \subseteq Blocking
  /\ \A e \in Blocking \ todo : BusyEnd(e) <= cursor

SlotInv ==
  \A i \in 1..Len(freeSlots) :
    /\ window.start <= freeSlots[i].start
    /\ freeSlots[i].end < cursor
    /\ \A e \in todo : freeSlots[i].end <= BusyStart(e)

FreeUpToCursor ==
  \A t \in window.start..(cursor - 1) : InSlot(t) <=> ~Taken(t)

FreeIInv ==
  /\ FreeTypeOK
  /\ SlotsMaximal
  /\ phase = "list" => cursor = window.start /\ freeSlots = <<>>
  /\ phase = "walk" => PassedInv /\ SlotInv /\ FreeUpToCursor
  /\ phase # "done" => outcome = "none"
  /\ FreeMeansFree
=============================================================================
