---------------------------- MODULE EventEditing ----------------------------
(***************************************************************************)
(* The tools that change an event (exchange_client/calendar.py):           *)
(* create_event, update_event, delete_event and respond_to_invite, called  *)
(* one after the other on one event, which its owner also edits.           *)
(*                                                                         *)
(* Times are counted in half days, so the even ones are midnights.  Of the *)
(* event the range and the attendees are modelled; `other` in a request    *)
(* stands for the fields that are stored as they are given.                *)
(*                                                                         *)
(* External: Exchange and the owner.  A request that fails has been        *)
(* carried out or not.  A save writes the fields it names over whatever is *)
(* there; who declines an event no longer has it.                          *)
(***************************************************************************)
EXTENDS Naturals, Sequences, FiniteSets, SequencesExt

CONSTANTS People,
          EventRequests,  \* what callers ask for
          Ranges,         \* the ranges the owner gives an event
          MaxAsks,        \* bound on the calls
          MaxMeddling,    \* bound on what the owner does
          Omitted         \* a field the caller left out

EventRequestType ==
  [tool : {"create", "update", "delete", "respond"},
   start : Nat \cup {Omitted}, end : Nat \cup {Omitted}, allDay : BOOLEAN,
   add : Seq(People), remove : Seq(People), other : BOOLEAN,
   notify : BOOLEAN, decline : BOOLEAN]

ASSUME EventAssumption ==
  /\ EventRequests \subseteq EventRequestType
  /\ \A r \in EventRequests :
       /\ r.tool = "create" => Omitted \notin {r.start, r.end}
       /\ Omitted \notin {r.start, r.end} => r.start < r.end
       /\ ToSet(r.add) \cap ToSet(r.remove) = {}
  /\ \A g \in Ranges :
       /\ g.allDay \in BOOLEAN
       /\ g.start \in Nat /\ g.end \in Nat /\ g.start < g.end
       /\ g.allDay => g.start % 2 = 0 /\ g.end % 2 = 0
  /\ MaxAsks \in Nat /\ MaxMeddling \in Nat
  /\ Omitted \notin Nat

VARIABLES
  event,      \* the event on the server
  asked,      \* the call under way, or the last one
  copy,       \* the item it fetched
  status,     \* "fetch" or "write" is its next request; "ok" or "error"
  told,       \* whether it made Exchange write to the attendees
  shadow,     \* history: the event as it were without this call
  meddled,    \* history: whether the owner edited it since the call began
  raced,      \* history: whether that ever was between a fetch and its save
  asks,       \* how many calls there were
  meddling    \* how often the owner edited the event

eventVars == <<event, asked, copy, status, told, shadow, meddled, raced, asks,
               meddling>>

NoEvent == [exists |-> FALSE, allDay |-> FALSE, start |-> 0, end |-> 0,
            required |-> <<>>, optional |-> <<>>]

-----------------------------------------------------------------------------
Midnight(t) == 2 * (t \div 2)

\* The exclusive end of an all-day event is at least the next midnight.
AllDayEnd(r) ==
  IF Midnight(r.end) > Midnight(r.start) THEN Midnight(r.end) ELSE Midnight(r.start) + 2

NewEvent(r) ==
  [exists |-> TRUE, allDay |-> r.allDay,
   start |-> IF r.allDay THEN Midnight(r.start) ELSE r.start,
   end |-> IF r.allDay THEN AllDayEnd(r) ELSE r.end,
   required |-> r.add, optional |-> <<>>]

\* The bound to be stored: given, and floored if the event lasts all day; or old.
Bound(given, old, e) ==
  IF given = Omitted THEN old ELSE IF e.allDay THEN Midnight(given) ELSE given

GivenBounds(r) == {r.start, r.end} \ {Omitted}

\* An all-day event's own bounds are dates, which raise when they are compared
\* with a moment.
Incomparable(r, e) == e.allDay /\ Cardinality({i \in {"start", "end"} : r[i] # Omitted}) = 1

RangeUnchecked(r, e) == FALSE
RangeRefused(r, e) ==
  /\ GivenBounds(r) # {}
  /\ \/ Incomparable(r, e)
     \/ Bound(r.end, e.end, e) <= Bound(r.start, e.start, e)

\* The elements at some places of a list, in their order.
AtPlaces(list, places) ==
  [j \in 1..Cardinality(places) |->
     list[CHOOSE i \in places : Cardinality(places \cap 1..i) = j]]

\* _apply_attendee_changes: who is removed leaves both lists, and who is in
\* neither, nor named before, is added.
Remaining(list, r) == AtPlaces(list, {i \in DOMAIN list : list[i] \notin ToSet(r.remove)})

Known(r, e) == ToSet(Remaining(e.required, r)) \cup ToSet(Remaining(e.optional, r))
Newcomers(r, e) ==
  AtPlaces(r.add, {i \in DOMAIN r.add : /\ r.add[i] \notin Known(r, e)
                                        /\ \A j \in 1..(i - 1) : r.add[j] # r.add[i]})

InvitedTwice(r, e) == Remaining(e.required, r) \o r.add
Invited(r, e) == Remaining(e.required, r) \o Newcomers(r, e)

\* Only the lists that changed are saved.
Written(new, old, now) == IF new # old THEN new ELSE now

SavesSomething(r, e) ==
  \/ r.other \/ GivenBounds(r) # {}
  \/ Invited(r, e) # e.required \/ Remaining(e.optional, r) # e.optional

WholeCopy(r, e) ==
  [copy EXCEPT !.start = Bound(r.start, @, copy), !.end = Bound(r.end, @, copy),
               !.required = Invited(r, copy), !.optional = Remaining(@, r)]
Updated(r, e) ==
  [e EXCEPT !.start = Bound(r.start, @, copy),
            !.end = Bound(r.end, @, copy),
            !.required = Written(Invited(r, copy), copy.required, @),
            !.optional = Written(Remaining(copy.optional, r), copy.optional, @)]

-----------------------------------------------------------------------------
\* What the request that changes something does, and whom it writes to.
After(r) ==
  CASE r.tool = "create" -> NewEvent(r)
    [] r.tool = "update" -> Updated(r, event)
    [] r.tool = "delete" \/ (r.tool = "respond" /\ r.decline) -> NoEvent
    [] OTHER             -> event

Writes(r) == IF r.tool = "create" THEN r.add # <<>> ELSE r.notify

Carry(r) ==
  /\ r.tool = "create" \/ event.exists
  /\ event' = After(r)
  /\ told' = Writes(r)

FirstStatus(r) == IF r.tool = "create" THEN "write" ELSE "fetch"

EventInit ==
  /\ event = NoEvent
  /\ asked \in {r \in EventRequests : r.tool = "create"}
  /\ copy = NoEvent
  /\ status = "write"
  /\ told = FALSE
  /\ shadow = NoEvent
  /\ meddled = FALSE
  /\ raced = FALSE
  /\ asks = 1
  /\ meddling = 0

AskNext(r) ==
  /\ status \in {"ok", "error"}
  /\ asks < MaxAsks
  /\ event.exists <=> r.tool # "create"
  /\ asks' = asks + 1
  /\ asked' = r
  /\ status' = FirstStatus(r)
  /\ copy' = NoEvent
  /\ told' = FALSE
  /\ shadow' = event
  /\ meddled' = FALSE
  /\ UNCHANGED <<event, raced, meddling>>

\* _fetch_item, and what update_event makes of the item before it saves it: a
\* bad range is an error, and nothing to save is the end.
FetchEvent ==
  /\ status = "fetch"
  /\ \/ /\ event.exists
        /\ copy' = event
        /\ status' = IF asked.tool # "update" THEN "write"
                     ELSE IF RangeRefused(asked, event) THEN "error"
                     ELSE IF SavesSomething(asked, event) THEN "write" ELSE "ok"
     \/ status' = "error" /\ UNCHANGED copy
  /\ UNCHANGED <<event, asked, told, shadow, meddled, raced, asks, meddling>>

\* The request is carried out and answered, or fails, carried out or not.
WriteEvent ==
  /\ status = "write"
  /\ \/ Carry(asked) /\ status' \in {"ok", "error"}
     \/ status' = "error" /\ UNCHANGED <<event, told>>
  /\ UNCHANGED <<asked, copy, shadow, meddled, raced, asks, meddling>>

\* In Outlook the owner moves the event, invites somebody, or deletes it.
Meddle ==
  /\ event.exists
  /\ meddling < MaxMeddling
  /\ meddling' = meddling + 1
  /\ meddled' = TRUE
  /\ raced' = (raced \/ status = "write")
  /\ \E e \in {[event EXCEPT !.start = g.start, !.end = g.end, !.allDay = g.allDay] :
                 g \in Ranges}
              \cup {[event EXCEPT !.optional = Append(@, p)] : p \in People}
              \cup {[event EXCEPT !.required = Append(@, p)] : p \in People}
              \cup {NoEvent} :
       /\ event' = e
       /\ shadow' = [f \in DOMAIN e |-> IF e[f] # event[f] THEN e[f] ELSE shadow[f]]
  /\ UNCHANGED <<asked, copy, status, told, asks>>

EventNext == (\E r \in EventRequests : AskNext(r)) \/ FetchEvent \/ WriteEvent \/ Meddle

EventSpec == EventInit /\ [][EventNext]_eventVars

-----------------------------------------------------------------------------
Attended(e) == e.required \o e.optional
Times(list, p) == Cardinality({i \in 1..Len(list) : list[i] = p})

\* Unless the owner edits it between a fetch and a save, an event ends after it
\* begins, and an all-day event runs from midnight to midnight: "a partial
\* update can't drift the event to start/end mid-day", whichever bounds
\* a sequence of calls names and however many of them fail.
EventWellFormed ==
  event.exists /\ ~raced =>
    /\ event.start < event.end
    /\ event.allDay => event.start = Midnight(event.start) /\ event.end = Midnight(event.end)

\* After a successful update whoever was removed is in neither list, whoever was
\* added is invited, and nobody is listed more often than before or once: "a
\* repeated call does not list the same person twice", also after a call that
\* failed and yet took effect.  Attendees are written to only if they changed or
\* something else was saved.
AttendeesAsAsked ==
  /\ asked.tool = "update" /\ status = "ok" /\ ~meddled
  => /\ \A p \in People :
          Times(Attended(event), p) =
            IF p \in ToSet(asked.remove) THEN 0
            ELSE LET n == Times(Attended(shadow), p)
                 IN  IF n = 0 /\ p \in ToSet(asked.add) THEN 1 ELSE n
     /\ told => \/ asked.other \/ GivenBounds(asked) # {}
                \/ Attended(event) # Attended(shadow)

\* A field that an update does not name is as the owner left it, even if that
\* was between the call's fetch and its save; "only changed lists are saved".
OwnersEventKept ==
  asked.tool = "update" /\ status \in {"ok", "error"} =>
    /\ asked.start = Omitted => event.start = shadow.start
    /\ asked.end = Omitted => event.end = shadow.end
    /\ event.allDay = shadow.allDay
    /\ asked.add = <<>> /\ Remaining(copy.required, asked) = copy.required =>
         event.required = shadow.required
    /\ Remaining(copy.optional, asked) = copy.optional =>
         event.optional = shadow.optional

-----------------------------------------------------------------------------
\* The inductive invariant of the proofs.
Event(e) ==
  /\ e = [exists |-> e.exists, allDay |-> e.allDay, start |-> e.start, end |-> e.end,
          required |-> e.required, optional |-> e.optional]
  /\ {e.exists, e.allDay} \subseteq BOOLEAN
  /\ {e.start, e.end} \subseteq Nat

EventTyped ==
  /\ Event(event) /\ Event(copy) /\ Event(shadow)
  /\ asked \in EventRequests
  /\ status \in {"fetch", "write", "ok", "error"}
  /\ raced \in BOOLEAN

\* Until it saves, a call has changed nothing.
NothingSaved == status \in {"fetch", "write"} => event = shadow

\* What is about to be saved was worked out from the event as it still is,
\* unless the owner came in between.
CopyFresh ==
  asked.tool = "update" /\ status = "write" /\ ~raced =>
    copy = event /\ event.exists /\ ~RangeRefused(asked, event)

EventIInv ==
  EventTyped /\ NothingSaved /\ CopyFresh /\ EventWellFormed /\ OwnersEventKept

ListsTyped ==
  \A e \in {event, copy, shadow} : {e.required, e.optional} \subseteq Seq(People)

\* A call that is about to save has written to nobody, and, unless the owner
\* came in between, has something to save in the event as it still is.
AboutToSave ==
  /\ status \in {"fetch", "write"} => ~told
  /\ asked.tool = "update" /\ status = "write" /\ ~meddled =>
       copy = event /\ SavesSomething(asked, copy)

AttendeeIInv == EventIInv /\ ListsTyped /\ AboutToSave /\ AttendeesAsAsked
=============================================================================
