---------------------------- MODULE MeetingSlots ----------------------------
(***************************************************************************)
(* find_free_slots (exchange_client/calendar.py): candidate slots of the   *)
(* requested duration, one after the other, each looked up in the merged   *)
(* free/busy samples Exchange returns per attendee.                        *)
(*                                                                         *)
(* External: the attendees' calendars, and the service that cuts the       *)
(* window into samples and marks a sample free if no minute of it is busy. *)
(* It may fail as a whole or for one attendee, and may return fewer        *)
(* samples than the window has.                                            *)
(***************************************************************************)
EXTENDS Integers, Sequences, FiniteSets

CONSTANTS Attendees,
          Busy,         \* the possible sets of busy minutes of an attendee
          Durations,    \* values of the request's duration, in minutes
          Starts,       \* values of the request's start ...
          Lengths,      \* ... and of the length of its window
          SlotLimits,   \* values of the request's limit
          WorkHours,    \* values of work_hours, [start, end], in minutes of a day
          NoHours,      \* work_hours is None
          MinSample,    \* the shortest sample the service takes: 5 minutes
          Day           \* the minutes of a day

ASSUME SlotsAssumption ==
  /\ Busy \subseteq SUBSET Int
  /\ Durations \subseteq Nat \ {0}
  /\ Starts \subseteq Nat
  /\ Lengths \subseteq Nat \ {0}
  /\ SlotLimits \subseteq Nat \ {0}
  /\ WorkHours \subseteq {h \in [start : Nat, end : Nat] :
                            h.start < h.end /\ h.end < Day}
  /\ NoHours \notin WorkHours
  /\ MinSample \in Nat \ {0}
  /\ Day \in Nat \ {0}

VARIABLES
  busy,     \* each attendee's busy minutes
  request,  \* start, end, duration, limit and hours
  merged,   \* how many samples of each attendee came back, and which are free
  stage,    \* "ask", "scan" or "done"
  at,       \* the cursor
  slots,    \* the starts of the slots found
  reply     \* "none", "ok" or "error"

slotVars == <<busy, request, merged, stage, at, slots, reply>>

Requests == {r \in [start : Starts, end : Nat, duration : Durations,
                    limit : SlotLimits, hours : WorkHours \cup {NoHours}] :
               r.end - r.start \in Lengths}

\* The minutes of the slot, or sample, of length n that begins at t.
Span(t, n) == t..(t + n - 1)

-----------------------------------------------------------------------------
Sample == IF request.duration < MinSample THEN MinSample ELSE request.duration

\* The number of samples the window is cut into, the last one perhaps short.
SampleCount == (request.end - request.start + Sample - 1) \div Sample

FreeSamples(a) ==
  {k \in 0..(SampleCount - 1) :
     Span(request.start + k * Sample, Sample) \cap busy[a] = {}}

PositionFromSlots == Len(slots)
PositionByDuration == (at - request.start) \div request.duration
Position == (at - request.start) \div Sample

AllFree == \A a \in Attendees : Position < merged[a].count /\ Position \in merged[a].free

\* slot_start.time() >= day_start and slot_end.time() <= day_end.
WithinWorkHours(t) ==
  \/ request.hours = NoHours
  \/ /\ t % Day >= request.hours.start
     /\ (t + request.duration) % Day <= request.hours.end

Fits == at + request.duration <= request.end

-----------------------------------------------------------------------------
SlotInit ==
  /\ busy \in [Attendees -> Busy]
  /\ \E s \in Starts, n \in Lengths, d \in Durations, l \in SlotLimits,
        h \in WorkHours \cup {NoHours} :
       request = [start |-> s, end |-> s + n, duration |-> d, limit |-> l,
                  hours |-> h]
  /\ merged = [a \in Attendees |-> [count |-> 0, free |-> {}]]
  /\ stage = "ask"
  /\ at = request.start
  /\ slots = <<>>
  /\ reply = "none"

\* get_free_busy_info fails, or one attendee's view is an error.
AskFails ==
  /\ stage = "ask"
  /\ stage' = "done"
  /\ reply' = "error"
  /\ UNCHANGED <<busy, request, merged, at, slots>>

\* It answers, for each attendee with all samples or with the first n.
Ask ==
  /\ stage = "ask"
  /\ \E n \in {0, 1, SampleCount} :
       merged' = [a \in Attendees |-> [count |-> n, free |-> FreeSamples(a)]]
  /\ stage' = "scan"
  /\ UNCHANGED <<busy, request, at, slots, reply>>

\* One turn of the loop.
Scan ==
  /\ stage = "scan"
  /\ Fits
  /\ at' = at + request.duration
  /\ IF AllFree /\ WithinWorkHours(at)
     THEN /\ slots' = Append(slots, at)
          /\ IF Len(slots') >= request.limit
             THEN stage' = "done" /\ reply' = "ok"
             ELSE UNCHANGED <<stage, reply>>
     ELSE UNCHANGED <<slots, stage, reply>>
  /\ UNCHANGED <<busy, request, merged>>

\* No full-length slot fits before the end of the window.
ScanEnds ==
  /\ stage = "scan"
  /\ ~Fits
  /\ stage' = "done"
  /\ reply' = "ok"
  /\ UNCHANGED <<busy, request, merged, at, slots>>

SlotNext == AskFails \/ Ask \/ Scan \/ ScanEnds

SlotSpec == SlotInit /\ [][SlotNext]_slotVars

-----------------------------------------------------------------------------
Offered == {slots[i] : i \in 1..Len(slots)}

Nobody(t) == \A a \in Attendees : Span(t, request.duration) \cap busy[a] = {}

\* The candidate at t is inside the work hours of one day.
InsideOneDay(t) ==
  \/ request.hours = NoHours
  \/ \E d \in 0..(request.end \div Day) :
       /\ d * Day + request.hours.start <= t
       /\ t + request.duration <= d * Day + request.hours.end

\* "the sample that covers each short slot's start time"
\* (tests/test_ews_backend.py): nobody is busy in any minute of it.
CoveringSampleFree(t) ==
  \A k \in 0..(SampleCount - 1) :
    LET sample == Span(request.start + k * Sample, Sample)
    IN  t \in sample => \A a \in Attendees : sample \cap busy[a] = {}

FreeFor(t) ==
  IF request.duration >= MinSample THEN Nobody(t) ELSE CoveringSampleFree(t)

\* "all_available": a slot that is offered lies whole in the window, and nobody
\* is busy in any minute of it or, if it is shorter than the shortest sample, of
\* the sample that covers its start.  One that ends on the day it begins lies
\* within the work hours.
OfferedIsFree ==
  \A t \in Offered :
    /\ t >= request.start /\ t + request.duration <= request.end
    /\ FreeFor(t)
    /\ (t % Day) + request.duration < Day => InsideOneDay(t)

\* No slot is missed: with every sample answered and the limit not reached, each
\* candidate that is free in this sense, and inside the work hours of one day, is
\* offered; also where several short candidates share a sample.
NothingMissed ==
  LET count == (request.end - request.start) \div request.duration
      candidates == {request.start + k * request.duration : k \in 0..(count - 1)}
      complete == /\ reply = "ok"
                  /\ Len(slots) < request.limit
                  /\ \A a \in Attendees : merged[a].count = SampleCount
  IN  complete => \A t \in candidates :
                    FreeFor(t) /\ InsideOneDay(t) => t \in Offered

-----------------------------------------------------------------------------
(***************************************************************************)
(* The loop invariant: the cursor is on the grid of candidates, the        *)
(* samples looked at are those of the calendars, and every good candidate  *)
(* before the cursor was taken.                                            *)
(***************************************************************************)
SlotTypeOK ==
  /\ busy \in [Attendees -> Busy]
  /\ request \in Requests
  /\ merged \in [Attendees -> [count : Int, free : SUBSET Int]]
  /\ stage \in {"ask", "scan", "done"}
  /\ slots \in Seq(Nat)
  /\ reply \in {"none", "ok", "error"}

Candidate(k) == request.start + k * request.duration

OnGrid == \E k \in Nat : at = Candidate(k)

SamplesTrue ==
  stage = "scan" => \A a \in Attendees : merged[a].free = FreeSamples(a)

\* All samples came back.
Answered == \A a \in Attendees : merged[a].count = SampleCount

PassedTaken ==
  stage # "ask" /\ reply # "error" /\ Answered =>
    \A k \in Nat :
      Candidate(k) < at /\ FreeFor(Candidate(k)) /\ InsideOneDay(Candidate(k)) =>
        Candidate(k) \in Offered

SlotIInv ==
  /\ SlotTypeOK
  /\ OnGrid
  /\ SamplesTrue
  /\ PassedTaken
  /\ stage = "ask" => at = request.start /\ slots = <<>>
  /\ stage # "done" => reply = "none"
  /\ reply = "ok" => Len(slots) >= request.limit \/ ~Fits
  /\ OfferedIsFree
=============================================================================
