--------------------------- MODULE CalendarProofs ---------------------------
(***************************************************************************)
(* The calendar tools: free time is right for every calendar of finitely   *)
(* many appointments, no offered slot is somebody's busy time, and events  *)
(* stay as they were asked for.                                            *)
(***************************************************************************)
EXTENDS FreeTime, MeetingSlots, EventEditing, QueueLemmas, FiniteSetTheorems,
        FunctionTheorems

-----------------------------------------------------------------------------
\* FreeTime: get_my_availability.

\* The types of the request and of an appointment.
LEMMA CalendarType ==
  ASSUME FreeTypeOK
  PROVE  /\ window.start \in Int /\ window.end \in Int
         /\ window.start < window.end
         /\ window.limit \in Nat /\ window.recurring \in BOOLEAN
         /\ DOMAIN calendar \subseteq Events
         /\ \A e \in DOMAIN calendar :
              /\ calendar[e].start \in Int /\ calendar[e].end \in Int
              /\ calendar[e].recurring \in BOOLEAN
<1>1. /\ window.start \in Moments /\ window.end \in Moments
      /\ window.start < window.end
      /\ window.limit \in Limits /\ window.recurring \in BOOLEAN
  BY DEF FreeTypeOK, Windows
<1>2. PICK S \in SUBSET Events : calendar \in [S -> CalendarEvents]
  BY DEF FreeTypeOK
<1>3. \A e \in S : calendar[e] \in CalendarEvents
  BY <1>2
<1>4. \A e \in S : /\ calendar[e].start \in Moments /\ calendar[e].end \in Moments
                  /\ calendar[e].recurring \in BOOLEAN
  BY <1>3 DEF CalendarEvents
<1>5. DOMAIN calendar = S
  BY <1>2
<1> QED
  BY <1>1, <1>4, <1>5, FreeTimeAssumption

\* The part of a blocking appointment that lies in the window.
LEMMA BusyBounds ==
  ASSUME FreeTypeOK, NEW e \in Blocking
  PROVE  /\ BusyStart(e) \in Int /\ BusyEnd(e) \in Int
         /\ window.start <= BusyStart(e)
         /\ BusyStart(e) < BusyEnd(e)
         /\ BusyEnd(e) <= window.end
         /\ \A t \in window.start..(window.end - 1) :
              (calendar[e].start <= t /\ t < calendar[e].end)
                <=> (BusyStart(e) <= t /\ t < BusyEnd(e))
<1>1. e \in DOMAIN calendar /\ Counts(e)
  BY DEF Blocking, Listed
<1>2. /\ calendar[e].start \in Int /\ calendar[e].end \in Int
      /\ window.start \in Int /\ window.end \in Int /\ window.start < window.end
  BY <1>1, CalendarType
<1> QED
  BY <1>1, <1>2 DEF Counts, BusyStart, BusyEnd, Later, Earlier

\* A moment of the window is taken exactly if it lies in such a part.
LEMMA TakenByBlocking ==
  ASSUME FreeTypeOK, NEW t \in window.start..(window.end - 1)
  PROVE  Taken(t) <=> \E e \in Blocking : BusyStart(e) <= t /\ t < BusyEnd(e)
<1>1. ASSUME NEW e \in Blocking, BusyStart(e) <= t, t < BusyEnd(e)
      PROVE  Taken(t)
  <2>1. calendar[e].start <= t /\ t < calendar[e].end
    BY <1>1, BusyBounds
  <2> QED
    BY <2>1 DEF Taken, Blocking, Listed, Blocks
<1>2. ASSUME Taken(t)
      PROVE  \E e \in Blocking : BusyStart(e) <= t /\ t < BusyEnd(e)
  <2>1. PICK e \in DOMAIN calendar :
          /\ calendar[e].start <= t /\ t < calendar[e].end
          /\ calendar[e].status # "free"
          /\ calendar[e].recurring => window.recurring
    BY <1>2 DEF Taken
  <2>2. /\ calendar[e].start \in Int /\ calendar[e].end \in Int
        /\ window.start \in Int /\ window.end \in Int
    BY CalendarType
  <2>3. e \in Blocking
    BY <2>1, <2>2 DEF Blocking, Listed, Blocks, Counts
  <2> QED
    BY <2>1, <2>3, BusyBounds
<1> QED
  BY <1>1, <1>2

-----------------------------------------------------------------------------
\* The invariant holds before the events are listed.
LEMMA FreeInitIInv == FreeInit => FreeIInv
<1> SUFFICES ASSUME FreeInit PROVE FreeIInv
  OBVIOUS
<1> USE DEF FreeInit
<1>1. window.start \in Int /\ window.end \in Int /\ window.start < window.end
  BY FreeTimeAssumption DEF Windows
<1>2. FreeTypeOK
  BY <1>1 DEF FreeTypeOK
<1> QED
  BY <1>2 DEF FreeIInv, SlotsMaximal, FreeMeansFree

\* An answer is worked out from all the events, or refused.
LEMMA ListIInv ==
  ASSUME FreeIInv, List
  PROVE  FreeIInv'
<1> USE DEF List
<1>1. /\ window.start \in Int /\ window.end \in Int /\ window.start < window.end
      /\ window.limit \in Nat /\ DOMAIN calendar \subseteq Events
  BY CalendarType DEF FreeIInv
<1>2. IsFiniteSet(Listed) /\ Cardinality(Listed) \in Nat
  <2>1. Listed \subseteq Events
    BY <1>1 DEF Listed
  <2> QED
    BY <2>1, FreeTimeAssumption, FS_Subset, FS_CardinalityType
<1>3. cursor = window.start /\ freeSlots = <<>>
  BY DEF FreeIInv
<1>4. SlotsMaximal' /\ FreeMeansFree'
  BY <1>3 DEF SlotsMaximal, FreeMeansFree, FreeIInv
<1>5. CASE phase' = "done"
  BY <1>4, <1>5 DEF FreeIInv, FreeTypeOK
<1>6. CASE phase' = "walk"
  <2>1. PICK page \in SUBSET Listed :
          /\ Cardinality(page) = Earlier(Cardinality(Listed), window.limit)
          /\ todo' = {e \in page : Blocks(e) /\ Counts(e)}
    BY <1>6
  <2>2. Cardinality(page) = Cardinality(Listed)
    BY <1>1, <1>2, <1>6, <2>1 DEF TooMany, Earlier
  <2>3. page = Listed
    BY <1>2, <2>2, FS_Subset
  <2>4. todo' = Blocking
    BY <2>1, <2>3 DEF Blocking
  <2>5. Blocking' = Blocking /\ cursor' = cursor /\ window' = window
        /\ freeSlots' = <<>> /\ outcome' = outcome /\ calendar' = calendar
    BY <1>3, <1>6 DEF Blocking, Listed, Blocks, Counts
  <2>6. PassedInv' /\ SlotInv'
    BY <2>4, <2>5 DEF PassedInv, SlotInv
  <2>7. FreeUpToCursor'
    BY <1>1, <1>3, <2>5 DEF FreeUpToCursor
  <2>8. FreeTypeOK'
    BY <2>4, <2>5, <1>6 DEF FreeTypeOK, FreeIInv, Blocking, Listed
  <2> QED
    BY <1>4, <1>6, <2>5, <2>6, <2>7, <2>8 DEF FreeIInv
<1> QED
  BY <1>5, <1>6

-----------------------------------------------------------------------------
\* What appending the slot [cursor, b) does, and that it is done only if it is
\* not empty.
AppendSlot(b) ==
  freeSlots' = IF b > cursor
               THEN Append(freeSlots, [start |-> cursor, end |-> b])
               ELSE freeSlots

\* The slots stay ordered and maximal, the new one ends at b, and exactly the
\* moments from the cursor up to b are added to them.
LEMMA SlotAppended ==
  ASSUME FreeTypeOK, SlotsMaximal, SlotInv, NEW b \in Int, AppendSlot(b),
         window' = window
  PROVE  /\ freeSlots' \in Seq([start : Int, end : Int])
         /\ SlotsMaximal'
         /\ \A i \in 1..Len(freeSlots') :
              /\ window.start <= freeSlots'[i].start
              /\ \/ freeSlots'[i].end = b
                 \/ \E j \in 1..Len(freeSlots) :
                      freeSlots'[i].end = freeSlots[j].end
         /\ \A t \in Int : InSlot(t)' <=> InSlot(t) \/ (cursor <= t /\ t < b)
<1> USE DEF AppendSlot
<1>1. /\ freeSlots \in Seq([start : Int, end : Int]) /\ cursor \in Int
      /\ window.start \in Int /\ window.start <= cursor
  BY CalendarType DEF FreeTypeOK
<1>2. \A i \in 1..Len(freeSlots) : /\ freeSlots[i].start \in Int
                                   /\ freeSlots[i].end \in Int
                                   /\ freeSlots[i].end < cursor
                                   /\ window.start <= freeSlots[i].start
  <2>1. \A i \in 1..Len(freeSlots) : freeSlots[i] \in [start : Int, end : Int]
    BY <1>1, ElementOfSeq
  <2>2. \A i \in 1..Len(freeSlots) : /\ freeSlots[i].start \in Int
                                     /\ freeSlots[i].end \in Int
    BY <2>1
  <2> QED
    BY <2>2 DEF SlotInv
<1>3. CASE ~(b > cursor)
  <2>1. freeSlots' = freeSlots
    BY <1>3
  <2>2. SlotsMaximal'
    BY <2>1 DEF SlotsMaximal
  <2>3. \A t \in Int : InSlot(t)' <=> InSlot(t)
    BY <2>1 DEF InSlot
  <2>4. \A t \in Int : ~(cursor <= t /\ t < b)
    BY <1>1, <1>3
  <2> QED
    BY <1>1, <1>2, <2>1, <2>2, <2>3, <2>4
<1>4. CASE b > cursor
  <2> DEFINE s == [start |-> cursor, end |-> b]
             n == Len(freeSlots)
  <2>1. s \in [start : Int, end : Int] /\ n \in Nat
    BY <1>1
  <2>2. /\ freeSlots' = Append(freeSlots, s)
        /\ freeSlots' \in Seq([start : Int, end : Int])
        /\ Len(freeSlots') = n + 1
        /\ freeSlots'[n + 1] = s
        /\ \A i \in 1..n : freeSlots'[i] = freeSlots[i]
    BY <1>1, <1>4, <2>1
  <2>3. \A i \in 1..(n + 1) : i \in 1..n \/ i = n + 1
    BY <2>1
  <2>4. \A i \in 1..Len(freeSlots') :
          /\ window.start <= freeSlots'[i].start
          /\ \/ freeSlots'[i].end = b
             \/ \E j \in 1..Len(freeSlots) : freeSlots'[i].end = freeSlots[j].end
    BY <1>1, <1>2, <2>2, <2>3
  <2>5. SlotsMaximal'
    <3> SUFFICES ASSUME NEW i \in 1..(n + 1)
                 PROVE  /\ freeSlots'[i].start < freeSlots'[i].end
                        /\ i < n + 1 => freeSlots'[i].end < freeSlots'[i + 1].start
      BY <2>2 DEF SlotsMaximal
    <3>1. CASE i = n + 1
      BY <1>1, <1>4, <2>1, <2>2, <3>1
    <3>2. CASE i \in 1..n
      <4>1. freeSlots'[i].start < freeSlots'[i].end
        BY <2>2, <3>2 DEF SlotsMaximal
      <4>2. CASE i = n
        BY <1>2, <2>2, <3>2, <4>1, <4>2
      <4>3. CASE i # n
        <5>1. i < n /\ i + 1 \in 1..n
          BY <2>1, <3>2, <4>3
        <5> QED
          BY <2>2, <3>2, <4>1, <5>1 DEF SlotsMaximal
      <4> QED
        BY <4>2, <4>3
    <3> QED
      BY <2>3, <3>1, <3>2
  <2>6. ASSUME NEW t \in Int
        PROVE  InSlot(t)' <=> InSlot(t) \/ (cursor <= t /\ t < b)
    <3>1. InSlot(t)' <=> \E i \in 1..(n + 1) : freeSlots'[i].start <= t
                                              /\ t < freeSlots'[i].end
      BY <2>2 DEF InSlot
    <3>2. n + 1 \in 1..(n + 1) /\ 1..n \subseteq 1..(n + 1)
      BY <2>1
    <3> QED
      BY <2>2, <2>3, <3>1, <3>2 DEF InSlot
  <2> QED
    BY <2>2, <2>4, <2>5, <2>6
<1> QED
  BY <1>3, <1>4

\* One turn of the loop.
LEMMA WalkIInv ==
  ASSUME FreeIInv, NEW e \in Events, Walk(e)
  PROVE  FreeIInv'
<1> USE DEF Walk
<1>1. FreeTypeOK /\ SlotsMaximal /\ PassedInv /\ SlotInv /\ FreeUpToCursor
      /\ outcome = "none"
  BY DEF FreeIInv
<1>2. /\ window.start \in Int /\ window.end \in Int /\ window.start < window.end
      /\ cursor \in window.start..window.end /\ cursor \in Int
  BY <1>1, CalendarType DEF FreeTypeOK
<1>3. e \in Blocking /\ todo \subseteq Blocking
  BY <1>1 DEF PassedInv
<1>4. /\ BusyStart(e) \in Int /\ BusyEnd(e) \in Int
      /\ window.start <= BusyStart(e) /\ BusyStart(e) < BusyEnd(e)
      /\ BusyEnd(e) <= window.end
  BY <1>1, <1>3, BusyBounds
<1>5. /\ window' = window /\ calendar' = calendar /\ phase' = "walk"
      /\ outcome' = "none" /\ todo' = todo \ {e}
  BY <1>1
<1>6. cursor' \in Int /\ cursor <= cursor' /\ BusyEnd(e) <= cursor'
      /\ cursor' <= window.end /\ (cursor' = cursor \/ cursor' = BusyEnd(e))
  BY <1>2, <1>4 DEF CursorAfter
<1>7. Blocking' = Blocking
  BY <1>5 DEF Blocking, Listed, Blocks, Counts
<1>8. \A f \in Events : BusyStart(f)' = BusyStart(f) /\ BusyEnd(f)' = BusyEnd(f)
  BY <1>5 DEF BusyStart, BusyEnd
<1>9. AppendSlot(BusyStart(e))
  BY DEF AppendSlot
<1>10. /\ freeSlots' \in Seq([start : Int, end : Int])
       /\ SlotsMaximal'
       /\ \A i \in 1..Len(freeSlots') :
            /\ window.start <= freeSlots'[i].start
            /\ \/ freeSlots'[i].end = BusyStart(e)
               \/ \E j \in 1..Len(freeSlots) :
                    freeSlots'[i].end = freeSlots[j].end
       /\ \A t \in Int : InSlot(t)' <=> InSlot(t) \/ (cursor <= t /\ t < BusyStart(e))
  BY <1>1, <1>4, <1>5, <1>9, SlotAppended
<1>11. FreeTypeOK'
  BY <1>1, <1>2, <1>5, <1>6, <1>10 DEF FreeTypeOK
<1>12. Blocking \subseteq Events
  BY <1>1, CalendarType DEF Blocking, Listed
<1>13. PassedInv'
  <2>1. \A f \in Blocking : BusyEnd(f) \in Int
    BY <1>1, BusyBounds
  <2>2. \A f \in Blocking \ todo : BusyEnd(f) <= cursor
    BY <1>1 DEF PassedInv
  <2>3. \A f \in Blocking \ todo' : BusyEnd(f) <= cursor'
    BY <1>2, <1>5, <1>6, <2>1, <2>2
  <2> QED
    BY <1>3, <1>5, <1>7, <1>8, <1>12, <2>3 DEF PassedInv
<1>14. SlotInv'
  <2>1. \A j \in 1..Len(freeSlots) : /\ freeSlots[j].end < cursor
                                     /\ \A f \in todo : freeSlots[j].end <= BusyStart(f)
    BY <1>1 DEF SlotInv
  <2>2. \A f \in todo : BusyStart(e) <= BusyStart(f)
    OBVIOUS
  <2>3. \A j \in 1..Len(freeSlots) : freeSlots[j].end \in Int
    <3>1. freeSlots \in Seq([start : Int, end : Int])
      BY <1>1 DEF FreeTypeOK
    <3>2. \A j \in 1..Len(freeSlots) : freeSlots[j] \in [start : Int, end : Int]
      BY <3>1, ElementOfSeq
    <3> QED
      BY <3>2
  <2>4. SUFFICES ASSUME NEW i \in 1..Len(freeSlots')
                 PROVE  /\ window.start <= freeSlots'[i].start
                        /\ freeSlots'[i].end < cursor'
                        /\ \A f \in todo' : freeSlots'[i].end <= BusyStart(f)
    BY <1>3, <1>5, <1>8, <1>12 DEF SlotInv
  <2>5. window.start <= freeSlots'[i].start
    BY <1>10
  <2>6. CASE freeSlots'[i].end = BusyStart(e)
    BY <1>2, <1>4, <1>5, <1>6, <2>2, <2>5, <2>6
  <2>7. CASE \E j \in 1..Len(freeSlots) : freeSlots'[i].end = freeSlots[j].end
    BY <1>2, <1>5, <1>6, <2>1, <2>3, <2>5, <2>7
  <2> QED
    BY <1>10, <2>6, <2>7
<1>15. FreeUpToCursor'
  <2>1. \A t \in window.start..(window.end - 1) : Taken(t)' <=> Taken(t)
    BY <1>5 DEF Taken
  <2>2. SUFFICES ASSUME NEW t \in window.start..(cursor' - 1)
                 PROVE  InSlot(t)' <=> ~Taken(t)
    BY <1>2, <1>5, <1>6, <2>1 DEF FreeUpToCursor
  <2>3. t \in Int /\ window.start <= t /\ t < cursor' /\ t \in window.start..(window.end - 1)
    BY <1>2, <1>6
  <2>4. InSlot(t)' <=> InSlot(t) \/ (cursor <= t /\ t < BusyStart(e))
    BY <1>10, <2>3
  <2>5. Taken(t) <=> \E f \in Blocking : BusyStart(f) <= t /\ t < BusyEnd(f)
    BY <1>1, <2>3, TakenByBlocking
  <2>6. CASE t < cursor
    <3>1. t \in window.start..(cursor - 1)
      BY <1>2, <2>3, <2>6
    <3> QED
      BY <1>1, <1>2, <2>3, <2>4, <2>6, <3>1 DEF FreeUpToCursor
  <2>7. CASE cursor <= t
    <3>1. ~InSlot(t)
      <4>1. SUFFICES ASSUME NEW i \in 1..Len(freeSlots), t < freeSlots[i].end
                     PROVE  FALSE
        BY DEF InSlot
      <4>2. freeSlots \in Seq([start : Int, end : Int])
        BY <1>1 DEF FreeTypeOK
      <4>3. freeSlots[i] \in [start : Int, end : Int]
        BY <4>2, ElementOfSeq
      <4>4. freeSlots[i].end < cursor
        BY <1>1 DEF SlotInv
      <4> QED
        BY <1>2, <2>3, <2>7, <4>1, <4>3, <4>4
    <3>2. CASE t < BusyStart(e)
      <4>1. \A f \in Blocking : BusyStart(f) \in Int /\ BusyEnd(f) \in Int
        BY <1>1, BusyBounds
      <4>2. \A f \in Blocking \ todo : BusyEnd(f) <= cursor
        BY <1>1 DEF PassedInv
      <4>3. \A f \in todo : BusyStart(e) <= BusyStart(f)
        OBVIOUS
      <4>4. ~Taken(t)
        BY <1>2, <1>3, <1>4, <2>3, <2>5, <2>7, <3>2, <4>1, <4>2, <4>3
      <4> QED
        BY <2>4, <2>7, <3>2, <4>4
    <3>3. CASE BusyStart(e) <= t
      <4>1. t < BusyEnd(e)
        BY <1>2, <1>4, <1>6, <2>3, <2>7
      <4>2. Taken(t)
        BY <1>3, <2>5, <3>3, <4>1
      <4> QED
        BY <1>4, <2>3, <2>4, <3>1, <3>3, <4>2
    <3> QED
      BY <1>4, <2>3, <3>2, <3>3
  <2> QED
    BY <1>2, <2>3, <2>6, <2>7
<1>16. FreeMeansFree'
  BY <1>5 DEF FreeMeansFree
<1> QED
  BY <1>5, <1>10, <1>11, <1>13, <1>14, <1>15, <1>16 DEF FreeIInv

\* What is left of the window behind the last event completes the answer.
LEMMA CloseIInv ==
  ASSUME FreeIInv, Close
  PROVE  FreeIInv'
<1> USE DEF Close
<1>1. FreeTypeOK /\ SlotsMaximal /\ PassedInv /\ SlotInv /\ FreeUpToCursor
  BY DEF FreeIInv
<1>2. /\ window.start \in Int /\ window.end \in Int /\ window.start < window.end
      /\ cursor \in window.start..window.end /\ cursor \in Int
  BY <1>1, CalendarType DEF FreeTypeOK
<1>3. /\ window' = window /\ calendar' = calendar /\ cursor' = cursor
      /\ phase' = "done" /\ outcome' = "ok" /\ todo' = todo /\ todo = {}
  OBVIOUS
<1>4. AppendSlot(window.end)
  BY <1>2 DEF AppendSlot
<1>5. /\ freeSlots' \in Seq([start : Int, end : Int])
      /\ SlotsMaximal'
      /\ \A t \in Int : InSlot(t)' <=> InSlot(t) \/ (cursor <= t /\ t < window.end)
  BY <1>1, <1>2, <1>3, <1>4, SlotAppended
<1>6. FreeTypeOK'
  BY <1>1, <1>3, <1>5 DEF FreeTypeOK
<1>7. FreeMeansFree'
  <2>1. SUFFICES ASSUME NEW t \in window.start..(window.end - 1)
                 PROVE  InSlot(t)' <=> ~Taken(t)'
    BY <1>3 DEF FreeMeansFree
  <2>2. Taken(t)' <=> Taken(t)
    BY <1>3 DEF Taken
  <2>3. t \in Int /\ window.start <= t /\ t < window.end
    BY <1>2
  <2>4. InSlot(t)' <=> InSlot(t) \/ (cursor <= t /\ t < window.end)
    BY <1>5, <2>3
  <2>5. CASE t < cursor
    <3>1. t \in window.start..(cursor - 1)
      BY <1>2, <2>3, <2>5
    <3> QED
      BY <1>1, <1>2, <2>2, <2>3, <2>4, <2>5, <3>1 DEF FreeUpToCursor
  <2>6. CASE cursor <= t
    <3>1. Taken(t) <=> \E f \in Blocking : BusyStart(f) <= t /\ t < BusyEnd(f)
      BY <1>1, TakenByBlocking
    <3>2. \A f \in Blocking : BusyEnd(f) <= cursor /\ BusyEnd(f) \in Int
      BY <1>1, <1>3, BusyBounds DEF PassedInv
    <3> QED
      BY <1>2, <2>2, <2>3, <2>4, <2>6, <3>1, <3>2
  <2> QED
    BY <1>2, <2>3, <2>5, <2>6
<1> QED
  BY <1>3, <1>5, <1>6, <1>7 DEF FreeIInv

\* Every step keeps the invariant.
LEMMA FreeNextIInv == FreeIInv /\ [FreeNext]_freeVars => FreeIInv'
<1> SUFFICES ASSUME FreeIInv, [FreeNext]_freeVars PROVE FreeIInv'
  OBVIOUS
<1>1. CASE List
  BY <1>1, ListIInv
<1>2. ASSUME NEW e \in Events, Walk(e) PROVE FreeIInv'
  BY <1>2, WalkIInv
<1>3. CASE Close
  BY <1>3, CloseIInv
<1>4. CASE UNCHANGED freeVars
  BY <1>4 DEF freeVars, FreeIInv, FreeTypeOK, SlotsMaximal, PassedInv, SlotInv,
              FreeUpToCursor, FreeMeansFree, Blocking, Listed, Blocks, Counts,
              BusyStart, BusyEnd, InSlot, Taken
<1> QED
  BY <1>1, <1>2, <1>3, <1>4 DEF FreeNext

-----------------------------------------------------------------------------
\* The loop invariant holds throughout, for every calendar and window.
THEOREM FreeInvariant == FreeSpec => []FreeIInv
  BY FreeInitIInv, FreeNextIInv, PTL DEF FreeSpec

\* The cursor never leaves the window, and the loop only meets events that exist.
THEOREM FreeTimeTypeOK == FreeSpec => []FreeTypeOK
  BY FreeInvariant, PTL DEF FreeIInv

\* get_my_availability reports a moment free exactly if no appointment of the
\* calendar blocks it, or reports nothing.
THEOREM FreeTimeRight == FreeSpec => []FreeMeansFree
  BY FreeInvariant, PTL DEF FreeIInv

\* The free slots are disjoint, in order and as long as they can be.
THEOREM FreeTimeMaximal == FreeSpec => []SlotsMaximal
  BY FreeInvariant, PTL DEF FreeIInv

-----------------------------------------------------------------------------
\* MeetingSlots: find_free_slots.

\* Division by a positive number: the quotient of a natural number, and the
\* one quotient and remainder there are.
LEMMA SlotQuotient ==
  ASSUME NEW a \in Nat, NEW b \in Nat \ {0}
  PROVE  a \div b \in Nat /\ b * (a \div b) <= a /\ a < b * (a \div b) + b
OBVIOUS

LEMMA SlotRemainder ==
  ASSUME NEW a \in Int, NEW b \in Nat \ {0}
  PROVE  /\ a \div b \in Int /\ a % b \in 0..(b - 1)
         /\ a = b * (a \div b) + (a % b)
OBVIOUS

LEMMA SlotOneQuotient ==
  ASSUME NEW a \in Int, NEW b \in Nat \ {0}, NEW q \in Int, NEW r \in 0..(b - 1),
         a = b * q + r
  PROVE  a \div b = q /\ a % b = r
<1>1. a \div b = q
  OBVIOUS
<1>2. a = b * (a \div b) + (a % b) /\ a % b \in Int
  BY SlotRemainder
<1> QED
  BY <1>1, <1>2

\* Multiples of a positive number are ordered as their factors are.
LEMMA MultiplesInOrder ==
  ASSUME NEW i \in Int, NEW j \in Int, NEW b \in Nat \ {0}
  PROVE  i * b < j * b <=> i < j
<1>1. ASSUME i < j PROVE i * b < j * b
  <2>1. i + 1 <= j
    BY <1>1
  <2> QED
    BY <2>1
<1>2. ASSUME j <= i PROVE j * b <= i * b
  BY <1>2
<1> QED
  BY <1>1, <1>2

\* The types of the request.
LEMMA RequestType ==
  ASSUME SlotTypeOK
  PROVE  /\ request.start \in Nat /\ request.end \in Nat
         /\ request.start < request.end
         /\ request.duration \in Nat \ {0} /\ request.limit \in Nat \ {0}
         /\ request.hours = NoHours \/
              /\ request.hours.start \in Nat /\ request.hours.end \in Nat
              /\ request.hours.start < request.hours.end
              /\ request.hours.end < Day
         /\ Sample \in Nat \ {0}
         /\ request.duration >= MinSample => Sample = request.duration
<1>1. /\ request.start \in Starts /\ request.end \in Nat
      /\ request.duration \in Durations /\ request.limit \in SlotLimits
      /\ request.hours \in WorkHours \cup {NoHours}
      /\ request.end - request.start \in Lengths
  BY DEF SlotTypeOK, Requests
<1>2. /\ request.start \in Nat /\ request.end - request.start \in Nat \ {0}
      /\ request.duration \in Nat \ {0} /\ request.limit \in Nat \ {0}
      /\ MinSample \in Nat \ {0}
  BY <1>1, SlotsAssumption
<1>3. Sample \in Nat \ {0} /\ (request.duration >= MinSample => Sample = request.duration)
  BY <1>2 DEF Sample
<1>4. request.hours # NoHours =>
        request.hours \in {h \in [start : Nat, end : Nat] : h.start < h.end /\ h.end < Day}
  BY <1>1, SlotsAssumption
<1>5. request.start < request.end
  BY <1>1, <1>2
<1> QED
  BY <1>1, <1>2, <1>3, <1>4, <1>5

\* At a candidate the sample is looked up that covers its start, and no other
\* sample does; it is one of the window's, and the slot itself if samples are as
\* long as slots.
LEMMA CandidateSample ==
  ASSUME SlotTypeOK, NEW k \in Nat, at = Candidate(k), Fits
  PROVE  /\ Position \in 0..(SampleCount - 1) /\ SampleCount \in Nat
         /\ at \in Span(request.start + Position * Sample, Sample)
         /\ \A j \in Int : at \in Span(request.start + j * Sample, Sample) => j = Position
         /\ request.duration >= MinSample =>
              Span(request.start + Position * Sample, Sample) = Span(at, request.duration)
<1> DEFINE d == request.duration
           L == request.end - request.start
           S == Sample
           p == k * d
           q == p \div S
<1>1. /\ request.start \in Nat /\ request.end \in Nat /\ d \in Nat \ {0}
      /\ S \in Nat \ {0} /\ L \in Nat \ {0} /\ (d >= MinSample => S = d)
  BY RequestType
<1>2. p \in Nat /\ at = request.start + p /\ at - request.start = p /\ p + d <= L
  <2>1. p \in Nat
    BY <1>1
  <2>2. at = request.start + p
    BY DEF Candidate
  <2>3. at + d <= request.end
    BY DEF Fits
  <2> QED
    BY <1>1, <2>1, <2>2, <2>3
<1>3. Position = q
  BY <1>2 DEF Position
<1>4. d >= MinSample => q = k
  <2> SUFFICES ASSUME d >= MinSample PROVE q = k
    OBVIOUS
  <2>1. p = S * k + 0 /\ S = d
    BY <1>1
  <2> QED
    BY <1>1, <1>2, <2>1, SlotOneQuotient
<1> HIDE DEF p
<1>5. q \in Nat /\ S * q <= p /\ p < S * q + S
  BY <1>1, <1>2, SlotQuotient
<1>6. ASSUME NEW j \in Int, at \in Span(request.start + j * S, S)
      PROVE  j = q
  <2> DEFINE r == p - S * j
  <2>1. r \in 0..(S - 1)
    BY <1>1, <1>2, <1>6 DEF Span
  <2>2. p = S * j + r
    BY <1>1, <1>2
  <2> HIDE DEF r
  <2>3. p \in Int /\ S \in Nat \ {0}
    BY <1>1, <1>2
  <2>4. p \div S = j
    BY <1>6, <2>1, <2>2, <2>3, SlotOneQuotient, Zenon
  <2> QED
    BY <2>4
<1> HIDE DEF q
<1>7. SampleCount \in Nat /\ q < SampleCount
  <2> DEFINE c == (L + S - 1) \div S
  <2>1. L + S - 1 \in Nat
    BY <1>1
  <2>2. c \in Nat /\ L + S - 1 < S * c + S
    BY <1>1, <2>1, SlotQuotient
  <2> HIDE DEF c
  <2>3. q * S < c * S
    <3>1. q * S = S * q /\ c * S = S * c /\ S * q \in Nat /\ S * c \in Nat
      BY <1>1, <1>5, <2>2
    <3>2. L - 1 < S * c
      BY <1>1, <2>2, <3>1
    <3>3. S * q < L
      BY <1>1, <1>2, <1>5, <3>1
    <3> QED
      BY <1>1, <3>1, <3>2, <3>3
  <2>4. q < c
    BY <1>1, <1>5, <2>2, <2>3, MultiplesInOrder
  <2> QED
    BY <2>2, <2>4 DEF SampleCount, c
<1>8. at \in Span(request.start + q * S, S)
  BY <1>1, <1>2, <1>5 DEF Span
<1>9. d >= MinSample => Span(request.start + q * S, S) = Span(at, d)
  <2> SUFFICES ASSUME d >= MinSample PROVE Span(request.start + q * S, S) = Span(at, d)
    OBVIOUS
  <2>1. q = k /\ S = d /\ at = request.start + k * d
    BY <1>1, <1>4 DEF Candidate
  <2> QED
    BY <2>1
<1>10. q \in 0..(SampleCount - 1)
  BY <1>5, <1>7
<1> HIDE DEF d, S
<1> QED
  BY <1>3, <1>6, <1>7, <1>8, <1>9, <1>10 DEF d, S

\* The sample looked up is free for everybody exactly if the candidate is.
LEMMA SampleLookedUp ==
  ASSUME SlotTypeOK, NEW k \in Nat, at = Candidate(k), Fits
  PROVE  FreeFor(at) <=> \A a \in Attendees : Position \in FreeSamples(a)
<1> DEFINE sample == Span(request.start + Position * Sample, Sample)
<1>1. /\ Position \in 0..(SampleCount - 1) /\ at \in sample
      /\ \A j \in Int : at \in Span(request.start + j * Sample, Sample) => j = Position
      /\ request.duration >= MinSample => sample = Span(at, request.duration)
      /\ SampleCount \in Nat
  BY CandidateSample
<1>2. \A a : Position \in FreeSamples(a) <=> sample \cap busy[a] = {}
  BY <1>1 DEF FreeSamples
<1>3. CASE request.duration >= MinSample
  BY <1>1, <1>2, <1>3 DEF FreeFor, Nobody
<1>4. CASE ~(request.duration >= MinSample)
  <2>1. CoveringSampleFree(at) <=> \A a \in Attendees : sample \cap busy[a] = {}
    BY <1>1 DEF CoveringSampleFree
  <2> QED
    BY <1>2, <1>4, <2>1 DEF FreeFor
<1> QED
  BY <1>3, <1>4

\* The check of the work hours is about the one day, for a slot that ends on
\* the day it begins.
LEMMA WithinIsInside ==
  ASSUME SlotTypeOK, NEW t \in Nat, t + request.duration <= request.end,
         (t % Day) + request.duration < Day, WithinWorkHours(t)
  PROVE  InsideOneDay(t)
<1>1. CASE request.hours = NoHours
  BY <1>1 DEF InsideOneDay
<1>2. CASE request.hours # NoHours
  <2> DEFINE n == t \div Day
             r == t % Day
             d == request.duration
  <2>1. /\ Day \in Nat \ {0} /\ d \in Nat \ {0} /\ request.end \in Nat
        /\ request.hours.start \in Nat /\ request.hours.end \in Nat
    BY <1>2, RequestType, SlotsAssumption
  <2>2. n \in Nat /\ r \in 0..(Day - 1) /\ t = Day * n + r
    <3>1. n \in Nat
      BY <2>1, SlotQuotient
    <3>2. r \in 0..(Day - 1)
      BY <2>1, SlotRemainder
    <3>3. t = Day * n + r
      <4>1. t \in Int /\ Day \in Nat \ {0}
        BY <2>1
      <4> QED
        BY <4>1, SlotRemainder, Zenon
    <3> QED
      BY <3>1, <3>2, <3>3
  <2>3. (t + d) % Day = r + d
    <3> DEFINE s == r + d
               u == t + d
    <3>1. u = Day * n + s /\ s \in 0..(Day - 1) /\ u \in Int /\ n \in Int
      BY <2>1, <2>2
    <3> HIDE DEF n, s, u
    <3>2. u % Day = s
      BY <2>1, <3>1, SlotOneQuotient
    <3> QED
      BY <3>2 DEF s, u
  <2>4. r >= request.hours.start /\ r + d <= request.hours.end
    BY <1>2, <2>3 DEF WithinWorkHours
  <2>5. n * Day + request.hours.start <= t /\ t + d <= n * Day + request.hours.end
    BY <2>1, <2>2, <2>4
  <2>6. n \in 0..(request.end \div Day)
    <3> DEFINE m == request.end \div Day
    <3>1. m \in Nat /\ request.end < Day * m + Day
      BY <2>1, SlotQuotient
    <3>2. n * Day <= t /\ t <= request.end
      BY <2>1, <2>2
    <3> HIDE DEF n, m
    <3>3. n * Day < (m + 1) * Day
      BY <2>1, <2>2, <3>1, <3>2
    <3>4. n < m + 1
      BY <2>1, <2>2, <3>1, <3>3, MultiplesInOrder
    <3> QED
      BY <2>2, <3>1, <3>4 DEF m
  <2> QED
    BY <2>5, <2>6 DEF InsideOneDay
<1> QED
  BY <1>1, <1>2

\* ... and a candidate inside the work hours of one day passes it.
LEMMA InsideIsWithin ==
  ASSUME SlotTypeOK, NEW t \in Nat, InsideOneDay(t)
  PROVE  WithinWorkHours(t)
<1>1. CASE request.hours = NoHours
  BY <1>1 DEF WithinWorkHours
<1>2. CASE request.hours # NoHours
  <2> DEFINE d == request.duration
  <2>1. /\ Day \in Nat \ {0} /\ d \in Nat \ {0} /\ request.end \in Nat
        /\ request.hours.start \in Nat /\ request.hours.end \in Nat
        /\ request.hours.end < Day
    BY <1>2, RequestType, SlotsAssumption
  <2>2. PICK n \in 0..(request.end \div Day) :
          /\ n * Day + request.hours.start <= t
          /\ t + d <= n * Day + request.hours.end
    BY <1>2 DEF InsideOneDay
  <2>3. n \in Int
    OBVIOUS
  <2> DEFINE r == t - Day * n
  <2>4. r \in 0..(Day - 1) /\ r + d \in 0..(Day - 1)
    BY <2>1, <2>2, <2>3
  <2>5. t = Day * n + r /\ t + d = Day * n + (r + d)
    BY <2>1, <2>3
  <2>6. t % Day = r /\ (t + d) % Day = r + d
    BY <2>1, <2>3, <2>4, <2>5, SlotOneQuotient
  <2>7. r >= request.hours.start /\ r + d <= request.hours.end
    BY <2>1, <2>2, <2>3
  <2> QED
    BY <2>6, <2>7 DEF WithinWorkHours
<1> QED
  BY <1>1, <1>2

-----------------------------------------------------------------------------
LEMMA SlotInitInv == SlotInit => SlotIInv
<1> SUFFICES ASSUME SlotInit PROVE SlotIInv
  OBVIOUS
<1>1. PICK s \in Starts, n \in Lengths, d \in Durations, l \in SlotLimits,
           h \in WorkHours \cup {NoHours} :
        request = [start |-> s, end |-> s + n, duration |-> d, limit |-> l, hours |-> h]
  BY DEF SlotInit
<1>2. s \in Nat /\ n \in Nat \ {0} /\ d \in Nat \ {0}
  BY SlotsAssumption
<1>3. s + n \in Nat /\ (s + n) - s = n
  BY <1>2
<1>4. request \in Requests
  BY <1>1, <1>3 DEF Requests
<1>5. SlotTypeOK
  BY <1>4 DEF SlotInit, SlotTypeOK
<1>6. OnGrid
  <2>1. at = Candidate(0)
    BY <1>1, <1>2 DEF SlotInit, Candidate
  <2> QED
    BY <2>1 DEF OnGrid
<1>7. OfferedIsFree
  BY DEF SlotInit, OfferedIsFree, Offered
<1> QED
  BY <1>5, <1>6, <1>7 DEF SlotInit, SlotIInv, SamplesTrue, PassedTaken

\* What a step does not touch.
LEMMA SlotStill ==
  ASSUME UNCHANGED <<busy, request>>
  PROVE  /\ \A t : FreeFor(t)' <=> FreeFor(t)
         /\ \A t : InsideOneDay(t)' <=> InsideOneDay(t)
         /\ \A k : Candidate(k)' = Candidate(k)
         /\ Sample' = Sample /\ SampleCount' = SampleCount
         /\ \A a : FreeSamples(a)' = FreeSamples(a)
<1>1. Sample' = Sample /\ SampleCount' = SampleCount
  BY DEF Sample, SampleCount
<1>2. \A t : FreeFor(t)' <=> FreeFor(t)
  BY <1>1 DEF FreeFor, Nobody, CoveringSampleFree, Span
<1>3. \A a : FreeSamples(a)' = FreeSamples(a)
  BY <1>1 DEF FreeSamples, Span
<1> QED
  BY <1>1, <1>2, <1>3 DEF InsideOneDay, Candidate

\* A step that finds no slot, and is not past a candidate, keeps what was found.
LEMMA NoSlotInv ==
  ASSUME SlotIInv, UNCHANGED <<busy, request, slots>>
  PROVE  OfferedIsFree' /\ Offered' = Offered
<1>1. Offered' = Offered
  BY DEF Offered
<1> QED
  BY <1>1, SlotStill DEF SlotIInv, OfferedIsFree

LEMMA AskFailsInv == SlotIInv /\ AskFails => SlotIInv'
<1> SUFFICES ASSUME SlotIInv, AskFails PROVE SlotIInv'
  OBVIOUS
<1>1. OfferedIsFree' /\ Offered' = Offered
  BY NoSlotInv DEF AskFails
<1>2. SlotTypeOK'
  BY DEF SlotIInv, AskFails, SlotTypeOK, Requests
<1>3. OnGrid'
  BY SlotStill DEF SlotIInv, AskFails, OnGrid
<1>4. SamplesTrue' /\ PassedTaken'
  BY DEF AskFails, SamplesTrue, PassedTaken
<1> QED
  BY <1>1, <1>2, <1>3, <1>4 DEF SlotIInv, AskFails

LEMMA AskInv == SlotIInv /\ Ask => SlotIInv'
<1> SUFFICES ASSUME SlotIInv, Ask PROVE SlotIInv'
  OBVIOUS
<1>1. OfferedIsFree' /\ Offered' = Offered
  BY NoSlotInv DEF Ask
<1>2. PICK n \in {0, 1, SampleCount} :
        merged' = [a \in Attendees |-> [count |-> n, free |-> FreeSamples(a)]]
  BY DEF Ask
<1>3. SlotTypeOK'
  <2>1. SampleCount \in Int
    <3>1. /\ request.start \in Nat /\ request.end \in Nat /\ Sample \in Nat \ {0}
          /\ request.start < request.end
      BY RequestType DEF SlotIInv
    <3>2. request.end - request.start + Sample - 1 \in Nat
      BY <3>1
    <3> QED
      BY <3>1, <3>2, SlotQuotient DEF SampleCount
  <2>2. \A a \in Attendees : FreeSamples(a) \in SUBSET Int
    BY <2>1 DEF FreeSamples
  <2>3. merged' \in [Attendees -> [count : Int, free : SUBSET Int]]
    BY <1>2, <2>1, <2>2
  <2> QED
    BY <2>3 DEF SlotIInv, Ask, SlotTypeOK, Requests
<1>4. OnGrid'
  BY SlotStill DEF SlotIInv, Ask, OnGrid
<1>5. SamplesTrue'
  BY <1>2, SlotStill DEF Ask, SamplesTrue
<1>6. PassedTaken'
  <2> SUFFICES ASSUME NEW k \in Nat, Candidate(k) < at
               PROVE  FALSE
    BY SlotStill DEF Ask, PassedTaken
  <2>1. /\ request.start \in Nat /\ request.duration \in Nat \ {0}
        /\ at = request.start
    BY RequestType DEF SlotIInv, Ask
  <2>2. k * request.duration \in Nat
    BY <2>1
  <2> QED
    BY <2>1, <2>2 DEF Candidate
<1> QED
  BY <1>1, <1>3, <1>4, <1>5, <1>6 DEF SlotIInv, Ask

\* The candidate at the cursor is taken only if it is good, ...
LEMMA TakenIsGood ==
  ASSUME SlotIInv, stage = "scan", Fits, AllFree, WithinWorkHours(at)
  PROVE  /\ at >= request.start /\ at + request.duration <= request.end
         /\ FreeFor(at)
         /\ (at % Day) + request.duration < Day => InsideOneDay(at)
<1>1. PICK k \in Nat : at = Candidate(k)
  BY DEF SlotIInv, OnGrid
<1>2. request.start \in Nat /\ request.duration \in Nat \ {0}
  BY RequestType DEF SlotIInv
<1>3. k * request.duration \in Nat
  BY <1>2
<1>4. at \in Nat /\ at >= request.start
  BY <1>1, <1>2, <1>3 DEF Candidate
<1>5. FreeFor(at)
  <2>1. ASSUME NEW a \in Attendees PROVE Position \in FreeSamples(a)
    BY <2>1 DEF AllFree, SlotIInv, SamplesTrue
  <2> QED
    BY <1>1, <2>1, SampleLookedUp DEF SlotIInv
<1> QED
  BY <1>4, <1>5, WithinIsInside DEF Fits, SlotIInv

\* ... and is taken if it is, with every sample answered.
LEMMA GoodIsTaken ==
  ASSUME SlotIInv, stage = "scan", Fits, Answered, FreeFor(at), InsideOneDay(at)
  PROVE  AllFree /\ WithinWorkHours(at)
<1>1. PICK k \in Nat : at = Candidate(k)
  BY DEF SlotIInv, OnGrid
<1>2. request.start \in Nat /\ request.duration \in Nat \ {0}
  BY RequestType DEF SlotIInv
<1>3. k * request.duration \in Nat
  BY <1>2
<1>4. at \in Nat
  BY <1>1, <1>2, <1>3 DEF Candidate
<1>5. Position \in 0..(SampleCount - 1) /\ SampleCount \in Nat
  BY <1>1, CandidateSample DEF SlotIInv
<1>6. AllFree
  <2> SUFFICES ASSUME NEW a \in Attendees
               PROVE  Position < merged[a].count /\ Position \in merged[a].free
    BY DEF AllFree
  <2>1. merged[a].count = SampleCount /\ merged[a].free = FreeSamples(a)
    BY DEF Answered, SlotIInv, SamplesTrue
  <2>2. Position \in FreeSamples(a)
    BY <1>1, SampleLookedUp DEF SlotIInv
  <2>3. Position < SampleCount
    BY <1>5
  <2> QED
    BY <2>1, <2>2, <2>3
<1> QED
  BY <1>4, <1>6, InsideIsWithin DEF SlotIInv

LEMMA ScanInv == SlotIInv /\ Scan => SlotIInv'
<1> SUFFICES ASSUME SlotIInv, Scan PROVE SlotIInv'
  OBVIOUS
<1> DEFINE d == request.duration
           takes == AllFree /\ WithinWorkHours(at)
<1>1. /\ request.start \in Nat /\ request.end \in Nat /\ d \in Nat \ {0}
      /\ request.limit \in Nat \ {0}
  BY RequestType DEF SlotIInv
<1>2. PICK n \in Nat : at = Candidate(n)
  BY DEF SlotIInv, OnGrid
<1>3. n * d \in Nat /\ (n + 1) * d = n * d + d
  BY <1>1
<1>4. at \in Nat /\ at' = at + d /\ at' = Candidate(n + 1)
  <2>1. at = request.start + n * d /\ Candidate(n + 1) = request.start + (n + 1) * d
    BY <1>2 DEF Candidate
  <2>2. at' = at + d
    BY DEF Scan
  <2> QED
    BY <1>1, <1>3, <2>1, <2>2
<1>5. slots \in Seq(Nat)
  BY DEF SlotIInv, SlotTypeOK
<1>6. slots' = IF takes THEN Append(slots, at) ELSE slots
  BY DEF Scan
<1>7. Offered' = IF takes THEN Offered \cup {at} ELSE Offered
  <2>1. CASE takes
    <3>1. /\ Len(slots') = Len(slots) + 1 /\ Len(slots) \in Nat
          /\ \A i \in 1..Len(slots) : slots'[i] = slots[i]
          /\ slots'[Len(slots) + 1] = at
      BY <1>4, <1>5, <1>6, <2>1
    <3> QED
      BY <2>1, <3>1 DEF Offered
  <2>2. CASE ~takes
    BY <1>6, <2>2 DEF Offered
  <2> QED
    BY <2>1, <2>2
<1>8. SlotTypeOK'
  <2>1. slots' \in Seq(Nat)
    BY <1>4, <1>5, <1>6
  <2>2. UNCHANGED <<busy, request, merged>>
    BY DEF Scan
  <2>3. stage' \in {"ask", "scan", "done"} /\ reply' \in {"none", "ok", "error"}
    BY DEF Scan, SlotIInv, SlotTypeOK
  <2> QED
    BY <2>1, <2>2, <2>3 DEF SlotIInv, SlotTypeOK, Requests
<1>9. OnGrid'
  <2>1. at' = Candidate(n + 1)'
    BY <1>4, SlotStill DEF Scan
  <2> QED
    BY <2>1 DEF OnGrid
<1>10. SamplesTrue'
  BY SlotStill DEF Scan, SlotIInv, SamplesTrue
<1>11. PassedTaken'
  <2> SUFFICES ASSUME Answered', reply' # "error",
                      NEW k \in Nat, Candidate(k) < at',
                      FreeFor(Candidate(k)), InsideOneDay(Candidate(k))
               PROVE  Candidate(k) \in Offered'
    BY SlotStill DEF Scan, PassedTaken
  <2>1. Answered
    BY SlotStill DEF Scan, Answered
  <2>2. k * d \in Nat
    BY <1>1
  <2>3. CASE k < n
    <3>1. k * d < n * d
      BY <1>1, <2>3, MultiplesInOrder
    <3>2. Candidate(k) < at
      BY <1>1, <1>2, <1>3, <2>2, <3>1 DEF Candidate
    <3>3. Candidate(k) \in Offered
      BY <2>1, <3>2 DEF SlotIInv, Scan, PassedTaken
    <3> QED
      BY <1>7, <3>3
  <2>4. CASE k = n
    BY <1>2, <1>7, <2>1, <2>4, GoodIsTaken DEF Scan
  <2>5. CASE k > n
    <3>1. k * d < (n + 1) * d
      BY <1>1, <1>3, <1>4, <2>2 DEF Candidate
    <3> QED
      BY <1>1, <2>5, <3>1, MultiplesInOrder
  <2> QED
    BY <2>3, <2>4, <2>5
<1>12. OfferedIsFree'
  <2> SUFFICES ASSUME NEW t \in Offered'
               PROVE  /\ t >= request.start /\ t + d <= request.end
                      /\ FreeFor(t)
                      /\ (t % Day) + d < Day => InsideOneDay(t)
    BY SlotStill DEF Scan, OfferedIsFree
  <2>1. CASE t \in Offered
    BY <2>1 DEF SlotIInv, OfferedIsFree
  <2>2. CASE takes /\ t = at
    BY <2>2, TakenIsGood DEF Scan
  <2> QED
    BY <1>7, <2>1, <2>2
<1>13. reply' = "ok" => Len(slots') >= request.limit
  BY DEF Scan, SlotIInv
<1> QED
  BY <1>8, <1>9, <1>10, <1>11, <1>12, <1>13 DEF SlotIInv, Scan

LEMMA ScanEndsInv == SlotIInv /\ ScanEnds => SlotIInv'
<1> SUFFICES ASSUME SlotIInv, ScanEnds PROVE SlotIInv'
  OBVIOUS
<1>1. OfferedIsFree' /\ Offered' = Offered
  BY NoSlotInv DEF ScanEnds
<1>2. SlotTypeOK'
  BY DEF SlotIInv, ScanEnds, SlotTypeOK, Requests
<1>3. OnGrid'
  BY SlotStill DEF SlotIInv, ScanEnds, OnGrid
<1>4. SamplesTrue'
  BY DEF ScanEnds, SamplesTrue
<1>5. Answered' <=> Answered
  BY SlotStill DEF ScanEnds, Answered
<1>6. PassedTaken'
  BY <1>1, <1>5, SlotStill DEF ScanEnds, SlotIInv, PassedTaken
<1>7. ~Fits'
  BY DEF ScanEnds, Fits
<1> QED
  BY <1>1, <1>2, <1>3, <1>4, <1>6, <1>7 DEF SlotIInv, ScanEnds

LEMMA SlotStutterInv == SlotIInv /\ UNCHANGED slotVars => SlotIInv'
<1> SUFFICES ASSUME SlotIInv, UNCHANGED slotVars PROVE SlotIInv'
  OBVIOUS
<1>1. UNCHANGED <<busy, request, merged, stage, at, slots, reply>>
  BY DEF slotVars
<1>2. OfferedIsFree' /\ Offered' = Offered
  BY <1>1, NoSlotInv
<1>3. SlotTypeOK'
  BY <1>1 DEF SlotIInv, SlotTypeOK, Requests
<1>4. OnGrid' /\ SamplesTrue'
  BY <1>1, SlotStill DEF SlotIInv, OnGrid, SamplesTrue
<1>5. Answered' <=> Answered
  BY <1>1, SlotStill DEF Answered
<1>6. PassedTaken'
  BY <1>1, <1>2, <1>5, SlotStill DEF SlotIInv, PassedTaken
<1>7. Fits' <=> Fits
  BY <1>1 DEF Fits
<1> QED
  BY <1>1, <1>2, <1>3, <1>4, <1>6, <1>7 DEF SlotIInv

LEMMA SlotInductive == SlotSpec => []SlotIInv
<1>1. SlotIInv /\ [SlotNext]_slotVars => SlotIInv'
  BY AskFailsInv, AskInv, ScanInv, ScanEndsInv, SlotStutterInv DEF SlotNext
<1> QED
  BY <1>1, SlotInitInv, PTL DEF SlotSpec

\* No slot that find_free_slots offers is busy, or outside the window or the
\* work hours, whatever the calendars, the window, the duration and the hours:
\* the arithmetic of the sample positions is right for all of them, also for
\* slots shorter than a sample, which go by the sample that covers their start.
THEOREM OfferedSlotsAreFree == SlotSpec => []OfferedIsFree
<1>1. SlotIInv => OfferedIsFree
  BY DEF SlotIInv
<1> QED
  BY <1>1, SlotInductive, PTL

LEMMA CompleteAtTheEnd == SlotIInv => NothingMissed
<1> SUFFICES ASSUME SlotIInv PROVE NothingMissed
  OBVIOUS
<1> DEFINE d == request.duration
           L == request.end - request.start
           count == L \div d
<1>1. /\ request.start \in Nat /\ request.end \in Nat /\ d \in Nat \ {0}
      /\ request.limit \in Nat \ {0} /\ L \in Nat
  BY RequestType DEF SlotIInv
<1> SUFFICES ASSUME reply = "ok", Len(slots) < request.limit, Answered,
                    NEW k \in 0..(count - 1),
                    FreeFor(Candidate(k)), InsideOneDay(Candidate(k))
             PROVE  Candidate(k) \in Offered
  BY DEF NothingMissed, Answered, Candidate
<1>2. count \in Nat /\ d * count <= L
  BY <1>1, SlotQuotient
<1> HIDE DEF count
<1> HIDE DEF d
<1>3. k \in Nat /\ k * d \in Nat /\ (k + 1) * d = k * d + d
  BY <1>1, <1>2
<1>4. (k + 1) * d <= count * d
  <2>1. ~(count < k + 1)
    BY <1>2
  <2>2. ~(count * d < (k + 1) * d)
    BY <1>1, <1>2, <1>3, <2>1, MultiplesInOrder
  <2> QED
    BY <1>1, <1>2, <1>3, <2>2
<1>5. Candidate(k) + d <= request.end
  <2>1. Candidate(k) = request.start + k * d
    BY DEF Candidate, d
  <2>2. d * count = count * d
    BY <1>1, <1>2
  <2>3. k * d + d <= L
    BY <1>1, <1>2, <1>3, <1>4, <2>2, SMTT(30)
  <2> QED
    BY <1>1, <1>3, <2>1, <2>3
<1>6. ~Fits /\ stage # "ask"
  <2>1. Len(slots) \in Nat
    BY DEF SlotIInv, SlotTypeOK
  <2> QED
    BY <1>1, <2>1 DEF SlotIInv
<1>7. PICK n \in Nat : at = Candidate(n)
  BY DEF SlotIInv, OnGrid
<1>8. Candidate(k) < at
  <2>1. n * d \in Nat
    BY <1>1
  <2>2. at = request.start + n * d /\ Candidate(k) = request.start + k * d
    BY <1>7 DEF Candidate, d
  <2>3. request.end < at + d
    BY <1>1, <1>6, <2>1, <2>2, SMTT(30) DEF Fits, d
  <2> QED
    BY <1>1, <1>3, <1>5, <2>1, <2>2, <2>3, SMTT(30)
<1> QED
  BY <1>6, <1>8 DEF SlotIInv, PassedTaken

\* With every sample answered and the limit not reached, find_free_slots has
\* offered every candidate that is free and inside the work hours of one day.
THEOREM NoSlotMissed == SlotSpec => []NothingMissed
BY SlotInductive, CompleteAtTheEnd, PTL

-----------------------------------------------------------------------------
\* EventEditing: the tools that change an event.

\* The rank of a place among others: from 1 to their number, each rank once.
Rank(places, i) == Cardinality(places \cap 1..i)

LEMMA RanksOfPlaces ==
  ASSUME NEW n \in Nat, NEW places \in SUBSET (1..n)
  PROVE  /\ IsFiniteSet(places) /\ Cardinality(places) \in Nat
         /\ \A i \in places : Rank(places, i) \in 1..Cardinality(places)
         /\ \A i, k \in places : i < k => Rank(places, i) < Rank(places, k)
         /\ \A j \in 1..Cardinality(places) : \E i \in places : Rank(places, i) = j
<1>1. IsFiniteSet(places) /\ Cardinality(places) \in Nat
  <2>1. IsFiniteSet(1..n)
    BY FS_Interval
  <2>2. IsFiniteSet(places)
    BY <2>1, FS_Subset
  <2> QED
    BY <2>2, FS_CardinalityType
<1>2. ASSUME NEW i
      PROVE  /\ IsFiniteSet(places \cap 1..i) /\ Rank(places, i) \in Nat
             /\ Rank(places, i) <= Cardinality(places)
  BY <1>1, FS_Subset, FS_CardinalityType, places \cap 1..i \in SUBSET places DEF Rank
<1>3. ASSUME NEW i \in places PROVE Rank(places, i) \in 1..Cardinality(places)
  <2>1. i \in places \cap 1..i
    OBVIOUS
  <2>2. Rank(places, i) # 0
    BY <1>2, <2>1, FS_EmptySet DEF Rank
  <2>3. Rank(places, i) \in Nat /\ Rank(places, i) <= Cardinality(places)
    BY <1>2
  <2> QED
    BY <1>1, <2>2, <2>3
<1>4. ASSUME NEW i \in 0..n, i + 1 \in places
      PROVE  Rank(places, i + 1) = Rank(places, i) + 1
  <2>1. places \cap 1..(i + 1) = (places \cap 1..i) \cup {i + 1}
    BY <1>4
  <2>2. i + 1 \notin places \cap 1..i
    OBVIOUS
  <2> QED
    BY <1>2, <2>1, <2>2, FS_AddElement DEF Rank
<1>5. ASSUME NEW i \in places, NEW k \in places, i < k
      PROVE  Rank(places, i) < Rank(places, k)
  <2> DEFINE S == places \cap 1..i
             T == places \cap 1..k
  <2>1. S \cup {k} \in SUBSET T /\ k \notin S
    BY <1>5
  <2>2. IsFiniteSet(S) /\ IsFiniteSet(T) /\ Cardinality(S) \in Nat /\ Cardinality(T) \in Nat
    BY <1>2 DEF Rank
  <2> HIDE DEF S, T
  <2>3. Cardinality(S \cup {k}) = Cardinality(S) + 1 /\ Cardinality(S \cup {k}) <= Cardinality(T)
    BY <2>1, <2>2, FS_AddElement, FS_Subset
  <2>4. Cardinality(S) < Cardinality(T)
    BY <2>2, <2>3
  <2> QED
    BY <2>4 DEF S, T, Rank
<1>6. ASSUME NEW j \in 1..Cardinality(places) PROVE \E i \in places : Rank(places, i) = j
  <2> DEFINE Reached == {i \in 0..n : Rank(places, i) >= j}
  <2>1. n \in Reached
    <3>1. places \cap 1..n = places
      OBVIOUS
    <3> QED
      BY <1>1, <3>1 DEF Rank
  <2>2. PICK i \in Reached : \A m \in Reached : i <= m
    <3>1. Reached \in SUBSET Nat /\ Reached # {}
      BY <2>1
    <3> HIDE DEF Reached
    <3> QED
      BY <3>1, LeastNumber
  <2>3. i \in 0..n /\ Rank(places, i) >= j
    OBVIOUS
  <2>4. i # 0
    <3>1. Rank(places, 0) = 0
      BY FS_EmptySet, places \cap 1..0 = {} DEF Rank
    <3> QED
      BY <2>3, <3>1
  <2> DEFINE h == i - 1
  <2>5. h \in 0..n /\ h + 1 = i /\ ~(i <= h)
    BY <2>3, <2>4
  <2>6. ~(Rank(places, h) >= j)
    <3>1. h \notin Reached
      BY <2>2, <2>5, Zenon
    <3> QED
      BY <2>5, <3>1
  <2> HIDE DEF h
  <2>7. i \in places
    <3>1. CASE h + 1 \notin places
      <4>1. places \cap 1..(h + 1) = places \cap 1..h
        BY <2>5, <3>1
      <4> QED
        BY <2>3, <2>5, <2>6, <4>1 DEF Rank
    <3> QED
      BY <2>5, <3>1
  <2>8. Rank(places, i) = Rank(places, h) + 1
    BY <1>4, <2>5, <2>7
  <2>9. Rank(places, i) = j
    <3>1. Rank(places, h) \in Nat /\ Rank(places, i) \in Nat /\ j \in Nat
      <4>1. Rank(places, h) \in Nat
        BY <1>2, Zenon
      <4>2. Rank(places, i) \in Nat
        BY <1>2, Zenon
      <4>3. j \in Nat
        BY <1>1
      <4> QED
        BY <4>1, <4>2, <4>3
    <3>2. \A x, y, z \in Nat : y >= z /\ ~(x >= z) /\ y = x + 1 => y = z
      OBVIOUS
    <3> QED
      BY <2>3, <2>6, <2>8, <3>1, <3>2, Zenon
  <2> QED
    BY <2>7, <2>9
<1> QED
  BY <1>1, <1>3, <1>5, <1>6

\* The elements at some places of a list: as many as there are places, each the
\* one at another place.
LEMMA ListAtPlaces ==
  ASSUME NEW S, NEW list \in Seq(S), NEW places \in SUBSET (DOMAIN list)
  PROVE  /\ AtPlaces(list, places) \in Seq(S)
         /\ Len(AtPlaces(list, places)) = Cardinality(places)
         /\ IsFiniteSet(places) /\ Cardinality(places) \in Nat
         /\ \E place \in Bijection(1..Cardinality(places), places) :
              \A j \in 1..Cardinality(places) : AtPlaces(list, places)[j] = list[place[j]]
<1> DEFINE n == Len(list)
           c == Cardinality(places)
           place == [j \in 1..c |-> CHOOSE i \in places : Rank(places, i) = j]
           a == AtPlaces(list, places)
<1>1. n \in Nat /\ places \in SUBSET (1..n)
  OBVIOUS
<1>2. /\ IsFiniteSet(places) /\ c \in Nat
      /\ \A i \in places : Rank(places, i) \in 1..c
      /\ \A i, k \in places : i < k => Rank(places, i) < Rank(places, k)
      /\ \A j \in 1..c : \E i \in places : Rank(places, i) = j
  <2> HIDE DEF n
  <2> QED
    BY <1>1, RanksOfPlaces
<1> HIDE DEF c
<1>3. \A j \in 1..c : place[j] \in places /\ Rank(places, place[j]) = j
  <2> SUFFICES ASSUME NEW j \in 1..c PROVE place[j] \in places /\ Rank(places, place[j]) = j
    OBVIOUS
  <2>1. \E i \in places : Rank(places, i) = j
    BY <1>2
  <2>2. place[j] = CHOOSE i \in places : Rank(places, i) = j
    OBVIOUS
  <2> HIDE DEF place
  <2> QED
    BY <2>1, <2>2
<1>4. \A j \in 1..c : a[j] = list[place[j]]
  BY DEF AtPlaces, Rank, c
<1>5. place \in [1..c -> places]
  <2>1. \A j \in 1..c : (CHOOSE i \in places : Rank(places, i) = j) \in places
    BY <1>2
  <2> QED
    BY <2>1
<1>6. place \in Bijection(1..c, places)
  <2> HIDE DEF place
  <2>1. \A i, j \in 1..c : place[i] = place[j] => i = j
    BY <1>3
  <2>2. \A i \in places : \E j \in 1..c : place[j] = i
    <3> SUFFICES ASSUME NEW i \in places PROVE \E j \in 1..c : place[j] = i
      OBVIOUS
    <3> DEFINE j == Rank(places, i)
    <3>1. j \in 1..c /\ place[j] \in places /\ Rank(places, place[j]) = Rank(places, i)
      BY <1>2, <1>3
    <3>2. place[j] \in Int /\ i \in Int
      BY <1>1, <3>1
    <3>3. ~(place[j] < i) /\ ~(i < place[j])
      <4>1. /\ place[j] < i => Rank(places, place[j]) < Rank(places, i)
            /\ i < place[j] => Rank(places, i) < Rank(places, place[j])
        BY <1>2, <3>1
      <4>2. Rank(places, i) \in Int
        BY <1>2
      <4> QED
        BY <3>1, <4>1, <4>2
    <3>4. place[j] = i
      BY <3>2, <3>3
    <3> QED
      BY <3>1, <3>4
  <2> QED
    BY <1>5, <2>1, <2>2 DEF Bijection, Injection, Surjection, IsInjective
<1>7. a \in Seq(S) /\ Len(a) = c
  <2>1. a = [j \in 1..c |-> list[place[j]]]
    BY DEF AtPlaces, Rank, c
  <2> HIDE DEF a
  <2>2. \A j \in 1..c : list[place[j]] \in S
    <3> HIDE DEF place
    <3> QED
      BY <1>1, <1>3
  <2> HIDE DEF place
  <2> QED
    BY <1>2, <2>1, <2>2
<1> HIDE DEF a, place
<1> QED
  BY <1>2, <1>4, <1>6, <1>7 DEF a, c

-----------------------------------------------------------------------------
\* How often somebody is listed.
LEMMA TimesAreNumbers ==
  ASSUME NEW S, NEW list \in Seq(S), NEW p
  PROVE  /\ Times(list, p) \in Nat
         /\ IsFiniteSet({i \in 1..Len(list) : list[i] = p})
         /\ p \in ToSet(list) <=> Times(list, p) # 0
<1> DEFINE T == {i \in 1..Len(list) : list[i] = p}
<1>1. IsFiniteSet(1..Len(list)) /\ T \in SUBSET (1..Len(list))
  BY FS_Interval
<1>2. IsFiniteSet(T) /\ Cardinality(T) \in Nat
  BY <1>1, FS_Subset, FS_CardinalityType
<1>3. Cardinality(T) = 0 <=> T = {}
  BY <1>2, FS_EmptySet
<1>4. p \in ToSet(list) <=> T # {}
  BY DEF ToSet
<1> QED
  BY <1>2, <1>3, <1>4 DEF Times

LEMMA TimesAtPlaces ==
  ASSUME NEW S, NEW list \in Seq(S), NEW places \in SUBSET (DOMAIN list), NEW p
  PROVE  Times(AtPlaces(list, places), p) = Cardinality({i \in places : list[i] = p})
<1> DEFINE a == AtPlaces(list, places)
           c == Cardinality(places)
           A == {j \in 1..c : a[j] = p}
           B == {i \in places : list[i] = p}
<1>1. /\ Len(a) = c /\ a \in Seq(S)
      /\ IsFiniteSet(places) /\ c \in Nat
      /\ \E place \in Bijection(1..c, places) : \A j \in 1..c : a[j] = list[place[j]]
  BY ListAtPlaces
<1>2. PICK place \in Bijection(1..c, places) : \A j \in 1..c : a[j] = list[place[j]]
  BY <1>1
<1>3. /\ place \in [1..c -> places]
      /\ \A i, j \in 1..c : place[i] = place[j] => i = j
      /\ \A i \in places : \E j \in 1..c : place[j] = i
  BY DEF Bijection, Injection, Surjection, IsInjective
<1>4. Times(a, p) = Cardinality(A) /\ IsFiniteSet(A)
  BY <1>1, TimesAreNumbers DEF Times
<1> HIDE DEF a, c
<1> DEFINE g == [j \in A |-> place[j]]
<1>5. g \in [A -> B] /\ \A j \in A : g[j] = place[j]
  BY <1>2, <1>3
<1>6. g \in Bijection(A, B)
  <2> HIDE DEF g
  <2>1. \A i, j \in A : g[i] = g[j] => i = j
    BY <1>3, <1>5
  <2>2. \A i \in B : \E j \in A : g[j] = i
    BY <1>2, <1>3, <1>5
  <2> HIDE DEF A, B
  <2> QED
    BY <1>5, <2>1, <2>2 DEF Bijection, Injection, Surjection, IsInjective
<1>7. Cardinality(A) = Cardinality(B)
  <2> HIDE DEF A, B, g
  <2> QED
    BY <1>4, <1>6, FS_Bijection DEF ExistsBijection
<1> QED
  BY <1>4, <1>7 DEF a

LEMMA TimesJoined ==
  ASSUME NEW S, NEW a \in Seq(S), NEW b \in Seq(S), NEW p
  PROVE  Times(a \o b, p) = Times(a, p) + Times(b, p)
<1> DEFINE l == Len(a)
           A == {i \in 1..Len(a) : a[i] = p}
           B == {i \in 1..Len(b) : b[i] = p}
           C == {i \in 1..Len(a \o b) : (a \o b)[i] = p}
           D == C \ A
           g == [i \in B |-> l + i]
<1>1. /\ IsFiniteSet(A) /\ IsFiniteSet(B) /\ Cardinality(A) = Times(a, p)
      /\ Cardinality(B) = Times(b, p) /\ Times(a, p) \in Nat /\ Times(b, p) \in Nat
  BY TimesAreNumbers DEF Times
<1>2. /\ l \in Nat /\ Len(b) \in Nat /\ Len(a \o b) = l + Len(b)
      /\ \A i \in 1..l : (a \o b)[i] = a[i]
      /\ \A i \in 1..Len(b) : (a \o b)[l + i] = b[i]
  OBVIOUS
<1>3. C = A \cup D /\ A \cap D = {}
  BY <1>2
<1>4. g \in [B -> D] /\ \A i \in B : g[i] = l + i
  BY <1>2
<1>5. \A k \in D : \E i \in B : g[i] = k
  <2> SUFFICES ASSUME NEW k \in D PROVE \E i \in B : g[i] = k
    OBVIOUS
  <2>1. k \in 1..(l + Len(b)) /\ (a \o b)[k] = p /\ k \notin 1..l
    BY <1>2
  <2>2. k - l \in 1..Len(b) /\ l + (k - l) = k
    BY <1>2, <2>1
  <2>3. b[k - l] = p
    BY <1>2, <2>1, <2>2
  <2> QED
    BY <1>4, <2>2, <2>3
<1>6. \A i, j \in B : g[i] = g[j] => i = j
  BY <1>2, <1>4
<1>7. Times(a \o b, p) = Cardinality(C)
  BY DEF Times
<1> HIDE DEF A, B, C, D, g
<1>8. g \in Bijection(B, D)
  BY <1>4, <1>5, <1>6 DEF Bijection, Injection, Surjection, IsInjective
<1>9. IsFiniteSet(D) /\ Cardinality(D) = Cardinality(B)
  BY <1>1, <1>8, FS_Bijection DEF ExistsBijection
<1>10. Cardinality(A \cup D) = Cardinality(A) + Cardinality(D) - Cardinality(A \cap D)
  BY <1>1, <1>9, FS_Union
<1>11. Cardinality(A \cap D) = 0
  BY <1>3, FS_EmptySet
<1> QED
  BY <1>1, <1>3, <1>7, <1>9, <1>10, <1>11

-----------------------------------------------------------------------------
\* The attendees that are left, and those that are added.
LEMMA ListsChanged ==
  ASSUME NEW S, NEW r, r.add \in Seq(S), r.remove \in Seq(S),
         NEW e, e.required \in Seq(S), e.optional \in Seq(S)
  PROVE  /\ Remaining(e.required, r) \in Seq(S) /\ Remaining(e.optional, r) \in Seq(S)
         /\ Newcomers(r, e) \in Seq(S) /\ Invited(r, e) \in Seq(S)
         /\ r.add = <<>> => Invited(r, e) = Remaining(e.required, r)
<1>1. ASSUME NEW list \in Seq(S) PROVE Remaining(list, r) \in Seq(S)
  <2>1. {i \in DOMAIN list : list[i] \notin ToSet(r.remove)} \in SUBSET (DOMAIN list)
    OBVIOUS
  <2> QED
    BY <2>1, ListAtPlaces DEF Remaining
<1> DEFINE new == {i \in DOMAIN r.add : /\ r.add[i] \notin Known(r, e)
                                        /\ \A j \in 1..(i - 1) : r.add[j] # r.add[i]}
<1>2. Newcomers(r, e) = AtPlaces(r.add, new) /\ new \in SUBSET (DOMAIN r.add)
  BY DEF Newcomers
<1> HIDE DEF new
<1>3. Newcomers(r, e) \in Seq(S) /\ Len(Newcomers(r, e)) = Cardinality(new)
  BY <1>2, ListAtPlaces
<1>4. ASSUME r.add = <<>> PROVE Newcomers(r, e) = <<>>
  <2>1. new = {}
    BY <1>2, <1>4
  <2>2. Len(Newcomers(r, e)) = 0
    BY <1>3, <2>1, FS_EmptySet
  <2> QED
    BY <1>3, <2>2
<1>5. Invited(r, e) \in Seq(S)
  BY <1>1, <1>3 DEF Invited
<1>6. r.add = <<>> => Invited(r, e) = Remaining(e.required, r)
  <2>1. \A q \in Seq(S) : q \o <<>> = q
    OBVIOUS
  <2> QED
    BY <1>1, <1>4, <2>1 DEF Invited
<1> QED
  BY <1>1, <1>3, <1>5, <1>6

LEMMA TimesRemaining ==
  ASSUME NEW S, NEW r, r.remove \in Seq(S), NEW list \in Seq(S), NEW p
  PROVE  Times(Remaining(list, r), p) = IF p \in ToSet(r.remove) THEN 0 ELSE Times(list, p)
<1> DEFINE places == {i \in DOMAIN list : list[i] \notin ToSet(r.remove)}
           T == {i \in places : list[i] = p}
<1>1. Times(Remaining(list, r), p) = Cardinality(T)
  BY TimesAtPlaces, places \in SUBSET (DOMAIN list) DEF Remaining
<1>2. CASE p \in ToSet(r.remove)
  <2>1. T = {}
    BY <1>2
  <2> QED
    BY <1>1, <1>2, <2>1, FS_EmptySet
<1>3. CASE p \notin ToSet(r.remove)
  <2>1. T = {i \in 1..Len(list) : list[i] = p}
    BY <1>3
  <2> QED
    BY <1>1, <1>3, <2>1 DEF Times
<1> QED
  BY <1>2, <1>3

LEMMA TimesNewcomers ==
  ASSUME NEW S, NEW r, r.add \in Seq(S), NEW e, NEW p
  PROVE  Times(Newcomers(r, e), p) =
           IF p \in ToSet(r.add) /\ p \notin Known(r, e) THEN 1 ELSE 0
<1> DEFINE add == r.add
           new == {i \in DOMAIN add : /\ add[i] \notin Known(r, e)
                                      /\ \A j \in 1..(i - 1) : add[j] # add[i]}
           T == {i \in new : add[i] = p}
<1>1. Times(Newcomers(r, e), p) = Cardinality(T)
  BY TimesAtPlaces, new \in SUBSET (DOMAIN add) DEF Newcomers
<1>2. DOMAIN add = 1..Len(add) /\ Len(add) \in Nat
  OBVIOUS
<1> HIDE DEF add
<1>3. CASE p \in ToSet(add) /\ p \notin Known(r, e)
  <2> DEFINE Named == {i \in 1..Len(add) : add[i] = p}
  <2>1. Named # {} /\ Named \in SUBSET Nat
    BY <1>2, <1>3 DEF ToSet
  <2>2. PICK i \in Named : \A k \in Named : i <= k
    <3> HIDE DEF Named
    <3> QED
      BY <2>1, LeastNumber
  <2>3. \A j \in 1..(i - 1) : add[j] # add[i]
    <3> SUFFICES ASSUME NEW j \in 1..(i - 1), add[j] = add[i] PROVE FALSE
      OBVIOUS
    <3>1. j \in Named /\ ~(i <= j)
      BY <1>2
    <3> QED
      BY <2>2, <3>1, Zenon
  <2>4. i \in T
    BY <1>2, <1>3, <2>3
  <2>5. ASSUME NEW k \in T PROVE k = i
    <3>1. k \in Named /\ \A j \in 1..(k - 1) : add[j] # add[k]
      BY <1>2
    <3>2. i <= k
      BY <2>2, <3>1
    <3>3. ~(i < k)
      <4>1. i < k => i \in 1..(k - 1)
        BY <1>2, <3>1
      <4> QED
        BY <3>1, <4>1
    <3> QED
      BY <1>2, <3>1, <3>2, <3>3
  <2>6. T = {i}
    <3> HIDE DEF T
    <3> QED
      BY <2>4, <2>5
  <2> QED
    BY <1>1, <1>3, <2>6, FS_Singleton DEF add
<1>4. CASE ~(p \in ToSet(add) /\ p \notin Known(r, e))
  <2>1. T = {}
    BY <1>2, <1>4 DEF ToSet
  <2> QED
    BY <1>1, <1>4, <2>1, FS_EmptySet DEF add
<1> QED
  BY <1>3, <1>4 DEF add

\* How often a person is to be listed after a change.
TimesAsked(r, e, p) ==
  IF p \in ToSet(r.remove) THEN 0
  ELSE LET n == Times(Attended(e), p)
       IN  IF n = 0 /\ p \in ToSet(r.add) THEN 1 ELSE n

\* After the change who was removed is not listed, who was added is, and nobody
\* is listed more often than before or once.
LEMMA ChangedAsAsked ==
  ASSUME NEW S, NEW r, r.add \in Seq(S), r.remove \in Seq(S),
         ToSet(r.add) \cap ToSet(r.remove) = {},
         NEW e, e.required \in Seq(S), e.optional \in Seq(S), NEW p
  PROVE  Times(Invited(r, e) \o Remaining(e.optional, r), p) = TimesAsked(r, e, p)
<1> DEFINE q == Remaining(e.required, r)
           o == Remaining(e.optional, r)
           x == Newcomers(r, e)
           tq == Times(e.required, p)
           to == Times(e.optional, p)
<1>1. q \in Seq(S) /\ o \in Seq(S) /\ x \in Seq(S) /\ q \o x \in Seq(S)
  BY ListsChanged DEF Invited
<1>2. /\ Times(q, p) = IF p \in ToSet(r.remove) THEN 0 ELSE tq
      /\ Times(o, p) = IF p \in ToSet(r.remove) THEN 0 ELSE to
      /\ tq \in Nat /\ to \in Nat
      /\ p \in ToSet(q) <=> Times(q, p) # 0
      /\ p \in ToSet(o) <=> Times(o, p) # 0
  <2>1. Times(q, p) = IF p \in ToSet(r.remove) THEN 0 ELSE tq
    BY TimesRemaining
  <2>2. Times(o, p) = IF p \in ToSet(r.remove) THEN 0 ELSE to
    BY TimesRemaining
  <2>3. tq \in Nat /\ to \in Nat
    BY TimesAreNumbers
  <2> HIDE DEF q, o
  <2>4. p \in ToSet(q) <=> Times(q, p) # 0
    BY <1>1, TimesAreNumbers
  <2>5. p \in ToSet(o) <=> Times(o, p) # 0
    BY <1>1, TimesAreNumbers
  <2> QED
    BY <2>1, <2>2, <2>3, <2>4, <2>5
<1>3. Times(x, p) = IF p \in ToSet(r.add) /\ p \notin ToSet(q) /\ p \notin ToSet(o)
                    THEN 1 ELSE 0
  BY TimesNewcomers DEF Known
<1>4. Times(Attended(e), p) = tq + to
  BY TimesJoined DEF Attended
<1>5. Invited(r, e) = q \o x
  BY DEF Invited
<1> HIDE DEF q, o, x, tq, to
<1>6. Times((q \o x) \o o, p) = (Times(q, p) + Times(x, p)) + Times(o, p)
  <2>1. Times(q \o x, p) = Times(q, p) + Times(x, p)
    BY <1>1, TimesJoined
  <2>2. Times((q \o x) \o o, p) = Times(q \o x, p) + Times(o, p)
    BY <1>1, TimesJoined
  <2> QED
    BY <2>1, <2>2
<1>7. (Times(q, p) + Times(x, p)) + Times(o, p) =
         IF p \in ToSet(r.remove) THEN 0
         ELSE IF tq + to = 0 /\ p \in ToSet(r.add) THEN 1 ELSE tq + to
  <2>1. CASE p \in ToSet(r.remove)
    <3>1. p \notin ToSet(r.add)
      BY <2>1
    <3> QED
      BY <1>2, <1>3, <2>1, <3>1
  <2>2. CASE p \notin ToSet(r.remove)
    <3>1. Times(q, p) = tq /\ Times(o, p) = to
      BY <1>2, <2>2
    <3>2. tq + to = 0 <=> tq = 0 /\ to = 0
      BY <1>2
    <3> QED
      BY <1>2, <1>3, <2>2, <3>1, <3>2
  <2> QED
    BY <2>1, <2>2
<1> QED
  BY <1>4, <1>5, <1>6, <1>7 DEF o, TimesAsked

\* If a list changes, the attendees are not the same as before.
LEMMA ChangeShows ==
  ASSUME NEW S, NEW r, r.add \in Seq(S), r.remove \in Seq(S),
         ToSet(r.add) \cap ToSet(r.remove) = {},
         NEW e, e.required \in Seq(S), e.optional \in Seq(S),
         Invited(r, e) \o Remaining(e.optional, r) = Attended(e)
  PROVE  Invited(r, e) = e.required /\ Remaining(e.optional, r) = e.optional
<1>1. \A p : p \in ToSet(r.remove) => Times(e.required, p) = 0 /\ Times(e.optional, p) = 0
  <2> SUFFICES ASSUME NEW p, p \in ToSet(r.remove)
               PROVE  Times(e.required, p) = 0 /\ Times(e.optional, p) = 0
    OBVIOUS
  <2>1. Times(Attended(e), p) = 0
    <3>1. Times(Invited(r, e) \o Remaining(e.optional, r), p) = TimesAsked(r, e, p)
      BY ChangedAsAsked
    <3>2. TimesAsked(r, e, p) = 0
      BY DEF TimesAsked
    <3> QED
      BY <3>1, <3>2
  <2>2. Times(Attended(e), p) = Times(e.required, p) + Times(e.optional, p)
    BY TimesJoined DEF Attended
  <2>3. Times(e.required, p) \in Nat /\ Times(e.optional, p) \in Nat
    BY TimesAreNumbers
  <2> QED
    BY <2>1, <2>2, <2>3
<1>2. ASSUME NEW list \in Seq(S), \A p : p \in ToSet(r.remove) => Times(list, p) = 0
      PROVE  Remaining(list, r) = list
  <2> DEFINE places == {i \in DOMAIN list : list[i] \notin ToSet(r.remove)}
             c == Len(list)
             rest == Remaining(list, r)
  <2>1. places = 1..c /\ c \in Nat /\ DOMAIN list = 1..c
    <3>1. \A i \in 1..Len(list) : list[i] \notin ToSet(r.remove)
      <4> SUFFICES ASSUME NEW i \in 1..Len(list), list[i] \in ToSet(r.remove) PROVE FALSE
        OBVIOUS
      <4>1. list[i] \in ToSet(list)
        BY DEF ToSet
      <4>2. Times(list, list[i]) # 0
        BY <4>1, TimesAreNumbers
      <4> QED
        BY <1>2, <4>2
    <3> QED
      BY <3>1
  <2>2. rest \in Seq(S)
    BY ListAtPlaces, places \in SUBSET (DOMAIN list) DEF Remaining
  <2>3. rest = AtPlaces(list, 1..c)
    BY <2>1 DEF Remaining
  <2>4. \A j \in 1..c : Cardinality((1..c) \cap 1..j) = j
    <3> SUFFICES ASSUME NEW j \in 1..c PROVE Cardinality((1..c) \cap 1..j) = j
      OBVIOUS
    <3>1. (1..c) \cap 1..j = 1..j
      BY <2>1
    <3>2. Cardinality(1..j) = j
      BY <2>1, FS_Interval
    <3> QED
      BY <3>1, <3>2
  <2>5. Cardinality(1..c) = c
    <3>1. c \in Nat
      BY <2>1
    <3> HIDE DEF c
    <3> QED
      BY <3>1, FS_Interval
  <2>6. rest = [j \in 1..c |-> list[CHOOSE i \in 1..c : Cardinality((1..c) \cap 1..i) = j]]
    BY <2>3, <2>5 DEF AtPlaces
  <2>7. \A j \in 1..c : (CHOOSE i \in 1..c : Cardinality((1..c) \cap 1..i) = j) = j
    <3> SUFFICES ASSUME NEW j \in 1..c
                 PROVE  (CHOOSE i \in 1..c : Cardinality((1..c) \cap 1..i) = j) = j
      OBVIOUS
    <3> HIDE DEF c
    <3>1. \E i \in 1..c : Cardinality((1..c) \cap 1..i) = j
      BY <2>4
    <3> QED
      BY <2>4, <3>1
  <2>8. \A j \in 1..c : rest[j] = list[j]
    <3> HIDE DEF rest
    <3> QED
      BY <2>6, <2>7
  <2>9. Len(rest) = c
    <3> HIDE DEF rest
    <3> QED
      BY <2>1, <2>6
  <2> HIDE DEF rest
  <2>10. rest = list
    BY <2>1, <2>2, <2>8, <2>9, SeqEqual
  <2> QED
    BY <2>10 DEF rest
<1>3. Remaining(e.required, r) = e.required /\ Remaining(e.optional, r) = e.optional
  BY <1>1, <1>2
<1>4. Newcomers(r, e) \in Seq(S) /\ Invited(r, e) = e.required \o Newcomers(r, e)
  BY <1>3, ListsChanged DEF Invited
<1>5. Newcomers(r, e) = <<>>
  <2> DEFINE x == Newcomers(r, e)
             a == e.required
             b == e.optional
  <2>1. (a \o x) \o b = a \o b
    BY <1>3, <1>4 DEF Attended
  <2>2. x \in Seq(S) /\ a \in Seq(S) /\ b \in Seq(S)
    BY <1>4
  <2> HIDE DEF x, a, b
  <2>3. /\ Len((a \o x) \o b) = (Len(a) + Len(x)) + Len(b) /\ Len(a \o b) = Len(a) + Len(b)
        /\ Len(a) \in Nat /\ Len(x) \in Nat /\ Len(b) \in Nat
    BY <2>2
  <2>4. Len(x) = 0
    BY <2>1, <2>3
  <2>5. x = <<>>
    BY <2>2, <2>4
  <2> QED
    BY <2>5 DEF x
<1>6. Invited(r, e) = e.required
  BY <1>4, <1>5
<1> QED
  BY <1>3, <1>6

-----------------------------------------------------------------------------
\* Midnights.
LEMMA MidnightOrder ==
  ASSUME NEW t \in Nat
  PROVE  /\ Midnight(t) \in Nat
         /\ Midnight(Midnight(t)) = Midnight(t)
         /\ Midnight(Midnight(t) + 2) = Midnight(t) + 2
         /\ t % 2 = 0 => t = Midnight(t)
  BY DEF Midnight

LEMMA BoundOfNumbers ==
  ASSUME NEW given \in Nat \cup {Omitted}, NEW old \in Nat, NEW e
  PROVE  Bound(given, old, e) \in Nat /\ (given = Omitted => Bound(given, old, e) = old)
<1>1. CASE given = Omitted
  BY <1>1 DEF Bound
<1>2. CASE given # Omitted
  <2>1. given \in Nat /\ Midnight(given) \in Nat
    BY <1>2, MidnightOrder
  <2> QED
    BY <1>2, <2>1 DEF Bound
<1> QED
  BY <1>1, <1>2

LEMMA EventInitially ==
  ASSUME EventInit
  PROVE  EventIInv
<1>1. Event(NoEvent) /\ NoEvent.exists = FALSE /\ NoEvent.start = 0
  BY DEF Event, NoEvent
<1> HIDE DEF NoEvent
<1> QED
  BY <1>1 DEF EventInit, EventIInv, EventTyped, NothingSaved, CopyFresh, EventWellFormed,
              OwnersEventKept

\* A request is well typed, as far as the ranges go.
LEMMA RequestBounds ==
  ASSUME EventAssumption, NEW r \in EventRequests
  PROVE  /\ r.start \in Nat \cup {Omitted} /\ r.end \in Nat \cup {Omitted}
         /\ r.allDay \in BOOLEAN
         /\ Omitted \notin Nat
         /\ r.tool \in {"create", "update", "delete", "respond"}
         /\ r.tool = "create" => r.start \in Nat /\ r.end \in Nat /\ r.start < r.end
<1>1. r \in EventRequestType
  BY EventAssumption
<1> QED
  BY <1>1, EventAssumption DEF EventRequestType

\* What create_event stores runs forward, and from midnight to midnight if it
\* lasts all day.
LEMMA NewEventWellFormed ==
  ASSUME EventAssumption, NEW r \in EventRequests, r.tool = "create"
  PROVE  /\ Event(NewEvent(r))
         /\ NewEvent(r).start < NewEvent(r).end
         /\ NewEvent(r).allDay => /\ NewEvent(r).start = Midnight(NewEvent(r).start)
                                  /\ NewEvent(r).end = Midnight(NewEvent(r).end)
<1>1. r.start \in Nat /\ r.end \in Nat /\ r.start < r.end /\ r.allDay \in BOOLEAN
  BY RequestBounds
<1>2. /\ Midnight(r.start) \in Nat /\ Midnight(r.end) \in Nat
      /\ Midnight(Midnight(r.start)) = Midnight(r.start)
      /\ Midnight(Midnight(r.end)) = Midnight(r.end)
      /\ Midnight(Midnight(r.start) + 2) = Midnight(r.start) + 2
  BY <1>1, MidnightOrder
<1>3. /\ AllDayEnd(r) \in Nat /\ Midnight(r.start) < AllDayEnd(r)
      /\ Midnight(AllDayEnd(r)) = AllDayEnd(r)
  BY <1>2 DEF AllDayEnd
<1> QED
  BY <1>1, <1>2, <1>3 DEF NewEvent, Event

\* What update_event saves, if the event is the one it fetched.
LEMMA UpdatedWellFormed ==
  ASSUME EventAssumption, NEW r \in EventRequests, NEW e, Event(e), copy = e,
         ~RangeRefused(r, e), e.start < e.end,
         e.allDay => e.start = Midnight(e.start) /\ e.end = Midnight(e.end)
  PROVE  /\ Updated(r, e).start < Updated(r, e).end
         /\ Updated(r, e).allDay => /\ Updated(r, e).start = Midnight(Updated(r, e).start)
                                    /\ Updated(r, e).end = Midnight(Updated(r, e).end)
<1> DEFINE s == Bound(r.start, e.start, e)
           t == Bound(r.end, e.end, e)
<1>1. /\ r.start \in Nat \cup {Omitted} /\ r.end \in Nat \cup {Omitted}
      /\ e.start \in Nat /\ e.end \in Nat /\ e.allDay \in BOOLEAN
  BY RequestBounds DEF Event
<1>2. Updated(r, e).start = s /\ Updated(r, e).end = t /\ Updated(r, e).allDay = e.allDay
<2>1. e = [exists |-> e.exists, allDay |-> e.allDay, start |-> e.start, end |-> e.end,
           required |-> e.required, optional |-> e.optional]
  BY DEF Event
<2>2. Updated(r, e) =
        [e EXCEPT !.start = s, !.end = t,
                  !.required = Written(Invited(r, e), e.required, e.required),
                  !.optional = Written(Remaining(e.optional, r), e.optional, e.optional)]
  BY <2>1 DEF Updated
<2> QED
  BY <2>1, <2>2
<1>3. s < t
<2>1. CASE GivenBounds(r) = {}
  <3>1. r.start = Omitted /\ r.end = Omitted
    BY <2>1 DEF GivenBounds
  <3>2. s = e.start /\ t = e.end
    BY <3>1 DEF Bound
  <3> QED
    BY <3>2
<2>2. CASE GivenBounds(r) # {}
  <3>1. ~(t <= s)
    BY <2>2 DEF RangeRefused
  <3>2. s \in Nat
    BY <1>1, BoundOfNumbers
  <3>3. t \in Nat
    BY <1>1, BoundOfNumbers
  <3> QED
    BY <3>1, <3>2, <3>3
<2> QED
  BY <2>1, <2>2
<1>4. e.allDay => s = Midnight(s) /\ t = Midnight(t)
<2>1. SUFFICES ASSUME e.allDay
               PROVE  s = Midnight(s) /\ t = Midnight(t)
  OBVIOUS
<2>2. s = Midnight(s)
  <3>1. r.start \in Nat => Midnight(Midnight(r.start)) = Midnight(r.start)
    BY MidnightOrder
  <3>2. CASE r.start = Omitted
    BY <2>1, <3>2 DEF Bound
  <3>3. CASE r.start # Omitted
    <4>1. s = Midnight(r.start) /\ r.start \in Nat
      BY <1>1, <2>1, <3>3 DEF Bound
    <4> QED
      BY <3>1, <4>1
  <3> QED
    BY <3>2, <3>3
<2>3. t = Midnight(t)
  <3>1. r.end \in Nat => Midnight(Midnight(r.end)) = Midnight(r.end)
    BY MidnightOrder
  <3>2. CASE r.end = Omitted
    BY <2>1, <3>2 DEF Bound
  <3>3. CASE r.end # Omitted
    <4>1. t = Midnight(r.end) /\ r.end \in Nat
      BY <1>1, <2>1, <3>3 DEF Bound
    <4> QED
      BY <3>1, <4>1
  <3> QED
    BY <3>2, <3>3
<2> QED
  BY <2>2, <2>3
<1> QED
  BY <1>2, <1>3, <1>4

\* Whatever the event has become meanwhile, a save leaves it an event and what
\* the request does not name untouched.
LEMMA UpdatedKeeps ==
  ASSUME EventAssumption, NEW r \in EventRequests, NEW e, Event(e), Event(copy),
         copy.required \in Seq(People), copy.optional \in Seq(People)
  PROVE  /\ Event(Updated(r, e))
         /\ r.start = Omitted => Updated(r, e).start = e.start
         /\ r.end = Omitted => Updated(r, e).end = e.end
         /\ Updated(r, e).allDay = e.allDay
         /\ r.add = <<>> /\ Remaining(copy.required, r) = copy.required =>
              Updated(r, e).required = e.required
         /\ Remaining(copy.optional, r) = copy.optional =>
              Updated(r, e).optional = e.optional
<1> DEFINE s == Bound(r.start, e.start, copy)
           t == Bound(r.end, e.end, copy)
           q == Written(Invited(r, copy), copy.required, e.required)
           o == Written(Remaining(copy.optional, r), copy.optional, e.optional)
<1>1. s \in Nat /\ t \in Nat /\ (r.start = Omitted => s = e.start)
                /\ (r.end = Omitted => t = e.end)
<2>1. /\ r.start \in Nat \cup {Omitted} /\ r.end \in Nat \cup {Omitted}
      /\ e.start \in Nat /\ e.end \in Nat
  BY RequestBounds DEF Event
<2>2. s \in Nat /\ (r.start = Omitted => s = e.start)
  BY <2>1, BoundOfNumbers
<2>3. t \in Nat /\ (r.end = Omitted => t = e.end)
  BY <2>1, BoundOfNumbers
<2> QED
  BY <2>2, <2>3
<1>2. /\ r.add = <<>> /\ Remaining(copy.required, r) = copy.required => q = e.required
      /\ Remaining(copy.optional, r) = copy.optional => o = e.optional
<2>1. r.add = <<>> => Invited(r, copy) = Remaining(copy.required, r)
  <3>1. r \in EventRequestType
    BY EventAssumption
  <3>2. r.add \in Seq(People) /\ r.remove \in Seq(People)
    BY <3>1 DEF EventRequestType
  <3> QED
    BY <3>2, ListsChanged
<2> QED
  BY <2>1 DEF Written
<1>3. e = [exists |-> e.exists, allDay |-> e.allDay, start |-> e.start, end |-> e.end,
           required |-> e.required, optional |-> e.optional]
  BY DEF Event
<1>4. Updated(r, e) = [e EXCEPT !.start = s, !.end = t, !.required = q, !.optional = o]
  BY <1>3 DEF Updated
<1> HIDE DEF s, t, q, o
<1>5. Updated(r, e) = [exists |-> e.exists, allDay |-> e.allDay, start |-> s, end |-> t,
                       required |-> q, optional |-> o]
  BY <1>3, <1>4
<1> QED
  BY <1>1, <1>2, <1>5 DEF Event

LEMMA MeddledTyped ==
  ASSUME EventAssumption, NEW e, Event(e), NEW s, Event(s),
         NEW m \in {[e EXCEPT !.start = g.start, !.end = g.end, !.allDay = g.allDay] :
                      g \in Ranges}
                   \cup {[e EXCEPT !.optional = Append(@, p)] : p \in People}
                   \cup {[e EXCEPT !.required = Append(@, p)] : p \in People}
                   \cup {NoEvent}
  PROVE  /\ Event(m)
         /\ m.exists /\ e.start < e.end
              /\ (e.allDay => e.start = Midnight(e.start) /\ e.end = Midnight(e.end))
              => /\ m.start < m.end
                 /\ m.allDay => m.start = Midnight(m.start) /\ m.end = Midnight(m.end)
<1>1. e = [exists |-> e.exists, allDay |-> e.allDay, start |-> e.start, end |-> e.end,
           required |-> e.required, optional |-> e.optional]
      /\ e.exists \in BOOLEAN /\ e.allDay \in BOOLEAN /\ e.start \in Nat /\ e.end \in Nat
  BY DEF Event
<1>2. ASSUME NEW g \in Ranges,
             m = [e EXCEPT !.start = g.start, !.end = g.end, !.allDay = g.allDay]
      PROVE  /\ Event(m)
             /\ m.start < m.end
             /\ m.allDay => m.start = Midnight(m.start) /\ m.end = Midnight(m.end)
  <2>1. /\ g.start \in Nat /\ g.end \in Nat /\ g.start < g.end /\ g.allDay \in BOOLEAN
        /\ g.allDay => g.start % 2 = 0 /\ g.end % 2 = 0
    BY EventAssumption
  <2>2. m = [exists |-> e.exists, allDay |-> g.allDay, start |-> g.start, end |-> g.end,
             required |-> e.required, optional |-> e.optional]
    BY <1>1, <1>2
  <2>3. g.allDay => g.start = Midnight(g.start) /\ g.end = Midnight(g.end)
    BY <2>1, MidnightOrder
  <2> QED
    BY <1>1, <2>1, <2>2, <2>3 DEF Event
<1>3. ASSUME NEW q, NEW o, m = [exists |-> e.exists, allDay |-> e.allDay, start |-> e.start,
                                end |-> e.end, required |-> q, optional |-> o]
      PROVE  Event(m) /\ m.start = e.start /\ m.end = e.end /\ m.allDay = e.allDay
  BY <1>1, <1>3 DEF Event
<1>4. ASSUME NEW p \in People, m = [e EXCEPT !.optional = Append(@, p)]
      PROVE  Event(m) /\ m.start = e.start /\ m.end = e.end /\ m.allDay = e.allDay
  <2>1. m = [exists |-> e.exists, allDay |-> e.allDay, start |-> e.start, end |-> e.end,
             required |-> e.required, optional |-> Append(e.optional, p)]
    BY <1>1, <1>4
  <2> QED
    BY <1>3, <2>1
<1>5. ASSUME NEW p \in People, m = [e EXCEPT !.required = Append(@, p)]
      PROVE  Event(m) /\ m.start = e.start /\ m.end = e.end /\ m.allDay = e.allDay
  <2>1. m = [exists |-> e.exists, allDay |-> e.allDay, start |-> e.start, end |-> e.end,
             required |-> Append(e.required, p), optional |-> e.optional]
    BY <1>1, <1>5
  <2> QED
    BY <1>3, <2>1
<1>6. ASSUME m = NoEvent
      PROVE  Event(m) /\ ~m.exists
  BY <1>6 DEF Event, NoEvent
<1>7. \/ \E g \in Ranges : m = [e EXCEPT !.start = g.start, !.end = g.end, !.allDay = g.allDay]
      \/ \E p \in People : m = [e EXCEPT !.optional = Append(@, p)]
      \/ \E p \in People : m = [e EXCEPT !.required = Append(@, p)]
      \/ m = NoEvent
  OBVIOUS
<1> QED
  BY <1>2, <1>4, <1>5, <1>6, <1>7

\* What the owner changes is changed in the history too, and nothing else is.
Shadowed(s, e, m) == [f \in DOMAIN m |-> IF m[f] # e[f] THEN m[f] ELSE s[f]]

LEMMA ShadowFollows ==
  ASSUME NEW e, Event(e), NEW m, Event(m), NEW s, Event(s)
  PROVE  /\ Event(Shadowed(s, e, m))
         /\ e = s => m = Shadowed(s, e, m)
         /\ \A f \in {"allDay", "start", "end", "required", "optional"} :
              e[f] = s[f] => m[f] = Shadowed(s, e, m)[f]
<1> DEFINE t == Shadowed(s, e, m)
<1>1. /\ m = [exists |-> m.exists, allDay |-> m.allDay, start |-> m.start, end |-> m.end,
              required |-> m.required, optional |-> m.optional]
      /\ m.exists \in BOOLEAN /\ m.allDay \in BOOLEAN /\ m.start \in Nat /\ m.end \in Nat
      /\ s.exists \in BOOLEAN /\ s.allDay \in BOOLEAN /\ s.start \in Nat /\ s.end \in Nat
  BY DEF Event
<1>2. DOMAIN m = {"exists", "allDay", "start", "end", "required", "optional"}
  BY <1>1
<1>3. /\ t.exists = (IF m.exists # e.exists THEN m.exists ELSE s.exists)
      /\ t.allDay = (IF m.allDay # e.allDay THEN m.allDay ELSE s.allDay)
      /\ t.start = (IF m.start # e.start THEN m.start ELSE s.start)
      /\ t.end = (IF m.end # e.end THEN m.end ELSE s.end)
      /\ t.required = (IF m.required # e.required THEN m.required ELSE s.required)
      /\ t.optional = (IF m.optional # e.optional THEN m.optional ELSE s.optional)
  BY <1>2 DEF Shadowed
<1>4. t = [exists |-> t.exists, allDay |-> t.allDay, start |-> t.start, end |-> t.end,
           required |-> t.required, optional |-> t.optional]
  BY <1>2 DEF Shadowed
<1>5. Event(t)
  BY <1>1, <1>3, <1>4 DEF Event
<1> HIDE DEF t
<1>6. e = s => m = t
  BY <1>1, <1>3, <1>4
<1>7. \A f \in {"allDay", "start", "end", "required", "optional"} :
        e[f] = s[f] => m[f] = t[f]
  BY <1>3
<1> QED
  BY <1>5, <1>6, <1>7 DEF t

LEMMA EventInductive ==
  ASSUME EventAssumption, EventIInv, ListsTyped, [EventNext]_eventVars
  PROVE  EventIInv'
<1> USE EventAssumption
<1>1. ASSUME NEW r \in EventRequests, AskNext(r)
      PROVE  EventIInv'
  <2>1. event' = event /\ shadow' = event /\ raced' = raced /\ asked' = r /\ copy' = NoEvent
        /\ status' = FirstStatus(r)
    BY <1>1 DEF AskNext
  <2>2. FirstStatus(r) \in {"fetch", "write"} /\ (r.tool = "update" => FirstStatus(r) = "fetch")
    BY DEF FirstStatus
  <2>3. Event(NoEvent)
    BY DEF Event, NoEvent
  <2>4. EventTyped'
    BY <2>1, <2>2, <2>3 DEF EventIInv, EventTyped, Event
  <2>5. EventWellFormed'
    BY <2>1 DEF EventIInv, EventWellFormed, Midnight
  <2> QED
    BY <2>1, <2>2, <2>4, <2>5 DEF EventIInv, NothingSaved, CopyFresh, OwnersEventKept
<1>2. ASSUME FetchEvent
      PROVE  EventIInv'
  <2>1. /\ status = "fetch"
        /\ event' = event /\ shadow' = shadow /\ raced' = raced /\ asked' = asked
        /\ event = shadow
    BY <1>2 DEF FetchEvent, EventIInv, NothingSaved
  <2>2. \/ /\ event.exists /\ copy' = event
           /\ status' \in {"write", "ok", "error"}
           /\ asked.tool = "update" /\ status' = "write" => ~RangeRefused(asked, event)
        \/ status' = "error" /\ copy' = copy
    BY <1>2 DEF FetchEvent
  <2>3. EventTyped'
    BY <2>1, <2>2 DEF EventIInv, EventTyped, Event
  <2>4. EventWellFormed'
    BY <2>1 DEF EventIInv, EventWellFormed, Midnight
  <2>5. NothingSaved' /\ OwnersEventKept'
    BY <2>1, <2>2 DEF NothingSaved, OwnersEventKept
  <2>6. CopyFresh'
    <3>1. RangeRefused(asked, event)' <=> RangeRefused(asked, event)
      BY <2>1 DEF RangeRefused, GivenBounds, Incomparable, Bound, Midnight
    <3> QED
      BY <2>1, <2>2, <3>1 DEF CopyFresh
  <2> QED
    BY <2>3, <2>4, <2>5, <2>6 DEF EventIInv
<1>3. ASSUME WriteEvent
      PROVE  EventIInv'
  <2>1. /\ status = "write" /\ status' \in {"ok", "error"}
        /\ asked' = asked /\ copy' = copy /\ shadow' = shadow /\ raced' = raced
        /\ event = shadow
    BY <1>3 DEF WriteEvent, EventIInv, NothingSaved
  <2>2. NothingSaved' /\ CopyFresh'
    BY <2>1 DEF NothingSaved, CopyFresh
  <2>3. CASE event' = event
    <3>1. EventTyped'
      BY <2>1, <2>3 DEF EventIInv, EventTyped, Event
    <3>2. EventWellFormed'
      BY <2>1, <2>3 DEF EventIInv, EventWellFormed, Midnight
    <3>3. OwnersEventKept'
      BY <2>1, <2>3 DEF OwnersEventKept
    <3> QED
      BY <2>2, <3>1, <3>2, <3>3 DEF EventIInv
  <2>4. CASE Carry(asked)
    <3>1. /\ asked.tool = "create" \/ event.exists
          /\ event' = After(asked)
      BY <2>4 DEF Carry
    <3>2. /\ Event(event) /\ Event(copy) /\ asked \in EventRequests
          /\ asked.tool \in {"create", "update", "delete", "respond"}
          /\ copy.required \in Seq(People) /\ copy.optional \in Seq(People)
      BY RequestBounds DEF EventIInv, EventTyped, ListsTyped
    <3>3. CASE asked.tool = "create"
      <4>1. event' = NewEvent(asked)
        BY <3>1, <3>3 DEF After
      <4>2. Event(event')
        BY <3>2, <3>3, <4>1, NewEventWellFormed
      <4>3. EventWellFormed'
        BY <3>2, <3>3, <4>1, NewEventWellFormed DEF EventWellFormed, Midnight
      <4> QED
        BY <2>1, <2>2, <3>3, <4>2, <4>3 DEF EventIInv, EventTyped, OwnersEventKept, Event
    <3>4. CASE asked.tool = "update"
      <4>1. event' = Updated(asked, event)
        BY <3>1, <3>4 DEF After
      <4>2. Event(event')
        BY <3>2, <4>1, UpdatedKeeps
      <4>3. EventWellFormed'
        <5>1. SUFFICES ASSUME ~raced
                       PROVE  EventWellFormed'
          BY <2>1 DEF EventWellFormed
        <5>2. copy = event /\ event.exists /\ ~RangeRefused(asked, event)
          BY <2>1, <3>4, <5>1 DEF EventIInv, CopyFresh
        <5>3. /\ event.start < event.end
              /\ event.allDay => /\ event.start = Midnight(event.start)
                                 /\ event.end = Midnight(event.end)
          BY <5>1, <5>2 DEF EventIInv, EventWellFormed
        <5>4. /\ Updated(asked, event).start < Updated(asked, event).end
              /\ Updated(asked, event).allDay =>
                   /\ Updated(asked, event).start = Midnight(Updated(asked, event).start)
                   /\ Updated(asked, event).end = Midnight(Updated(asked, event).end)
          BY <3>2, <5>2, <5>3, UpdatedWellFormed
        <5> QED
          BY <4>1, <5>4 DEF EventWellFormed, Midnight
      <4>4. OwnersEventKept'
        <5>1. /\ asked.start = Omitted => event'.start = event.start
              /\ asked.end = Omitted => event'.end = event.end
              /\ event'.allDay = event.allDay
              /\ asked.add = <<>> /\ Remaining(copy.required, asked) = copy.required =>
                   event'.required = event.required
              /\ Remaining(copy.optional, asked) = copy.optional =>
                   event'.optional = event.optional
          BY <3>2, <4>1, UpdatedKeeps
        <5>2. /\ Remaining(copy.required, asked)' = Remaining(copy.required, asked)
              /\ Remaining(copy.optional, asked)' = Remaining(copy.optional, asked)
          BY <2>1
        <5> QED
          BY <2>1, <5>1, <5>2 DEF OwnersEventKept
      <4> QED
        BY <2>1, <2>2, <4>2, <4>3, <4>4 DEF EventIInv, EventTyped, Event
    <3>5. CASE asked.tool \in {"delete", "respond"} /\ event' = NoEvent
      <4>1. Event(event') /\ ~event'.exists
        BY <3>5 DEF Event, NoEvent
      <4> QED
        BY <2>1, <2>2, <3>5, <4>1 DEF EventIInv, EventTyped, EventWellFormed, OwnersEventKept,
                                      Event
    <3>6. asked.tool \in {"delete", "respond"} => event' \in {event, NoEvent}
      BY <3>1 DEF After
    <3> QED
      BY <2>3, <3>2, <3>3, <3>4, <3>5, <3>6
  <2> QED
    BY <1>3, <2>3, <2>4 DEF WriteEvent
<1>4. ASSUME Meddle
      PROVE  EventIInv'
  <2>1. /\ event.exists
        /\ raced' = (raced \/ status = "write")
        /\ asked' = asked /\ copy' = copy /\ status' = status
    BY <1>4 DEF Meddle
  <2>2. /\ Event(event) /\ Event(copy) /\ Event(shadow) /\ asked \in EventRequests
        /\ status \in {"fetch", "write", "ok", "error"} /\ raced \in BOOLEAN
    BY SMTT(30) DEF EventIInv, EventTyped
  <2>3. PICK m :
           /\ m \in {[event EXCEPT !.start = g.start, !.end = g.end, !.allDay = g.allDay] :
                       g \in Ranges}
                    \cup {[event EXCEPT !.optional = Append(@, p)] : p \in People}
                    \cup {[event EXCEPT !.required = Append(@, p)] : p \in People}
                    \cup {NoEvent}
           /\ event' = m
           /\ shadow' = [f \in DOMAIN m |-> IF m[f] # event[f] THEN m[f] ELSE shadow[f]]
    BY <1>4 DEF Meddle
  <2>4. Event(m)
    BY <2>2, <2>3, MeddledTyped
  <2>5. /\ Event(shadow')
        /\ event = shadow => m = shadow'
        /\ event.allDay = shadow.allDay => m.allDay = shadow'.allDay
        /\ event.start = shadow.start => m.start = shadow'.start
        /\ event.end = shadow.end => m.end = shadow'.end
        /\ event.required = shadow.required => m.required = shadow'.required
        /\ event.optional = shadow.optional => m.optional = shadow'.optional
    <3> DEFINE t == Shadowed(shadow, event, m)
    <3>1. shadow' = t
      BY <2>3 DEF Shadowed
    <3>2. /\ Event(t)
          /\ event = shadow => m = t
          /\ \A f \in {"allDay", "start", "end", "required", "optional"} :
               event[f] = shadow[f] => m[f] = t[f]
      BY <2>2, <2>4, ShadowFollows
    <3> HIDE DEF t
    <3>3. Event(shadow')
      BY <3>1, <3>2, SMTT(30)
    <3> QED
      BY <3>1, <3>2, <3>3
  <2>6. EventTyped'
    BY <2>1, <2>2, <2>3, <2>4, <2>5 DEF EventTyped, Event
  <2>7. NothingSaved'
    BY <2>1, <2>3, <2>5 DEF EventIInv, NothingSaved
  <2>8. CopyFresh'
    BY <2>1, <2>2 DEF CopyFresh
  <2>9. EventWellFormed'
    <3>1. SUFFICES ASSUME m.exists, ~raced'
                   PROVE  /\ m.start < m.end
                          /\ m.allDay => m.start = Midnight(m.start) /\ m.end = Midnight(m.end)
      BY <2>3 DEF EventWellFormed, Midnight
    <3>2. /\ event.start < event.end
          /\ event.allDay => /\ event.start = Midnight(event.start)
                             /\ event.end = Midnight(event.end)
      BY <2>1, <2>2, <3>1 DEF EventIInv, EventWellFormed
    <3> QED
      BY <2>2, <2>3, <3>1, <3>2, MeddledTyped
  <2>10. OwnersEventKept'
    <3>1. /\ Remaining(copy.required, asked)' = Remaining(copy.required, asked)
          /\ Remaining(copy.optional, asked)' = Remaining(copy.optional, asked)
      BY <2>1
    <3> QED
      BY <2>1, <2>3, <2>5, <3>1 DEF EventIInv, OwnersEventKept
  <2> QED
    BY <2>6, <2>7, <2>8, <2>9, <2>10 DEF EventIInv
<1>5. ASSUME UNCHANGED eventVars
      PROVE  EventIInv'
  <2>1. /\ event' = event /\ asked' = asked /\ copy' = copy /\ status' = status
        /\ shadow' = shadow /\ raced' = raced
    BY <1>5 DEF eventVars
  <2>2. EventTyped' /\ NothingSaved' /\ OwnersEventKept'
    BY <2>1 DEF EventIInv, EventTyped, Event, NothingSaved, OwnersEventKept
  <2>3. EventWellFormed'
    BY <2>1 DEF EventIInv, EventWellFormed, Midnight
  <2>4. CopyFresh'
    <3>1. RangeRefused(asked, event)' <=> RangeRefused(asked, event)
      BY <2>1 DEF RangeRefused, GivenBounds, Incomparable, Bound, Midnight
    <3> QED
      BY <2>1, <3>1 DEF EventIInv, CopyFresh
  <2> QED
    BY <2>2, <2>3, <2>4 DEF EventIInv
<1> QED
  BY <1>1, <1>2, <1>3, <1>4, <1>5 DEF EventNext

-----------------------------------------------------------------------------
\* What a call asks for, as far as the attendees go.
LEMMA RequestedPeople ==
  ASSUME NEW r \in EventRequests
  PROVE  /\ r.add \in Seq(People) /\ r.remove \in Seq(People)
         /\ ToSet(r.add) \cap ToSet(r.remove) = {}
         /\ r.tool \in {"create", "update", "delete", "respond"}
<1>1. r \in EventRequestType
  BY EventAssumption
<1> QED
  BY <1>1, EventAssumption DEF EventRequestType

PeopleOnly(e) == e.required \in Seq(People) /\ e.optional \in Seq(People)

LEMMA NoEventLists == PeopleOnly(NoEvent) /\ Event(NoEvent)
<1>1. NoEvent.required = <<>> /\ NoEvent.optional = <<>> /\ <<>> \in Seq(People)
  BY DEF NoEvent
<1> QED
  BY <1>1 DEF PeopleOnly, NoEvent, Event

\* The lists that update_event saves are those worked out from the copy, or the
\* event's own.
LEMMA UpdatedLists ==
  ASSUME NEW r \in EventRequests, NEW e, Event(e), PeopleOnly(e), PeopleOnly(copy)
  PROVE  /\ PeopleOnly(Updated(r, e))
         /\ copy = e => /\ Updated(r, e).required = Invited(r, e)
                        /\ Updated(r, e).optional = Remaining(e.optional, r)
<1> DEFINE q == Written(Invited(r, copy), copy.required, e.required)
           o == Written(Remaining(copy.optional, r), copy.optional, e.optional)
<1>1. Updated(r, e).required = q /\ Updated(r, e).optional = o
  BY DEF Updated, Event
<1>2. Invited(r, copy) \in Seq(People) /\ Remaining(copy.optional, r) \in Seq(People)
  BY RequestedPeople, ListsChanged DEF PeopleOnly
<1>3. q \in Seq(People) /\ o \in Seq(People)
  BY <1>2 DEF Written, PeopleOnly
<1>4. copy = e => q = Invited(r, e) /\ o = Remaining(e.optional, r)
  BY DEF Written
<1> QED
  BY <1>1, <1>3, <1>4 DEF PeopleOnly

\* The lists of the event, of the copy and of the history hold people.
LEMMA ListsStayTyped ==
  ASSUME EventTyped, ListsTyped, [EventNext]_eventVars
  PROVE  ListsTyped'
<1>0. /\ PeopleOnly(event) /\ PeopleOnly(copy) /\ PeopleOnly(shadow)
      /\ asked \in EventRequests /\ Event(event)
  BY DEF ListsTyped, PeopleOnly, EventTyped
<1> SUFFICES PeopleOnly(event') /\ PeopleOnly(copy') /\ PeopleOnly(shadow')
  BY DEF ListsTyped, PeopleOnly
<1>1. ASSUME NEW r \in EventRequests, AskNext(r)
      PROVE  PeopleOnly(event') /\ PeopleOnly(copy') /\ PeopleOnly(shadow')
  BY <1>0, <1>1, NoEventLists DEF AskNext
<1>2. CASE FetchEvent
  BY <1>0, <1>2 DEF FetchEvent
<1>3. CASE WriteEvent
  <2>1. PeopleOnly(NewEvent(asked))
    <3>1. /\ NewEvent(asked).required = asked.add /\ NewEvent(asked).optional = <<>>
          /\ <<>> \in Seq(People)
      BY DEF NewEvent
    <3> QED
      BY <1>0, <3>1, RequestedPeople DEF PeopleOnly
  <2>2. PeopleOnly(Updated(asked, event))
    BY <1>0, UpdatedLists
  <2>3. Carry(asked) => event' \in {NewEvent(asked), Updated(asked, event), NoEvent, event}
    <3>1. asked.tool \in {"create", "update", "delete", "respond"}
      BY <1>0, RequestedPeople
    <3> QED
      BY <3>1 DEF Carry, After
  <2> QED
    BY <1>0, <1>3, <2>1, <2>2, <2>3, NoEventLists DEF WriteEvent
<1>4. CASE Meddle
  <2>1. PICK m :
           /\ m \in {[event EXCEPT !.start = g.start, !.end = g.end, !.allDay = g.allDay] :
                       g \in Ranges}
                    \cup {[event EXCEPT !.optional = Append(@, p)] : p \in People}
                    \cup {[event EXCEPT !.required = Append(@, p)] : p \in People}
                    \cup {NoEvent}
           /\ event' = m
           /\ shadow' = [f \in DOMAIN m |-> IF m[f] # event[f] THEN m[f] ELSE shadow[f]]
    BY <1>4 DEF Meddle
  <2>2. PeopleOnly(m)
    <3>1. \A p \in People : /\ Append(event.required, p) \in Seq(People)
                            /\ Append(event.optional, p) \in Seq(People)
      BY <1>0 DEF PeopleOnly
    <3>2. CASE m = NoEvent
      BY <3>2, NoEventLists
    <3>3. CASE m # NoEvent
      <4>1. /\ m.required = event.required
                 \/ \E p \in People : m.required = Append(event.required, p)
            /\ m.optional = event.optional
                 \/ \E p \in People : m.optional = Append(event.optional, p)
        BY <1>0, <2>1, <3>3 DEF Event
      <4> QED
        BY <1>0, <3>1, <4>1 DEF PeopleOnly
    <3> QED
      BY <3>2, <3>3
  <2>3. PeopleOnly(shadow')
    <3>1. Event(m)
      BY <1>0, <2>1, EventAssumption, MeddledTyped
    <3>2. DOMAIN m = {"exists", "allDay", "start", "end", "required", "optional"}
      BY <3>1 DEF Event
    <3>3. /\ shadow'.required \in {m.required, shadow.required}
          /\ shadow'.optional \in {m.optional, shadow.optional}
      BY <2>1, <3>2
    <3> QED
      BY <1>0, <2>2, <3>3, SMTT(30) DEF PeopleOnly
  <2> QED
    BY <1>0, <1>4, <2>1, <2>2, <2>3 DEF Meddle
<1>5. CASE UNCHANGED eventVars
  BY <1>0, <1>5 DEF eventVars
<1> QED
  BY <1>1, <1>2, <1>3, <1>4, <1>5 DEF EventNext

-----------------------------------------------------------------------------
\* An update that was worked out from the event as it is: the attendees are as
\* asked, and are written to only for a reason.
LEMMA UpdateAsAsked ==
  ASSUME NEW r \in EventRequests, NEW e, Event(e), PeopleOnly(e),
         NEW q, q = Invited(r, e), NEW o, o = Remaining(e.optional, r)
  PROVE  /\ \A p \in People :
              Times(q \o o, p) =
                IF p \in ToSet(r.remove) THEN 0
                ELSE LET n == Times(Attended(e), p)
                     IN  IF n = 0 /\ p \in ToSet(r.add) THEN 1 ELSE n
         /\ SavesSomething(r, e) =>
              r.other \/ GivenBounds(r) # {} \/ q \o o # Attended(e)
         /\ ~SavesSomething(r, e) => q \o o = Attended(e)
<1>1. /\ r.add \in Seq(People) /\ r.remove \in Seq(People)
      /\ ToSet(r.add) \cap ToSet(r.remove) = {}
      /\ e.required \in Seq(People) /\ e.optional \in Seq(People)
  BY RequestedPeople DEF PeopleOnly
<1>2. ASSUME NEW p \in People
      PROVE  Times(q \o o, p) =
                IF p \in ToSet(r.remove) THEN 0
                ELSE LET n == Times(Attended(e), p)
                     IN  IF n = 0 /\ p \in ToSet(r.add) THEN 1 ELSE n
  <2>1. Times(q \o o, p) = TimesAsked(r, e, p)
    BY <1>1, ChangedAsAsked
  <2> QED
    BY <2>1 DEF TimesAsked
<1>3. q \o o = Attended(e) => q = e.required /\ o = e.optional
  BY <1>1, ChangeShows
<1>4. SavesSomething(r, e) =>
        r.other \/ GivenBounds(r) # {} \/ q \o o # Attended(e)
  BY <1>3 DEF SavesSomething
<1>5. ~SavesSomething(r, e) => q \o o = Attended(e)
  BY DEF SavesSomething, Attended
<1> QED
  BY <1>2, <1>4, <1>5

LEMMA AttendeesInductive ==
  ASSUME AttendeeIInv, [EventNext]_eventVars
  PROVE  AboutToSave' /\ AttendeesAsAsked'
<1>0. /\ EventTyped /\ NothingSaved /\ AboutToSave
      /\ PeopleOnly(event) /\ PeopleOnly(copy)
      /\ asked \in EventRequests /\ Event(event)
  BY DEF AttendeeIInv, EventIInv, EventTyped, ListsTyped, PeopleOnly
<1>1. ASSUME NEW r \in EventRequests, AskNext(r) PROVE AboutToSave' /\ AttendeesAsAsked'
  <2>1. /\ asked' = r /\ told' = FALSE
        /\ status' = FirstStatus(r)
    BY <1>1 DEF AskNext
  <2>2. FirstStatus(r) \in {"fetch", "write"} /\ (r.tool = "update" => FirstStatus(r) = "fetch")
    BY DEF FirstStatus
  <2> QED
    BY <2>1, <2>2 DEF AboutToSave, AttendeesAsAsked
<1>2. CASE FetchEvent
  <2>1. /\ status = "fetch" /\ event' = event /\ shadow' = shadow /\ asked' = asked
        /\ told' = told /\ ~told /\ event = shadow
    BY <1>0, <1>2 DEF FetchEvent, AboutToSave, NothingSaved
  <2>2. \/ /\ copy' = event
           /\ asked.tool = "update" =>
                /\ status' = "write" => SavesSomething(asked, event)
                /\ status' = "ok" => ~SavesSomething(asked, event)
        \/ status' = "error"
    BY <1>2 DEF FetchEvent
  <2>3. AboutToSave'
    <3>1. SavesSomething(asked, event) /\ copy' = event => SavesSomething(asked', copy')
      BY <2>1
    <3> QED
      BY <2>1, <2>2, <3>1 DEF AboutToSave
  <2>4. AttendeesAsAsked'
    <3> SUFFICES ASSUME asked.tool = "update", status' = "ok"
                 PROVE  \A p \in People :
                          Times(Attended(event), p) =
                            IF p \in ToSet(asked.remove) THEN 0
                            ELSE LET n == Times(Attended(event), p)
                                 IN  IF n = 0 /\ p \in ToSet(asked.add) THEN 1 ELSE n
      BY <2>1 DEF AttendeesAsAsked
    <3>1. ~SavesSomething(asked, event)
      BY <2>2
    <3> DEFINE q == Invited(asked, event)
               o == Remaining(event.optional, asked)
    <3>2. /\ \A p \in People :
                Times(q \o o, p) =
                  IF p \in ToSet(asked.remove) THEN 0
                  ELSE LET n == Times(Attended(event), p)
                       IN  IF n = 0 /\ p \in ToSet(asked.add) THEN 1 ELSE n
          /\ q \o o = Attended(event)
      BY <1>0, <3>1, UpdateAsAsked
    <3> QED
      BY <3>2
  <2> QED
    BY <2>3, <2>4
<1>3. CASE WriteEvent
  <2>1. /\ status = "write" /\ status' \in {"ok", "error"}
        /\ asked' = asked /\ shadow' = shadow /\ meddled' = meddled
        /\ event = shadow
        /\ status' = "ok" => Carry(asked)
    BY <1>0, <1>3 DEF WriteEvent, NothingSaved
  <2>2. AboutToSave'
    BY <2>1 DEF AboutToSave
  <2>3. AttendeesAsAsked'
    <3> DEFINE Right(now) ==
                 \A p \in People :
                   Times(now, p) =
                     IF p \in ToSet(asked.remove) THEN 0
                     ELSE LET n == Times(Attended(event), p)
                          IN  IF n = 0 /\ p \in ToSet(asked.add) THEN 1 ELSE n
    <3> SUFFICES ASSUME asked.tool = "update", status' = "ok", ~meddled
                 PROVE  /\ Right(Attended(event'))
                        /\ asked.other \/ GivenBounds(asked) # {}
                             \/ Attended(event') # Attended(event)
      BY <2>1 DEF AttendeesAsAsked, Attended, Times, GivenBounds
    <3>1. copy = event /\ SavesSomething(asked, event)
      BY <1>0, <2>1 DEF AboutToSave
    <3>2. event' = Updated(asked, event)
      BY <2>1 DEF Carry, After
    <3> DEFINE q == Invited(asked, event)
               o == Remaining(event.optional, asked)
    <3>3. event'.required = q /\ event'.optional = o
      BY <1>0, <3>1, <3>2, UpdatedLists
    <3>4. Right(q \o o) /\ (asked.other \/ GivenBounds(asked) # {} \/ q \o o # Attended(event))
      BY <1>0, <3>1, UpdateAsAsked
    <3>5. Attended(event') = q \o o
      BY <3>3 DEF Attended
    <3> HIDE DEF q, o, Right
    <3> QED
      BY <3>4, <3>5
  <2> QED
    BY <2>2, <2>3
<1>4. CASE Meddle
  BY <1>0, <1>4 DEF Meddle, AboutToSave, AttendeesAsAsked
<1>5. CASE UNCHANGED eventVars
  <2>1. /\ event' = event /\ asked' = asked /\ copy' = copy /\ status' = status
        /\ told' = told /\ shadow' = shadow /\ meddled' = meddled
    BY <1>5 DEF eventVars
  <2>2. SavesSomething(asked', copy') <=> SavesSomething(asked, copy)
    BY <2>1
  <2>3. AboutToSave'
    BY <1>0, <2>1, <2>2 DEF AboutToSave
  <2>4. AttendeesAsAsked'
    BY <2>1 DEF AttendeeIInv, AttendeesAsAsked, Attended, Times, GivenBounds
  <2> QED
    BY <2>3, <2>4
<1> QED
  BY <1>1, <1>2, <1>3, <1>4, <1>5 DEF EventNext

\* The inductive invariant of the event tools: until a call saves it has changed
\* nothing and written to nobody, and, unless the owner came in between, saves
\* what it worked out from the event as it still is.
THEOREM EventInvariant == EventSpec => []AttendeeIInv
<1>1. EventInit => AttendeeIInv
  <2> SUFFICES ASSUME EventInit PROVE AttendeeIInv
    OBVIOUS
  <2>1. EventIInv
    BY EventInitially
  <2>2. ListsTyped
    BY NoEventLists DEF EventInit, ListsTyped, PeopleOnly
  <2>3. AboutToSave /\ AttendeesAsAsked
    BY DEF EventInit, AboutToSave, AttendeesAsAsked
  <2> QED
    BY <2>1, <2>2, <2>3 DEF AttendeeIInv
<1>2. AttendeeIInv /\ [EventNext]_eventVars => AttendeeIInv'
  <2> SUFFICES ASSUME AttendeeIInv, [EventNext]_eventVars PROVE AttendeeIInv'
    OBVIOUS
  <2>1. EventIInv /\ EventTyped /\ ListsTyped
    BY DEF AttendeeIInv, EventIInv
  <2>2. EventIInv'
    BY <2>1, EventAssumption, EventInductive
  <2>3. ListsTyped'
    BY <2>1, ListsStayTyped
  <2>4. AboutToSave' /\ AttendeesAsAsked'
    BY AttendeesInductive
  <2> QED
    BY <2>2, <2>3, <2>4 DEF AttendeeIInv
<1> QED
  BY <1>1, <1>2, PTL DEF EventSpec

\* create_event and update_event keep an event's range in order and an all-day
\* event between midnights, whichever bounds a sequence of calls names and
\* however many of them fail.
THEOREM EventsStayWellFormed == EventSpec => []EventWellFormed
<1>1. AttendeeIInv => EventWellFormed
  BY DEF AttendeeIInv, EventIInv
<1> QED
  BY <1>1, EventInvariant, PTL

\* update_event leaves what it does not name as the owner left it.
THEOREM OwnersEventSurvives == EventSpec => []OwnersEventKept
<1>1. AttendeeIInv => OwnersEventKept
  BY DEF AttendeeIInv, EventIInv
<1> QED
  BY <1>1, EventInvariant, PTL

\* update_event lists whom it was asked to, nobody twice, however often it is
\* called, and writes to the attendees only for a reason.
THEOREM AttendeesRight == EventSpec => []AttendeesAsAsked
<1>1. AttendeeIInv => AttendeesAsAsked
  BY DEF AttendeeIInv
<1> QED
  BY <1>1, EventInvariant, PTL
=============================================================================
