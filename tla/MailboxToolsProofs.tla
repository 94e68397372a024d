------------------------- MODULE MailboxToolsProofs -------------------------
(***************************************************************************)
(* The tools that work on mail, folders, contacts, rules and files, and    *)
(* that each of them stays typed beside the others.                        *)
(***************************************************************************)
EXTENDS MCMailboxTools, DraftProofs, QueueLemmas

-----------------------------------------------------------------------------
\* Downloads: files written in a directory others use.

LEMMA DownloadStart == DownloadInit => DownloadIInv
  <1> USE DownloadAssumption
  <1> SUFFICES ASSUME DownloadInit PROVE DownloadIInv
    OBVIOUS
  <1>1. Typed
    BY DEF DownloadInit, Typed, DownloadTypeOK, Names, Wants
  <1>2. OwnedInv /\ TheirsInv
    BY DEF DownloadInit, OwnedInv, TheirsInv
  <1>3. InHandInv /\ ReadInv
    BY DEF DownloadInit, InHandInv, ReadInv
  <1> QED
    BY <1>1, <1>2, <1>3 DEF DownloadIInv

LEMMA FetchSizeStep ==
  ASSUME DownloadIInv, NEW c \in Downloaders, FetchSize(c)
  PROVE  DownloadIInv'
  <1> USE DownloadAssumption DEF DownloadIInv, FetchSize, Go
  <1>1. Typed'
    BY DEF Typed, DownloadTypeOK
  <1>2. OwnedInv' /\ TheirsInv'
    BY DEF Typed, DownloadTypeOK, OwnedInv, TheirsInv
  <1>3. InHandInv' /\ ReadInv'
    BY DEF Typed, DownloadTypeOK, InHandInv, ReadInv
  <1> QED
    BY <1>1, <1>2, <1>3

LEMMA FetchContentStep ==
  ASSUME DownloadIInv, NEW c \in Downloaders, FetchContent(c)
  PROVE  DownloadIInv'
  <1> USE DownloadAssumption DEF DownloadIInv, FetchContent, Go, Within
  <1>1. Typed'
    BY DEF Typed, DownloadTypeOK, Wants
  <1>2. OwnedInv' /\ TheirsInv'
    BY DEF Typed, DownloadTypeOK, OwnedInv, TheirsInv
  <1>3. InHandInv' /\ ReadInv'
    BY DEF Typed, DownloadTypeOK, InHandInv, ReadInv
  <1> QED
    BY <1>1, <1>2, <1>3

LEMMA TryNameStep ==
  ASSUME DownloadIInv, NEW c \in Downloaders, TryName(c)
  PROVE  DownloadIInv'
  <1> USE DownloadAssumption DEF DownloadIInv, TryName, Go, Free
  <1>1. Typed'
    <2>1. name[c] < LastName /\ name[c] \in Names => name[c] + 1 \in Names
      BY DEF Names
    <2> QED
      BY <2>1 DEF Typed, DownloadTypeOK
  <1>2. OwnedInv'
    BY DEF Typed, DownloadTypeOK, OwnedInv
  <1>3. InHandInv' /\ ReadInv'
    BY DEF Typed, DownloadTypeOK, InHandInv, ReadInv
  <1>4. TheirsInv'
    BY DEF Typed, DownloadTypeOK, TheirsInv
  <1> QED
    BY <1>1, <1>2, <1>3, <1>4

LEMMA StreamStep ==
  ASSUME DownloadIInv, NEW c \in Downloaders, Stream(c)
  PROVE  DownloadIInv'
  <1> USE DownloadAssumption DEF DownloadIInv, Stream, StreamEnds, Go, Within
  <1>1. Typed'
    BY DEF Typed, DownloadTypeOK
  <1>2. OwnedInv' /\ TheirsInv'
    BY DEF Typed, DownloadTypeOK, OwnedInv, TheirsInv
  <1>3. InHandInv' /\ ReadInv'
    BY DEF Typed, DownloadTypeOK, InHandInv, ReadInv
  <1> QED
    BY <1>1, <1>2, <1>3

\* The file removed is the call's own, or one whose name is in `disturbed`.
LEMMA UndoStep ==
  ASSUME DownloadIInv, NEW c \in Downloaders, Undo(c)
  PROVE  DownloadIInv'
  <1> USE DownloadAssumption DEF DownloadIInv, Undo, Unlinked, Go
  <1>1. Typed'
    BY DEF Typed, DownloadTypeOK
  <1>2. entry[name[c]] = c \/ name[c] \in disturbed
    BY DEF InHandInv
  <1>3. OwnedInv'
    BY DEF Typed, DownloadTypeOK, OwnedInv
  <1>4. InHandInv'
    BY <1>2 DEF Typed, DownloadTypeOK, InHandInv, OwnedInv
  <1>5. ReadInv'
    BY DEF Typed, DownloadTypeOK, ReadInv
  <1>6. TheirsInv'
    BY <1>2 DEF Typed, DownloadTypeOK, TheirsInv
  <1> QED
    BY <1>1, <1>3, <1>4, <1>5, <1>6

LEMMA DieStep ==
  ASSUME DownloadIInv, Die
  PROVE  DownloadIInv'
  <1> USE DownloadAssumption DEF DownloadIInv, Die
  <1>1. Typed'
    BY DEF Typed, DownloadTypeOK
  <1>2. OwnedInv' /\ TheirsInv'
    BY DEF Typed, DownloadTypeOK, OwnedInv, TheirsInv
  <1>3. InHandInv' /\ ReadInv'
    BY DEF Typed, DownloadTypeOK, InHandInv, ReadInv
  <1> QED
    BY <1>1, <1>2, <1>3

LEMMA VisitStep ==
  ASSUME DownloadIInv, NEW n \in Names, Visit(n)
  PROVE  DownloadIInv'
  <1> USE DownloadAssumption DEF DownloadIInv, Visit
  <1>1. Typed'
    BY DEF Typed, DownloadTypeOK
  <1>2. OwnedInv'
    BY DEF Typed, DownloadTypeOK, OwnedInv
  <1>3. InHandInv' /\ ReadInv'
    BY DEF Typed, DownloadTypeOK, InHandInv, ReadInv
  <1>4. TheirsInv'
    BY DEF Typed, DownloadTypeOK, TheirsInv
  <1> QED
    BY <1>1, <1>2, <1>3, <1>4

\* The inductive invariant: a call has the file it made, what was read is within
\* the limit, and other programs' files are theirs (get_attachment,
\* get_email_mime).
THEOREM DownloadInvariant == DownloadSpec => []DownloadIInv
  <1>1. ASSUME DownloadIInv, [DownloadNext]_downloadVars
        PROVE  DownloadIInv'
    <2>1. CASE UNCHANGED downloadVars
      BY <1>1, <2>1 DEF downloadVars, DownloadIInv, Typed, DownloadTypeOK, OwnedInv,
         InHandInv, ReadInv, TheirsInv
    <2>2. CASE DownloadNext
      BY <1>1, <2>2, FetchSizeStep, FetchContentStep, TryNameStep, StreamStep,
         UndoStep, DieStep, VisitStep DEF DownloadNext
    <2> QED
      BY <1>1, <2>1, <2>2
  <1> QED
    BY DownloadStart, <1>1, PTL DEF DownloadSpec

\* Types and ranges of the downloads' state.
THEOREM DownloadsTypeOK == DownloadSpec => []DownloadTypeOK
  <1>1. DownloadIInv => DownloadTypeOK
    BY DEF DownloadIInv, Typed
  <1> QED
    BY DownloadInvariant, <1>1, PTL

\* A download that succeeded has the whole file, within the limit; one that
\* failed leaves none (_save_attachment, and the handlers in get_attachment).
THEOREM DownloadSavedIsWhole == DownloadSpec => []SavedIsWhole
  <1>1. DownloadIInv => SavedIsWhole
    BY DownloadAssumption
       DEF DownloadIInv, Typed, DownloadTypeOK, OwnedInv, InHandInv, ReadInv, SavedIsWhole
  <1> QED
    BY DownloadInvariant, <1>1, PTL

\* No download overwrites or removes a file that is not its own
\* (_create_new_file, and the removal in get_attachment).
THEOREM DownloadOthersFilesKept == DownloadSpec => []OthersFilesKept
  <1>1. DownloadIInv => OthersFilesKept
    BY DEF DownloadIInv, InHandInv, TheirsInv, OthersFilesKept
  <1> QED
    BY DownloadInvariant, <1>1, PTL

-----------------------------------------------------------------------------
\* ItemActions: changes of items, one by one or in a batch.

\* The parts of a request.
LEMMA ActionParts ==
  ASSUME NEW r \in ActionRequests
  PROVE  /\ r.tool \in Looped \cup Blind \cup Batched
         /\ r.ids \in Seq(Objects) /\ Len(r.ids) \in Nat
         /\ r.x \in {Missing} \cup Nat /\ r.y \in {Missing} \cup Nat
         /\ Flag(r) \in {Missing} \cup Nat
         /\ r.mode \in {"set", "add", "remove"} /\ r.tags \subseteq Tags
         /\ r.foreign \in BOOLEAN
         /\ r.foreign => r.tool \in Batched
<1>1. r \in ActionType
  BY ActionAssumption
<1>2. r.foreign => r.tool \in Batched
  BY ActionAssumption
<1>3. /\ r.tool \in Looped \cup Blind \cup Batched
      /\ r.ids \in Seq(Objects)
      /\ r.x \in {Missing} \cup Nat /\ r.y \in {Missing} \cup Nat
      /\ r.mode \in {"set", "add", "remove"} /\ r.tags \subseteq Tags
      /\ r.foreign \in BOOLEAN
  BY <1>1 DEF ActionType
<1>4. Flag(r) \in {Missing} \cup Nat
  BY <1>3 DEF Flag
<1> QED
  BY <1>2, <1>3, <1>4

\* What is named, by the tool.
LEMMA NamedFields ==
  ASSUME NEW r \in ActionRequests
  PROVE  /\ Named(r) \subseteq ObjectFields
         /\ "x" \in Named(r) => r.x \in Nat
         /\ "y" \in Named(r) => Flag(r) \in Nat
         /\ "tags" \in Named(r) <=> r.tool = "categorize"
         /\ r.tool \in Deletes \cup Moves => Named(r) = {}
<1>1. r.tool \in Looped \cup Blind \cup Batched
  BY ActionParts
<1>2. CASE r.tool = "categorize"
  BY <1>2 DEF Named, ObjectFields, Deletes, Moves
<1>3. CASE r.tool \in {"mark", "update_contact", "update_rule", "set_oof"}
  <2>1. Named(r) = {f \in {"x", "y"} : (IF f = "x" THEN r.x ELSE Flag(r)) # Missing}
    BY <1>3 DEF Named, PlainFields
  <2> QED
    BY <1>3, <2>1, ActionParts DEF ObjectFields, PlainFields, Deletes, Moves
<1>4. CASE r.tool \in Deletes \cup Moves
  <2>1. Named(r) = {}
    BY <1>4 DEF Named, Deletes, Moves
  <2> QED
    BY <1>4, <2>1 DEF ObjectFields, Deletes, Moves
<1> QED
  BY <1>1, <1>2, <1>3, <1>4 DEF Looped, Blind, Batched, Deletes, Moves

\* What a call makes of an item in memory, field by field.
LEMMA ChangedFields ==
  ASSUME NEW r \in ActionRequests, NEW o \in ObjectType
  PROVE  /\ Changed(r, o) \in ObjectType
         /\ Changed(r, o).live = o.live
         /\ Changed(r, o).x = IF "x" \in Named(r) THEN r.x ELSE o.x
         /\ Changed(r, o).y = IF "y" \in Named(r) THEN Flag(r) ELSE o.y
         /\ Changed(r, o).tags = IF "tags" \in Named(r) THEN NewTags(r, o.tags) ELSE o.tags
         /\ \A f \in ObjectFields \ Named(r) : Changed(r, o)[f] = o[f]
<1>1. o = [live |-> o.live, x |-> o.x, y |-> o.y, tags |-> o.tags]
      /\ o.live \in BOOLEAN /\ o.x \in Nat /\ o.y \in Nat /\ o.tags \in SUBSET Tags
  BY DEF ObjectType
<1>2. NewTags(r, o.tags) \in SUBSET Tags
  BY <1>1, ActionParts DEF NewTags
<1>3. Changed(r, o) = [live |-> o.live,
                       x |-> IF "x" \in Named(r) THEN r.x ELSE o.x,
                       y |-> IF "y" \in Named(r) THEN Flag(r) ELSE o.y,
                       tags |-> IF "tags" \in Named(r) THEN NewTags(r, o.tags) ELSE o.tags]
  <2> DEFINE N == Named(r)
             T == NewTags(r, o.tags)
             y == Flag(r)
  <2>1. Changed(r, o) = [o EXCEPT !.x = IF "x" \in N THEN r.x ELSE @,
                                  !.y = IF "y" \in N THEN y ELSE @,
                                  !.tags = IF "tags" \in N THEN T ELSE @]
    BY DEF Changed
  <2> HIDE DEF N, T, y
  <2>2. Changed(r, o) = [live |-> o.live,
                         x |-> IF "x" \in N THEN r.x ELSE o.x,
                         y |-> IF "y" \in N THEN y ELSE o.y,
                         tags |-> IF "tags" \in N THEN T ELSE o.tags]
    BY <1>1, <2>1
  <2> QED
    BY <2>2 DEF N, T, y
<1>4. Changed(r, o) \in ObjectType
  BY <1>1, <1>2, <1>3, NamedFields DEF ObjectType
<1> QED
  BY <1>3, <1>4 DEF ObjectFields, PlainFields

\* Asking twice is asking once.
LEMMA AskedAgain ==
  ASSUME NEW r \in ActionRequests, NEW o \in ObjectType, NEW t \in ObjectType,
         NEW f \in Named(r), o[f] = t[f] \/ o[f] = Changed(r, t)[f]
  PROVE  Changed(r, o)[f] = Changed(r, t)[f]
<1>1. f \in {"x", "y", "tags"}
  BY NamedFields DEF ObjectFields, PlainFields
<1>2. CASE f = "x" \/ f = "y"
  BY <1>2, ChangedFields
<1>3. CASE f = "tags"
  <2>1. /\ Changed(r, o).tags = NewTags(r, o.tags)
        /\ Changed(r, t).tags = NewTags(r, t.tags)
    BY <1>3, ChangedFields
  <2>2. NewTags(r, NewTags(r, t.tags)) = NewTags(r, t.tags)
    BY ActionParts DEF NewTags
  <2> QED
    BY <1>3, <2>1, <2>2
<1> QED
  BY <1>1, <1>2, <1>3

\* What the server makes of it.
LEMMA WrittenFields ==
  ASSUME NEW r \in ActionRequests, NEW o \in ObjectType, NEW now \in ObjectType,
         r.tool \in {"mark", "update_contact"} => Named(r) # {}
  PROVE  /\ Written(r, o, now) \in ObjectType
         /\ \A f \in Named(r) : Written(r, o, now)[f] = Changed(r, o)[f]
         /\ \A f \in ObjectFields \ Named(r) :
              Written(r, o, now)[f] = IF r.tool = "update_rule" THEN o[f] ELSE now[f]
         /\ r.tool \in Deletes => ~Written(r, o, now).live
<1>1. now = [live |-> now.live, x |-> now.x, y |-> now.y, tags |-> now.tags]
      /\ now.live \in BOOLEAN /\ now.x \in Nat /\ now.y \in Nat /\ now.tags \in SUBSET Tags
  BY DEF ObjectType
<1>2. r.tool \in Looped \cup Blind \cup Batched
  BY ActionParts
<1>3. CASE r.tool \in {"delete", "delete_rule", "move", "bulk_delete", "bulk_move"}
  <2>1. Written(r, o, now) = [now EXCEPT !.live = FALSE]
    BY <1>3 DEF Written
  <2>2. Named(r) = {}
    BY <1>3, NamedFields DEF Deletes, Moves
  <2>3. Written(r, o, now) = [live |-> FALSE, x |-> now.x, y |-> now.y, tags |-> now.tags]
    BY <1>1, <2>1
  <2> QED
    BY <1>1, <1>3, <2>2, <2>3 DEF ObjectType, ObjectFields, PlainFields
<1>4. CASE r.tool \in {"copy", "bulk_copy"}
  <2>1. Written(r, o, now) = now
    BY <1>4 DEF Written
  <2>2. Named(r) = {}
    BY <1>4, NamedFields DEF Moves
  <2> QED
    BY <1>4, <2>1, <2>2 DEF Deletes
<1>5. CASE r.tool = "update_rule"
  <2>1. Written(r, o, now) = Changed(r, o)
    BY <1>5 DEF Written
  <2> QED
    BY <1>5, <2>1, ChangedFields DEF Deletes
<1>6. CASE r.tool \in {"mark", "update_contact", "categorize", "set_oof"}
  <2>1. Written(r, o, now) =
          [f \in DOMAIN now |-> IF f \in Named(r) THEN Changed(r, o)[f] ELSE now[f]]
    BY <1>6 DEF Written
  <2>2. DOMAIN now = {"live", "x", "y", "tags"}
    BY <1>1
  <2>3. Named(r) \subseteq ObjectFields /\ "live" \notin Named(r)
    BY NamedFields DEF ObjectFields, PlainFields
  <2>4. \A f \in ObjectFields : Written(r, o, now)[f] =
          IF f \in Named(r) THEN Changed(r, o)[f] ELSE now[f]
    BY <2>1, <2>2 DEF ObjectFields, PlainFields
  <2>5. Written(r, o, now) \in ObjectType
    <3>1. Changed(r, o) \in ObjectType
      BY ChangedFields
    <3>2. Changed(r, o).x \in Nat /\ Changed(r, o).y \in Nat /\ Changed(r, o).tags \in SUBSET Tags
      BY <3>1 DEF ObjectType
    <3>3. Written(r, o, now) =
            [live |-> now.live,
             x |-> IF "x" \in Named(r) THEN Changed(r, o).x ELSE now.x,
             y |-> IF "y" \in Named(r) THEN Changed(r, o).y ELSE now.y,
             tags |-> IF "tags" \in Named(r) THEN Changed(r, o).tags ELSE now.tags]
      BY <2>1, <2>2, <2>3
    <3> QED
      BY <1>1, <3>2, <3>3 DEF ObjectType
  <2> QED
    BY <1>6, <2>3, <2>4, <2>5 DEF Deletes
<1> QED
  BY <1>2, <1>3, <1>4, <1>5, <1>6 DEF Looped, Blind, Batched
-----------------------------------------------------------------------------
LEMMA ActionInitInv == ActionInit => ActionIInv
<1> SUFFICES ASSUME ActionInit PROVE ActionIInv
  OBVIOUS
<1>1. action \in ActionRequests /\ action.ids \in Seq(Objects)
  BY ActionParts DEF ActionInit
<1>2. objects \in [Objects -> ObjectType]
  <2>1. ASSUME NEW T \in TagSets PROVE [Blank EXCEPT !.tags = T] \in ObjectType
    <3>1. Blank \in ObjectType
      BY DEF Blank, ObjectType
    <3>2. T \in SUBSET Tags
      BY ActionAssumption
    <3>3. ASSUME NEW b \in ObjectType PROVE [b EXCEPT !.tags = T] \in ObjectType
      BY <3>2 DEF ObjectType
    <3> QED
      BY <3>1, <3>3
  <2> QED
    BY <2>1 DEF ActionInit
<1>3. ActionTyped
  BY <1>1, <1>2, ActionAssumption DEF ActionInit, ActionTyped
<1>4. InTurn
  BY <1>1 DEF ActionInit, InTurn
<1>5. HeldTrue /\ VerdictsGiven
  BY DEF ActionInit, HeldTrue, VerdictsGiven
<1>6. FieldsTrue
  BY DEF ActionInit, FieldsTrue, FieldKept, TagKept, AsItWasOrAsked
<1>7. AnswersTrue
  BY DEF ActionInit, AnswersTrue
<1> QED
  BY <1>3, <1>4, <1>5, <1>6, <1>7 DEF ActionIInv

LEMMA CallAgainInv == \A r \in ActionRequests : ActionIInv /\ CallAgain(r) => ActionIInv'
<1> SUFFICES ASSUME NEW r \in ActionRequests, ActionIInv, CallAgain(r) PROVE ActionIInv'
  OBVIOUS
<1>1. r.ids \in Seq(Objects)
  BY ActionParts
<1>2. ActionTyped'
  <2>1. /\ objects' = objects /\ twin' = objects /\ action' = r /\ pending' = r.ids
        /\ held' = held /\ answers' = <<>> /\ carried' = <<>> /\ verdicts' = <<>>
        /\ ended' = "none" /\ edited' = [i \in Objects |-> {}]
        /\ raced' = [i \in Objects |-> {}]
        /\ actions' = actions + 1 /\ actions < MaxActions /\ ownerEdits' = ownerEdits
    BY DEF CallAgain
  <2>2. actions' \in 0..MaxActions
    BY <2>1, ActionAssumption DEF ActionIInv, ActionTyped
  <2> QED
    BY <1>1, <2>1, <2>2 DEF ActionIInv, ActionTyped
<1>3. InTurn'
  BY <1>1 DEF CallAgain, InTurn
<1>4. HeldTrue' /\ VerdictsGiven'
  BY DEF CallAgain, ActionIInv, HeldTrue, VerdictsGiven, Running
<1>5. FieldsTrue'
  BY DEF CallAgain, FieldsTrue, FieldKept, TagKept, AsItWasOrAsked
<1>6. AnswersTrue'
  BY DEF CallAgain, AnswersTrue
<1> QED
  BY <1>2, <1>3, <1>4, <1>5, <1>6 DEF ActionIInv

-----------------------------------------------------------------------------
\* The id that is next.
LEMMA NextId ==
  ASSUME ActionIInv, Running
  PROVE  /\ Head(pending) \in Objects
         /\ Head(pending) = action.ids[Len(carried) + 1]
         /\ Head(pending) \in ToSet(action.ids)
         /\ Len(carried) + 1 \in 1..Len(action.ids)
         /\ Tail(pending) \in Seq(Objects)
         /\ Len(Tail(pending)) = Len(pending) - 1
         /\ \A k \in 1..Len(Tail(pending)) : Tail(pending)[k] = pending[k + 1]
<1>1. pending \in Seq(Objects) /\ pending # <<>> /\ carried \in Seq(BOOLEAN)
      /\ action.ids \in Seq(Objects)
  BY ActionParts DEF ActionIInv, ActionTyped, Running
<1>2. Len(pending) \in Nat \ {0} /\ Len(carried) \in Nat /\ Len(action.ids) \in Nat
  BY <1>1
<1>3. /\ Head(pending) = pending[1] /\ pending[1] \in Objects
      /\ Tail(pending) \in Seq(Objects) /\ Len(Tail(pending)) = Len(pending) - 1
      /\ \A k \in 1..Len(Tail(pending)) : Tail(pending)[k] = pending[k + 1]
  BY <1>1, <1>2
<1>4. /\ Len(carried) + Len(pending) = Len(action.ids)
      /\ pending[1] = action.ids[Len(carried) + 1]
  BY <1>2 DEF ActionIInv, InTurn, Running
<1>5. Len(carried) + 1 \in 1..Len(action.ids) /\ Len(carried) + 1 \in DOMAIN action.ids
  BY <1>1, <1>2, <1>4
<1>6. Head(pending) \in ToSet(action.ids)
  BY <1>3, <1>4, <1>5 DEF ToSet
<1> QED
  BY <1>3, <1>4, <1>5, <1>6

\* A step may not undo what an answer says.
Undone ==
  \/ \E i \in Objects : ~objects[i].live /\ objects'[i].live
  \/ \E i \in Objects, f \in ObjectFields :
       /\ f \in Named(action) \ edited'[i]
       /\ f \notin edited[i] => objects[i][f] = Changed(action, twin[i])[f]
       /\ f \notin edited[i] => objects'[i][f] # Changed(action, twin[i])[f]'

LEMMA AnswerStays ==
  ASSUME ActionIInv, ~Undone, action' = action, ended # "error",
         NEW n \in 1..Len(carried), NEW a, AnswerTrue(n, a), carried'[n] = carried[n],
         \A i \in Objects : edited[i] \subseteq edited'[i]
  PROVE  AnswerTrue(n, a)'
<1> DEFINE i == action.ids[n]
<1>1. i \in Objects
  <2>1. Len(carried) \in Nat /\ Len(pending) \in Nat /\ action.ids \in Seq(Objects)
    BY ActionParts DEF ActionIInv, ActionTyped
  <2>2. Len(carried) + Len(pending) = Len(action.ids)
    BY DEF ActionIInv, InTurn
  <2>3. n \in 1..Len(action.ids)
    BY <2>1, <2>2
  <2> QED
    BY <2>1, <2>3
<1>2. action.ids' = action.ids /\ action.tool' = action.tool /\ Named(action)' = Named(action)
  BY DEF Named, Flag
<1>3. ~objects[i].live => ~objects'[i].live
  BY <1>1 DEF Undone
<1>4. Named(action) \subseteq ObjectFields
  BY NamedFields DEF ActionIInv, ActionTyped
<1>5. ASSUME a = "done" PROVE DoneIsTrue(n)'
  <2>1. DoneIsTrue(n)
    BY <1>5 DEF AnswerTrue
  <2>2. CASE action.tool \in Deletes
    BY <1>2, <1>3, <2>1, <2>2 DEF DoneIsTrue, Deletes
  <2>3. CASE action.tool \in Moves /\ action.tool \notin Deletes
    BY <1>2, <2>1, <2>3 DEF DoneIsTrue, Moves, Deletes
  <2>4. CASE action.tool \notin Moves /\ action.tool \notin Deletes
    <3> SUFFICES ASSUME NEW f \in Named(action) \ edited'[i]
                 PROVE  objects'[i][f] = Changed(action, twin[i])[f]'
      BY <1>2, <2>4 DEF DoneIsTrue, Moves, Deletes
    <3>1. f \notin edited[i]
      BY <1>1
    <3>2. objects[i][f] = Changed(action, twin[i])[f]
      BY <2>1, <2>4, <3>1 DEF DoneIsTrue
    <3> QED
      BY <1>1, <1>4, <3>1, <3>2 DEF Undone
  <2> QED
    BY <2>2, <2>3, <2>4
<1>6. a = "missing" => ~objects'[i].live
  BY <1>3 DEF AnswerTrue
<1> QED
  BY <1>2, <1>5, <1>6 DEF AnswerTrue, Batched

\* The first id is dealt with, in whatever way: what remains to be shown of it.
LEMMA DealtInv ==
  ASSUME ActionIInv, Running, NEW a \in Answer, NEW done \in BOOLEAN, Dealt(a, done),
         objects' \in [Objects -> ObjectType], FieldsTrue', ~Undone,
         NEW m \in Nat, m = Len(carried) + 1, AnswerTrue(m, a)'
  PROVE  ActionIInv'
<1>1. /\ pending' = Tail(pending) /\ held' = <<>>
      /\ answers' = IF NoResult(action, a) THEN answers ELSE Append(answers, a)
      /\ carried' = Append(carried, done)
      /\ UNCHANGED <<action, verdicts, ended, twin, edited, raced, actions, ownerEdits>>
  BY DEF Dealt
<1>2. /\ carried \in Seq(BOOLEAN) /\ answers \in Seq(Answer)
      /\ Len(carried) \in Nat /\ Len(answers) \in Nat
      /\ Len(answers) <= Len(carried)
      /\ ~action.foreign => Len(answers) = Len(carried)
      /\ Len(carried) + Len(pending) = Len(action.ids) /\ Len(pending) \in Nat
      /\ ended = "none"
  BY DEF ActionIInv, ActionTyped, InTurn, Running
<1>3. /\ Len(carried') = Len(carried) + 1
      /\ \A n \in 1..Len(carried) : carried'[n] = carried[n]
      /\ carried' \in Seq(BOOLEAN)
  BY <1>1, <1>2
<1>4. answers' \in Seq(Answer)
  BY <1>1, <1>2
<1>5. ActionTyped'
  BY <1>1, <1>3, <1>4, NextId DEF ActionIInv, ActionTyped
<1>6. NoResult(action, a) <=> action.foreign /\ a = "done"
  BY DEF NoResult
<1>7. /\ ~action.foreign => Len(answers') = Len(carried')
      /\ Len(answers') <= Len(carried')
  BY <1>1, <1>2, <1>3, <1>6
<1>8. InTurn'
  <2>1. Len(carried') + Len(pending') = Len(action.ids)
    <3>1. Len(pending') = Len(pending) - 1
      BY <1>1, NextId
    <3>2. Len(carried') = Len(carried) + 1
      BY <1>3
    <3>3. /\ Len(carried) + Len(pending) = Len(action.ids)
          /\ Len(carried) \in Nat /\ Len(pending) \in Nat
      BY <1>2
    <3> QED
      BY <3>1, <3>2, <3>3
  <2>2. \A k \in 1..Len(pending') : pending'[k] = action.ids[Len(carried') + k]
    <3> SUFFICES ASSUME NEW k \in 1..Len(pending')
                 PROVE  pending'[k] = action.ids[Len(carried') + k]
      OBVIOUS
    <3>1. Len(pending') = Len(pending) - 1 /\ pending'[k] = pending[k + 1]
      BY <1>1, NextId
    <3>2. k + 1 \in 1..Len(pending)
      BY <1>2, <3>1
    <3>3. pending[k + 1] = action.ids[Len(carried) + (k + 1)]
      BY <1>2, <3>2 DEF ActionIInv, InTurn
    <3>4. Len(carried) + (k + 1) = Len(carried') + k
      BY <1>2, <1>3, <3>1
    <3> QED
      BY <3>1, <3>3, <3>4
  <2> QED
    BY <1>1, <1>2, <1>7, <2>1, <2>2 DEF InTurn
<1>9. HeldTrue' /\ VerdictsGiven'
  BY <1>1, <1>2 DEF HeldTrue, VerdictsGiven
<1>10. AnswersTrue'
  <2>1. ASSUME NEW n \in 1..Len(carried), NEW b, AnswerTrue(n, b)
        PROVE  AnswerTrue(n, b)'
    BY <1>1, <1>2, <1>3, <2>1, AnswerStays
  <2>2. ASSUME ~action.foreign, NEW n \in 1..Len(answers'), NEW b, answers'[n] = b
        PROVE  AnswerTrue(n, b)'
    <3>1. answers' = Append(answers, a) /\ Len(answers) = Len(carried)
      BY <1>1, <1>2, <1>6, <2>2
    <3>2. CASE n \in 1..Len(answers)
      <4>1. answers[n] = b
        BY <1>2, <2>2, <3>1, <3>2
      <4>2. AnswerTrue(n, b)
        BY <1>2, <2>2, <3>2, <4>1 DEF ActionIInv, AnswersTrue
      <4> QED
        BY <2>1, <3>1, <3>2, <4>2
    <3>3. CASE n = Len(answers) + 1
      <4>1. b = a /\ n = m
        BY <1>2, <2>2, <3>1, <3>3
      <4> QED
        BY <4>1
    <3> QED
      BY <1>2, <3>1, <3>2, <3>3
  <2>3. ASSUME ~action.foreign, NEW n \in 1..Len(answers')
        PROVE  AnswerTrue(n, answers[n])'
    BY <2>2, <2>3 DEF AnswerTrue
  <2>4. ASSUME action.foreign, answers' = <<>>, NEW n \in 1..Len(carried')
        PROVE  AnswerTrue(n, "done")'
    <3>1. a = "done" /\ answers = <<>>
      <4>1. Append(answers, a) # <<>>
        BY <1>2, SMTT(30)
      <4> QED
        BY <1>1, <1>6, <2>4, <4>1
    <3>2. CASE n \in 1..Len(carried)
      <4>1. AnswerTrue(n, "done")
        BY <1>2, <2>4, <3>1, <3>2 DEF ActionIInv, AnswersTrue
      <4> QED
        BY <2>1, <3>2, <4>1
    <3>3. CASE n = m
      BY <3>1, <3>3
    <3> QED
      BY <1>2, <1>3, <3>2, <3>3
  <2> QED
    BY <1>1, <2>3, <2>4 DEF AnswersTrue
<1> QED
  BY <1>5, <1>8, <1>9, <1>10 DEF ActionIInv

-----------------------------------------------------------------------------
\* A write of what was held leaves every plain field and every tag as it was or as
\* asked for, but for those of a rule or of categories that changed since.
LEMMA WrittenKept ==
  ASSUME ActionIInv, NEW i \in Objects, Acted(i), NEW o \in ObjectType,
         UNCHANGED <<action, twin, raced>>,
         action.tool \in {"mark", "update_contact"} => Named(action) # {},
         action.tool \in {"update_rule", "categorize"} => HeldFresh(o, i),
         objects'[i] = Written(action, o, objects[i])
  PROVE  /\ \A f \in PlainFields : FieldKept(i, f)'
         /\ \A t \in Tags : TagKept(i, t)'
<1> DEFINE w == Written(action, o, objects[i])
           r == action
<1>1. /\ r \in ActionRequests /\ objects[i] \in ObjectType
      /\ objects'[i] = w /\ twin'[i] = twin[i] /\ raced'[i] = raced[i]
  BY DEF ActionIInv, ActionTyped
<1>2. /\ \A f \in Named(r) : w[f] = Changed(r, o)[f]
      /\ \A f \in ObjectFields \ Named(r) :
           w[f] = IF r.tool = "update_rule" THEN o[f] ELSE objects[i][f]
  BY <1>1, WrittenFields
<1>3. /\ Named(r) \subseteq ObjectFields /\ ("tags" \in Named(r) <=> r.tool = "categorize")
      /\ r.mode \in {"set", "add", "remove"}
  BY <1>1, NamedFields, ActionParts
<1>4. /\ action' = action /\ Named(action)' = Named(action) /\ Flag(action)' = Flag(action)
      /\ Acted(i)'
  BY DEF Named, Flag, Acted, ToSet
<1> HIDE DEF w
<1>5. ASSUME NEW f \in PlainFields PROVE FieldKept(i, f)'
  <2>1. f \in ObjectFields /\ FieldKept(i, f)
    BY DEF ObjectFields, ActionIInv, FieldsTrue
  <2>2. CASE f \in Named(r)
    <3>1. w[f] = (IF f = "x" THEN action.x ELSE Flag(action))
      <4>1. w[f] = Changed(r, o)[f]
        BY <1>2, <2>2
      <4>2. f = "x" \/ f = "y"
        BY DEF PlainFields
      <4> QED
        BY <1>1, <2>2, <4>1, <4>2, ChangedFields
    <3> QED
      BY <1>1, <1>4, <2>2, <3>1 DEF FieldKept
  <2>3. CASE f \notin Named(r) /\ (r.tool # "update_rule" \/ f \notin raced[i])
    <3>1. w[f] = objects[i][f]
      BY <1>2, <2>1, <2>3 DEF HeldFresh
    <3> QED
      BY <1>1, <1>4, <2>1, <3>1 DEF FieldKept, Acted
  <2>4. CASE r.tool = "update_rule" /\ f \in raced[i]
    BY <1>1, <1>4, <2>4 DEF FieldKept
  <2> QED
    BY <2>2, <2>3, <2>4
<1>6. ASSUME NEW t \in Tags PROVE TagKept(i, t)'
  <2>1. "tags" \in ObjectFields /\ TagKept(i, t)
    BY DEF ObjectFields, ActionIInv, FieldsTrue
  <2>2. CASE r.tool \in {"categorize", "update_rule"} /\ t \in raced[i]
    BY <1>1, <1>4, <2>2 DEF TagKept
  <2>3. CASE t \in w.tags <=> t \in objects[i].tags
    <3>1. Acted(i)' <=> Acted(i)
      BY <1>4
    <3> QED
      BY <1>1, <1>4, <2>1, <2>3, <3>1 DEF TagKept
  <2>4. CASE r.tool \notin {"categorize", "update_rule"}
    <3>1. w["tags"] = objects[i]["tags"]
      BY <1>2, <1>3, <2>1, <2>4
    <3> QED
      BY <2>3, <3>1
  <2>5. CASE r.tool = "update_rule" /\ t \notin raced[i]
    <3>1. w["tags"] = o["tags"]
      BY <1>2, <1>3, <2>1, <2>5
    <3>2. t \in o.tags <=> t \in objects[i].tags
      BY <2>5 DEF HeldFresh
    <3> QED
      BY <2>3, <3>1, <3>2
  <2>6. CASE r.tool = "categorize" /\ t \notin raced[i]
    <3>1. w.tags = NewTags(r, o.tags)
      <4>1. "tags" \in Named(r) /\ w["tags"] = Changed(r, o)["tags"]
        BY <1>2, <1>3, <2>6
      <4>2. Changed(r, o).tags = NewTags(r, o.tags)
        BY <1>1, <4>1, ChangedFields
      <4> QED
        BY <4>1, <4>2
    <3>2. t \in o.tags <=> t \in objects[i].tags
      BY <2>6 DEF HeldFresh
    <3>3. CASE r.mode = "set"
      <4>1. w.tags = r.tags
        BY <3>1, <3>3 DEF NewTags
      <4> QED
        BY <1>1, <1>4, <2>6, <3>3, <4>1 DEF TagKept
    <3>4. CASE r.mode = "add"
      <4>1. w.tags = o.tags \cup r.tags
        BY <3>1, <3>4 DEF NewTags
      <4>2. CASE t \in r.tags
        BY <1>1, <1>4, <2>6, <3>4, <4>1, <4>2 DEF TagKept
      <4>3. CASE t \notin r.tags
        BY <2>3, <3>2, <4>1, <4>3
      <4> QED
        BY <4>2, <4>3
    <3>5. CASE r.mode = "remove"
      <4>1. w.tags = o.tags \ r.tags
        BY <3>1, <3>5 DEF NewTags
      <4>2. CASE t \in r.tags
        BY <1>1, <1>4, <2>6, <3>5, <4>1, <4>2 DEF TagKept
      <4>3. CASE t \notin r.tags
        BY <2>3, <3>2, <4>1, <4>3
      <4> QED
        BY <4>2, <4>3
    <3> QED
      BY <1>3, <3>3, <3>4, <3>5
  <2> QED
    BY <2>2, <2>4, <2>5, <2>6
<1> QED
  BY <1>5, <1>6

\* The first id's item is written.
LEMMA WriteKeeps ==
  ASSUME ActionIInv, Running, NEW o \in ObjectType,
         objects[Head(pending)].live,
         objects' = [objects EXCEPT ![Head(pending)] = Written(action, o, @)],
         UNCHANGED <<action, twin, edited, raced>>,
         action.tool \in {"mark", "update_contact"} => Named(action) # {},
         action.tool \in {"update_rule", "categorize"} => HeldFresh(o, Head(pending)),
         \A f \in Named(action) \ edited[Head(pending)] :
           Changed(action, o)[f] = Changed(action, twin[Head(pending)])[f]
  PROVE  /\ objects' \in [Objects -> ObjectType] /\ FieldsTrue' /\ ~Undone
         /\ action.tool \in Deletes => ~objects'[Head(pending)].live
         /\ \A f \in Named(action) \ edited[Head(pending)] :
              objects'[Head(pending)][f] = Changed(action, twin[Head(pending)])[f]
<1> DEFINE i == Head(pending)
           w == Written(action, o, objects[i])
<1>1. /\ i \in Objects /\ i \in ToSet(action.ids) /\ action \in ActionRequests
      /\ objects \in [Objects -> ObjectType]
  BY NextId DEF ActionIInv, ActionTyped
<1>2. /\ w \in ObjectType
      /\ \A f \in Named(action) : w[f] = Changed(action, o)[f]
      /\ \A f \in ObjectFields \ Named(action) :
           w[f] = IF action.tool = "update_rule" THEN o[f] ELSE objects[i][f]
      /\ action.tool \in Deletes => ~w.live
  BY <1>1, WrittenFields
<1>3. objects' = [objects EXCEPT ![i] = w]
  OBVIOUS
<1>4. /\ objects' \in [Objects -> ObjectType] /\ objects'[i] = w
      /\ \A j \in Objects \ {i} : objects'[j] = objects[j]
  BY <1>1, <1>2, <1>3
<1>5. /\ Named(action)' = Named(action) /\ Named(action) \subseteq ObjectFields
      /\ Flag(action)' = Flag(action)
      /\ \A j : Changed(action, twin[j])' = Changed(action, twin[j])
      /\ \A j : Acted(j)' <=> Acted(j)
  BY <1>1, NamedFields DEF Named, Flag, Changed, NewTags, Acted, ToSet
<1>6. FieldsTrue'
  <2>1. ASSUME NEW j \in Objects
        PROVE  /\ \A f \in PlainFields : FieldKept(j, f)'
               /\ \A t \in Tags : TagKept(j, t)'
    <3>1. CASE j = i
      <4>1. Acted(i)
        BY <1>1 DEF Acted
      <4> QED
        BY <1>1, <1>4, <3>1, <4>1, WrittenKept
    <3>2. CASE j # i
      <4>1. objects'[j] = objects[j] /\ twin'[j] = twin[j] /\ raced'[j] = raced[j]
        BY <1>4, <3>2
      <4>2. /\ \A f \in PlainFields : FieldKept(j, f)
            /\ \A t \in Tags : TagKept(j, t)
        BY DEF ActionIInv, FieldsTrue
      <4> QED
        BY <1>5, <4>1, <4>2 DEF FieldKept, TagKept
    <3> QED
      BY <3>1, <3>2
  <2>2. ASSUME NEW j \in Objects, NEW f \in ObjectFields \ edited[j]
        PROVE  \/ objects'[j][f] = twin[j][f]
               \/ objects'[j][f] = Changed(action, twin[j])[f]
    <3>1. \/ objects[j][f] = twin[j][f]
          \/ objects[j][f] = Changed(action, twin[j])[f]
      BY DEF ActionIInv, FieldsTrue, AsItWasOrAsked
    <3>2. CASE j # i
      BY <1>4, <3>1, <3>2
    <3>3. CASE j = i /\ f \in Named(action)
      <4>1. Changed(action, o)[f] = Changed(action, twin[i])[f]
        BY <2>2, <3>3
      <4> QED
        BY <1>2, <1>4, <3>3, <4>1
    <3>4. CASE j = i /\ f \notin Named(action)
      <4>1. w[f] = objects[i][f]
        BY <1>2, <2>2, <3>4 DEF HeldFresh
      <4> QED
        BY <1>4, <3>1, <3>4, <4>1
    <3> QED
      BY <3>2, <3>3, <3>4
  <2> QED
    BY <1>5, <2>1, <2>2 DEF FieldsTrue, AsItWasOrAsked
<1>7. ~Undone
  <2>1. ASSUME NEW j \in Objects, ~objects[j].live PROVE ~objects'[j].live
    BY <1>4, <2>1
  <2>2. ASSUME NEW j \in Objects, NEW f \in Named(action) \ edited[j],
               objects[j][f] = Changed(action, twin[j])[f]
        PROVE  objects'[j][f] = Changed(action, twin[j])[f]
    BY <1>2, <1>4, <2>2
  <2> QED
    BY <1>5, <2>1, <2>2 DEF Undone
<1> QED
  BY <1>2, <1>4, <1>6, <1>7

\* Nothing is written.
LEMMA NoWriteKeeps ==
  ASSUME ActionIInv, UNCHANGED <<objects, action, twin, edited, raced>>
  PROVE  objects' \in [Objects -> ObjectType] /\ FieldsTrue' /\ ~Undone
<1>1. /\ Named(action)' = Named(action) /\ Flag(action)' = Flag(action)
      /\ \A j : Changed(action, twin[j])' = Changed(action, twin[j])
  BY DEF Named, Flag, Changed, NewTags
<1>2. FieldsTrue'
  <2>1. \A j, f : FieldKept(j, f)' <=> FieldKept(j, f)
    BY <1>1 DEF FieldKept, Acted, ToSet
  <2>2. \A j, t : TagKept(j, t)' <=> TagKept(j, t)
    BY DEF TagKept, Acted, ToSet
  <2> QED
    BY <1>1, <2>1, <2>2 DEF ActionIInv, FieldsTrue, AsItWasOrAsked
<1> QED
  BY <1>1, <1>2 DEF ActionIInv, ActionTyped, Undone

LEMMA NothingHappens ==
  ASSUME AnswersTrue, UNCHANGED <<objects, action, twin, edited, answers, carried, ended>>
  PROVE  AnswersTrue'
<1>1. /\ Named(action)' = Named(action)
      /\ \A j : Changed(action, twin[j])' = Changed(action, twin[j])
  BY DEF Named, Flag, Changed, NewTags
<1>2. \A n : DoneIsTrue(n)' <=> DoneIsTrue(n)
  BY <1>1 DEF DoneIsTrue, Deletes, Moves
<1>3. \A n, a : AnswerTrue(n, a)' <=> AnswerTrue(n, a)
  BY <1>2 DEF AnswerTrue, Batched
<1> QED
  BY <1>3 DEF AnswersTrue

LEMMA FetchObjectInv == ActionIInv /\ FetchObject => ActionIInv'
<1> SUFFICES ASSUME ActionIInv, FetchObject PROVE ActionIInv'
  OBVIOUS
<1> DEFINE i == Head(pending)
           o == objects[i]
<1>1. /\ Running /\ action.tool \in Looped /\ held = <<>> /\ UNCHANGED objects
      /\ i \in Objects /\ o \in ObjectType /\ action \in ActionRequests
      /\ twin[i] \in ObjectType
      /\ ended = "none" /\ pending # <<>>
  BY NextId DEF FetchObject, ActionIInv, ActionTyped, Running
<1>2. CASE o.live /\ NothingToSave(action, o) /\ Dealt("done", FALSE)
  <2>1. UNCHANGED <<action, twin, edited, raced>>
    BY <1>2 DEF Dealt
  <2>2. action.tool \in {"categorize", "mark", "update_contact"}
    BY <1>2 DEF NothingToSave
  <2>3. ASSUME NEW f \in Named(action) \ edited[i]
        PROVE  objects[i][f] = Changed(action, twin[i])[f]
    <3>1. action.tool = "categorize" /\ f = "tags" /\ NewTags(action, o.tags) = o.tags
      <4>1. Named(action) # {}
        BY <2>3
      <4>2. action.tool = "categorize"
        BY <1>2, <2>2, <4>1 DEF NothingToSave
      <4>3. Named(action) = {"tags"}
        BY <4>2 DEF Named
      <4> QED
        BY <1>2, <2>3, <4>2, <4>3 DEF NothingToSave
    <3>2. Changed(action, o)[f] = o[f]
      BY <1>1, <2>3, <3>1, ChangedFields
    <3>3. AsItWasOrAsked(i, f)
      BY <1>1, <2>3, <3>1 DEF ActionIInv, FieldsTrue, ObjectFields
    <3>4. Changed(action, o)[f] = Changed(action, twin[i])[f]
      BY <1>1, <2>3, <3>3, AskedAgain DEF AsItWasOrAsked
    <3> QED
      BY <3>2, <3>4
  <2>4. PICK m \in Nat : m = Len(carried) + 1 /\ action.ids[m] = i
    <3>1. Len(carried) \in Nat
      BY DEF ActionIInv, ActionTyped
    <3> QED
      BY <1>1, <3>1, NextId
  <2>5. /\ Named(action)' = Named(action)
        /\ \A j : Changed(action, twin[j])' = Changed(action, twin[j])
    BY <1>1, <2>1 DEF Named, Flag, Changed, NewTags
  <2>6. AnswerTrue(m, "done")'
    BY <1>1, <2>1, <2>2, <2>3, <2>4, <2>5 DEF AnswerTrue, DoneIsTrue, Deletes, Moves, Batched
  <2> QED
    BY <1>1, <1>2, <2>1, <2>4, <2>6, DealtInv, NoWriteKeeps DEF Answer
<1>3. CASE /\ o.live /\ ~NothingToSave(action, o) /\ held' = <<o>>
           /\ UNCHANGED <<action, pending, answers, carried, verdicts, ended, twin, edited,
                          raced, actions, ownerEdits>>
  <2>1. ActionTyped'
    BY <1>1, <1>3 DEF ActionIInv, ActionTyped
  <2>2. InTurn' /\ VerdictsGiven'
    BY <1>1, <1>3 DEF ActionIInv, InTurn, VerdictsGiven
  <2>3. HeldTrue'
    <3>1. NothingToSave(action, o)' <=> NothingToSave(action, o)
      BY <1>1, <1>3 DEF NothingToSave, Named, Flag, NewTags
    <3>2. held'[1] = o
      BY <1>3
    <3> QED
      BY <1>1, <1>3, <3>1, <3>2
         DEF HeldTrue, HeldFresh, Running, NothingToSave, Named, Flag, NewTags
  <2>4. FieldsTrue'
    BY <1>1, <1>3, NoWriteKeeps
  <2>5. AnswersTrue'
    BY <1>1, <1>3, NothingHappens DEF ActionIInv
  <2> QED
    BY <2>1, <2>2, <2>3, <2>4, <2>5 DEF ActionIInv
<1>4. CASE Dealt("failed", FALSE)
  <2>1. UNCHANGED <<action, twin, edited, raced>>
    BY <1>4 DEF Dealt
  <2>2. PICK m \in Nat : m = Len(carried) + 1
    BY DEF ActionIInv, ActionTyped
  <2>3. AnswerTrue(m, "failed")'
    BY <1>1, <2>1 DEF AnswerTrue, Looped, Batched
  <2> QED
    BY <1>1, <1>4, <2>1, <2>2, <2>3, DealtInv, NoWriteKeeps DEF Answer
<1> QED
  BY <1>2, <1>3, <1>4 DEF FetchObject

LEMMA SaveObjectInv == ActionIInv /\ SaveObject => ActionIInv'
<1> SUFFICES ASSUME ActionIInv, SaveObject PROVE ActionIInv'
  OBVIOUS
<1> DEFINE i == Head(pending)
           o == IF held # <<>> THEN held[1] ELSE Blank
<1>1. /\ Running /\ (held # <<>> \/ action.tool \in Blind)
      /\ i \in Objects /\ action \in ActionRequests
      /\ objects[i] \in ObjectType /\ twin[i] \in ObjectType
  BY NextId DEF SaveObject, ActionIInv, ActionTyped
<1>2. o \in ObjectType
  <2>1. Blank \in ObjectType
    BY DEF Blank, ObjectType
  <2> QED
    BY <2>1 DEF ActionIInv, ActionTyped
<1>3. action.tool \in Looped \cup Blind /\ action.tool \notin Batched
  BY <1>1 DEF ActionIInv, HeldTrue, Looped, Blind, Batched
<1>4. PICK m \in Nat : m = Len(carried) + 1 /\ action.ids[m] = i
  <2>1. Len(carried) \in Nat
    BY DEF ActionIInv, ActionTyped
  <2> QED
    BY <1>1, <2>1, NextId
<1>5. CASE Dealt("failed", FALSE) /\ UNCHANGED objects
  <2>1. UNCHANGED <<action, twin, edited, raced>>
    BY <1>5 DEF Dealt
  <2>2. AnswerTrue(m, "failed")'
    BY <1>3, <2>1 DEF AnswerTrue, Batched
  <2> QED
    BY <1>1, <1>4, <1>5, <2>1, <2>2, DealtInv, NoWriteKeeps DEF Answer
<1>6. ASSUME objects[i].live, objects' = [objects EXCEPT ![i] = Written(action, o, @)],
             NEW a \in {"done", "failed"}, Dealt(a, TRUE)
      PROVE  ActionIInv'
  <2>1. UNCHANGED <<action, twin, edited, raced>> /\ carried' = Append(carried, TRUE)
    BY <1>6 DEF Dealt
  <2>2. action.tool \in {"mark", "update_contact"} => Named(action) # {}
    BY <1>1, <1>3 DEF Blind, ActionIInv, HeldTrue, NothingToSave
  <2>3. held # <<>> => HeldFresh(o, i)
    BY DEF ActionIInv, HeldTrue
  <2>4. action.tool \in {"update_rule", "categorize"} => HeldFresh(o, i)
    BY <1>1, <2>3 DEF Blind
  <2>5. ASSUME NEW f \in Named(action) \ edited[i]
        PROVE  Changed(action, o)[f] = Changed(action, twin[i])[f]
    <3>1. f \in ObjectFields
      BY <1>1, NamedFields
    <3>2. CASE held # <<>>
      <4>1. AsItWasOrAsked(i, f) /\ o[f] = objects[i][f]
        BY <1>1, <2>3, <2>5, <3>1, <3>2 DEF ActionIInv, FieldsTrue, HeldFresh
      <4> QED
        BY <1>1, <1>2, <4>1, AskedAgain DEF AsItWasOrAsked
    <3>3. CASE action.tool \in Blind
      <4>1. f = "x" \/ f = "y"
        BY <1>1, <3>1, <3>3, NamedFields DEF ObjectFields, PlainFields, Blind
      <4>2. CASE f = "x"
        BY <1>1, <1>2, <2>5, <4>2, ChangedFields
      <4>3. CASE f = "y"
        BY <1>1, <1>2, <2>5, <4>3, ChangedFields
      <4> QED
        BY <4>1, <4>2, <4>3
    <3> QED
      BY <1>1, <3>2, <3>3
  <2>6. /\ objects' \in [Objects -> ObjectType] /\ FieldsTrue' /\ ~Undone
        /\ action.tool \in Deletes => ~objects'[i].live
        /\ \A f \in Named(action) \ edited[i] :
             objects'[i][f] = Changed(action, twin[i])[f]
    BY <1>1, <1>2, <1>6, <2>1, <2>2, <2>4, <2>5, WriteKeeps
  <2>7. carried'[m] = TRUE
    <3>1. carried \in Seq(BOOLEAN)
      BY DEF ActionIInv, ActionTyped
    <3> QED
      BY <1>4, <2>1, <3>1
  <2>8. /\ Named(action)' = Named(action)
        /\ \A j : Changed(action, twin[j])' = Changed(action, twin[j])
    BY <2>1 DEF Named, Flag, Changed, NewTags
  <2>9. DoneIsTrue(m)'
    BY <1>4, <2>1, <2>6, <2>7, <2>8 DEF DoneIsTrue, Deletes, Moves
  <2>10. AnswerTrue(m, a)'
    BY <1>3, <2>1, <2>9 DEF AnswerTrue, Batched
  <2> QED
    BY <1>1, <1>4, <1>6, <2>6, <2>10, DealtInv DEF Answer
<1> QED
  BY <1>5, <1>6 DEF SaveObject

LEMMA BatchStepInv == ActionIInv /\ BatchStep => ActionIInv'
<1> SUFFICES ASSUME ActionIInv, BatchStep PROVE ActionIInv'
  OBVIOUS
<1> DEFINE i == Head(pending)
<1>1. /\ Running /\ action.tool \in Batched
      /\ i \in Objects /\ action \in ActionRequests
      /\ objects[i] \in ObjectType
  BY NextId DEF BatchStep, ActionIInv, ActionTyped
<1>2. action.tool \in Deletes \cup Moves /\ Named(action) = {}
  BY <1>1, NamedFields DEF Batched, Deletes, Moves
<1>3. PICK m \in Nat : m = Len(carried) + 1 /\ action.ids[m] = i
  <2>1. Len(carried) \in Nat
    BY DEF ActionIInv, ActionTyped
  <2> QED
    BY <1>1, <2>1, NextId
<1>4. carried \in Seq(BOOLEAN)
  BY DEF ActionIInv, ActionTyped
<1>5. CASE /\ objects[i].live
           /\ objects' = [objects EXCEPT ![i] = Written(action, @, @)]
           /\ Dealt("done", TRUE)
  <2>1. UNCHANGED <<action, twin, edited, raced>> /\ carried' = Append(carried, TRUE)
    BY <1>5 DEF Dealt
  <2>2. /\ objects' \in [Objects -> ObjectType] /\ FieldsTrue' /\ ~Undone
        /\ action.tool \in Deletes => ~objects'[i].live
    <3>1. objects' = [objects EXCEPT ![i] = Written(action, objects[i], @)]
      BY <1>5
    <3>2. action.tool \notin {"mark", "update_contact", "update_rule", "categorize"}
      BY <1>1 DEF Batched
    <3> QED
      BY <1>1, <1>2, <1>5, <2>1, <3>1, <3>2, WriteKeeps
  <2>3. carried'[m] = TRUE
    BY <1>3, <1>4, <2>1
  <2>4. DoneIsTrue(m)'
    BY <1>2, <1>3, <2>1, <2>2, <2>3 DEF DoneIsTrue, Deletes, Moves
  <2>5. AnswerTrue(m, "done")'
    BY <2>3, <2>4 DEF AnswerTrue
  <2> QED
    BY <1>1, <1>3, <1>5, <2>2, <2>5, DealtInv DEF Answer
<1>6. ASSUME NEW a \in {"refused", "missing"}, a = "missing" => ~objects[i].live,
             Dealt(a, FALSE), UNCHANGED objects
      PROVE  ActionIInv'
  <2>1. UNCHANGED <<action, twin, edited, raced>> /\ carried' = Append(carried, FALSE)
    BY <1>6 DEF Dealt
  <2>2. carried'[m] = FALSE
    BY <1>3, <1>4, <2>1
  <2>3. AnswerTrue(m, a)'
    BY <1>3, <1>6, <2>1, <2>2 DEF AnswerTrue
  <2> QED
    BY <1>1, <1>3, <1>6, <2>1, <2>3, DealtInv, NoWriteKeeps DEF Answer
<1>7. CASE /\ Dealt(IF objects[i].live THEN "refused" ELSE "missing", FALSE)
           /\ UNCHANGED objects
  BY <1>6, <1>7
<1> QED
  BY <1>5, <1>7 DEF BatchStep

LEMMA LostInv == ActionIInv /\ Lost => ActionIInv'
<1> SUFFICES ASSUME ActionIInv, Lost PROVE ActionIInv'
  OBVIOUS
<1>1. /\ ended = "none" /\ action.tool \in Batched /\ ended' = "error" /\ pending' = <<>>
      /\ UNCHANGED <<objects, action, held, answers, carried, verdicts, twin, edited,
                     raced, actions, ownerEdits>>
  BY DEF Lost
<1>2. held = <<>>
  BY <1>1 DEF ActionIInv, HeldTrue, Looped, Batched
<1>3. ActionTyped'
  BY <1>1 DEF ActionIInv, ActionTyped
<1>4. InTurn' /\ HeldTrue' /\ VerdictsGiven' /\ AnswersTrue'
  BY <1>1, <1>2 DEF ActionIInv, InTurn, HeldTrue, VerdictsGiven, AnswersTrue
<1> QED
  BY <1>1, <1>3, <1>4, NoWriteKeeps DEF ActionIInv

LEMMA EndActionInv == ActionIInv /\ EndAction => ActionIInv'
<1> SUFFICES ASSUME ActionIInv, EndAction PROVE ActionIInv'
  OBVIOUS
<1>1. /\ ended = "none" /\ pending = <<>> /\ ended' = "ok"
      /\ UNCHANGED <<objects, action, pending, held, answers, carried, twin, edited,
                     raced, actions, ownerEdits>>
  BY DEF EndAction
<1>2. held = <<>>
  BY <1>1 DEF ActionIInv, HeldTrue, Running
<1>3. verdicts' \in Seq(BOOLEAN)
  <2>1. Len(action.ids) \in Nat /\ Len(answers) \in Nat
    BY ActionParts DEF ActionIInv, ActionTyped
  <2>2. [n \in 1..Len(answers) |-> answers[n] = "done"] \in Seq(BOOLEAN)
    BY <2>1
  <2>3. BulkResult(action, answers) \in Seq(BOOLEAN)
    BY <2>1 DEF BulkResult
  <2> QED
    BY <2>2, <2>3 DEF EndAction
<1>4. ActionTyped'
  BY <1>1, <1>3 DEF ActionIInv, ActionTyped
<1>5. InTurn' /\ HeldTrue'
  BY <1>1, <1>2 DEF ActionIInv, InTurn, HeldTrue
<1>6. VerdictsGiven'
  <2>1. BulkResult(action, answers)' = BulkResult(action, answers)
    BY <1>1 DEF BulkResult, Padded, NotFoundIsSuccess
  <2> QED
    BY <1>1, <2>1 DEF EndAction, VerdictsGiven
<1>7. AnswersTrue'
  <2>1. ASSUME NEW n \in 1..Len(carried), NEW a, AnswerTrue(n, a) PROVE AnswerTrue(n, a)'
    BY <1>1, <2>1, AnswerStays, NoWriteKeeps
  <2>2. Len(answers) \in Nat /\ Len(carried) \in Nat /\ Len(answers) <= Len(carried)
    BY DEF ActionIInv, ActionTyped, InTurn
  <2>3. ASSUME ~action.foreign, NEW n \in 1..Len(answers), NEW b, answers[n] = b
        PROVE  AnswerTrue(n, b)'
    BY <1>1, <2>1, <2>2, <2>3 DEF ActionIInv, AnswersTrue
  <2>4. ASSUME ~action.foreign, NEW n \in 1..Len(answers) PROVE AnswerTrue(n, answers[n])'
    BY <1>1, <2>3, <2>4 DEF AnswerTrue
  <2>5. ASSUME action.foreign, answers = <<>>, NEW n \in 1..Len(carried)
        PROVE  AnswerTrue(n, "done")'
    BY <1>1, <2>1, <2>5 DEF ActionIInv, AnswersTrue
  <2> QED
    BY <1>1, <2>4, <2>5 DEF AnswersTrue
<1> QED
  BY <1>1, <1>4, <1>5, <1>6, <1>7, NoWriteKeeps DEF ActionIInv

-----------------------------------------------------------------------------
\* An edit of the owner changes one part of item i, and of its twin, to the same
\* value, and is recorded.
OnePartEdited(i) ==
  /\ objects' \in [Objects -> ObjectType] /\ twin' \in [Objects -> ObjectType]
  /\ \A j \in Objects \ {i} : objects'[j] = objects[j] /\ twin'[j] = twin[j]
  /\ edited' \in [Objects -> SUBSET ObjectFields]
  /\ raced' \in [Objects -> SUBSET (PlainFields \cup Tags)]
  /\ \A j \in Objects : edited[j] \subseteq edited'[j] /\ raced[j] \subseteq raced'[j]
  /\ \A f \in ObjectFields \ edited'[i] :
       objects'[i][f] = objects[i][f] /\ twin'[i][f] = twin[i][f]
  /\ \A f \in PlainFields :
       \/ objects'[i][f] = objects[i][f] /\ twin'[i][f] = twin[i][f]
       \/ /\ objects'[i][f] = twin'[i][f]
          /\ held # <<>> /\ Head(pending) = i => f \in raced'[i]
  /\ \A t \in Tags :
       \/ /\ t \in objects'[i].tags <=> t \in objects[i].tags
          /\ t \in twin'[i].tags <=> t \in twin[i].tags
       \/ /\ t \in objects'[i].tags <=> t \in twin'[i].tags
          /\ held # <<>> /\ Head(pending) = i => t \in raced'[i]

LEMMA EditedAlike ==
  ASSUME ActionIInv, NEW i \in Objects, OwnerEdits(i)
  PROVE  OnePartEdited(i)
<1> DEFINE o == objects[i]
           t == twin[i]
           here == held # <<>> /\ Head(pending) = i
           Part(a, b, f, part) ==
             /\ objects' = [objects EXCEPT ![i] = a] /\ twin' = [twin EXCEPT ![i] = b]
             /\ Touched(i, f, part)
             /\ \A g \in ObjectFields \ {f} : a[g] = o[g] /\ b[g] = t[g]
             /\ \A g \in PlainFields : (a[g] = o[g] /\ b[g] = t[g]) \/ (a[g] = b[g] /\ g = part)
             /\ \A u \in Tags :
                  \/ (u \in a.tags <=> u \in o.tags) /\ (u \in b.tags <=> u \in t.tags)
                  \/ (u \in a.tags <=> u \in b.tags) /\ u = part
<1>1. /\ objects \in [Objects -> ObjectType] /\ twin \in [Objects -> ObjectType]
      /\ edited \in [Objects -> SUBSET ObjectFields]
      /\ raced \in [Objects -> SUBSET (PlainFields \cup Tags)]
      /\ o \in ObjectType /\ t \in ObjectType
  BY DEF ActionIInv, ActionTyped
<1>2. ASSUME NEW f \in ObjectFields, NEW part \in PlainFields \cup Tags, Touched(i, f, part)
      PROVE  /\ edited' \in [Objects -> SUBSET ObjectFields]
             /\ raced' \in [Objects -> SUBSET (PlainFields \cup Tags)]
             /\ \A j \in Objects : edited[j] \subseteq edited'[j] /\ raced[j] \subseteq raced'[j]
             /\ f \in edited'[i] /\ (here => part \in raced'[i])
  BY <1>1, <1>2 DEF Touched
<1>3. ASSUME NEW a \in ObjectType, NEW b \in ObjectType,
             objects' = [objects EXCEPT ![i] = a], twin' = [twin EXCEPT ![i] = b]
      PROVE  /\ objects' \in [Objects -> ObjectType] /\ twin' \in [Objects -> ObjectType]
             /\ \A j \in Objects \ {i} : objects'[j] = objects[j] /\ twin'[j] = twin[j]
             /\ objects'[i] = a /\ twin'[i] = b
  BY <1>1, <1>3
<1>4. ASSUME NEW a \in ObjectType, NEW b \in ObjectType,
             NEW f \in ObjectFields, NEW part \in PlainFields \cup Tags,
             Part(a, b, f, part)
      PROVE  OnePartEdited(i)
  <2>1. /\ edited' \in [Objects -> SUBSET ObjectFields]
        /\ raced' \in [Objects -> SUBSET (PlainFields \cup Tags)]
        /\ \A j \in Objects : edited[j] \subseteq edited'[j] /\ raced[j] \subseteq raced'[j]
        /\ f \in edited'[i] /\ (here => part \in raced'[i])
    BY <1>2, <1>4
  <2>2. /\ objects' \in [Objects -> ObjectType] /\ twin' \in [Objects -> ObjectType]
        /\ \A j \in Objects \ {i} : objects'[j] = objects[j] /\ twin'[j] = twin[j]
        /\ objects'[i] = a /\ twin'[i] = b
    BY <1>3, <1>4
  <2> QED
    BY <1>4, <2>1, <2>2 DEF OnePartEdited
<1>5. ASSUME NEW f \in PlainFields, objects' = [objects EXCEPT ![i][f] = 2],
             twin' = [twin EXCEPT ![i][f] = 2], Touched(i, f, f)
      PROVE  OnePartEdited(i)
  <2> DEFINE a == [o EXCEPT ![f] = 2]
             b == [t EXCEPT ![f] = 2]
  <2>1. a \in ObjectType /\ b \in ObjectType
    BY <1>1 DEF ObjectType, PlainFields
  <2>2. /\ \A g \in ObjectFields \ {f} : a[g] = o[g] /\ b[g] = t[g]
        /\ a[f] = 2 /\ b[f] = 2 /\ a["tags"] = o["tags"] /\ b["tags"] = t["tags"]
    BY <1>1 DEF ObjectType, ObjectFields, PlainFields
  <2>3. objects' = [objects EXCEPT ![i] = a] /\ twin' = [twin EXCEPT ![i] = b]
    BY <1>5
  <2>4. f \in ObjectFields
    BY DEF ObjectFields
  <2> HIDE DEF a, b
  <2>5. \A g \in PlainFields : (a[g] = o[g] /\ b[g] = t[g]) \/ (a[g] = b[g] /\ g = f)
    BY <2>2 DEF ObjectFields
  <2>6. \A u \in Tags : (u \in a.tags <=> u \in o.tags) /\ (u \in b.tags <=> u \in t.tags)
    BY <2>2
  <2>7. Part(a, b, f, f)
    BY <1>5, <2>2, <2>3, <2>5, <2>6
  <2> HIDE DEF Part
  <2> QED
    BY <1>4, <2>1, <2>4, <2>7
<1>6. ASSUME NEW u \in Tags, NEW A, NEW B,
             A = (IF u \in o.tags THEN o.tags \ {u} ELSE o.tags \cup {u}),
             B = (IF u \in o.tags THEN t.tags \ {u} ELSE t.tags \cup {u}),
             objects' = [objects EXCEPT ![i].tags = A],
             twin' = [twin EXCEPT ![i].tags = B], Touched(i, "tags", u)
      PROVE  OnePartEdited(i)
  <2> DEFINE a == [o EXCEPT !.tags = A]
             b == [t EXCEPT !.tags = B]
  <2>1. A \in SUBSET Tags /\ B \in SUBSET Tags
    BY <1>1, <1>6 DEF ObjectType
  <2>2. /\ a \in ObjectType /\ b \in ObjectType /\ a.tags = A /\ b.tags = B
        /\ a["x"] = o["x"] /\ b["x"] = t["x"] /\ a["y"] = o["y"] /\ b["y"] = t["y"]
    BY <1>1, <2>1 DEF ObjectType
  <2>3. objects' = [objects EXCEPT ![i] = a] /\ twin' = [twin EXCEPT ![i] = b]
    BY <1>6
  <2> HIDE DEF a, b
  <2>4. \A v \in Tags : \/ (v \in a.tags <=> v \in o.tags) /\ (v \in b.tags <=> v \in t.tags)
                        \/ (v \in a.tags <=> v \in b.tags) /\ v = u
    BY <1>6, <2>2
  <2>5. "tags" \in ObjectFields /\ \A g \in ObjectFields \ {"tags"} : g \in PlainFields
    BY DEF ObjectFields
  <2>6. \A g \in PlainFields : a[g] = o[g] /\ b[g] = t[g]
    BY <2>2 DEF PlainFields
  <2>7. Part(a, b, "tags", u)
    BY <1>6, <2>2, <2>3, <2>4, <2>5, <2>6
  <2> HIDE DEF Part
  <2> QED
    BY <1>4, <2>2, <2>5, <2>7
<1>7. CASE /\ objects' = [objects EXCEPT ![i].live = FALSE]
           /\ twin' = [twin EXCEPT ![i].live = FALSE] /\ UNCHANGED <<edited, raced>>
  <2> DEFINE a == [o EXCEPT !.live = FALSE]
             b == [t EXCEPT !.live = FALSE]
  <2>1. a \in ObjectType /\ b \in ObjectType
    BY <1>1 DEF ObjectType
  <2>2. \A f \in ObjectFields : a[f] = o[f] /\ b[f] = t[f]
    BY <1>1 DEF ObjectType, ObjectFields, PlainFields
  <2>3. objects' = [objects EXCEPT ![i] = a] /\ twin' = [twin EXCEPT ![i] = b]
    BY <1>7
  <2>4. PlainFields \subseteq ObjectFields /\ a["tags"] = o["tags"] /\ b["tags"] = t["tags"]
    BY <2>2 DEF ObjectFields
  <2> HIDE DEF a, b
  <2>5. /\ objects' \in [Objects -> ObjectType] /\ twin' \in [Objects -> ObjectType]
        /\ \A j \in Objects \ {i} : objects'[j] = objects[j] /\ twin'[j] = twin[j]
        /\ objects'[i] = a /\ twin'[i] = b
    BY <1>3, <2>1, <2>3
  <2> QED
    BY <1>1, <1>7, <2>2, <2>4, <2>5 DEF OnePartEdited
<1>8. CASE \E u \in Tags :
             /\ objects' = [objects EXCEPT ![i].tags = IF u \in o.tags THEN @ \ {u} ELSE @ \cup {u}]
             /\ twin' = [twin EXCEPT ![i].tags = IF u \in o.tags THEN @ \ {u} ELSE @ \cup {u}]
             /\ Touched(i, "tags", u)
  <2>1. PICK u \in Tags :
             /\ objects' = [objects EXCEPT ![i].tags = IF u \in o.tags THEN o.tags \ {u} ELSE o.tags \cup {u}]
             /\ twin' = [twin EXCEPT ![i].tags = IF u \in o.tags THEN t.tags \ {u} ELSE t.tags \cup {u}]
             /\ Touched(i, "tags", u)
    BY <1>8
  <2> QED
    BY <1>6, <2>1
<1> QED
  BY <1>5, <1>7, <1>8 DEF OwnerEdits

LEMMA OwnerEditsInv == \A i \in Objects : ActionIInv /\ OwnerEdits(i) => ActionIInv'
<1> SUFFICES ASSUME NEW i \in Objects, ActionIInv, OwnerEdits(i) PROVE ActionIInv'
  OBVIOUS
<1>1. /\ objects[i].live /\ ownerEdits < MaxOwnerEdits /\ ownerEdits' = ownerEdits + 1
      /\ UNCHANGED <<action, pending, held, answers, carried, verdicts, ended, actions>>
  BY DEF OwnerEdits
<1>2. action \in ActionRequests
  BY DEF ActionIInv, ActionTyped
<1>3. /\ objects' \in [Objects -> ObjectType] /\ twin' \in [Objects -> ObjectType]
      /\ edited' \in [Objects -> SUBSET ObjectFields]
      /\ raced' \in [Objects -> SUBSET (PlainFields \cup Tags)]
      /\ \A j \in Objects \ {i} : objects'[j] = objects[j] /\ twin'[j] = twin[j]
      /\ \A j \in Objects : edited[j] \subseteq edited'[j] /\ raced[j] \subseteq raced'[j]
  BY EditedAlike DEF OnePartEdited
<1>4. \A f \in ObjectFields \ edited'[i] :
        objects'[i][f] = objects[i][f] /\ twin'[i][f] = twin[i][f]
  BY EditedAlike DEF OnePartEdited
<1>5. /\ Named(action)' = Named(action) /\ Named(action) \subseteq ObjectFields
      /\ Flag(action)' = Flag(action) /\ action' = action
      /\ \A j : Acted(j)' <=> Acted(j)
  BY <1>1, <1>2, NamedFields DEF Named, Flag, Acted, ToSet
<1>6. \A j \in Objects : \A f \in ObjectFields \ edited'[j] :
        /\ objects'[j][f] = objects[j][f] /\ twin'[j][f] = twin[j][f]
        /\ f \in Named(action) => Changed(action, twin[j])'[f] = Changed(action, twin[j])[f]
  <2> SUFFICES ASSUME NEW j \in Objects, NEW f \in ObjectFields \ edited'[j]
               PROVE  /\ objects'[j][f] = objects[j][f] /\ twin'[j][f] = twin[j][f]
                      /\ f \in Named(action) =>
                           Changed(action, twin[j])'[f] = Changed(action, twin[j])[f]
    OBVIOUS
  <2>1. objects'[j][f] = objects[j][f] /\ twin'[j][f] = twin[j][f]
    BY <1>3, <1>4
  <2>2. ASSUME f \in Named(action)
        PROVE  Changed(action, twin[j])'[f] = Changed(action, twin[j])[f]
    <3>1. Changed(action, twin[j])' = Changed(action, twin'[j])
      BY <1>5 DEF Changed, NewTags
    <3>2. twin[j] \in ObjectType /\ twin'[j] \in ObjectType
      BY <1>3 DEF ActionIInv, ActionTyped
    <3>3. f = "x" \/ f = "y" \/ f = "tags"
      BY DEF ObjectFields, PlainFields
    <3>4. Changed(action, twin'[j])[f] = Changed(action, twin[j])[f]
      BY <1>2, <2>1, <2>2, <3>2, <3>3, ChangedFields
    <3> QED
      BY <3>1, <3>4
  <2> QED
    BY <2>1, <2>2
<1>7. ActionTyped'
  <2>1. ownerEdits' \in 0..MaxOwnerEdits
    BY <1>1, ActionAssumption DEF ActionIInv, ActionTyped
  <2> QED
    BY <1>1, <1>3, <2>1 DEF ActionIInv, ActionTyped
<1>8. InTurn' /\ VerdictsGiven'
  <2>1. BulkResult(action, answers)' = BulkResult(action, answers)
    BY <1>1 DEF BulkResult, Padded, NotFoundIsSuccess
  <2> QED
    BY <1>1, <2>1 DEF ActionIInv, InTurn, VerdictsGiven
<1>9. HeldTrue'
  <2> SUFFICES ASSUME held # <<>>
               PROVE  /\ Running /\ action.tool \in Looped
                      /\ ~NothingToSave(action, held[1])
                      /\ HeldFresh(held[1], Head(pending))'
    BY <1>1 DEF HeldTrue, HeldFresh, Running, NothingToSave, Named, Flag, NewTags
  <2>1. /\ Running /\ action.tool \in Looped
        /\ ~NothingToSave(action, held[1])
        /\ HeldFresh(held[1], Head(pending))
    BY DEF ActionIInv, HeldTrue
  <2>2. Head(pending) \in Objects
    BY <2>1, NextId
  <2> DEFINE h == held[1]
             k == Head(pending)
  <2>3. h' = h /\ k' = k
    BY <1>1
  <2>4. ASSUME NEW f \in PlainFields \ raced'[k] PROVE h[f] = objects'[k][f]
    <3>1. h[f] = objects[k][f]
      BY <1>3, <2>1, <2>2 DEF HeldFresh
    <3>2. objects'[k][f] = objects[k][f]
      <4>1. CASE k # i
        BY <1>3, <2>2, <4>1
      <4>2. CASE k = i
        BY <4>2, EditedAlike DEF OnePartEdited
      <4> QED
        BY <4>1, <4>2
    <3> QED
      BY <3>1, <3>2
  <2>5. ASSUME NEW u \in Tags \ raced'[k] PROVE u \in h.tags <=> u \in objects'[k].tags
    <3>1. u \in h.tags <=> u \in objects[k].tags
      BY <1>3, <2>1, <2>2 DEF HeldFresh
    <3>2. u \in objects'[k].tags <=> u \in objects[k].tags
      <4>1. CASE k # i
        BY <1>3, <2>2, <4>1
      <4>2. CASE k = i
        BY <4>2, EditedAlike DEF OnePartEdited
      <4> QED
        BY <4>1, <4>2
    <3> QED
      BY <3>1, <3>2
  <2>6. ASSUME NEW f \in ObjectFields \ edited'[k] PROVE h[f] = objects'[k][f]
    BY <1>3, <1>6, <2>1, <2>2 DEF HeldFresh
  <2>7. HeldFresh(h, k)'
    BY <2>3, <2>4, <2>5, <2>6 DEF HeldFresh
  <2> QED
    BY <2>1, <2>7
<1>10. FieldsTrue'
  <2>1. ASSUME NEW j \in Objects, NEW f \in PlainFields PROVE FieldKept(j, f)'
    <3>1. FieldKept(j, f) /\ raced[j] \subseteq raced'[j]
      BY <1>3 DEF ActionIInv, FieldsTrue
    <3>2. CASE objects'[j][f] = objects[j][f] /\ twin'[j][f] = twin[j][f]
      BY <1>5, <3>1, <3>2 DEF FieldKept
    <3>3. CASE objects'[j][f] = twin'[j][f]
      BY <3>3 DEF FieldKept
    <3>4. CASE j # i
      BY <1>3, <3>2, <3>4
    <3>5. CASE j = i
      BY <3>2, <3>3, <3>5, EditedAlike DEF OnePartEdited
    <3> QED
      BY <3>4, <3>5
  <2>2. ASSUME NEW j \in Objects, NEW u \in Tags PROVE TagKept(j, u)'
    <3>1. TagKept(j, u) /\ raced[j] \subseteq raced'[j]
      BY <1>3 DEF ActionIInv, FieldsTrue
    <3>2. CASE /\ u \in objects'[j].tags <=> u \in objects[j].tags
               /\ u \in twin'[j].tags <=> u \in twin[j].tags
      BY <1>5, <3>1, <3>2 DEF TagKept
    <3>3. CASE u \in objects'[j].tags <=> u \in twin'[j].tags
      BY <3>3 DEF TagKept
    <3>4. CASE j # i
      BY <1>3, <3>2, <3>4
    <3>5. CASE j = i
      BY <3>2, <3>3, <3>5, EditedAlike DEF OnePartEdited
    <3> QED
      BY <3>4, <3>5
  <2>3. ASSUME NEW j \in Objects, NEW f \in ObjectFields \ edited'[j]
        PROVE  AsItWasOrAsked(j, f)'
    <3>1. AsItWasOrAsked(j, f)
      BY <1>3 DEF ActionIInv, FieldsTrue
    <3>2. CASE f \in Named(action)
      BY <1>6, <3>1, <3>2 DEF AsItWasOrAsked
    <3>3. CASE f \notin Named(action)
      <4>1. Changed(action, twin[j])[f] = twin[j][f]
        BY <1>2, <3>3, ChangedFields DEF ActionIInv, ActionTyped
      <4> QED
        BY <1>6, <3>1, <4>1 DEF AsItWasOrAsked
    <3> QED
      BY <3>2, <3>3
  <2> QED
    BY <2>1, <2>2, <2>3 DEF FieldsTrue
<1>11. ~Undone
  <2>1. ASSUME NEW j \in Objects, ~objects[j].live PROVE ~objects'[j].live
    BY <1>1, <1>3, <2>1
  <2>2. ASSUME NEW j \in Objects, NEW f \in Named(action) \ edited'[j],
               objects[j][f] = Changed(action, twin[j])[f]
        PROVE  objects'[j][f] = Changed(action, twin[j])[f]'
    BY <1>5, <1>6, <2>2
  <2>3. \A j \in Objects : edited[j] \subseteq edited'[j]
    BY <1>3
  <2> QED
    BY <2>1, <2>2, <2>3 DEF Undone
<1>12. AnswersTrue'
  <2>1. ASSUME NEW n \in 1..Len(carried), NEW a, AnswerTrue(n, a), ended # "error"
        PROVE  AnswerTrue(n, a)'
    BY <1>1, <1>3, <1>11, <2>1, AnswerStays
  <2>2. Len(answers) \in Nat /\ Len(carried) \in Nat /\ Len(answers) <= Len(carried)
    BY DEF ActionIInv, ActionTyped, InTurn
  <2>3. ASSUME ended # "error", ~action.foreign, NEW n \in 1..Len(answers), NEW b, answers[n] = b
        PROVE  AnswerTrue(n, b)'
    BY <2>1, <2>2, <2>3 DEF ActionIInv, AnswersTrue
  <2>4. ASSUME ended # "error", ~action.foreign, NEW n \in 1..Len(answers)
        PROVE  AnswerTrue(n, answers[n])'
    BY <1>1, <2>3, <2>4 DEF AnswerTrue
  <2>5. ASSUME ended # "error", action.foreign, answers = <<>>, NEW n \in 1..Len(carried)
        PROVE  AnswerTrue(n, "done")'
    BY <2>1, <2>5 DEF ActionIInv, AnswersTrue
  <2> QED
    BY <1>1, <2>4, <2>5 DEF AnswersTrue
<1> QED
  BY <1>7, <1>8, <1>9, <1>10, <1>12 DEF ActionIInv

LEMMA ActionStutterInv == ActionIInv /\ UNCHANGED actionVars => ActionIInv'
<1> SUFFICES ASSUME ActionIInv, UNCHANGED actionVars PROVE ActionIInv'
  OBVIOUS
<1>1. UNCHANGED <<objects, action, pending, held, answers, carried, verdicts, ended,
                  twin, edited, raced, actions, ownerEdits>>
  BY DEF actionVars
<1>2. ActionTyped'
  BY <1>1 DEF ActionIInv, ActionTyped
<1>3. InTurn' /\ VerdictsGiven'
  <2>1. BulkResult(action, answers)' = BulkResult(action, answers)
    BY <1>1 DEF BulkResult, Padded, NotFoundIsSuccess
  <2> QED
    BY <1>1, <2>1 DEF ActionIInv, InTurn, VerdictsGiven
<1>4. HeldTrue'
  BY <1>1 DEF ActionIInv, HeldTrue, HeldFresh, Running, NothingToSave, Named, Flag, NewTags
<1>5. FieldsTrue' /\ AnswersTrue'
  BY <1>1, NoWriteKeeps, NothingHappens DEF ActionIInv
<1> QED
  BY <1>2, <1>3, <1>4, <1>5 DEF ActionIInv

LEMMA ActionInductive == ActionSpec => []ActionIInv
<1>1. ActionIInv /\ [ActionNext]_actionVars => ActionIInv'
  BY CallAgainInv, FetchObjectInv, SaveObjectInv, BatchStepInv, LostInv, EndActionInv,
     OwnerEditsInv, ActionStutterInv DEF ActionNext
<1> QED
  BY <1>1, ActionInitInv, PTL DEF ActionSpec

-----------------------------------------------------------------------------
LEMMA TypedActions == ActionIInv => ActionTypeOK
<1> SUFFICES ASSUME ActionIInv PROVE ActionTypeOK
  OBVIOUS
<1>1. IsSuffix(pending, action.ids)
  <2> DEFINE p == pending
             q == action.ids
  <2>1. p \in Seq(Objects) /\ q \in Seq(Objects) /\ Len(p) \in Nat /\ Len(q) \in Nat
    BY ActionParts DEF ActionIInv, ActionTyped
  <2>2. /\ Reverse(p) \in Seq(Objects) /\ Len(Reverse(p)) = Len(p)
        /\ Reverse(q) \in Seq(Objects) /\ Len(Reverse(q)) = Len(q)
        /\ \A k \in 1..Len(p) : Reverse(p)[k] = p[(Len(p) - k) + 1]
        /\ \A k \in 1..Len(q) : Reverse(q)[k] = q[(Len(q) - k) + 1]
    BY <2>1 DEF Reverse
  <2>3. /\ Len(p) <= Len(q)
        /\ \A k \in 1..Len(p) : p[k] = q[(Len(q) - Len(p)) + k]
    <3>1. CASE ended = "error"
      BY <2>1, <3>1 DEF ActionIInv, InTurn
    <3>2. CASE ended # "error"
      <4>1. /\ Len(carried) \in Nat /\ Len(carried) + Len(p) = Len(q)
            /\ \A k \in 1..Len(p) : p[k] = q[Len(carried) + k]
        BY <3>2 DEF ActionIInv, ActionTyped, InTurn
      <4> QED
        BY <2>1, <4>1, SMTT(30)
    <3> QED
      BY <3>1, <3>2
  <2>4. \A k \in 1..Len(p) : Reverse(p)[k] = Reverse(q)[k]
    <3> SUFFICES ASSUME NEW k \in 1..Len(p) PROVE Reverse(p)[k] = Reverse(q)[k]
      OBVIOUS
    <3>1. (Len(p) - k) + 1 \in 1..Len(p) /\ k \in 1..Len(q)
      BY <2>1, <2>3
    <3>2. (Len(q) - Len(p)) + ((Len(p) - k) + 1) = (Len(q) - k) + 1
      <4>1. \A a, b, c \in Int : (b - a) + ((a - c) + 1) = (b - c) + 1
        OBVIOUS
      <4>2. k \in Int /\ Len(p) \in Int /\ Len(q) \in Int
        BY <2>1
      <4> QED
        BY <4>1, <4>2
    <3> QED
      BY <2>2, <2>3, <3>1, <3>2
  <2> HIDE DEF p, q
  <2> DEFINE u == Reverse(p)
             v == Reverse(q)
  <2>5. /\ u \in Seq(Objects) /\ v \in Seq(Objects)
        /\ Len(u) = Len(p) /\ Len(v) = Len(q)
        /\ \A k \in 1..Len(u) : u[k] = v[k]
    BY <2>2, <2>4
  <2> HIDE DEF u, v
  <2>6. SubSeq(u, 1, Len(u)) = SubSeq(v, 1, Len(u))
    BY <2>1, <2>3, <2>5
  <2>7. IsPrefix(u, v)
    BY <2>3, <2>5, <2>6 DEF IsPrefix
  <2> QED
    BY <2>7 DEF IsSuffix, u, v, p, q
<1>2. Len(held) <= 1 /\ Len(answers) <= Len(carried)
  <2>1. held = <<>> \/ \E o \in ObjectType : held = <<o>>
    BY DEF ActionIInv, ActionTyped
  <2>2. Len(held) <= 1
    <3>1. CASE held = <<>>
      BY <3>1
    <3>2. ASSUME NEW o, held = <<o>> PROVE Len(held) <= 1
      <4>1. Len(<<o>>) = 1
        OBVIOUS
      <4> QED
        BY <3>2, <4>1
    <3> QED
      BY <2>1, <3>1, <3>2
  <2> QED
    BY <2>2 DEF ActionIInv, InTurn
<1> QED
  BY <1>1, <1>2 DEF ActionIInv, ActionTyped, ActionTypeOK

\* Type correctness of the item tools: in particular the ids left are always the
\* rest of those asked for.
THEOREM ActionTypes == ActionSpec => []ActionTypeOK
BY ActionInductive, TypedActions, PTL

LEMMA KeptEdits == ActionIInv => OwnersEditsKept
BY DEF ActionIInv, FieldsTrue, OwnersEditsKept

\* No call changes a field it does not name, or an item it does not name, and
\* adding or removing categories leaves the others, whatever the owner does
\* while it runs; only what he changes between the fetch and the save, of a field
\* of the rule or of a category of the message that is being saved, may be lost.
THEOREM OwnersEditsSurvive == ActionSpec => []OwnersEditsKept
BY ActionInductive, KeptEdits, PTL

LEMMA TrueVerdicts == ActionIInv => VerdictsTrue
<1> SUFFICES ASSUME ActionIInv, ended = "ok" PROVE VerdictsTrue
  BY DEF VerdictsTrue
<1>1. /\ pending = <<>> /\ Len(carried) = Len(action.ids) /\ Len(action.ids) \in Nat
      /\ Len(answers) \in Nat /\ answers \in Seq(Answer)
      /\ ~action.foreign => Len(answers) = Len(action.ids)
      /\ action.tool \in Looped \cup Blind \cup Batched
      /\ action.foreign => action.tool \in Batched
  <2>1. /\ pending = <<>> /\ Len(carried) + Len(pending) = Len(action.ids)
        /\ carried \in Seq(BOOLEAN) /\ answers \in Seq(Answer)
        /\ ~action.foreign => Len(answers) = Len(carried)
        /\ action \in ActionRequests
    BY DEF ActionIInv, ActionTyped, InTurn
  <2> QED
    BY <2>1, ActionParts
<1>2. Len(verdicts) = Len(action.ids)
  <2>1. CASE action.tool \in Batched
    BY <1>1, <2>1 DEF ActionIInv, VerdictsGiven, BulkResult
  <2>2. CASE action.tool \notin Batched
    BY <1>1, <2>2 DEF ActionIInv, VerdictsGiven
  <2> QED
    BY <2>1, <2>2
<1>3. ASSUME NEW n \in 1..Len(action.ids), action.foreign => answers = <<>>
      PROVE  \E a : /\ AnswerTrue(n, a)
                    /\ verdicts[n] => a = "done" \/ (a = "missing" /\ action.tool = "bulk_delete")
                    /\ ~verdicts[n] => a # "done"
  <2> DEFINE results == Padded(action, answers)
  <2>1. CASE action.foreign
    <3>1. AnswerTrue(n, "done")
      BY <1>1, <1>3, <2>1 DEF ActionIInv, AnswersTrue
    <3>2. results[n] = "none"
      <4>1. answers = <<>> /\ results = <<>> \o [k \in 1..Len(action.ids) |-> "none"]
        BY <1>1, <1>3, <2>1 DEF Padded
      <4>2. [k \in 1..Len(action.ids) |-> "none"] \in Seq({"none"})
        BY <1>1
      <4>3. results = [k \in 1..Len(action.ids) |-> "none"]
        BY <4>1, <4>2
      <4> QED
        BY <4>3
    <3>3. verdicts[n] = (results[n] \in {"done", "none"}
                         \/ (results[n] = "missing" /\ NotFoundIsSuccess(action)))
      BY <1>1, <2>1 DEF ActionIInv, VerdictsGiven, BulkResult
    <3> QED
      BY <3>1, <3>2, <3>3
  <2>2. CASE ~action.foreign /\ action.tool \in Batched
    <3>1. AnswerTrue(n, answers[n]) /\ answers[n] \in Answer
      BY <1>1, <2>2 DEF ActionIInv, AnswersTrue
    <3>2. results[n] = answers[n]
      <4> DEFINE pad == [k \in 1..(Len(action.ids) - Len(answers)) |-> "none"]
      <4>1. pad \in Seq({"none"})
        BY <1>1, <2>2
      <4>2. results = answers \o pad
        BY DEF Padded
      <4> HIDE DEF pad, results
      <4> QED
        BY <1>1, <2>2, <4>1, <4>2
    <3>3. verdicts[n] = (results[n] \in {"done", "none"}
                         \/ (results[n] = "missing" /\ NotFoundIsSuccess(action)))
      BY <1>1, <2>2 DEF ActionIInv, VerdictsGiven, BulkResult
    <3> QED
      BY <3>1, <3>2, <3>3 DEF Answer, NotFoundIsSuccess
  <2>3. CASE ~action.foreign /\ action.tool \notin Batched
    <3>1. AnswerTrue(n, answers[n])
      BY <1>1, <2>3 DEF ActionIInv, AnswersTrue
    <3>2. verdicts[n] = (answers[n] = "done")
      BY <1>1, <2>3 DEF ActionIInv, VerdictsGiven
    <3> QED
      BY <3>1, <3>2
  <2> QED
    BY <2>1, <2>2, <2>3
<1>4. ASSUME NEW n \in 1..Len(action.ids), action.foreign => answers = <<>>,
             NEW i, i = action.ids[n]
      PROVE  /\ verdicts[n] =>
                  CASE action.tool \in {"delete", "delete_rule", "bulk_delete"} -> ~objects[i].live
                    [] action.tool \in {"move", "copy", "bulk_move", "bulk_copy"} -> carried[n]
                    [] OTHER -> \A f \in Named(action) \ edited[i] :
                                  objects[i][f] = Changed(action, twin[i])[f]
             /\ ~verdicts[n] /\ action.tool \in Batched => ~carried[n]
  <2>1. PICK a : /\ AnswerTrue(n, a)
                 /\ verdicts[n] => a = "done" \/ (a = "missing" /\ action.tool = "bulk_delete")
                 /\ ~verdicts[n] => a # "done"
    BY <1>3, <1>4
  <2>2. CASE verdicts[n] /\ action.tool \in Deletes
    <3>1. ~objects[i].live
      BY <1>4, <2>1, <2>2 DEF AnswerTrue, DoneIsTrue
    <3> QED
      BY <2>2, <3>1 DEF Deletes
  <2>3. CASE verdicts[n] /\ action.tool \in Moves
    <3>1. carried[n] /\ action.tool \notin {"delete", "delete_rule", "bulk_delete"}
      BY <2>1, <2>3 DEF AnswerTrue, DoneIsTrue, Moves, Deletes
    <3> QED
      BY <2>3, <3>1 DEF Moves
  <2>4. CASE verdicts[n] /\ action.tool \notin Deletes \cup Moves
    <3>1. \A f \in Named(action) \ edited[i] :
            objects[i][f] = Changed(action, twin[i])[f]
      BY <1>4, <2>1, <2>4 DEF AnswerTrue, DoneIsTrue, Deletes
    <3> QED
      BY <2>4, <3>1 DEF Deletes, Moves
  <2>5. CASE ~verdicts[n]
    BY <2>1, <2>5 DEF AnswerTrue
  <2> QED
    BY <2>2, <2>3, <2>4, <2>5
<1> QED
  BY <1>2, <1>4 DEF VerdictsTrue

\* Every id of a loop or a batch has a verdict, and a true one, for any number of
\* ids, named once or more often, and whatever fails or is edited meanwhile.
THEOREM VerdictsAreTrue == ActionSpec => []VerdictsTrue
BY ActionInductive, TrueVerdicts, PTL

-----------------------------------------------------------------------------
\* ThreadAssembly: get_thread.

\* What is left of a sequence that is worked off from the front is a suffix.
LEMMA RestIsSuffix ==
  ASSUME NEW S, NEW p \in Seq(S), NEW q \in Seq(S), Len(p) <= Len(q),
         \A k \in 1..Len(p) : p[k] = q[(Len(q) - Len(p)) + k]
  PROVE  IsSuffix(p, q)
<1> DEFINE u == Reverse(p)
           v == Reverse(q)
<1>1. Len(p) \in Nat /\ Len(q) \in Nat
  OBVIOUS
<1>2. /\ u \in Seq(S) /\ Len(u) = Len(p) /\ v \in Seq(S) /\ Len(v) = Len(q)
      /\ \A k \in 1..Len(p) : u[k] = p[(Len(p) - k) + 1]
      /\ \A k \in 1..Len(q) : v[k] = q[(Len(q) - k) + 1]
  BY <1>1 DEF Reverse
<1>3. \A k \in 1..Len(p) : u[k] = v[k]
  <2> SUFFICES ASSUME NEW k \in 1..Len(p) PROVE u[k] = v[k]
    OBVIOUS
  <2>1. (Len(p) - k) + 1 \in 1..Len(p) /\ k \in 1..Len(q)
    BY <1>1
  <2>2. (Len(q) - Len(p)) + ((Len(p) - k) + 1) = (Len(q) - k) + 1
    <3>1. \A a, b, c \in Int : (b - a) + ((a - c) + 1) = (b - c) + 1
      OBVIOUS
    <3> QED
      BY <1>1, <3>1
  <2> QED
    BY <1>2, <2>1, <2>2
<1> HIDE DEF u, v
<1>4. SubSeq(u, 1, Len(u)) = SubSeq(v, 1, Len(u))
  BY <1>1, <1>2, <1>3
<1>5. IsPrefix(u, v)
  BY <1>2, <1>4 DEF IsPrefix
<1> QED
  BY <1>5 DEF IsSuffix, u, v

\* The order of the items.
LEMMA NewerOrder ==
  ASSUME NEW x \in Items, NEW y \in Items, NEW z \in Items
  PROVE  /\ ~Newer(x, x)
         /\ Newer(x, y) \/ Newer(y, x) \/ x = y
         /\ Newer(x, y) /\ Newer(y, z) => Newer(x, z)
         /\ ~(Newer(x, y) /\ Newer(y, x))
<1>1. \A i \in Items : i.m \in Nat /\ i.id \in Nat /\ i = [m |-> i.m, id |-> i.id]
  <2> SUFFICES ASSUME NEW i \in Items
               PROVE  i.m \in Nat /\ i.id \in Nat /\ i = [m |-> i.m, id |-> i.id]
    OBVIOUS
  <2>1. i.m \in Messages /\ i.id \in Nat /\ i = [m |-> i.m, id |-> i.id]
    BY DEF Items
  <2> QED
    BY <2>1, ThreadAssumption
<1> QED
  BY <1>1 DEF Newer

Above(S, x) == {y \in S : Newer(y, x)}

LEMMA AboveType ==
  ASSUME NEW S \in SUBSET Items, IsFiniteSet(S), NEW x
  PROVE  IsFiniteSet(Above(S, x)) /\ Cardinality(Above(S, x)) \in Nat
         /\ Above(S, x) \subseteq S
<1>1. Above(S, x) \in SUBSET S
  BY DEF Above
<1> QED
  BY <1>1, FS_Subset, FS_CardinalityType

\* Fewer items are above a newer one.
LEMMA FewerAbove ==
  ASSUME NEW S \in SUBSET Items, IsFiniteSet(S), NEW x \in S, NEW y \in S, Newer(y, x)
  PROVE  Cardinality(Above(S, y)) < Cardinality(Above(S, x))
<1>1. Above(S, y) \in SUBSET Above(S, x)
  BY NewerOrder DEF Above
<1>2. y \in Above(S, x) /\ y \notin Above(S, y)
  BY NewerOrder DEF Above
<1>3. IsFiniteSet(Above(S, x)) /\ Cardinality(Above(S, x)) \in Nat
      /\ Cardinality(Above(S, y)) \in Nat
  BY AboveType
<1>4. /\ Cardinality(Above(S, y)) <= Cardinality(Above(S, x))
      /\ Cardinality(Above(S, x)) = Cardinality(Above(S, y)) => Above(S, x) = Above(S, y)
  BY <1>1, <1>3, FS_Subset
<1> QED
  BY <1>2, <1>3, <1>4

\* Finitely many items have a newest one and an oldest one.
LEMMA NewestItem ==
  ASSUME NEW S \in SUBSET Items, IsFiniteSet(S), S # {}
  PROVE  \E x \in S : \A y \in S \ {x} : Newer(x, y)
<1> DEFINE C == {Cardinality(Above(S, x)) : x \in S}
<1>1. C \in SUBSET Nat /\ C # {}
  BY AboveType
<1>2. PICK n \in C : \A k \in C : n <= k
  BY <1>1, LeastNumber
<1>3. PICK x \in S : n = Cardinality(Above(S, x))
  OBVIOUS
<1>4. ASSUME NEW y \in S \ {x} PROVE Newer(x, y)
  <2>1. ~Newer(y, x)
    <3>1. n <= Cardinality(Above(S, y))
      BY <1>2
    <3> QED
      BY <1>3, <3>1, FewerAbove, AboveType
  <2> QED
    BY <2>1, NewerOrder
<1> QED
  BY <1>4

LEMMA OldestItem ==
  ASSUME NEW S \in SUBSET Items, IsFiniteSet(S), S # {}
  PROVE  \E x \in S : Above(S, x) = S \ {x}
<1> DEFINE C == {Cardinality(S) - Cardinality(Above(S, x)) : x \in S}
<1>1. Cardinality(S) \in Nat
  BY FS_CardinalityType
<1>2. \A x \in S : /\ Cardinality(Above(S, x)) \in Nat
                   /\ Cardinality(Above(S, x)) <= Cardinality(S)
  BY AboveType, FS_Subset
<1>3. C \in SUBSET Nat /\ C # {}
  BY <1>1, <1>2
<1>4. PICK n \in C : \A k \in C : n <= k
  BY <1>3, LeastNumber
<1>5. PICK x \in S : n = Cardinality(S) - Cardinality(Above(S, x))
  OBVIOUS
<1>6. ASSUME NEW y \in S \ {x} PROVE Newer(y, x)
  <2>1. ~Newer(x, y)
    <3>1. n <= Cardinality(S) - Cardinality(Above(S, y))
      BY <1>4
    <3>2. Newer(x, y) => Cardinality(Above(S, x)) < Cardinality(Above(S, y))
      BY FewerAbove
    <3> QED
      BY <1>1, <1>2, <1>5, <3>1, <3>2
  <2> QED
    BY <2>1, NewerOrder
<1>7. Above(S, x) = S \ {x}
  BY <1>6, NewerOrder DEF Above
<1> QED
  BY <1>7

LEMMA NewestIsAbove ==
  \A S, n : Newest(S, n) = {x \in S : Cardinality(Above(S, x)) < n}
BY DEF Newest, Above

\* The newest n of finitely many items are at most n, ...
LEMMA NewestAtMost ==
  ASSUME NEW S \in SUBSET Items, IsFiniteSet(S), NEW n \in Nat
  PROVE  /\ Newest(S, n) \subseteq S /\ IsFiniteSet(Newest(S, n))
         /\ Cardinality(Newest(S, n)) \in Nat
         /\ Cardinality(Newest(S, n)) <= n
<1> DEFINE T == Newest(S, n)
<1>1. T \in SUBSET S /\ IsFiniteSet(T) /\ T \in SUBSET Items
  BY FS_Subset DEF Newest
<1>2. Cardinality(T) \in Nat
  BY <1>1, FS_CardinalityType
<1>3. CASE T = {}
  BY <1>1, <1>2, <1>3, FS_EmptySet
<1>4. CASE T # {}
  <2>1. PICK x \in T : Above(T, x) = T \ {x}
    BY <1>1, <1>4, OldestItem
  <2>2. Cardinality(T \ {x}) = Cardinality(T) - 1
    BY <1>1, FS_RemoveElement
  <2>3. Above(T, x) \in SUBSET Above(S, x)
    BY <1>1 DEF Above
  <2>4. Cardinality(Above(T, x)) <= Cardinality(Above(S, x))
    BY <2>3, AboveType, FS_Subset
  <2>5. Cardinality(Above(S, x)) < n /\ Cardinality(Above(S, x)) \in Nat
    BY NewestIsAbove, AboveType
  <2> QED
    BY <1>1, <1>2, <2>1, <2>2, <2>4, <2>5
<1> QED
  BY <1>3, <1>4

\* ... and if one is left out, they are n, and newer than it.
LEMMA LeftOut ==
  ASSUME NEW S \in SUBSET Items, IsFiniteSet(S), NEW n \in Nat,
         NEW x \in S \ Newest(S, n)
  PROVE  /\ Cardinality(Newest(S, n)) = n
         /\ \A y \in Newest(S, n) : Newer(y, x)
<1> DEFINE T == Newest(S, n)
           U == S \ T
<1>1. /\ T \in SUBSET S /\ IsFiniteSet(T) /\ Cardinality(T) \in Nat
      /\ Cardinality(T) <= n
  BY NewestAtMost
<1>2. U \in SUBSET Items /\ IsFiniteSet(U) /\ U # {}
  BY FS_Subset
<1>3. PICK u \in U : \A v \in U \ {u} : Newer(u, v)
  BY <1>2, NewestItem
<1>4. Above(S, u) \in SUBSET T
  <2> SUFFICES ASSUME NEW y \in S, Newer(y, u), y \notin T PROVE FALSE
    BY DEF Above
  <2>1. y \in U /\ y # u
    BY NewerOrder
  <2> QED
    BY <1>3, <2>1, NewerOrder
<1>5. Cardinality(Above(S, u)) <= Cardinality(T)
  BY <1>1, <1>4, FS_Subset
<1>6. ~(Cardinality(Above(S, u)) < n)
  BY NewestIsAbove
<1>7. Cardinality(T) = n
  BY <1>1, <1>5, <1>6, AboveType
<1>8. ASSUME NEW y \in T PROVE Newer(y, x)
  <2>1. Cardinality(Above(S, y)) < n /\ ~(Cardinality(Above(S, x)) < n) /\ y \in S
    BY NewestIsAbove
  <2>2. x # y
    OBVIOUS
  <2>3. ~Newer(x, y)
    <3>1. Newer(x, y) => Cardinality(Above(S, x)) < Cardinality(Above(S, y))
      BY <2>1, FewerAbove
    <3> QED
      BY <2>1, <3>1, AboveType
  <2> QED
    BY <2>1, <2>2, <2>3, NewerOrder
<1> QED
  BY <1>7, <1>8

-----------------------------------------------------------------------------
\* What a search of a folder may find.
LEMMA FolderItems ==
  ASSUME ThreadTyped, NEW f, NEW kinds
  PROVE  /\ InFolder(f, kinds) \in SUBSET Items /\ IsFiniteSet(InFolder(f, kinds))
         /\ \A x \in InFolder(f, kinds) :
              x.m \in Messages /\ x.id = version[x.m] /\ place[x.m] = f /\ kin[x.m] \in kinds
         /\ \A m \in Messages : place[m] = f /\ kin[m] \in kinds => Item(m) \in InFolder(f, kinds)
<1> DEFINE M == {k \in Messages : place[k] = f /\ kin[k] \in kinds}
           S == InFolder(f, kinds)
           g == [m \in M |-> Item(m)]
<1>1. version \in [Messages -> Nat]
  BY DEF ThreadTyped
<1>2. \A m \in Messages : /\ Item(m) \in Items /\ Item(m).m = m /\ Item(m).id = version[m]
  BY <1>1 DEF Item, Items
<1>3. S = {Item(m) : m \in M}
  BY DEF InFolder
<1>4. S \in SUBSET Items
  BY <1>2, <1>3
<1>5. IsFiniteSet(S)
  <2>1. IsFiniteSet(M)
    <3>1. M \in SUBSET Messages
      OBVIOUS
    <3> QED
      BY <3>1, ThreadAssumption, FS_Subset
  <2>2. g \in Surjection(M, S)
    BY <1>3 DEF Surjection
  <2> QED
    BY <2>1, <2>2, FS_Surjection
<1>6. ASSUME NEW x \in S
      PROVE  x.m \in Messages /\ x.id = version[x.m] /\ place[x.m] = f /\ kin[x.m] \in kinds
  BY <1>2, <1>3
<1>7. ASSUME NEW m \in Messages, place[m] = f, kin[m] \in kinds PROVE Item(m) \in S
  BY <1>3, <1>7
<1> QED
  BY <1>4, <1>5, <1>6, <1>7

LEMMA FoundItems ==
  ASSUME ThreadTyped, NEW f
  PROVE  /\ FoundIn(f) \in SUBSET Items /\ IsFiniteSet(FoundIn(f))
         /\ \A x \in FoundIn(f) : kin[x.m] = "thread" /\ x.id = version[x.m]
<1>1. request.limit \in Nat
  BY ThreadAssumption DEF ThreadTyped
<1>2. CASE server
  <2>1. FoundIn(f) = Newest(InFolder(f, {"thread"}), request.limit)
    BY <1>2 DEF FoundIn, ByConversation
  <2> QED
    BY <1>1, <2>1, FolderItems, NewestAtMost
<1>3. CASE ~server /\ request.subject
  <2>1. FoundIn(f) \in SUBSET Newest(InFolder(f, {"thread", "embeds"}), request.limit)
        /\ \A x \in FoundIn(f) : kin[x.m] = "thread"
    BY <1>3 DEF FoundIn, BySubject
  <2>2. /\ Newest(InFolder(f, {"thread", "embeds"}), request.limit)
             \subseteq InFolder(f, {"thread", "embeds"})
        /\ IsFiniteSet(Newest(InFolder(f, {"thread", "embeds"}), request.limit))
    BY <1>1, FolderItems, NewestAtMost
  <2>3. IsFiniteSet(FoundIn(f))
    BY <2>1, <2>2, FS_Subset
  <2> QED
    BY <2>1, <2>2, <2>3, FolderItems
<1>4. CASE ~server /\ ~request.subject
  <2>1. FoundIn(f) = {}
    BY <1>4 DEF FoundIn, BySubject
  <2> QED
    BY <2>1, FS_EmptySet
<1>5. request.subject \in BOOLEAN
  BY DEF ThreadTyped
<1> QED
  BY <1>2, <1>3, <1>4

\* A search by conversation of the folder a message of the thread is in finds
\* it, or as many newer messages as the limit allows.
LEMMA FoundOrNewer ==
  ASSUME ThreadTyped, server, NEW m \in Messages, kin[m] = "thread", version[m] = 0,
         NEW f, place[m] = f
  PROVE  \/ [m |-> m, id |-> 0] \in FoundIn(f)
         \/ Cardinality({y \in FoundIn(f) : y.m > m}) >= request.limit
<1> DEFINE S == InFolder(f, {"thread"})
           x == [m |-> m, id |-> 0]
<1>1. request.limit \in Nat
  BY ThreadAssumption DEF ThreadTyped
<1>2. FoundIn(f) = Newest(S, request.limit)
  BY DEF FoundIn, ByConversation
<1>3. Item(m) = x
  BY DEF Item
<1>4. x \in S
  BY <1>3, FolderItems
<1>5. CASE x \notin FoundIn(f)
  <2>1. S \in SUBSET Items /\ IsFiniteSet(S)
    BY FolderItems
  <2>2. /\ Cardinality(FoundIn(f)) = request.limit
        /\ \A y \in FoundIn(f) : Newer(y, x) /\ y \in S
    BY <1>1, <1>2, <1>4, <1>5, <2>1, LeftOut, NewestAtMost
  <2>3. ASSUME NEW y \in FoundIn(f) PROVE y.m > m
    <3>1. y \in S /\ y.m \in Nat /\ m \in Nat
      BY <2>1, <2>2, ThreadAssumption DEF Items
    <3>2. y.id = version[y.m]
      BY <3>1, FolderItems
    <3>3. y.m > m \/ (y.m = m /\ y.id > 0)
      BY <2>2 DEF Newer
    <3> QED
      BY <3>1, <3>2, <3>3
  <2>4. {y \in FoundIn(f) : y.m > m} = FoundIn(f)
    BY <2>3
  <2> QED
    BY <1>1, <2>2, <2>4
<1> QED
  BY <1>5

-----------------------------------------------------------------------------
\* What accounts for a message still does when more is collected.
LEMMA StillAccounted ==
  ASSUME ThreadIInv, IsFiniteSet(collected'), collected \subseteq collected',
         request' = request, NEW m, Accounted(m)
  PROVE  Accounted(m)'
<1>1. CASE [m |-> m, id |-> 0] \in collected
  BY <1>1 DEF Accounted
<1>2. CASE Cardinality({y \in collected : y.m > m}) >= request.limit
  <2> DEFINE S == {y \in collected : y.m > m}
             T == {y \in collected' : y.m > m}
  <2>1. S \in SUBSET T /\ T \in SUBSET collected'
    OBVIOUS
  <2>2. IsFiniteSet(T)
    BY <2>1, FS_Subset
  <2>3. Cardinality(S) <= Cardinality(T) /\ Cardinality(T) \in Nat /\ Cardinality(S) \in Nat
    BY <2>1, <2>2, FS_Subset, FS_CardinalityType
  <2>4. request.limit \in Nat
    BY ThreadAssumption DEF ThreadIInv, ThreadTyped
  <2>5. Cardinality(T) >= request.limit
    BY <1>2, <2>3, <2>4
  <2> QED
    BY <2>5 DEF Accounted
<1> QED
  BY <1>1, <1>2 DEF Accounted

LEMMA ThreadInitInv == ThreadInit => ThreadIInv
<1> SUFFICES ASSUME ThreadInit PROVE ThreadIInv
  OBVIOUS
<1>1. request \in [anchor : {m \in Messages : kin[m] = "thread"} \cup {None},
                   folders : FolderLists, limit : Limits, subject : BOOLEAN]
  BY DEF ThreadInit
<1>2. /\ request \in [anchor : Messages \cup {None}, folders : FolderLists,
                      limit : Limits, subject : BOOLEAN]
      /\ request.anchor # None => kin[request.anchor] = "thread"
      /\ request.folders \in Seq(Folders) /\ request.limit \in Nat
  BY <1>1, ThreadAssumption
<1>3. ThreadTyped
  <2>1. Cardinality({}) = 0 /\ IsFiniteSet({})
    BY FS_EmptySet
  <2>2. /\ place \in [Messages -> Folders \cup {None}]
        /\ version \in [Messages -> Nat]
        /\ phase \in {"anchor", "folders", "done"}
        /\ todo = request.folders /\ collected = {} /\ answer = {}
        /\ truncated = FALSE /\ outcome = "none" /\ stayed = Messages
    BY DEF ThreadInit
  <2>3. Cardinality(answer) <= request.limit /\ collected \subseteq Items
        /\ IsFiniteSet(collected) /\ answer \subseteq collected
    BY <1>2, <2>1, <2>2
  <2> QED
    BY <1>2, <2>2, <2>3 DEF ThreadTyped
<1>4. FoldersInTurn /\ Searched = {}
  <2>1. todo = request.folders /\ Len(request.folders) \in Nat
    BY <1>2 DEF ThreadInit
  <2> QED
    BY <2>1 DEF FoldersInTurn, Searched
<1>5. CollectedTrue /\ StayedAccounted
  BY <1>4 DEF ThreadInit, CollectedTrue, StayedAccounted
<1>6. NewestKept /\ ThreadOnce
  BY DEF ThreadInit, NewestKept, ThreadOnce
<1> QED
  BY <1>3, <1>4, <1>5, <1>6 DEF ThreadInit, ThreadIInv

\* While nothing is returned there is nothing to show of the answer.
LEMMA NoAnswerYet ==
  ASSUME outcome' # "ok", answer' = {}, truncated' = FALSE
  PROVE  NewestKept' /\ ThreadOnce'
BY DEF NewestKept, ThreadOnce

LEMMA RaiseInv ==
  ASSUME ThreadIInv, phase # "done", Raise, UNCHANGED worldVars
  PROVE  ThreadIInv'
<1>1. /\ phase' = "done" /\ outcome' = "error"
      /\ UNCHANGED <<request, todo, collected, answer, truncated>>
      /\ UNCHANGED <<place, version, kin, server, stayed, changes>>
  BY DEF Raise, worldVars
<1>2. ThreadTyped'
  BY <1>1 DEF ThreadIInv, ThreadTyped
<1>3. FoldersInTurn' /\ Searched' = Searched /\ CollectedTrue'
  BY <1>1 DEF ThreadIInv, FoldersInTurn, Searched, CollectedTrue
<1>4. StayedAccounted'
  BY <1>1, <1>3 DEF ThreadIInv, StayedAccounted, Accounted
<1>5. NewestKept' /\ ThreadOnce'
  BY <1>1, NoAnswerYet DEF ThreadIInv
<1> QED
  BY <1>1, <1>2, <1>3, <1>4, <1>5 DEF ThreadIInv

LEMMA FetchAnchorInv == ThreadIInv /\ FetchAnchor => ThreadIInv'
<1> SUFFICES ASSUME ThreadIInv, FetchAnchor PROVE ThreadIInv'
  OBVIOUS
<1>1. CASE Raise
  BY <1>1, RaiseInv DEF FetchAnchor
<1>2. CASE /\ Present([m |-> request.anchor, id |-> 0])
           /\ collected' = {Item(request.anchor)}
           /\ phase' = "folders"
           /\ UNCHANGED <<request, todo, answer, truncated, outcome>>
  <2> DEFINE a == request.anchor
  <2>1. /\ phase = "anchor" /\ UNCHANGED <<place, version, kin, server, stayed, changes>>
        /\ answer = {} /\ outcome = "none" /\ truncated = FALSE
    BY DEF FetchAnchor, worldVars, ThreadIInv
  <2>2. a \in Messages /\ kin[a] = "thread"
    BY <2>1 DEF ThreadIInv, ThreadTyped
  <2>3. /\ Item(a) \in Items /\ Item(a).m = a /\ Item(a).id = version[a]
        /\ version[a] \in Nat
    BY <2>2 DEF ThreadIInv, ThreadTyped, Item, Items
  <2>4. IsFiniteSet(collected') /\ collected' \subseteq Items
    BY <1>2, <2>3, FS_Singleton
  <2>5. ThreadTyped'
    BY <1>2, <2>1, <2>4 DEF ThreadIInv, ThreadTyped
  <2>6. FoldersInTurn' /\ Searched' = Searched
    BY <1>2, <2>1 DEF ThreadIInv, FoldersInTurn, Searched
  <2>7. CollectedTrue'
    BY <1>2, <2>1, <2>2, <2>3 DEF CollectedTrue
  <2>8. StayedAccounted'
    BY <1>2, <2>1, <2>4, <2>6, StillAccounted DEF ThreadIInv, StayedAccounted
  <2>9. NewestKept' /\ ThreadOnce'
    BY <1>2, <2>1, NoAnswerYet
  <2> QED
    BY <1>2, <2>1, <2>5, <2>6, <2>7, <2>8, <2>9 DEF ThreadIInv
<1> QED
  BY <1>1, <1>2 DEF FetchAnchor

LEMMA SearchFolderInv == ThreadIInv /\ SearchFolder => ThreadIInv'
<1> SUFFICES ASSUME ThreadIInv, SearchFolder PROVE ThreadIInv'
  OBVIOUS
<1>1. CASE Raise
  BY <1>1, RaiseInv DEF SearchFolder
<1>2. CASE /\ collected' = collected \cup FoundIn(Head(todo))
           /\ todo' = Tail(todo)
           /\ UNCHANGED <<request, phase, answer, truncated, outcome>>
  <2> DEFINE f == Head(todo)
             n == Len(request.folders)
  <2>1. /\ phase = "folders" /\ todo # <<>> /\ todo \in Seq(Folders)
        /\ UNCHANGED <<place, version, kin, server, stayed, changes>>
        /\ answer = {} /\ outcome = "none" /\ truncated = FALSE
        /\ request.folders \in Seq(Folders) /\ n \in Nat /\ request.limit \in Nat
    <3>1. request.folders \in Seq(Folders) /\ request.limit \in Nat
      BY ThreadAssumption DEF ThreadIInv, ThreadTyped
    <3>2. n \in Nat
      BY <3>1
    <3> QED
      BY <3>1, <3>2 DEF SearchFolder, worldVars, ThreadIInv, ThreadTyped
  <2>2. /\ Len(todo) \in Nat \ {0} /\ f = todo[1] /\ Tail(todo) \in Seq(Folders)
        /\ Len(Tail(todo)) = Len(todo) - 1
        /\ \A k \in 1..Len(Tail(todo)) : Tail(todo)[k] = todo[k + 1]
    BY <2>1
  <2>3. /\ FoundIn(f) \in SUBSET Items /\ IsFiniteSet(FoundIn(f))
        /\ \A x \in FoundIn(f) : kin[x.m] = "thread" /\ x.id = version[x.m]
    BY FoundItems DEF ThreadIInv
  <2>4. IsFiniteSet(collected') /\ collected' \subseteq Items
    BY <1>2, <2>3, FS_Union DEF ThreadIInv, ThreadTyped
  <2>5. ThreadTyped'
    BY <1>2, <2>1, <2>2, <2>4 DEF ThreadIInv, ThreadTyped
  <2>6. /\ Len(todo) <= n
        /\ \A k \in 1..Len(todo) : todo[k] = request.folders[(n - Len(todo)) + k]
    BY DEF ThreadIInv, FoldersInTurn
  <2>7. FoldersInTurn'
    <3>1. Len(todo') <= n
      BY <1>2, <2>1, <2>2, <2>6
    <3>2. ASSUME NEW k \in 1..Len(todo')
          PROVE  todo'[k] = request.folders[(n - Len(todo')) + k]
      <4>1. todo'[k] = todo[k + 1] /\ k + 1 \in 1..Len(todo)
        BY <1>2, <2>2
      <4>2. (n - Len(todo)) + (k + 1) = (n - Len(todo')) + k
        <5>1. \A a, b, c \in Int : (a - b) + (c + 1) = (a - (b - 1)) + c
          OBVIOUS
        <5>2. Len(todo) \in Int /\ n \in Int /\ k \in Int /\ Len(todo') = Len(todo) - 1
          BY <1>2, <2>1, <2>2
        <5>3. (n - Len(todo)) + (k + 1) = (n - (Len(todo) - 1)) + k
          BY <5>1, <5>2
        <5> QED
          BY <5>2, <5>3
      <4> QED
        BY <2>6, <4>1, <4>2
    <3> QED
      BY <1>2, <3>1, <3>2 DEF FoldersInTurn
  <2>8. Searched' = Searched \cup {f}
    <3> DEFINE g == request.folders
               d == n - Len(todo)
    <3>1. f = g[d + 1] /\ d \in Nat
      BY <2>1, <2>2, <2>6
    <3>2. n - Len(todo') = d + 1
      BY <1>2, <2>1, <2>2
    <3>3. Searched = {g[k] : k \in 1..d}
      BY DEF Searched
    <3>4. Searched' = {g[k] : k \in 1..(d + 1)}
      BY <1>2, <3>2 DEF Searched
    <3>5. 1..(d + 1) = 1..d \cup {d + 1}
      BY <3>1
    <3> QED
      BY <3>1, <3>3, <3>4, <3>5
  <2>9. CollectedTrue'
    <3>1. \A x \in FoundIn(f) : x.id \in Nat
      BY <2>3 DEF Items
    <3> QED
      BY <1>2, <2>1, <2>3, <3>1 DEF ThreadIInv, CollectedTrue
  <2>10. StayedAccounted'
    <3> SUFFICES ASSUME NEW m \in stayed, server, kin[m] = "thread",
                        place[m] \in Searched \cup {f}
                 PROVE  Accounted(m)'
      BY <2>1, <2>8 DEF ThreadIInv, StayedAccounted
    <3>1. m \in Messages /\ version[m] = 0
      BY DEF ThreadIInv, ThreadTyped, StayedAccounted
    <3>2. CASE place[m] \in Searched
      <4>1. Accounted(m)
        BY <3>2 DEF ThreadIInv, StayedAccounted
      <4> QED
        BY <1>2, <2>4, <4>1, StillAccounted
    <3>3. CASE place[m] = f
      <4>1. CASE [m |-> m, id |-> 0] \in FoundIn(f)
        BY <1>2, <4>1 DEF Accounted
      <4>2. CASE Cardinality({y \in FoundIn(f) : y.m > m}) >= request.limit
        <5> DEFINE S == {y \in FoundIn(f) : y.m > m}
                   T == {y \in collected' : y.m > m}
        <5>1. S \in SUBSET T /\ T \in SUBSET collected'
          BY <1>2
        <5>2. IsFiniteSet(T)
          BY <2>4, <5>1, FS_Subset
        <5>3. Cardinality(S) <= Cardinality(T) /\ Cardinality(T) \in Nat
              /\ Cardinality(S) \in Nat
          BY <5>1, <5>2, FS_Subset, FS_CardinalityType
        <5>4. Cardinality(T) >= request.limit
          BY <2>1, <4>2, <5>3
        <5> QED
          BY <1>2, <5>4 DEF Accounted
      <4> QED
        BY <3>1, <3>3, <4>1, <4>2, FoundOrNewer DEF ThreadIInv
    <3> QED
      BY <3>2, <3>3
  <2>11. NewestKept' /\ ThreadOnce'
    BY <1>2, <2>1, NoAnswerYet
  <2> QED
    BY <1>2, <2>1, <2>5, <2>7, <2>9, <2>10, <2>11 DEF ThreadIInv
<1> QED
  BY <1>1, <1>2 DEF SearchFolder

\* A message that is accounted for is in the answer, unless the limit left it
\* out for newer ones.
LEMMA AccountedAnswered ==
  ASSUME ThreadIInv, NEW m \in stayed, place[m] # None, Accounted(m)
  PROVE  \/ \E x \in Bodies : x.m = m
         \/ /\ Cardinality(Selected) = request.limit
            /\ \A x \in Selected : x.m > m
<1> DEFINE x == [m |-> m, id |-> 0]
           n == request.limit
<1>1. /\ n \in Nat \ {0} /\ collected \in SUBSET Items /\ IsFiniteSet(collected)
      /\ m \in Messages /\ m \in Nat /\ version[m] = 0
  BY ThreadAssumption DEF ThreadIInv, ThreadTyped, StayedAccounted
<1>2. x \in Items /\ x.m = m /\ x.id = 0
  BY <1>1 DEF Items
<1>3. Selected = Newest(collected, n)
  BY DEF Selected
<1>4. \A y \in collected : y.m \in Nat /\ y.id \in Nat /\ (y.m = m => y.id = 0)
  <2>1. \A y \in collected : y.m \in Nat /\ y.id \in Nat /\ y.id <= version[y.m]
    BY <1>1, ThreadAssumption DEF Items, ThreadIInv, CollectedTrue
  <2> QED
    BY <1>1, <2>1
<1>5. CASE x \in Selected
  <2>1. x \in Bodies
    BY <1>1, <1>2, <1>5 DEF Bodies, Present
  <2> QED
    BY <1>2, <2>1
<1>6. CASE x \in collected \ Selected
  <2>1. /\ Cardinality(Selected) = n
        /\ \A y \in Selected : Newer(y, x) /\ y \in collected
    BY <1>1, <1>3, <1>6, LeftOut, NewestAtMost
  <2>2. ASSUME NEW y \in Selected PROVE y.m > m
    BY <1>2, <1>4, <2>1 DEF Newer
  <2> QED
    BY <2>1, <2>2
<1>7. CASE Cardinality({y \in collected : y.m > m}) >= n
  <2> DEFINE S == {y \in collected : y.m > m}
  <2>1. IsFiniteSet(S) /\ Cardinality(S) \in Nat /\ Cardinality(S) >= n
    <3>1. S \in SUBSET collected
      OBVIOUS
    <3> QED
      BY <1>1, <1>7, <3>1, FS_Subset, FS_CardinalityType
  <2>2. ASSUME NEW y \in Selected PROVE y.m > m
    <3> SUFFICES ASSUME ~(y.m > m) PROVE FALSE
      OBVIOUS
    <3>1. y \in collected /\ Cardinality(Above(collected, y)) < n
      BY <1>3, NewestIsAbove, <1>1, NewestAtMost
    <3>2. S \in SUBSET Above(collected, y)
      BY <1>1, <1>4, <3>1 DEF Above, Newer
    <3>3. IsFiniteSet(Above(collected, y)) /\ Cardinality(Above(collected, y)) \in Nat
      BY <1>1, AboveType
    <3>4. Cardinality(S) <= Cardinality(Above(collected, y))
      BY <3>2, <3>3, FS_Subset
    <3> QED
      BY <1>1, <2>1, <3>1, <3>3, <3>4
  <2>3. Cardinality(Selected) = n
    <3>1. CASE collected = Selected
      <4>1. S = collected
        BY <2>2, <3>1
      <4>2. Cardinality(Selected) <= n
        BY <1>1, <1>3, NewestAtMost
      <4> QED
        BY <1>1, <2>1, <3>1, <4>1, <4>2
    <3>2. CASE collected # Selected
      <4>1. PICK y : y \in collected \ Selected
        BY <1>1, <1>3, <3>2, NewestAtMost
      <4> QED
        BY <1>1, <1>3, <4>1, LeftOut
    <3> QED
      BY <3>1, <3>2
  <2> QED
    BY <2>2, <2>3
<1> QED
  BY <1>5, <1>6, <1>7 DEF Accounted

LEMMA ReturnInv == ThreadIInv /\ Return => ThreadIInv'
<1> SUFFICES ASSUME ThreadIInv, Return PROVE ThreadIInv'
  OBVIOUS
<1>1. CASE Raise
  BY <1>1, RaiseInv DEF Return
<1>2. CASE /\ answer' = Bodies
           /\ truncated' = TooMany
           /\ outcome' = "ok"
           /\ phase' = "done"
           /\ UNCHANGED <<request, todo, collected>>
  <2> DEFINE n == request.limit
  <2>1. /\ phase = "folders" /\ todo = <<>>
        /\ UNCHANGED <<place, version, kin, server, stayed, changes>>
        /\ n \in Nat \ {0} /\ request.folders \in Seq(Folders)
        /\ collected \in SUBSET Items /\ IsFiniteSet(collected)
    BY ThreadAssumption DEF Return, worldVars, ThreadIInv, ThreadTyped
  <2>2. /\ Selected \subseteq collected /\ IsFiniteSet(Selected)
        /\ Cardinality(Selected) \in Nat /\ Cardinality(Selected) <= n
    BY <2>1, NewestAtMost DEF Selected
  <2>3. Bodies \in SUBSET Selected
    BY DEF Bodies
  <2>4. Cardinality(Bodies) <= n
    <3>1. Cardinality(Bodies) <= Cardinality(Selected) /\ Cardinality(Bodies) \in Nat
      BY <2>2, <2>3, FS_Subset, FS_CardinalityType
    <3> QED
      BY <2>1, <2>2, <3>1
  <2>5. ThreadTyped'
    <3>1. TooMany \in BOOLEAN
      BY DEF TooMany
    <3> QED
      BY <1>2, <2>1, <2>2, <2>3, <2>4, <3>1 DEF ThreadIInv, ThreadTyped
  <2>6. FoldersInTurn' /\ Searched' = Searched /\ CollectedTrue'
    BY <1>2, <2>1 DEF ThreadIInv, FoldersInTurn, Searched, CollectedTrue
  <2>7. StayedAccounted'
    BY <1>2, <2>1, <2>6 DEF ThreadIInv, StayedAccounted, Accounted
  <2>8. Selected' = Selected /\ Certain' = Certain
    BY <1>2, <2>1 DEF Selected, Newest, Newer, Certain, ToSet
  <2>9. ASSUME server, NEW m \in Certain
        PROVE  \/ \E x \in Bodies : x.m = m
               \/ /\ Cardinality(Selected) = n
                  /\ \A x \in Selected : x.m > m
    <3>1. /\ m \in stayed /\ m \in Messages /\ kin[m] = "thread"
          /\ place[m] \in ToSet(request.folders)
      BY DEF Certain, ThreadIInv, ThreadTyped
    <3>2. place[m] \in Searched /\ place[m] # None
      <4>1. PICK k \in 1..Len(request.folders) : place[m] = request.folders[k]
        BY <2>1, <3>1 DEF ToSet
      <4>2. Len(request.folders) - Len(todo) = Len(request.folders)
        BY <2>1
      <4>3. place[m] \in Folders
        BY <2>1, <4>1
      <4> QED
        BY <4>1, <4>2, <4>3, ThreadAssumption DEF Searched
    <3>3. Accounted(m)
      BY <2>9, <3>1, <3>2 DEF ThreadIInv, StayedAccounted
    <3> QED
      BY <3>1, <3>2, <3>3, AccountedAnswered
  <2>10. ASSUME TooMany PROVE \E x \in collected : \A y \in Bodies : Newer(y, x)
    <3>1. Cardinality(collected) \in Nat /\ Cardinality(collected) > n
      BY <2>1, <2>10, FS_CardinalityType DEF TooMany
    <3>2. PICK x : x \in collected \ Selected
      <4>1. collected # Selected
        BY <2>1, <2>2, <3>1
      <4> QED
        BY <2>2, <4>1
    <3>3. \A y \in Selected : Newer(y, x)
      BY <2>1, <3>2, LeftOut DEF Selected
    <3> QED
      BY <2>3, <3>2, <3>3
  <2>11. NewestKept'
    BY <1>2, <2>1, <2>8, <2>9, <2>10 DEF NewestKept, InAnswer, Newer
  <2>12. ThreadOnce'
    <3> SUFFICES ASSUME NEW x \in Bodies
                 PROVE  /\ kin[x.m] = "thread"
                        /\ \A y \in Bodies : x.m = y.m => x = y \/ IsAnchor(x)
      BY <1>2, <2>1 DEF ThreadOnce, IsAnchor
    <3>1. kin[x.m] = "thread"
      BY <2>2, <2>3 DEF ThreadIInv, CollectedTrue
    <3>2. ASSUME NEW y \in Bodies, x.m = y.m, ~IsAnchor(x) PROVE x = y
      <4>1. Present(x) /\ Present(y)
        BY <3>2 DEF Bodies, Anchor, IsAnchor
      <4>2. x.id = y.id
        BY <3>2, <4>1 DEF Present
      <4>3. x = [m |-> x.m, id |-> x.id] /\ y = [m |-> y.m, id |-> y.id]
        BY <2>1, <2>2, <2>3 DEF Items
      <4> QED
        BY <3>2, <4>2, <4>3
    <3> QED
      BY <3>1, <3>2
  <2> QED
    BY <1>2, <2>5, <2>6, <2>7, <2>11, <2>12 DEF ThreadIInv
<1> QED
  BY <1>1, <1>2 DEF Return

LEMMA ChangeInv == \A m \in Messages : ThreadIInv /\ Change(m) => ThreadIInv'
<1> SUFFICES ASSUME NEW m \in Messages, ThreadIInv, Change(m) PROVE ThreadIInv'
  OBVIOUS
<1>1. /\ phase # "done" /\ version' = [version EXCEPT ![m] = @ + 1]
      /\ stayed' = stayed \ {m}
      /\ UNCHANGED <<kin, server, request, phase, todo, collected, answer, truncated, outcome>>
  BY DEF Change, callVars
<1>2. PICK f \in (Folders \cup {None}) \ {place[m]} : place' = [place EXCEPT ![m] = f]
  BY DEF Change
<1>3. /\ place \in [Messages -> Folders \cup {None}] /\ version \in [Messages -> Nat]
      /\ stayed \subseteq Messages /\ collected \subseteq Items
  BY DEF ThreadIInv, ThreadTyped
<1>4. /\ place' \in [Messages -> Folders \cup {None}] /\ version' \in [Messages -> Nat]
      /\ \A k \in Messages \ {m} : place'[k] = place[k] /\ version'[k] = version[k]
      /\ \A k \in Messages : version'[k] >= version[k]
  BY <1>1, <1>2, <1>3
<1>5. ThreadTyped'
  BY <1>1, <1>4 DEF ThreadIInv, ThreadTyped
<1>6. FoldersInTurn' /\ Searched' = Searched
  BY <1>1 DEF ThreadIInv, FoldersInTurn, Searched
<1>7. CollectedTrue'
  <2> SUFFICES ASSUME NEW x \in collected
               PROVE  kin[x.m] = "thread" /\ x.id <= version'[x.m]
    BY <1>1 DEF CollectedTrue
  <2>1. x.m \in Messages /\ x.id \in Nat
    BY <1>3 DEF Items
  <2>2. kin[x.m] = "thread" /\ x.id <= version[x.m]
    BY DEF ThreadIInv, CollectedTrue
  <2>3. version[x.m] \in Nat /\ version'[x.m] \in Nat /\ version'[x.m] >= version[x.m]
    BY <1>3, <1>4, <2>1
  <2> QED
    BY <2>1, <2>2, <2>3
<1>8. StayedAccounted'
  <2> SUFFICES ASSUME NEW k \in stayed \ {m}
               PROVE  /\ version'[k] = 0
                      /\ server /\ kin[k] = "thread" /\ place'[k] \in Searched => Accounted(k)'
    BY <1>1, <1>6 DEF StayedAccounted
  <2>1. k \in Messages /\ place'[k] = place[k] /\ version'[k] = version[k]
    BY <1>3, <1>4
  <2>2. Accounted(k)' <=> Accounted(k)
    BY <1>1 DEF Accounted
  <2> QED
    BY <2>1, <2>2 DEF ThreadIInv, StayedAccounted
<1>9. NewestKept' /\ ThreadOnce'
  BY <1>1, NoAnswerYet DEF ThreadIInv
<1> QED
  BY <1>1, <1>5, <1>6, <1>7, <1>8, <1>9 DEF ThreadIInv

LEMMA ThreadStutterInv == ThreadIInv /\ UNCHANGED threadVars => ThreadIInv'
<1> SUFFICES ASSUME ThreadIInv, UNCHANGED threadVars PROVE ThreadIInv'
  OBVIOUS
<1>1. UNCHANGED <<request, phase, todo, collected, answer, truncated, outcome,
                  place, version, kin, server, stayed, changes>>
  BY DEF threadVars, callVars, worldVars
<1>2. ThreadTyped' /\ FoldersInTurn' /\ CollectedTrue' /\ Searched' = Searched
  BY <1>1 DEF ThreadIInv, ThreadTyped, FoldersInTurn, CollectedTrue, Searched
<1>3. StayedAccounted'
  BY <1>1, <1>2 DEF ThreadIInv, StayedAccounted, Accounted
<1>4. NewestKept'
  <2>1. Selected' = Selected /\ Certain' = Certain
    BY <1>1 DEF Selected, Newest, Newer, Certain, ToSet
  <2> QED
    BY <1>1, <2>1 DEF ThreadIInv, NewestKept, InAnswer, Newer
<1>5. ThreadOnce'
  BY <1>1 DEF ThreadIInv, ThreadOnce, IsAnchor
<1> QED
  BY <1>1, <1>2, <1>3, <1>4, <1>5 DEF ThreadIInv

LEMMA ThreadInductive == ThreadSpec => []ThreadIInv
<1>1. ThreadIInv /\ [ThreadNext]_threadVars => ThreadIInv'
  BY FetchAnchorInv, SearchFolderInv, ReturnInv, ChangeInv, ThreadStutterInv DEF ThreadNext
<1> QED
  BY <1>1, ThreadInitInv, PTL DEF ThreadSpec

-----------------------------------------------------------------------------
LEMMA TypedThread == ThreadIInv => ThreadTypeOK
<1> SUFFICES ASSUME ThreadIInv PROVE ThreadTypeOK
  OBVIOUS
<1>1. IsSuffix(todo, request.folders)
  <2>1. todo \in Seq(Folders) /\ request.folders \in Seq(Folders)
    BY ThreadAssumption DEF ThreadIInv, ThreadTyped
  <2>2. /\ Len(todo) <= Len(request.folders)
        /\ \A k \in 1..Len(todo) :
             todo[k] = request.folders[(Len(request.folders) - Len(todo)) + k]
    BY DEF ThreadIInv, FoldersInTurn
  <2> QED
    BY <2>1, <2>2, RestIsSuffix
<1> QED
  BY <1>1 DEF ThreadIInv, ThreadTyped, ThreadTypeOK

\* Type correctness of get_thread: what is left to search is the rest of the
\* folders asked for, and the answer is never longer than the limit.
THEOREM ThreadTypes == ThreadSpec => []ThreadTypeOK
BY ThreadInductive, TypedThread, PTL

\* The answer of get_thread holds messages of the thread only, and none twice
\* under two ids but the one asked for, for any number of messages, folders and
\* moves between the searches.
THEOREM ThreadAnswersOnce == ThreadSpec => []ThreadOnce
<1>1. ThreadIInv => ThreadOnce
  BY DEF ThreadIInv
<1> QED
  BY <1>1, ThreadInductive, PTL

\* A message that lay in a searched folder all through the call is missing only
\* if the limit was used up by newer ones; and an answer that says it is
\* truncated left out something older than all it returns.
THEOREM ThreadKeepsNewest == ThreadSpec => []NewestKept
<1>1. ThreadIInv => NewestKept
  BY DEF ThreadIInv
<1> QED
  BY <1>1, ThreadInductive, PTL

-----------------------------------------------------------------------------
\* FolderLookup: _resolve_folder and the folder tools.

\* Paths: the first names of a path, what is above it, and two paths joined.
LEMMA FirstNames ==
  ASSUME NEW S, NEW s \in Seq(S), NEW k \in 0..Len(s)
  PROVE  /\ SubSeq(s, 1, k) \in Seq(S)
         /\ Len(SubSeq(s, 1, k)) = k
         /\ \A i \in 1..k : SubSeq(s, 1, k)[i] = s[i]
  OBVIOUS

LEMMA AllNames ==
  ASSUME NEW S, NEW s \in Seq(S)
  PROVE  SubSeq(s, 1, Len(s)) = s /\ SubSeq(s, 1, 0) = <<>>
  OBVIOUS

LEMMA FirstOfFirstNames ==
  ASSUME NEW S, NEW s \in Seq(S), NEW k \in 0..Len(s), NEW j \in 0..k
  PROVE  SubSeq(SubSeq(s, 1, k), 1, j) = SubSeq(s, 1, j)
<1>1. Len(SubSeq(s, 1, k)) = k /\ SubSeq(s, 1, k) \in Seq(S)
  BY FirstNames
<1> DEFINE a == SubSeq(SubSeq(s, 1, k), 1, j)
           b == SubSeq(s, 1, j)
<1>2. a \in Seq(S) /\ Len(a) = j /\ \A i \in 1..j : a[i] = SubSeq(s, 1, k)[i]
  BY <1>1, FirstNames, j \in 0..Len(SubSeq(s, 1, k))
<1>3. b \in Seq(S) /\ Len(b) = j /\ \A i \in 1..j : b[i] = s[i]
  BY FirstNames, j \in 0..Len(s)
<1>4. \A i \in 1..j : SubSeq(s, 1, k)[i] = s[i]
  BY FirstNames
<1>5. \A i \in 1..Len(a) : a[i] = b[i]
  BY <1>2, <1>3, <1>4
<1> HIDE DEF a, b
<1>6. a = b
  BY <1>2, <1>3, <1>5, SeqEqual
<1> QED
  BY <1>6 DEF a, b

LEMMA AboveFirstNames ==
  ASSUME NEW S, NEW s \in Seq(S), NEW k \in 1..Len(s)
  PROVE  Front(SubSeq(s, 1, k)) = SubSeq(s, 1, k - 1)
<1>1. Len(SubSeq(s, 1, k)) = k /\ k \in 0..Len(s) /\ k - 1 \in 0..k
  BY FirstNames
<1> QED
  BY <1>1, FirstOfFirstNames DEF Front

LEMMA LastNames ==
  ASSUME NEW S, NEW s \in Seq(S), NEW m \in 0..Len(s)
  PROVE  /\ SubSeq(s, m + 1, Len(s)) \in Seq(S)
         /\ Len(SubSeq(s, m + 1, Len(s))) = Len(s) - m
         /\ \A i \in 1..(Len(s) - m) : SubSeq(s, m + 1, Len(s))[i] = s[m + i]
  OBVIOUS

LEMMA AboveNames ==
  ASSUME NEW S, NEW s \in Seq(S), Len(s) # 0
  PROVE  /\ Front(s) \in Seq(S) /\ Len(Front(s)) = Len(s) - 1
         /\ \A i \in 1..(Len(s) - 1) : Front(s)[i] = s[i]
<1>1. Len(s) \in Nat /\ Len(s) - 1 \in 0..Len(s)
  OBVIOUS
<1> QED
  BY <1>1, FirstNames DEF Front

LEMMA JoinedPath ==
  ASSUME NEW S, NEW a \in Seq(S), NEW b \in Seq(S)
  PROVE  /\ a \o b \in Seq(S) /\ Len(a \o b) = Len(a) + Len(b)
         /\ \A i \in 1..Len(a) : (a \o b)[i] = a[i]
         /\ \A i \in 1..Len(b) : (a \o b)[Len(a) + i] = b[i]
  OBVIOUS

LEMMA FirstNamesJoined ==
  ASSUME NEW S, NEW a \in Seq(S), NEW b \in Seq(S), NEW k \in 0..Len(b)
  PROVE  SubSeq(a \o b, 1, Len(a) + k) = a \o SubSeq(b, 1, k)
<1> DEFINE c == SubSeq(a \o b, 1, Len(a) + k)
           d == a \o SubSeq(b, 1, k)
<1>1. a \o b \in Seq(S) /\ Len(a) + k \in 0..Len(a \o b)
  BY JoinedPath
<1>2. /\ c \in Seq(S) /\ Len(c) = Len(a) + k
      /\ \A i \in 1..(Len(a) + k) : c[i] = (a \o b)[i]
  BY <1>1, FirstNames
<1>3. d \in Seq(S) /\ Len(d) = Len(a) + k
  BY FirstNames, JoinedPath
<1>4. ASSUME NEW i \in 1..(Len(a) + k) PROVE c[i] = d[i]
  <2>1. c[i] = (a \o b)[i]
    BY <1>2
  <2>2. CASE i \in 1..Len(a)
    <3>1. d[i] = a[i] /\ (a \o b)[i] = a[i]
      BY <2>2, FirstNames, JoinedPath
    <3> QED
      BY <2>1, <3>1
  <2>3. CASE i \notin 1..Len(a)
    <3> DEFINE j == i - Len(a)
    <3>1. j \in 1..k /\ i = Len(a) + j
      BY <2>3
    <3>2. (a \o b)[Len(a) + j] = b[j]
      BY <3>1, JoinedPath
    <3>3. d[Len(a) + j] = SubSeq(b, 1, k)[j]
      BY <3>1, FirstNames, JoinedPath
    <3>4. SubSeq(b, 1, k)[j] = b[j]
      BY <3>1, FirstNames
    <3> QED
      BY <2>1, <3>1, <3>2, <3>3, <3>4
  <2> QED
    BY <2>2, <2>3
<1> HIDE DEF c, d
<1>5. c = d
  BY <1>2, <1>3, <1>4, SeqEqual
<1> QED
  BY <1>5 DEF c, d

LEMMA JoinedThrice ==
  ASSUME NEW S, NEW a \in Seq(S), NEW b \in Seq(S), NEW c \in Seq(S)
  PROVE  (a \o b) \o c = a \o (b \o c)
  OBVIOUS

LEMMA RestJoined ==
  ASSUME NEW S, NEW p \in Seq(S), p # <<>>
  PROVE  /\ Head(p) \in S /\ Head(p) = p[1] /\ Tail(p) \in Seq(S)
         /\ p = <<Head(p)>> \o Tail(p)
         /\ Len(p) \in Nat \ {0} /\ (Tail(p) = <<>> => Len(p) = 1)
  OBVIOUS

LEMMA NothingJoined ==
  ASSUME NEW S, NEW p \in Seq(S)
  PROVE  <<>> \o p = p /\ p \o <<>> = p
  OBVIOUS

LEMMA ShortPaths ==
  ASSUME NEW S, NEW x \in S, NEW y \in S
  PROVE  /\ <<x>> \in Seq(S) /\ Len(<<x>>) = 1 /\ <<x, y>> \in Seq(S) /\ Len(<<x, y>>) = 2
         /\ <<x>> \o <<y>> = <<x, y>>
         /\ Front(<<x>>) = <<>> /\ Front(<<x, y>>) = <<x>>
<1>1. <<x>> \in Seq(S) /\ Len(<<x>>) = 1 /\ <<x>>[1] = x
  OBVIOUS
<1>2. <<x, y>> \in Seq(S) /\ Len(<<x, y>>) = 2 /\ <<x, y>>[1] = x
  OBVIOUS
<1> DEFINE ab == <<x>> \o <<y>>
           xy == <<x, y>>
<1>0. ab \in Seq(S) /\ Len(ab) = 2 /\ ab[1] = x /\ ab[2] = y
  OBVIOUS
<1>00. xy \in Seq(S) /\ Len(xy) = 2 /\ xy[1] = x /\ xy[2] = y
  OBVIOUS
<1>3. ab = xy
  <2> HIDE DEF ab, xy
  <2>1. \A i \in 1..Len(ab) : ab[i] = xy[i]
    BY <1>0, <1>00, 1..2 = {1, 2}
  <2> QED
    BY <1>0, <1>00, <2>1, SeqEqual
<1>4. Front(<<x>>) = <<>>
  <2>1. Front(<<x>>) = SubSeq(<<x>>, 1, 0)
    BY <1>1, 1 - 1 = 0 DEF Front
  <2> QED
    BY <1>1, <2>1, AllNames
<1>5. Front(<<x, y>>) = <<x>>
  <2> DEFINE f == SubSeq(<<x, y>>, 1, 1)
             g == <<x, y>>
  <2>1. Front(g) = f
    BY <1>2, 2 - 1 = 1 DEF Front
  <2>2. 1 \in 0..Len(g)
    BY <1>2
  <2>3. f \in Seq(S) /\ Len(f) = 1 /\ f[1] = g[1]
    <3>1. g \in Seq(S)
      BY <1>2
    <3>2. SubSeq(g, 1, 1) = f
      BY DEF f, g
    <3>3. /\ SubSeq(g, 1, 1) \in Seq(S) /\ Len(SubSeq(g, 1, 1)) = 1
          /\ SubSeq(g, 1, 1)[1] = g[1]
      <4> HIDE DEF g, f
      <4>1. 1 \in 1..1
        OBVIOUS
      <4> QED
        BY <2>2, <3>1, <4>1, FirstNames
    <3> QED
      BY <3>2, <3>3, Zenon
  <2> HIDE DEF f
  <2>4. f = <<x>>
    BY <1>1, <1>2, <2>3, SeqEqual
  <2> QED
    BY <2>1, <2>4
<1> QED
  BY <1>1, <1>2, <1>3, <1>4, <1>5

LEMMA Top ==
  /\ Root \in Seq(Segments) /\ Tois \in Seq(Segments) /\ Len(Tois) = 1
  /\ DOMAIN Builtin = {"inbox"}
  /\ Builtin["inbox"] \in Seq(Segments) /\ Len(Builtin["inbox"]) = 2
  /\ Front(Tois) = Root /\ Front(Builtin["inbox"]) = Tois
  /\ Distinguished = {Root, Tois, Builtin["inbox"]}
  /\ "archive" # "inbox"
  /\ Tois # Root /\ Builtin["inbox"] # Root
<1>1. Builtin["inbox"] = <<"tois">> \o <<"inbox">>
  BY DEF Builtin, Tois
<1>2. DOMAIN Builtin = {"inbox"}
  BY DEF Builtin
<1>3. Distinguished = {Root, Tois, Builtin["inbox"]}
  BY <1>2 DEF Distinguished
<1>4. "tois" \in Segments /\ "inbox" \in Segments /\ "archive" # "inbox"
  <2>1. "archive" # "inbox"
    OBVIOUS
  <2> QED
    BY <1>2, <2>1, FolderAssumption
<1>5. Root \in Seq(Segments) /\ Len(Root) = 0
  BY DEF Root
<1>6. /\ <<"tois">> \in Seq(Segments) /\ Len(<<"tois">>) = 1
      /\ <<"tois", "inbox">> \in Seq(Segments) /\ Len(<<"tois", "inbox">>) = 2
      /\ <<"tois">> \o <<"inbox">> = <<"tois", "inbox">>
      /\ Front(<<"tois">>) = <<>> /\ Front(<<"tois", "inbox">>) = <<"tois">>
  BY <1>4, ShortPaths, Zenon
<1>7. Tois # Root /\ Builtin["inbox"] # Root
  BY <1>1, <1>5, <1>6 DEF Tois
<1> QED
  BY <1>1, <1>2, <1>3, <1>4, <1>5, <1>6, <1>7, Zenon DEF Tois, Root

-----------------------------------------------------------------------------
\* What is above a folder is a folder.
LEMMA AboveIsThere ==
  ASSUME FolderTypeOK, NEW n \in tree, n # Root
  PROVE  Front(n) \in tree
  BY Top DEF FolderTypeOK

\* All the folders on the way to a folder are there.
LEMMA WayIsThere ==
  ASSUME FolderTypeOK, NEW n \in tree, NEW k \in 0..Len(n)
  PROVE  SubSeq(n, 1, k) \in tree
<1>1. n \in Seq(Segments) /\ Len(n) \in Nat
  BY DEF FolderTypeOK
<1> DEFINE Missed == {j \in 0..Len(n) : SubSeq(n, 1, Len(n) - j) \notin tree}
<1>2. ASSUME Missed # {} PROVE FALSE
  <2>1. PICK j \in Missed : \A i \in Missed : j <= i
    <3>1. Missed \in SUBSET Nat
      BY <1>1
    <3> HIDE DEF Missed
    <3> QED
      BY <1>2, <3>1, LeastNumber
  <2>2. j \in 0..Len(n) /\ SubSeq(n, 1, Len(n) - j) \notin tree
    BY <2>1
  <2>3. j # 0
    BY <1>1, <2>2, AllNames, Len(n) - 0 = Len(n)
  <2> DEFINE m == Len(n) - (j - 1)
  <2>4. m \in 1..Len(n) /\ m - 1 = Len(n) - j /\ j - 1 \in 0..Len(n)
    BY <1>1, <2>2, <2>3
  <2>5. j - 1 \notin Missed
    <3>1. ~(j <= j - 1)
      BY <1>1, <2>2
    <3> QED
      BY <2>1, <3>1, Zenon
  <2>6. SubSeq(n, 1, m) \in tree
    BY <2>4, <2>5
  <2>7. Len(SubSeq(n, 1, m)) = m
    BY <1>1, <2>4, FirstNames
  <2>8. SubSeq(n, 1, m) # Root
    <3>1. m >= 1
      BY <2>4
    <3>2. Len(Root) = 0
      BY DEF Root
    <3>3. \A w : w = Root => ~(Len(w) >= 1)
      BY <3>2
    <3> HIDE DEF m
    <3> QED
      BY <2>7, <3>1, <3>3, Zenon
  <2>9. Front(SubSeq(n, 1, m)) \in tree
    BY <2>6, <2>8, AboveIsThere
  <2>10. Front(SubSeq(n, 1, m)) = SubSeq(n, 1, m - 1)
    BY <1>1, <2>4, AboveFirstNames
  <2> QED
    BY <2>2, <2>4, <2>9, <2>10
<1>3. Len(n) - k \in 0..Len(n) /\ Len(n) - (Len(n) - k) = k
  BY <1>1
<1> QED
  BY <1>2, <1>3

-----------------------------------------------------------------------------
\* A walk that arrives is at a folder that is there; one that no folder stops
\* arrives if there is such a folder.
LEMMA WalkArrives ==
  ASSUME FolderTypeOK, NEW D, NEW start \in Seq(Segments), NEW parts \in Seq(Segments)
  PROVE  /\ parts = <<>> => Walk(D, start, parts) = {}
         /\ \A n \in Walk(D, start, parts) : n = start \o parts /\ n \in tree
         /\ D = {} /\ parts # <<>> /\ start \o parts \in tree =>
              Walk(D, start, parts) = {start \o parts}
         /\ start \o parts \notin tree => Walk(D, start, parts) = {}
<1>1. parts = <<>> => Walk(D, start, parts) = {}
  BY DEF Walk
<1>2. ASSUME NEW n \in Walk(D, start, parts) PROVE n = start \o parts /\ n \in tree
  <2>1. n = start \o parts /\ parts # <<>>
    BY <1>2 DEF Walk
  <2>2. Len(parts) \in 1..Len(parts)
    BY <2>1, RestJoined
  <2>3. start \o SubSeq(parts, 1, Len(parts)) \in tree
    BY <1>2, <2>2 DEF Walk
  <2> QED
    BY <2>1, <2>3, AllNames
<1>3. ASSUME D = {}, parts # <<>>, start \o parts \in tree
      PROVE  Walk(D, start, parts) = {start \o parts}
  <2> DEFINE n == start \o parts
  <2>1. Len(n) = Len(start) + Len(parts) /\ Len(start) \in Nat /\ Len(parts) \in Nat
    BY JoinedPath
  <2>2. ASSUME NEW k \in 1..Len(parts) PROVE start \o SubSeq(parts, 1, k) \in tree
    <3>1. k \in 0..Len(parts) /\ Len(start) + k \in 0..Len(n)
      BY <2>1
    <3>2. SubSeq(n, 1, Len(start) + k) \in tree
      BY <1>3, <3>1, WayIsThere
    <3>3. SubSeq(n, 1, Len(start) + k) = start \o SubSeq(parts, 1, k)
      BY <3>1, FirstNamesJoined
    <3> QED
      BY <3>2, <3>3
  <2> QED
    BY <1>3, <2>2 DEF Walk
<1> QED
  <2>1. start \o parts \notin tree => Walk(D, start, parts) = {}
    BY <1>2
  <2> QED
    BY <1>1, <1>2, <1>3, <2>1

\* A name or path looked for below TOIS and the root.
LEMMA FromTopsArrives ==
  ASSUME FolderTypeOK, NEW D, NEW p \in Seq(Segments), p # <<>>
  PROVE  /\ \A n \in FromTops(D, p) : n \in tree /\ n \in {Tois \o p, p}
         /\ D = {} /\ Tois \o p \in tree => FromTops(D, p) = {Tois \o p}
         /\ D = {} /\ Tois \o p \notin tree /\ p \in tree => FromTops(D, p) = {p}
<1>1. Root \o p = p /\ Root \in Seq(Segments) /\ Tois \in Seq(Segments)
  BY Top, NothingJoined DEF Root
<1>2. /\ \A n \in Walk(D, Root, p) : n = p /\ n \in tree
      /\ D = {} /\ p \in tree => Walk(D, Root, p) = {p}
  <2>1. /\ \A n \in Walk(D, Root, p) : n = Root \o p /\ n \in tree
        /\ D = {} /\ p # <<>> /\ Root \o p \in tree => Walk(D, Root, p) = {Root \o p}
    BY <1>1, WalkArrives, Zenon
  <2> QED
    BY <1>1, <2>1, Zenon
<1>3. /\ \A n \in Walk(D, Tois, p) : n = Tois \o p /\ n \in tree
      /\ D = {} /\ Tois \o p \in tree => Walk(D, Tois, p) = {Tois \o p}
      /\ Tois \o p \notin tree => Walk(D, Tois, p) = {}
  BY <1>1, WalkArrives
<1> QED
  BY <1>2, <1>3, Zenon DEF FromTops, OrElse

\* The folders meant by a reference, by where they may be.
LEMMA MeantAre ==
  ASSUME FolderTypeOK, NEW r \in References, r.path # Root
  PROVE  /\ r.path \in Seq(Segments)
         /\ Head(r.path) = r.path[1] /\ Tail(r.path) \in Seq(Segments)
         /\ r.path = <<Head(r.path)>> \o Tail(r.path)
  BY FolderAssumption, RestJoined DEF Root

-----------------------------------------------------------------------------
\* The search by path.
LEMMA ByPathArrives ==
  ASSUME FolderTypeOK, NEW D, NEW r \in References, r.path # Root,
         ~(Len(r.path) = 1 /\ r.path[1] \in DOMAIN Builtin)
  PROVE  /\ \A n \in ByPath(D, r.path) : n \in Meant(r)
         /\ D = {} /\ Meant(r) # {} =>
              /\ ByPath(D, r.path) # {}
              /\ \A n \in ByPath(D, r.path) : n \in MeantFirst(r)
<1> DEFINE p == r.path
           rest == Tail(p)
           start == Builtin["inbox"]
           byName == UNION {Walk(D, n, rest) : n \in FindNamed(D, "archive")}
<1>1. /\ p \in Seq(Segments) /\ p # <<>> /\ Head(p) = p[1]
      /\ rest \in Seq(Segments) /\ p = <<Head(p)>> \o rest
      /\ DOMAIN Builtin = {"inbox"} /\ start \in Seq(Segments)
      /\ Tois \in Seq(Segments)
  BY MeantAre, Top DEF Root
<1>2. /\ \A n \in FromTops(D, p) : n \in tree /\ n \in {Tois \o p, p}
      /\ D = {} /\ Tois \o p \in tree => FromTops(D, p) = {Tois \o p}
      /\ D = {} /\ Tois \o p \notin tree /\ p \in tree => FromTops(D, p) = {p}
  BY <1>1, FromTopsArrives
<1>3. CASE p[1] = "inbox"
  <2>1. rest # <<>>
    <3>1. rest = <<>> => Len(p) = 1
      BY <1>1, RestJoined
    <3> QED
      BY <1>1, <1>3, <3>1
  <2>2. /\ \A n \in Walk(D, start, rest) : n = start \o rest /\ n \in tree
        /\ D = {} /\ start \o rest \in tree => Walk(D, start, rest) = {start \o rest}
        /\ start \o rest \notin tree => Walk(D, start, rest) = {}
    BY <1>1, <2>1, WalkArrives
  <2>3. ByPath(D, p) = OrElse(Walk(D, start, rest), FromTops(D, p))
    <3>1. Head(p) = "inbox" /\ "inbox" # "archive"
      BY <1>1, <1>3
    <3>2. OrElse({}, FromTops(D, p)) = FromTops(D, p)
      BY DEF OrElse
    <3> QED
      BY <1>1, <3>1, <3>2 DEF ByPath
  <2>4. /\ Meant(r) = {n \in tree : n \in {Tois \o p, p, start \o rest}}
        /\ MeantFirst(r) = {n \in Meant(r) :
                              IF start \o rest \in tree THEN n = start \o rest
                              ELSE Tois \o p \in tree => n = Tois \o p}
    BY <1>1, <1>3 DEF Meant, MeantFirst
  <2> HIDE DEF p, rest, start
  <2>5. /\ \A n \in ByPath(D, p) : n \in Meant(r)
        /\ D = {} /\ Meant(r) # {} =>
              /\ ByPath(D, p) # {}
              /\ \A n \in ByPath(D, p) : n \in MeantFirst(r)
    <3>1. \A n \in ByPath(D, p) : n \in Meant(r)
      BY <1>2, <2>2, <2>3, <2>4 DEF OrElse
    <3>2. ASSUME D = {}, Meant(r) # {}
          PROVE  ByPath(D, p) # {} /\ \A n \in ByPath(D, p) : n \in MeantFirst(r)
      <4>1. CASE start \o rest \in tree
        <5>1. ByPath(D, p) = {start \o rest}
          BY <2>2, <2>3, <3>2, <4>1 DEF OrElse
        <5> QED
          BY <2>4, <4>1, <5>1
      <4>2. CASE start \o rest \notin tree
        <5>1. ByPath(D, p) = FromTops(D, p)
          BY <2>2, <2>3, <4>2 DEF OrElse
        <5> QED
          BY <1>2, <2>4, <3>2, <4>2, <5>1, ZenonT(30)
      <4> QED
        BY <4>1, <4>2
    <3> QED
      BY <3>1, <3>2
  <2> QED
    BY <2>5 DEF p
<1>4. CASE p[1] # "inbox"
  <2>1. /\ Meant(r) = {n \in tree : n \in {Tois \o p, p}}
        /\ MeantFirst(r) = {n \in Meant(r) : Tois \o p \in tree => n = Tois \o p}
    BY <1>1, <1>4 DEF Meant, MeantFirst
  <2>2. ByPath(D, p) = OrElse(IF Head(p) = "archive" THEN byName ELSE {}, FromTops(D, p))
    <3>1. Head(p) \notin DOMAIN Builtin
      BY <1>1, <1>4
    <3>2. \A x : OrElse({}, x) = x
      BY DEF OrElse
    <3> QED
      BY <3>1, <3>2 DEF ByPath
  <2>3. Head(p) = "archive" =>
          /\ \A n \in byName : n \in tree /\ n \in {Tois \o p, p}
          /\ D = {} /\ byName # {} /\ Tois \o p \in tree => byName = {Tois \o p}
    <3> SUFFICES ASSUME Head(p) = "archive"
                 PROVE  /\ \A n \in byName : n \in tree /\ n \in {Tois \o p, p}
                        /\ D = {} /\ byName # {} /\ Tois \o p \in tree => byName = {Tois \o p}
      BY Zenon
    <3> DEFINE a == <<"archive">>
    <3>1. a \in Seq(Segments) /\ a # <<>> /\ Len(a) = 1
      BY FolderAssumption
    <3>2. p = a \o rest /\ Tois \o p = (Tois \o a) \o rest /\ Tois \o a \in Seq(Segments)
      <4>1. p = a \o rest
        BY <1>1
      <4>2. (Tois \o a) \o rest = Tois \o (a \o rest)
        <5>1. a \in Seq(Segments) /\ rest \in Seq(Segments) /\ Tois \in Seq(Segments)
          BY <1>1, <3>1
        <5> HIDE DEF a, rest
        <5> QED
          BY <5>1, JoinedThrice
      <4>3. Tois \o a \in Seq(Segments)
        BY <1>1, <3>1, JoinedPath
      <4> QED
        BY <4>1, <4>2, <4>3
    <3> HIDE DEF a
    <3>3. /\ \A n \in FindNamed(D, "archive") : n \in tree /\ n \in {Tois \o a, a}
          /\ D = {} /\ Tois \o a \in tree => FindNamed(D, "archive") = {Tois \o a}
      <4>1. FindNamed(D, "archive") = FromTops(D, a)
        BY DEF FindNamed, a
      <4>2. /\ \A n \in FromTops(D, a) : n \in tree /\ n \in {Tois \o a, a}
            /\ D = {} /\ Tois \o a \in tree => FromTops(D, a) = {Tois \o a}
        BY <3>1, FromTopsArrives, Zenon
      <4> QED
        BY <4>1, <4>2, Zenon
    <3>4. /\ \A n \in Walk(D, Tois \o a, rest) : n = Tois \o p /\ n \in tree
          /\ \A n \in Walk(D, a, rest) : n = p /\ n \in tree
      BY <1>1, <3>1, <3>2, WalkArrives
    <3>5. \A n \in byName : n \in tree /\ n \in {Tois \o p, p}
      <4> SUFFICES ASSUME NEW n \in byName PROVE n \in tree /\ n \in {Tois \o p, p}
        OBVIOUS
      <4>1. PICK m \in FindNamed(D, "archive") : n \in Walk(D, m, rest)
        OBVIOUS
      <4>2. m = Tois \o a \/ m = a
        BY <3>3
      <4> HIDE DEF rest, p, byName
      <4>3. CASE m = Tois \o a
        BY <3>4, <4>1, <4>3
      <4>4. CASE m = a
        BY <3>4, <4>1, <4>4
      <4> QED
        BY <4>2, <4>3, <4>4
    <3>6. ASSUME D = {}, byName # {}, Tois \o p \in tree PROVE byName = {Tois \o p}
      <4>1. Tois \o a \in tree
        <5>1. Len(Tois \o a) \in 0..Len(Tois \o p) /\ Len(Tois \o a) \in Nat
          <6>1. Len(Tois \o a) \in Nat /\ Len(rest) \in Nat
            BY <1>1, <3>2
          <6> DEFINE ta == Tois \o a
          <6>2. Len(ta \o rest) = Len(ta) + Len(rest)
            <7> HIDE DEF ta, rest
            <7> QED
              BY <1>1, <3>2, JoinedPath DEF ta
          <6>3. \A l, m \in Nat : l \in 0..(l + m)
            OBVIOUS
          <6>4. Len(Tois \o p) = Len(ta) + Len(rest)
            BY <3>2, <6>2, Zenon
          <6> HIDE DEF ta
          <6>5. Len(ta) \in 0..Len(Tois \o p) /\ Len(ta) \in Nat
            BY <6>1, <6>3, <6>4, Zenon DEF ta
          <6> QED
            BY <6>5 DEF ta
        <5>2. SubSeq(Tois \o p, 1, Len(Tois \o a)) \in tree
          BY <3>6, <5>1, WayIsThere
        <5>3. 0 \in 0..Len(rest) /\ Len(Tois \o a) + 0 = Len(Tois \o a)
          BY <1>1, <5>1
        <5>4. SubSeq((Tois \o a) \o rest, 1, Len(Tois \o a) + 0) = (Tois \o a) \o SubSeq(rest, 1, 0)
          BY <1>1, <3>2, <5>3, FirstNamesJoined
        <5>5. SubSeq(rest, 1, 0) = <<>> /\ (Tois \o a) \o <<>> = Tois \o a
          BY <1>1, <3>2, AllNames, NothingJoined
        <5> QED
          BY <3>2, <5>2, <5>3, <5>4, <5>5
      <4>2. byName = Walk(D, Tois \o a, rest)
        BY <3>3, <3>6, <4>1
      <4>3. \A n \in byName : n = Tois \o p
        <5> HIDE DEF byName
        <5> QED
          BY <3>4, <4>2, Zenon
      <4> HIDE DEF byName
      <4> QED
        BY <3>6, <4>3
    <3> QED
      BY <3>5, <3>6
  <2> HIDE DEF p, rest, byName
  <2>4. \A n \in ByPath(D, p) : n \in Meant(r)
    BY <1>2, <2>1, <2>2, <2>3 DEF OrElse
  <2>5. ASSUME D = {}, Meant(r) # {}
        PROVE  ByPath(D, p) # {} /\ \A n \in ByPath(D, p) : n \in MeantFirst(r)
    <3>1. FromTops(D, p) # {} /\ \A n \in FromTops(D, p) : n \in MeantFirst(r)
      BY <1>2, <2>1, <2>5
    <3>2. Head(p) = "archive" => \A n \in byName : n \in MeantFirst(r)
      BY <2>1, <2>3, <2>5
    <3> QED
      BY <2>2, <3>1, <3>2 DEF OrElse
  <2> QED
    BY <2>4, <2>5 DEF p
<1> QED
  BY <1>3, <1>4

-----------------------------------------------------------------------------
\* What is above a path joined of two.
LEMMA AboveJoined ==
  ASSUME NEW S, NEW r \in Seq(S), NEW k \in Seq(S), NEW m \in 0..Len(k), m < Len(k)
  PROVE  Front(r \o SubSeq(k, m + 1, Len(k)))
           = r \o SubSeq(Front(k), m + 1, Len(Front(k)))
<1> DEFINE rest == SubSeq(k, m + 1, Len(k))
           w == r \o rest
           up == Front(k)
           less == SubSeq(up, m + 1, Len(up))
           a == Front(w)
           b == r \o less
<1>0. Len(k) \in Nat /\ Len(r) \in Nat /\ Len(k) # 0
  OBVIOUS
<1>1. /\ rest \in Seq(S) /\ Len(rest) = Len(k) - m
      /\ \A i \in 1..(Len(k) - m) : rest[i] = k[m + i]
  BY LastNames
<1>2. /\ up \in Seq(S) /\ Len(up) = Len(k) - 1
      /\ \A i \in 1..(Len(k) - 1) : up[i] = k[i]
  BY <1>0, AboveNames
<1>3. /\ less \in Seq(S) /\ Len(less) = Len(up) - m
      /\ \A i \in 1..(Len(up) - m) : less[i] = up[m + i]
  <2>1. m \in 0..Len(up)
    BY <1>0, <1>2
  <2> HIDE DEF up
  <2> QED
    BY <1>2, <2>1, LastNames
<1> HIDE DEF rest, up, less
<1>4. /\ w \in Seq(S) /\ Len(w) = Len(r) + (Len(k) - m)
      /\ \A i \in 1..Len(r) : w[i] = r[i]
      /\ \A i \in 1..(Len(k) - m) : w[Len(r) + i] = rest[i]
  <2>1. /\ r \o rest \in Seq(S) /\ Len(r \o rest) = Len(r) + Len(rest)
        /\ \A i \in 1..Len(r) : (r \o rest)[i] = r[i]
        /\ \A i \in 1..Len(rest) : (r \o rest)[Len(r) + i] = rest[i]
    <3>1. rest \in Seq(S)
      BY <1>1
    <3> QED
      BY <3>1, JoinedPath
  <2> QED
    BY <1>1, <2>1, Zenon
<1>5. /\ b \in Seq(S) /\ Len(b) = Len(r) + (Len(k) - 1 - m)
      /\ \A i \in 1..Len(r) : b[i] = r[i]
      /\ \A i \in 1..(Len(k) - 1 - m) : b[Len(r) + i] = less[i]
  <2>1. /\ r \o less \in Seq(S) /\ Len(r \o less) = Len(r) + Len(less)
        /\ \A i \in 1..Len(r) : (r \o less)[i] = r[i]
        /\ \A i \in 1..Len(less) : (r \o less)[Len(r) + i] = less[i]
    <3>1. less \in Seq(S)
      BY <1>3
    <3> QED
      BY <3>1, JoinedPath
  <2>2. Len(less) = Len(k) - 1 - m
    BY <1>2, <1>3
  <2> QED
    BY <1>3, <2>1, <2>2, Zenon
<1> HIDE DEF w, b
<1>6. /\ a \in Seq(S) /\ Len(a) = Len(w) - 1
      /\ \A i \in 1..(Len(w) - 1) : a[i] = w[i]
  <2>1. Len(w) # 0
    BY <1>0, <1>4
  <2> QED
    BY <1>4, <2>1, AboveNames
<1> HIDE DEF a
<1>7. Len(a) = Len(b) /\ Len(a) = Len(r) + (Len(k) - 1 - m)
  BY <1>0, <1>4, <1>5, <1>6
<1>8. ASSUME NEW i \in 1..Len(a) PROVE a[i] = b[i]
  <2>1. a[i] = w[i]
    BY <1>0, <1>4, <1>6, <1>7
  <2>2. CASE i \in 1..Len(r)
    BY <1>4, <1>5, <2>1, <2>2
  <2>3. CASE i \notin 1..Len(r)
    <3> DEFINE j == i - Len(r)
    <3>1. /\ j \in 1..(Len(k) - 1 - m) /\ j \in 1..(Len(k) - m) /\ i = Len(r) + j
          /\ m + j \in 1..(Len(k) - 1) /\ j \in 1..(Len(up) - m)
      BY <1>0, <1>2, <1>7, <2>3
    <3> HIDE DEF j
    <3>2. w[Len(r) + j] = k[m + j]
      BY <1>1, <1>4, <3>1
    <3>3. b[Len(r) + j] = less[j] /\ less[j] = up[m + j] /\ up[m + j] = k[m + j]
      BY <1>2, <1>3, <1>5, <3>1
    <3> QED
      BY <2>1, <3>1, <3>2, <3>3
  <2> QED
    BY <2>2, <2>3
<1>9. a = b
  BY <1>5, <1>6, <1>7, <1>8, SeqEqual
<1> QED
  BY <1>9 DEF a, b, w, rest, less, up

\* What is above a path and one more name is that path.
LEMMA AboveOneMore ==
  ASSUME NEW S, NEW a \in Seq(S), NEW x \in S
  PROVE  a \o <<x>> \in Seq(S) /\ Front(a \o <<x>>) = a /\ Len(a \o <<x>>) # 0
<1> DEFINE w == a \o <<x>>
<1>1. <<x>> \in Seq(S) /\ Len(<<x>>) = 1
  OBVIOUS
<1>2. Len(a) \in Nat
  OBVIOUS
<1>3. w \in Seq(S) /\ Len(w) = Len(a) + 1 /\ \A i \in 1..Len(a) : w[i] = a[i]
  <2>1. /\ a \o <<x>> \in Seq(S) /\ Len(a \o <<x>>) = Len(a) + Len(<<x>>)
        /\ \A i \in 1..Len(a) : (a \o <<x>>)[i] = a[i]
    BY <1>1, JoinedPath
  <2> QED
    BY <1>1, <2>1
<1> HIDE DEF w
<1>4. Len(w) # 0 /\ Len(w) - 1 = Len(a)
  BY <1>2, <1>3
<1>5. /\ Front(w) \in Seq(S) /\ Len(Front(w)) = Len(a)
      /\ \A i \in 1..Len(a) : Front(w)[i] = w[i]
  BY <1>3, <1>4, AboveNames
<1>6. Front(w) = a
  BY <1>3, <1>5, SeqEqual
<1> QED
  BY <1>3, <1>4, <1>6 DEF w

-----------------------------------------------------------------------------
\* Folders that can be: what is above a folder is a folder, and the folders
\* Exchange relies on are there.
Standing(folders) ==
  /\ folders \subseteq Seq(Segments) /\ Distinguished \subseteq folders
  /\ \A n \in folders : n \in Distinguished \/ Front(n) \in folders

LEMMA BelowAre ==
  ASSUME FolderTypeOK, NEW n \in tree, NEW k \in tree
  PROVE  k \in Below(n) <=> Len(n) <= Len(k) /\ SubSeq(k, 1, Len(n)) = n
  BY AllNames DEF FolderTypeOK, Below, IsPrefix

LEMMA AboveIsShorter ==
  ASSUME FolderTypeOK, NEW n \in tree, n # Root
  PROVE  /\ n \in Seq(Segments) /\ Len(n) \in Nat \ {0}
         /\ Front(n) \in tree /\ Len(Front(n)) = Len(n) - 1
         /\ Front(n) = SubSeq(n, 1, Len(n) - 1)
<1>1. n \in Seq(Segments) /\ Len(n) \in Nat
  BY DEF FolderTypeOK
<1>2. Len(n) # 0
  BY <1>1 DEF Root
<1> QED
  BY <1>1, <1>2, AboveIsThere, AboveNames DEF Front

\* What is below a folder: everything below what is below, and the way there.
LEMMA BelowTogether ==
  ASSUME FolderTypeOK, NEW n \in tree, NEW k \in tree, k # Root
  PROVE  /\ Front(k) \in Below(n) => k \in Below(n)
         /\ k \in Below(n) /\ k # n => Front(k) \in Below(n) /\ Len(n) < Len(k)
         /\ n \in Below(n) /\ (n # Root => Front(n) \notin Below(n))
<1> DEFINE l == Len(n)
<1>1. /\ k \in Seq(Segments) /\ Len(k) \in Nat \ {0} /\ Front(k) \in tree
      /\ Len(Front(k)) = Len(k) - 1 /\ Front(k) = SubSeq(k, 1, Len(k) - 1)
  BY AboveIsShorter
<1>2. n \in Seq(Segments) /\ l \in Nat
  BY DEF FolderTypeOK
<1>3. ASSUME l <= Len(k) - 1 PROVE SubSeq(Front(k), 1, l) = SubSeq(k, 1, l)
  <2>1. Len(k) - 1 \in 0..Len(k) /\ l \in 0..(Len(k) - 1)
    BY <1>1, <1>2, <1>3
  <2> QED
    BY <1>1, <2>1, FirstOfFirstNames
<1>0. /\ k \in Below(n) <=> l <= Len(k) /\ SubSeq(k, 1, l) = n
      /\ Front(k) \in Below(n) <=> l <= Len(Front(k)) /\ SubSeq(Front(k), 1, l) = n
  BY <1>1, BelowAre, Zenon
<1> HIDE DEF l
<1>4. Front(k) \in Below(n) => k \in Below(n)
  <2>1. l <= Len(k) - 1 => l <= Len(k)
    BY <1>1, <1>2
  <2> QED
    BY <1>0, <1>1, <1>3, <2>1, Zenon
<1>5. ASSUME k \in Below(n), k # n PROVE Front(k) \in Below(n) /\ l < Len(k)
  <2>1. l <= Len(k) /\ SubSeq(k, 1, l) = n
    BY <1>0, <1>5
  <2>2. l # Len(k)
    BY <1>1, <1>5, <2>1, AllNames
  <2>3. l <= Len(k) - 1 /\ l < Len(k)
    BY <1>1, <1>2, <2>1, <2>2
  <2> QED
    BY <1>0, <1>1, <1>3, <2>1, <2>3, Zenon
<1>6. n \in Below(n)
  BY <1>2, BelowAre, AllNames
<1>7. n # Root => Front(n) \notin Below(n)
  BY <1>2, AboveIsShorter, BelowAre
<1> QED
  BY <1>4, <1>5, <1>6, <1>7 DEF l

\* No folder Exchange relies on is below one of the others.
LEMMA DistinguishedStay ==
  ASSUME FolderTypeOK, NEW n \in tree, n \notin Distinguished
  PROVE  Distinguished \cap Below(n) = {}
<1> SUFFICES ASSUME NEW d \in Distinguished, d \in Below(n) PROVE FALSE
  OBVIOUS
<1>1. d \in tree /\ d \in Seq(Segments) /\ n \in Seq(Segments) /\ Len(n) \in Nat
  BY DEF FolderTypeOK
<1>2. Len(n) <= Len(d) /\ SubSeq(d, 1, Len(n)) = n
  BY <1>1, BelowAre
<1>3. n # Root /\ n # Tois /\ n # Builtin["inbox"]
  BY Top
<1>4. Len(n) # 0
  BY <1>1, <1>3 DEF Root
<1>5. Len(n) # Len(d)
  BY <1>1, <1>2, AllNames
<1>6. d # Root
  BY <1>1, <1>2, <1>4, Len(Root) = 0 DEF Root
<1>7. d # Tois
  BY <1>1, <1>2, <1>4, <1>5, Top
<1>8. d = Builtin["inbox"] /\ Len(d) = 2 /\ Front(d) = Tois
  BY <1>6, <1>7, Top
<1>9. Len(n) = 1
  BY <1>1, <1>2, <1>4, <1>5, <1>8
<1>10. Front(d) = SubSeq(d, 1, 1)
  BY <1>8, 2 - 1 = 1 DEF Front
<1> QED
  BY <1>2, <1>3, <1>8, <1>9, <1>10

-----------------------------------------------------------------------------
\* A folder created in another, what is left when one is deleted, and what
\* there is when one is renamed.
LEMMA CreateStands ==
  ASSUME FolderTypeOK, NEW n \in tree
  PROVE  Standing(tree \cup {n \o <<NewName>>})
<1>1. n \in Seq(Segments) /\ NewName \in Segments
  BY FolderAssumption DEF FolderTypeOK
<1>2. n \o <<NewName>> \in Seq(Segments) /\ Front(n \o <<NewName>>) = n
  BY <1>1, AboveOneMore
<1> QED
  BY <1>2 DEF Standing, FolderTypeOK

LEMMA DeleteStands ==
  ASSUME FolderTypeOK, NEW n \in tree, n \notin Distinguished
  PROVE  Standing(tree \ Below(n))
<1>1. Distinguished \subseteq tree \ Below(n)
  BY DistinguishedStay DEF FolderTypeOK
<1>2. ASSUME NEW k \in tree \ Below(n), k \notin Distinguished
      PROVE  Front(k) \in tree \ Below(n)
  <2>1. k # Root
    BY <1>2, Top
  <2> QED
    BY <1>2, <2>1, BelowTogether, AboveIsThere
<1> QED
  BY <1>1, <1>2 DEF Standing, FolderTypeOK

LEMMA RenameStands ==
  ASSUME FolderTypeOK, NEW n \in tree, n \notin Distinguished
  PROVE  Standing((tree \ Below(n)) \cup
                    {Renamed(n) \o SubSeq(k, Len(n) + 1, Len(k)) : k \in Below(n)})
<1> DEFINE r == Renamed(n)
           Moved(k) == r \o SubSeq(k, Len(n) + 1, Len(k))
           kept == tree \ Below(n)
           there == kept \cup {Moved(k) : k \in Below(n)}
<1>1. /\ n # Root /\ n \in Seq(Segments) /\ Len(n) \in Nat
      /\ Front(n) \in kept /\ Front(n) \in Seq(Segments)
  <2>1. n # Root
    BY Top
  <2> QED
    BY <2>1, AboveIsShorter, BelowTogether DEF FolderTypeOK
<1>2. r \in Seq(Segments) /\ Front(r) = Front(n)
  BY <1>1, AboveOneMore, FolderAssumption DEF Renamed
<1> HIDE DEF r
<1>3. ASSUME NEW k \in Below(n)
      PROVE  /\ k \in tree /\ k \in Seq(Segments) /\ Len(k) \in Nat
             /\ Len(n) \in 0..Len(k) /\ Moved(k) \in Seq(Segments)
             /\ SubSeq(k, Len(n) + 1, Len(k)) \in Seq(Segments)
             /\ Len(SubSeq(k, Len(n) + 1, Len(k))) = Len(k) - Len(n)
  <2>1. k \in tree /\ k \in Seq(Segments) /\ Len(k) \in Nat
    BY DEF Below, FolderTypeOK
  <2>2. Len(n) \in 0..Len(k)
    BY <1>1, <2>1, BelowAre
  <2>3. /\ SubSeq(k, Len(n) + 1, Len(k)) \in Seq(Segments)
        /\ Len(SubSeq(k, Len(n) + 1, Len(k))) = Len(k) - Len(n)
    BY <2>1, <2>2, LastNames
  <2>4. r \o SubSeq(k, Len(n) + 1, Len(k)) \in Seq(Segments)
    BY <1>2, <2>3, JoinedPath, Zenon
  <2> QED
    BY <2>1, <2>2, <2>3, <2>4
<1>4. ASSUME NEW k \in Below(n) PROVE Front(Moved(k)) \in there
  <2>1. k \in tree /\ k # Root
    <3>1. k \in tree /\ Len(n) <= Len(k) /\ Len(n) # 0
      BY <1>1, <1>3, AboveIsShorter, BelowAre
    <3>2. k = Root => Len(k) = 0
      BY DEF Root
    <3> QED
      BY <1>1, <1>3, <3>1, <3>2
  <2>2. CASE k = n
    <3>1. SubSeq(k, Len(n) + 1, Len(k)) = <<>>
      <4> DEFINE e == SubSeq(k, Len(n) + 1, Len(k))
      <4>1. e \in Seq(Segments) /\ Len(e) = 0
        BY <1>1, <1>3, <2>2
      <4> HIDE DEF e
      <4>2. e = <<>>
        BY <4>1
      <4> QED
        BY <4>2 DEF e
    <3>2. Moved(k) = r
      BY <1>2, <3>1, NothingJoined
    <3> QED
      BY <1>1, <1>2, <3>2
  <2>3. CASE k # n
    <3>1. Front(k) \in Below(n) /\ Len(n) < Len(k)
      BY <2>1, <2>3, BelowTogether
    <3>2. Front(Moved(k)) = Moved(Front(k))
      BY <1>2, <1>3, <3>1, AboveJoined
    <3> QED
      BY <3>1, <3>2
  <2> QED
    BY <2>2, <2>3
<1>5. Standing(kept)
  BY DeleteStands
<1>6. there \subseteq Seq(Segments)
  BY <1>3, <1>5 DEF Standing
<1>7. ASSUME NEW m \in there PROVE m \in Distinguished \/ Front(m) \in there
  BY <1>4, <1>5 DEF Standing
<1>8. Standing(there)
  BY <1>5, <1>6, <1>7 DEF Standing
<1> QED
  BY <1>8 DEF r

\* What the tools do with a folder leaves folders that can be.
LEMMA ActStands ==
  ASSUME FolderTypeOK, resolved.folder \in tree, Act
  PROVE  Standing(tree')
<1> DEFINE n == resolved.folder
<1>1. CASE folderTool = "create_folder"
  <2>1. tree' = tree \cup {n \o <<NewName>>}
    BY <1>1 DEF Act
  <2> QED
    BY <2>1, CreateStands
<1>2. CASE folderTool = "rename_folder"
  <2>1. /\ n \notin Distinguished
        /\ tree' = (tree \ Below(n)) \cup
                     {Renamed(n) \o SubSeq(k, Len(n) + 1, Len(k)) : k \in Below(n)}
    BY <1>2 DEF Act
  <2> QED
    BY <2>1, RenameStands
<1>3. CASE folderTool = "delete_folder"
  <2>1. n \notin Distinguished /\ tree' = tree \ Below(n)
    BY <1>3 DEF Act
  <2> QED
    BY <2>1, DeleteStands
<1>4. CASE folderTool = "move_email"
  <2>1. tree' = tree
    BY <1>4 DEF Act
  <2> QED
    BY <2>1 DEF Standing, FolderTypeOK
<1> QED
  BY <1>1, <1>2, <1>3, <1>4 DEF FolderTypeOK, FolderTools

-----------------------------------------------------------------------------
\* The answers of _resolve_folder.
LEMMA ResolveAnswers ==
  ASSUME NEW D, NEW r \in References
  PROVE  Resolve(D, r) = NotFound \/ \E n : Resolve(D, r) = At(n)
<1> DEFINE IsAnswer(x) == x = NotFound \/ \E n : x = At(n)
<1>1. \A n : IsAnswer(At(n))
  OBVIOUS
<1>2. IsAnswer(NotFound)
  OBVIOUS
<1>3. \A found : IsAnswer(OrNotFound(found))
  BY <1>1, <1>2 DEF OrNotFound
<1> HIDE DEF IsAnswer
<1>4. IsAnswer(Archive(D))
  BY <1>1, <1>3 DEF Archive
<1>5. IsAnswer(Resolve(D, r))
  <2>1. r.byId \in BOOLEAN
    BY FolderAssumption
  <2> QED
    BY <1>1, <1>2, <1>3, <1>4, <2>1 DEF Resolve
<1> QED
  BY <1>5 DEF IsAnswer

LEMMA FolderStart == FolderInit => FolderTypeOK
<1> SUFFICES ASSUME FolderInit PROVE FolderTypeOK
  OBVIOUS
<1>1. PICK T \in Trees : tree = T \cup Distinguished
  BY DEF FolderInit
<1>2. Distinguished \subseteq Seq(Segments)
  BY Top
<1>3. ASSUME NEW n \in T PROVE n \in Seq(Segments) /\ Front(n) \in tree
  <2>1. n \in Seq(Segments) /\ (Len(n) = 1 \/ Front(n) \in T \cup Distinguished)
    BY FolderAssumption
  <2>2. CASE Len(n) = 1
    <3>1. Front(n) = <<>>
      BY <2>1, <2>2, AllNames, 1 - 1 = 0 DEF Front
    <3> QED
      BY <1>1, <2>1, <3>1, Top DEF Root
  <2> QED
    BY <1>1, <2>1, <2>2
<1>4. Standing(tree)
  BY <1>1, <1>2, <1>3 DEF Standing
<1>5. lookups \in 1..MaxLookups
  BY FolderAssumption DEF FolderInit
<1> QED
  BY <1>4, <1>5 DEF FolderInit, FolderTypeOK, Standing, Unresolved

LEMMA FolderNextTypes ==
  ASSUME FolderTypeOK, [FolderNext]_folderVars
  PROVE  FolderTypeOK'
<1>1. CASE ResolveFolder
  <2>1. down' \subseteq Distinguished
    BY <1>1 DEF ResolveFolder, FolderTypeOK
  <2>2. /\ resolved'.status \in {"none", "ok", "not_found", "error"}
        /\ resolved'.status # "ok" => resolved'.folder = Nowhere
    <3>1. resolved' = Failed \/ resolved' = NotFound \/ \E n : resolved' = At(n)
      BY <1>1, ResolveAnswers DEF ResolveFolder, FolderTypeOK
    <3> QED
      BY <3>1 DEF Failed, NotFound, At
  <2> QED
    BY <1>1, <2>1, <2>2 DEF ResolveFolder, FolderTypeOK
<1>2. CASE ActOnFolder
  <2>1. Standing(tree')
    <3>1. CASE resolved.folder \in tree /\ Act
      BY <3>1, ActStands
    <3>2. CASE UNCHANGED tree
      BY <3>2 DEF Standing, FolderTypeOK
    <3> QED
      BY <1>2, <3>1, <3>2 DEF ActOnFolder
  <2> QED
    BY <1>2, <2>1 DEF ActOnFolder, FolderTypeOK, Standing
<1>3. CASE NextLookup
  <2>1. lookups' \in 1..MaxLookups
    BY <1>3, FolderAssumption DEF NextLookup, FolderTypeOK
  <2> QED
    BY <1>3, <2>1 DEF NextLookup, FolderTypeOK, Unresolved
<1>4. CASE UNCHANGED folderVars
  BY <1>4 DEF folderVars, FolderTypeOK
<1> QED
  BY <1>1, <1>2, <1>3, <1>4 DEF FolderNext

\* The mailbox's folders stay a tree, with the folders Exchange relies on,
\* whatever create_folder, rename_folder and delete_folder do.
THEOREM FolderTypes == FolderSpec => []FolderTypeOK
  BY FolderStart, FolderNextTypes, PTL DEF FolderSpec

-----------------------------------------------------------------------------
\* What one call of _resolve_folder finds.
LEMMA ResolveFinds ==
  ASSUME FolderTypeOK, NEW D, NEW r \in References, ~r.byId, r.path # Root
  PROVE  LET x == Resolve(D, r) IN
         /\ x.status = "ok" /\ r.path # <<"archive">> => x.folder \in Meant(r)
         /\ x.status = "ok" /\ D = {} /\ Meant(r) # {} => x.folder \in MeantFirst(r)
         /\ x.status = "not_found" => Meant(r) = {} \/ D # {}
<1> DEFINE p == r.path
           x == Resolve(D, r)
<1>1. /\ p \in Seq(Segments) /\ p # <<>> /\ Head(p) = p[1]
      /\ Tail(p) \in Seq(Segments) /\ p = <<Head(p)>> \o Tail(p)
  BY MeantAre DEF Root
<1>2. \A found : found # {} => OrNotFound(found).status = "ok" /\ OrNotFound(found).folder \in found
  BY DEF OrNotFound, At
<1>3. OrNotFound({}).status = "not_found"
  BY DEF OrNotFound, NotFound
<1>4. "ok" # "not_found"
  OBVIOUS
<1>5. CASE Len(p) = 1 /\ p[1] \in DOMAIN Builtin
  <2>1. x = At(Builtin[p[1]])
    <3>1. p # <<"archive">>
      BY <1>5, Top
    <3> QED
      BY <1>5, <3>1 DEF Resolve
  <2>2. x.status = "ok" /\ x.folder = Builtin[p[1]]
    BY <2>1 DEF At
  <2>3. Builtin[p[1]] \in tree /\ Builtin[p[1]] \in Seq(Segments)
    BY <1>5, Top DEF FolderTypeOK
  <2>4. Tail(p) = <<>>
    BY <1>1, <1>5
  <2>5. Builtin[p[1]] \o Tail(p) = Builtin[p[1]]
    BY <2>3, <2>4, NothingJoined
  <2>6. Builtin[p[1]] \in Meant(r) /\ Builtin[p[1]] \in MeantFirst(r)
    BY <1>5, <2>3, <2>5 DEF Meant, MeantFirst
  <2> QED
    BY <1>4, <2>2, <2>6
<1>6. CASE p = <<"archive">>
  <2>1. p[1] = "archive" /\ p[1] \notin DOMAIN Builtin
    BY <1>6, Top
  <2>2. x = Archive(D)
    BY <1>6, <2>1 DEF Resolve
  <2>3. /\ FindNamed(D, "archive") # {} => x = OrNotFound(FindNamed(D, "archive"))
        /\ x.status = "ok"
    BY <1>2, <2>2 DEF Archive, At
  <2>4. FindNamed(D, "archive") = FromTops(D, p)
    BY <1>6 DEF FindNamed
  <2>5. /\ Meant(r) = {n \in tree : n \in {Tois \o p, p}}
        /\ MeantFirst(r) = {n \in Meant(r) : Tois \o p \in tree => n = Tois \o p}
    BY <2>1 DEF Meant, MeantFirst
  <2>6. D = {} /\ Meant(r) # {} =>
          FromTops(D, p) # {} /\ \A n \in FromTops(D, p) : n \in MeantFirst(r)
    <3>1. /\ D = {} /\ Tois \o p \in tree => FromTops(D, p) = {Tois \o p}
          /\ D = {} /\ Tois \o p \notin tree /\ p \in tree => FromTops(D, p) = {p}
      BY <1>1, FromTopsArrives, Zenon
    <3> HIDE DEF p
    <3> QED
      BY <2>5, <3>1
  <2> QED
    BY <1>2, <1>4, <1>6, <2>3, <2>4, <2>6
<1>7. CASE ~(Len(p) = 1 /\ p[1] \in DOMAIN Builtin) /\ p # <<"archive">>
  <2>1. x = OrNotFound(ByPath(D, p))
    BY <1>7 DEF Resolve
  <2>2. /\ \A n \in ByPath(D, p) : n \in Meant(r)
        /\ D = {} /\ Meant(r) # {} =>
              ByPath(D, p) # {} /\ \A n \in ByPath(D, p) : n \in MeantFirst(r)
    BY <1>7, ByPathArrives
  <2> HIDE DEF x, p
  <2>3. CASE ByPath(D, p) = {}
    <3>1. x.status = "not_found" /\ (Meant(r) = {} \/ D # {})
      BY <1>3, <2>1, <2>2, <2>3
    <3> QED
      BY <1>4, <3>1 DEF x
  <2>4. CASE ByPath(D, p) # {}
    <3>1. x.status = "ok" /\ x.folder \in ByPath(D, p)
      BY <1>2, <2>1, <2>4
    <3> QED
      BY <1>4, <2>2, <3>1 DEF x
  <2> QED
    BY <2>3, <2>4
<1> QED
  BY <1>5, <1>6, <1>7

\* A reference given by name or path means the folder that _resolve_folder
\* finds, for every mailbox, every reference and any folders that fail.
THEOREM FoldersAsNamed == FolderSpec => []ResolvedAsNamed
<1>1. FolderInit => ResolvedAsNamed
  BY DEF FolderInit, ResolvedAsNamed, Unresolved
<1>2. ASSUME FolderTypeOK, ResolvedAsNamed, [FolderNext]_folderVars
      PROVE  ResolvedAsNamed'
  <2>1. CASE ResolveFolder
    <3> SUFFICES ASSUME ~acted', ~reference'.byId, reference'.path # Root
                 PROVE  ResolvedAsNamed'
      BY DEF ResolvedAsNamed
    <3>1. reference' = reference /\ tree' = tree /\ reference \in References
      BY <1>2, <2>1 DEF ResolveFolder, FolderTypeOK
    <3>2. \A r : (Meant(r)' = Meant(r)) /\ (MeantFirst(r)' = MeantFirst(r))
      BY <3>1 DEF Meant, MeantFirst
    <3>3. CASE resolved' = Resolve(down', reference)
      <4> DEFINE x == Resolve(down', reference)
      <4>1. ~reference.byId /\ reference.path # Root
        BY <3>1
      <4>2. /\ x.status = "ok" /\ reference.path # <<"archive">> => x.folder \in Meant(reference)
            /\ x.status = "ok" /\ down' = {} /\ Meant(reference) # {} =>
                 x.folder \in MeantFirst(reference)
            /\ x.status = "not_found" => Meant(reference) = {} \/ down' # {}
        BY <1>2, <3>1, <4>1, ResolveFinds
      <4> HIDE DEF x
      <4>3. resolved' = x
        BY <3>3 DEF x
      <4> QED
        BY <3>1, <3>2, <4>2, <4>3 DEF ResolvedAsNamed
    <3>4. CASE resolved' = Failed
      BY <3>4 DEF ResolvedAsNamed, Failed
    <3> QED
      BY <2>1, <3>1, <3>3, <3>4 DEF ResolveFolder
  <2>2. CASE ActOnFolder
    BY <2>2 DEF ActOnFolder, ResolvedAsNamed
  <2>3. CASE NextLookup
    BY <2>3, SMTT(30) DEF NextLookup, ResolvedAsNamed, Unresolved
  <2>4. CASE UNCHANGED folderVars
    BY <1>2, <2>4 DEF folderVars, ResolvedAsNamed, Meant, MeantFirst
  <2> QED
    BY <1>2, <2>1, <2>2, <2>3, <2>4 DEF FolderNext
<1> QED
  BY <1>1, <1>2, FolderTypes, PTL DEF FolderSpec

-----------------------------------------------------------------------------
\* The composition.

Groups == {"drafts", "threads", "folders", "actions", "downloads"}

\* The tools of the group at work behave as they do alone.
LEMMA GroupStarts ==
  ASSUME Init
  PROVE  /\ group \in Groups
         /\ group = "drafts" => DraftInit
         /\ group = "threads" => ThreadInit
         /\ group = "folders" => FolderInit
         /\ group = "actions" => ActionInit
         /\ group = "downloads" => DownloadInit
  BY Zenon DEF Init, Groups

LEMMA GroupSteps ==
  ASSUME [Next]_vars
  PROVE  /\ group' = group
         /\ group = "drafts" => [DraftNext]_draftVars
         /\ group = "threads" => [ThreadNext]_threadVars
         /\ group = "folders" => [FolderNext]_folderVars
         /\ group = "actions" => [ActionNext]_actionVars
         /\ group = "downloads" => [DownloadNext]_downloadVars
<1>1. CASE Next
  BY <1>1, Zenon DEF Next
<1>2. CASE UNCHANGED vars
  BY <1>2 DEF vars
<1> QED
  BY <1>1, <1>2

LEMMA GroupStays == Spec => [](group \in Groups)
<1>1. Init => group \in Groups
  BY GroupStarts
<1>2. group \in Groups /\ [Next]_vars => (group \in Groups)'
  BY GroupSteps
<1> QED
  BY <1>1, <1>2, PTL DEF Spec

LEMMA GroupTypes ==
  ASSUME group \in Groups,
         group = "drafts" => DraftTypeOK, group = "threads" => ThreadTypeOK,
         group = "folders" => FolderTypeOK, group = "actions" => ActionTypeOK,
         group = "downloads" => DownloadTypeOK
  PROVE  TypeOK
  BY Zenon DEF TypeOK, Groups

\* Whatever group of tools is at work, its state keeps its types while the
\* others' stays as it is.
THEOREM MailboxTypes == Spec => []TypeOK
<1>1. Spec => [](group = "drafts" => DraftTypeOK)
  <2>1. Init /\ group = "drafts" => DraftInit
    BY GroupStarts
  <2>2. [Next]_vars /\ group = "drafts" => [DraftNext]_draftVars /\ (group = "drafts")'
    BY GroupSteps
  <2>3. [Next]_vars /\ ~(group = "drafts") => ~(group = "drafts")'
    BY GroupSteps
  <2> QED
    BY <2>1, <2>2, <2>3, DraftTypes, PTL DEF Spec, DraftSpec
<1>2. Spec => [](group = "threads" => ThreadTypeOK)
  <2>1. Init /\ group = "threads" => ThreadInit
    BY GroupStarts
  <2>2. [Next]_vars /\ group = "threads" => [ThreadNext]_threadVars /\ (group = "threads")'
    BY GroupSteps
  <2>3. [Next]_vars /\ ~(group = "threads") => ~(group = "threads")'
    BY GroupSteps
  <2> QED
    BY <2>1, <2>2, <2>3, ThreadTypes, PTL DEF Spec, ThreadSpec
<1>3. Spec => [](group = "folders" => FolderTypeOK)
  <2>1. Init /\ group = "folders" => FolderInit
    BY GroupStarts
  <2>2. [Next]_vars /\ group = "folders" => [FolderNext]_folderVars /\ (group = "folders")'
    BY GroupSteps
  <2>3. [Next]_vars /\ ~(group = "folders") => ~(group = "folders")'
    BY GroupSteps
  <2> QED
    BY <2>1, <2>2, <2>3, FolderTypes, PTL DEF Spec, FolderSpec
<1>4. Spec => [](group = "actions" => ActionTypeOK)
  <2>1. Init /\ group = "actions" => ActionInit
    BY GroupStarts
  <2>2. [Next]_vars /\ group = "actions" => [ActionNext]_actionVars /\ (group = "actions")'
    BY GroupSteps
  <2>3. [Next]_vars /\ ~(group = "actions") => ~(group = "actions")'
    BY GroupSteps
  <2> QED
    BY <2>1, <2>2, <2>3, ActionTypes, PTL DEF Spec, ActionSpec
<1>5. Spec => [](group = "downloads" => DownloadTypeOK)
  <2>1. Init /\ group = "downloads" => DownloadInit
    BY GroupStarts
  <2>2. [Next]_vars /\ group = "downloads" =>
          [DownloadNext]_downloadVars /\ (group = "downloads")'
    BY GroupSteps
  <2>3. [Next]_vars /\ ~(group = "downloads") => ~(group = "downloads")'
    BY GroupSteps
  <2> QED
    BY <2>1, <2>2, <2>3, DownloadsTypeOK, PTL DEF Spec, DownloadSpec
<1>6. /\ group \in Groups
      /\ group = "drafts" => DraftTypeOK
      /\ group = "threads" => ThreadTypeOK
      /\ group = "folders" => FolderTypeOK
      /\ group = "actions" => ActionTypeOK
      /\ group = "downloads" => DownloadTypeOK
      => TypeOK
  BY GroupTypes
<1> QED
  BY <1>1, <1>2, <1>3, <1>4, <1>5, <1>6, GroupStays, PTL
=============================================================================
