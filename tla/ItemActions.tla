---------------------------- MODULE ItemActions -----------------------------
(***************************************************************************)
(* The tools that act on items by their ids: mark_email, categorize_email, *)
(* delete, move and copy of messages, one by one, in a loop over ids       *)
(* (base.py, _bulk) and in one EWS batch (email.py, _bulk_result);         *)
(* update_contact and delete_contact (contacts.py); update_inbox_rule,     *)
(* delete_inbox_rule and set_out_of_office (mailbox.py); delete_events     *)
(* (calendar.py).                                                          *)
(*                                                                         *)
(* Of an item two plain fields and a set are modelled: is_read,            *)
(* flag_status and the categories of a message; two fields of a contact;   *)
(* is_enabled, priority and the conditions of a rule; the two replies of   *)
(* the out-of-office settings.                                             *)
(*                                                                         *)
(* External: Exchange and the owner.  A save writes the fields it names    *)
(* over whatever is there, and every loaded one if it names none.  A moved *)
(* or deleted item's id is dead.  A batch is carried out id by id; ids     *)
(* that moved to a foreign folder have no result.                          *)
(***************************************************************************)
EXTENDS Naturals, Sequences, FiniteSets, SequencesExt

CONSTANTS Objects,        \* the items, named by their ids
          Tags, TagSets,  \* categories, and those items may have at first
          ActionRequests, \* what callers ask for
          MaxActions,     \* bound on the calls
          MaxOwnerEdits,  \* bound on what the owner does
          Missing         \* a field the caller left out

Looped == {"mark", "categorize", "update_contact", "update_rule",
           "delete", "move", "copy"}
Blind == {"set_oof", "delete_rule"}    \* these fetch nothing
Batched == {"bulk_move", "bulk_copy", "bulk_delete"}

ObjectType == [live : BOOLEAN, x : Nat, y : Nat, tags : SUBSET Tags]
PlainFields == {"x", "y"}
ObjectFields == PlainFields \cup {"tags"}

\* due: whether mark_email is given a flag date; mode: categorize_email's.
ActionType ==
  [tool : Looped \cup Blind \cup Batched, ids : Seq(Objects),
   x : {Missing} \cup Nat, y : {Missing} \cup Nat, due : BOOLEAN,
   mode : {"set", "add", "remove"}, tags : SUBSET Tags, foreign : BOOLEAN]

ASSUME ActionAssumption ==
  /\ ActionRequests \subseteq ActionType
  /\ \A r \in ActionRequests :
       /\ r.ids # <<>>
       /\ Len(r.ids) > 1 => r.tool \in Batched \cup {"mark", "categorize", "delete"}
       /\ r.tool = "set_oof" => Missing \notin {r.x, r.y}
       /\ r.foreign => r.tool \in Batched
  /\ TagSets \subseteq SUBSET Tags
  /\ MaxActions \in Nat \ {0} /\ MaxOwnerEdits \in Nat
  /\ Missing \notin Nat

VARIABLES
  objects,    \* the items on the server
  action,     \* the call under way, or the last one
  pending,    \* the ids it has still to deal with
  held,       \* what it fetched of the first of them, or nothing
  answers,    \* the results so far: what Exchange answered, id by id
  carried,    \* history: per id, whether this call's request took effect
  verdicts,   \* the BulkResult: per id, whether it succeeded
  ended,      \* "none" while the call runs, "ok" or "error"
  twin,       \* history: the items as they were without this call
  edited,     \* history: per item, the fields the owner changed since the call
              \* began
  raced,      \* history: per item, the plain fields and the tags he changed
              \* between the call's fetch of it and its save
  actions,    \* how many calls there were
  ownerEdits  \* how often the owner changed something

actionVars == <<objects, action, pending, held, answers, carried, verdicts, ended,
                twin, edited, raced, actions, ownerEdits>>

-----------------------------------------------------------------------------
\* mark_email: "dates alone mean flag it".
Flag(r) == IF r.tool = "mark" /\ r.y = Missing /\ r.due THEN 1 ELSE r.y

NewTagsOverwritten(r, old) == IF r.mode = "remove" THEN old \ r.tags ELSE r.tags
NewTags(r, old) ==
  CASE r.mode = "set"    -> r.tags
    [] r.mode = "add"    -> old \cup r.tags
    [] r.mode = "remove" -> old \ r.tags

\* The fields a call names.
Named(r) ==
  CASE r.tool = "categorize" -> {"tags"}
    [] r.tool \in {"mark", "update_contact", "update_rule", "set_oof"} ->
         {f \in PlainFields : (IF f = "x" THEN r.x ELSE Flag(r)) # Missing}
    [] OTHER -> {}

\* Nothing is sent if nothing would change; a rule is sent whole in any case.
NothingToSave(r, o) ==
  CASE r.tool = "categorize"                -> NewTags(r, o.tags) = o.tags
    [] r.tool \in {"mark", "update_contact"} -> Named(r) = {}
    [] OTHER                                -> FALSE

\* The item o as it is changed in memory, ...
Changed(r, o) ==
  [o EXCEPT !.x = IF "x" \in Named(r) THEN r.x ELSE @,
            !.y = IF "y" \in Named(r) THEN Flag(r) ELSE @,
            !.tags = IF "tags" \in Named(r) THEN NewTags(r, @) ELSE @]

\* ... and what the server makes of it; for a rule "the server's own Rule
\* object" goes back.
Written(r, o, now) ==
  CASE r.tool \in {"delete", "delete_rule", "move", "bulk_delete", "bulk_move"} ->
         [now EXCEPT !.live = FALSE]
    [] r.tool \in {"copy", "bulk_copy"} -> now
    [] r.tool = "update_rule" \/ (r.tool \in {"mark", "update_contact"} /\ Named(r) = {}) ->
         Changed(r, o)
    [] OTHER ->
         [f \in DOMAIN now |-> IF f \in Named(r) THEN Changed(r, o)[f] ELSE now[f]]

\* _bulk_result.  Results that are missing are padded with None, and a missing
\* item has reached the state a delete wants.
MissingIsFine(r) == TRUE
NotFoundIsSuccess(r) == r.tool = "bulk_delete"

Padded(r, results) ==
  results \o [i \in 1..(Len(r.ids) - Len(results)) |-> "none"]

BulkResult(r, results) ==
  [i \in 1..Len(r.ids) |->
     LET a == Padded(r, results)[i]
     IN  a \in {"done", "none"} \/ (a = "missing" /\ NotFoundIsSuccess(r))]

-----------------------------------------------------------------------------
Blank == [live |-> TRUE, x |-> 0, y |-> 0, tags |-> {}]

ActionInit ==
  /\ objects \in [Objects -> {[Blank EXCEPT !.tags = T] : T \in TagSets}]
  /\ action \in ActionRequests
  /\ pending = action.ids
  /\ held = <<>>
  /\ answers = <<>> /\ carried = <<>> /\ verdicts = <<>>
  /\ ended = "none"
  /\ twin = objects
  /\ edited = [i \in Objects |-> {}]
  /\ raced = [i \in Objects |-> {}]
  /\ actions = 1
  /\ ownerEdits = 0

CallAgain(r) ==
  /\ ended # "none"
  /\ actions < MaxActions
  /\ actions' = actions + 1
  /\ action' = r
  /\ pending' = r.ids
  /\ answers' = <<>> /\ carried' = <<>> /\ verdicts' = <<>>
  /\ ended' = "none"
  /\ twin' = objects
  /\ edited' = [i \in Objects |-> {}]
  /\ raced' = [i \in Objects |-> {}]
  /\ UNCHANGED <<objects, held, ownerEdits>>

Running == ended = "none" /\ pending # <<>>

\* An id that moves to a foreign folder leaves no result.
NoResult(r, a) == r.foreign /\ a = "done"

\* The first id is dealt with: what Exchange said, and whether it did it.
Dealt(a, done) ==
  /\ pending' = Tail(pending)
  /\ held' = <<>>
  /\ answers' = IF NoResult(action, a) THEN answers ELSE Append(answers, a)
  /\ carried' = Append(carried, done)
  /\ UNCHANGED <<action, verdicts, ended, twin, edited, raced, actions, ownerEdits>>

\* _fetch_item of the first id.  A failure is this id's verdict only.
FetchObject ==
  /\ Running /\ action.tool \in Looped /\ held = <<>>
  /\ LET o == objects[Head(pending)]
     IN  \/ /\ o.live
            /\ IF NothingToSave(action, o)
               THEN Dealt("done", FALSE)
               ELSE /\ held' = <<o>>
                    /\ UNCHANGED <<action, pending, answers, carried, verdicts, ended,
                                   twin, edited, raced, actions, ownerEdits>>
         \/ Dealt("failed", FALSE)
  /\ UNCHANGED objects

\* The save, move or delete of the item held is answered, or fails and has
\* taken effect or not.
SaveObject ==
  /\ Running
  /\ held # <<>> \/ action.tool \in Blind
  /\ LET i == Head(pending)
         o == IF held # <<>> THEN held[1] ELSE Blank
     IN  \/ /\ objects[i].live
            /\ objects' = [objects EXCEPT ![i] = Written(action, o, @)]
            /\ \E a \in {"done", "failed"} : Dealt(a, TRUE)
         \/ Dealt("failed", FALSE) /\ UNCHANGED objects

\* In a batch Exchange deals with the ids in turn.
BatchStep ==
  /\ Running /\ action.tool \in Batched
  /\ LET i == Head(pending)
     IN  \/ /\ objects[i].live
            /\ objects' = [objects EXCEPT ![i] = Written(action, @, @)]
            /\ Dealt("done", TRUE)
         \/ /\ Dealt(IF objects[i].live THEN "refused" ELSE "missing", FALSE)
            /\ UNCHANGED objects

\* The answer to a batch is lost, or the batch breaks off: the call fails as a
\* whole, whatever was carried out.
Lost ==
  /\ ended = "none" /\ action.tool \in Batched
  /\ ended' = "error"
  /\ pending' = <<>>
  /\ UNCHANGED <<objects, action, held, answers, carried, verdicts, twin, edited,
                 raced, actions, ownerEdits>>

\* The call returns its verdicts; a call on a single item fails with it.
EndAction ==
  /\ ended = "none" /\ pending = <<>>
  /\ verdicts' = IF action.tool \in Batched
                 THEN BulkResult(action, answers)
                 ELSE [i \in 1..Len(answers) |-> answers[i] = "done"]
  /\ ended' = "ok"
  /\ UNCHANGED <<objects, action, pending, held, answers, carried, twin, edited,
                 raced, actions, ownerEdits>>

\* In Outlook the owner changes a field of an item, adds or removes a tag, or
\* deletes the item.
Touched(i, f, part) ==
  /\ edited' = [edited EXCEPT ![i] = @ \cup {f}]
  /\ raced' = [raced EXCEPT ![i] = IF held # <<>> /\ Head(pending) = i
                                   THEN @ \cup {part} ELSE @]

OwnerEdits(i) ==
  /\ objects[i].live
  /\ ownerEdits < MaxOwnerEdits
  /\ ownerEdits' = ownerEdits + 1
  /\ \/ \E f \in PlainFields :
          /\ objects[i][f] # 2
          /\ objects' = [objects EXCEPT ![i][f] = 2]
          /\ twin' = [twin EXCEPT ![i][f] = 2]
          /\ Touched(i, f, f)
     \/ \E t \in Tags :
          LET With(old) == IF t \in objects[i].tags THEN old \ {t} ELSE old \cup {t}
          IN  /\ objects' = [objects EXCEPT ![i].tags = With(@)]
              /\ twin' = [twin EXCEPT ![i].tags = With(@)]
              /\ Touched(i, "tags", t)
     \/ /\ objects' = [objects EXCEPT ![i].live = FALSE]
        /\ twin' = [twin EXCEPT ![i].live = FALSE]
        /\ UNCHANGED <<edited, raced>>
  /\ UNCHANGED <<action, pending, held, answers, carried, verdicts, ended, actions>>

ActionNext ==
  \/ \E r \in ActionRequests : CallAgain(r)
  \/ FetchObject \/ SaveObject \/ BatchStep \/ Lost \/ EndAction
  \/ \E i \in Objects : OwnerEdits(i)

ActionSpec == ActionInit /\ [][ActionNext]_actionVars

-----------------------------------------------------------------------------
ActionTypeOK ==
  /\ objects \in [Objects -> ObjectType] /\ twin \in [Objects -> ObjectType]
  /\ action \in ActionRequests
  /\ IsSuffix(pending, action.ids)
  /\ Len(held) <= 1 /\ Len(answers) <= Len(carried)
  /\ ended \in {"none", "ok", "error"}
  /\ edited \in [Objects -> SUBSET ObjectFields]
  /\ raced \in [Objects -> SUBSET (PlainFields \cup Tags)]
  /\ actions \in 0..MaxActions /\ ownerEdits \in 0..MaxOwnerEdits

\* What this call may have left of a plain field f of item i: what it would be
\* without the call; the value that was asked for; or, as a rule goes back whole,
\* one that was changed between the fetch and the save.
Acted(i) == i \in ToSet(action.ids)

FieldKept(i, f) ==
  \/ objects[i][f] = twin[i][f]
  \/ /\ Acted(i) /\ f \in Named(action)
     /\ objects[i][f] = (IF f = "x" THEN action.x ELSE Flag(action))
  \/ Acted(i) /\ action.tool = "update_rule" /\ f \in raced[i]

\* ... and of a tag t: an added tag is there, a removed one is not, and only where
\* the whole set was asked for may others have come or gone; or this very tag was
\* changed between the fetch and the save.
TagKept(i, t) ==
  LET has == t \in objects[i].tags
  IN  \/ has <=> t \in twin[i].tags
      \/ /\ Acted(i) /\ action.tool = "categorize"
         /\ \/ action.mode = "add" /\ t \in action.tags /\ has
            \/ action.mode = "remove" /\ t \in action.tags /\ ~has
            \/ action.mode = "set" /\ (has <=> t \in action.tags)
      \/ Acted(i) /\ action.tool \in {"categorize", "update_rule"} /\ t \in raced[i]

\* A call changes the fields it names and no other, of the items it names and
\* no other, even if the owner edits them between its fetch and its save: "the
\* server's own Rule object" goes back with its conditions, and a request that
\* names nothing does not "clobber a concurrent edit".  Categories are merged
\* into those that are there: adding or removing some leaves all others as they
\* are, also those the owner added or removed after the call began.  Of the
\* owner's edits only two kinds may be lost, and only if they fall between the
\* fetch and the save: one of a field of the very rule that is saved, and one of
\* a category of the very message that is categorized; every other field and
\* category keeps what it had.
OwnersEditsKept ==
  \A i \in Objects : objects[i].live =>
    /\ \A f \in PlainFields : FieldKept(i, f)
    /\ \A t \in Tags : TagKept(i, t)

\* Every id of a batch or a loop has one verdict, and a true one.  Success
\* means that the item was moved, copied or deleted (or gone before a delete) or
\* has the fields that were asked for, but for those its owner edited; failure
\* of a batched id means that the item was left alone.  (Where a foreign folder
\* gives no results the refusals cannot be told from one another.)
VerdictsTrue ==
  ended = "ok" =>
    /\ Len(verdicts) = Len(action.ids)
    /\ (action.foreign => answers = <<>>) =>
         \A n \in 1..Len(verdicts) :
           LET i == action.ids[n]
           IN  /\ verdicts[n] =>
                    CASE action.tool \in {"delete", "delete_rule", "bulk_delete"} -> ~objects[i].live
                      [] action.tool \in {"move", "copy", "bulk_move", "bulk_copy"} ->
                           carried[n]
                      [] OTHER ->
                           \A f \in Named(action) \ edited[i] :
                             objects[i][f] = Changed(action, twin[i])[f]
               /\ ~verdicts[n] /\ action.tool \in Batched => ~carried[n]

-----------------------------------------------------------------------------
(***************************************************************************)
(* The inductive invariant: the ids left are the rest of those asked for,  *)
(* what is held is the item as it is but for what the owner changed in     *)
(* between, and a field nobody edited is as it was or as asked for.        *)
(***************************************************************************)
Answer == {"done", "failed", "refused", "missing"}

ActionTyped ==
  /\ objects \in [Objects -> ObjectType] /\ twin \in [Objects -> ObjectType]
  /\ action \in ActionRequests
  /\ pending \in Seq(Objects)
  /\ held = <<>> \/ \E o \in ObjectType : held = <<o>>
  /\ answers \in Seq(Answer) /\ carried \in Seq(BOOLEAN)
  /\ verdicts \in Seq(BOOLEAN)
  /\ ended \in {"none", "ok", "error"}
  /\ edited \in [Objects -> SUBSET ObjectFields]
  /\ raced \in [Objects -> SUBSET (PlainFields \cup Tags)]
  /\ actions \in 0..MaxActions /\ ownerEdits \in 0..MaxOwnerEdits

\* The ids are dealt with in turn.
InTurn ==
  /\ ended # "error" =>
       /\ Len(carried) + Len(pending) = Len(action.ids)
       /\ \A k \in 1..Len(pending) : pending[k] = action.ids[Len(carried) + k]
  /\ ended # "none" => pending = <<>>
  /\ ~action.foreign /\ ended # "error" => Len(answers) = Len(carried)
  /\ Len(answers) <= Len(carried)

HeldFresh(o, i) ==
  /\ \A f \in PlainFields \ raced[i] : o[f] = objects[i][f]
  /\ \A t \in Tags \ raced[i] : t \in o.tags <=> t \in objects[i].tags
  /\ \A f \in ObjectFields \ edited[i] : o[f] = objects[i][f]

HeldTrue ==
  held # <<>> =>
    /\ Running /\ action.tool \in Looped
    /\ ~NothingToSave(action, held[1])
    /\ HeldFresh(held[1], Head(pending))

\* The field f of item i is what it would be without this call, or what this
\* call makes of it.
AsItWasOrAsked(i, f) ==
  objects[i][f] = twin[i][f] \/ objects[i][f] = Changed(action, twin[i])[f]

FieldsTrue ==
  \A i \in Objects :
    /\ \A f \in PlainFields : FieldKept(i, f)
    /\ \A t \in Tags : TagKept(i, t)
    /\ \A f \in ObjectFields \ edited[i] : AsItWasOrAsked(i, f)

\* What is answered for one id is so, and stays so.
Deletes == {"delete", "delete_rule", "bulk_delete"}
Moves == {"move", "copy", "bulk_move", "bulk_copy"}

DoneIsTrue(n) ==
  LET i == action.ids[n]
  IN  IF action.tool \in Deletes THEN ~objects[i].live
      ELSE IF action.tool \in Moves THEN carried[n]
      ELSE \A f \in Named(action) \ edited[i] :
             objects[i][f] = Changed(action, twin[i])[f]

AnswerTrue(n, a) ==
  /\ a = "done" => DoneIsTrue(n)
  /\ a = "missing" => ~objects[action.ids[n]].live
  /\ action.tool \in Batched => (carried[n] <=> a = "done")

AnswersTrue ==
  ended # "error" =>
    /\ ~action.foreign => \A n \in 1..Len(answers) : AnswerTrue(n, answers[n])
    /\ action.foreign /\ answers = <<>> =>
         \A n \in 1..Len(carried) : AnswerTrue(n, "done")

VerdictsGiven ==
  ended = "ok" =>
    verdicts = IF action.tool \in Batched
               THEN BulkResult(action, answers)
               ELSE [i \in 1..Len(answers) |-> answers[i] = "done"]

ActionIInv ==
  ActionTyped /\ InTurn /\ HeldTrue /\ FieldsTrue /\ AnswersTrue /\ VerdictsGiven
=============================================================================
