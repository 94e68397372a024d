---------------------------- MODULE MailDelivery ----------------------------
(***************************************************************************)
(* The tools that send mail (exchange_client/email.py): send_draft with    *)
(* its submission id and its search for the sent copy, reply_email and     *)
(* forward_email, and send_email.  The gateway runs one of them at a time; *)
(* a call is a fixed plan of EWS requests, and what matters is what each   *)
(* request may have done when its answer is an error.                      *)
(*                                                                         *)
(* External: Exchange and the owner of the mailbox, who works in Outlook   *)
(* meanwhile.  A request fails before it took effect, after it took        *)
(* effect, or while it is on its way: then it may take effect at any later *)
(* time.  Exchange gives an item a new change key with every change and a  *)
(* new id with every move, refuses SendItem on an outdated change key, and *)
(* shows a sent copy to searches some time after it was sent.              *)
(***************************************************************************)
EXTENDS Naturals, Sequences, FiniteSets

CONSTANTS Calls,        \* calls of the tools; also their submission ids
          Draft,        \* a message that is in Drafts from the start
          Timeouts,     \* values of confirmation_timeout_seconds
          PollTime,     \* how long a search of Sent Items may take
          MaxMeddling,  \* bound on what the owner does
          User,         \* the mailbox owner as the sender of a message
          None

\* A reply or forward that is saved first is the message named like its call.
Messages == Calls \cup {Draft}

\* send_draft; reply_email with mentions, without and with attachments;
\* reply_email or forward_email with attachments only; send_email, or a reply or
\* forward without either.
Kinds == {"draft", "mention", "mention_files", "attach", "direct"}

Replies == {"mention", "mention_files"}
Stamped == {"draft"} \cup Replies

VARIABLES
  msg,        \* the mailbox: each message's place, flags and versions
  sentBy,     \* who sent each message to its recipients, in order
  late,       \* requests that were given up but may still take effect
  kind,       \* each call's kind, None before it starts
  target,     \* the message it sends
  step,       \* its position in Plan(kind); 0 before it starts and at its end
  item,       \* its local copy of the message: id and change key
  timeout,    \* its confirmation_timeout_seconds
  clock,      \* the time a call has spent searching for its copy
  answer,     \* what the call returned, None until then
  copy,       \* the sent copy a "sent_confirmed" answer names
  meddling    \* how much the owner has done

vars == <<msg, sentBy, late, kind, target, step, item, timeout, clock, answer,
          copy, meddling>>

Statuses == {"submitted", "sent_confirmed", "submitted_unconfirmed"}

\* "error": any error but send_outcome_unknown; "crashed": the server process
\* ended before it could answer.
Answers == Statuses \cup {"error", "send_outcome_unknown", "crashed"}

ASSUME DeliveryAssumption ==
  /\ Timeouts \subseteq Nat
  /\ PollTime \in Nat
  /\ MaxMeddling \in Nat
  /\ User \notin Calls /\ Draft \notin Calls
  /\ None \notin Calls \cup Messages \cup Kinds \cup Answers

-----------------------------------------------------------------------------
\* The requests of a call, in order.  A reply or forward first fetches the
\* message it answers; if that fails nothing has happened, as when the first
\* request here fails before it took effect.
PlanSendBeforeStamp(k) ==
  CASE k = "draft"         -> <<"fetch", "send", "stamp", "poll">>
    [] k = "mention"       -> <<"save", "fetch_own", "header",
                                "fetch", "send", "stamp", "poll">>
    [] k = "mention_files" -> <<"save", "fetch_own", "header", "attach",
                                "fetch", "send", "stamp", "poll">>
    [] k = "attach"        -> <<"save", "fetch_own", "attach", "send">>
    [] k = "direct"        -> <<"create">>
Plan(k) ==
  CASE k = "draft"         -> <<"fetch", "stamp", "send", "poll">>
    [] k = "mention"       -> <<"save", "fetch_own", "header",
                                "fetch", "stamp", "send", "poll">>
    [] k = "mention_files" -> <<"save", "fetch_own", "header", "attach",
                                "fetch", "stamp", "send", "poll">>
    [] k = "attach"        -> <<"save", "fetch_own", "attach", "send">>
    [] k = "direct"        -> <<"create">>

Running(c) == step[c] # 0

At(c, name) == Running(c) /\ Plan(kind[c])[step[c]] = name

Reading(c) == \E name \in {"fetch", "fetch_own", "poll"} : At(c, name)

NoMessage == [where |-> "none", draft |-> TRUE, id |-> 0, key |-> 0,
              stamp |-> None, visible |-> FALSE]

Init ==
  /\ msg \in [Messages -> {NoMessage, [NoMessage EXCEPT !.where = "drafts"]}]
  /\ \A m \in Messages : msg[m].where = "drafts" <=> m = Draft
  /\ sentBy = [m \in Messages |-> <<>>]
  /\ late = {}
  /\ kind = [c \in Calls |-> None]
  /\ target = [c \in Calls |-> c]
  /\ step = [c \in Calls |-> 0]
  /\ item = [c \in Calls |-> [id |-> 0, key |-> 0]]
  /\ timeout = [c \in Calls |-> 0]
  /\ clock = 0
  /\ answer = [c \in Calls |-> None]
  /\ copy = [c \in Calls |-> None]
  /\ meddling = 0

-----------------------------------------------------------------------------
(***************************************************************************)
(* What the requests do to the mailbox.                                    *)
(***************************************************************************)
Request(c) == [op |-> Plan(kind[c])[step[c]], call |-> c, on |-> target[c],
               id |-> item[c].id, key |-> item[c].key]

Accepted(r) ==
  LET m == msg[r.on]
  IN  CASE r.op \in {"save", "create"} -> m.where = "none"
        [] r.op = "send" -> m.where = "drafts" /\ m.id = r.id /\ m.key = r.key
        [] OTHER         -> m.where = "drafts" /\ m.id = r.id

Changed(r) ==
  LET m == msg[r.on]
  IN  CASE r.op = "save"   -> [m EXCEPT !.where = "drafts"]
        [] r.op = "create" -> [m EXCEPT !.where = "sent", !.draft = FALSE]
        [] r.op = "stamp"  -> [m EXCEPT !.stamp = r.call, !.key = @ + 1]
        [] r.op = "send"   -> [m EXCEPT !.where = "sent", !.draft = FALSE,
                                        !.id = @ + 1, !.visible = FALSE]
        [] OTHER           -> [m EXCEPT !.key = @ + 1]

\* Exchange carries the request out, and delivers what it sends.
Apply(r) ==
  /\ Accepted(r)
  /\ msg' = [msg EXCEPT ![r.on] = Changed(r)]
  /\ sentBy' = IF r.op \in {"send", "create"}
               THEN [sentBy EXCEPT ![r.on] = Append(@, r.call)]
               ELSE sentBy

-----------------------------------------------------------------------------
(***************************************************************************)
(* The tools.                                                              *)
(***************************************************************************)
\* A call begins once the previous mutation has left the gateway.  send_draft
\* is given the id of a message its caller saw in Drafts, which may be what an
\* earlier reply left there.  A reply with mentions searches for ten seconds.
Start(c, k, m, t) ==
  /\ kind[c] = None
  /\ \A d \in Calls : ~Running(d)
  /\ IF k = "draft" THEN msg[m].where = "drafts" ELSE m = c
  /\ k \in Replies => t # 0
  /\ kind' = [kind EXCEPT ![c] = k]
  /\ target' = [target EXCEPT ![c] = m]
  /\ step' = [step EXCEPT ![c] = 1]
  /\ item' = [item EXCEPT ![c].id = msg[m].id]
  /\ timeout' = [timeout EXCEPT ![c] = t]
  /\ UNCHANGED <<msg, sentBy, late, clock, answer, copy, meddling>>

Return(c, a) ==
  /\ step' = [step EXCEPT ![c] = 0]
  /\ answer' = [answer EXCEPT ![c] = a]

\* How an exception in the current request is reported.
ReportedMapped(c) == "error"
ReportedUnmapped(c) ==
  IF kind[c] \in Stamped /\ At(c, "send") THEN "send_outcome_unknown"
                                          ELSE "TransportError"
Reported(c) ==
  IF kind[c] \in Stamped /\ At(c, "send") THEN "send_outcome_unknown"
                                          ELSE "error"

\* The item fetched is the one asked for, in Drafts, and for send_draft unsent.
FetchableIfSent(c) ==
  /\ msg[target[c]].where = "drafts"
  /\ msg[target[c]].id = item[c].id
Fetchable(c) ==
  /\ msg[target[c]].where = "drafts"
  /\ msg[target[c]].id = item[c].id
  /\ At(c, "fetch") => msg[target[c]].draft

\* _fetch_item: the message's current change key, or an error.
Fetch(c) ==
  /\ At(c, "fetch") \/ At(c, "fetch_own")
  /\ \/ /\ Fetchable(c)
        /\ item' = [item EXCEPT ![c].key = msg[target[c]].key]
        /\ step' = [step EXCEPT ![c] = @ + 1]
        /\ UNCHANGED answer
     \/ /\ Return(c, Reported(c))
        /\ UNCHANGED item
  /\ UNCHANGED <<msg, sentBy, late, kind, target, timeout, clock, copy, meddling>>

\* After its last request, and with no time to search for the copy, a call
\* reports the submission.
Submitted(c) ==
  \/ step[c] = Len(Plan(kind[c]))
  \/ At(c, "send") /\ timeout[c] = 0

\* Any other request but a search: Exchange accepts it and the answer arrives.
Succeed(c) ==
  /\ Running(c) /\ ~Reading(c)
  /\ Apply(Request(c))
  /\ item' = [item EXCEPT ![c].key = msg'[target[c]].key]
  /\ IF Submitted(c)
     THEN Return(c, "submitted")
     ELSE /\ step' = [step EXCEPT ![c] = @ + 1]
          /\ UNCHANGED answer
  /\ UNCHANGED <<late, kind, target, timeout, clock, copy, meddling>>

\* It fails before or after it took effect, or is given up on its way.
Fail(c) ==
  /\ Running(c) /\ ~Reading(c)
  /\ \/ Apply(Request(c)) /\ UNCHANGED late
     \/ UNCHANGED <<msg, sentBy, late>>
     \/ late' = late \cup {Request(c)} /\ UNCHANGED <<msg, sentBy>>
  /\ Return(c, Reported(c))
  /\ UNCHANGED <<kind, target, item, timeout, clock, copy, meddling>>

\* What the search of Sent Items for the submission id finds.
CopiesOfAnySubmission(c) ==
  {m \in Messages : msg[m].where = "sent" /\ msg[m].visible}
Copies(c) ==
  {m \in Messages :
     msg[m].where = "sent" /\ msg[m].visible /\ msg[m].stamp = c}

\* time.sleep(min(0.5, remaining)), in quarters of a second.
Nap(remaining) == IF remaining < 2 THEN remaining ELSE 2

OutOfTime(c, t) == t >= timeout[c]

Found(c) == Cardinality(Copies(c)) = 1 /\ \A m \in Copies(c) : ~msg[m].draft

\* One turn of _confirm_submission's loop, whose search takes d: it finds the
\* copy, it fails or finds none in time, or the loop sleeps and goes on.
Poll(c, d) ==
  /\ At(c, "poll")
  /\ \/ /\ Found(c)
        /\ clock' = 0
        /\ \E m \in Copies(c) : copy' = [copy EXCEPT ![c] = m]
        /\ Return(c, "sent_confirmed")
     \/ /\ clock' = 0
        /\ Return(c, "submitted_unconfirmed")
        /\ UNCHANGED copy
     \/ /\ ~Found(c)
        /\ ~OutOfTime(c, clock + d)
        /\ clock' = clock + d + Nap(timeout[c] - (clock + d))
        /\ UNCHANGED <<step, answer, copy>>
  /\ UNCHANGED <<msg, sentBy, late, kind, target, item, timeout, meddling>>

\* The process dies, with or without a request on its way.
Crash(c) ==
  /\ Running(c)
  /\ late' \in {late} \cup (IF Reading(c) THEN {} ELSE {late \cup {Request(c)}})
  /\ Return(c, "crashed")
  /\ clock' = 0
  /\ UNCHANGED <<msg, sentBy, kind, target, item, timeout, copy, meddling>>

-----------------------------------------------------------------------------
(***************************************************************************)
(* Exchange and the owner.                                                 *)
(***************************************************************************)
\* A request that was given up takes effect after all.
TakesEffect(r) ==
  /\ r \in late
  /\ Apply(r)
  /\ late' = late \ {r}
  /\ UNCHANGED <<kind, target, step, item, timeout, clock, answer, copy, meddling>>

\* A sent copy becomes visible to searches.
Appear(m) ==
  /\ msg[m].where = "sent" /\ ~msg[m].visible
  /\ msg' = [msg EXCEPT ![m].visible = TRUE]
  /\ UNCHANGED <<sentBy, late, kind, target, step, item, timeout, clock, answer,
                 copy, meddling>>

\* The owner edits a message in Drafts, sends it, moves a sent one there, or
\* deletes one.
Meddle(m) ==
  /\ meddling < MaxMeddling
  /\ meddling' = meddling + 1
  /\ \/ /\ msg[m].where = "drafts"
        /\ msg' = [msg EXCEPT ![m].key = @ + 1]
        /\ UNCHANGED sentBy
     \/ /\ msg[m].where = "drafts" /\ msg[m].draft
        /\ msg' = [msg EXCEPT ![m].where = "sent", ![m].draft = FALSE,
                              ![m].id = @ + 1, ![m].visible = FALSE]
        /\ sentBy' = [sentBy EXCEPT ![m] = Append(@, User)]
     \/ /\ msg[m].where = "sent"
        /\ msg' = [msg EXCEPT ![m].where = "drafts", ![m].id = @ + 1]
        /\ UNCHANGED sentBy
     \/ /\ msg[m].where \in {"drafts", "sent"}
        /\ msg' = [msg EXCEPT ![m].where = "deleted"]
        /\ UNCHANGED sentBy
  /\ UNCHANGED <<late, kind, target, step, item, timeout, clock, answer, copy>>

-----------------------------------------------------------------------------
Next ==
  \/ \E c \in Calls :
       \/ \E k \in Kinds, m \in Messages, t \in Timeouts : Start(c, k, m, t)
       \/ Fetch(c) \/ Succeed(c) \/ Fail(c) \/ Crash(c)
       \/ \E d \in 0..PollTime : Poll(c, d)
  \/ \E r \in late : TakesEffect(r)
  \/ \E m \in Messages : Appear(m) \/ Meddle(m)

Spec == Init /\ [][Next]_vars

-----------------------------------------------------------------------------
Versions == [where : {"none", "drafts", "sent", "deleted"}, draft : BOOLEAN,
             id : Nat, key : Nat, stamp : Calls \cup {None}, visible : BOOLEAN]

\* Types; and "the budget limits polling": a search for the copy in Sent Items
\* never begins after the budget's end.
TypeOK ==
  /\ msg \in [Messages -> Versions]
  /\ sentBy \in [Messages -> Seq(Calls \cup {User})]
  /\ \A r \in late : /\ r.call \in Calls /\ r.on \in Messages
                     /\ r.id \in Nat /\ r.key \in Nat
  /\ kind \in [Calls -> Kinds \cup {None}]
  /\ target \in [Calls -> Messages]
  /\ \A c \in Calls : step[c] # 0 => step[c] \in 1..Len(Plan(kind[c]))
  /\ item \in [Calls -> [id : Nat, key : Nat]]
  /\ timeout \in [Calls -> Timeouts \cup {0}]
  /\ clock \in Nat
  /\ answer \in [Calls -> Answers \cup {None}]
  /\ copy \in [Calls -> Messages \cup {None}]
  /\ \A c \in Calls : At(c, "poll") => clock <= timeout[c]
  /\ meddling \in 0..MaxMeddling

SentBy(c, m) == \E i \in 1..Len(sentBy[m]) : sentBy[m][i] = c

SentSomething(c) == \E m \in Messages : SentBy(c, m)

\* What a tool claims is true: each of the three statuses means that this very
\* call sent the message, and the copy a confirmation names is the one it sent.
TruthfulAnswer ==
  \A c \in Calls :
    /\ answer[c] \in Statuses => SentBy(c, target[c])
    /\ answer[c] = "sent_confirmed" => copy[c] = target[c]

\* "If this fails, no send was attempted": a send_draft, or a reply with
\* mentions, that ends in any error but send_outcome_unknown has sent nothing
\* and never will, so that its caller may try again.
PlainErrorMeansUnsent ==
  \A c \in Calls :
    answer[c] = "error" /\ kind[c] \in Stamped => ~SentSomething(c)

\* A message send_draft sent carries that call's submission id, wherever it
\* lies now and whatever late request or edit came in between: "check Sent
\* Items using submission_id" finds it.
CopyCarriesSubmission ==
  \A c \in Calls, m \in Messages :
    SentBy(c, m) /\ kind[c] \in Stamped => msg[m].stamp = c

\* No message goes out twice, however often callers retry the draft's id and
\* whoever else sends or moves it meanwhile: "calls SendItem exactly once".
DeliveredOnce == \A m \in Messages : Len(sentBy[m]) <= 1

-----------------------------------------------------------------------------
(***************************************************************************)
(* The inductive invariant, in parts.                                      *)
(***************************************************************************)
Requests == [op : {"save", "create", "header", "attach", "stamp", "send"},
             call : Calls, on : Messages, id : Nat, key : Nat]

Typed ==
  /\ msg \in [Messages -> Versions]
  /\ sentBy \in [Messages -> {<<>>} \cup {<<x>> : x \in Calls \cup {User}}]
  /\ late \subseteq Requests
  /\ kind \in [Calls -> Kinds \cup {None}]
  /\ target \in [Calls -> Messages]
  /\ step \in [Calls -> Nat]
  /\ item \in [Calls -> [id : Nat, key : Nat]]
  /\ timeout \in [Calls -> Timeouts \cup {0}]
  /\ clock \in Nat
  /\ answer \in [Calls -> Answers \cup {None}]
  /\ copy \in [Calls -> Messages \cup {None}]
  /\ meddling \in 0..MaxMeddling

\* A message keeps its id while it is unsent and nobody moved it: what looked at
\* it as a draft finds the draft, or finds another id.
StillDraft(m, id) == msg[m].id = id => msg[m].draft

\* What is true of a request as long as it may take effect.
RequestOK(r) ==
  /\ kind[r.call] # None /\ r.on = target[r.call]
  /\ r.id <= msg[r.on].id /\ r.key <= msg[r.on].key
  /\ r.op = "save" => kind[r.call] # "draft"
  /\ r.op = "create" => kind[r.call] = "direct"
  /\ r.op = "stamp" => kind[r.call] \in Stamped
  /\ r.op \in {"stamp", "send"} => /\ kind[r.call] # "direct"
                                   /\ StillDraft(r.on, r.id)
  /\ /\ r.op = "send" /\ kind[r.call] \in Stamped
     /\ msg[r.on].id = r.id /\ msg[r.on].key = r.key
     => msg[r.on].stamp = r.call

LateInv == \A r \in late : RequestOK(r)

\* The message of a call that will not look at it again before it sends it.
Aims(c) == Running(c) /\ (kind[c] = "attach" \/ At(c, "stamp") \/ At(c, "send"))

CallOK(c) ==
  /\ kind[c] = None => /\ ~Running(c) /\ answer[c] = None /\ item[c].key = 0
                       /\ msg[c].where = "none"
  /\ kind[c] = "draft" => msg[target[c]].where # "none"
  /\ kind[c] # "draft" => target[c] = c
  /\ Running(c) => /\ step[c] \in 1..Len(Plan(kind[c])) /\ answer[c] = None
                   /\ item[c].id <= msg[target[c]].id
                   /\ item[c].key <= msg[target[c]].key
  /\ Aims(c) => StillDraft(target[c], item[c].id)
  /\ /\ At(c, "send") /\ kind[c] \in Stamped
     /\ msg[target[c]].id = item[c].id /\ msg[target[c]].key = item[c].key
     => msg[target[c]].stamp = c

CallInv == \A c \in Calls : CallOK(c)

OneRuns ==
  /\ \A c, d \in Calls : Running(c) /\ Running(d) => c = d
  /\ clock # 0 => \E c \in Calls : At(c, "poll")
  /\ \A c \in Calls : At(c, "poll") => clock <= timeout[c]

\* A message that is not marked as sent has not been; what has been sent bears
\* its sender's stamp, and bears it for good.
MessageOK(m) ==
  /\ msg[m].where = "none" => msg[m].draft
  /\ msg[m].draft => sentBy[m] = <<>>
  /\ \A c \in Calls :
       /\ msg[m].stamp = c => m = target[c] /\ kind[c] # None
       /\ sentBy[m] = <<c>> => /\ m = target[c] /\ kind[c] # None
                               /\ kind[c] \in Stamped => msg[m].stamp = c

MessageInv == \A m \in Messages : MessageOK(m)

\* A call whose outcome is still open, or is a plain error, has sent nothing and
\* left nothing behind that could.
OutcomeOK(c) ==
  /\ kind[c] \in Stamped /\ (answer[c] = "error" \/ (Running(c) /\ ~At(c, "poll"))) =>
       /\ \A m \in Messages : sentBy[m] # <<c>>
       /\ \A r \in late : r.call = c => r.op # "send"
  /\ At(c, "poll") \/ answer[c] \in Statuses => sentBy[target[c]] = <<c>>
  /\ answer[c] = "sent_confirmed" => copy[c] = target[c]

OutcomeInv == \A c \in Calls : OutcomeOK(c)

DeliveryIInv ==
  Typed /\ LateInv /\ CallInv /\ OneRuns /\ MessageInv /\ OutcomeInv
=============================================================================
