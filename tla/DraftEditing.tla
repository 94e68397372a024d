---------------------------- MODULE DraftEditing ----------------------------
(***************************************************************************)
(* The tools that write a draft (exchange_client/email.py): create_draft,  *)
(* create_reply_draft, update_draft, add_attachment and delete_attachment. *)
(* They are called one after the other, each a few EWS requests of which   *)
(* any may fail, on a draft its owner also edits in Outlook.               *)
(*                                                                         *)
(* Of a draft the recipients, the mentions and the attachments are         *)
(* modelled.  Its X-Mentions header makes Outlook notify people.           *)
(*                                                                         *)
(* External: Exchange and the owner.  A request that fails has been        *)
(* carried out or not by the time the next one is sent.  CreateItem        *)
(* carries the attachments with it; each has an id of its own.             *)
(***************************************************************************)
EXTENDS Naturals, Sequences, FiniteSets, SequencesExt

CONSTANTS People,
          Files,       \* the local files one can attach
          Requests,    \* what callers ask for
          MaxCalls,    \* bound on the calls
          MaxEdits,    \* bound on what the owner does
          Unset        \* a field the caller left out, or a file no one names

Tools == {"create_draft", "create_reply_draft", "update_draft",
          "add_attachment", "delete_attachment"}

Creators == {"create_draft", "create_reply_draft"}

\* to, cc: the recipients given, or those a reply has by itself; addTo, addCc:
\* a reply's additional ones; id: the attachment to delete.
RequestType ==
  [tool : Tools, to : {Unset} \cup SUBSET People, cc : {Unset} \cup SUBSET People,
   addTo : SUBSET People, addCc : SUBSET People, body : BOOLEAN,
   mentions : SUBSET People, files : {Unset} \cup Seq(Files), id : Nat]

ASSUME DraftAssumption ==
  /\ Requests \subseteq RequestType
  /\ \A r \in Requests : /\ r.mentions # {} => r.body
                         /\ r.body => r.tool \in Creators \cup {"update_draft"}
                         /\ r.tool \in Creators => Unset \notin {r.to, r.cc, r.files}
                         /\ r.tool = "add_attachment" =>
                              r.files # Unset /\ Len(r.files) = 1
  /\ MaxCalls \in Nat \ {0} /\ MaxEdits \in Nat
  /\ \A S \in SUBSET People : Unset # S

VARIABLES
  draft,      \* the draft on the server
  nextId,     \* the number of the next attachment
  call,       \* the call under way, or the last one
  jobs,       \* the requests it has still to send
  fetched,    \* its copy of the draft
  verdict,    \* "none" while it runs, "ok" or "error"
  before,     \* history: the draft when the call began
  touched,    \* history: the owner edited "never", before the call or "now"
  calls,      \* how many calls there were
  edits       \* how often the owner changed something

draftVars == <<draft, nextId, call, jobs, fetched, verdict, before, touched,
               calls, edits>>

Drafts == [exists : BOOLEAN, to : SUBSET People, cc : SUBSET People,
           mentioned : SUBSET People,    \* whom the body mentions
           header : SUBSET People,       \* whom X-Mentions names
           files : SUBSET [id : Nat, file : Files]]

NoDraft == [exists |-> FALSE, to |-> {}, cc |-> {}, mentioned |-> {},
            header |-> {}, files |-> {}]

-----------------------------------------------------------------------------
Given(field, old) == IF field = Unset THEN old ELSE field

\* _add_recipients: whom To gains, and then whom Cc gains.
AddedTo(to, cc, r) == (r.addTo \cup r.mentions) \ (to \cup cc)
AddedCc(to, cc, r) == r.addCc \ (to \cup cc \cup AddedTo(to, cc, r))

\* The recipients of a request r, on a message that has `to` and `cc`.
Recipients(d, to, cc, r) ==
  [d EXCEPT !.to = to \cup AddedTo(to, cc, r), !.cc = cc \cup AddedCc(to, cc, r)]

\* The attachments of a message created with these files.
Created(files) == {[id |-> nextId + i, file |-> files[i]] : i \in 1..Len(files)}

Op(name) == [op |-> name, file |-> Unset, id |-> 0]
Attach(files) == [i \in 1..Len(files) |-> [Op("attach") EXCEPT !.file = files[i]]]
Detach(S) ==
  LET found == SetToSeq(S)
  IN  [i \in 1..Len(found) |-> [Op("detach") EXCEPT !.id = found[i].id]]

\* Nothing is saved if no field was named.
SavesFields(r) ==
  \/ r.to # Unset \/ r.cc # Unset \/ r.body
Save(r) == IF SavesFields(r) THEN <<Op("save")>> ELSE <<>>

Replace(r, d) ==
  IF r.files = Unset THEN <<>> ELSE Detach(d.files) \o Attach(r.files)

\* The requests a call begins with, and those it sends once it has the draft.
FirstJobs(r) ==
  CASE r.tool = "create_draft" -> <<Op("create")>>
    [] r.tool = "create_reply_draft" ->
         <<Op("reply")>>
         \o (IF r.files # <<>> \/ r.mentions # {} THEN <<Op("fetch")>> ELSE <<>>)
    [] OTHER -> <<Op("fetch")>>

UpdateSavingFirst(r, d) == Save(r) \o Replace(r, d)
Update(r, d) == Replace(r, d) \o Save(r)

NextJobs(r, d) ==
  CASE r.tool = "create_reply_draft" ->
         (IF r.mentions # {} THEN <<Op("header")>> ELSE <<>>) \o Attach(r.files)
    [] r.tool = "update_draft"      -> Update(r, d)
    [] r.tool = "add_attachment"    -> Attach(r.files)
    [] r.tool = "delete_attachment" -> Detach({a \in d.files : a.id = r.id})

\* update_draft's fields: a replaced body replaces the header or clears it.
HeaderOnlyIfMentions(r, d) == IF r.mentions # {} THEN r.mentions ELSE d.header
NewHeader(r, d) ==
  IF r.body /\ (r.mentions # {} \/ fetched.header # {}) THEN r.mentions ELSE d.header

\* Fields that were not named, and to which no one was added, are not sent.
Saved(r, d) ==
  LET to == Given(r.to, fetched.to)
      cc == Given(r.cc, fetched.cc)
      sendsTo == r.to # Unset \/ AddedTo(to, cc, r) # {}
  IN  [d EXCEPT !.to = IF sendsTo THEN to \cup AddedTo(to, cc, r) ELSE @,
                !.cc = Given(r.cc, @),
                !.mentioned = IF r.body THEN r.mentions ELSE @,
                !.header = NewHeader(r, d)]

-----------------------------------------------------------------------------
(***************************************************************************)
(* What a request does to the draft.                                       *)
(***************************************************************************)
Accepted(j) ==
  CASE j.op \in {"create", "reply"} -> TRUE
    [] j.op = "detach" -> draft.exists /\ \E a \in draft.files : a.id = j.id
    [] OTHER           -> draft.exists

Result(j, r) ==
  CASE j.op = "create" ->
         [Recipients(NoDraft, r.to, r.cc, r) EXCEPT
            !.exists = TRUE, !.mentioned = r.mentions, !.header = r.mentions,
            !.files = Created(r.files)]
    [] j.op = "reply" ->
         [Recipients(NoDraft, r.to, r.cc, r) EXCEPT
            !.exists = TRUE, !.mentioned = r.mentions]
    [] j.op = "header" -> [draft EXCEPT !.header = r.mentions]
    [] j.op = "attach" ->
         [draft EXCEPT !.files = @ \cup {[id |-> nextId + 1, file |-> j.file]}]
    [] j.op = "detach" -> [draft EXCEPT !.files = {a \in @ : a.id # j.id}]
    [] j.op = "save"   -> Saved(r, draft)

NewIds(j) == CASE j.op = "create" -> Len(call.files)
               [] j.op = "attach" -> 1
               [] OTHER           -> 0

Apply(j) ==
  /\ Accepted(j)
  /\ draft' = Result(j, call)
  /\ nextId' = nextId + NewIds(j)

-----------------------------------------------------------------------------
DraftInit ==
  /\ draft = NoDraft
  /\ nextId = 0
  /\ call \in {r \in Requests : r.tool \in Creators}
  /\ jobs = FirstJobs(call)
  /\ fetched = NoDraft
  /\ verdict = "none"
  /\ before = NoDraft
  /\ touched = "never"
  /\ calls = 1
  /\ edits = 0

\* The next call: a new draft, or something to do with the one there is.
Begin(r) ==
  /\ verdict # "none"
  /\ calls < MaxCalls
  /\ draft.exists <=> r.tool \notin Creators
  /\ calls' = calls + 1
  /\ call' = r
  /\ jobs' = FirstJobs(r)
  /\ fetched' = NoDraft
  /\ verdict' = "none"
  /\ before' = draft
  /\ touched' = IF touched = "never" THEN touched ELSE "earlier"
  /\ UNCHANGED <<draft, nextId, edits>>

Finish(v) == verdict' = v /\ jobs' = <<>>

GoOn(rest) == IF rest = <<>> THEN Finish("ok") ELSE jobs' = rest /\ UNCHANGED verdict

\* _fetch_item: a copy of the draft, or an error.  An attachment that is not on
\* the draft cannot be deleted.
Fetch ==
  /\ verdict = "none"
  /\ jobs # <<>>
  /\ Head(jobs).op = "fetch"
  /\ \/ /\ draft.exists
        /\ fetched' = draft
        /\ IF /\ call.tool = "delete_attachment"
              /\ NextJobs(call, draft) = <<>>
           THEN Finish("error")
           ELSE GoOn(NextJobs(call, draft))
     \/ Finish("error") /\ UNCHANGED fetched
  /\ UNCHANGED <<draft, nextId, call, before, touched, calls, edits>>

\* Any other request is carried out and answered, ...
Succeed ==
  /\ verdict = "none"
  /\ jobs # <<>>
  /\ Head(jobs).op # "fetch"
  /\ Apply(Head(jobs))
  /\ GoOn(Tail(jobs))
  /\ UNCHANGED <<call, fetched, before, touched, calls, edits>>

\* ... or fails, having been carried out or not; or a file cannot be read or is
\* too large; or the process ends.
Fail ==
  /\ verdict = "none"
  /\ jobs # <<>>
  /\ Head(jobs).op # "fetch"
  /\ Apply(Head(jobs)) \/ UNCHANGED <<draft, nextId>>
  /\ Finish("error")
  /\ UNCHANGED <<call, fetched, before, touched, calls, edits>>

\* In Outlook the owner changes the recipients, removes an attachment,
\* or sends or deletes the draft.
Edit ==
  /\ draft.exists
  /\ edits < MaxEdits
  /\ edits' = edits + 1
  /\ touched' = "now"
  /\ \/ \E S \in SUBSET People : draft' = [draft EXCEPT !.to = S]
     \/ \E a \in draft.files : draft' = [draft EXCEPT !.files = @ \ {a}]
     \/ draft' = NoDraft
  /\ UNCHANGED <<nextId, call, jobs, fetched, verdict, before, calls>>

DraftNext == (\E r \in Requests : Begin(r)) \/ Fetch \/ Succeed \/ Fail \/ Edit

DraftSpec == DraftInit /\ [][DraftNext]_draftVars

-----------------------------------------------------------------------------
DraftTypeOK ==
  /\ draft \in Drafts /\ fetched \in Drafts /\ before \in Drafts
  /\ nextId \in Nat
  /\ \A a \in draft.files : a.id <= nextId
  /\ call \in Requests
  /\ verdict = "none" <=> jobs # <<>>
  /\ verdict \in {"none", "ok", "error"}
  /\ touched \in {"never", "earlier", "now"}
  /\ calls \in 1..MaxCalls
  /\ edits \in 0..MaxEdits

Undisturbed == touched # "now"

\* "Both the anchor and header are required" and "mentions must actually
\* receive the message": a call that wrote a body and succeeded leaves a header
\* that names whom the body mentions, all of them recipients.  At no time, after
\* no failure, does a "stale notification header" name anybody else.  A mention
\* moves nobody from Cc to To: whoever is in both was put there by the request,
\* or was there.
MentionsReach ==
  /\ draft.header \subseteq draft.mentioned
  /\ verdict = "ok" /\ call.body /\ Undisturbed =>
       /\ draft.mentioned = call.mentions /\ draft.header = call.mentions
       /\ call.mentions \subseteq draft.to \cup draft.cc
  /\ Undisturbed =>
       (draft.to \cap draft.cc) \subseteq
         (Given(call.to, before.to) \cap Given(call.cc, before.cc))
         \cup (before.to \cap before.cc)

Copies(S, f) == Cardinality({a \in S : a.file = f})
Asked(files, f) == Cardinality({i \in 1..Len(files) : files[i] = f})

\* The draft has each file of the request once for each time it is named.
HasFiles(files) == \A f \in Files : Copies(draft.files, f) = Asked(files, f)

Fields(d) == <<d.to, d.cc, d.mentioned, d.header>>

FieldsChanged == call.tool = "update_draft" /\ Fields(draft) # Fields(before)

\* The attachments are those the call asked for.
FilesInPlace ==
  CASE call.tool = "add_attachment" ->
         /\ before.files \subseteq draft.files
         /\ \E a \in draft.files \ before.files :
              draft.files = before.files \cup {a} /\ <<a.file>> = call.files
    [] call.tool = "delete_attachment" ->
         draft.files = {a \in before.files : a.id # call.id}
    [] OTHER ->
         IF call.files = Unset THEN draft.files = before.files
                               ELSE HasFiles(call.files)

\* Whatever earlier calls left half done, a call that succeeds leaves exactly
\* the attachments it should: "replaces the draft's entire attachment set", one
\* more, one less, or those that were there.  A failed update_draft that changed
\* any field has all of them in place too: new text never goes out with
\* attachments that were only half replaced.
FilesAsAsked ==
  (verdict = "ok" \/ FieldsChanged) /\ Undisturbed => FilesInPlace

-----------------------------------------------------------------------------
(***************************************************************************)
(* The inductive invariant, in parts.                                      *)
(***************************************************************************)
DraftTyped ==
  /\ DraftTypeOK
  /\ IsFiniteSet(draft.files) /\ IsFiniteSet(fetched.files)

\* Where a call is: its first request is next; or a reply is saved, and to be
\* fetched; or the n-th of the requests that follow from the copy is next.
Unsent == verdict = "none" /\ jobs = FirstJobs(call)

Replied ==
  verdict = "none" /\ call.tool = "create_reply_draft" /\ jobs = <<Op("fetch")>>

Following == NextJobs(call, fetched)

AtJob(n) ==
  /\ verdict = "none" /\ call.tool # "create_draft"
  /\ n \in 1..Len(Following)
  /\ jobs = SubSeq(Following, n, Len(Following))

JobsInTurn == verdict = "none" => Unsent \/ Replied \/ \E n \in Nat : AtJob(n)

\* The draft has the first k files of the request, and they have the latest ids.
HasFirst(k) ==
  draft.files = {[id |-> (nextId - k) + j, file |-> call.files[j]] : j \in 1..k}

HeaderJobs == IF call.mentions = {} THEN 0 ELSE 1

Detachments == Len(Detach(fetched.files))

\* What the requests before the n-th have left of the attachments.
Left(n) == {a \in fetched.files : \A j \in 1..(n - 1) : a.id # Following[j].id}

FilesAt(n) ==
  CASE call.tool = "create_reply_draft" -> HasFirst((n - 1) - HeaderJobs)
    [] call.tool = "update_draft" /\ call.files # Unset ->
         IF n <= Detachments THEN draft.files = Left(n)
                             ELSE HasFirst((n - 1) - Detachments)
    [] call.tool = "delete_attachment" -> draft.files = Left(n)
    [] OTHER -> draft.files = fetched.files

\* A reply is complete but for its header and its attachments, ...
ReplyFields(header) ==
  /\ draft.exists => draft.mentioned = call.mentions
  /\ Undisturbed =>
       /\ call.mentions \subseteq draft.to \cup draft.cc
       /\ (draft.to \cap draft.cc) \subseteq (call.to \cap call.cc)
       /\ draft.header = header

\* ... and any other draft is as it was fetched until its fields are saved.
DraftFields ==
  /\ draft.exists => /\ draft.header = fetched.header
                     /\ draft.mentioned = fetched.mentioned
  /\ Undisturbed => fetched = before /\ Fields(draft) = Fields(before)

Progress ==
  /\ Unsent /\ Undisturbed => draft = before
  /\ Replied => ReplyFields({}) /\ (Undisturbed => HasFirst(0))
  /\ \A n \in Nat : AtJob(n) =>
       /\ IF call.tool = "create_reply_draft"
          THEN ReplyFields(IF n <= HeaderJobs THEN {} ELSE call.mentions)
          ELSE DraftFields
       /\ Undisturbed => FilesAt(n)

DraftIInv == DraftTyped /\ JobsInTurn /\ Progress /\ MentionsReach /\ FilesAsAsked
=============================================================================
