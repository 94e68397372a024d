--------------------------- MODULE ThreadAssembly ---------------------------
(***************************************************************************)
(* get_thread (exchange_client/email.py): the message asked for, a search  *)
(* of each folder for summaries of the conversation, and the bodies of the *)
(* newest ones in a second phase, while the mailbox keeps changing.        *)
(*                                                                         *)
(* Messages are numbered in the order of _received_at, the result is       *)
(* sorted by it, and sets stand for the sorted lists.  An item is a        *)
(* message and the number of its id.                                       *)
(*                                                                         *)
(* External: Exchange gives a message a new id when it moves and forgets   *)
(* the old one.  Not every server can restrict a search on the             *)
(* conversation.                                                           *)
(***************************************************************************)
EXTENDS Naturals, Sequences, FiniteSets, SequencesExt

CONSTANTS Messages,      \* numbered from the oldest
          Folders,
          FolderLists,   \* values of the request's folders
          Limits,        \* values of the request's limit
          MaxChanges,    \* bound on what happens to the mailbox meanwhile
          None

ASSUME ThreadAssumption ==
  /\ Messages \subseteq Nat /\ IsFiniteSet(Messages)
  /\ FolderLists \subseteq Seq(Folders)
  /\ Limits \subseteq Nat \ {0}
  /\ MaxChanges \in Nat
  /\ None \notin Messages /\ None \notin Folders

VARIABLES
  place,      \* the folder each message is in, None if it is not in the mailbox
  version,    \* the number of its id
  kin,        \* "thread"; or "embeds": its subject merely embeds the thread's
  server,     \* whether a search by conversation works
  request,    \* anchor (None: asked by conversation id), folders, limit, and
              \* whether the subject is more than reply markers
  phase,      \* "anchor", "folders", "bodies" or "done"
  todo,       \* the folders not searched yet
  collected,  \* the dict of that name
  answer,     \* the messages of the Thread returned
  truncated,  \* its flag
  outcome,    \* "none", "ok" or "error"
  stayed,     \* messages that have not been touched since the call began
  changes     \* how much has happened to the mailbox

callVars == <<request, phase, todo, collected, answer, truncated, outcome>>
worldVars == <<place, version, kin, server, stayed, changes>>
threadVars == <<callVars, worldVars>>

Items == [m : Messages, id : Nat]

Item(m) == [m |-> m, id |-> version[m]]

Present(x) == place[x.m] # None /\ version[x.m] = x.id

-----------------------------------------------------------------------------
\* In the order of _received_at; two ids of one message in the order of finding.
Newer(x, y) == x.m > y.m \/ (x.m = y.m /\ x.id > y.id)

NewestReversed(S, n) == {x \in S : Cardinality({y \in S : Newer(x, y)}) < n}
Newest(S, n) == {x \in S : Cardinality({y \in S : Newer(y, x)}) < n}

InFolder(f, kinds) == {Item(m) : m \in {k \in Messages : place[k] = f /\ kin[k] \in kinds}}

\* _thread_items: by conversation, or by subject with the limit before the
\* comparison of the whole subject.
ByConversation(f) == Newest(InFolder(f, {"thread"}), request.limit)
BySubject(f) ==
  IF request.subject
  THEN {x \in Newest(InFolder(f, {"thread", "embeds"}), request.limit) :
          kin[x.m] = "thread"}
  ELSE {}

\* With neither the conversation nor a subject to search by, it is an error.
Searchable == server \/ request.anchor # None

FoundIn(f) == IF server THEN ByConversation(f) ELSE BySubject(f)

IsAnchor(x) == request.anchor # None /\ x.m = request.anchor

TooMany == Cardinality(collected) > request.limit

SelectedAll == collected
Selected == Newest(collected, request.limit)

\* The first item collected for the anchor is the one held in full.
Anchor(x) == IsAnchor(x) /\ \A y \in collected : IsAnchor(y) => y.id >= x.id

\* _fetch_thread_bodies drops what no longer exists.
BodiesWithSummaries == Selected
Bodies == {x \in Selected : Anchor(x) \/ Present(x)}

-----------------------------------------------------------------------------
ThreadInit ==
  /\ place \in [Messages -> Folders \cup {None}]
  /\ version = [m \in Messages |-> 0]
  /\ kin \in [Messages -> {"thread", "embeds"}]
  /\ server \in BOOLEAN
  /\ request \in [anchor : {m \in Messages : kin[m] = "thread"} \cup {None},
                  folders : FolderLists, limit : Limits, subject : BOOLEAN]
  /\ phase = IF request.anchor = None THEN "folders" ELSE "anchor"
  /\ todo = request.folders
  /\ collected = {}
  /\ answer = {}
  /\ truncated = FALSE
  /\ outcome = "none"
  /\ stayed = Messages
  /\ changes = 0

Raise ==
  /\ phase' = "done"
  /\ outcome' = "error"
  /\ UNCHANGED <<request, todo, collected, answer, truncated>>

\* _fetch_item on the message asked for.
FetchAnchor ==
  /\ phase = "anchor"
  /\ \/ /\ Present([m |-> request.anchor, id |-> 0])
        /\ collected' = {Item(request.anchor)}
        /\ phase' = "folders"
        /\ UNCHANGED <<request, todo, answer, truncated, outcome>>
     \/ Raise
  /\ UNCHANGED worldVars

\* One turn of the loop over the folders.
SearchFolder ==
  /\ phase = "folders"
  /\ todo # <<>>
  /\ \/ /\ Searchable
        /\ collected' = collected \cup FoundIn(Head(todo))
        /\ todo' = Tail(todo)
        /\ UNCHANGED <<request, phase, answer, truncated, outcome>>
     \/ Raise
  /\ UNCHANGED worldVars

\* The newest are fetched whole and returned.  If only the anchor is left, no
\* request is made that could fail.
Return ==
  /\ phase = "folders"
  /\ todo = <<>>
  /\ \/ /\ answer' = Bodies
        /\ truncated' = TooMany
        /\ outcome' = "ok"
        /\ phase' = "done"
        /\ UNCHANGED <<request, todo, collected>>
     \/ /\ \E x \in Selected : ~Anchor(x)
        /\ Raise
  /\ UNCHANGED worldVars

\* Mail arrives, or somebody moves or deletes a message.
Change(m) ==
  /\ phase # "done"
  /\ changes < MaxChanges
  /\ changes' = changes + 1
  /\ place' \in {[place EXCEPT ![m] = f] : f \in (Folders \cup {None}) \ {place[m]}}
  /\ version' = [version EXCEPT ![m] = @ + 1]
  /\ stayed' = stayed \ {m}
  /\ UNCHANGED <<kin, server, callVars>>

ThreadNext == FetchAnchor \/ SearchFolder \/ Return \/ \E m \in Messages : Change(m)

ThreadSpec == ThreadInit /\ [][ThreadNext]_threadVars

-----------------------------------------------------------------------------
ThreadTypeOK ==
  /\ place \in [Messages -> Folders \cup {None}]
  /\ version \in [Messages -> Nat]
  /\ phase \in {"anchor", "folders", "done"}
  /\ IsSuffix(todo, request.folders)
  /\ collected \subseteq Items
  /\ answer \subseteq Items
  /\ truncated \in BOOLEAN
  /\ outcome \in {"none", "ok", "error"}
  /\ Cardinality(answer) <= request.limit

\* Messages of the thread that lay in a folder searched all through the call.
Certain ==
  {m \in stayed : kin[m] = "thread" /\ place[m] \in ToSet(request.folders)}

InAnswer(m) == \E x \in answer : x.m = m

\* The limit drops the oldest: a message that was there all along is missing
\* from an answer only if as many newer items as the limit allows took its
\* place, whatever moved, arrived or vanished between the searches and the
\* fetch.  (With a search by conversation; by subject the limit applies before
\* foreign subjects are sorted out.)  And "more messages exist than `limit`; the
\* oldest were dropped": when the flag says so, something older than all that is
\* returned was left out.
NewestKept ==
  /\ outcome = "ok" /\ server =>
       \A m \in Certain : \/ InAnswer(m)
                          \/ /\ Cardinality(Selected) = request.limit
                             /\ \A x \in Selected : x.m > m
  /\ truncated => \E x \in collected : \A y \in answer : Newer(y, x)

\* Only messages of the thread are returned, and none twice under an old and a
\* new id, although it was found in two folders: except the message asked for,
\* which is kept as it was fetched first.
ThreadOnce ==
  \A x \in answer :
    /\ kin[x.m] = "thread"
    /\ \A y \in answer : x.m = y.m => x = y \/ IsAnchor(x)

-----------------------------------------------------------------------------
(***************************************************************************)
(* The inductive invariant: of a folder that was searched, a message that  *)
(* has not been touched is collected, or as many newer ones are as the     *)
(* limit allows.                                                           *)
(***************************************************************************)
ThreadTyped ==
  /\ place \in [Messages -> Folders \cup {None}]
  /\ version \in [Messages -> Nat]
  /\ request \in [anchor : Messages \cup {None}, folders : FolderLists,
                  limit : Limits, subject : BOOLEAN]
  /\ request.anchor # None => kin[request.anchor] = "thread"
  /\ phase \in {"anchor", "folders", "done"}
  /\ todo \in Seq(Folders)
  /\ collected \subseteq Items /\ IsFiniteSet(collected)
  /\ answer \subseteq collected
  /\ Cardinality(answer) <= request.limit
  /\ truncated \in BOOLEAN
  /\ outcome \in {"none", "ok", "error"}
  /\ stayed \subseteq Messages

\* The folders are searched in turn.
FoldersInTurn ==
  /\ Len(todo) <= Len(request.folders)
  /\ \A k \in 1..Len(todo) :
       todo[k] = request.folders[(Len(request.folders) - Len(todo)) + k]

Searched == {request.folders[k] : k \in 1..(Len(request.folders) - Len(todo))}

CollectedTrue ==
  \A x \in collected : kin[x.m] = "thread" /\ x.id <= version[x.m]

\* The message m is collected under its first id, or has lost to newer ones.
Accounted(m) ==
  \/ [m |-> m, id |-> 0] \in collected
  \/ Cardinality({y \in collected : y.m > m}) >= request.limit

StayedAccounted ==
  \A m \in stayed :
    /\ version[m] = 0
    /\ server /\ kin[m] = "thread" /\ place[m] \in Searched => Accounted(m)

ThreadIInv ==
  /\ ThreadTyped
  /\ FoldersInTurn
  /\ CollectedTrue
  /\ StayedAccounted
  /\ phase = "anchor" => request.anchor # None /\ collected = {}
  /\ phase # "done" => outcome = "none" /\ answer = {} /\ truncated = FALSE
  /\ NewestKept
  /\ ThreadOnce
=============================================================================
