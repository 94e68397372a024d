--------------------------- MODULE MCMailboxTools ---------------------------
(* Model-checking instance of the tools that work on mail, contacts, rules   *)
(* and files: a behaviour is a series of calls of one group of tools, and    *)
(* the other groups' variables stay as they are.                             *)
EXTENDS MCDraftEditing, MCThreadAssembly, MCFolderLookup, ItemActions, Downloads

VARIABLE group

vars == <<group, draftVars, threadVars, folderVars, actionVars, downloadVars>>

ActionRequest(tool) ==
  [tool |-> tool, ids |-> <<1>>, x |-> Missing, y |-> Missing, due |-> FALSE,
   mode |-> "set", tags |-> {}, foreign |-> FALSE]

SomeActions ==
  {[ActionRequest("mark") EXCEPT !.ids = <<1, 2>>, !.x = v, !.due = d] :
     v \in {Missing, 1}, d \in BOOLEAN}
  \cup
  {[ActionRequest("categorize") EXCEPT !.ids = <<2, 1>>, !.mode = m, !.tags = {t}] :
     m \in {"set", "add", "remove"}, t \in Tags}
  \cup
  {[ActionRequest(t) EXCEPT !.x = v] : t \in {"update_contact", "update_rule"},
                                      v \in {Missing, 1}}
  \cup {[ActionRequest("set_oof") EXCEPT !.x = 1, !.y = 1]}
  \cup {ActionRequest(t) : t \in {"delete_rule", "move", "copy"}}
  \cup {[ActionRequest("delete") EXCEPT !.ids = s] : s \in {<<1>>, <<1, 2>>}}
  \cup {[ActionRequest(t) EXCEPT !.ids = s] : t \in Batched, s \in {<<1, 2>>, <<1, 1>>}}
  \cup {[ActionRequest("bulk_move") EXCEPT !.ids = <<1, 2>>, !.foreign = TRUE]}

OneTag == {{CHOOSE t \in Tags : TRUE}}

-----------------------------------------------------------------------------
DraftIdle ==
  /\ draft = NoDraft /\ fetched = NoDraft /\ before = NoDraft
  /\ nextId = 0
  /\ call = DraftRequest("delete_attachment") /\ jobs = <<>> /\ verdict = "idle"
  /\ touched = "never" /\ calls = 0 /\ edits = 0

ThreadIdle ==
  /\ place = [m \in Messages |-> None] /\ version = [m \in Messages |-> 0]
  /\ kin = [m \in Messages |-> "thread"] /\ server = TRUE
  /\ request = [anchor |-> None, folders |-> <<>>, limit |-> 1, subject |-> TRUE]
  /\ phase = "done" /\ todo = <<>> /\ collected = {} /\ answer = {}
  /\ truncated = FALSE /\ outcome = "none" /\ stayed = {} /\ changes = 0

FolderIdle ==
  /\ tree = Distinguished /\ archive = FALSE /\ down = {}
  /\ folderTool = "create_folder" /\ reference = [path |-> <<>>, byId |-> FALSE]
  /\ resolved = Unresolved /\ acted = TRUE /\ lookups = 0

ActionIdle ==
  /\ objects = [i \in Objects |-> Blank] /\ twin = objects
  /\ action = ActionRequest("delete") /\ pending = <<>> /\ held = <<>>
  /\ answers = <<>> /\ carried = <<>> /\ verdicts = <<>> /\ ended = "none"
  /\ edited = [i \in Objects |-> {}] /\ raced = edited /\ actions = 0 /\ ownerEdits = 0

DownloadIdle ==
  /\ entry = [n \in Names |-> Nobody] /\ theirs = {} /\ disturbed = {}
  /\ wanted = [c \in Downloaders |-> [tool |-> "mime", size |-> 1, declared |-> 1]]
  /\ step = [c \in Downloaders |-> "fetch"]
  /\ name = [c \in Downloaders |-> 0] /\ written = [c \in Downloaders |-> 0]
  /\ visits = 0

Init ==
  \/ /\ group = "drafts" /\ DraftInit
     /\ ThreadIdle /\ FolderIdle /\ ActionIdle /\ DownloadIdle
  \/ /\ group = "threads" /\ ThreadInit
     /\ DraftIdle /\ FolderIdle /\ ActionIdle /\ DownloadIdle
  \/ /\ group = "folders" /\ FolderInit
     /\ DraftIdle /\ ThreadIdle /\ ActionIdle /\ DownloadIdle
  \/ /\ group = "actions" /\ ActionInit
     /\ DraftIdle /\ ThreadIdle /\ FolderIdle /\ DownloadIdle
  \/ /\ group = "downloads" /\ DownloadInit
     /\ DraftIdle /\ ThreadIdle /\ FolderIdle /\ ActionIdle

Next ==
  /\ UNCHANGED group
  /\ \/ /\ group = "drafts" /\ DraftNext
        /\ UNCHANGED <<threadVars, folderVars, actionVars, downloadVars>>
     \/ /\ group = "threads" /\ ThreadNext
        /\ UNCHANGED <<draftVars, folderVars, actionVars, downloadVars>>
     \/ /\ group = "folders" /\ FolderNext
        /\ UNCHANGED <<draftVars, threadVars, actionVars, downloadVars>>
     \/ /\ group = "actions" /\ ActionNext
        /\ UNCHANGED <<draftVars, threadVars, folderVars, downloadVars>>
     \/ /\ group = "downloads" /\ DownloadNext
        /\ UNCHANGED <<draftVars, threadVars, folderVars, actionVars>>

Spec == Init /\ [][Next]_vars

\* Types and ranges of the group of tools at work.
TypeOK ==
  CASE group = "drafts"    -> DraftTypeOK
    [] group = "threads"   -> ThreadTypeOK
    [] group = "folders"   -> FolderTypeOK
    [] group = "actions"   -> ActionTypeOK
    [] group = "downloads" -> DownloadTypeOK
=============================================================================
