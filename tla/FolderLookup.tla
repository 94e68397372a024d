---------------------------- MODULE FolderLookup ----------------------------
(***************************************************************************)
(* _resolve_folder (exchange_client/base.py), by which tools find the      *)
(* folder a caller names, and the tools that create, rename, delete and    *)
(* fill folders (exchange_client/email.py).                                *)
(*                                                                         *)
(* A folder is the sequence of names that leads to it from the root.  Most *)
(* folders lie below the Top of Information Store, or TOIS.                *)
(*                                                                         *)
(* External: Exchange, whose answer about some folders may fail during a   *)
(* call, and an archive mailbox outside of the tree.                       *)
(***************************************************************************)
EXTENDS Naturals, Sequences, FiniteSets, SequencesExt

CONSTANTS Trees,          \* sets of folders, the root, TOIS and Inbox not named
          Segments,       \* the names of folders
          References,     \* what callers give as a folder
          NewName,        \* the name for a folder created or renamed
          MaxLookups      \* bound on the calls

Root == <<>>
Tois == <<"tois">>
Builtin == [n \in {"inbox"} |-> Tois \o <<n>>]
Distinguished == {Root, Tois} \cup {Builtin[n] : n \in DOMAIN Builtin}

\* byId: whether the caller gives the id of the folder that is there, and an id
\* of nothing if none is, or its name or path.
ASSUME FolderAssumption ==
  /\ {"tois", "archive"} \cup DOMAIN Builtin \subseteq Segments
  /\ \A T \in Trees : \A n \in T :
       n \in Seq(Segments) \ {Root} /\ (Len(n) = 1 \/ Front(n) \in T \cup Distinguished)
  /\ \A r \in References : r.path \in Seq(Segments) /\ r.byId \in BOOLEAN
  /\ NewName \in Segments
  /\ MaxLookups \in Nat \ {0}

VARIABLES
  tree,       \* the folders there are
  archive,    \* whether there is an archive mailbox
  folderTool, \* the tool called
  reference,  \* what it was given
  down,       \* the folders whose children could not be listed
  resolved,   \* "none" yet, "error", "not_found", or the folder found
  acted,      \* whether the call is over
  lookups     \* how many calls there were

folderVars == <<tree, archive, folderTool, reference, down, resolved, acted, lookups>>

FolderTools == {"create_folder", "rename_folder", "delete_folder", "move_email"}

ArchiveMailbox == <<"archive mailbox">>
Nowhere == <<"nowhere">>
At(n) == [status |-> "ok", folder |-> n]
NotFound == [status |-> "not_found", folder |-> Nowhere]
Failed == [status |-> "error", folder |-> Nowhere]
Unresolved == [status |-> "none", folder |-> Nowhere]

-----------------------------------------------------------------------------
\* _walk_child_folders: the folder reached, if any; one that cannot be listed
\* (one of D) has no children.
Walk(D, start, parts) ==
  {n \in {start \o parts} :
     /\ parts # <<>>
     /\ \A k \in 1..Len(parts) :
          /\ start \o SubSeq(parts, 1, k - 1) \notin D
          /\ start \o SubSeq(parts, 1, k) \in tree}

\* The first of the candidates that leads to a folder.
OrElse(found, others) == IF found # {} THEN found ELSE others

\* A name or path starts at TOIS, unless that is not available, or at the root.
FromRootFirst(D, parts) == OrElse(Walk(D, Root, parts), Walk(D, Tois, parts))
FromTops(D, parts) ==
  OrElse(IF Tois \in D THEN {} ELSE Walk(D, Tois, parts), Walk(D, Root, parts))

FindNamed(D, n) == FromTops(D, <<n>>)

ByPath(D, p) ==
  OrElse(IF Head(p) \in DOMAIN Builtin THEN Walk(D, Builtin[Head(p)], Tail(p)) ELSE {},
  OrElse(IF Head(p) = "archive"
         THEN UNION {Walk(D, n, Tail(p)) : n \in FindNamed(D, "archive")} ELSE {},
         FromTops(D, p)))

OrNotFound(found) == IF found = {} THEN NotFound ELSE At(CHOOSE n \in found : TRUE)

\* "archive" is the folder of that name, the archive mailbox, or the root.
Archive(D) ==
  IF FindNamed(D, "archive") # {} THEN OrNotFound(FindNamed(D, "archive"))
  ELSE At(IF archive THEN ArchiveMailbox ELSE Root)

Resolve(D, r) ==
  CASE r.path = Root -> At(Root)
    [] r.byId /\ r.path # Root -> IF r.path \in tree THEN At(r.path) ELSE NotFound
    [] ~r.byId /\ Len(r.path) = 1 /\ r.path[1] \in DOMAIN Builtin ->
         At(Builtin[r.path[1]])
    [] ~r.byId /\ r.path = <<"archive">> -> Archive(D)
    [] OTHER -> OrNotFound(ByPath(D, r.path))

-----------------------------------------------------------------------------
FolderInit ==
  /\ tree \in {T \cup Distinguished : T \in Trees}
  /\ archive \in BOOLEAN
  /\ folderTool \in FolderTools
  /\ reference \in References
  /\ down = {}
  /\ resolved = Unresolved
  /\ acted = FALSE
  /\ lookups = 1

\* A request for one folder that fails as a whole is an error; an id that is
\* refused is "not an id", and no name either.
ResolveFolder ==
  /\ resolved = Unresolved /\ ~acted
  /\ \/ /\ down' \in SUBSET Distinguished
        /\ resolved' = Resolve(down', reference)
     \/ /\ reference.path # Root
        /\ resolved' = Failed
        /\ UNCHANGED down
     \/ /\ reference.byId
        /\ resolved' = NotFound
        /\ UNCHANGED down
  /\ UNCHANGED <<tree, archive, folderTool, reference, acted, lookups>>

Below(n) == {k \in tree : IsPrefix(n, k)}
Renamed(n) == Front(n) \o <<NewName>>

\* What the tool does with the folder it found.  A name that is taken is
\* refused, and so are changes of folders Exchange itself relies on.
Act ==
  LET n == resolved.folder
  IN  CASE folderTool = "create_folder" -> tree' = tree \cup {n \o <<NewName>>}
        [] folderTool = "rename_folder" ->
             /\ n \notin Distinguished /\ Renamed(n) \notin tree
             /\ tree' = (tree \ Below(n)) \cup
                        {Renamed(n) \o SubSeq(k, Len(n) + 1, Len(k)) : k \in Below(n)}
        [] folderTool = "delete_folder" ->
             n \notin Distinguished /\ tree' = tree \ Below(n)
        [] folderTool = "move_email" -> UNCHANGED tree

ActOnFolder ==
  /\ resolved.status = "ok" /\ ~acted
  /\ acted' = TRUE
  /\ (resolved.folder \in tree /\ Act) \/ UNCHANGED tree
  /\ UNCHANGED <<archive, folderTool, reference, down, resolved, lookups>>

NextLookup ==
  /\ acted \/ resolved.status \in {"not_found", "error"}
  /\ lookups < MaxLookups
  /\ lookups' = lookups + 1
  /\ folderTool' \in FolderTools
  /\ reference' \in References
  /\ down' = {}
  /\ resolved' = Unresolved
  /\ acted' = FALSE
  /\ UNCHANGED <<tree, archive>>

FolderNext == ResolveFolder \/ ActOnFolder \/ NextLookup

FolderSpec == FolderInit /\ [][FolderNext]_folderVars

-----------------------------------------------------------------------------
FolderTypeOK ==
  /\ tree \subseteq Seq(Segments) /\ Distinguished \subseteq tree
  /\ \A n \in tree : n \in Distinguished \/ Front(n) \in tree
  /\ archive \in BOOLEAN /\ acted \in BOOLEAN
  /\ folderTool \in FolderTools /\ reference \in References
  /\ down \subseteq Distinguished
  /\ resolved.status \in {"none", "ok", "not_found", "error"}
  /\ resolved.status # "ok" => resolved.folder = Nowhere
  /\ lookups \in 1..MaxLookups

\* The folders a reference can mean, and the one that is meant first.
Meant(r) ==
  {n \in tree : \/ n \in {Tois \o r.path, r.path}
                \/ /\ r.path[1] \in DOMAIN Builtin
                   /\ n = Builtin[r.path[1]] \o Tail(r.path)}

MeantFirst(r) ==
  {n \in Meant(r) :
     IF r.path[1] \in DOMAIN Builtin /\ Builtin[r.path[1]] \o Tail(r.path) \in tree
     THEN n = Builtin[r.path[1]] \o Tail(r.path)
     ELSE Tois \o r.path \in tree => n = Tois \o r.path}

\* What is found is a folder that the reference names, never one that merely
\* could be listed; the one meant first if every folder answers; and "not
\* found" is the answer only if there is none, or one could not be listed.
ResolvedAsNamed ==
  ~acted /\ ~reference.byId /\ reference.path # Root =>
    /\ resolved.status = "ok" /\ reference.path # <<"archive">> =>
         resolved.folder \in Meant(reference)
    /\ resolved.status = "ok" /\ down = {} /\ Meant(reference) # {} =>
         resolved.folder \in MeantFirst(reference)
    /\ resolved.status = "not_found" => Meant(reference) = {} \/ down # {}
=============================================================================
