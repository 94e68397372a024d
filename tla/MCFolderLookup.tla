--------------------------- MODULE MCFolderLookup ---------------------------
(* Model-checking instance of FolderLookup: folders called archive and work  *)
(* below TOIS, the root or Inbox.                                            *)
EXTENDS FolderLookup

SomeTrees ==
  {T \in SUBSET {<<"archive">>, <<"work">>, <<"tois", "archive">>, <<"tois", "work">>,
                 <<"tois", "inbox", "work">>, <<"tois", "archive", "work">>} :
     <<"tois", "archive", "work">> \in T => <<"tois", "archive">> \in T}

SomeReferences ==
  {[path |-> p, byId |-> FALSE] :
     p \in {<<>>, <<"inbox">>, <<"archive">>, <<"work">>, <<"inbox", "work">>,
            <<"archive", "work">>}}
  \cup {[path |-> <<"tois", "work">>, byId |-> TRUE]}

\* "Prefer the named folder, fall back to the archive mailbox only when no such
\* folder exists" (base.py): "archive" is something else than a folder of that
\* name only if there is none.
ArchivePreferred ==
  /\ reference = [path |-> <<"archive">>, byId |-> FALSE]
  /\ resolved.status = "ok" /\ ~acted
  /\ Meant(reference) # {}
  => resolved.folder \in Meant(reference)
=============================================================================
