--------------------------- MODULE MCDraftEditing ---------------------------
(* Model-checking instance of DraftEditing: requests that mention nobody, a  *)
(* recipient or somebody else, on drafts with none, one or two attachments.  *)
EXTENDS DraftEditing

DraftRequest(tool) ==
  [tool |-> tool, to |-> Unset, cc |-> Unset, addTo |-> {}, addCc |-> {},
   body |-> FALSE, mentions |-> {}, files |-> Unset, id |-> 0]

AtMostOne == {{}} \cup {{p} : p \in People}

Somebody == CHOOSE q \in People : TRUE
SomeFile == CHOOSE g \in Files : TRUE

\* People and files are alike, so requests name one of them first.
SomeRequests ==
  {[DraftRequest("create_draft") EXCEPT
      !.to = {Somebody}, !.cc = C, !.body = TRUE, !.mentions = M, !.files = <<SomeFile>>] :
     C \in AtMostOne, M \in AtMostOne}
  \cup
  {[DraftRequest("create_reply_draft") EXCEPT
      !.to = {Somebody}, !.cc = {}, !.addCc = C, !.body = TRUE, !.mentions = M, !.files = F] :
     C \in {{}, People \ {Somebody}}, M \in {{}, People \ {Somebody}}, F \in {<<>>, <<SomeFile>>}}
  \cup
  {[DraftRequest("update_draft") EXCEPT !.body = TRUE, !.mentions = M, !.files = F] :
     M \in AtMostOne, F \in {Unset} \cup {<<g, SomeFile>> : g \in Files}}
  \cup
  {[DraftRequest("update_draft") EXCEPT !.to = {q}, !.cc = C, !.files = F] :
     q \in People, C \in {Unset, {Somebody}}, F \in {Unset, <<>>}}
  \cup {[DraftRequest("add_attachment") EXCEPT !.files = <<SomeFile>>]}
  \cup {[DraftRequest("delete_attachment") EXCEPT !.id = i] : i \in {1, 3}}

\* "Mentions must actually receive the message" (email.py): whoever is notified
\* is a recipient, after any sequence of calls.
MentionedReceive ==
  verdict = "ok" /\ touched = "never" => draft.header \subseteq draft.to \cup draft.cc
=============================================================================
