-------------------------- MODULE MCThreadAssembly --------------------------
(* Model-checking instance of ThreadAssembly: three messages, two folders,   *)
(* listed in one order, or one of them listed twice.                         *)
EXTENDS ThreadAssembly

BothOrOneTwice == {<<"inbox", "sent">>, <<"inbox", "inbox">>}

\* "More messages exist than `limit`" (models.py): a thread from which a message
\* that was there all along is missing says that it is truncated.
TruncationTold ==
  outcome = "ok" /\ (\E m \in Certain : ~InAnswer(m)) => truncated
=============================================================================
