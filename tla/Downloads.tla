----------------------------- MODULE Downloads ------------------------------
(***************************************************************************)
(* get_attachment and get_email_mime (exchange_client/email.py): several   *)
(* downloads at once, of files that all have the same name, into one       *)
(* directory that other programs use too.                                  *)
(*                                                                         *)
(* Sizes are counted in chunks.  The n-th candidate of _create_new_file is *)
(* the name with the suffix -n.                                            *)
(*                                                                         *)
(* External: Exchange, which may state a size that is not the real one and *)
(* break off a stream, and the file system.                                *)
(***************************************************************************)
EXTENDS Naturals, FiniteSets

CONSTANTS Downloaders,   \* the calls
          Sizes,         \* of what they ask for
          MaxSize,       \* EXCHANGE_ATTACHMENT_MAX_SIZE_MB, or that of a message
          LastName,      \* bound on the candidate names
          MaxVisits,     \* bound on what other programs do
          Nobody,        \* a name that is free
          Others         \* who has the file of that name: another program

ASSUME DownloadAssumption ==
  /\ Sizes \subseteq Nat /\ MaxSize \in Nat /\ LastName \in Nat /\ MaxVisits \in Nat
  /\ Nobody \notin Downloaders /\ Others \notin Downloaders /\ Nobody # Others

Names == 0..LastName

VARIABLES
  entry,     \* who made the file of a name
  wanted,    \* per call: the tool, and the real and the declared size
  step,      \* "fetch", "create", "stream", "undo", "content"; "ok", "error"
             \* or "dead"
  name,      \* the candidate a call is at, then the name of its file
  written,   \* how many chunks it has
  theirs,    \* history: names other programs have files at
  disturbed, \* history: names they removed a call's file from
  visits     \* how often they did anything

downloadVars == <<entry, wanted, step, name, written, theirs, disturbed, visits>>

Wants == [tool : {"attachment", "item_attachment", "mime"}, size : Sizes, declared : Sizes]

-----------------------------------------------------------------------------
WithinDeclared(c) == wanted[c].declared <= MaxSize
Within(c, n) == n <= MaxSize

DownloadInit ==
  /\ theirs \in SUBSET Names
  /\ entry = [n \in Names |-> IF n \in theirs THEN Others ELSE Nobody]
  /\ wanted \in [Downloaders -> Wants]
  /\ step = [c \in Downloaders |-> "fetch"]
  /\ name = [c \in Downloaders |-> 0]
  /\ written = [c \in Downloaders |-> 0]
  /\ disturbed = {}
  /\ visits = 0

Go(c, s) == step' = [step EXCEPT ![c] = s]

\* The item and what it says of sizes; or it, or the directory, is not there.
FetchSize(c) ==
  /\ step[c] = "fetch"
  /\ \/ /\ WithinDeclared(c) /\ wanted[c].tool # "item_attachment"
        /\ Go(c, IF wanted[c].tool = "mime" THEN "content" ELSE "create")
     \/ Go(c, "error")
  /\ UNCHANGED <<entry, wanted, name, written, theirs, disturbed, visits>>

\* get_email_mime asks a second time and judges what it got.
FetchContent(c) ==
  /\ step[c] = "content"
  /\ \/ /\ Within(c, wanted[c].size)
        /\ Go(c, "ok")
        /\ written' = [written EXCEPT ![c] = wanted[c].size]
     \/ Go(c, "error") /\ UNCHANGED written
  /\ UNCHANGED <<entry, wanted, name, theirs, disturbed, visits>>

\* One turn of _create_new_file: O_EXCL makes the file or finds the name taken,
\* or the directory does not let it.
FreeOrOthers(n) == entry[n] \in {Nobody, Others}
Free(n) == entry[n] = Nobody

TryName(c) ==
  /\ step[c] = "create"
  /\ \/ /\ Free(name[c])
        /\ entry' = [entry EXCEPT ![name[c]] = c]
        /\ Go(c, "stream")
        /\ UNCHANGED name
     \/ /\ ~Free(name[c]) /\ name[c] < LastName
        /\ name' = [name EXCEPT ![c] = @ + 1]
        /\ UNCHANGED <<entry, step>>
     \/ Go(c, "error") /\ UNCHANGED <<entry, name>>
  /\ UNCHANGED <<wanted, written, theirs, disturbed, visits>>

\* One turn of _save_attachment: the stream ends, or another chunk is judged and
\* written, or reading or writing fails.
StreamEnds(c) == written[c] = wanted[c].size

Stream(c) ==
  /\ step[c] = "stream"
  /\ \/ StreamEnds(c) /\ Go(c, "ok") /\ UNCHANGED written
     \/ /\ ~StreamEnds(c) /\ Within(c, written[c] + 1)
        /\ written' = [written EXCEPT ![c] = @ + 1]
        /\ UNCHANGED step
     \/ Go(c, "undo") /\ UNCHANGED written
  /\ UNCHANGED <<entry, wanted, name, theirs, disturbed, visits>>

\* The file is removed by its name, and the error raised; if the name is gone
\* that raises.
LeftAlone(c) == entry
Unlinked(c) == [entry EXCEPT ![name[c]] = Nobody]

Undo(c) ==
  /\ step[c] = "undo"
  /\ entry' = Unlinked(c)
  /\ Go(c, "error")
  /\ UNCHANGED <<wanted, name, written, theirs, disturbed, visits>>

\* The process ends.
Die ==
  /\ \E c \in Downloaders : step[c] \notin {"ok", "error", "dead"}
  /\ step' = [c \in Downloaders |-> IF step[c] \in {"ok", "error"} THEN step[c] ELSE "dead"]
  /\ UNCHANGED <<entry, wanted, name, written, theirs, disturbed, visits>>

\* Another program makes a file, or removes one.
Visit(n) ==
  /\ visits < MaxVisits
  /\ visits' = visits + 1
  /\ \/ /\ entry[n] = Nobody
        /\ entry' = [entry EXCEPT ![n] = Others]
        /\ theirs' = theirs \cup {n}
        /\ UNCHANGED disturbed
     \/ /\ entry[n] # Nobody
        /\ entry' = [entry EXCEPT ![n] = Nobody]
        /\ theirs' = theirs \ {n}
        /\ disturbed' = IF entry[n] = Others THEN disturbed ELSE disturbed \cup {n}
  /\ UNCHANGED <<wanted, step, name, written>>

DownloadNext ==
  \/ \E c \in Downloaders :
       FetchSize(c) \/ FetchContent(c) \/ TryName(c) \/ Stream(c) \/ Undo(c)
  \/ Die
  \/ \E n \in Names : Visit(n)

DownloadSpec == DownloadInit /\ [][DownloadNext]_downloadVars

-----------------------------------------------------------------------------
DownloadTypeOK ==
  /\ entry \in [Names -> Downloaders \cup {Nobody, Others}]
  /\ step \in [Downloaders -> {"fetch", "create", "stream", "undo", "content",
                               "ok", "error", "dead"}]
  /\ name \in [Downloaders -> Names] /\ written \in [Downloaders -> Nat]
  /\ theirs \subseteq Names /\ disturbed \subseteq Names

\* A download that succeeds has the whole of what was asked for, within the
\* limit whatever size was declared, in a file that is its own; one that fails
\* leaves no file: "the partial file discarded by the caller".  Only a process
\* that ends leaves one.
SavedIsWhole ==
  \A c \in Downloaders :
    LET mine == \E n \in Names : entry[n] = c
    IN  /\ step[c] = "ok" => /\ written[c] = wanted[c].size /\ written[c] <= MaxSize
                             /\ \/ wanted[c].tool = "mime"
                                \/ entry[name[c]] = c \/ name[c] \in disturbed
        /\ mine => step[c] \in {"stream", "undo", "ok", "dead"}
        /\ written[c] <= MaxSize

\* Whatever several downloads and other programs do at once, no file of anybody
\* else is overwritten or removed, unless somebody replaced the very file that
\* a download was writing.
OthersFilesKept ==
  /\ \A n \in theirs \ disturbed : entry[n] = Others
  /\ \A c \in Downloaders :
       step[c] \in {"stream", "undo"} => entry[name[c]] = c \/ name[c] \in disturbed

-----------------------------------------------------------------------------
(***************************************************************************)
(* The inductive invariant, in parts.                                      *)
(***************************************************************************)
Typed ==
  /\ DownloadTypeOK
  /\ wanted \in [Downloaders -> Wants]

\* A file that a call made has the name the call is at, and is not given up.
OwnedInv ==
  \A c \in Downloaders, n \in Names :
    entry[n] = c => name[c] = n /\ step[c] \in {"stream", "undo", "ok", "dead"}

\* A call that writes, or has written, a file has it, unless it was removed.
InHandInv ==
  \A c \in Downloaders :
    \/ step[c] \in {"stream", "undo"}
    \/ step[c] = "ok" /\ wanted[c].tool # "mime"
    => entry[name[c]] = c \/ name[c] \in disturbed

\* What was read is within the limit, and all of it after a success.
ReadInv ==
  \A c \in Downloaders :
    /\ written[c] <= MaxSize
    /\ step[c] = "ok" => written[c] = wanted[c].size
    /\ step[c] = "content" => wanted[c].tool = "mime"

TheirsInv == \A n \in theirs \ disturbed : entry[n] = Others

DownloadIInv == Typed /\ OwnedInv /\ InHandInv /\ ReadInv /\ TheirsInv
=============================================================================
