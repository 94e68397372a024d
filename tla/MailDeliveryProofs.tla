------------------------- MODULE MailDeliveryProofs --------------------------
(***************************************************************************)
(* The invariants of MailDelivery, for any number of calls, any timeouts   *)
(* and any amount of meddling.                                             *)
(***************************************************************************)
EXTENDS MailDelivery, TLAPS

LEMMA PlanTable ==
  /\ Plan("draft") = <<"fetch", "stamp", "send", "poll">>
  /\ Plan("mention") =
       <<"save", "fetch_own", "header", "fetch", "stamp", "send", "poll">>
  /\ Plan("mention_files") =
       <<"save", "fetch_own", "header", "attach", "fetch", "stamp", "send", "poll">>
  /\ Plan("attach") = <<"save", "fetch_own", "attach", "send">>
  /\ Plan("direct") = <<"create">>
  <1>1. Plan("draft") = <<"fetch", "stamp", "send", "poll">>
    BY DEF Plan
  <1>2. Plan("mention") =
       <<"save", "fetch_own", "header", "fetch", "stamp", "send", "poll">>
    BY DEF Plan
  <1>3. Plan("mention_files") =
       <<"save", "fetch_own", "header", "attach", "fetch", "stamp", "send", "poll">>
    BY DEF Plan
  <1>4. Plan("attach") = <<"save", "fetch_own", "attach", "send">>
    BY DEF Plan
  <1>5. Plan("direct") = <<"create">>
    BY DEF Plan
  <1> QED
    BY <1>1, <1>2, <1>3, <1>4, <1>5

\* What the order of a plan's requests comes to.
LEMMA PlanFacts ==
  ASSUME NEW k \in Kinds, NEW i \in 1..Len(Plan(k))
  PROVE  /\ Len(Plan(k)) \in Nat
         /\ Plan(k)[i] \in {"save", "create", "header", "attach", "stamp", "send",
                            "fetch", "fetch_own", "poll"}
         /\ Plan(k)[i] = "save" => k # "draft"
         /\ Plan(k)[i] = "create" => k = "direct"
         /\ Plan(k)[i] \in {"stamp", "fetch", "poll"} => k \in Stamped
         /\ Plan(k)[i] = "send" => k # "direct"
         /\ Plan(k)[i] = "fetch" => i < Len(Plan(k)) /\ Plan(k)[i + 1] = "stamp"
         /\ Plan(k)[i] = "fetch_own" => i < Len(Plan(k))
         /\ i < Len(Plan(k)) /\ Plan(k)[i + 1] = "stamp" => Plan(k)[i] = "fetch"
         /\ i < Len(Plan(k)) /\ Plan(k)[i + 1] = "send" /\ k \in Stamped
              => Plan(k)[i] = "stamp"
         /\ Plan(k)[i] = "send" /\ i < Len(Plan(k)) => Plan(k)[i + 1] = "poll"
         /\ i < Len(Plan(k)) /\ Plan(k)[i + 1] = "poll" => Plan(k)[i] = "send"
         /\ i = Len(Plan(k)) => IF k \in Stamped THEN Plan(k)[i] = "poll"
                                ELSE Plan(k)[i] \in {"send", "create"}
  <1>1. CASE k = "draft"
    <2>1. Len(Plan(k)) = 4
      BY <1>1, PlanTable
    <2>2. /\ Plan(k)[1] = "fetch" /\ Plan(k)[2] = "stamp"
          /\ Plan(k)[3] = "send" /\ Plan(k)[4] = "poll"
      BY <1>1, PlanTable
    <2>3. k \in Stamped
      BY <1>1 DEF Stamped, Replies
    <2>4. CASE i = 1
      BY <1>1, <2>1, <2>2, <2>3, <2>4
    <2>5. CASE i = 2
      BY <1>1, <2>1, <2>2, <2>3, <2>5
    <2>6. CASE i = 3
      BY <1>1, <2>1, <2>2, <2>3, <2>6
    <2>7. CASE i = 4
      BY <1>1, <2>1, <2>2, <2>3, <2>7
    <2> QED
      BY <2>1, <2>4, <2>5, <2>6, <2>7
  <1>2. CASE k = "mention"
    <2>1. Len(Plan(k)) = 7
      BY <1>2, PlanTable
    <2>2. /\ Plan(k)[1] = "save" /\ Plan(k)[2] = "fetch_own"
          /\ Plan(k)[3] = "header" /\ Plan(k)[4] = "fetch"
          /\ Plan(k)[5] = "stamp" /\ Plan(k)[6] = "send"
          /\ Plan(k)[7] = "poll"
      BY <1>2, PlanTable
    <2>3. k \in Stamped
      BY <1>2 DEF Stamped, Replies
    <2>4. CASE i = 1
      BY <1>2, <2>1, <2>2, <2>3, <2>4, SMTT(30)
    <2>5. CASE i = 2
      BY <1>2, <2>1, <2>2, <2>3, <2>5, SMTT(30)
    <2>6. CASE i = 3
      BY <1>2, <2>1, <2>2, <2>3, <2>6, SMTT(30)
    <2>7. CASE i = 4
      BY <1>2, <2>1, <2>2, <2>3, <2>7, SMTT(30)
    <2>8. CASE i = 5
      BY <1>2, <2>1, <2>2, <2>3, <2>8, SMTT(30)
    <2>9. CASE i = 6
      BY <1>2, <2>1, <2>2, <2>3, <2>9, SMTT(30)
    <2>10. CASE i = 7
      BY <1>2, <2>1, <2>2, <2>3, <2>10, SMTT(30)
    <2> QED
      BY <2>1, <2>4, <2>5, <2>6, <2>7, <2>8, <2>9, <2>10
  <1>3. CASE k = "mention_files"
    <2>1. Len(Plan(k)) = 8
      BY <1>3, PlanTable
    <2>2. /\ Plan(k)[1] = "save" /\ Plan(k)[2] = "fetch_own"
          /\ Plan(k)[3] = "header" /\ Plan(k)[4] = "attach"
          /\ Plan(k)[5] = "fetch" /\ Plan(k)[6] = "stamp"
          /\ Plan(k)[7] = "send" /\ Plan(k)[8] = "poll"
      BY <1>3, PlanTable
    <2>3. k \in Stamped
      BY <1>3 DEF Stamped, Replies
    <2>4. CASE i = 1
      BY <1>3, <2>1, <2>2, <2>3, <2>4, SMTT(30)
    <2>5. CASE i = 2
      BY <1>3, <2>1, <2>2, <2>3, <2>5, SMTT(30)
    <2>6. CASE i = 3
      BY <1>3, <2>1, <2>2, <2>3, <2>6, SMTT(30)
    <2>7. CASE i = 4
      BY <1>3, <2>1, <2>2, <2>3, <2>7, SMTT(30)
    <2>8. CASE i = 5
      BY <1>3, <2>1, <2>2, <2>3, <2>8, SMTT(30)
    <2>9. CASE i = 6
      BY <1>3, <2>1, <2>2, <2>3, <2>9, SMTT(30)
    <2>10. CASE i = 7
      BY <1>3, <2>1, <2>2, <2>3, <2>10, SMTT(30)
    <2>11. CASE i = 8
      BY <1>3, <2>1, <2>2, <2>3, <2>11, SMTT(30)
    <2> QED
      BY <2>1, <2>4, <2>5, <2>6, <2>7, <2>8, <2>9, <2>10, <2>11
  <1>4. CASE k = "attach"
    <2>1. Len(Plan(k)) = 4
      BY <1>4, PlanTable
    <2>2. /\ Plan(k)[1] = "save" /\ Plan(k)[2] = "fetch_own"
          /\ Plan(k)[3] = "attach" /\ Plan(k)[4] = "send"
      BY <1>4, PlanTable
    <2>3. k \notin Stamped
      BY <1>4 DEF Stamped, Replies
    <2>4. CASE i = 1
      BY <1>4, <2>1, <2>2, <2>3, <2>4
    <2>5. CASE i = 2
      BY <1>4, <2>1, <2>2, <2>3, <2>5
    <2>6. CASE i = 3
      BY <1>4, <2>1, <2>2, <2>3, <2>6
    <2>7. CASE i = 4
      BY <1>4, <2>1, <2>2, <2>3, <2>7
    <2> QED
      BY <2>1, <2>4, <2>5, <2>6, <2>7
  <1>5. CASE k = "direct"
    <2>1. Len(Plan(k)) = 1
      BY <1>5, PlanTable
    <2>2. /\ Plan(k)[1] = "create"
      BY <1>5, PlanTable
    <2>3. k \notin Stamped
      BY <1>5 DEF Stamped, Replies
    <2>4. CASE i = 1
      BY <1>5, <2>1, <2>2, <2>3, <2>4
    <2> QED
      BY <2>1, <2>4
  <1> QED
    BY <1>1, <1>2, <1>3, <1>4, <1>5 DEF Kinds

LEMMA PlanStart ==
  ASSUME NEW k \in Kinds
  PROVE  /\ 1 \in 1..Len(Plan(k))
         /\ Plan(k)[1] \in {"fetch", "save", "create"}
  BY PlanTable DEF Kinds


Next1(c, name) == step[c] < Len(Plan(kind[c])) /\ Plan(kind[c])[step[c] + 1] = name

\* The same of a call that runs.
LEMMA AtFacts ==
  ASSUME Typed, NEW c \in Calls, CallOK(c), Running(c)
  PROVE  /\ kind[c] \in Kinds /\ kind[c] # None
         /\ step[c] \in 1..Len(Plan(kind[c])) /\ Len(Plan(kind[c])) \in Nat
         /\ Plan(kind[c])[step[c]] \in {"save", "create", "header", "attach", "stamp",
                                        "send", "fetch", "fetch_own", "poll"}
         /\ At(c, "save") => kind[c] # "draft"
         /\ At(c, "create") => kind[c] = "direct"
         /\ At(c, "stamp") \/ At(c, "fetch") \/ At(c, "poll") => kind[c] \in Stamped
         /\ At(c, "send") => kind[c] # "direct"
         /\ At(c, "fetch") => Next1(c, "stamp")
         /\ At(c, "fetch_own") => step[c] < Len(Plan(kind[c]))
         /\ Next1(c, "stamp") => At(c, "fetch")
         /\ Next1(c, "send") /\ kind[c] \in Stamped => At(c, "stamp")
         /\ At(c, "send") /\ step[c] < Len(Plan(kind[c])) => Next1(c, "poll")
         /\ Next1(c, "poll") => At(c, "send")
         /\ step[c] = Len(Plan(kind[c])) =>
              IF kind[c] \in Stamped THEN At(c, "poll")
                                     ELSE At(c, "send") \/ At(c, "create")
  <1>1. kind[c] \in Kinds /\ step[c] \in 1..Len(Plan(kind[c])) /\ kind[c] # None
    BY DeliveryAssumption DEF Typed, CallOK, Kinds
  <1> QED
    BY <1>1, PlanFacts DEF At, Next1

-----------------------------------------------------------------------------
(***************************************************************************)
(* What a request may do to a message, and why the rest stands it.         *)
(***************************************************************************)
Evolves(m) ==
  /\ msg[m].id <= msg'[m].id /\ msg[m].key <= msg'[m].key
  /\ msg'[m].id = msg[m].id /\ msg'[m].key = msg[m].key
       => msg'[m].stamp = msg[m].stamp
  /\ msg'[m].id = msg[m].id /\ msg[m].draft /\ ~msg'[m].draft
       => msg[m].where = "none" /\ m \in Calls /\ kind[m] = "direct"
  /\ msg[m].where # "none" => msg'[m].where # "none"
  /\ msg[m].where = "none" /\ msg'[m].where # "none"
       => m \in Calls /\ kind[m] # None

MessagesTyped ==
  /\ msg \in [Messages -> Versions]
  /\ sentBy \in [Messages -> {<<>>} \cup {<<x>> : x \in Calls \cup {User}}]

\* A request that was good before a message changed is good after it.
LEMMA RequestKept ==
  ASSUME Typed, MessagesTyped', CallInv, NEW r \in Requests, RequestOK(r),
         \A m \in Messages : Evolves(m),
         UNCHANGED <<kind, target>>
  PROVE  RequestOK(r)'
  <1>1. /\ r.on \in Messages /\ r.call \in Calls /\ r.id \in Nat /\ r.key \in Nat
        /\ Evolves(r.on) /\ CallOK(r.call)
    BY DEF Requests, CallInv
  <1>2. /\ msg[r.on].id \in Nat /\ msg'[r.on].id \in Nat
        /\ msg[r.on].key \in Nat /\ msg'[r.on].key \in Nat
        /\ msg[r.on].draft \in BOOLEAN /\ msg'[r.on].draft \in BOOLEAN
    BY <1>1 DEF Typed, MessagesTyped, Versions
  <1>3. r.id <= msg'[r.on].id /\ r.key <= msg'[r.on].key
    BY <1>1, <1>2 DEF Evolves, RequestOK
  <1>4. msg'[r.on].id = r.id => msg[r.on].id = r.id
    BY <1>1, <1>2 DEF Evolves, RequestOK
  <1>5. msg'[r.on].id = r.id /\ msg'[r.on].key = r.key
          => msg[r.on].key = r.key /\ msg'[r.on].stamp = msg[r.on].stamp
    BY <1>1, <1>2, <1>4 DEF Evolves, RequestOK
  <1>6. r.op \in {"stamp", "send"} => StillDraft(r.on, r.id)'
    <2> SUFFICES ASSUME r.op \in {"stamp", "send"}, msg'[r.on].id = r.id
                 PROVE  msg'[r.on].draft
      BY DEF StillDraft
    <2>1. msg[r.on].draft /\ msg[r.on].id = r.id
      BY <1>4 DEF RequestOK, StillDraft
    <2>2. ~(msg[r.on].where = "none" /\ r.on \in Calls /\ kind[r.on] = "direct")
      BY <1>1 DEF RequestOK, CallOK
    <2> QED
      BY <1>1, <2>1, <2>2 DEF Evolves
  <1> QED
    BY <1>1, <1>3, <1>4, <1>5, <1>6 DEF RequestOK

\* A message that was still a draft if it was still there is so after it changed.
LEMMA DraftKept ==
  ASSUME Typed, MessagesTyped', CallInv, NEW c \in Calls, NEW m \in Messages,
         m = target[c], kind[c] # None, kind[c] # "direct",
         Evolves(m), NEW id \in Nat, id <= msg[m].id, StillDraft(m, id)
  PROVE  msg'[m].id = id => msg'[m].draft
  <1> SUFFICES ASSUME msg'[m].id = id PROVE msg'[m].draft
    OBVIOUS
  <1>1. CallOK(c) /\ msg[m].id \in Nat /\ msg'[m].id \in Nat
    BY DEF CallInv, Typed, MessagesTyped, Versions
  <1>2. msg[m].id = id /\ msg[m].draft
    BY <1>1 DEF Evolves, StillDraft
  <1>3. ~(msg[m].where = "none" /\ m \in Calls /\ kind[m] = "direct")
    BY <1>1 DEF CallOK
  <1> QED
    BY <1>2, <1>3 DEF Evolves

\* And so is a call that does nothing meanwhile.
LEMMA CallKept ==
  ASSUME Typed, MessagesTyped', CallInv, NEW c \in Calls,
         \A m \in Messages : Evolves(m),
         UNCHANGED <<kind, target>>,
         step'[c] = step[c], item'[c] = item[c], answer'[c] = answer[c]
  PROVE  CallOK(c)'
  <1> DEFINE m == target[c]
  <1>1. /\ m \in Messages /\ c \in Messages /\ CallOK(c)
        /\ item[c].id \in Nat /\ item[c].key \in Nat
        /\ Evolves(m) /\ Evolves(c)
    BY DEF CallInv, Typed, Messages
  <1>2. /\ msg[m].id \in Nat /\ msg'[m].id \in Nat
        /\ msg[m].key \in Nat /\ msg'[m].key \in Nat
    BY <1>1 DEF Typed, MessagesTyped, Versions
  <1>3. Running(c) => /\ item[c].id <= msg'[m].id /\ item[c].key <= msg'[m].key
                      /\ msg'[m].id = item[c].id => msg[m].id = item[c].id
                      /\ msg'[m].id = item[c].id /\ msg'[m].key = item[c].key
                           => /\ msg[m].key = item[c].key
                              /\ msg'[m].stamp = msg[m].stamp
    <2>1. Running(c) => item[c].id <= msg[m].id /\ item[c].key <= msg[m].key
      BY <1>1 DEF CallOK
    <2>2. /\ msg[m].id <= msg'[m].id /\ msg[m].key <= msg'[m].key
          /\ msg'[m].id = msg[m].id /\ msg'[m].key = msg[m].key
               => msg'[m].stamp = msg[m].stamp
      BY <1>1 DEF Evolves
    <2> QED
      BY <1>1, <1>2, <2>1, <2>2
  <1>4. ASSUME Aims(c) PROVE msg'[m].id = item[c].id => msg'[m].draft
    <2>1. Running(c) /\ kind[c] # "direct" /\ kind[c] # None
      BY <1>1, <1>4, AtFacts DEF Aims, Stamped, Replies, At
    <2> QED
      BY <1>1, <1>4, <2>1, DraftKept DEF CallOK
  <1>5. kind[c] = None => msg'[c].where = "none"
    BY <1>1 DEF CallOK, Evolves, Typed, MessagesTyped, Versions
  <1>6. kind[c] = "draft" => msg'[m].where # "none"
    BY <1>1 DEF CallOK, Evolves
  <1>7. (Running(c)' <=> Running(c)) /\ (Aims(c)' <=> Aims(c))
        /\ (At(c, "send")' <=> At(c, "send"))
    BY DEF Running, Aims, At
  <1>8. Aims(c)' => StillDraft(m, item[c].id)'
    BY <1>4, <1>7 DEF StillDraft
  <1> QED
    BY <1>1, <1>3, <1>5, <1>6, <1>7, <1>8 DEF CallOK, Running, At, StillDraft

LEMMA NoneOrOne == \A x, y : <<x>> # <<>> /\ (<<x>> = <<y>> => x = y)
  OBVIOUS

LEMMA FieldsTyped ==
  ASSUME NEW v \in Versions
  PROVE  /\ [v EXCEPT !.draft = FALSE] \in Versions
         /\ [v EXCEPT !.visible = FALSE] \in Versions
         /\ [v EXCEPT !.visible = TRUE] \in Versions
         /\ [v EXCEPT !.id = v.id + 1] \in Versions
         /\ [v EXCEPT !.key = v.key + 1] \in Versions
         /\ \A w \in {"none", "drafts", "sent", "deleted"} :
              [v EXCEPT !.where = w] \in Versions
         /\ \A c \in Calls : [v EXCEPT !.stamp = c] \in Versions
  <1>1. v.id \in Nat /\ v.id + 1 \in Nat /\ v.key \in Nat /\ v.key + 1 \in Nat
    BY DEF Versions
  <1>2. [v EXCEPT !.draft = FALSE] \in Versions
    BY DEF Versions
  <1>3. [v EXCEPT !.visible = FALSE] \in Versions
    BY DEF Versions
  <1>4. [v EXCEPT !.visible = TRUE] \in Versions
    BY DEF Versions
  <1>5. [v EXCEPT !.id = v.id + 1] \in Versions
    BY <1>1 DEF Versions
  <1>6. [v EXCEPT !.key = v.key + 1] \in Versions
    BY <1>1 DEF Versions
  <1>7. ASSUME NEW w \in {"none", "drafts", "sent", "deleted"}
        PROVE  [v EXCEPT !.where = w] \in Versions
    BY DEF Versions
  <1>8. ASSUME NEW c \in Calls PROVE [v EXCEPT !.stamp = c] \in Versions
    BY DEF Versions
  <1> QED
    BY <1>2, <1>3, <1>4, <1>5, <1>6, <1>7, <1>8

\* What it means that Exchange carries a request out.
LEMMA ApplyEffect ==
  ASSUME Typed, CallInv, MessageInv, NEW r \in Requests, RequestOK(r), Apply(r),
         UNCHANGED <<kind, target>>
  PROVE  /\ MessagesTyped' /\ MessageInv'
         /\ \A m \in Messages : Evolves(m)
         /\ \A m \in Messages :
              sentBy'[m] = IF m = r.on /\ r.op \in {"send", "create"}
                           THEN <<r.call>> ELSE sentBy[m]
         /\ r.op \in {"send", "create"} => sentBy[r.on] = <<>>
         /\ r.op = "stamp" => msg'[r.on].stamp = r.call
         /\ r.op # "send" => msg'[r.on].id = msg[r.on].id
         /\ r.op # "create" => msg'[r.on].draft = msg[r.on].draft \/ r.op = "send"
  <1> DEFINE o == r.on
             old == msg[o]
  <1>1. /\ o \in Messages /\ r.call \in Calls /\ r.id \in Nat /\ r.key \in Nat
        /\ r.op \in {"save", "create", "header", "attach", "stamp", "send"}
        /\ CallOK(r.call) /\ MessageOK(o) /\ old \in Versions
    BY DEF Requests, CallInv, MessageInv, Typed
  <1>2. msg' = [msg EXCEPT ![o] = Changed(r)] /\ Accepted(r)
    BY DEF Apply
  <1>3. Changed(r) \in Versions
    <2> DEFINE sent == [old EXCEPT !.where = "sent"]
               unmarked == [sent EXCEPT !.draft = FALSE]
               renamed == [unmarked EXCEPT !.id = unmarked.id + 1]
               stamped == [old EXCEPT !.stamp = r.call]
    <2>1. CASE r.op = "save"
      <3>1. Changed(r) = [old EXCEPT !.where = "drafts"]
        BY <2>1 DEF Changed
      <3> QED
        BY <1>1, <3>1, FieldsTyped
    <2>2. sent \in Versions /\ stamped \in Versions
      BY <1>1, FieldsTyped
    <2>3. unmarked \in Versions
      BY <2>2, FieldsTyped
    <2>4. renamed \in Versions
      BY <2>3, FieldsTyped
    <2>5. CASE r.op = "create"
      <3>1. Changed(r) = unmarked
        BY <1>1, <2>5 DEF Changed, Versions
      <3> QED
        BY <2>3, <3>1
    <2>6. CASE r.op = "stamp"
      <3>1. Changed(r) = [stamped EXCEPT !.key = stamped.key + 1]
        BY <1>1, <2>6 DEF Changed, Versions
      <3> QED
        BY <2>2, <3>1, FieldsTyped
    <2>7. CASE r.op = "send"
      <3>1. Changed(r) = [renamed EXCEPT !.visible = FALSE]
        BY <1>1, <2>7 DEF Changed, Versions
      <3> QED
        BY <2>4, <3>1, FieldsTyped
    <2>8. CASE r.op \in {"header", "attach"}
      <3>1. Changed(r) = [old EXCEPT !.key = old.key + 1]
        BY <2>8 DEF Changed
      <3> QED
        BY <1>1, <3>1, FieldsTyped
    <2> QED
      BY <1>1, <2>1, <2>5, <2>6, <2>7, <2>8
  <1>4. r.op \in {"stamp", "send"} => old.draft
    BY <1>2 DEF Accepted, RequestOK, StillDraft
  <1>5. r.op \in {"send", "create"} => sentBy[o] = <<>>
    BY <1>1, <1>2, <1>4 DEF Accepted, MessageOK
  <1>6. sentBy' = IF r.op \in {"send", "create"} THEN [sentBy EXCEPT ![o] = <<r.call>>]
                                               ELSE sentBy
    <2>1. \A x : Append(<<>>, x) = <<x>>
      OBVIOUS
    <2> QED
      BY <1>5, <2>1, Zenon DEF Apply
  <1>7. \A m \in Messages :
           sentBy'[m] = IF m = o /\ r.op \in {"send", "create"}
                        THEN <<r.call>> ELSE sentBy[m]
    BY <1>1, <1>6 DEF Typed
  <1>8. MessagesTyped'
    <2>1. msg' \in [Messages -> Versions]
      BY <1>1, <1>2, <1>3 DEF Typed
    <2>2. sentBy' \in [Messages -> {<<>>} \cup {<<x>> : x \in Calls \cup {User}}]
      BY <1>1, <1>6 DEF Typed
    <2> QED
      BY <2>1, <2>2 DEF MessagesTyped
  <1>9. \A m \in Messages : m # o => msg'[m] = msg[m]
    BY <1>2 DEF Typed
  <1>10. msg'[o] = Changed(r)
    BY <1>1, <1>2 DEF Typed
  <1>11. /\ r.op = "stamp" => msg'[o].stamp = r.call
         /\ r.op # "send" => msg'[o].id = old.id
         /\ r.op # "create" => msg'[o].draft = old.draft \/ r.op = "send"
    BY <1>1, <1>10 DEF Changed, Versions
  <1>12. Evolves(o)
    <2>1. r.op \in {"save", "create"} => old.where = "none"
      BY <1>2 DEF Accepted
    <2>2. r.op = "create" => /\ kind[r.call] = "direct" /\ kind[r.call] # None
                             /\ o = r.call
      BY <1>1 DEF RequestOK, CallOK
    <2>3. r.op = "save" => kind[r.call] # None /\ o = r.call
      BY <1>1 DEF RequestOK, CallOK
    <2>4. r.op \notin {"save", "create"} => old.where = "drafts"
      BY <1>1, <1>2 DEF Accepted
    <2>5. old.id \in Nat /\ old.key \in Nat
      BY <1>1 DEF Versions
    <2> QED
      BY <1>1, <1>10, <2>1, <2>2, <2>3, <2>4, <2>5
         DEF Changed, Evolves, Versions
  <1>13. \A m \in Messages : Evolves(m)
    <2> SUFFICES ASSUME NEW m \in Messages, m # o PROVE Evolves(m)
      BY <1>12
    <2>1. msg'[m] = msg[m] /\ msg[m].id \in Nat /\ msg[m].key \in Nat
      BY <1>9 DEF Typed, Versions
    <2> QED
      BY <2>1 DEF Evolves
  <1>14. MessageOK(o)'
    <2>1. msg'[o].where # "none"
      <3>1. CASE r.op \in {"save", "create", "send"}
        BY <1>1, <1>10, <3>1 DEF Changed, Versions
      <3>2. CASE r.op \notin {"save", "create", "send"}
        BY <1>1, <1>2, <1>10, <3>2 DEF Accepted, Changed, Versions
      <3> QED
        BY <3>1, <3>2
    <2>2. msg'[o].draft => sentBy'[o] = <<>>
      BY <1>1, <1>7, <1>10 DEF Changed, Versions, MessageOK
    <2>3. ASSUME NEW c \in Calls, msg'[o].stamp = c
          PROVE  o = target[c] /\ kind[c] # None
      BY <1>1, <1>10, <2>3 DEF Changed, Versions, MessageOK, RequestOK
    <2>4. ASSUME NEW c \in Calls, sentBy'[o] = <<c>>
          PROVE  o = target[c] /\ kind[c] # None
      BY <1>1, <1>7, <2>4 DEF MessageOK, RequestOK
    <2>5. ASSUME NEW c \in Calls, sentBy'[o] = <<c>>, kind[c] \in Stamped
          PROVE  msg'[o].stamp = c
      <3>1. CASE r.op = "send"
        <4>1. c = r.call
          BY <1>1, <1>7, <2>5, <3>1
        <4>2. old.stamp = r.call
          BY <1>2, <2>5, <3>1, <4>1 DEF Accepted, RequestOK
        <4> QED
          BY <1>1, <1>10, <3>1, <4>1, <4>2 DEF Changed, Versions
      <3>2. CASE r.op = "create"
        <4>1. c = r.call /\ kind[c] = "direct"
          BY <1>1, <1>7, <2>5, <3>2 DEF RequestOK
        <4> QED
          BY <2>5, <4>1 DEF Stamped, Replies
      <3>3. CASE r.op = "stamp"
        <4>1. sentBy'[o] = <<>>
          BY <1>1, <1>4, <1>7, <3>3 DEF MessageOK
        <4> QED
          BY <2>5, <4>1, NoneOrOne
      <3>4. CASE r.op \notin {"send", "create", "stamp"}
        BY <1>1, <1>7, <1>10, <2>5, <3>4 DEF Changed, Versions, MessageOK
      <3> QED
        BY <3>1, <3>2, <3>3, <3>4
    <2> QED
      BY <2>1, <2>2, <2>3, <2>4, <2>5 DEF MessageOK
  <1>15. MessageInv'
    <2> SUFFICES ASSUME NEW m \in Messages, m # o PROVE MessageOK(m)'
      BY <1>14 DEF MessageInv
    <2> QED
      BY <1>7, <1>9 DEF MessageInv, MessageOK
  <1> QED
    BY <1>5, <1>7, <1>8, <1>11, <1>13, <1>15

-----------------------------------------------------------------------------
(***************************************************************************)
(* The steps.                                                              *)
(***************************************************************************)
LEMMA DeliveryStart == Init => DeliveryIInv
  <1> USE DeliveryAssumption
  <1> SUFFICES ASSUME Init PROVE DeliveryIInv
    OBVIOUS
  <1>1. \A m \in Messages : /\ msg[m] \in Versions /\ msg[m].draft
                            /\ msg[m].stamp = None
                            /\ msg[m].id = 0 /\ msg[m].key = 0
                            /\ msg[m].where = "none" <=> m # Draft
    <2> SUFFICES ASSUME NEW m \in Messages
                 PROVE  /\ msg[m] \in Versions /\ msg[m].draft
                        /\ msg[m].stamp = None
                        /\ msg[m].id = 0 /\ msg[m].key = 0
                        /\ msg[m].where = "none" <=> m # Draft
      OBVIOUS
    <2>1. msg[m] \in {NoMessage, [NoMessage EXCEPT !.where = "drafts"]}
      BY DEF Init
    <2>2. NoMessage \in Versions
      BY DEF NoMessage, Versions
    <2>3. [NoMessage EXCEPT !.where = "drafts"] \in Versions
      BY <2>2, FieldsTyped
    <2>4. msg[m].where = "drafts" <=> m = Draft
      BY DEF Init
    <2>5. CASE msg[m] = NoMessage
      BY <2>2, <2>4, <2>5 DEF NoMessage
    <2>6. CASE msg[m] = [NoMessage EXCEPT !.where = "drafts"]
      BY <2>3, <2>4, <2>6 DEF NoMessage
    <2> QED
      BY <2>1, <2>5, <2>6
  <1>2. Typed
    <2>1. msg \in [Messages -> Versions]
      BY <1>1 DEF Init
    <2> QED
      BY <2>1 DEF Init, Typed, Messages
  <1>3. CallInv
    <2> SUFFICES ASSUME NEW c \in Calls PROVE CallOK(c)
      BY DEF CallInv
    <2>1. ~Running(c) /\ kind[c] = None /\ kind[c] # "draft"
      BY DEF Init, Running, Kinds
    <2>2. answer[c] = None /\ item[c].key = 0 /\ target[c] = c
      BY DEF Init
    <2>3. msg[c].where = "none"
      BY <1>1 DEF Messages
    <2> QED
      BY <2>1, <2>2, <2>3 DEF CallOK, Aims, At
  <1>4. LateInv /\ OneRuns
    BY DEF Init, LateInv, OneRuns, Running, At
  <1>5. MessageInv
    BY <1>1 DEF Init, MessageInv, MessageOK
  <1>6. OutcomeInv
    BY DEF Init, OutcomeInv, OutcomeOK, At, Running, Answers, Statuses
  <1> QED
    BY <1>2, <1>3, <1>4, <1>5, <1>6 DEF DeliveryIInv

\* Exchange or the owner does something.
LEMMA WorldStep ==
  ASSUME DeliveryIInv, MessagesTyped', MessageInv',
         \A m \in Messages : Evolves(m),
         \A m \in Messages : sentBy[m] # <<>> => sentBy'[m] = sentBy[m],
         \A m \in Messages, c \in Calls :
           sentBy'[m] = <<c>> =>
             \/ sentBy[m] = <<c>>
             \/ \E r \in late : r.call = c /\ r.op \in {"send", "create"},
         late' \subseteq late, meddling' \in 0..MaxMeddling,
         UNCHANGED <<kind, target, step, item, timeout, clock, answer, copy>>
  PROVE  DeliveryIInv'
  <1> USE DEF DeliveryIInv
  <1>1. Typed'
    BY DEF Typed, MessagesTyped
  <1>2. LateInv'
    <2> SUFFICES ASSUME NEW r \in late' PROVE RequestOK(r)'
      BY DEF LateInv
    <2>1. r \in Requests /\ RequestOK(r)
      BY DEF LateInv, Typed
    <2> QED
      BY <2>1, RequestKept
  <1>3. CallInv'
    BY CallKept DEF CallInv
  <1>4. OneRuns'
    BY DEF OneRuns, Running, At
  <1>5. OutcomeInv'
    <2> SUFFICES ASSUME NEW c \in Calls PROVE OutcomeOK(c)'
      BY DEF OutcomeInv
    <2>1. OutcomeOK(c) /\ target[c] \in Messages
      BY DEF OutcomeInv, Typed
    <2>2. \A r \in late : r.call = c /\ r.op = "create" => kind[c] \notin Stamped
      BY DEF LateInv, RequestOK, Stamped, Replies
    <2> QED
      BY <2>1, <2>2 DEF OutcomeOK, Running, At
  <1> QED
    BY <1>1, <1>2, <1>3, <1>4, <1>5

LEMMA RequestGood ==
  ASSUME Typed, NEW c \in Calls, CallOK(c), Running(c), ~Reading(c)
  PROVE  Request(c) \in Requests /\ RequestOK(Request(c))
  <1> DEFINE op == Plan(kind[c])[step[c]]
  <1>1. /\ target[c] \in Messages /\ item[c].id \in Nat /\ item[c].key \in Nat
        /\ kind[c] # None
    BY AtFacts DEF Typed
  <1>2. op \in {"save", "create", "header", "attach", "stamp", "send"}
    BY AtFacts DEF Reading, At
  <1>3. Request(c) \in Requests
    BY <1>1, <1>2 DEF Request, Requests
  <1>4. /\ op = "save" => kind[c] # "draft"
        /\ op = "create" => kind[c] = "direct"
        /\ op = "stamp" => kind[c] \in Stamped
        /\ op = "send" => kind[c] # "direct"
        /\ op \in {"stamp", "send"} => Aims(c)
    BY AtFacts DEF At, Aims
  <1>5. /\ item[c].id <= msg[target[c]].id /\ item[c].key <= msg[target[c]].key
        /\ Aims(c) => StillDraft(target[c], item[c].id)
        /\ /\ op = "send" /\ kind[c] \in Stamped
           /\ msg[target[c]].id = item[c].id /\ msg[target[c]].key = item[c].key
           => msg[target[c]].stamp = c
    BY DEF CallOK, At
  <1> HIDE DEF op
  <1>6. /\ Request(c).op = op /\ Request(c).call = c /\ Request(c).on = target[c]
        /\ Request(c).id = item[c].id /\ Request(c).key = item[c].key
    BY DEF Request, op
  <1>7. op = "stamp" => kind[c] # "direct"
    BY <1>4 DEF Stamped, Replies
  <1> QED
    BY <1>1, <1>3, <1>4, <1>5, <1>6, <1>7 DEF RequestOK

\* One call takes a step: the others are as they were, and so is what its
\* earlier requests and the others' may still do.
LEMMA CallStep ==
  ASSUME DeliveryIInv, NEW c \in Calls, MessagesTyped', MessageInv',
         \A m \in Messages : Evolves(m),
         \A m \in Messages :
           sentBy'[m] = sentBy[m] \/ (sentBy[m] = <<>> /\ sentBy'[m] = <<c>>),
         Running(c),
         late' = late \/ (~Reading(c) /\ late' = late \cup {Request(c)}),
         \A d \in Calls : d # c => /\ step'[d] = step[d] /\ item'[d] = item[d]
                                   /\ answer'[d] = answer[d] /\ copy'[d] = copy[d],
         UNCHANGED <<kind, target, timeout>>
  PROVE  /\ late' \subseteq Requests /\ LateInv'
         /\ \A d \in Calls : d # c => CallOK(d)' /\ OutcomeOK(d)' /\ ~Running(d)'
         /\ ~At(c, "poll") => clock = 0
  <1> USE DEF DeliveryIInv
  <1>1. ~Reading(c) => Request(c) \in Requests /\ RequestOK(Request(c))
    BY RequestGood DEF CallInv
  <1>2. late' \subseteq Requests
    BY <1>1 DEF Typed
  <1>3. LateInv'
    <2> SUFFICES ASSUME NEW r \in late' PROVE RequestOK(r)'
      BY DEF LateInv
    <2>1. r \in Requests /\ RequestOK(r)
      BY <1>1, <1>2 DEF LateInv
    <2> QED
      BY <2>1, RequestKept
  <1>4. ASSUME NEW d \in Calls, d # c
        PROVE  CallOK(d)' /\ OutcomeOK(d)' /\ ~Running(d)'
    <2>1. CallOK(d)'
      BY <1>4, CallKept
    <2>2. ~Running(d)'
      BY <1>4 DEF OneRuns, Running
    <2>3. OutcomeOK(d) /\ target[d] \in Messages /\ ~Running(d)
      BY <1>4 DEF OutcomeInv, Typed, OneRuns
    <2>4. Request(c).call = c
      BY DEF Request
    <2> QED
      BY <1>4, <2>1, <2>2, <2>3, <2>4, NoneOrOne DEF OutcomeOK, At
  <1>5. ~At(c, "poll") => clock = 0
    BY DEF OneRuns, At
  <1> QED
    BY <1>2, <1>3, <1>4, <1>5

\* It returns.
LEMMA ReturnStep ==
  ASSUME DeliveryIInv, NEW c \in Calls, NEW a \in Answers, Return(c, a), Running(c),
         \A m \in Messages : Evolves(m), MessagesTyped',
         \A d \in Calls : d # c => ~Running(d)',
         clock' = 0,
         UNCHANGED <<kind, target>>
  PROVE  CallOK(c)' /\ OneRuns' /\ ~Running(c)' /\ answer'[c] = a
  <1> USE DEF DeliveryIInv
  <1>1. step'[c] = 0 /\ answer'[c] = a
    BY DEF Return, Typed
  <1>2. ~Running(c)'
    BY <1>1 DEF Running
  <1>3. CallOK(c) /\ target[c] \in Messages /\ kind[c] # None
    BY AtFacts DEF CallInv, Typed
  <1>4. kind[c] = "draft" => msg'[target[c]].where # "none"
    BY <1>3 DEF CallOK, Evolves
  <1>5. CallOK(c)'
    BY <1>2, <1>3, <1>4 DEF CallOK, Aims, At
  <1>6. OneRuns'
    BY <1>2 DEF OneRuns, At
  <1> QED
    BY <1>1, <1>2, <1>5, <1>6

LEMMA MailboxUntouched ==
  ASSUME Typed, MessageInv, UNCHANGED <<msg, sentBy, kind, target>>
  PROVE  MessagesTyped' /\ MessageInv' /\ \A m \in Messages : Evolves(m)
  <1>1. MessagesTyped'
    BY DEF Typed, MessagesTyped
  <1>2. MessageInv'
    BY DEF MessageInv, MessageOK
  <1>3. ASSUME NEW m \in Messages PROVE Evolves(m)
    <2>1. msg[m].id \in Nat /\ msg[m].key \in Nat
      BY DEF Typed, Versions
    <2> QED
      BY <2>1 DEF Evolves
  <1> QED
    BY <1>1, <1>2, <1>3

\* A call goes on to its plan's next request.
LEMMA GoesOn ==
  ASSUME Typed, NEW c \in Calls, CallOK(c), Running(c),
         step[c] < Len(Plan(kind[c])),
         step' = [step EXCEPT ![c] = step[c] + 1], UNCHANGED <<kind, target>>
  PROVE  /\ step' \in [Calls -> Nat] /\ step'[c] \in 1..Len(Plan(kind'[c]))
         /\ Running(c)'
         /\ \A name : At(c, name)' <=> Next1(c, name)
         /\ ~At(c, "fetch") => ~At(c, "stamp")'
         /\ ~At(c, "stamp") => ~(At(c, "send")' /\ kind[c] \in Stamped)
         /\ ~At(c, "send") => ~At(c, "poll")'
  <1>1. /\ step[c] \in Nat /\ step[c] # 0 /\ Len(Plan(kind[c])) \in Nat
        /\ step'[c] = step[c] + 1 /\ kind'[c] = kind[c]
    BY AtFacts DEF Typed, Running
  <1>2. /\ step' \in [Calls -> Nat] /\ step'[c] \in 1..Len(Plan(kind'[c]))
        /\ Running(c)'
    BY <1>1 DEF Typed, Running
  <1>3. \A name : At(c, name)' <=> Next1(c, name)
    BY <1>1, <1>2 DEF At, Next1
  <1> QED
    BY <1>2, <1>3, AtFacts

\* It is as it should be if what it aims at is still a draft, and if it is about
\* to send what it has stamped.
LEMMA CallOKNext ==
  ASSUME NEW c \in Calls, kind'[c] # None, answer'[c] = None,
         kind'[c] = "draft" => msg'[target'[c]].where # "none",
         kind'[c] # "draft" => target'[c] = c,
         step'[c] \in 1..Len(Plan(kind'[c])),
         item'[c].id <= msg'[target'[c]].id, item'[c].key <= msg'[target'[c]].key,
         Aims(c)' => (msg'[target'[c]].id = item'[c].id => msg'[target'[c]].draft),
         At(c, "send")' /\ kind'[c] \in Stamped => msg'[target'[c]].stamp = c
  PROVE  CallOK(c)'
  BY DEF CallOK, StillDraft

LEMMA StartStep ==
  ASSUME DeliveryIInv, NEW c \in Calls, NEW k \in Kinds, NEW m \in Messages,
         NEW t \in Timeouts, Start(c, k, m, t)
  PROVE  DeliveryIInv'
  <1> USE DeliveryAssumption DEF DeliveryIInv
  <1>1. /\ kind[c] = None /\ CallOK(c) /\ OutcomeOK(c) /\ msg[m] \in Versions
        /\ msg[m].id \in Nat /\ msg[m].key \in Nat
        /\ \A d \in Calls : ~Running(d)
    BY DEF Start, CallInv, OutcomeInv, Typed, Versions
  <1>2. /\ kind'[c] = k /\ k # None /\ target'[c] = m /\ step'[c] = 1
        /\ item'[c].id = msg[m].id /\ item'[c].key = 0
        /\ k = "draft" => msg[m].where # "none"
        /\ k # "draft" => m = c
        /\ UNCHANGED <<msg, sentBy, late, clock, answer, copy, meddling>>
    BY <1>1 DEF Start, Typed, CallOK
  <1>3. \A d \in Calls : d # c =>
          /\ kind'[d] = kind[d] /\ target'[d] = target[d] /\ step'[d] = step[d]
          /\ item'[d] = item[d] /\ timeout'[d] = timeout[d]
    BY DEF Start, Typed
  <1>4. Typed'
    <2>1. kind' \in [Calls -> Kinds \cup {None}] /\ target' \in [Calls -> Messages]
      BY DEF Start, Typed
    <2>2. step' \in [Calls -> Nat] /\ timeout' \in [Calls -> Timeouts \cup {0}]
      BY DEF Start, Typed
    <2>3. item' \in [Calls -> [id : Nat, key : Nat]]
      BY <1>1 DEF Start, Typed
    <2> QED
      BY <1>2, <2>1, <2>2, <2>3 DEF Typed
  <1>5. LateInv'
    <2> SUFFICES ASSUME NEW r \in late PROVE RequestOK(r)'
      BY <1>2 DEF LateInv
    <2>1. r \in Requests /\ RequestOK(r) /\ r.call # c /\ r.call \in Calls
      BY <1>1 DEF LateInv, Typed, RequestOK, Requests
    <2> QED
      BY <1>2, <1>3, <2>1 DEF RequestOK, StillDraft
  <1>6. ASSUME NEW d \in Calls, d # c PROVE CallOK(d)' /\ OutcomeOK(d)'
    <2>1. CallOK(d) /\ OutcomeOK(d) /\ ~Running(d) /\ target[d] \in Messages
      BY <1>1 DEF CallInv, OutcomeInv, Typed
    <2>2. ~Running(d)'
      BY <1>3, <1>6, <2>1 DEF Running
    <2>3. CallOK(d)'
      BY <1>2, <1>3, <1>6, <2>1, <2>2 DEF CallOK, Aims, At
    <2>4. OutcomeOK(d)'
      BY <1>2, <1>3, <1>6, <2>1, <2>2 DEF OutcomeOK, At
    <2> QED
      BY <2>3, <2>4
  <1>7. Running(c)' /\ ~At(c, "stamp")' /\ ~At(c, "send")' /\ ~At(c, "poll")'
    BY <1>2, PlanStart DEF Running, At
  <1>8. CallOK(c)'
    <2>1. k = "attach" => msg[m].draft
      BY <1>1, <1>2 DEF CallOK, MessageInv, MessageOK
    <2>2. 1 \in 1..Len(Plan(k)) /\ answer[c] = None
      BY <1>1, PlanStart DEF CallOK
    <2>3. Aims(c)' => msg[m].draft
      BY <1>2, <1>7, <2>1 DEF Aims
    <2>4. 0 <= msg[m].key /\ msg[m].id <= msg[m].id
      BY <1>1
    <2> QED
      BY <1>2, <1>7, <2>2, <2>3, <2>4, CallOKNext
  <1>9. CallInv'
    BY <1>6, <1>8 DEF CallInv
  <1>10. OneRuns'
    <2>1. \A d \in Calls : d # c => ~Running(d)'
      BY <1>1, <1>3 DEF Running
    <2>2. clock = 0
      BY <1>1 DEF OneRuns, At
    <2>3. \A d \in Calls : ~At(d, "poll")'
      BY <1>7, <2>1 DEF At
    <2> QED
      BY <1>2, <2>1, <2>2, <2>3 DEF OneRuns
  <1>11. MessageInv'
    <2> SUFFICES ASSUME NEW n \in Messages PROVE MessageOK(n)'
      BY DEF MessageInv
    <2>1. MessageOK(n)
      BY DEF MessageInv
    <2>2. msg[n].stamp # c /\ sentBy[n] # <<c>>
      BY <1>1, <2>1 DEF MessageOK
    <2> QED
      BY <1>2, <1>3, <2>1, <2>2 DEF MessageOK
  <1>12. OutcomeOK(c)'
    <2>1. \A n \in Messages : sentBy[n] # <<c>>
      BY <1>1 DEF MessageInv, MessageOK
    <2>2. \A r \in late : r.call # c
      BY <1>1 DEF LateInv, RequestOK
    <2>3. answer[c] \notin Answers
      BY <1>1 DEF CallOK
    <2> QED
      BY <1>2, <1>7, <2>1, <2>2, <2>3 DEF OutcomeOK, Answers, Statuses
  <1>13. OutcomeInv'
    BY <1>6, <1>12 DEF OutcomeInv
  <1> QED
    BY <1>4, <1>5, <1>9, <1>10, <1>11, <1>13

LEMMA FetchStep ==
  ASSUME DeliveryIInv, NEW c \in Calls, Fetch(c)
  PROVE  DeliveryIInv'
  <1> USE DEF DeliveryIInv
  <1> DEFINE m == target[c]
  <1>1. /\ MessagesTyped' /\ MessageInv' /\ \A n \in Messages : Evolves(n)
        /\ UNCHANGED <<msg, sentBy, late, kind, target, timeout, clock, copy, meddling>>
    BY MailboxUntouched DEF Fetch
  <1>2. /\ Running(c) /\ Reading(c) /\ ~At(c, "poll") /\ ~At(c, "send")
        /\ ~At(c, "stamp")
        /\ At(c, "fetch") \/ At(c, "fetch_own")
    BY DEF Fetch, Reading, At
  <1>3. /\ m \in Messages /\ CallOK(c) /\ OutcomeOK(c) /\ kind[c] \in Kinds
        /\ msg[m].id \in Nat /\ msg[m].key \in Nat
    BY <1>2, AtFacts, SMTT(30) DEF CallInv, OutcomeInv, Typed, Versions
  <1>4. \A d \in Calls : d # c => /\ step'[d] = step[d] /\ item'[d] = item[d]
                                  /\ answer'[d] = answer[d] /\ copy'[d] = copy[d]
    BY DEF Fetch, Return, Typed
  <1>5. /\ LateInv' /\ clock = 0
        /\ \A d \in Calls : d # c => CallOK(d)' /\ OutcomeOK(d)' /\ ~Running(d)'
    BY <1>1, <1>2, <1>4, CallStep
  <1>6. CASE Return(c, Reported(c)) /\ UNCHANGED item
    <2>1. Reported(c) = "error"
      BY <1>2 DEF Reported
    <2>2. CallOK(c)' /\ OneRuns' /\ ~Running(c)' /\ answer'[c] = "error"
      BY <1>1, <1>2, <1>5, <1>6, <2>1, ReturnStep DEF Answers
    <2>3. Typed'
      BY <1>1, <1>6, <2>1 DEF Typed, Return, Answers, MessagesTyped
    <2>4. OutcomeOK(c)'
      BY <1>1, <1>2, <1>3, <2>2 DEF OutcomeOK, Statuses, At
    <2> QED
      BY <1>1, <1>5, <2>2, <2>3, <2>4 DEF CallInv, OutcomeInv
  <1>7. CASE /\ Fetchable(c)
             /\ item' = [item EXCEPT ![c].key = msg[m].key]
             /\ step' = [step EXCEPT ![c] = step[c] + 1]
             /\ UNCHANGED answer
    <2>1. /\ item'[c].id = item[c].id /\ item'[c].key = msg[m].key
          /\ step'[c] = step[c] + 1
          /\ msg[m].id = item[c].id /\ At(c, "fetch") => msg[m].draft
      BY <1>7 DEF Typed, Fetchable
    <2>2. step[c] < Len(Plan(kind[c])) /\ kind[c] # None
      <3>1. At(c, "fetch") => Next1(c, "stamp")
        BY <1>2, <1>3, AtFacts
      <3> QED
        BY <1>2, <1>3, <3>1, AtFacts DEF Next1
    <2>3. /\ step' \in [Calls -> Nat] /\ step'[c] \in 1..Len(Plan(kind'[c]))
          /\ Running(c)' /\ ~At(c, "poll")'
          /\ At(c, "stamp")' => At(c, "fetch")
          /\ ~(At(c, "send")' /\ kind[c] \in Stamped)
      <3>1. UNCHANGED <<kind, target>> /\ step' = [step EXCEPT ![c] = step[c] + 1]
        BY <1>1, <1>7
      <3> QED
        BY <1>2, <1>3, <2>2, <3>1, GoesOn
    <2>4. Aims(c)' => kind[c] = "attach" \/ At(c, "fetch")
      <3>1. At(c, "send")' => kind[c] \in {"attach", "direct"}
        BY <1>3, <2>3 DEF Stamped, Replies, Kinds
      <3>2. kind[c] # "direct"
        BY <1>2, <1>3, PlanTable DEF At, CallOK
      <3> QED
        BY <1>1, <2>3, <3>1, <3>2 DEF Aims
    <2>5. Aims(c)' => (msg[m].id = item[c].id => msg[m].draft)
      BY <1>2, <1>3, <2>1, <2>4 DEF CallOK, Aims, StillDraft
    <2>6. /\ answer[c] = None /\ item[c].id <= msg[m].id
          /\ kind[c] = "draft" => msg[m].where # "none"
          /\ kind[c] # "draft" => m = c
      BY <1>2, <1>3 DEF CallOK
    <2>7. CallOK(c)'
      BY <1>1, <1>3, <1>7, <2>1, <2>2, <2>3, <2>5, <2>6, CallOKNext
    <2>8. OneRuns'
      BY <1>1, <1>5, <2>3 DEF OneRuns, At
    <2>9. Typed'
      <3>1. item' \in [Calls -> [id : Nat, key : Nat]]
        BY <1>3, <1>7 DEF Typed
      <3> QED
        BY <1>1, <1>7, <2>3, <3>1 DEF Typed
    <2>10. OutcomeOK(c)'
      BY <1>1, <1>2, <1>3, <1>7, <2>3 DEF OutcomeOK
    <2> QED
      BY <1>1, <1>5, <2>7, <2>8, <2>9, <2>10 DEF CallInv, OutcomeInv
  <1> QED
    BY <1>6, <1>7 DEF Fetch

\* A call carries its request out, and does not look at the mailbox otherwise.
LEMMA RequestCarriedOut ==
  ASSUME DeliveryIInv, NEW c \in Calls, Running(c), ~Reading(c), Apply(Request(c)),
         UNCHANGED <<kind, target>>
  PROVE  /\ MessagesTyped' /\ MessageInv' /\ \A m \in Messages : Evolves(m)
         /\ \A m \in Messages :
              sentBy'[m] = sentBy[m] \/ (sentBy[m] = <<>> /\ sentBy'[m] = <<c>>)
         /\ ~At(c, "send") /\ kind[c] \in Stamped => sentBy' = sentBy
         /\ At(c, "send") \/ At(c, "create") => sentBy'[target[c]] = <<c>>
         /\ At(c, "stamp") => msg'[target[c]].stamp = c
  <1> USE DEF DeliveryIInv
  <1>1. /\ Request(c) \in Requests /\ RequestOK(Request(c)) /\ CallOK(c)
        /\ target[c] \in Messages
    BY RequestGood DEF CallInv, Typed
  <1>2. /\ Request(c).op = Plan(kind[c])[step[c]] /\ Request(c).call = c
        /\ Request(c).on = target[c]
    BY DEF Request
  <1>3. /\ MessagesTyped' /\ MessageInv' /\ \A m \in Messages : Evolves(m)
        /\ \A m \in Messages :
             sentBy'[m] = IF m = Request(c).on /\ Request(c).op \in {"send", "create"}
                          THEN <<Request(c).call>> ELSE sentBy[m]
        /\ Request(c).op \in {"send", "create"} => sentBy[Request(c).on] = <<>>
        /\ Request(c).op = "stamp" => msg'[Request(c).on].stamp = Request(c).call
    BY <1>1, ApplyEffect
  <1>4. \A m \in Messages :
          sentBy'[m] = sentBy[m] \/ (sentBy[m] = <<>> /\ sentBy'[m] = <<c>>)
    BY <1>2, <1>3
  <1>5. ~At(c, "send") /\ kind[c] \in Stamped => sentBy' = sentBy
    <2>1. At(c, "create") => kind[c] \notin Stamped
      BY <1>1, AtFacts DEF Stamped, Replies
    <2>2. Request(c).op \notin {"send", "create"} => sentBy' = sentBy
      BY DEF Apply
    <2> QED
      BY <1>2, <2>1, <2>2 DEF At
  <1>6. At(c, "send") \/ At(c, "create") => sentBy'[target[c]] = <<c>>
    BY <1>1, <1>2, <1>3 DEF At
  <1>7. At(c, "stamp") => msg'[target[c]].stamp = c
    BY <1>2, <1>3 DEF At
  <1> QED
    BY <1>3, <1>4, <1>5, <1>6, <1>7

LEMMA SucceedStep ==
  ASSUME DeliveryIInv, NEW c \in Calls, Succeed(c)
  PROVE  DeliveryIInv'
  <1> USE DEF DeliveryIInv
  <1> DEFINE m == target[c]
  <1>1. /\ Running(c) /\ ~Reading(c) /\ Apply(Request(c))
        /\ UNCHANGED <<late, kind, target, timeout, clock, copy, meddling>>
        /\ item' = [item EXCEPT ![c].key = msg'[m].key]
    BY DEF Succeed
  <1>2. /\ MessagesTyped' /\ MessageInv' /\ \A n \in Messages : Evolves(n)
        /\ \A n \in Messages :
             sentBy'[n] = sentBy[n] \/ (sentBy[n] = <<>> /\ sentBy'[n] = <<c>>)
        /\ ~At(c, "send") /\ kind[c] \in Stamped => sentBy' = sentBy
        /\ At(c, "send") \/ At(c, "create") => sentBy'[m] = <<c>>
        /\ At(c, "stamp") => msg'[m].stamp = c
    BY <1>1, RequestCarriedOut
  <1>3. /\ m \in Messages /\ CallOK(c) /\ OutcomeOK(c) /\ kind[c] \in Kinds
        /\ kind[c] # None /\ ~At(c, "poll") /\ ~At(c, "fetch")
        /\ item[c].id \in Nat /\ Evolves(m)
        /\ msg[m].id \in Nat /\ msg'[m].id \in Nat /\ msg'[m].key \in Nat
    BY <1>1, <1>2, AtFacts, SMTT(30)
       DEF CallInv, OutcomeInv, Typed, MessagesTyped, Versions, Reading
  <1>4. \A d \in Calls : d # c => /\ step'[d] = step[d] /\ item'[d] = item[d]
                                  /\ answer'[d] = answer[d] /\ copy'[d] = copy[d]
    BY DEF Succeed, Return, Typed
  <1>5. /\ LateInv' /\ clock = 0
        /\ \A d \in Calls : d # c => CallOK(d)' /\ OutcomeOK(d)' /\ ~Running(d)'
    BY <1>1, <1>2, <1>3, <1>4, CallStep
  <1>6. /\ item' \in [Calls -> [id : Nat, key : Nat]]
        /\ item'[c].id = item[c].id /\ item'[c].key = msg'[m].key
    BY <1>1, <1>3 DEF Typed
  <1>7. CASE Submitted(c) /\ Return(c, "submitted")
    <2>1. CallOK(c)' /\ OneRuns' /\ ~Running(c)' /\ answer'[c] = "submitted"
      BY <1>1, <1>2, <1>5, <1>7, ReturnStep DEF Answers, Statuses
    <2>2. Typed'
      <3>1. step' \in [Calls -> Nat] /\ answer' \in [Calls -> Answers \cup {None}]
        BY <1>7 DEF Return, Typed, Answers, Statuses
      <3> QED
        BY <1>1, <1>2, <1>6, <3>1 DEF Typed, MessagesTyped
    <2>3. At(c, "send") \/ At(c, "create")
      <3>1. step[c] = Len(Plan(kind[c])) => At(c, "send") \/ At(c, "create")
        BY <1>1, <1>3, AtFacts
      <3> QED
        BY <1>7, <3>1 DEF Submitted
    <2>4. sentBy'[m] = <<c>>
      BY <1>2, <2>3
    <2>5. OutcomeOK(c)'
      BY <1>1, <2>1, <2>4 DEF OutcomeOK, At
    <2> QED
      BY <1>2, <1>5, <2>1, <2>2, <2>5 DEF CallInv, OutcomeInv
  <1>8. CASE /\ ~Submitted(c) /\ step' = [step EXCEPT ![c] = step[c] + 1]
             /\ UNCHANGED answer
    <2>1. step[c] < Len(Plan(kind[c])) /\ answer[c] = None
      BY <1>1, <1>3, <1>8, AtFacts DEF Submitted, CallOK
    <2>2. /\ step' \in [Calls -> Nat] /\ step'[c] \in 1..Len(Plan(kind'[c]))
          /\ Running(c)' /\ ~At(c, "stamp")'
          /\ At(c, "send")' /\ kind[c] \in Stamped => At(c, "stamp")
          /\ At(c, "poll")' => At(c, "send")
          /\ At(c, "poll")' <=> Next1(c, "poll")
      <3>1. UNCHANGED <<kind, target>>
        BY <1>1
      <3> QED
        BY <1>1, <1>3, <1>8, <2>1, <3>1, GoesOn
    <2>3. Aims(c)' => Aims(c) /\ kind[c] # "direct"
      <3>1. At(c, "send")' => kind[c] = "attach" \/ At(c, "stamp")
        <4>1. kind[c] # "direct"
          <5>1. Len(Plan("direct")) = 1
            BY PlanTable
          <5>2. step[c] \in 1..Len(Plan(kind[c]))
            BY <1>1, <1>3, AtFacts
          <5> SUFFICES ASSUME kind[c] = "direct" PROVE FALSE
            OBVIOUS
          <5>3. step[c] \in 1..1 /\ step[c] < 1
            BY <2>1, <5>1, <5>2
          <5> QED
            BY <5>3
        <4> QED
          BY <1>3, <2>2, <4>1 DEF Stamped, Replies, Kinds
      <3>2. At(c, "stamp") => kind[c] # "direct"
        BY <1>1, <1>3, AtFacts DEF Stamped, Replies
      <3> QED
        BY <1>1, <2>2, <3>1, <3>2 DEF Aims
    <2>4. Aims(c)' => (msg'[m].id = item'[c].id => msg'[m].draft)
      BY <1>1, <1>2, <1>3, <1>6, <2>3, DraftKept DEF CallOK
    <2>5. /\ item'[c].id <= msg'[m].id
          /\ kind[c] = "draft" => msg'[m].where # "none"
          /\ kind[c] # "draft" => m = c
      BY <1>1, <1>3, <1>6 DEF CallOK, Evolves
    <2>6. CallOK(c)'
      BY <1>1, <1>2, <1>3, <1>6, <1>8, <2>1, <2>2, <2>4, <2>5, CallOKNext
    <2>7. OneRuns'
      <3>1. clock' = 0 /\ timeout'[c] \in Nat
        BY <1>1, <1>5, DeliveryAssumption DEF Typed
      <3> QED
        BY <1>5, <3>1 DEF OneRuns, At
    <2>8. Typed'
      BY <1>1, <1>2, <1>6, <1>8, <2>2 DEF Typed, MessagesTyped
    <2>9. OutcomeOK(c)'
      <3>1. At(c, "send") /\ kind[c] \in Stamped => At(c, "poll")'
        BY <1>1, <1>3, <2>1, <2>2, AtFacts
      <3>2. answer'[c] = None /\ answer'[c] \notin Answers
        BY <1>8, <2>1, DeliveryAssumption
      <3>3. At(c, "poll")' => sentBy'[m] = <<c>>
        BY <1>2, <2>2
      <3> QED
        BY <1>1, <1>2, <1>3, <2>2, <3>1, <3>2, <3>3 DEF OutcomeOK, Answers, Statuses
    <2> QED
      BY <1>2, <1>5, <2>6, <2>7, <2>8, <2>9 DEF CallInv, OutcomeInv
  <1> QED
    BY <1>7, <1>8 DEF Succeed

\* A request that fails, or a process that dies: the call is over.
LEMMA FailStep ==
  ASSUME DeliveryIInv, NEW c \in Calls, Fail(c)
  PROVE  DeliveryIInv'
  <1> USE DEF DeliveryIInv
  <1>1. /\ Running(c) /\ ~Reading(c) /\ Return(c, Reported(c)) /\ ~At(c, "poll")
        /\ UNCHANGED <<kind, target, item, timeout, clock, copy, meddling>>
        /\ late' = late \/ late' = late \cup {Request(c)}
    BY DEF Fail, Reading
  <1>2. /\ MessagesTyped' /\ MessageInv' /\ \A n \in Messages : Evolves(n)
        /\ \A n \in Messages :
             sentBy'[n] = sentBy[n] \/ (sentBy[n] = <<>> /\ sentBy'[n] = <<c>>)
        /\ ~At(c, "send") /\ kind[c] \in Stamped => sentBy' = sentBy
    <2>1. CASE Apply(Request(c))
      BY <1>1, <2>1, RequestCarriedOut
    <2>2. CASE UNCHANGED <<msg, sentBy>>
      BY <1>1, <2>2, MailboxUntouched
    <2> QED
      BY <2>1, <2>2 DEF Fail
  <1>3. /\ OutcomeOK(c) /\ Request(c).call = c
        /\ Request(c).op = Plan(kind[c])[step[c]]
    BY DEF OutcomeInv, Request
  <1>4. \A d \in Calls : d # c => /\ step'[d] = step[d] /\ item'[d] = item[d]
                                  /\ answer'[d] = answer[d] /\ copy'[d] = copy[d]
    BY <1>1 DEF Return, Typed
  <1>5. /\ LateInv' /\ late' \subseteq Requests /\ clock = 0
        /\ \A d \in Calls : d # c => CallOK(d)' /\ OutcomeOK(d)' /\ ~Running(d)'
    BY <1>1, <1>2, <1>4, CallStep
  <1>6. /\ Reported(c) \in {"send_outcome_unknown", "error"}
        /\ Reported(c) = "error" /\ kind[c] \in Stamped => ~At(c, "send")
    BY DEF Reported
  <1>7. CallOK(c)' /\ OneRuns' /\ ~Running(c)' /\ answer'[c] = Reported(c)
    BY <1>1, <1>2, <1>5, <1>6, ReturnStep DEF Answers
  <1>8. Typed'
    <2>1. step' \in [Calls -> Nat] /\ answer' \in [Calls -> Answers \cup {None}]
      BY <1>1, <1>6 DEF Return, Typed, Answers
    <2> QED
      BY <1>1, <1>2, <1>5, <2>1 DEF Typed, MessagesTyped
  <1>9. OutcomeOK(c)'
    <2>1. answer'[c] \notin Statuses /\ answer'[c] # "sent_confirmed" /\ ~At(c, "poll")'
      BY <1>6, <1>7 DEF Statuses, At
    <2>2. kind[c] \in Stamped /\ answer'[c] = "error" =>
            /\ \A m \in Messages : sentBy'[m] # <<c>>
            /\ \A r \in late' : r.call = c => r.op # "send"
      BY <1>1, <1>2, <1>3, <1>6, <1>7 DEF OutcomeOK, At
    <2> QED
      BY <1>1, <1>7, <2>1, <2>2 DEF OutcomeOK
  <1> QED
    BY <1>2, <1>5, <1>7, <1>8, <1>9 DEF CallInv, OutcomeInv

LEMMA CrashStep ==
  ASSUME DeliveryIInv, NEW c \in Calls, Crash(c)
  PROVE  DeliveryIInv'
  <1> USE DEF DeliveryIInv
  <1>1. /\ Running(c) /\ Return(c, "crashed") /\ clock' = 0
        /\ UNCHANGED <<msg, sentBy, kind, target, item, timeout, copy, meddling>>
        /\ late' = late \/ (~Reading(c) /\ late' = late \cup {Request(c)})
    BY DEF Crash
  <1>2. /\ MessagesTyped' /\ MessageInv' /\ \A n \in Messages : Evolves(n)
    BY <1>1, MailboxUntouched
  <1>3. \A d \in Calls : d # c => /\ step'[d] = step[d] /\ item'[d] = item[d]
                                  /\ answer'[d] = answer[d] /\ copy'[d] = copy[d]
    BY <1>1 DEF Return, Typed
  <1>4. /\ LateInv' /\ late' \subseteq Requests
        /\ \A d \in Calls : d # c => CallOK(d)' /\ OutcomeOK(d)' /\ ~Running(d)'
    BY <1>1, <1>2, <1>3, CallStep
  <1>5. CallOK(c)' /\ OneRuns' /\ ~Running(c)' /\ answer'[c] = "crashed"
    BY <1>1, <1>2, <1>4, ReturnStep DEF Answers
  <1>6. Typed'
    <2>1. step' \in [Calls -> Nat] /\ answer' \in [Calls -> Answers \cup {None}]
      BY <1>1 DEF Return, Typed, Answers
    <2> QED
      BY <1>1, <1>2, <1>4, <2>1 DEF Typed, MessagesTyped
  <1>7. OutcomeOK(c)'
    BY <1>5 DEF OutcomeOK, Statuses, At
  <1> QED
    BY <1>2, <1>4, <1>5, <1>6, <1>7 DEF CallInv, OutcomeInv

LEMMA TimeoutIsNat ==
  ASSUME Typed, NEW c \in Calls
  PROVE  timeout[c] \in Nat
  <1>1. timeout[c] \in Timeouts \cup {0}
    BY DEF Typed
  <1>2. ASSUME NEW t \in Timeouts PROVE t \in Nat
    BY DeliveryAssumption
  <1>3. 0 \in Nat
    OBVIOUS
  <1> QED
    BY <1>1, <1>2, <1>3

LEMMA PollStep ==
  ASSUME DeliveryIInv, NEW c \in Calls, NEW d \in 0..PollTime, Poll(c, d)
  PROVE  DeliveryIInv'
  <1> USE DeliveryAssumption DEF DeliveryIInv
  <1>1. /\ At(c, "poll") /\ Running(c)
        /\ UNCHANGED <<msg, sentBy, late, kind, target, item, timeout, meddling>>
    BY DEF Poll, At
  <1>2. MessagesTyped' /\ MessageInv' /\ \A n \in Messages : Evolves(n)
    BY <1>1, MailboxUntouched
  <1>3. /\ OutcomeOK(c) /\ CallOK(c) /\ target[c] \in Messages
        /\ sentBy[target[c]] = <<c>>
    BY <1>1 DEF OutcomeInv, CallInv, OutcomeOK, Typed
  <1>4. \A e \in Calls : e # c => /\ step'[e] = step[e] /\ item'[e] = item[e]
                                  /\ answer'[e] = answer[e] /\ copy'[e] = copy[e]
    <2>1. UNCHANGED item
      BY <1>1
    <2>2. \A e \in Calls : e # c => step'[e] = step[e] /\ answer'[e] = answer[e]
      BY DEF Poll, Return, Typed
    <2>3. \A e \in Calls : e # c => copy'[e] = copy[e]
      BY DEF Poll, Typed
    <2> QED
      BY <2>1, <2>2, <2>3
  <1>5. /\ LateInv'
        /\ \A e \in Calls : e # c => CallOK(e)' /\ OutcomeOK(e)' /\ ~Running(e)'
    BY <1>1, <1>2, <1>4, CallStep
  <1>6. ASSUME NEW a \in {"sent_confirmed", "submitted_unconfirmed"}, Return(c, a),
               clock' = 0, copy' \in [Calls -> Messages \cup {None}],
               a = "sent_confirmed" => copy'[c] = target[c]
        PROVE  DeliveryIInv'
    <2>1. CallOK(c)' /\ OneRuns' /\ ~Running(c)' /\ answer'[c] = a
      BY <1>1, <1>2, <1>5, <1>6, ReturnStep DEF Answers, Statuses
    <2>2. Typed'
      <3>1. step' \in [Calls -> Nat] /\ answer' \in [Calls -> Answers \cup {None}]
        BY <1>6 DEF Return, Typed, Answers, Statuses
      <3> QED
        BY <1>1, <1>6, <3>1 DEF Typed
    <2>3. OutcomeOK(c)'
      BY <1>1, <1>3, <1>6, <2>1 DEF OutcomeOK, At, Statuses
    <2> QED
      BY <1>2, <1>5, <2>1, <2>2, <2>3 DEF CallInv, OutcomeInv
  <1>7. CASE /\ clock' = 0 /\ Return(c, "sent_confirmed")
             /\ \E m \in Copies(c) : copy' = [copy EXCEPT ![c] = m]
    <2>1. PICK m \in Copies(c) : copy' = [copy EXCEPT ![c] = m]
      BY <1>7
    <2>2. m \in Messages /\ msg[m].stamp = c
      BY DEF Copies
    <2>3. m = target[c]
      BY <2>2 DEF MessageInv, MessageOK
    <2> QED
      BY <1>6, <1>7, <2>1, <2>2, <2>3 DEF Typed
  <1>8. CASE clock' = 0 /\ Return(c, "submitted_unconfirmed") /\ UNCHANGED copy
    BY <1>6, <1>8 DEF Typed
  <1>9. CASE /\ ~OutOfTime(c, clock + d)
             /\ clock' = clock + d + Nap(timeout[c] - (clock + d))
             /\ UNCHANGED <<step, answer, copy>>
    <2>1. clock \in Nat /\ timeout[c] \in Nat /\ d \in Nat
      <3>1. timeout[c] \in Timeouts \cup {0} /\ clock \in Nat
        BY DEF Typed
      <3>2. Timeouts \subseteq Nat /\ PollTime \in Nat
        BY DeliveryAssumption
      <3>3. timeout[c] \in Nat
        BY TimeoutIsNat
      <3>4. d \in Nat
        BY <3>2
      <3> QED
        BY <3>1, <3>3, <3>4
    <2>2. clock' \in Nat /\ clock' <= timeout[c]
      BY <1>9, <2>1 DEF OutOfTime, Nap
    <2>3. Typed'
      BY <1>1, <1>9, <2>2 DEF Typed
    <2>4. CallOK(c)'
      BY <1>1, <1>2, <1>9, CallKept
    <2>5. OutcomeOK(c)'
      BY <1>1, <1>3, <1>9 DEF OutcomeOK, At, Running
    <2>6. OneRuns'
      <3>1. At(c, "poll")'
        BY <1>1, <1>9 DEF At, Running
      <3> QED
        BY <1>1, <1>5, <2>2, <3>1 DEF OneRuns, At
    <2> QED
      BY <1>2, <1>5, <2>3, <2>4, <2>5, <2>6 DEF CallInv, OutcomeInv
  <1> QED
    BY <1>7, <1>8, <1>9 DEF Poll

LEMMA TakesEffectStep ==
  ASSUME DeliveryIInv, NEW r \in late, TakesEffect(r)
  PROVE  DeliveryIInv'
  <1> USE DEF DeliveryIInv
  <1>1. r \in Requests /\ RequestOK(r) /\ r.call \in Calls
    BY DEF Typed, LateInv, Requests
  <1>2. /\ Apply(r) /\ late' \subseteq late /\ meddling' \in 0..MaxMeddling
        /\ UNCHANGED <<kind, target, step, item, timeout, clock, answer, copy>>
    BY DEF TakesEffect, Typed
  <1>3. /\ MessagesTyped' /\ MessageInv' /\ \A m \in Messages : Evolves(m)
        /\ \A m \in Messages :
             sentBy'[m] = IF m = r.on /\ r.op \in {"send", "create"}
                          THEN <<r.call>> ELSE sentBy[m]
        /\ r.op \in {"send", "create"} => sentBy[r.on] = <<>>
    BY <1>1, <1>2, ApplyEffect
  <1>4. \A m \in Messages : sentBy[m] # <<>> => sentBy'[m] = sentBy[m]
    BY <1>3
  <1>5. ASSUME NEW m \in Messages, NEW c \in Calls, sentBy'[m] = <<c>>
        PROVE  \/ sentBy[m] = <<c>>
               \/ \E q \in late : q.call = c /\ q.op \in {"send", "create"}
    BY <1>1, <1>3, <1>5, NoneOrOne
  <1> QED
    BY <1>2, <1>3, <1>4, <1>5, WorldStep

LEMMA AppearStep ==
  ASSUME DeliveryIInv, NEW m \in Messages, Appear(m)
  PROVE  DeliveryIInv'
  <1> USE DEF DeliveryIInv
  <1>1. /\ msg[m] \in Versions /\ msg[m].id \in Nat /\ msg[m].key \in Nat
        /\ msg' = [msg EXCEPT ![m] = [msg[m] EXCEPT !.visible = TRUE]]
        /\ UNCHANGED <<sentBy, late, kind, target, step, item, timeout, clock, answer,
                       copy, meddling>>
    BY DEF Appear, Typed, Versions
  <1>2. MessagesTyped'
    <2>1. [msg[m] EXCEPT !.visible = TRUE] \in Versions
      BY <1>1, FieldsTyped
    <2> QED
      BY <1>1, <2>1 DEF MessagesTyped, Typed
  <1>3. \A n \in Messages :
          /\ msg'[n].where = msg[n].where /\ msg'[n].draft = msg[n].draft
          /\ msg'[n].id = msg[n].id /\ msg'[n].key = msg[n].key
          /\ msg'[n].stamp = msg[n].stamp
          /\ msg[n].id \in Nat /\ msg[n].key \in Nat
    BY <1>1 DEF Typed, Versions
  <1>4. \A n \in Messages : Evolves(n)
    BY <1>3 DEF Evolves
  <1>5. MessageInv'
    BY <1>1, <1>3 DEF MessageInv, MessageOK
  <1>6. meddling' \in 0..MaxMeddling
    BY <1>1 DEF Typed
  <1> QED
    BY <1>1, <1>2, <1>4, <1>5, <1>6, WorldStep

\* The owner does something to one message: what may become of it.
LEMMA MeddleEffect ==
  ASSUME DeliveryIInv, NEW m \in Messages, NEW v \in Versions,
         msg' = [msg EXCEPT ![m] = v], v.where # "none", msg[m].where # "none",
         msg[m].id <= v.id, msg[m].key <= v.key, v.stamp = msg[m].stamp,
         v.draft = msg[m].draft \/ msg[m].id # v.id,
         v.draft => msg[m].draft,
         \/ UNCHANGED sentBy
         \/ /\ sentBy[m] = <<>> /\ ~v.draft
            /\ sentBy' = [sentBy EXCEPT ![m] = <<User>>],
         meddling' \in 0..MaxMeddling,
         UNCHANGED <<late, kind, target, step, item, timeout, clock, answer, copy>>
  PROVE  DeliveryIInv'
  <1> USE DeliveryAssumption DEF DeliveryIInv
  <1>1. msg'[m] = v /\ \A n \in Messages : n # m => msg'[n] = msg[n]
    BY DEF Typed
  <1>2. \A n \in Messages : sentBy'[n] = sentBy[n]
                              \/ (n = m /\ sentBy[n] = <<>> /\ sentBy'[n] = <<User>>
                                  /\ ~v.draft)
    BY DEF Typed
  <1>3. MessagesTyped'
    <2>1. msg' \in [Messages -> Versions]
      BY DEF Typed
    <2>2. CASE UNCHANGED sentBy
      BY <2>1, <2>2 DEF Typed, MessagesTyped
    <2>3. CASE sentBy' = [sentBy EXCEPT ![m] = <<User>>]
      BY <2>1, <2>3 DEF Typed, MessagesTyped
    <2> QED
      BY <2>2, <2>3
  <1>4. \A n \in Messages : Evolves(n)
    <2> SUFFICES ASSUME NEW n \in Messages PROVE Evolves(n)
      OBVIOUS
    <2>1. msg[n].id \in Nat /\ msg[n].key \in Nat /\ msg[n].draft \in BOOLEAN
      BY DEF Typed, Versions
    <2>2. CASE n = m
      BY <1>1, <2>1, <2>2 DEF Evolves
    <2>3. CASE n # m
      BY <1>1, <2>1, <2>3 DEF Evolves
    <2> QED
      BY <2>2, <2>3
  <1>5. \A x \in Calls : <<User>> # <<x>>
    BY NoneOrOne
  <1>6. MessageInv'
    <2> SUFFICES ASSUME NEW n \in Messages PROVE MessageOK(n)'
      BY DEF MessageInv
    <2>1. MessageOK(n)
      BY DEF MessageInv
    <2>2. CASE n = m
      BY <1>1, <1>2, <1>5, <2>1, <2>2 DEF MessageOK
    <2>3. CASE n # m
      BY <1>1, <1>2, <2>1, <2>3 DEF MessageOK
    <2> QED
      BY <2>2, <2>3
  <1>7. \A n \in Messages : sentBy[n] # <<>> => sentBy'[n] = sentBy[n]
    BY <1>2
  <1>8. \A n \in Messages, c \in Calls : sentBy'[n] = <<c>> => sentBy[n] = <<c>>
    BY <1>2, <1>5
  <1>9. late' \subseteq late
    OBVIOUS
  <1> QED
    BY <1>3, <1>4, <1>6, <1>7, <1>8, <1>9, WorldStep

LEMMA MeddleStep ==
  ASSUME DeliveryIInv, NEW m \in Messages, Meddle(m)
  PROVE  DeliveryIInv'
  <1> USE DEF DeliveryIInv
  <1> DEFINE old == msg[m]
             sent == [old EXCEPT !.where = "sent"]
             unmarked == [sent EXCEPT !.draft = FALSE]
             renamed == [unmarked EXCEPT !.id = unmarked.id + 1]
             hidden == [renamed EXCEPT !.visible = FALSE]
             back == [old EXCEPT !.where = "drafts"]
             moved == [back EXCEPT !.id = back.id + 1]
             edited == [old EXCEPT !.key = old.key + 1]
             deleted == [old EXCEPT !.where = "deleted"]
  <1>1. /\ old \in Versions /\ old.id \in Nat /\ old.key \in Nat
        /\ old.draft \in BOOLEAN /\ MessageOK(m)
        /\ meddling' \in 0..MaxMeddling
        /\ UNCHANGED <<late, kind, target, step, item, timeout, clock, answer, copy>>
    BY DeliveryAssumption DEF Meddle, Typed, Versions, MessageInv
  <1>2. sent \in Versions /\ back \in Versions /\ edited \in Versions
        /\ deleted \in Versions
    BY <1>1, FieldsTyped
  <1>3. unmarked \in Versions /\ moved \in Versions
    BY <1>2, FieldsTyped
  <1>4. renamed \in Versions
    BY <1>3, FieldsTyped
  <1>5. hidden \in Versions
    BY <1>4, FieldsTyped
  <1>6. CASE old.where = "drafts" /\ msg' = [msg EXCEPT ![m] = edited]
             /\ UNCHANGED sentBy
    <2>1. /\ edited.where = "drafts" /\ edited.id = old.id
          /\ edited.stamp = old.stamp /\ edited.draft = old.draft
      BY <1>1, <1>6 DEF Versions
    <2>2. edited.key = old.key + 1
      BY <1>1 DEF Versions
    <2>3. old.id <= edited.id /\ old.key <= edited.key
      BY <1>1, <2>1, <2>2
    <2> HIDE DEF edited
    <2> QED
      BY <1>1, <1>2, <1>6, <2>1, <2>3, MeddleEffect
  <1>7. CASE /\ old.where = "drafts" /\ old.draft
             /\ msg' = [msg EXCEPT ![m] = hidden]
             /\ sentBy' = [sentBy EXCEPT ![m] = Append(sentBy[m], User)]
    <2>1. sentBy[m] = <<>> /\ Append(sentBy[m], User) = <<User>>
      <3>1. \A x : Append(<<>>, x) = <<x>>
        OBVIOUS
      <3> QED
        BY <1>1, <1>7, <3>1 DEF MessageOK
    <2>2. /\ hidden.where = "sent" /\ hidden.id = old.id + 1 /\ hidden.key = old.key
          /\ hidden.stamp = old.stamp /\ ~hidden.draft
          /\ old.id <= hidden.id /\ old.key <= hidden.key /\ old.id # hidden.id
      BY <1>1 DEF Versions
    <2> HIDE DEF hidden
    <2> QED
      BY <1>1, <1>5, <1>7, <2>1, <2>2, MeddleEffect
  <1>8. CASE old.where = "sent" /\ msg' = [msg EXCEPT ![m] = moved]
             /\ UNCHANGED sentBy
    <2>1. /\ moved.where = "drafts" /\ moved.id = old.id + 1 /\ moved.key = old.key
          /\ moved.stamp = old.stamp /\ moved.draft = old.draft
          /\ old.id <= moved.id /\ old.key <= moved.key
      BY <1>1 DEF Versions
    <2> HIDE DEF moved
    <2> QED
      BY <1>1, <1>3, <1>8, <2>1, MeddleEffect
  <1>9. CASE old.where \in {"drafts", "sent"} /\ msg' = [msg EXCEPT ![m] = deleted]
             /\ UNCHANGED sentBy
    <2>1. /\ deleted.where = "deleted" /\ deleted.id = old.id /\ deleted.key = old.key
          /\ deleted.stamp = old.stamp /\ deleted.draft = old.draft
          /\ old.id <= deleted.id /\ old.key <= deleted.key
      BY <1>1 DEF Versions
    <2> HIDE DEF deleted
    <2> QED
      BY <1>1, <1>2, <1>9, <2>1, MeddleEffect
  <1>10. /\ [msg EXCEPT ![m].key = @ + 1] = [msg EXCEPT ![m] = edited]
         /\ [msg EXCEPT ![m].where = "sent", ![m].draft = FALSE, ![m].id = @ + 1,
                        ![m].visible = FALSE] = [msg EXCEPT ![m] = hidden]
         /\ [msg EXCEPT ![m].where = "drafts", ![m].id = @ + 1]
              = [msg EXCEPT ![m] = moved]
         /\ [msg EXCEPT ![m].where = "deleted"] = [msg EXCEPT ![m] = deleted]
    BY <1>1 DEF Typed, Versions
  <1> QED
    BY <1>6, <1>7, <1>8, <1>9, <1>10 DEF Meddle

-----------------------------------------------------------------------------
(***************************************************************************)
(* The theorems.                                                           *)
(***************************************************************************)
\* The inductive invariant holds of every reachable state.
THEOREM DeliveryInvariant == Spec => []DeliveryIInv
  <1>1. DeliveryIInv /\ [Next]_vars => DeliveryIInv'
    <2> SUFFICES ASSUME DeliveryIInv, [Next]_vars PROVE DeliveryIInv'
      OBVIOUS
    <2>1. ASSUME NEW c \in Calls, NEW k \in Kinds, NEW m \in Messages,
                 NEW t \in Timeouts, Start(c, k, m, t)
          PROVE  DeliveryIInv'
      BY <2>1, StartStep
    <2>2. ASSUME NEW c \in Calls, Fetch(c) \/ Succeed(c) \/ Fail(c) \/ Crash(c)
          PROVE  DeliveryIInv'
      BY <2>2, FetchStep, SucceedStep, FailStep, CrashStep
    <2>3. ASSUME NEW c \in Calls, NEW d \in 0..PollTime, Poll(c, d)
          PROVE  DeliveryIInv'
      BY <2>3, PollStep
    <2>4. ASSUME NEW r \in late, TakesEffect(r) PROVE DeliveryIInv'
      BY <2>4, TakesEffectStep
    <2>5. ASSUME NEW m \in Messages, Appear(m) \/ Meddle(m) PROVE DeliveryIInv'
      BY <2>5, AppearStep, MeddleStep
    <2>6. ASSUME UNCHANGED vars PROVE DeliveryIInv'
      <3>1. UNCHANGED <<msg, sentBy, late, kind, target, step, item, timeout, clock,
                        answer, copy, meddling>>
        BY <2>6 DEF vars
      <3>2. MessagesTyped' /\ MessageInv' /\ \A m \in Messages : Evolves(m)
        BY <3>1, MailboxUntouched DEF DeliveryIInv
      <3>3. late' \subseteq late /\ meddling' \in 0..MaxMeddling
        BY <3>1 DEF DeliveryIInv, Typed
      <3> QED
        BY <3>1, <3>2, <3>3, WorldStep
    <2> QED
      BY <2>1, <2>2, <2>3, <2>4, <2>5, <2>6 DEF Next
  <1> QED
    BY <1>1, DeliveryStart, PTL DEF Spec

\* A message has been sent by c just when it has been sent, and by c.
LEMMA SentOnce ==
  ASSUME Typed, NEW m \in Messages, NEW c
  PROVE  SentBy(c, m) <=> sentBy[m] = <<c>>
  <1>1. sentBy[m] = <<>> \/ \E x \in Calls \cup {User} : sentBy[m] = <<x>>
    BY DEF Typed
  <1>2. CASE sentBy[m] = <<>>
    <2>1. Len(sentBy[m]) = 0
      BY <1>2
    <2>2. ~SentBy(c, m)
      BY <2>1 DEF SentBy
    <2> QED
      BY <1>2, <2>2, NoneOrOne
  <1>3. ASSUME NEW x \in Calls \cup {User}, sentBy[m] = <<x>>
        PROVE  SentBy(c, m) <=> sentBy[m] = <<c>>
    <2>1. Len(sentBy[m]) = 1 /\ sentBy[m][1] = x
      BY <1>3
    <2>2. SentBy(c, m) <=> x = c
      BY <2>1 DEF SentBy
    <2> QED
      BY <1>3, <2>2, NoneOrOne
  <1> QED
    BY <1>1, <1>2, <1>3

\* No message goes out twice, whatever fails, is retried, comes late or is done
\* by the owner.
THEOREM DeliveryDeliveredOnce == Spec => []DeliveredOnce
  <1>1. DeliveryIInv => DeliveredOnce
    <2> SUFFICES ASSUME DeliveryIInv, NEW m \in Messages
                 PROVE  Len(sentBy[m]) <= 1
      BY DEF DeliveredOnce
    <2>1. sentBy[m] = <<>> \/ \E x \in Calls \cup {User} : sentBy[m] = <<x>>
      BY DEF DeliveryIInv, Typed
    <2>2. CASE sentBy[m] = <<>>
      <3>1. Len(sentBy[m]) = 0
        BY <2>2
      <3> QED
        BY <3>1
    <2>3. ASSUME NEW x, sentBy[m] = <<x>> PROVE Len(sentBy[m]) <= 1
      <3>1. Len(sentBy[m]) = 1
        BY <2>3
      <3> QED
        BY <3>1
    <2> QED
      BY <2>1, <2>2, <2>3
  <1> QED
    BY <1>1, DeliveryInvariant, PTL

\* Each status a tool reports means that this very call sent the message, and
\* the copy a confirmation names is the one it sent.
THEOREM DeliveryTruthfulAnswer == Spec => []TruthfulAnswer
  <1>1. DeliveryIInv => TruthfulAnswer
    <2> SUFFICES ASSUME DeliveryIInv, NEW c \in Calls
                 PROVE  /\ answer[c] \in Statuses => SentBy(c, target[c])
                        /\ answer[c] = "sent_confirmed" => copy[c] = target[c]
      BY DEF TruthfulAnswer
    <2>1. OutcomeOK(c) /\ Typed /\ target[c] \in Messages
      BY DEF DeliveryIInv, OutcomeInv, Typed
    <2> QED
      BY <2>1, SentOnce DEF OutcomeOK
  <1> QED
    BY <1>1, DeliveryInvariant, PTL

\* A call that ends in a plain error has sent nothing and never will.
THEOREM DeliveryPlainErrorMeansUnsent == Spec => []PlainErrorMeansUnsent
  <1>1. DeliveryIInv => PlainErrorMeansUnsent
    <2> SUFFICES ASSUME DeliveryIInv, NEW c \in Calls, answer[c] = "error",
                        kind[c] \in Stamped
                 PROVE  ~SentSomething(c)
      BY DEF PlainErrorMeansUnsent
    <2>1. Typed /\ \A m \in Messages : sentBy[m] # <<c>>
      BY DEF DeliveryIInv, OutcomeInv, OutcomeOK
    <2> QED
      BY <2>1, SentOnce DEF SentSomething
  <1> QED
    BY <1>1, DeliveryInvariant, PTL

\* What send_draft, or a reply with mentions, sent carries its submission id
\* for good.
THEOREM DeliveryCopyCarriesSubmission == Spec => []CopyCarriesSubmission
  <1>1. DeliveryIInv => CopyCarriesSubmission
    <2> SUFFICES ASSUME DeliveryIInv, NEW c \in Calls, NEW m \in Messages,
                        SentBy(c, m), kind[c] \in Stamped
                 PROVE  msg[m].stamp = c
      BY DEF CopyCarriesSubmission
    <2>1. sentBy[m] = <<c>>
      BY SentOnce DEF DeliveryIInv
    <2> QED
      BY <2>1 DEF DeliveryIInv, MessageInv, MessageOK
  <1> QED
    BY <1>1, DeliveryInvariant, PTL

-----------------------------------------------------------------------------
\* Types.

\* Types, and the budget of the search.
THEOREM DeliveryTypes == Spec => []TypeOK
  <1>1. DeliveryIInv => TypeOK
    <2> SUFFICES ASSUME DeliveryIInv PROVE TypeOK
      OBVIOUS
    <2>1. Typed
      BY DEF DeliveryIInv
    <2>2. sentBy \in [Messages -> Seq(Calls \cup {User})]
      <3>1. ASSUME NEW x \in Calls \cup {User} PROVE <<x>> \in Seq(Calls \cup {User})
        OBVIOUS
      <3>2. <<>> \in Seq(Calls \cup {User})
        OBVIOUS
      <3>3. ASSUME NEW m \in Messages PROVE sentBy[m] \in Seq(Calls \cup {User})
        <4>1. sentBy[m] = <<>> \/ \E x \in Calls \cup {User} : sentBy[m] = <<x>>
          BY <2>1 DEF Typed
        <4> QED
          BY <4>1, <3>1, <3>2
      <3> HIDE DEF Messages
      <3>4. sentBy = [m \in Messages |-> sentBy[m]]
        BY <2>1 DEF Typed
      <3> QED
        BY <3>3, <3>4
    <2>3. \A r \in late : /\ r.call \in Calls /\ r.on \in Messages
                          /\ r.id \in Nat /\ r.key \in Nat
      BY <2>1 DEF Typed, Requests
    <2>4. \A c \in Calls : step[c] # 0 => step[c] \in 1..Len(Plan(kind[c]))
      BY DEF DeliveryIInv, CallInv, CallOK, Running
    <2>5. \A c \in Calls : At(c, "poll") => clock <= timeout[c]
      BY DEF DeliveryIInv, OneRuns
    <2> QED
      BY <2>1, <2>2, <2>3, <2>4, <2>5 DEF Typed, TypeOK
  <1> QED
    BY <1>1, DeliveryInvariant, PTL
=============================================================================
