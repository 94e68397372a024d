---------------------------- MODULE DraftProofs ----------------------------
(***************************************************************************)
(* The tools that write a draft: mentions reach somebody, and a draft has  *)
(* the attachments asked for, whichever request of whichever call fails.   *)
(***************************************************************************)
EXTENDS DraftEditing, FiniteSetTheorems, FunctionTheorems, SequenceTheorems, TLAPS

-----------------------------------------------------------------------------
Attachments == [id : Nat, file : Files]

\* The requests that follow from the copy of the draft.
Jobs == [op : {"header", "attach", "detach", "save"}, file : Files \cup {Unset},
         id : Nat]

\* Two sequences joined.
LEMMA Joined ==
  ASSUME NEW S, NEW p \in Seq(S), NEW q \in Seq(S), NEW m, NEW n,
         Len(p) = m, Len(q) = n
  PROVE  /\ p \o q \in Seq(S) /\ Len(p \o q) = m + n
         /\ \A i \in 1..m : i \in 1..(m + n) /\ (p \o q)[i] = p[i]
         /\ \A i \in 1..n : m + i \in 1..(m + n) /\ (p \o q)[m + i] = q[i]
<1>1. m \in Nat /\ n \in Nat /\ p \o q \in Seq(S) /\ Len(p \o q) = m + n
  OBVIOUS
<1>2. \A i \in 1..m : i \in 1..(m + n)
  BY <1>1
<1>3. \A i \in 1..m : (p \o q)[i] = p[i]
  BY <1>1
<1>4. \A i \in 1..n : /\ m + i \in 1..(m + n)
                      /\ m + i > m /\ (m + i) - m = i
  BY <1>1
<1>5. \A i \in 1..n : (p \o q)[m + i] = q[i]
  BY <1>1, <1>4
<1> QED
  BY <1>1, <1>2, <1>3, <1>4, <1>5

LEMMA JoinedSecond ==
  ASSUME NEW S, NEW p \in Seq(S), NEW q \in Seq(S)
  PROVE  \A i \in 1..Len(q) : (p \o q)[Len(p) + i] = q[i]
BY Joined

LEMMA ThreeJoined ==
  ASSUME NEW S, NEW p \in Seq(S), NEW q \in Seq(S), NEW t \in Seq(S)
  PROVE  /\ (p \o q) \o t \in Seq(S)
         /\ Len((p \o q) \o t) = (Len(p) + Len(q)) + Len(t)
         /\ \A i \in 1..Len(p) : ((p \o q) \o t)[i] = p[i]
         /\ \A i \in 1..Len(q) : ((p \o q) \o t)[Len(p) + i] = q[i]
         /\ \A i \in 1..Len(t) : ((p \o q) \o t)[(Len(p) + Len(q)) + i] = t[i]
<1> DEFINE u == p \o q
<1>1. u \in Seq(S) /\ Len(u) = Len(p) + Len(q)
  BY Joined
<1>2. \A i \in 1..Len(p) : i \in 1..Len(u) /\ u[i] = p[i]
  BY Joined
<1>3. \A i \in 1..Len(q) : Len(p) + i \in 1..Len(u) /\ u[Len(p) + i] = q[i]
  BY Joined
<1> HIDE DEF u
<1>4. u \o t \in Seq(S) /\ Len(u \o t) = Len(u) + Len(t)
  <2>1. \A v \in Seq(S) : v \o t \in Seq(S) /\ Len(v \o t) = Len(v) + Len(t)
    OBVIOUS
  <2> QED
    BY <1>1, <2>1, Zenon
<1>5. \A i \in 1..Len(u) : (u \o t)[i] = u[i]
  BY <1>1, Joined
<1>6. \A i \in 1..Len(t) : (u \o t)[Len(u) + i] = t[i]
  BY <1>1, JoinedSecond, Zenon
<1>7. \A i \in 1..Len(p) : (u \o t)[i] = p[i]
  BY <1>2, <1>5
<1>8. \A i \in 1..Len(q) : (u \o t)[Len(p) + i] = q[i]
  BY <1>3, <1>5
<1>9. /\ Len(u \o t) = (Len(p) + Len(q)) + Len(t)
      /\ \A i \in 1..Len(t) : (u \o t)[(Len(p) + Len(q)) + i] = t[i]
  BY <1>1, <1>4, <1>6, Zenon
<1> QED
  BY <1>4, <1>7, <1>8, <1>9 DEF u

\* SetToSeq lists each element of a finite set, once.
LEMMA SetListed ==
  ASSUME NEW S, IsFiniteSet(S)
  PROVE  /\ Cardinality(S) \in Nat
         /\ SetToSeq(S) \in Bijection(1..Cardinality(S), S)
<1>1. Cardinality(S) \in Nat /\ ExistsBijection(1..Cardinality(S), S)
  BY FS_CardinalityType
<1>2. PICK f : f \in Bijection(1..Cardinality(S), S)
  BY <1>1 DEF ExistsBijection
<1>3. f \in [1..Cardinality(S) -> S] /\ IsInjective(f)
  BY <1>2 DEF Bijection, Injection
<1>4. SetToSeq(S) \in [1..Cardinality(S) -> S] /\ IsInjective(SetToSeq(S))
  BY <1>3 DEF SetToSeq
<1>5. SetToSeq(S) \in Injection(1..Cardinality(S), S)
  BY <1>4 DEF Injection
<1>6. Cardinality(1..Cardinality(S)) = Cardinality(S)
  BY <1>1, FS_Interval
<1>7. SetToSeq(S) \in Surjection(1..Cardinality(S), S)
  BY <1>5, <1>6, FS_Injection
<1> QED
  BY <1>1, <1>5, <1>7 DEF Bijection

\* The requests that detach each attachment of a set.
LEMMA DetachJobs ==
  ASSUME NEW S \in SUBSET Attachments, IsFiniteSet(S)
  PROVE  /\ Detach(S) \in Seq(Jobs)
         /\ Len(Detach(S)) \in Nat
         /\ Len(Detach(S)) = 0 <=> S = {}
         /\ \A i \in 1..Len(Detach(S)) :
              Detach(S)[i].op = "detach" /\ \E a \in S : a.id = Detach(S)[i].id
         /\ \A a \in S : \E i \in 1..Len(Detach(S)) : Detach(S)[i].id = a.id
<1> DEFINE n == Cardinality(S)
           f == SetToSeq(S)
<1>1. n \in Nat /\ f \in Bijection(1..n, S)
  BY SetListed
<1>2. f \in [1..n -> S] /\ \A a \in S : \E i \in 1..n : f[i] = a
  BY <1>1 DEF Bijection, Injection, Surjection
<1>3. f \in Seq(S) /\ Len(f) = n
  BY <1>1, <1>2
<1>4. Detach(S) = [i \in 1..n |-> [op |-> "detach", file |-> Unset, id |-> f[i].id]]
  BY <1>3 DEF Detach, Op
<1> HIDE DEF f, n
<1>5. \A i \in 1..n : f[i] \in S /\ f[i].id \in Nat
  BY <1>2 DEF Attachments
<1>6. \A i \in 1..n : [op |-> "detach", file |-> Unset, id |-> f[i].id] \in Jobs
  BY <1>5 DEF Jobs
<1>7. Detach(S) \in Seq(Jobs) /\ Len(Detach(S)) = n
  BY <1>1, <1>4, <1>6
<1>8. \A i \in 1..n : Detach(S)[i].op = "detach" /\ Detach(S)[i].id = f[i].id
  BY <1>4
<1>9. n = 0 <=> S = {}
  BY <1>1, <1>2
<1> QED
  BY <1>1, <1>2, <1>5, <1>7, <1>8, <1>9, SMTT(30)

\* The requests that attach the files of a request.
LEMMA AttachJobs ==
  ASSUME NEW files \in Seq(Files)
  PROVE  /\ Attach(files) \in Seq(Jobs)
         /\ Len(Attach(files)) = Len(files)
         /\ Len(files) \in Nat
         /\ \A i \in 1..Len(files) :
              Attach(files)[i].op = "attach" /\ Attach(files)[i].file = files[i]
<1>1. Len(files) \in Nat /\ \A i \in 1..Len(files) : files[i] \in Files
  OBVIOUS
<1>2. Attach(files) = [i \in 1..Len(files) |->
                         [op |-> "attach", file |-> files[i], id |-> 0]]
  BY DEF Attach, Op
<1>3. \A i \in 1..Len(files) : [op |-> "attach", file |-> files[i], id |-> 0] \in Jobs
  BY <1>1 DEF Jobs
<1> QED
  BY <1>1, <1>2, <1>3

\* What the requests are that a call sends once it has the draft.
LEMMA ReplyJobs ==
  ASSUME NEW r \in RequestType, NEW d, NEW h \in 0..1,
         r.tool = "create_reply_draft", r.files \in Seq(Files),
         h = 0 <=> r.mentions = {}
  PROVE  /\ NextJobs(r, d) \in Seq(Jobs)
         /\ Len(NextJobs(r, d)) = h + Len(r.files)
         /\ \A i \in 1..h : NextJobs(r, d)[i].op = "header"
         /\ \A i \in 1..Len(r.files) :
              /\ NextJobs(r, d)[h + i].op = "attach"
              /\ NextJobs(r, d)[h + i].file = r.files[i]
<1> DEFINE p == IF r.mentions # {} THEN <<Op("header")>> ELSE <<>>
           q == Attach(r.files)
<1>1. NextJobs(r, d) = p \o q
  BY DEF NextJobs
<1>2. Op("header") \in Jobs /\ Op("header").op = "header"
  BY DEF Op, Jobs
<1>3. p \in Seq(Jobs) /\ Len(p) = h /\ \A i \in 1..h : p[i].op = "header"
  <2>1. CASE r.mentions = {}
    BY <2>1
  <2>2. CASE r.mentions # {}
    BY <1>2, <2>2
  <2> QED
    BY <2>1, <2>2
<1>4. /\ q \in Seq(Jobs) /\ Len(q) = Len(r.files) /\ Len(r.files) \in Nat
      /\ \A i \in 1..Len(r.files) : q[i].op = "attach" /\ q[i].file = r.files[i]
  BY AttachJobs
<1> HIDE DEF p, q
<1>5. /\ p \o q \in Seq(Jobs) /\ Len(p \o q) = h + Len(r.files)
      /\ \A i \in 1..h : i \in 1..(h + Len(r.files)) /\ (p \o q)[i] = p[i]
      /\ \A i \in 1..Len(r.files) : /\ h + i \in 1..(h + Len(r.files))
                                    /\ (p \o q)[h + i] = q[i]
  <2>1. p \in Seq(Jobs) /\ q \in Seq(Jobs) /\ Len(p) = h /\ Len(q) = Len(r.files)
    BY <1>3, <1>4
  <2>2. p \o q \in Seq(Jobs) /\ Len(p \o q) = h + Len(r.files)
    BY <2>1, Joined
  <2>3. \A i \in 1..h : i \in 1..(h + Len(r.files)) /\ (p \o q)[i] = p[i]
    BY <2>1, Joined
  <2>4. \A i \in 1..Len(r.files) : /\ h + i \in 1..(h + Len(r.files))
                                 /\ (p \o q)[h + i] = q[i]
    BY <2>1, Joined
  <2> QED
    BY <2>2, <2>3, <2>4
<1> QED
  BY <1>1, <1>3, <1>4, <1>5, SMTT(30)

LEMMA SaveJobs ==
  ASSUME NEW r
  PROVE  /\ Save(r) \in Seq(Jobs) /\ Len(Save(r)) \in 0..1
         /\ Len(Save(r)) = 1 => Save(r)[1].op = "save"
         /\ SavesFields(r) => Len(Save(r)) = 1
         /\ ~SavesFields(r) => Len(Save(r)) = 0
<1>1. Op("save") \in Jobs /\ Op("save").op = "save"
  BY DEF Op, Jobs
<1>2. CASE SavesFields(r)
  BY <1>1, <1>2 DEF Save
<1>3. CASE ~SavesFields(r)
  BY <1>3 DEF Save
<1> QED
  BY <1>2, <1>3

LEMMA UpdateJobs ==
  ASSUME NEW r \in RequestType, NEW d \in Drafts, IsFiniteSet(d.files),
         r.tool = "update_draft", r.files # Unset,
         NEW k \in Nat, Len(Detach(d.files)) = k, NEW b \in Nat, Len(r.files) = b,
         NEW e \in Nat, Len(Save(r)) = e
  PROVE  /\ NextJobs(r, d) \in Seq(Jobs)
         /\ Len(NextJobs(r, d)) = (k + b) + e
         /\ \A i \in 1..k : /\ NextJobs(r, d)[i].op = "detach"
                            /\ \E a \in d.files : a.id = NextJobs(r, d)[i].id
         /\ \A a \in d.files : \E i \in 1..k : NextJobs(r, d)[i].id = a.id
         /\ \A i \in 1..b : /\ NextJobs(r, d)[k + i].op = "attach"
                            /\ NextJobs(r, d)[k + i].file = r.files[i]
         /\ e = 1 => NextJobs(r, d)[(k + b) + 1].op = "save"
<1> DEFINE p == Detach(d.files)
           q == Attach(r.files)
           s == Save(r)
<1>1. NextJobs(r, d) = (p \o q) \o s
  BY DEF NextJobs, Update, Replace
<1>2. d.files \in SUBSET Attachments /\ r.files \in Seq(Files)
  BY DEF Drafts, Attachments, RequestType
<1>3. /\ p \in Seq(Jobs) /\ Len(p) \in Nat
      /\ \A i \in 1..Len(p) : p[i].op = "detach" /\ \E a \in d.files : a.id = p[i].id
      /\ \A a \in d.files : \E i \in 1..Len(p) : p[i].id = a.id
  BY <1>2, DetachJobs
<1>4. /\ q \in Seq(Jobs) /\ Len(q) = b /\ b \in Nat
      /\ \A i \in 1..b : q[i].op = "attach" /\ q[i].file = r.files[i]
  BY <1>2, AttachJobs
<1>6. s \in Seq(Jobs) /\ Len(s) = e /\ (e = 1 => s[1].op = "save")
  BY SaveJobs
<1>7. Len(p) = k /\ k \in Nat
  BY <1>3
<1> HIDE DEF p, q, s
<1>8. /\ p \in Seq(Jobs) /\ q \in Seq(Jobs) /\ s \in Seq(Jobs)
      /\ Len(p) = k /\ Len(q) = b /\ Len(s) = e
  BY <1>3, <1>4, <1>6, <1>7
<1> DEFINE all == (p \o q) \o s
<1> HIDE DEF all
<1>9. /\ all \in Seq(Jobs) /\ Len(all) = (Len(p) + Len(q)) + Len(s)
      /\ \A i \in 1..Len(p) : all[i] = p[i]
      /\ \A i \in 1..Len(q) : all[Len(p) + i] = q[i]
      /\ \A i \in 1..Len(s) : all[(Len(p) + Len(q)) + i] = s[i]
  <2>1. p \in Seq(Jobs) /\ q \in Seq(Jobs) /\ s \in Seq(Jobs)
    BY <1>8
  <2> QED
    BY <2>1, ThreeJoined DEF all
<1>10. all \in Seq(Jobs) /\ Len(all) = (k + b) + e
  BY <1>8, <1>9, Zenon
<1>11. \A i \in 1..k : all[i] = p[i]
  BY <1>8, <1>9, Zenon
<1>12. /\ \A i \in 1..b : all[k + i] = q[i]
       /\ \A i \in 1..e : all[(k + b) + i] = s[i]
  BY <1>8, <1>9, Zenon
<1>13. NextJobs(r, d) = all
  BY <1>1 DEF all
<1>14. e = 1 => all[(k + b) + 1].op = "save"
  <2>1. e = 1 => 1 \in 1..e
    OBVIOUS
  <2> QED
    BY <1>6, <1>12, <2>1
<1>15. \A i \in 1..k : all[i].op = "detach" /\ \E a \in d.files : a.id = all[i].id
  BY <1>3, <1>7, <1>11, ZenonT(30)
<1>16. \A a \in d.files : \E i \in 1..k : all[i].id = a.id
  <2>1. \A a \in d.files : \E i \in 1..k : p[i].id = a.id
    BY <1>3, <1>7
  <2> QED
    BY <1>11, <2>1
<1>17. \A i \in 1..b : all[k + i].op = "attach" /\ all[k + i].file = r.files[i]
  BY <1>4, <1>12
<1> QED
  BY <1>4, <1>7, <1>10, <1>13, <1>14, <1>15, <1>16, <1>17

LEMMA FieldsJobs ==
  ASSUME NEW r, NEW d, r.tool = "update_draft", r.files = Unset
  PROVE  NextJobs(r, d) = Save(r)
<1>1. NextJobs(r, d) = <<>> \o Save(r)
  BY DEF NextJobs, Update, Replace
<1> QED
  BY <1>1, SaveJobs

\* Attachments numbered in a row, one for each file of a list: the list has each
\* file as often as they do.
LEMMA FirstFilesThere ==
  ASSUME NEW files \in Seq(Files), NEW base \in Int, NEW S,
         S = {[id |-> base + j, file |-> files[j]] : j \in 1..Len(files)}
  PROVE  \A f \in Files : Copies(S, f) = Asked(files, f)
<1> SUFFICES ASSUME NEW f \in Files PROVE Copies(S, f) = Asked(files, f)
  OBVIOUS
<1> DEFINE I == {i \in 1..Len(files) : files[i] = f}
           T == {a \in S : a.file = f}
           g == [i \in I |-> [id |-> base + i, file |-> files[i]]]
<1>1. Len(files) \in Nat
  OBVIOUS
<1>2. IsFiniteSet(I)
  <2>1. IsFiniteSet(1..Len(files)) /\ I \subseteq 1..Len(files)
    BY <1>1, FS_Interval
  <2> QED
    BY <2>1, FS_Subset
<1>3. \A i \in I : g[i] = [id |-> base + i, file |-> files[i]] /\ g[i] \in T
  OBVIOUS
<1>4. g \in [I -> T]
  BY <1>3
<1>5. \A i, j \in I : g[i] = g[j] => i = j
  <2> SUFFICES ASSUME NEW i \in I, NEW j \in I, g[i] = g[j] PROVE i = j
    OBVIOUS
  <2>1. base + i = base + j
    <3>1. g[i].id = base + i /\ g[j].id = base + j
      BY <1>3
    <3> QED
      BY <3>1
  <2> QED
    BY <1>1, <2>1
<1>6. \A a \in T : \E i \in I : g[i] = a
  <2> SUFFICES ASSUME NEW a \in T PROVE \E i \in I : g[i] = a
    OBVIOUS
  <2>1. PICK j \in 1..Len(files) : a = [id |-> base + j, file |-> files[j]]
    OBVIOUS
  <2>2. j \in I
    BY <2>1
  <2> QED
    BY <1>3, <2>1, <2>2
<1>7. DOMAIN g = I
  OBVIOUS
<1> HIDE DEF g, I, T
<1>8. g \in Bijection(I, T)
  BY <1>4, <1>5, <1>6, <1>7 DEF Bijection, Injection, Surjection, IsInjective
<1>9. Cardinality(T) = Cardinality(I)
  BY <1>2, <1>8, FS_Bijection DEF ExistsBijection
<1> QED
  BY <1>9 DEF Copies, Asked, I, T

-----------------------------------------------------------------------------
\* What the type invariant says of the draft on the server.
Server ==
  /\ draft \in Drafts /\ IsFiniteSet(draft.files) /\ nextId \in Nat
  /\ \A a \in draft.files : a.id <= nextId

\* What is known of a request.
LEMMA AboutRequests ==
  ASSUME NEW r \in Requests
  PROVE  /\ r \in RequestType
         /\ r.mentions \subseteq People
         /\ r.tool \in Creators => /\ r.to \in SUBSET People /\ r.cc \in SUBSET People
                                   /\ r.to # Unset /\ r.cc # Unset
                                   /\ r.files \in Seq(Files) /\ r.files # Unset
         /\ r.tool = "add_attachment" => r.files \in Seq(Files) /\ Len(r.files) = 1
         /\ r.body => r.tool \in Creators \cup {"update_draft"}
         /\ r.mentions # {} => r.body
<1>1. r \in RequestType
  BY DraftAssumption DEF DraftAssumption
<1>2. /\ r.to \in {Unset} \cup SUBSET People /\ r.cc \in {Unset} \cup SUBSET People
      /\ r.mentions \in SUBSET People /\ r.files \in {Unset} \cup Seq(Files)
  BY <1>1 DEF RequestType
<1>3. /\ r.mentions # {} => r.body
      /\ r.body => r.tool \in Creators \cup {"update_draft"}
      /\ r.tool \in Creators => r.to # Unset /\ r.cc # Unset /\ r.files # Unset
      /\ r.tool = "add_attachment" => r.files # Unset /\ Len(r.files) = 1
  BY DraftAssumption DEF DraftAssumption
<1> QED
  BY <1>1, <1>2, <1>3

\* What the requests do that change only the attachments, or the header.
LEMMA AttachStep ==
  ASSUME Server, NEW j, j.op = "attach", j.file \in Files, Apply(j)
  PROVE  /\ Server' /\ nextId' = nextId + 1
         /\ draft.exists /\ draft'.exists /\ Fields(draft') = Fields(draft)
         /\ draft'.files = draft.files \cup {[id |-> nextId + 1, file |-> j.file]}
<1>1. /\ draft.exists /\ nextId' = nextId + 1
      /\ draft' = [draft EXCEPT !.files = @ \cup {[id |-> nextId + 1, file |-> j.file]}]
  BY DEF Apply, Accepted, Result, NewIds
<1>2. /\ draft \in Drafts /\ IsFiniteSet(draft.files) /\ nextId \in Nat
      /\ \A a \in draft.files : a.id <= nextId
  BY DEF Server
<1>3. /\ draft' \in Drafts
      /\ draft'.exists = draft.exists /\ draft'.to = draft.to /\ draft'.cc = draft.cc
      /\ draft'.mentioned = draft.mentioned /\ draft'.header = draft.header
      /\ draft'.files = draft.files \cup {[id |-> nextId + 1, file |-> j.file]}
  <2>1. draft.files \cup {[id |-> nextId + 1, file |-> j.file]}
          \in SUBSET [id : Nat, file : Files]
    BY <1>2 DEF Drafts
  <2> DEFINE S == draft.files \cup {[id |-> nextId + 1, file |-> j.file]}
  <2>2. draft' = [draft EXCEPT !.files = S]
    BY <1>1
  <2> HIDE DEF S
  <2>3. S \in SUBSET [id : Nat, file : Files]
    BY <2>1 DEF S
  <2>4. draft' \in Drafts /\ draft'.files = S
        /\ draft'.exists = draft.exists /\ draft'.to = draft.to /\ draft'.cc = draft.cc
        /\ draft'.mentioned = draft.mentioned /\ draft'.header = draft.header
    BY <1>2, <2>2, <2>3 DEF Drafts
  <2> QED
    BY <2>4 DEF S
<1>4. IsFiniteSet(draft'.files)
  BY <1>2, <1>3, FS_AddElement, ZenonT(30)
<1>5. \A a \in draft'.files : a.id <= nextId'
  <2> SUFFICES ASSUME NEW a \in draft'.files PROVE a.id <= nextId'
    OBVIOUS
  <2>1. CASE a \in draft.files
    <3>1. a.id \in Nat /\ a.id <= nextId
      BY <1>2, <2>1 DEF Drafts
    <3> QED
      BY <1>1, <1>2, <3>1
  <2>2. CASE a = [id |-> nextId + 1, file |-> j.file]
    BY <1>1, <1>2, <2>2
  <2> QED
    BY <1>3, <2>1, <2>2
<1> QED
  BY <1>1, <1>2, <1>3, <1>4, <1>5 DEF Server, Fields

LEMMA DetachStep ==
  ASSUME Server, NEW j, j.op = "detach", Apply(j)
  PROVE  /\ Server' /\ nextId' = nextId
         /\ draft.exists /\ draft'.exists /\ Fields(draft') = Fields(draft)
         /\ draft'.files = {a \in draft.files : a.id # j.id}
<1>1. /\ draft.exists /\ nextId' = nextId + 0
      /\ draft' = [draft EXCEPT !.files = {a \in @ : a.id # j.id}]
  BY DEF Apply, Accepted, Result, NewIds
<1>2. /\ draft \in Drafts /\ IsFiniteSet(draft.files) /\ nextId \in Nat
      /\ \A a \in draft.files : a.id <= nextId
  BY DEF Server
<1>3. /\ draft' \in Drafts
      /\ draft'.exists = draft.exists /\ draft'.to = draft.to /\ draft'.cc = draft.cc
      /\ draft'.mentioned = draft.mentioned /\ draft'.header = draft.header
      /\ draft'.files = {a \in draft.files : a.id # j.id}
  BY <1>1, <1>2 DEF Drafts
<1>4. IsFiniteSet(draft'.files)
  BY <1>2, <1>3, FS_Subset
<1>5. nextId' = nextId
  BY <1>1, <1>2
<1> QED
  BY <1>1, <1>2, <1>3, <1>4, <1>5 DEF Server, Fields

LEMMA HeaderStep ==
  ASSUME Server, NEW j, j.op = "header", Apply(j), call \in Requests
  PROVE  /\ Server' /\ nextId' = nextId /\ draft.exists /\ draft'.exists
         /\ draft'.to = draft.to /\ draft'.cc = draft.cc
         /\ draft'.mentioned = draft.mentioned /\ draft'.header = call.mentions
         /\ draft'.files = draft.files
<1>1. /\ draft.exists /\ nextId' = nextId + 0
      /\ draft' = [draft EXCEPT !.header = call.mentions]
  BY DEF Apply, Accepted, Result, NewIds
<1>2. /\ draft \in Drafts /\ IsFiniteSet(draft.files) /\ nextId \in Nat
      /\ \A a \in draft.files : a.id <= nextId
  BY DEF Server
<1>3. call.mentions \subseteq People
  BY AboutRequests
<1>4. /\ draft' \in Drafts
      /\ draft'.exists = draft.exists /\ draft'.to = draft.to /\ draft'.cc = draft.cc
      /\ draft'.mentioned = draft.mentioned /\ draft'.header = call.mentions
      /\ draft'.files = draft.files
  BY <1>1, <1>2, <1>3 DEF Drafts
<1>5. nextId' = nextId
  BY <1>1, <1>2
<1> QED
  BY <1>1, <1>2, <1>4, <1>5 DEF Server

\* What saving the fields does.
LEMMA SaveStep ==
  ASSUME Server, NEW j, j.op = "save", Apply(j), call \in Requests, fetched \in Drafts,
         NEW to, to = Given(call.to, fetched.to),
         NEW cc, cc = Given(call.cc, fetched.cc)
  PROVE  /\ Server' /\ nextId' = nextId /\ draft.exists /\ draft'.exists
         /\ to \subseteq People /\ cc \subseteq People
         /\ draft'.to = IF call.to # Unset \/ AddedTo(to, cc, call) # {}
                        THEN to \cup AddedTo(to, cc, call) ELSE draft.to
         /\ draft'.cc = Given(call.cc, draft.cc)
         /\ draft'.mentioned = IF call.body THEN call.mentions ELSE draft.mentioned
         /\ draft'.header = NewHeader(call, draft)
         /\ draft'.files = draft.files
<1>1. draft.exists /\ nextId' = nextId + 0 /\ draft' = Saved(call, draft)
  BY DEF Apply, Accepted, Result, NewIds
<1>2. /\ draft \in Drafts /\ IsFiniteSet(draft.files) /\ nextId \in Nat
      /\ \A a \in draft.files : a.id <= nextId
  BY DEF Server
<1>3. /\ call.mentions \subseteq People /\ call.addTo \subseteq People
      /\ call.to \in {Unset} \cup SUBSET People /\ call.cc \in {Unset} \cup SUBSET People
  BY AboutRequests DEF RequestType
<1>4. /\ to \subseteq People /\ cc \subseteq People
      /\ Given(call.cc, draft.cc) \subseteq People
      /\ AddedTo(to, cc, call) \subseteq People
      /\ NewHeader(call, draft) \subseteq People
  BY <1>2, <1>3 DEF Drafts, Given, AddedTo, NewHeader
<1>5. draft' = [draft EXCEPT
                  !.to = IF call.to # Unset \/ AddedTo(to, cc, call) # {}
                         THEN to \cup AddedTo(to, cc, call) ELSE @,
                  !.cc = Given(call.cc, @),
                  !.mentioned = IF call.body THEN call.mentions ELSE @,
                  !.header = NewHeader(call, draft)]
  BY <1>1 DEF Saved
<1> DEFINE v == IF call.to # Unset \/ AddedTo(to, cc, call) # {}
                THEN to \cup AddedTo(to, cc, call) ELSE draft.to
           c == Given(call.cc, draft.cc)
           m == IF call.body THEN call.mentions ELSE draft.mentioned
           h == NewHeader(call, draft)
<1>6. draft' = [draft EXCEPT !.to = v, !.cc = c, !.mentioned = m, !.header = h]
  BY <1>5
<1>7. v \subseteq People /\ c \subseteq People /\ m \subseteq People /\ h \subseteq People
  BY <1>2, <1>3, <1>4 DEF Drafts
<1> HIDE DEF v, c, m, h
<1>8. /\ draft' \in Drafts
      /\ draft'.exists = draft.exists /\ draft'.to = v /\ draft'.cc = c
      /\ draft'.mentioned = m /\ draft'.header = h /\ draft'.files = draft.files
  BY <1>2, <1>6, <1>7 DEF Drafts
<1>9. nextId' = nextId
  BY <1>1, <1>2
<1>10. Server'
  BY <1>2, <1>8, <1>9 DEF Server
<1> QED
  BY <1>1, <1>4, <1>8, <1>9, <1>10 DEF v, c, m, h

-----------------------------------------------------------------------------
\* The two halves of MentionsReach, and what holds when n of the requests that
\* follow from the copy have been carried out.
MentionsInPlace ==
  call.body => /\ draft.mentioned = call.mentions /\ draft.header = call.mentions
               /\ call.mentions \subseteq draft.to \cup draft.cc

NobodyMoved ==
  (draft.to \cap draft.cc) \subseteq
    (Given(call.to, before.to) \cap Given(call.cc, before.cc))
    \cup (before.to \cap before.cc)

InProgress(n) ==
  /\ IF call.tool = "create_reply_draft"
     THEN ReplyFields(IF n <= HeaderJobs THEN {} ELSE call.mentions)
     ELSE DraftFields
  /\ Undisturbed => FilesAt(n)

After(n) ==
  /\ Server
  /\ draft.header \subseteq draft.mentioned
  /\ Undisturbed => NobodyMoved
  /\ n < Len(Following) => InProgress(n + 1)
  /\ n = Len(Following) /\ Undisturbed => MentionsInPlace /\ FilesInPlace

SameCall == UNCHANGED <<call, fetched, before, touched>>

LEMMA NextFile ==
  ASSUME NEW k \in Int, k + 1 >= 1, HasFirst(k), nextId \in Nat, nextId' = nextId + 1,
         call' = call,
         draft'.files = draft.files
                          \cup {[id |-> nextId + 1, file |-> call.files[k + 1]]}
  PROVE  HasFirst(k + 1)'
<1> DEFINE rec(j) == [id |-> (nextId - k) + j, file |-> call.files[j]]
<1>1. draft.files = {rec(j) : j \in 1..k}
  BY DEF HasFirst
<1>2. rec(k + 1) = [id |-> nextId + 1, file |-> call.files[k + 1]]
  <2>1. (nextId - k) + (k + 1) = nextId + 1
    OBVIOUS
  <2> QED
    BY <2>1
<1>3. \A j : [id |-> (nextId' - (k + 1)) + j, file |-> call'.files[j]] = rec(j)
  <2>1. nextId' - (k + 1) = nextId - k
    OBVIOUS
  <2> QED
    BY <2>1
<1> HIDE DEF rec
<1>4. 1..(k + 1) = (1..k) \cup {k + 1}
  OBVIOUS
<1>5. draft'.files = {rec(j) : j \in 1..(k + 1)}
  BY <1>1, <1>2, <1>4
<1> QED
  BY <1>3, <1>5 DEF HasFirst

LEMMA FilesComplete ==
  ASSUME call'.files \in Seq(Files), nextId' \in Nat, HasFirst(Len(call.files))'
  PROVE  HasFiles(call.files)'
<1>1. Len(call'.files) \in Nat
  OBVIOUS
<1> DEFINE base == nextId' - Len(call'.files)
           S == draft'.files
<1>2. base \in Int
  BY <1>1
<1>3. S = {[id |-> base + j, file |-> call'.files[j]] : j \in 1..Len(call'.files)}
  BY DEF HasFirst
<1> HIDE DEF base, S
<1>4. \A f \in Files : Copies(S, f) = Asked(call'.files, f)
  BY <1>2, <1>3, FirstFilesThere
<1> QED
  BY <1>4 DEF HasFiles, S

LEMMA FirstNone ==
  ASSUME NEW k \in Int, k <= 0
  PROVE  HasFirst(k) <=> draft.files = {}
<1>1. 1..k = {}
  OBVIOUS
<1> QED
  BY <1>1 DEF HasFirst

LEMMA FirstNoneNext ==
  ASSUME NEW k \in Int, k <= 0
  PROVE  HasFirst(k)' <=> draft'.files = {}
<1>1. 1..k = {}
  OBVIOUS
<1> QED
  BY <1>1 DEF HasFirst

\* One of the requests that complete a reply.
LEMMA ReplyJob ==
  ASSUME DraftIInv, call.tool = "create_reply_draft", NEW n \in Nat, AtJob(n),
         Apply(Following[n]), SameCall
  PROVE  After(n)'
<1>1. /\ call \in Requests /\ Server
      /\ call' = call /\ fetched' = fetched /\ before' = before /\ touched' = touched
      /\ HeaderJobs' = HeaderJobs /\ Following' = Following
  BY DEF DraftIInv, DraftTyped, DraftTypeOK, Server, SameCall, HeaderJobs, Following
<1>2. /\ call \in RequestType /\ call.files \in Seq(Files) /\ call.files # Unset
      /\ call.to # Unset /\ call.cc # Unset /\ Len(call.files) \in Nat
  BY <1>1, AboutRequests DEF Creators
<1>3. PICK h \in 0..1 : h = HeaderJobs /\ (h = 0 <=> call.mentions = {})
  BY DEF HeaderJobs
<1>4. PICK b \in Nat : b = Len(call.files)
  BY <1>2
<1>5. /\ Len(Following) = h + b
      /\ \A i \in 1..h : Following[i].op = "header"
      /\ \A i \in 1..b : /\ Following[h + i].op = "attach"
                         /\ Following[h + i].file = call.files[i]
  BY <1>2, <1>3, <1>4, ReplyJobs DEF Following
<1>6. n \in 1..(h + b)
  BY <1>5 DEF AtJob
<1>7. /\ ReplyFields(IF n <= h THEN {} ELSE call.mentions)
      /\ Undisturbed => HasFirst((n - 1) - h)
  BY <1>3 DEF DraftIInv, Progress, FilesAt
<1>8. SUFFICES /\ Server' /\ draft'.exists /\ ReplyFields(call.mentions)'
               /\ draft'.header \subseteq draft'.mentioned
               /\ Undisturbed' => HasFirst(n - h)'
  <2>1. Undisturbed' => NobodyMoved'
    BY <1>1, <1>2, <1>8 DEF ReplyFields, NobodyMoved, Given
  <2>2. n < Len(Following) => InProgress(n + 1)'
    <3>1. ~(n + 1 <= h) /\ ((n + 1) - 1) - h = n - h
      BY <1>6
    <3>2. ~(n + 1 <= HeaderJobs') /\ ((n + 1) - 1) - HeaderJobs' = n - h
      BY <1>1, <1>3, <3>1
    <3>3. Undisturbed' => FilesAt(n + 1)'
      BY <1>1, <1>8, <3>2 DEF FilesAt
    <3>4. call'.tool = "create_reply_draft"
      BY <1>1
    <3> QED
      BY <1>8, <3>2, <3>3, <3>4 DEF InProgress
  <2>3. ASSUME n = Len(Following), Undisturbed' PROVE MentionsInPlace' /\ FilesInPlace'
    <3>1. n - h = b
      BY <1>5, <2>3
    <3>2. HasFirst(Len(call.files))'
      BY <1>1, <1>4, <1>8, <2>3, <3>1
    <3>3. HasFiles(call.files)'
      BY <1>1, <1>2, <1>8, <3>2, FilesComplete DEF Server
    <3>4. FilesInPlace'
      BY <1>1, <1>2, <3>3 DEF FilesInPlace
    <3>5. MentionsInPlace'
      BY <1>8, <2>3 DEF MentionsInPlace, ReplyFields
    <3> QED
      BY <3>4, <3>5
  <2> QED
    BY <1>1, <1>8, <2>1, <2>2, <2>3 DEF After
<1>9. CASE n <= h
  <2>1. h = 1 /\ n = 1 /\ Following[n].op = "header"
    BY <1>5, <1>6, <1>9
  <2>2. /\ Server' /\ draft.exists /\ draft'.exists
        /\ draft'.to = draft.to /\ draft'.cc = draft.cc
        /\ draft'.mentioned = draft.mentioned /\ draft'.header = call.mentions
        /\ draft'.files = draft.files
    BY <1>1, <2>1, HeaderStep
  <2>3. Undisturbed => draft'.files = {}
    <3>1. (n - 1) - h \in Int /\ (n - 1) - h <= 0
      BY <2>1
    <3> QED
      BY <1>7, <2>2, <3>1, FirstNone
  <2>4. ReplyFields(call.mentions)'
    BY <1>1, <1>7, <1>9, <2>2 DEF ReplyFields, Undisturbed
  <2>5. Undisturbed' => HasFirst(n - h)'
    <3>1. n - h \in Int /\ n - h <= 0
      BY <2>1
    <3> QED
      BY <1>1, <2>3, <3>1, FirstNoneNext DEF Undisturbed
  <2>6. draft'.header \subseteq draft'.mentioned
    BY <1>1, <1>7, <1>9, <2>2 DEF ReplyFields
  <2> QED
    BY <2>2, <2>4, <2>5, <2>6
<1>10. CASE n > h
  <2>1. n - h \in 1..b /\ h + (n - h) = n /\ ~(n <= h)
    BY <1>6, <1>10
  <2>2. Following[n].op = "attach" /\ Following[n].file = call.files[n - h]
    BY <1>5, <2>1
  <2>3. call.files[n - h] \in Files
    BY <1>2, <1>4, <2>1
  <2>4. /\ Server' /\ nextId' = nextId + 1
        /\ draft.exists /\ draft'.exists /\ Fields(draft') = Fields(draft)
        /\ draft'.files = draft.files
                             \cup {[id |-> nextId + 1, file |-> Following[n].file]}
    BY <1>1, <2>2, <2>3, AttachStep
  <2>5. /\ draft'.to = draft.to /\ draft'.cc = draft.cc
        /\ draft'.mentioned = draft.mentioned /\ draft'.header = draft.header
    BY <2>4 DEF Fields
  <2>6. ReplyFields(call.mentions)'
    BY <1>1, <1>7, <2>1, <2>4, <2>5 DEF ReplyFields, Undisturbed
  <2>7. Undisturbed => HasFirst(n - h)'
    <3> SUFFICES ASSUME Undisturbed PROVE HasFirst(n - h)'
      OBVIOUS
    <3>1. PICK k \in Int : k = (n - 1) - h /\ k + 1 = n - h /\ k + 1 >= 1
      BY <2>1
    <3>2. HasFirst(k)
      BY <1>7, <3>1
    <3>3. draft'.files = draft.files
                           \cup {[id |-> nextId + 1, file |-> call.files[k + 1]]}
      BY <2>2, <2>4, <3>1
    <3>4. HasFirst(k + 1)'
      BY <1>1, <2>4, <3>1, <3>2, <3>3, NextFile DEF Server
    <3> QED
      BY <3>1, <3>4
  <2>8. draft'.header \subseteq draft'.mentioned
    BY <2>5 DEF DraftIInv, MentionsReach
  <2>9. Undisturbed' => Undisturbed
    BY <1>1 DEF Undisturbed
  <2> QED
    BY <2>4, <2>6, <2>7, <2>8, <2>9
<1> QED
  BY <1>6, <1>9, <1>10

\* What saving the fields does for the mentions and the recipients.
LEMMA FieldsSaved ==
  ASSUME DraftIInv, call.tool = "update_draft", DraftFields,
         NEW j, j.op = "save", Apply(j), SameCall
  PROVE  /\ Server' /\ draft'.files = draft.files
         /\ draft'.header \subseteq draft'.mentioned
         /\ Undisturbed' => NobodyMoved' /\ MentionsInPlace'
<1>1. /\ call \in Requests /\ Server /\ fetched \in Drafts
      /\ call' = call /\ fetched' = fetched /\ before' = before /\ touched' = touched
  BY DEF DraftIInv, DraftTyped, DraftTypeOK, Server, SameCall
<1>2. PICK to : to = Given(call.to, fetched.to)
  OBVIOUS
<1>3. PICK cc : cc = Given(call.cc, fetched.cc)
  OBVIOUS
<1>4. PICK added : added = AddedTo(to, cc, call)
  OBVIOUS
<1>5. /\ Server' /\ draft.exists
      /\ draft'.to = IF call.to # Unset \/ added # {} THEN to \cup added ELSE draft.to
      /\ draft'.cc = Given(call.cc, draft.cc)
      /\ draft'.mentioned = IF call.body THEN call.mentions ELSE draft.mentioned
      /\ draft'.header = NewHeader(call, draft)
      /\ draft'.files = draft.files
  BY <1>1, <1>2, <1>3, <1>4, SaveStep
<1>6. draft.header = fetched.header /\ draft.header \subseteq draft.mentioned
  BY <1>5 DEF DraftFields, DraftIInv, MentionsReach
<1>7. draft'.header = IF call.body /\ (call.mentions # {} \/ fetched.header # {})
                      THEN call.mentions ELSE draft.header
  BY <1>5 DEF NewHeader
<1>8. draft'.header \subseteq draft'.mentioned
  BY <1>5, <1>6, <1>7
<1>9. ASSUME Undisturbed' PROVE NobodyMoved' /\ MentionsInPlace'
  <2>1. fetched = before /\ Fields(draft) = Fields(before)
    BY <1>1, <1>9 DEF DraftFields, Undisturbed
  <2>2. fetched.to = draft.to /\ fetched.cc = draft.cc
    BY <2>1 DEF Fields
  <2>3. draft'.cc = cc
    BY <1>3, <1>5, <2>2 DEF Given
  <2>4. added \cap cc = {} /\ call.mentions \subseteq (to \cup cc) \cup added
    BY <1>4 DEF AddedTo
  <2>5. \/ draft'.to = to \cup added
        \/ draft'.to = to /\ added = {}
    BY <1>2, <1>5, <2>2 DEF Given
  <2>6. (draft'.to \cap draft'.cc) \subseteq to \cap cc
    BY <2>3, <2>4, <2>5
  <2>7. NobodyMoved'
    BY <1>1, <1>2, <1>3, <2>1, <2>6 DEF NobodyMoved
  <2>8. call.mentions \subseteq draft'.to \cup draft'.cc
    BY <2>3, <2>4, <2>5
  <2>9. MentionsInPlace'
    BY <1>1, <1>5, <1>6, <1>7, <2>8 DEF MentionsInPlace
  <2> QED
    BY <2>7, <2>9
<1> QED
  BY <1>5, <1>8, <1>9

\* The fields are as they were until they are saved.
LEMMA FieldsKept ==
  ASSUME DraftIInv, DraftFields, Server', draft.exists, draft'.exists,
         Fields(draft') = Fields(draft), SameCall
  PROVE  /\ DraftFields'
         /\ draft'.header \subseteq draft'.mentioned
         /\ Undisturbed' => NobodyMoved'
<1>1. /\ call' = call /\ fetched' = fetched /\ before' = before /\ touched' = touched
  BY DEF SameCall
<1>2. /\ draft'.to = draft.to /\ draft'.cc = draft.cc
      /\ draft'.mentioned = draft.mentioned /\ draft'.header = draft.header
  BY DEF Fields
<1>3. DraftFields'
  BY <1>1, <1>2 DEF DraftFields, Undisturbed, Fields
<1>4. draft'.header \subseteq draft'.mentioned
  BY <1>2 DEF DraftIInv, MentionsReach
<1>5. Undisturbed' => NobodyMoved'
  BY <1>1, <1>2 DEF DraftIInv, MentionsReach, NobodyMoved, Undisturbed
<1> QED
  BY <1>3, <1>4, <1>5

\* update_draft with its attachments: one that goes, one that comes, the fields.
LEMMA UpdateJob ==
  ASSUME DraftIInv, call.tool = "update_draft", call.files # Unset, NEW n \in Nat,
         AtJob(n), Apply(Following[n]), SameCall
  PROVE  After(n)'
<1>1. /\ call \in Requests /\ Server /\ fetched \in Drafts /\ IsFiniteSet(fetched.files)
      /\ call' = call /\ fetched' = fetched /\ before' = before /\ touched' = touched
      /\ Detachments' = Detachments /\ Following' = Following
  BY DEF DraftIInv, DraftTyped, DraftTypeOK, Server, SameCall, Detachments, Following
<1>2. call \in RequestType /\ call.files \in Seq(Files)
  BY <1>1, AboutRequests DEF RequestType
<1>3. PICK k \in Nat : Detachments = k /\ Len(Detach(fetched.files)) = k
  BY <1>1, DetachJobs DEF Detachments, Drafts, Attachments
<1>4. PICK b \in Nat : Len(call.files) = b
  BY <1>2
<1>5. PICK e \in 0..1 : Len(Save(call)) = e /\ (SavesFields(call) => e = 1)
  BY SaveJobs
<1>6. /\ Len(Following) = (k + b) + e
      /\ \A i \in 1..k : /\ Following[i].op = "detach"
                         /\ \E a \in fetched.files : a.id = Following[i].id
      /\ \A a \in fetched.files : \E i \in 1..k : Following[i].id = a.id
      /\ \A i \in 1..b : /\ Following[k + i].op = "attach"
                         /\ Following[k + i].file = call.files[i]
      /\ e = 1 => Following[(k + b) + 1].op = "save"
  <2>1. fetched \in Drafts /\ IsFiniteSet(fetched.files)
    BY <1>1
  <2>2. Len(Detach(fetched.files)) = k /\ Len(call.files) = b /\ call \in RequestType
    BY <1>2, <1>3, <1>4
  <2>3. /\ Len(NextJobs(call, fetched)) = (k + b) + e
        /\ \A i \in 1..k : /\ NextJobs(call, fetched)[i].op = "detach"
                           /\ \E a \in fetched.files :
                                a.id = NextJobs(call, fetched)[i].id
        /\ \A a \in fetched.files :
             \E i \in 1..k : NextJobs(call, fetched)[i].id = a.id
        /\ \A i \in 1..b : /\ NextJobs(call, fetched)[k + i].op = "attach"
                           /\ NextJobs(call, fetched)[k + i].file = call.files[i]
        /\ e = 1 => NextJobs(call, fetched)[(k + b) + 1].op = "save"
    BY <1>5, <2>1, <2>2, UpdateJobs, SMTT(30)
  <2> QED
    BY <2>3 DEF Following
<1>7. n \in 1..((k + b) + e)
  BY <1>6 DEF AtJob
<1>8. /\ DraftFields
      /\ Undisturbed => IF n <= k THEN draft.files = Left(n) ELSE HasFirst((n - 1) - k)
  BY <1>3 DEF DraftIInv, Progress, FilesAt
<1>9. Undisturbed' => Undisturbed
  BY <1>1 DEF Undisturbed
<1>10. ASSUME HasFirst(b)', Server' PROVE FilesInPlace'
  <2>1. HasFiles(call.files)'
    BY <1>1, <1>2, <1>4, <1>10, FilesComplete DEF Server
  <2> QED
    BY <1>1, <2>1 DEF FilesInPlace
<1>11. CASE n <= k + b
  <2>1. ~(call.body /\ n = Len(Following))
    BY <1>5, <1>6, <1>11 DEF SavesFields
  <2>2. SUFFICES /\ Server' /\ draft.exists /\ draft'.exists
                 /\ Fields(draft') = Fields(draft)
                 /\ Undisturbed => IF n + 1 <= k THEN draft'.files = Left(n + 1)
                                                 ELSE HasFirst(n - k)'
    <3>1. DraftFields' /\ draft'.header \subseteq draft'.mentioned
          /\ (Undisturbed' => NobodyMoved')
      BY <1>8, <2>2, FieldsKept
    <3>2. Left(n + 1)' = Left(n + 1)
      BY <1>1 DEF Left
    <3>3. InProgress(n + 1)'
      <4>1. Undisturbed' => FilesAt(n + 1)'
        <5>1. ((n + 1) - 1) - Detachments' = n - k
          BY <1>1, <1>3
        <5> QED
          BY <1>1, <1>3, <1>9, <2>2, <3>2, <5>1 DEF FilesAt
      <4> QED
        BY <1>1, <3>1, <4>1 DEF InProgress
    <3>4. ASSUME n = Len(Following), Undisturbed' PROVE MentionsInPlace' /\ FilesInPlace'
      <4>1. n - k = b /\ ~(n + 1 <= k)
        <5>1. n = (k + b) + e
          BY <1>6, <3>4
        <5> QED
          BY <1>11, <5>1
      <4>2. HasFirst(b)'
        BY <1>9, <2>2, <3>4, <4>1
      <4> QED
        BY <1>1, <1>10, <2>1, <2>2, <3>4, <4>2 DEF MentionsInPlace
    <3> QED
      BY <1>1, <2>2, <3>1, <3>3, <3>4 DEF After
  <2>3. CASE n <= k
    <3>1. n \in 1..k /\ Following[n].op = "detach"
      BY <1>6, <1>7, <2>3
    <3>2. /\ Server' /\ draft.exists /\ draft'.exists /\ Fields(draft') = Fields(draft)
          /\ draft'.files = {a \in draft.files : a.id # Following[n].id}
      BY <1>1, <3>1, DetachStep
    <3>3. {a \in Left(n) : a.id # Following[n].id} = Left(n + 1)
      <4>1. 1..((n + 1) - 1) = (1..(n - 1)) \cup {n}
        BY <3>1
      <4> QED
        BY <4>1 DEF Left
    <3>4. Undisturbed => draft'.files = Left(n + 1)
      BY <1>8, <2>3, <3>2, <3>3
    <3>5. CASE n + 1 <= k
      BY <3>2, <3>4, <3>5
    <3>6. CASE ~(n + 1 <= k)
      <4>1. n = k
        BY <3>1, <3>6
      <4>2. (n + 1) - 1 = k
        BY <4>1
      <4>3. Left(n + 1) = {}
        BY <1>6, <4>2 DEF Left
      <4>4. n - k \in Int /\ n - k <= 0
        BY <4>1
      <4> QED
        BY <3>2, <3>4, <3>6, <4>3, <4>4, FirstNoneNext
    <3> QED
      BY <3>5, <3>6
  <2>4. CASE n > k
    <3>1. n - k \in 1..b /\ k + (n - k) = n /\ ~(n <= k) /\ ~(n + 1 <= k)
      BY <1>7, <1>11, <2>4
    <3>2. Following[n].op = "attach" /\ Following[n].file = call.files[n - k]
      BY <1>6, <3>1
    <3>3. call.files[n - k] \in Files
      BY <1>2, <1>4, <3>1
    <3>4. /\ Server' /\ nextId' = nextId + 1
          /\ draft.exists /\ draft'.exists /\ Fields(draft') = Fields(draft)
          /\ draft'.files = draft.files
                               \cup {[id |-> nextId + 1, file |-> Following[n].file]}
      BY <1>1, <3>2, <3>3, AttachStep
    <3>5. ASSUME Undisturbed PROVE HasFirst(n - k)'
      <4>1. PICK m \in Int : m = (n - 1) - k /\ m + 1 = n - k /\ m + 1 >= 1
        BY <3>1
      <4>2. HasFirst(m)
        BY <1>8, <3>1, <3>5, <4>1
      <4>3. draft'.files = draft.files
                             \cup {[id |-> nextId + 1, file |-> call.files[m + 1]]}
        BY <3>2, <3>4, <4>1
      <4>4. HasFirst(m + 1)'
        BY <1>1, <3>4, <4>1, <4>2, <4>3, NextFile DEF Server
      <4> QED
        BY <4>1, <4>4
    <3> QED
      BY <3>1, <3>4, <3>5
  <2> QED
    BY <1>7, <1>11, <2>3, <2>4
<1>12. CASE n > k + b
  <2>1. /\ e = 1 /\ n = (k + b) + 1 /\ n = Len(Following) /\ ~(n <= k)
        /\ (n - 1) - k = b
    BY <1>6, <1>7, <1>12
  <2>2. Following[n].op = "save"
    BY <1>6, <2>1
  <2>3. /\ Server' /\ draft'.files = draft.files
        /\ draft'.header \subseteq draft'.mentioned
        /\ Undisturbed' => NobodyMoved' /\ MentionsInPlace'
    BY <1>8, <2>2, FieldsSaved
  <2>4. nextId' = nextId
    BY <1>1, <2>2, SaveStep
  <2>5. Undisturbed' => HasFirst(b)'
    <3>1. Undisturbed => HasFirst(b)
      BY <1>8, <2>1
    <3> QED
      BY <1>1, <1>9, <2>3, <2>4, <3>1 DEF HasFirst
  <2> QED
    BY <1>1, <1>10, <2>1, <2>3, <2>5 DEF After
<1> QED
  BY <1>7, <1>11, <1>12

\* update_draft with its fields only.
LEMMA FieldsJob ==
  ASSUME DraftIInv, call.tool = "update_draft", call.files = Unset, NEW n \in Nat,
         AtJob(n), Apply(Following[n]), SameCall
  PROVE  After(n)'
<1>1. /\ call' = call /\ fetched' = fetched /\ before' = before /\ touched' = touched
      /\ Following' = Following
  BY DEF SameCall, Following
<1>2. Following = Save(call)
  BY FieldsJobs DEF Following
<1>3. n = 1 /\ Len(Following) = 1 /\ Following[1].op = "save"
  BY <1>2, SaveJobs DEF AtJob
<1>4. DraftFields /\ (Undisturbed => draft.files = fetched.files)
  BY <1>3 DEF DraftIInv, Progress, FilesAt
<1>5. /\ Server' /\ draft'.files = draft.files
      /\ draft'.header \subseteq draft'.mentioned
      /\ Undisturbed' => NobodyMoved' /\ MentionsInPlace'
  BY <1>3, <1>4, FieldsSaved
<1>6. Undisturbed' => FilesInPlace'
  <2>1. Undisturbed => draft'.files = before.files
    BY <1>4, <1>5 DEF DraftFields
  <2> QED
    BY <1>1, <2>1 DEF FilesInPlace, Undisturbed
<1> QED
  BY <1>1, <1>3, <1>5, <1>6 DEF After

\* add_attachment.
LEMMA AddJob ==
  ASSUME DraftIInv, call.tool = "add_attachment", NEW n \in Nat, AtJob(n),
         Apply(Following[n]), SameCall
  PROVE  After(n)'
<1>1. /\ call \in Requests /\ Server
      /\ call' = call /\ fetched' = fetched /\ before' = before /\ touched' = touched
      /\ Following' = Following
  BY DEF DraftIInv, DraftTyped, DraftTypeOK, Server, SameCall, Following
<1>2. call.files \in Seq(Files) /\ Len(call.files) = 1 /\ ~call.body
  BY <1>1, AboutRequests DEF Creators
<1>3. Following = Attach(call.files)
  BY DEF Following, NextJobs
<1>4. /\ Len(Following) = 1
      /\ Following[1].op = "attach" /\ Following[1].file = call.files[1]
  BY <1>2, <1>3, AttachJobs
<1>5. n = 1 /\ call.files[1] \in Files
  BY <1>2, <1>4 DEF AtJob
<1>6. /\ DraftFields
      /\ Undisturbed => draft.files = fetched.files
  BY <1>5 DEF DraftIInv, Progress, FilesAt
<1>7. /\ Server' /\ nextId' = nextId + 1
      /\ draft.exists /\ draft'.exists /\ Fields(draft') = Fields(draft)
      /\ draft'.files = draft.files \cup {[id |-> nextId + 1, file |-> call.files[1]]}
  BY <1>1, <1>4, <1>5, AttachStep
<1>8. DraftFields' /\ draft'.header \subseteq draft'.mentioned
      /\ (Undisturbed' => NobodyMoved')
  BY <1>6, <1>7, FieldsKept
<1>9. ASSUME Undisturbed' PROVE FilesInPlace'
  <2>1. before'.files = draft.files
    BY <1>1, <1>6, <1>9 DEF DraftFields, Undisturbed
  <2>2. PICK a : a = [id |-> nextId + 1, file |-> call.files[1]]
    OBVIOUS
  <2>3. a \notin draft.files
    BY <1>1, <2>2 DEF Server
  <2>4. <<a.file>> = call.files
    BY <1>2, <2>2
  <2> QED
    BY <1>1, <1>7, <2>1, <2>2, <2>3, <2>4 DEF FilesInPlace
<1> QED
  BY <1>1, <1>2, <1>4, <1>5, <1>7, <1>8, <1>9 DEF After, MentionsInPlace

\* delete_attachment.
LEMMA DeleteJob ==
  ASSUME DraftIInv, call.tool = "delete_attachment", NEW n \in Nat, AtJob(n),
         Apply(Following[n]), SameCall
  PROVE  After(n)'
<1>1. /\ call \in Requests /\ Server /\ fetched \in Drafts /\ IsFiniteSet(fetched.files)
      /\ call' = call /\ fetched' = fetched /\ before' = before /\ touched' = touched
      /\ Following' = Following
  BY DEF DraftIInv, DraftTyped, DraftTypeOK, Server, SameCall, Following
<1>2. ~call.body
  BY <1>1, AboutRequests DEF Creators
<1> DEFINE S == {a \in fetched.files : a.id = call.id}
<1>3. Following = Detach(S)
  BY DEF Following, NextJobs
<1>4. S \in SUBSET Attachments /\ IsFiniteSet(S)
  BY <1>1, FS_Subset DEF Drafts, Attachments
<1>5. /\ \A i \in 1..Len(Following) :
           Following[i].op = "detach" /\ \E a \in S : a.id = Following[i].id
      /\ Len(Following) \in Nat
  <2> HIDE DEF S
  <2>1. /\ \A i \in 1..Len(Detach(S)) :
             Detach(S)[i].op = "detach" /\ \E a \in S : a.id = Detach(S)[i].id
        /\ Len(Detach(S)) \in Nat
    BY <1>4, DetachJobs
  <2> QED
    BY <1>3, <2>1
<1>6. \A i \in 1..Len(Following) :
        Following[i].op = "detach" /\ Following[i].id = call.id
  BY <1>5
<1> HIDE DEF S
<1>7. n \in 1..Len(Following) /\ Following[n].op = "detach"
  BY <1>6 DEF AtJob
<1>8. DraftFields /\ (Undisturbed => draft.files = Left(n))
  BY DEF DraftIInv, Progress, FilesAt
<1>9. /\ Server' /\ draft.exists /\ draft'.exists /\ Fields(draft') = Fields(draft)
      /\ draft'.files = {a \in draft.files : a.id # Following[n].id}
  BY <1>1, <1>7, DetachStep
<1>10. {a \in Left(n) : a.id # Following[n].id} = Left(n + 1)
  <2>1. 1..((n + 1) - 1) = (1..(n - 1)) \cup {n}
    BY <1>5, <1>7
  <2> QED
    BY <2>1 DEF Left
<1>11. Left(n + 1)' = Left(n + 1)
  BY <1>1 DEF Left
<1>12. DraftFields' /\ draft'.header \subseteq draft'.mentioned
       /\ (Undisturbed' => NobodyMoved')
  BY <1>8, <1>9, FieldsKept
<1>13. Undisturbed' => draft'.files = Left(n + 1)
  BY <1>1, <1>8, <1>9, <1>10 DEF Undisturbed
<1>14. InProgress(n + 1)'
  BY <1>1, <1>11, <1>12, <1>13 DEF InProgress, FilesAt
<1>15. ASSUME n = Len(Following), Undisturbed' PROVE FilesInPlace'
  <2>1. before.files = fetched.files
    BY <1>1, <1>8, <1>15 DEF DraftFields, Undisturbed
  <2>2. Left(n + 1) = {a \in fetched.files : a.id # call.id}
    <3>1. 1..((n + 1) - 1) = 1..n
      BY <1>5, <1>7
    <3> QED
      BY <1>6, <1>7, <1>15, <3>1 DEF Left
  <2> QED
    BY <1>1, <1>13, <1>15, <2>1, <2>2 DEF FilesInPlace
<1> QED
  BY <1>1, <1>2, <1>9, <1>12, <1>14, <1>15 DEF After, MentionsInPlace

\* Whichever tool it is, the next of its requests takes it one further.
LEMMA NextJob ==
  ASSUME DraftIInv, NEW n \in Nat, AtJob(n), Apply(Following[n]), SameCall
  PROVE  After(n)'
<1>1. call.tool \in Tools /\ call.tool # "create_draft"
  BY AboutRequests DEF DraftIInv, DraftTyped, DraftTypeOK, AtJob, RequestType
<1>2. CASE call.tool = "create_reply_draft"
  BY <1>2, ReplyJob
<1>3. CASE call.tool = "update_draft"
  BY <1>3, UpdateJob, FieldsJob
<1>4. CASE call.tool = "add_attachment"
  BY <1>4, AddJob
<1>5. CASE call.tool = "delete_attachment"
  BY <1>5, DeleteJob
<1> QED
  BY <1>1, <1>2, <1>3, <1>4, <1>5 DEF Tools

-----------------------------------------------------------------------------
\* The files of a new message.
LEMMA CreatedFiles ==
  ASSUME NEW files \in Seq(Files), nextId \in Nat
  PROVE  /\ Created(files) \in SUBSET [id : Nat, file : Files]
         /\ IsFiniteSet(Created(files))
         /\ \A a \in Created(files) : a.id <= nextId + Len(files)
<1>1. Len(files) \in Nat /\ \A i \in 1..Len(files) : files[i] \in Files
  OBVIOUS
<1>2. Created(files) \in SUBSET [id : Nat, file : Files]
  BY <1>1 DEF Created
<1>3. \A a \in Created(files) : a.id <= nextId + Len(files)
  <2> SUFFICES ASSUME NEW i \in 1..Len(files)
               PROVE  [id |-> nextId + i, file |-> files[i]].id <= nextId + Len(files)
    BY DEF Created
  <2>1. nextId + i <= nextId + Len(files)
    BY <1>1
  <2> QED
    BY <2>1
<1>4. IsFiniteSet(Created(files))
  <2> DEFINE g == [i \in 1..Len(files) |-> [id |-> nextId + i, file |-> files[i]]]
  <2>1. \A i \in 1..Len(files) : g[i] \in Created(files)
    BY DEF Created
  <2>2. \A a \in Created(files) : \E i \in 1..Len(files) : g[i] = a
    BY DEF Created
  <2>3. g \in [1..Len(files) -> Created(files)]
    BY <2>1
  <2> HIDE DEF g
  <2>4. g \in Surjection(1..Len(files), Created(files))
    BY <2>2, <2>3 DEF Surjection
  <2>5. IsFiniteSet(1..Len(files))
    BY <1>1, FS_Interval
  <2> QED
    BY <2>4, <2>5, FS_Surjection
<1> QED
  BY <1>2, <1>3, <1>4

\* The recipients of a new message: everybody mentioned is one, and those in both
\* lists are so by request.
LEMMA NewRecipients ==
  ASSUME NEW r \in Requests, r.tool \in Creators
  PROVE  /\ Recipients(NoDraft, r.to, r.cc, r) \in Drafts
         /\ Recipients(NoDraft, r.to, r.cc, r).header = {}
         /\ Recipients(NoDraft, r.to, r.cc, r).files = {}
         /\ r.mentions \subseteq Recipients(NoDraft, r.to, r.cc, r).to
                                 \cup Recipients(NoDraft, r.to, r.cc, r).cc
         /\ (Recipients(NoDraft, r.to, r.cc, r).to
             \cap Recipients(NoDraft, r.to, r.cc, r).cc) \subseteq r.to \cap r.cc
<1>1. /\ r.to \in SUBSET People /\ r.cc \in SUBSET People
      /\ r.mentions \in SUBSET People
      /\ r.addTo \in SUBSET People /\ r.addCc \in SUBSET People
  BY AboutRequests DEF RequestType
<1> DEFINE t == r.to \cup AddedTo(r.to, r.cc, r)
           c == r.cc \cup AddedCc(r.to, r.cc, r)
<1>2. t \in SUBSET People /\ c \in SUBSET People
  BY <1>1 DEF AddedTo, AddedCc
<1>3. r.mentions \subseteq t \cup c /\ (t \cap c) \subseteq r.to \cap r.cc
  BY DEF AddedTo, AddedCc
<1>4. Recipients(NoDraft, r.to, r.cc, r) =
        [exists |-> FALSE, to |-> t, cc |-> c, mentioned |-> {}, header |-> {},
         files |-> {}]
  <2>1. Recipients(NoDraft, r.to, r.cc, r) = [NoDraft EXCEPT !.to = t, !.cc = c]
    BY DEF Recipients
  <2> HIDE DEF t, c
  <2> QED
    BY <2>1 DEF NoDraft
<1> HIDE DEF t, c
<1>5. Recipients(NoDraft, r.to, r.cc, r) \in Drafts
  BY <1>2, <1>4 DEF Drafts
<1> QED
  BY <1>3, <1>4, <1>5

\* create_draft: the draft comes with all it should have.
LEMMA CreateStep ==
  ASSUME DraftIInv, call.tool = "create_draft", NEW j, j.op = "create", Apply(j), SameCall
  PROVE  /\ Server' /\ draft'.header \subseteq draft'.mentioned
         /\ NobodyMoved' /\ MentionsInPlace' /\ FilesInPlace'
<1>1. /\ call \in Requests /\ Server
      /\ call' = call /\ fetched' = fetched /\ before' = before /\ touched' = touched
  BY DEF DraftIInv, DraftTyped, DraftTypeOK, Server, SameCall
<1>2. /\ call.files \in Seq(Files) /\ call.files # Unset /\ call.to # Unset
      /\ call.cc # Unset /\ call.mentions \subseteq People
      /\ Len(call.files) \in Nat /\ call.tool \in Creators
  BY <1>1, AboutRequests DEF Creators
<1>3. PICK d \in Drafts : d = Recipients(NoDraft, call.to, call.cc, call)
  BY <1>1, <1>2, NewRecipients
<1>4. /\ call.mentions \subseteq d.to \cup d.cc
      /\ (d.to \cap d.cc) \subseteq call.to \cap call.cc
  BY <1>1, <1>2, <1>3, NewRecipients
<1>5. PICK S : S = Created(call.files)
  OBVIOUS
<1>6. /\ draft' = [d EXCEPT !.exists = TRUE, !.mentioned = call.mentions,
                           !.header = call.mentions, !.files = S]
      /\ nextId' = nextId + Len(call.files)
  BY <1>3, <1>5 DEF Apply, Result, NewIds
<1>7. /\ S \in SUBSET [id : Nat, file : Files] /\ IsFiniteSet(S)
      /\ \A a \in S : a.id <= nextId'
      /\ nextId \in Nat /\ nextId' \in Nat
  BY <1>1, <1>2, <1>5, <1>6, CreatedFiles DEF Server
<1>8. /\ draft' \in Drafts /\ draft'.to = d.to /\ draft'.cc = d.cc
      /\ draft'.mentioned = call.mentions /\ draft'.header = call.mentions
      /\ draft'.files = S
  BY <1>2, <1>6, <1>7 DEF Drafts
<1>9. Server'
  BY <1>7, <1>8 DEF Server
<1>10. NobodyMoved' /\ MentionsInPlace'
  BY <1>1, <1>2, <1>4, <1>8 DEF NobodyMoved, MentionsInPlace, Given
<1>11. HasFirst(Len(call.files))'
  <2>1. nextId' - Len(call.files) = nextId
    BY <1>2, <1>6, <1>7
  <2> QED
    BY <1>1, <1>5, <1>8, <2>1 DEF HasFirst, Created
<1>12. HasFiles(call.files)'
  BY <1>1, <1>2, <1>7, <1>11, FilesComplete
<1>13. FilesInPlace'
  BY <1>1, <1>2, <1>12 DEF FilesInPlace
<1> QED
  BY <1>8, <1>9, <1>10, <1>13

\* create_reply_draft: the reply is saved without a header and attachments.
LEMMA ReplyStep ==
  ASSUME DraftIInv, call.tool = "create_reply_draft", NEW j, j.op = "reply", Apply(j),
         SameCall
  PROVE  /\ Server' /\ draft'.header \subseteq draft'.mentioned
         /\ NobodyMoved' /\ draft'.exists /\ ReplyFields({})' /\ draft'.files = {}
<1>1. /\ call \in Requests /\ Server
      /\ call' = call /\ fetched' = fetched /\ before' = before /\ touched' = touched
  BY DEF DraftIInv, DraftTyped, DraftTypeOK, Server, SameCall
<1>2. /\ call.to # Unset /\ call.cc # Unset /\ call.mentions \subseteq People
      /\ call.tool \in Creators
  BY <1>1, AboutRequests DEF Creators
<1>3. PICK d \in Drafts : d = Recipients(NoDraft, call.to, call.cc, call)
  BY <1>1, <1>2, NewRecipients
<1>4. /\ d.header = {} /\ d.files = {} /\ call.mentions \subseteq d.to \cup d.cc
      /\ (d.to \cap d.cc) \subseteq call.to \cap call.cc
  BY <1>1, <1>2, <1>3, NewRecipients
<1>5. /\ draft' = [d EXCEPT !.exists = TRUE, !.mentioned = call.mentions]
      /\ nextId' = nextId + 0
  BY <1>3 DEF Apply, Result, NewIds
<1>6. /\ draft' \in Drafts /\ draft'.exists /\ draft'.to = d.to /\ draft'.cc = d.cc
      /\ draft'.mentioned = call.mentions /\ draft'.header = {} /\ draft'.files = {}
  BY <1>2, <1>4, <1>5 DEF Drafts
<1>7. Server'
  <2>1. nextId' \in Nat /\ IsFiniteSet(draft'.files)
    BY <1>1, <1>5, <1>6, FS_EmptySet DEF Server
  <2>2. \A a \in draft'.files : a.id <= nextId'
    BY <1>6
  <2> QED
    BY <1>6, <2>1, <2>2 DEF Server
<1>8. NobodyMoved' /\ ReplyFields({})'
  BY <1>1, <1>2, <1>4, <1>6 DEF NobodyMoved, ReplyFields, Given
<1> QED
  BY <1>6, <1>7, <1>8

-----------------------------------------------------------------------------
\* Which request is next tells where the call is.
LEMMA LaterJobs ==
  ASSUME NEW r \in Requests, NEW d \in Drafts, IsFiniteSet(d.files),
         r.tool # "create_draft"
  PROVE  NextJobs(r, d) \in Seq(Jobs)
<1>1. /\ r \in RequestType /\ r.tool \in Tools
      /\ r.files \in {Unset} \cup Seq(Files)
  BY AboutRequests DEF RequestType
<1>2. CASE r.tool = "create_reply_draft"
  <2>1. r.files \in Seq(Files)
    BY <1>2, AboutRequests DEF Creators
  <2>2. PICK h \in 0..1 : h = 0 <=> r.mentions = {}
    <3>1. CASE r.mentions = {}
      BY <3>1
    <3>2. CASE r.mentions # {}
      BY <3>2
    <3> QED
      BY <3>1, <3>2
  <2> QED
    BY <1>1, <1>2, <2>1, <2>2, ReplyJobs
<1>3. CASE r.tool = "update_draft" /\ r.files # Unset
  <2>1. Len(Detach(d.files)) \in Nat
    BY DetachJobs DEF Drafts, Attachments
  <2>2. Len(r.files) \in Nat
    BY <1>1, <1>3
  <2>3. Len(Save(r)) \in Nat
    BY SaveJobs
  <2> QED
    BY <1>1, <1>3, <2>1, <2>2, <2>3, UpdateJobs
<1>4. CASE r.tool = "update_draft" /\ r.files = Unset
  BY <1>4, FieldsJobs, SaveJobs
<1>5. CASE r.tool = "add_attachment"
  <2>1. NextJobs(r, d) = Attach(r.files)
    BY <1>5 DEF NextJobs
  <2>2. r.files \in Seq(Files)
    BY <1>5, AboutRequests
  <2> QED
    BY <2>1, <2>2, AttachJobs
<1>6. CASE r.tool = "delete_attachment"
  <2> DEFINE S == {a \in d.files : a.id = r.id}
  <2>1. NextJobs(r, d) = Detach(S)
    BY <1>6 DEF NextJobs
  <2>2. S \in SUBSET Attachments /\ IsFiniteSet(S)
    BY FS_Subset DEF Drafts, Attachments
  <2> HIDE DEF S
  <2> QED
    BY <2>1, <2>2, DetachJobs
<1> QED
  BY <1>1, <1>2, <1>3, <1>4, <1>5, <1>6 DEF Tools

\* The n-th of the requests that follow, and what is left after it.
LEMMA AtTheNth ==
  ASSUME NEW F \in Seq(Jobs), NEW n \in 1..Len(F)
  PROVE  /\ SubSeq(F, n, Len(F)) # <<>>
         /\ Head(SubSeq(F, n, Len(F))) = F[n]
         /\ F[n].op \in {"header", "attach", "detach", "save"}
         /\ Len(SubSeq(F, n, Len(F))) = (Len(F) - n) + 1
         /\ Tail(SubSeq(F, n, Len(F))) = SubSeq(F, n + 1, Len(F))
         /\ SubSeq(F, n + 1, Len(F)) = <<>> <=> n = Len(F)
<1>1. Len(F) \in Nat /\ n \in Nat /\ 1 <= n /\ n <= Len(F)
  OBVIOUS
<1>2. F[n] \in Jobs
  OBVIOUS
<1> DEFINE t == SubSeq(F, n, Len(F))
           u == SubSeq(F, n + 1, Len(F))
<1>3. /\ t \in Seq(Jobs) /\ Len(t) = (Len(F) - n) + 1
      /\ \A i \in 1..Len(t) : t[i] = F[(n + i) - 1]
  BY <1>1
<1>4. /\ u \in Seq(Jobs) /\ Len(u) = Len(F) - n
      /\ \A i \in 1..Len(u) : u[i] = F[((n + 1) + i) - 1]
  BY <1>1
<1> HIDE DEF t, u
<1>5. t # <<>> /\ Len(t) >= 1 /\ Head(t) = t[1]
  BY <1>1, <1>3
<1>6. t[1] = F[n]
  <2>1. 1 \in 1..Len(t) /\ (n + 1) - 1 = n
    BY <1>1, <1>3
  <2> QED
    BY <1>3, <2>1
<1>7. Tail(t) = u
  <2>1. Tail(t) \in Seq(Jobs) /\ Len(Tail(t)) = Len(F) - n
    BY <1>1, <1>3, <1>5
  <2>2. \A i \in 1..Len(u) : Tail(t)[i] = u[i]
    <3> SUFFICES ASSUME NEW i \in 1..Len(u) PROVE Tail(t)[i] = u[i]
      OBVIOUS
    <3>1. i + 1 \in 1..Len(t) /\ (n + (i + 1)) - 1 = ((n + 1) + i) - 1
      BY <1>1, <1>3, <1>4
    <3>2. Tail(t)[i] = t[i + 1]
      BY <1>3, <1>5, <2>1, <1>4
    <3> QED
      BY <1>3, <1>4, <3>1, <3>2
  <2> QED
    BY <1>4, <2>1, <2>2, SeqEqual
<1>8. u = <<>> <=> n = Len(F)
  BY <1>1, <1>4
<1> QED
  BY <1>2, <1>3, <1>5, <1>6, <1>7, <1>8 DEF t, u, Jobs

\* The requests a call begins with.
LEMMA FirstJob ==
  ASSUME NEW r
  PROVE  /\ FirstJobs(r) # <<>>
         /\ r.tool = "create_draft" =>
              Head(FirstJobs(r)).op = "create" /\ Tail(FirstJobs(r)) = <<>>
         /\ r.tool = "create_reply_draft" =>
              /\ Head(FirstJobs(r)).op = "reply"
              /\ Tail(FirstJobs(r)) = IF r.files # <<>> \/ r.mentions # {}
                                      THEN <<Op("fetch")>> ELSE <<>>
         /\ r.tool \notin Creators =>
              Head(FirstJobs(r)).op = "fetch" /\ Tail(FirstJobs(r)) = <<>>
<1>1. Op("create").op = "create" /\ Op("reply").op = "reply" /\ Op("fetch").op = "fetch"
  BY DEF Op
<1>2. CASE r.tool = "create_draft"
  <2>1. FirstJobs(r) = <<Op("create")>>
    BY <1>2 DEF FirstJobs
  <2> QED
    BY <1>1, <1>2, <2>1 DEF Creators
<1>3. CASE r.tool = "create_reply_draft"
  <2>1. CASE r.files # <<>> \/ r.mentions # {}
    <3>1. FirstJobs(r) = <<Op("reply")>> \o <<Op("fetch")>>
      BY <1>3, <2>1 DEF FirstJobs
    <3> QED
      BY <1>1, <1>3, <2>1, <3>1 DEF Creators
  <2>2. CASE ~(r.files # <<>> \/ r.mentions # {})
    <3>1. FirstJobs(r) = <<Op("reply")>> \o <<>>
      BY <1>3, <2>2 DEF FirstJobs
    <3> QED
      BY <1>1, <1>3, <2>2, <3>1 DEF Creators
  <2> QED
    BY <2>1, <2>2
<1>4. CASE r.tool \notin Creators
  <2>1. FirstJobs(r) = <<Op("fetch")>>
    BY <1>4 DEF FirstJobs, Creators
  <2> QED
    BY <1>1, <1>4, <2>1 DEF Creators
<1> QED
  BY <1>2, <1>3, <1>4 DEF Creators

\* The call at its n-th request.
LEMMA AtJobFacts ==
  ASSUME DraftTyped, NEW n \in Nat, AtJob(n)
  PROVE  /\ Following \in Seq(Jobs) /\ n \in 1..Len(Following)
         /\ Head(jobs) = Following[n]
         /\ Head(jobs).op \in {"header", "attach", "detach", "save"}
         /\ Tail(jobs) = SubSeq(Following, n + 1, Len(Following))
         /\ Tail(jobs) = <<>> <=> n = Len(Following)
<1>1. call \in Requests /\ fetched \in Drafts /\ IsFiniteSet(fetched.files)
  BY DEF DraftTyped, DraftTypeOK
<1>2. /\ call.tool # "create_draft" /\ n \in 1..Len(Following)
      /\ jobs = SubSeq(Following, n, Len(Following))
  BY DEF AtJob
<1>3. PICK F : F = Following
  OBVIOUS
<1>4. F \in Seq(Jobs)
  BY <1>1, <1>2, <1>3, LaterJobs DEF Following
<1> QED
  BY <1>2, <1>3, <1>4, AtTheNth

\* A call that goes on with the n-th request is there, and nowhere else.
LEMMA GoesOn ==
  ASSUME DraftTyped', verdict' = "none", call'.tool # "create_draft",
         NEW n \in Nat, n \in 1..Len(Following'),
         jobs' = SubSeq(Following', n, Len(Following')), InProgress(n)'
  PROVE  JobsInTurn' /\ Progress'
<1>1. call' \in Requests /\ fetched' \in Drafts /\ IsFiniteSet(fetched'.files)
  BY DEF DraftTyped, DraftTypeOK
<1>2. PICK F : F = Following'
  OBVIOUS
<1>3. F \in Seq(Jobs) /\ n \in 1..Len(F)
  BY <1>1, <1>2, LaterJobs DEF Following
<1>4. /\ Head(jobs').op \in {"header", "attach", "detach", "save"}
      /\ Len(jobs') = (Len(F) - n) + 1
  BY <1>2, <1>3, AtTheNth
<1>5. AtJob(n)'
  BY DEF AtJob
<1>6. ~Unsent'
  <2>1. call'.tool \in Tools
    BY <1>1, AboutRequests DEF RequestType
  <2>2. Head(FirstJobs(call')).op \in {"create", "reply", "fetch"}
    BY <2>1, FirstJob DEF Tools, Creators
  <2> QED
    BY <1>4, <2>2 DEF Unsent
<1>7. ~Replied'
  <2>1. Op("fetch").op = "fetch"
    BY DEF Op
  <2>2. Head(<<Op("fetch")>>) = Op("fetch")
    OBVIOUS
  <2> QED
    BY <1>4, <2>1, <2>2 DEF Replied
<1>8. \A m \in Nat : AtJob(m)' => m = n
  <2> SUFFICES ASSUME NEW m \in Nat, AtJob(m)' PROVE m = n
    OBVIOUS
  <2>1. m \in 1..Len(F) /\ jobs' = SubSeq(F, m, Len(F))
    BY <1>2 DEF AtJob
  <2>2. Len(jobs') = (Len(F) - m) + 1
    BY <1>3, <2>1, AtTheNth
  <2>3. Len(F) \in Nat
    BY <1>3
  <2> QED
    BY <1>3, <1>4, <2>1, <2>2, <2>3
<1>9. JobsInTurn'
  BY <1>5 DEF JobsInTurn
<1>10. Progress'
  BY <1>6, <1>7, <1>8 DEF Progress, InProgress
<1> QED
  BY <1>9, <1>10

LEMMA CallOver ==
  ASSUME verdict' # "none"
  PROVE  JobsInTurn' /\ Progress'
BY DEF JobsInTurn, Progress, Unsent, Replied, AtJob

\* What a caller is told, or finds after a failure, is so.
LEMMA AfterIsRight ==
  ASSUME DraftTyped', NEW n \in Nat, After(n)', n <= Len(Following'),
         Len(Following') \in Nat, verdict' = "ok" => n = Len(Following')
  PROVE  MentionsReach' /\ FilesAsAsked'
<1>1. /\ draft'.header \subseteq draft'.mentioned
      /\ Undisturbed' => NobodyMoved'
      /\ n < Len(Following') => InProgress(n + 1)'
      /\ n = Len(Following') /\ Undisturbed' => MentionsInPlace' /\ FilesInPlace'
  BY DEF After
<1>2. MentionsReach'
  BY <1>1 DEF MentionsReach, MentionsInPlace, NobodyMoved
<1>3. FieldsChanged' /\ Undisturbed' => n = Len(Following')
  <2> SUFFICES ASSUME FieldsChanged', Undisturbed', n < Len(Following') PROVE FALSE
    OBVIOUS
  <2>1. DraftFields'
    BY <1>1 DEF InProgress, FieldsChanged
  <2> QED
    BY <2>1 DEF DraftFields, FieldsChanged
<1> QED
  BY <1>1, <1>2, <1>3 DEF FilesAsAsked

-----------------------------------------------------------------------------
\* The types, when a request or a copy has been taken.
LEMMA TypesKept ==
  ASSUME DraftTyped, Server', call' = call, before' = before, touched' = touched,
         calls' = calls, edits' = edits, verdict' \in {"none", "ok", "error"},
         verdict' = "none" <=> jobs' # <<>>,
         fetched' = fetched \/ fetched' = draft
  PROVE  DraftTyped'
BY DEF DraftTyped, DraftTypeOK, Server

\* A call has its copy of the draft.
LEMMA FetchedCopy ==
  ASSUME DraftIInv, verdict = "none", Head(jobs).op = "fetch", draft.exists,
         fetched' = draft, UNCHANGED <<draft, nextId, call, before, touched>>,
         ~(call.tool = "delete_attachment" /\ NextJobs(call, draft) = <<>>)
  PROVE  After(0)' /\ call.tool # "create_draft"
<1>1. /\ call \in Requests /\ call \in RequestType /\ Server
      /\ draft \in Drafts /\ IsFiniteSet(draft.files)
      /\ draft' = draft /\ nextId' = nextId /\ call' = call /\ before' = before
      /\ touched' = touched /\ fetched' = draft
      /\ call.tool \in Tools
  BY AboutRequests DEF DraftIInv, DraftTyped, DraftTypeOK, Server, RequestType
<1>2. Server' /\ draft'.header \subseteq draft'.mentioned
  BY <1>1 DEF Server, DraftIInv, MentionsReach
<1>3. Undisturbed' => NobodyMoved'
  BY <1>1 DEF DraftIInv, MentionsReach, NobodyMoved, Undisturbed
<1>4. Following' = NextJobs(call, draft) /\ HeaderJobs' = HeaderJobs
      /\ Detachments' = Len(Detach(draft.files))
  BY <1>1 DEF Following, HeaderJobs, Detachments
<1>5. \/ Unsent /\ call.tool \notin Creators
      \/ Replied
  <2>1. \A n \in Nat : ~AtJob(n)
    BY AtJobFacts DEF DraftIInv
  <2>2. Unsent => Head(jobs).op = Head(FirstJobs(call)).op
    BY DEF Unsent
  <2>3. call.tool \in Creators => Head(FirstJobs(call)).op # "fetch"
    BY FirstJob DEF Creators
  <2> QED
    BY <2>1, <2>2, <2>3 DEF DraftIInv, JobsInTurn
<1>6. ASSUME draft.files = {}, call.files \in Seq(Files), Len(call.files) = 0
      PROVE  HasFiles(call.files)'
  <2>1. HasFirst(Len(call.files))'
    BY <1>1, <1>6, FirstNoneNext
  <2> QED
    BY <1>1, <1>2, <1>6, <2>1, FilesComplete DEF Server
<1>7. CASE Unsent /\ call.tool \notin Creators
  <2>1. Undisturbed => draft = before
    BY <1>7 DEF DraftIInv, Progress
  <2>2. DraftFields'
    BY <1>1, <2>1 DEF DraftFields, Undisturbed
  <2>3. FilesAt(1)'
    <3>1. Left(1)' = draft.files
      <4>1. 1..(1 - 1) = {}
        OBVIOUS
      <4> QED
        BY <1>1, <4>1 DEF Left
    <3>2. PICK d \in Nat : Len(Detach(draft.files)) = d /\ (d = 0 => draft.files = {})
      BY <1>1, DetachJobs DEF Drafts, Attachments
    <3>3. Detachments' = d
      BY <1>4, <3>2
    <3>4. ~(1 <= d) => HasFirst((1 - 1) - d)'
      <4>1. PICK k \in Int : k = (1 - 1) - d /\ k <= 0
        BY <3>2
      <4>2. draft.files = {} => HasFirst(k)'
        BY <1>1, <4>1, FirstNoneNext
      <4> QED
        BY <3>2, <4>1, <4>2
    <3> QED
      BY <1>1, <1>7, <3>1, <3>3, <3>4 DEF FilesAt, Creators
  <2>4. ASSUME 0 = Len(Following'), Undisturbed'
        PROVE  MentionsInPlace' /\ FilesInPlace'
    <3>1. call.tool # "add_attachment"
      <4>1. ASSUME call.tool = "add_attachment" PROVE FALSE
        <5>1. Following' = Attach(call.files)
          BY <1>4, <4>1 DEF NextJobs
        <5>2. call.files \in Seq(Files) /\ Len(call.files) = 1
          BY <1>1, <4>1, AboutRequests
        <5> QED
          BY <2>4, <5>1, <5>2, AttachJobs
      <4> QED
        BY <4>1
    <3>2. call.tool # "delete_attachment"
      <4>1. ASSUME call.tool = "delete_attachment" PROVE FALSE
        <5>1. NextJobs(call, draft) \in Seq(Jobs)
          BY <1>1, <4>1, LaterJobs
        <5> QED
          BY <1>4, <2>4, <4>1, <5>1
      <4> QED
        BY <4>1
    <3>3. call.tool = "update_draft"
      BY <1>1, <1>7, <3>1, <3>2 DEF Tools, Creators
    <3>4. CASE call.files = Unset
      <4>1. Len(Save(call)) = 0
        BY <1>4, <2>4, <3>3, <3>4, FieldsJobs
      <4>2. ~call.body
        <5>1. ~SavesFields(call)
          BY <4>1, SaveJobs
        <5> QED
          BY <5>1 DEF SavesFields
      <4> QED
        BY <1>1, <2>1, <2>4, <3>3, <3>4, <4>2
           DEF MentionsInPlace, FilesInPlace, Undisturbed
    <3>5. CASE call.files # Unset
      <4>1. call.files \in Seq(Files)
        BY <1>1, <3>5 DEF RequestType
      <4>2. PICK k \in Nat : Len(Detach(draft.files)) = k /\ (k = 0 => draft.files = {})
        BY <1>1, DetachJobs DEF Drafts, Attachments
      <4>3. PICK b \in Nat : Len(call.files) = b
        BY <4>1
      <4>4. PICK e \in 0..1 : Len(Save(call)) = e /\ (SavesFields(call) => e = 1)
        BY SaveJobs
      <4>5. Len(NextJobs(call, draft)) = (k + b) + e
        BY <1>1, <3>3, <3>5, <4>2, <4>3, <4>4, UpdateJobs
      <4>6. k = 0 /\ b = 0 /\ e = 0
        BY <1>4, <2>4, <4>5
      <4>7. HasFiles(call.files)' /\ ~call.body
        BY <1>6, <4>1, <4>2, <4>3, <4>4, <4>6 DEF SavesFields
      <4> QED
        BY <1>1, <3>3, <3>5, <4>7 DEF MentionsInPlace, FilesInPlace
    <3> QED
      BY <3>4, <3>5
  <2>5. InProgress(0 + 1)'
    BY <1>1, <1>7, <2>2, <2>3 DEF InProgress, Creators
  <2> QED
    BY <1>2, <1>3, <1>7, <2>4, <2>5 DEF After, Creators
<1>8. CASE Replied
  <2>1. /\ call.tool = "create_reply_draft" /\ ReplyFields({})
        /\ Undisturbed => HasFirst(0)
    BY <1>8 DEF DraftIInv, Progress, Replied
  <2>2. Undisturbed => draft.files = {}
    BY <2>1, FirstNone
  <2>3. /\ call.files \in Seq(Files) /\ call.files # Unset /\ Len(call.files) \in Nat
    BY <1>1, <2>1, AboutRequests DEF Creators
  <2>4. PICK h \in 0..1 : HeaderJobs = h /\ (h = 0 <=> call.mentions = {})
    BY DEF HeaderJobs
  <2>5. Len(Following') = h + Len(call.files)
    BY <1>1, <1>4, <2>1, <2>3, <2>4, ReplyJobs
  <2>6. InProgress(1)'
    <3>1. PICK k \in Int : k = (1 - 1) - h /\ k <= 0
      BY <2>4
    <3>2. Undisturbed' => HasFirst(k)'
      BY <1>1, <2>2, <3>1, FirstNoneNext DEF Undisturbed
    <3>3. Undisturbed' => FilesAt(1)'
      BY <1>1, <1>4, <2>1, <2>4, <3>1, <3>2 DEF FilesAt
    <3>4. ReplyFields(IF 1 <= h THEN {} ELSE call.mentions)'
      <4>1. ReplyFields({})'
        BY <1>1, <2>1 DEF ReplyFields, Undisturbed
      <4>2. (IF 1 <= h THEN {} ELSE call.mentions) = {}
        BY <2>4
      <4> QED
        BY <1>1, <4>1, <4>2 DEF ReplyFields
    <3> QED
      BY <1>1, <1>4, <2>1, <2>4, <3>3, <3>4 DEF InProgress, ReplyFields
  <2>7. ASSUME 0 = Len(Following'), Undisturbed'
        PROVE  MentionsInPlace' /\ FilesInPlace'
    <3>1. h = 0 /\ Len(call.files) = 0 /\ Undisturbed
      BY <1>1, <2>3, <2>5, <2>7 DEF Undisturbed
    <3>2. HasFiles(call.files)'
      BY <1>6, <2>2, <2>3, <3>1
    <3>3. MentionsInPlace'
      BY <1>1, <2>1, <2>4, <3>1 DEF MentionsInPlace, ReplyFields
    <3> QED
      BY <1>1, <2>1, <2>3, <3>2, <3>3 DEF FilesInPlace
  <2>8. InProgress(0 + 1)'
    BY <2>6
  <2> QED
    BY <1>2, <1>3, <2>1, <2>7, <2>8 DEF After
<1> QED
  BY <1>5, <1>7, <1>8

LEMMA FetchKeeps ==
  ASSUME DraftIInv, Fetch
  PROVE  DraftIInv'
<1>1. /\ verdict = "none" /\ Head(jobs).op = "fetch"
      /\ draft' = draft /\ nextId' = nextId /\ call' = call /\ before' = before
      /\ touched' = touched /\ calls' = calls /\ edits' = edits
  BY DEF Fetch
<1>2. DraftTyped /\ Server' /\ call \in Requests
  BY <1>1 DEF DraftIInv, DraftTyped, DraftTypeOK, Server
<1>3. ASSUME Finish("error"), fetched' = fetched \/ fetched' = draft
      PROVE  DraftIInv'
  <2>1. verdict' = "error" /\ jobs' = <<>>
    BY <1>3 DEF Finish
  <2>2. DraftTyped'
    <3>1. verdict' \in {"none", "ok", "error"} /\ (verdict' = "none" <=> jobs' # <<>>)
      BY <2>1
    <3> QED
      BY <1>1, <1>2, <1>3, <3>1, TypesKept
  <2>3. JobsInTurn' /\ Progress'
    BY <2>1, CallOver
  <2>4. MentionsReach' /\ FilesAsAsked'
    BY <1>1, <2>1
       DEF DraftIInv, MentionsReach, FilesAsAsked, Undisturbed, FieldsChanged,
           FilesInPlace, HasFiles
  <2> QED
    BY <2>2, <2>3, <2>4 DEF DraftIInv
<1>4. ASSUME draft.exists, fetched' = draft, GoOn(NextJobs(call, draft)),
             ~(call.tool = "delete_attachment" /\ NextJobs(call, draft) = <<>>)
      PROVE  DraftIInv'
  <2>1. After(0)' /\ call.tool # "create_draft"
    BY <1>1, <1>4, FetchedCopy
  <2>2. NextJobs(call, draft) \in Seq(Jobs)
    BY <1>2, <2>1, LaterJobs DEF DraftTyped, DraftTypeOK
  <2>3. PICK F : F = NextJobs(call, draft)
    OBVIOUS
  <2>4. F \in Seq(Jobs) /\ Len(F) \in Nat /\ Following' = F
    BY <1>1, <1>4, <2>2, <2>3 DEF Following
  <2>5. CASE F = <<>>
    <3>1. verdict' = "ok" /\ jobs' = <<>>
      BY <1>4, <2>3, <2>5 DEF GoOn, Finish
    <3>2. DraftTyped'
      <4>1. verdict' \in {"none", "ok", "error"} /\ (verdict' = "none" <=> jobs' # <<>>)
        BY <3>1
      <4> QED
        BY <1>1, <1>2, <1>4, <4>1, TypesKept
    <3>3. JobsInTurn' /\ Progress'
      BY <3>1, CallOver
    <3>4. MentionsReach' /\ FilesAsAsked'
      <4>1. Len(Following') = 0
        BY <2>4, <2>5
      <4> QED
        BY <2>1, <3>2, <4>1, AfterIsRight
    <3> QED
      BY <3>2, <3>3, <3>4 DEF DraftIInv
  <2>6. CASE F # <<>>
    <3>1. verdict' = "none" /\ jobs' = F
      BY <1>1, <1>4, <2>3, <2>6 DEF GoOn
    <3>2. DraftTyped'
      <4>1. verdict' \in {"none", "ok", "error"} /\ (verdict' = "none" <=> jobs' # <<>>)
        BY <2>6, <3>1
      <4> QED
        BY <1>1, <1>2, <1>4, <4>1, TypesKept
    <3>3. 1 \in 1..Len(F) /\ 0 < Len(F)
      BY <2>4, <2>6
    <3>4. jobs' = SubSeq(F, 1, Len(F))
      BY <2>4, <3>1
    <3>5. InProgress(1)'
      <4>1. InProgress(0 + 1)'
        BY <2>1, <2>4, <3>3 DEF After
      <4> QED
        BY <4>1
    <3>6. JobsInTurn' /\ Progress'
      BY <1>1, <2>1, <2>4, <3>1, <3>2, <3>3, <3>4, <3>5, GoesOn
    <3>7. MentionsReach' /\ FilesAsAsked'
      BY <2>1, <2>4, <3>1, <3>2, AfterIsRight
    <3> QED
      BY <3>2, <3>6, <3>7 DEF DraftIInv
  <2> QED
    BY <2>5, <2>6
<1> QED
  BY <1>3, <1>4 DEF Fetch

\* The call is over, or at the request after the n-th.
LEMMA JobDone ==
  ASSUME DraftIInv, NEW n \in Nat, AtJob(n), Apply(Head(jobs)), SameCall,
         calls' = calls, edits' = edits,
         GoOn(Tail(jobs)) \/ Finish("error")
  PROVE  DraftIInv'
<1>1. /\ n \in 1..Len(Following) /\ Head(jobs) = Following[n]
      /\ Tail(jobs) = SubSeq(Following, n + 1, Len(Following))
      /\ Tail(jobs) = <<>> <=> n = Len(Following)
      /\ Len(Following) \in Nat /\ verdict = "none" /\ call.tool # "create_draft"
  <2>1. Following \in Seq(Jobs)
    BY AtJobFacts DEF DraftIInv
  <2> QED
    BY <2>1, AtJobFacts DEF DraftIInv, AtJob
<1>2. After(n)'
  BY <1>1, NextJob
<1>3. /\ call' = call /\ fetched' = fetched /\ before' = before /\ touched' = touched
      /\ Following' = Following
  BY DEF SameCall, Following
<1>4. Server'
  BY <1>2 DEF After
<1>5. ASSUME verdict' \in {"ok", "error"}, jobs' = <<>>,
             verdict' = "ok" => n = Len(Following)
      PROVE  DraftIInv'
  <2>1. DraftTyped'
    <3>1. verdict' \in {"none", "ok", "error"} /\ (verdict' = "none" <=> jobs' # <<>>)
      BY <1>5
    <3> QED
      BY <1>3, <1>4, <3>1, TypesKept DEF DraftIInv
  <2>2. JobsInTurn' /\ Progress'
    BY <1>5, CallOver
  <2>3. MentionsReach' /\ FilesAsAsked'
    BY <1>1, <1>2, <1>3, <1>5, <2>1, AfterIsRight
  <2> QED
    BY <2>1, <2>2, <2>3 DEF DraftIInv
<1>6. CASE Finish("error")
  BY <1>5, <1>6 DEF Finish
<1>7. CASE GoOn(Tail(jobs)) /\ n = Len(Following)
  BY <1>1, <1>5, <1>7 DEF GoOn, Finish
<1>8. CASE GoOn(Tail(jobs)) /\ n # Len(Following)
  <2>1. verdict' = "none" /\ jobs' = SubSeq(Following, n + 1, Len(Following))
        /\ jobs' # <<>>
    BY <1>1, <1>8 DEF GoOn
  <2>2. DraftTyped'
    <3>1. verdict' \in {"none", "ok", "error"} /\ (verdict' = "none" <=> jobs' # <<>>)
      BY <2>1
    <3> QED
      BY <1>3, <1>4, <3>1, TypesKept DEF DraftIInv
  <2>3. n + 1 \in 1..Len(Following) /\ n < Len(Following) /\ n + 1 \in Nat
    BY <1>1, <1>8
  <2>4. InProgress(n + 1)'
    BY <1>2, <1>3, <2>3 DEF After
  <2>5. PICK m \in Nat : m = n + 1
    BY <2>3
  <2>6. JobsInTurn' /\ Progress'
    <3>1. m \in 1..Len(Following') /\ jobs' = SubSeq(Following', m, Len(Following'))
      BY <1>3, <2>1, <2>3, <2>5
    <3>2. InProgress(m)'
      BY <2>4, <2>5
    <3> QED
      BY <1>1, <1>3, <2>1, <2>2, <3>1, <3>2, GoesOn
  <2>7. MentionsReach' /\ FilesAsAsked'
    BY <1>1, <1>2, <1>3, <2>1, <2>2, AfterIsRight
  <2> QED
    BY <2>2, <2>6, <2>7 DEF DraftIInv
<1> QED
  BY <1>6, <1>7, <1>8

\* The first request of a call that creates a draft.
LEMMA FirstDone ==
  ASSUME DraftIInv, Unsent, Head(jobs).op # "fetch", Apply(Head(jobs)), SameCall,
         calls' = calls, edits' = edits,
         GoOn(Tail(jobs)) \/ Finish("error")
  PROVE  DraftIInv'
<1>1. /\ call \in Requests /\ call.tool \in Tools /\ DraftTyped
      /\ verdict = "none" /\ jobs = FirstJobs(call)
      /\ call' = call /\ fetched' = fetched /\ before' = before /\ touched' = touched
  BY AboutRequests DEF DraftIInv, DraftTyped, DraftTypeOK, Unsent, SameCall, RequestType
<1>2. call.tool \in Creators
  BY <1>1, FirstJob
<1>3. ASSUME Server', draft'.header \subseteq draft'.mentioned, NobodyMoved',
             verdict' \in {"ok", "error"}, jobs' = <<>>,
             verdict' = "ok" /\ Undisturbed' => MentionsInPlace' /\ FilesInPlace'
      PROVE  DraftIInv'
  <2>1. DraftTyped'
    <3>1. verdict' \in {"none", "ok", "error"} /\ (verdict' = "none" <=> jobs' # <<>>)
      BY <1>3
    <3> QED
      BY <1>1, <1>3, <3>1, TypesKept
  <2>2. JobsInTurn' /\ Progress'
    BY <1>3, CallOver
  <2>3. MentionsReach'
    BY <1>3 DEF MentionsReach, MentionsInPlace, NobodyMoved
  <2>4. FilesAsAsked'
    BY <1>1, <1>2, <1>3 DEF FilesAsAsked, FieldsChanged, Creators
  <2> QED
    BY <2>1, <2>2, <2>3, <2>4 DEF DraftIInv
<1>4. CASE call.tool = "create_draft"
  <2>1. Head(jobs).op = "create" /\ Tail(jobs) = <<>>
    BY <1>1, <1>4, FirstJob
  <2>2. /\ Server' /\ draft'.header \subseteq draft'.mentioned
        /\ NobodyMoved' /\ MentionsInPlace' /\ FilesInPlace'
    BY <1>4, <2>1, CreateStep
  <2>3. verdict' \in {"ok", "error"} /\ jobs' = <<>>
    BY <2>1 DEF GoOn, Finish
  <2> QED
    BY <1>3, <2>2, <2>3
<1>5. CASE call.tool = "create_reply_draft"
  <2>1. /\ Head(jobs).op = "reply"
        /\ Tail(jobs) = IF call.files # <<>> \/ call.mentions # {}
                        THEN <<Op("fetch")>> ELSE <<>>
    BY <1>1, <1>5, FirstJob
  <2>2. /\ Server' /\ draft'.header \subseteq draft'.mentioned
        /\ NobodyMoved' /\ draft'.exists /\ ReplyFields({})' /\ draft'.files = {}
    BY <1>5, <2>1, ReplyStep
  <2>3. CASE Finish("error")
    BY <1>3, <2>2, <2>3 DEF Finish
  <2>4. CASE GoOn(Tail(jobs)) /\ Tail(jobs) = <<>>
    <3>1. verdict' = "ok" /\ jobs' = <<>>
      BY <2>4 DEF GoOn, Finish
    <3>2. call.files = <<>> /\ call.mentions = {}
      BY <2>1, <2>4
    <3>3. MentionsInPlace' \/ ~Undisturbed'
      BY <1>1, <2>2, <3>2 DEF MentionsInPlace, ReplyFields
    <3>4. call.files # Unset /\ call.files \in Seq(Files) /\ Len(call.files) = 0
      BY <1>1, <1>2, <3>2, AboutRequests
    <3>5. HasFirst(Len(call.files))'
      BY <1>1, <2>2, <3>4, FirstNoneNext
    <3>6. HasFiles(call.files)'
      BY <1>1, <2>2, <3>4, <3>5, FilesComplete DEF Server
    <3>7. FilesInPlace'
      BY <1>1, <1>5, <3>4, <3>6 DEF FilesInPlace
    <3> QED
      BY <1>3, <2>2, <3>1, <3>3, <3>7
  <2>5. CASE GoOn(Tail(jobs)) /\ Tail(jobs) # <<>>
    <3>1. verdict' = "none" /\ jobs' = <<Op("fetch")>>
      BY <1>1, <2>1, <2>5 DEF GoOn
    <3>2. DraftTyped'
      <4>1. verdict' \in {"none", "ok", "error"} /\ (verdict' = "none" <=> jobs' # <<>>)
        BY <3>1
      <4> QED
        BY <1>1, <2>2, <4>1, TypesKept
    <3>3. Head(jobs').op = "fetch"
      <4>1. Op("fetch").op = "fetch" /\ Head(<<Op("fetch")>>) = Op("fetch")
        BY DEF Op
      <4> QED
        BY <3>1, <4>1
    <3>4. ~Unsent'
      <4>1. Head(FirstJobs(call)).op = "reply"
        BY <1>5, FirstJob
      <4> QED
        BY <1>1, <3>3, <4>1 DEF Unsent
    <3>5. \A n \in Nat : ~AtJob(n)'
      <4> SUFFICES ASSUME NEW n \in Nat, AtJob(n)' PROVE FALSE
        OBVIOUS
      <4>1. call' \in Requests /\ fetched' \in Drafts /\ IsFiniteSet(fetched'.files)
        BY <3>2 DEF DraftTyped, DraftTypeOK
      <4>2. PICK F : F = Following'
        OBVIOUS
      <4>3. n \in 1..Len(F) /\ jobs' = SubSeq(F, n, Len(F)) /\ call'.tool # "create_draft"
        BY <4>2 DEF AtJob
      <4>4. F \in Seq(Jobs)
        BY <4>1, <4>2, <4>3, LaterJobs DEF Following
      <4> QED
        BY <3>3, <4>3, <4>4, AtTheNth
    <3>6. Replied'
      BY <1>1, <1>5, <3>1 DEF Replied
    <3>7. HasFirst(0)'
      BY <2>2, FirstNoneNext
    <3>8. JobsInTurn' /\ Progress'
      BY <2>2, <3>4, <3>5, <3>6, <3>7 DEF JobsInTurn, Progress
    <3>9. MentionsReach'
      BY <2>2, <3>1 DEF MentionsReach, NobodyMoved
    <3>10. FilesAsAsked'
      BY <1>1, <1>5, <3>1 DEF FilesAsAsked, FieldsChanged
    <3> QED
      BY <3>2, <3>8, <3>9, <3>10 DEF DraftIInv
  <2> QED
    BY <2>3, <2>4, <2>5
<1> QED
  BY <1>2, <1>4, <1>5 DEF Creators

LEMMA SucceedKeeps ==
  ASSUME DraftIInv, Succeed
  PROVE  DraftIInv'
<1>1. /\ verdict = "none" /\ Head(jobs).op # "fetch" /\ Apply(Head(jobs))
      /\ GoOn(Tail(jobs)) /\ SameCall /\ calls' = calls /\ edits' = edits
  BY DEF Succeed, SameCall
<1>2. ~Replied
  <2>1. Op("fetch").op = "fetch" /\ Head(<<Op("fetch")>>) = Op("fetch")
    BY DEF Op
  <2> QED
    BY <1>1, <2>1 DEF Replied
<1>3. CASE Unsent
  BY <1>1, <1>3, FirstDone
<1>4. CASE \E n \in Nat : AtJob(n)
  BY <1>1, <1>4, JobDone
<1> QED
  BY <1>1, <1>2, <1>3, <1>4 DEF DraftIInv, JobsInTurn

LEMMA FailKeeps ==
  ASSUME DraftIInv, Fail
  PROVE  DraftIInv'
<1>1. /\ verdict = "none" /\ Head(jobs).op # "fetch"
      /\ Finish("error") /\ SameCall /\ calls' = calls /\ edits' = edits
  BY DEF Fail, SameCall
<1>2. ~Replied
  <2>1. Op("fetch").op = "fetch" /\ Head(<<Op("fetch")>>) = Op("fetch")
    BY DEF Op
  <2> QED
    BY <1>1, <2>1 DEF Replied
<1>3. CASE Apply(Head(jobs))
  <2>1. CASE Unsent
    BY <1>1, <1>3, <2>1, FirstDone
  <2>2. CASE \E n \in Nat : AtJob(n)
    BY <1>1, <1>3, <2>2, JobDone
  <2> QED
    BY <1>1, <1>2, <2>1, <2>2 DEF DraftIInv, JobsInTurn
<1>4. CASE UNCHANGED <<draft, nextId>>
  <2>1. verdict' = "error" /\ jobs' = <<>>
    BY <1>1 DEF Finish
  <2>2. DraftTyped'
    <3>1. verdict' \in {"none", "ok", "error"} /\ (verdict' = "none" <=> jobs' # <<>>)
      BY <2>1
    <3>2. Server' /\ DraftTyped
      BY <1>4 DEF DraftIInv, DraftTyped, DraftTypeOK, Server
    <3> QED
      BY <1>1, <3>1, <3>2, TypesKept DEF SameCall
  <2>3. JobsInTurn' /\ Progress'
    BY <2>1, CallOver
  <2>4. MentionsReach' /\ FilesAsAsked'
    BY <1>1, <1>4, <2>1
       DEF DraftIInv, MentionsReach, FilesAsAsked, Undisturbed, FieldsChanged,
           FilesInPlace, HasFiles, SameCall
  <2> QED
    BY <2>2, <2>3, <2>4 DEF DraftIInv
<1> QED
  BY <1>3, <1>4 DEF Fail

LEMMA BeginKeeps ==
  ASSUME DraftIInv, NEW r \in Requests, Begin(r)
  PROVE  DraftIInv'
<1>1. /\ calls < MaxCalls /\ calls' = calls + 1 /\ call' = r /\ jobs' = FirstJobs(r)
      /\ fetched' = NoDraft /\ verdict' = "none" /\ before' = draft
      /\ touched' = (IF touched = "never" THEN touched ELSE "earlier")
      /\ draft' = draft /\ nextId' = nextId /\ edits' = edits
  BY DEF Begin
<1>2. DraftTyped /\ r.tool \in Tools
  BY AboutRequests DEF DraftIInv, RequestType
<1>3. NoDraft \in Drafts /\ IsFiniteSet(NoDraft.files)
  BY FS_EmptySet DEF NoDraft, Drafts
<1>4. FirstJobs(r) # <<>>
  BY FirstJob
<1>5. DraftTyped'
  BY <1>1, <1>2, <1>3, <1>4, DraftAssumption
     DEF DraftTyped, DraftTypeOK, DraftAssumption
<1>6. Unsent'
  BY <1>1 DEF Unsent
<1>7. Head(jobs').op = Head(FirstJobs(r)).op
  BY <1>1
<1>8. ~Replied'
  <2>1. Op("fetch").op = "fetch" /\ Head(<<Op("fetch")>>) = Op("fetch")
    BY DEF Op
  <2>2. r.tool = "create_reply_draft" => Head(FirstJobs(r)).op = "reply"
    BY FirstJob
  <2> QED
    BY <1>1, <1>7, <2>1, <2>2 DEF Replied
<1>9. \A n \in Nat : ~AtJob(n)'
  <2> SUFFICES ASSUME NEW n \in Nat, AtJob(n)' PROVE FALSE
    OBVIOUS
  <2>1. PICK F : F = Following'
    OBVIOUS
  <2>2. n \in 1..Len(F) /\ jobs' = SubSeq(F, n, Len(F)) /\ r.tool # "create_draft"
    BY <1>1, <2>1 DEF AtJob
  <2>3. F \in Seq(Jobs)
    BY <1>1, <1>3, <2>1, <2>2, LaterJobs DEF Following
  <2>4. Head(jobs').op \in {"header", "attach", "detach", "save"}
    BY <2>2, <2>3, AtTheNth
  <2>5. Head(FirstJobs(r)).op \in {"create", "reply", "fetch"}
    BY <1>2, FirstJob DEF Tools, Creators
  <2> QED
    BY <1>7, <2>4, <2>5
<1>10. JobsInTurn' /\ Progress'
  BY <1>1, <1>6, <1>8, <1>9 DEF JobsInTurn, Progress
<1>11. MentionsReach'
  BY <1>1 DEF DraftIInv, MentionsReach
<1>12. FilesAsAsked'
  BY <1>1 DEF FilesAsAsked, FieldsChanged
<1> QED
  BY <1>5, <1>10, <1>11, <1>12 DEF DraftIInv

LEMMA EditKeeps ==
  ASSUME DraftIInv, Edit
  PROVE  DraftIInv'
<1>1. /\ edits < MaxEdits /\ edits' = edits + 1 /\ touched' = "now"
      /\ nextId' = nextId /\ call' = call /\ jobs' = jobs /\ fetched' = fetched
      /\ verdict' = verdict /\ before' = before /\ calls' = calls
      /\ Following' = Following /\ HeaderJobs' = HeaderJobs
  BY DEF Edit, Following, HeaderJobs
<1>2. /\ draft \in Drafts /\ IsFiniteSet(draft.files)
      /\ \A a \in draft.files : a.id <= nextId
      /\ draft.header \subseteq draft.mentioned
  BY DEF DraftIInv, DraftTyped, DraftTypeOK, MentionsReach
<1> DEFINE Kept ==
       /\ draft' \in Drafts /\ draft'.files \subseteq draft.files
       /\ draft'.header \subseteq draft'.mentioned
       /\ draft'.exists => /\ draft.exists /\ draft'.header = draft.header
                           /\ draft'.mentioned = draft.mentioned
<1>3. Kept
  <2>1. ASSUME NEW S \in SUBSET People, draft' = [draft EXCEPT !.to = S]
        PROVE  Kept
    BY <1>2, <2>1 DEF Drafts
  <2>2. ASSUME NEW a \in draft.files, draft' = [draft EXCEPT !.files = @ \ {a}]
        PROVE  Kept
    BY <1>2, <2>2 DEF Drafts
  <2>3. ASSUME draft' = NoDraft
        PROVE  Kept
    BY <1>2, <2>3 DEF Drafts, NoDraft
  <2> QED
    BY <2>1, <2>2, <2>3 DEF Edit
<1>4. DraftTyped'
  <2>1. IsFiniteSet(draft'.files)
    BY <1>2, <1>3, FS_Subset
  <2>2. DraftTyped /\ MaxEdits \in Nat
    BY DraftAssumption DEF DraftIInv, DraftAssumption
  <2> QED
    BY <1>1, <1>2, <1>3, <2>1, <2>2 DEF DraftTyped, DraftTypeOK
<1>5. ~Undisturbed'
  BY <1>1 DEF Undisturbed
<1>6. /\ Unsent' = Unsent /\ Replied' = Replied
      /\ \A n \in Nat : AtJob(n)' = AtJob(n)
  BY <1>1 DEF Unsent, Replied, AtJob
<1>7. JobsInTurn'
  BY <1>1, <1>6 DEF DraftIInv, JobsInTurn
<1>8. Progress'
  <2>1. Replied' => ReplyFields({})'
    BY <1>1, <1>3, <1>5, <1>6 DEF DraftIInv, Progress, ReplyFields
  <2>2. ASSUME NEW n \in Nat, AtJob(n)'
        PROVE  IF call'.tool = "create_reply_draft"
               THEN ReplyFields(IF n <= HeaderJobs THEN {} ELSE call.mentions)'
               ELSE DraftFields'
    <3>1. IF call.tool = "create_reply_draft"
          THEN ReplyFields(IF n <= HeaderJobs THEN {} ELSE call.mentions)
          ELSE DraftFields
      BY <1>6, <2>2 DEF DraftIInv, Progress
    <3> QED
      BY <1>1, <1>3, <1>5, <3>1 DEF ReplyFields, DraftFields
  <2> QED
    BY <1>5, <2>1, <2>2 DEF Progress
<1>9. MentionsReach' /\ FilesAsAsked'
  BY <1>3, <1>5 DEF MentionsReach, FilesAsAsked
<1> QED
  BY <1>4, <1>7, <1>8, <1>9 DEF DraftIInv

LEMMA DraftInitGood == DraftInit => DraftIInv
<1> SUFFICES ASSUME DraftInit PROVE DraftIInv
  OBVIOUS
<1>1. /\ draft = NoDraft /\ nextId = 0 /\ call \in Requests /\ call.tool \in Creators
      /\ jobs = FirstJobs(call) /\ fetched = NoDraft /\ verdict = "none"
      /\ before = NoDraft /\ touched = "never" /\ calls = 1 /\ edits = 0
  BY DEF DraftInit
<1>2. NoDraft \in Drafts /\ IsFiniteSet(NoDraft.files) /\ NoDraft.files = {}
      /\ NoDraft.header = {} /\ NoDraft.to = {}
  BY FS_EmptySet DEF NoDraft, Drafts
<1>3. DraftTyped
  <2>1. jobs # <<>> /\ 1 \in 1..MaxCalls /\ 0 \in 0..MaxEdits
    BY <1>1, FirstJob, DraftAssumption DEF DraftAssumption
  <2> QED
    BY <1>1, <1>2, <2>1 DEF DraftTyped, DraftTypeOK
<1>4. Unsent /\ Head(jobs).op \in {"create", "reply"}
  BY <1>1, FirstJob DEF Unsent, Creators
<1>5. ~Replied
  <2>1. Op("fetch").op = "fetch" /\ Head(<<Op("fetch")>>) = Op("fetch")
    BY DEF Op
  <2> QED
    BY <1>4, <2>1 DEF Replied
<1>6. \A n \in Nat : ~AtJob(n)
  BY <1>3, <1>4, AtJobFacts
<1>7. JobsInTurn /\ Progress
  BY <1>1, <1>4, <1>5, <1>6 DEF JobsInTurn, Progress
<1>8. MentionsReach /\ FilesAsAsked
  BY <1>1, <1>2 DEF MentionsReach, FilesAsAsked, FieldsChanged
<1> QED
  BY <1>3, <1>7, <1>8 DEF DraftIInv

LEMMA DraftNextKeeps == DraftIInv /\ [DraftNext]_draftVars => DraftIInv'
<1> SUFFICES ASSUME DraftIInv, [DraftNext]_draftVars PROVE DraftIInv'
  OBVIOUS
<1>1. CASE \E r \in Requests : Begin(r)
  BY <1>1, BeginKeeps
<1>2. CASE Fetch
  BY <1>2, FetchKeeps
<1>3. CASE Succeed
  BY <1>3, SucceedKeeps
<1>4. CASE Fail
  BY <1>4, FailKeeps
<1>5. CASE Edit
  BY <1>5, EditKeeps
<1>6. CASE UNCHANGED draftVars
  <2>1. /\ draft' = draft /\ nextId' = nextId /\ call' = call /\ jobs' = jobs
        /\ fetched' = fetched /\ verdict' = verdict /\ before' = before
        /\ touched' = touched /\ calls' = calls /\ edits' = edits
    BY <1>6 DEF draftVars
  <2>2. DraftTyped'
    BY <2>1 DEF DraftIInv, DraftTyped, DraftTypeOK
  <2>3. /\ Unsent' = Unsent /\ Replied' = Replied /\ \A n \in Nat : AtJob(n)' = AtJob(n)
        /\ Undisturbed' = Undisturbed /\ Following' = Following
        /\ HeaderJobs' = HeaderJobs /\ Detachments' = Detachments
        /\ \A k : HasFirst(k)' = HasFirst(k)
        /\ DraftFields' = DraftFields
    BY <2>1 DEF Unsent, Replied, AtJob, Undisturbed, Following, HeaderJobs, Detachments,
                HasFirst, DraftFields
  <2>4. \A n : Left(n)' = Left(n)
    BY <2>1, <2>3 DEF Left
  <2>5. \A n : FilesAt(n)' = FilesAt(n)
    BY <2>1, <2>3, <2>4 DEF FilesAt
  <2>6. \A S : ReplyFields(S)' = ReplyFields(S)
    BY <2>1, <2>3 DEF ReplyFields
  <2>7. JobsInTurn'
    BY <2>1, <2>3 DEF DraftIInv, JobsInTurn
  <2>8. Progress'
    BY <2>1, <2>3, <2>5, <2>6 DEF DraftIInv, Progress, ReplyFields
  <2>9. MentionsReach' /\ FilesAsAsked'
    BY <2>1 DEF DraftIInv, MentionsReach, FilesAsAsked, Undisturbed, FieldsChanged,
                FilesInPlace, HasFiles
  <2> QED
    BY <2>2, <2>7, <2>8, <2>9 DEF DraftIInv
<1> QED
  BY <1>1, <1>2, <1>3, <1>4, <1>5, <1>6 DEF DraftNext

\* Types of the draft, of the copy fetched and of the requests that follow
\* (create_draft, update_draft, create_reply, add_attachment, delete_attachment).
THEOREM DraftTypes == DraftSpec => []DraftTypeOK
<1>1. DraftIInv => DraftTypeOK
  BY DEF DraftIInv, DraftTyped
<1> QED
  BY <1>1, DraftInitGood, DraftNextKeeps, PTL DEF DraftSpec

\* Whoever is mentioned in the header of a draft is among its recipients,
\* whichever request of whichever call fails (_ensure_mentioned_recipients and
\* the order of update_draft's requests).
THEOREM MentionsAlwaysReach == DraftSpec => []MentionsReach
<1>1. DraftIInv => MentionsReach
  BY DEF DraftIInv
<1> QED
  BY <1>1, DraftInitGood, DraftNextKeeps, PTL DEF DraftSpec

\* A call that succeeded, and an update_draft that failed after it changed a
\* field, leave exactly the attachments asked for (_replace_attachments and the
\* order of update_draft's requests).
THEOREM DraftsHaveTheirFiles == DraftSpec => []FilesAsAsked
<1>1. DraftIInv => FilesAsAsked
  BY DEF DraftIInv
<1> QED
  BY <1>1, DraftInitGood, DraftNextKeeps, PTL DEF DraftSpec
=============================================================================
