---------------------------- MODULE QueueLemmas ----------------------------
(***************************************************************************)
(* Facts that the proofs of several modules rest on: the least of a set of *)
(* numbers, and the waiter queues of anyio's Lock and Semaphore, as the    *)
(* models write them: sequences without repetition from which a cancelled  *)
(* waiter is removed wherever it stands.                                   *)
(***************************************************************************)
EXTENDS SequencesExt, SequenceTheorems, WellFoundedInduction, NaturalsInduction, TLAPS

\* A set of natural numbers that is not empty has a least element.
LEMMA LeastNumber ==
  ASSUME NEW S \in SUBSET Nat, S # {}
  PROVE  \E n \in S : \A m \in S : n <= m
<1> DEFINE R == {ss \in Nat \X Nat : ss[1] < ss[2]}
<1>1. IsWellFoundedOn(R, Nat)
  BY NatLessThanWellFounded DEF OpToRel
<1>2. \A x, y \in Nat : y < x => <<y, x>> \in R
  <2> SUFFICES ASSUME NEW x \in Nat, NEW y \in Nat, y < x PROVE <<y, x>> \in R
    OBVIOUS
  <2>1. <<y, x>> \in Nat \X Nat /\ <<y, x>>[1] = y /\ <<y, x>>[2] = x
    OBVIOUS
  <2> QED
    BY <2>1
<1> HIDE DEF R
<1>3. PICK n \in S : \A m \in S : ~(<<m, n>> \in R)
  BY <1>1, WFMin
<1>4. \A m \in S : ~(m < n)
  BY <1>2, <1>3
<1> QED
  BY <1>4

-----------------------------------------------------------------------------
\* q minus its k-th element, for the lemma below.
LEMMA RemoveAtProperties ==
  ASSUME NEW S, NEW q \in Seq(S), NEW k \in 1..Len(q)
  PROVE  LET t == RemoveAt(q, k)
         IN  /\ t \in Seq(S)
             /\ Len(t) = Len(q) - 1
             /\ \A i \in 1..Len(t) : t[i] = IF i < k THEN q[i] ELSE q[i+1]
<1> DEFINE a == SubSeq(q, 1, k-1)
           b == SubSeq(q, k+1, Len(q))
<1>1. Len(q) \in Nat /\ k \in Nat /\ k >= 1 /\ k <= Len(q)
  BY LenProperties
<1>2. /\ a \in Seq(S)
      /\ Len(a) = k - 1
      /\ \A i \in 1..k-1 : a[i] = q[i]
  <2>1. \A i \in 1..(k-1) : q[i] \in S
    BY <1>1, ElementOfSeq
  <2>2. /\ SubSeq(q, 1, k-1) \in Seq(S)
        /\ Len(SubSeq(q, 1, k-1)) = IF 1 <= k-1 THEN (k-1)-1+1 ELSE 0
        /\ \A i \in 1..((k-1)-1+1) : SubSeq(q, 1, k-1)[i] = q[1+i-1]
    BY <1>1, <2>1, SubSeqProperties
  <2> QED
    BY <1>1, <2>2
<1>3. /\ b \in Seq(S)
      /\ Len(b) = Len(q) - k
      /\ \A i \in 1..(Len(q)-k) : b[i] = q[i+k]
  <2>1. \A i \in (k+1)..Len(q) : q[i] \in S
    BY <1>1, ElementOfSeq
  <2>2. /\ SubSeq(q, k+1, Len(q)) \in Seq(S)
        /\ Len(SubSeq(q, k+1, Len(q))) = IF k+1 <= Len(q) THEN Len(q)-(k+1)+1 ELSE 0
        /\ \A i \in 1..(Len(q)-(k+1)+1) : SubSeq(q, k+1, Len(q))[i] = q[(k+1)+i-1]
    BY <1>1, <2>1, SubSeqProperties
  <2> QED
    BY <1>1, <2>2
<1>4. /\ a \o b \in Seq(S)
      /\ Len(a \o b) = Len(a) + Len(b)
      /\ \A i \in 1..(Len(a) + Len(b)) :
           (a \o b)[i] = IF i <= Len(a) THEN a[i] ELSE b[i - Len(a)]
  BY <1>2, <1>3, ConcatProperties
<1>5. RemoveAt(q, k) = a \o b
  BY DEF RemoveAt
<1> HIDE DEF a, b
<1>6. \A i \in 1..(Len(q)-1) : (a \o b)[i] = IF i < k THEN q[i] ELSE q[i+1]
  <2> TAKE i \in 1..(Len(q)-1)
  <2>1. CASE i < k
    BY <2>1, <1>1, <1>2, <1>3, <1>4
  <2>2. CASE ~(i < k)
    <3> DEFINE m == i - (k - 1)
    <3>1. m \in 1..(Len(q)-k) /\ m + k = i + 1 /\ ~(i <= k - 1)
      BY <2>2, <1>1
    <3>2. (a \o b)[i] = b[m]
      BY <3>1, <1>1, <1>2, <1>3, <1>4
    <3>3. b[m] = q[m + k]
      BY <3>1, <1>3
    <3> QED
      BY <2>2, <3>1, <3>2, <3>3
  <2> QED
    BY <2>1, <2>2
<1>7. Len(a \o b) = Len(q) - 1
  BY <1>1, <1>2, <1>3, <1>4
<1> QED
  BY <1>4, <1>5, <1>6, <1>7

\* Removing a waiter shifts the waiters behind it up by one place.
LEMMA RemoveFirstShifts ==
  ASSUME NEW S, NEW q \in Seq(S), IsInjective(q), NEW e
  PROVE  \/ /\ \A i \in 1..Len(q) : q[i] # e
            /\ RemoveFirst(q, e) = q
         \/ \E k \in 1..Len(q) :
              /\ q[k] = e
              /\ RemoveFirst(q, e) \in Seq(S)
              /\ Len(RemoveFirst(q, e)) = Len(q) - 1
              /\ \A i \in 1..Len(q)-1 :
                   RemoveFirst(q, e)[i] = IF i < k THEN q[i] ELSE q[i+1]
<1>1. Len(q) \in Nat /\ \A i, j \in 1..Len(q) : q[i] = q[j] => i = j
  BY LenProperties DEF IsInjective
<1>2. CASE \A i \in 1..Len(q) : q[i] # e
  BY <1>2 DEF RemoveFirst
<1>3. ASSUME NEW k \in 1..Len(q), q[k] = e
      PROVE  RemoveFirst(q, e) = RemoveAt(q, k)
  <2>1. {i \in 1..Len(q) : q[i] = e} = {k}
    BY <1>1, <1>3
  <2>2. Min({k}) = k
    BY <1>1 DEF Min
  <2> QED
    BY <1>3, <2>1, <2>2 DEF RemoveFirst, SelectInSeq
<1>4. CASE \E i \in 1..Len(q) : q[i] = e
  <2>1. PICK k \in 1..Len(q) : q[k] = e
    BY <1>4
  <2>2. /\ RemoveAt(q, k) \in Seq(S)
        /\ Len(RemoveAt(q, k)) = Len(q) - 1
        /\ \A i \in 1..Len(RemoveAt(q, k)) :
             RemoveAt(q, k)[i] = IF i < k THEN q[i] ELSE q[i+1]
    BY RemoveAtProperties
  <2> QED
    BY <1>3, <2>1, <2>2
<1> QED
  BY <1>2, <1>4

\* What the removal of a waiter leaves: every other waiter, once.
LEMMA RemoveFirstProperties ==
  ASSUME NEW S, NEW q \in Seq(S), IsInjective(q), NEW e
  PROVE  /\ RemoveFirst(q, e) \in Seq(S)
         /\ IsInjective(RemoveFirst(q, e))
         /\ \A i \in 1..Len(RemoveFirst(q, e)) :
              /\ RemoveFirst(q, e)[i] # e
              /\ \E j \in 1..Len(q) : RemoveFirst(q, e)[i] = q[j]
<1> DEFINE t == RemoveFirst(q, e)
<1>1. Len(q) \in Nat /\ \A i, j \in 1..Len(q) : q[i] = q[j] => i = j
  BY LenProperties DEF IsInjective
<1>2. \/ t = q /\ \A i \in 1..Len(q) : q[i] # e
      \/ \E k \in 1..Len(q) :
           /\ q[k] = e
           /\ t \in Seq(S)
           /\ Len(t) = Len(q) - 1
           /\ \A i \in 1..Len(q)-1 : t[i] = IF i < k THEN q[i] ELSE q[i+1]
  BY RemoveFirstShifts
<1> HIDE DEF t
<1>3. CASE t = q /\ \A i \in 1..Len(q) : q[i] # e
  BY <1>1, <1>3 DEF t
<1>4. ASSUME NEW k \in 1..Len(q), q[k] = e, t \in Seq(S), Len(t) = Len(q) - 1,
             \A i \in 1..Len(q)-1 : t[i] = IF i < k THEN q[i] ELSE q[i+1]
      PROVE  /\ IsInjective(t)
             /\ \A i \in 1..Len(t) : t[i] # e /\ \E j \in 1..Len(q) : t[i] = q[j]
  <2>1. DOMAIN t = 1..Len(t)
    BY <1>4, LenProperties
  <2>2. \A i \in 1..Len(t) : i \in 1..Len(q) /\ i+1 \in 1..Len(q)
    BY <1>1, <1>4
  <2>3. IsInjective(t)
    <3> SUFFICES ASSUME NEW i \in 1..Len(t), NEW j \in 1..Len(t), t[i] = t[j]
                 PROVE  i = j
      BY <2>1 DEF IsInjective
    <3>1. (IF i < k THEN q[i] ELSE q[i+1]) = (IF j < k THEN q[j] ELSE q[j+1])
      BY <1>4
    <3> QED
      BY <1>1, <2>2, <3>1
  <2>4. \A i \in 1..Len(t) : t[i] # e /\ \E j \in 1..Len(q) : t[i] = q[j]
    <3> TAKE i \in 1..Len(t)
    <3>1. CASE i < k
      BY <1>1, <1>4, <2>2, <3>1
    <3>2. CASE ~(i < k)
      <4>1. i+1 # k
        BY <1>1, <3>2, <2>2
      <4> QED
        BY <1>1, <1>4, <2>2, <3>2, <4>1
    <3> QED
      BY <3>1, <3>2
  <2> QED
    BY <2>3, <2>4
<1> QED
  BY <1>2, <1>3, <1>4 DEF t

\* The head of a queue is its first element, and its tail the others in order.
LEMMA HeadTailInjective ==
  ASSUME NEW S, NEW q \in Seq(S), IsInjective(q), q # <<>>
  PROVE  /\ Len(q) \in Nat /\ 1 \in 1..Len(q) /\ Head(q) = q[1]
         /\ Tail(q) \in Seq(S)
         /\ IsInjective(Tail(q))
         /\ Len(Tail(q)) = Len(q) - 1
         /\ \A i \in 1..Len(Tail(q)) :
              i+1 \in 1..Len(q) /\ Tail(q)[i] = q[i+1] /\ Tail(q)[i] # Head(q)
<1>1. Len(q) \in Nat \ {0} /\ DOMAIN q = 1..Len(q)
  BY EmptySeq, LenProperties
<1>2. Head(q) = q[1]
  OBVIOUS
<1>3. /\ Tail(q) \in Seq(S)
      /\ Len(Tail(q)) = Len(q) - 1
      /\ \A i \in 1..Len(Tail(q)) : Tail(q)[i] = q[i+1]
  BY HeadTailProperties
<1>4. DOMAIN Tail(q) = 1..Len(Tail(q))
  BY <1>3, LenProperties
<1>5. \A i \in 1..Len(Tail(q)) : i+1 \in 1..Len(q) /\ Tail(q)[i] # q[1]
  BY <1>1, <1>3 DEF IsInjective
<1>6. IsInjective(Tail(q))
  BY <1>1, <1>3, <1>4, <1>5 DEF IsInjective
<1> QED
  BY <1>1, <1>2, <1>3, <1>5, <1>6

\* A waiter that joins a queue it is not in stands last, once.
LEMMA AppendInjectiveQueue ==
  ASSUME NEW S, NEW q \in Seq(S), IsInjective(q), NEW e \in S,
         \A i \in 1..Len(q) : q[i] # e
  PROVE  LET t == Append(q, e)
         IN  /\ t \in Seq(S)
             /\ IsInjective(t)
             /\ Len(t) = Len(q) + 1
             /\ \A i \in 1..Len(t) :
                  \/ i \in 1..Len(q) /\ t[i] = q[i]
                  \/ i = Len(t) /\ t[i] = e
<1> DEFINE t == Append(q, e)
<1>1. Len(q) \in Nat /\ DOMAIN q = 1..Len(q)
  BY LenProperties
<1>2. /\ t \in Seq(S)
      /\ Len(t) = Len(q) + 1
      /\ \A i \in 1..Len(q) : t[i] = q[i]
      /\ t[Len(q)+1] = e
  BY AppendProperties
<1> HIDE DEF t
<1>3. DOMAIN t = 1..Len(t)
  BY <1>2, LenProperties
<1>4. \A i \in 1..Len(t) : \/ i \in 1..Len(q) /\ t[i] = q[i]
                           \/ i = Len(t) /\ t[i] = e
  BY <1>1, <1>2
<1>5. IsInjective(t)
  BY <1>1, <1>2, <1>3, <1>4 DEF IsInjective
<1> QED
  BY <1>2, <1>4, <1>5 DEF t

-----------------------------------------------------------------------------
\* d stands before c in the queue q.
Before(q, d, c) ==
  \E i, j \in 1..Len(q) : i < j /\ q[i] = d /\ q[j] = c

\* Who joins a queue has everybody in it before him, and disturbs nobody.
LEMMA AppendOrder ==
  ASSUME NEW S, NEW q \in Seq(S), NEW e \in S, ~Contains(q, e)
  PROVE  /\ \A d : Contains(Append(q, e), d) <=> Contains(q, d) \/ d = e
         /\ \A d, c : Before(Append(q, e), d, c) <=>
                        Before(q, d, c) \/ (c = e /\ Contains(q, d))
<1> DEFINE t == Append(q, e)
<1>1. Len(q) \in Nat
  BY LenProperties
<1>2. /\ Len(t) = Len(q) + 1
      /\ \A i \in 1..Len(q) : t[i] = q[i]
      /\ t[Len(q)+1] = e
  BY AppendProperties
<1> HIDE DEF t
<1>3. \A i \in 1..Len(t) : \/ i \in 1..Len(q) /\ t[i] = q[i]
                           \/ i = Len(q) + 1 /\ t[i] = e
  BY <1>1, <1>2
<1>4. \A i \in 1..Len(q) : i \in 1..Len(t) /\ i < Len(q) + 1 /\ q[i] # e
  BY <1>1, <1>2 DEF Contains
<1>5. Len(q) + 1 \in 1..Len(t)
  BY <1>1, <1>2
<1>6. \A d : Contains(t, d) <=> Contains(q, d) \/ d = e
  BY <1>2, <1>3, <1>4, <1>5 DEF Contains
<1>7. ASSUME NEW d, NEW c, Before(t, d, c)
      PROVE  Before(q, d, c) \/ (c = e /\ Contains(q, d))
  <2>1. PICK i \in 1..Len(t), j \in 1..Len(t) : i < j /\ t[i] = d /\ t[j] = c
    BY <1>7 DEF Before
  <2>2. i \in 1..Len(q)
    BY <1>1, <1>2, <2>1
  <2>3. CASE j \in 1..Len(q)
    BY <1>2, <2>1, <2>2, <2>3 DEF Before
  <2>4. CASE j = Len(q) + 1
    BY <1>2, <2>1, <2>2, <2>4 DEF Contains
  <2> QED
    BY <1>3, <2>3, <2>4
<1>8. ASSUME NEW d, NEW c, Before(q, d, c)
      PROVE  Before(t, d, c)
  BY <1>2, <1>4, <1>8 DEF Before
<1>9. ASSUME NEW d, Contains(q, d)
      PROVE  Before(t, d, e)
  BY <1>2, <1>4, <1>5, <1>9 DEF Before, Contains
<1> QED
  BY <1>6, <1>7, <1>8, <1>9 DEF t

\* When the head is served, the others keep their order; it was before them all.
LEMMA TailOrder ==
  ASSUME NEW S, NEW q \in Seq(S), IsInjective(q), q # <<>>
  PROVE  /\ Contains(q, Head(q)) /\ \A d : ~Before(q, d, Head(q))
         /\ \A c : Contains(q, c) /\ c # Head(q) => Before(q, Head(q), c)
         /\ \A c : Contains(Tail(q), c) <=> Contains(q, c) /\ c # Head(q)
         /\ \A d, c : Before(Tail(q), d, c) <=> Before(q, d, c) /\ d # Head(q)
<1> DEFINE t == Tail(q)
           h == Head(q)
<1>1. /\ Len(q) \in Nat /\ 1 \in 1..Len(q) /\ h = q[1]
      /\ Len(t) = Len(q) - 1
      /\ \A i \in 1..Len(t) : i+1 \in 1..Len(q) /\ t[i] = q[i+1] /\ t[i] # h
  BY HeadTailInjective
<1>2. \A i, j \in 1..Len(q) : q[i] = q[j] => i = j
  BY <1>1, LenProperties DEF IsInjective
<1> HIDE DEF t, h
<1>3. \A i \in 1..Len(q) : i # 1 => /\ i-1 \in 1..Len(t) /\ t[i-1] = q[i]
                                    /\ q[i] # h /\ 1 < i
  <2> SUFFICES ASSUME NEW i \in 1..Len(q), i # 1
               PROVE  i-1 \in 1..Len(t) /\ t[i-1] = q[i] /\ q[i] # h /\ 1 < i
    OBVIOUS
  <2>1. i-1 \in 1..Len(t) /\ (i-1)+1 = i /\ 1 < i
    BY <1>1
  <2> QED
    BY <1>1, <2>1
<1>4. Contains(q, h) /\ \A d : ~Before(q, d, h)
  BY <1>1, <1>3 DEF Contains, Before
<1>5. \A c : Contains(q, c) /\ c # h => Before(q, h, c)
  BY <1>1, <1>3 DEF Contains, Before
<1>6. \A c : Contains(t, c) <=> Contains(q, c) /\ c # h
  BY <1>1, <1>3 DEF Contains
<1>7. ASSUME NEW d, NEW c, Before(t, d, c)
      PROVE  Before(q, d, c) /\ d # h
  <2>1. PICK i \in 1..Len(t), j \in 1..Len(t) : i < j /\ t[i] = d /\ t[j] = c
    BY <1>7 DEF Before
  <2>2. i+1 < j+1
    BY <1>1, <2>1
  <2> QED
    BY <1>1, <2>1, <2>2 DEF Before
<1>8. ASSUME NEW d, NEW c, Before(q, d, c), d # h
      PROVE  Before(t, d, c)
  <2>1. PICK i \in 1..Len(q), j \in 1..Len(q) : i < j /\ q[i] = d /\ q[j] = c
    BY <1>8 DEF Before
  <2>2. i # 1 /\ j # 1 /\ i-1 < j-1
    BY <1>1, <1>8, <2>1
  <2> QED
    BY <1>3, <2>1, <2>2 DEF Before
<1> QED
  BY <1>4, <1>5, <1>6, <1>7, <1>8 DEF t, h

\* When a waiter is cancelled, the others keep their order.
LEMMA RemoveFirstOrder ==
  ASSUME NEW S, NEW q \in Seq(S), IsInjective(q), NEW e
  PROVE  /\ \A c : Contains(RemoveFirst(q, e), c) <=> Contains(q, c) /\ c # e
         /\ \A d, c : Before(RemoveFirst(q, e), d, c) <=>
                        Before(q, d, c) /\ d # e /\ c # e
<1> DEFINE t == RemoveFirst(q, e)
<1>1. Len(q) \in Nat /\ \A i, j \in 1..Len(q) : q[i] = q[j] => i = j
  BY LenProperties DEF IsInjective
<1>2. \/ t = q /\ \A i \in 1..Len(q) : q[i] # e
      \/ \E k \in 1..Len(q) :
           /\ q[k] = e
           /\ Len(t) = Len(q) - 1
           /\ \A i \in 1..Len(q)-1 : t[i] = IF i < k THEN q[i] ELSE q[i+1]
  BY RemoveFirstShifts
<1> HIDE DEF t
<1>3. CASE t = q /\ \A i \in 1..Len(q) : q[i] # e
  BY <1>3 DEF t, Contains, Before
<1>4. ASSUME NEW k \in 1..Len(q), q[k] = e, Len(t) = Len(q) - 1,
             \A i \in 1..Len(q)-1 : t[i] = IF i < k THEN q[i] ELSE q[i+1]
      PROVE  /\ \A c : Contains(t, c) <=> Contains(q, c) /\ c # e
             /\ \A d, c : Before(t, d, c) <=> Before(q, d, c) /\ d # e /\ c # e
  <2> DEFINE old(i) == IF i < k THEN i ELSE i+1
             new(i) == IF i < k THEN i ELSE i-1
  <2>1. \A i \in 1..Len(t) : /\ old(i) \in 1..Len(q) /\ t[i] = q[old(i)]
                             /\ old(i) # k /\ q[old(i)] # e
    <3> TAKE i \in 1..Len(t)
    <3>1. old(i) \in 1..Len(q) /\ old(i) # k
      BY <1>1, <1>4
    <3>2. t[i] = q[old(i)]
      BY <1>1, <1>4
    <3> QED
      BY <1>1, <1>4, <3>1, <3>2
  <2>2. \A i \in 1..Len(q) : i # k =>
          new(i) \in 1..Len(t) /\ t[new(i)] = q[i] /\ q[i] # e
    <3> SUFFICES ASSUME NEW i \in 1..Len(q), i # k
                 PROVE  new(i) \in 1..Len(t) /\ t[new(i)] = q[i] /\ q[i] # e
      OBVIOUS
    <3>1. new(i) \in 1..Len(t) /\ old(new(i)) = i
      BY <1>1, <1>4
    <3> HIDE DEF old, new
    <3> QED
      BY <1>1, <1>4, <2>1, <3>1
  <2>3. \A i, j \in 1..Len(t) : i < j => old(i) < old(j)
    BY <1>1, <1>4
  <2>4. \A i, j \in 1..Len(q) : i # k /\ j # k /\ i < j => new(i) < new(j)
    BY <1>1, <1>4
  <2> HIDE DEF old, new
  <2>5. \A c : Contains(t, c) <=> Contains(q, c) /\ c # e
    BY <1>4, <2>1, <2>2 DEF Contains
  <2>6. ASSUME NEW d, NEW c, Before(t, d, c)
        PROVE  Before(q, d, c) /\ d # e /\ c # e
    BY <2>1, <2>3, <2>6 DEF Before
  <2>7. ASSUME NEW d, NEW c, Before(q, d, c), d # e, c # e
        PROVE  Before(t, d, c)
    <3>1. PICK i \in 1..Len(q), j \in 1..Len(q) : i < j /\ q[i] = d /\ q[j] = c
      BY <2>7 DEF Before
    <3>2. i # k /\ j # k
      BY <1>4, <2>7, <3>1
    <3> QED
      BY <2>2, <2>4, <3>1, <3>2 DEF Before
  <2> QED
    BY <2>5, <2>6, <2>7
<1> QED
  BY <1>2, <1>3, <1>4 DEF t
=============================================================================
