------------------------- MODULE ToolGatewayProofs -------------------------
(***************************************************************************)
(* Machine-checked proofs about ToolGateway, for every set of calls and    *)
(* every MCP_MAX_CONCURRENCY and MCP_MAX_QUEUE_SIZE.                       *)
(***************************************************************************)
EXTENDS ToolGateway, QueueLemmas, FiniteSetTheorems

\* The sets the counters count are finite.
LEMMA FiniteCounts ==
  /\ IsFiniteSet(InFlight) /\ IsFiniteSet(HoldingReaders)
  /\ IsFiniteSet(InFlight)' /\ IsFiniteSet(HoldingReaders)'
  /\ \A S \in SUBSET Calls : IsFiniteSet(S) /\ Cardinality(S) \in Nat
<1>1. \A S \in SUBSET Calls : IsFiniteSet(S) /\ Cardinality(S) \in Nat
  BY GatewayAssumption, FS_Subset, FS_CardinalityType
<1> QED
  BY <1>1 DEF InFlight, HoldingReaders, Calls

\* A call needs at least one permit and at most all of them.
LEMMA NeededType ==
  \A c \in Calls : Needed(c) \in Nat \ {0} /\ Needed(c) <= MaxWorkers
BY GatewayAssumption DEF Needed

-----------------------------------------------------------------------------
\* The inductive invariant holds initially.
LEMMA InitIInv == Init => IInv
<1> SUFFICES ASSUME Init PROVE IInv
  OBVIOUS
<1> USE GatewayAssumption DEF Init
<1>1. Typed
  <2>1. <<>> \in Seq(Calls)
    BY EmptySeq
  <2> QED
    BY <2>1 DEF Typed, PCs
<1>2. LockInv
  BY DEF LockInv, OwnsLock
<1>3. QueueInv
  <2>1. Len(lockQueue) = 0 /\ Len(permitQueue) = 0
        /\ DOMAIN lockQueue = {} /\ DOMAIN permitQueue = {}
    BY EmptySeq
  <2> QED
    BY <2>1 DEF QueueInv, IsInjective
<1>4. HeldInv
  BY DEF HeldInv
<1>5. ThreadInv
  BY DEF ThreadInv
<1>6. PermitsConserved
  <2>1. HoldingReaders = {}
    BY DEF HoldingReaders, Calls
  <2>2. WriterPermits = 0
    BY DEF WriterPermits, Calls
  <2> QED
    BY <2>1, <2>2, FS_EmptySet DEF PermitsConserved
<1>7. AdmittedExact
  <2>1. InFlight = {}
    BY DEF InFlight
  <2> QED
    BY <2>1, FS_EmptySet DEF AdmittedExact
<1> QED
  BY <1>1, <1>2, <1>3, <1>4, <1>5, <1>6, <1>7 DEF IInv

-----------------------------------------------------------------------------
\* A call is counted in: it takes the lock or joins its queue.
LEMMA AdmitIInv ==
  ASSUME IInv, NEW c \in Calls, Admit(c)
  PROVE  IInv'
<1> USE GatewayAssumption
<1>1. /\ pc \in [Calls -> PCs] /\ lockQueue \in Seq(Calls)
      /\ held \in [Calls -> Nat] /\ admitted \in Nat /\ pc[c] = "idle"
  BY DEF IInv, Typed, Admit
<1>2. \A d \in Calls : d # c => pc'[d] = pc[d]
  BY <1>1 DEF Admit
<1>3. \/ lockOwner = Nobody /\ lockOwner' = c /\ lockQueue' = lockQueue
         /\ pc'[c] = AfterLock(c)
      \/ lockOwner' = lockOwner /\ lockQueue' = Append(lockQueue, c)
         /\ pc'[c] = "locking"
  BY <1>1 DEF Admit, JoinLockQueue
<1>4. pc'[c] \in {"locking", "turn", "collect"} /\ pc' \in [Calls -> PCs]
  BY <1>1 DEF Admit, AfterLock, PCs, JoinLockQueue
<1>5. Typed'
  <2>1. lockQueue' \in Seq(Calls)
    <3>1. Append(lockQueue, c) \in Seq(Calls)
      BY <1>1, AppendProperties
    <3> QED
      BY <1>1, <1>3, <3>1
  <2>2. lockOwner' \in Calls \cup {Nobody}
    BY <1>3 DEF IInv, Typed
  <2> QED
    BY <1>1, <1>4, <2>1, <2>2 DEF Typed, IInv, Admit
<1>6. LockInv'
  BY <1>1, <1>2, <1>3 DEF IInv, LockInv, OwnsLock, AfterLock, Calls
<1>7. QueueInv'
  <2>1. \A i \in 1..Len(lockQueue) : lockQueue[i] \in Calls /\ lockQueue[i] # c
    BY <1>1, ElementOfSeq DEF IInv, QueueInv
  <2>2. \A i \in 1..Len(permitQueue) : permitQueue[i] \in Calls /\ permitQueue[i] # c
    BY <1>1, ElementOfSeq DEF IInv, QueueInv, Typed
  <2>3. /\ IsInjective(lockQueue')
        /\ \A i \in 1..Len(lockQueue') : pc'[lockQueue'[i]] = "locking"
    <3>1. CASE lockQueue' = lockQueue
      BY <1>2, <2>1, <3>1 DEF IInv, QueueInv
    <3>2. CASE lockQueue' = Append(lockQueue, c) /\ pc'[c] = "locking"
      <4>1. /\ IsInjective(lockQueue')
            /\ \A i \in 1..Len(lockQueue') :
                 \/ i \in 1..Len(lockQueue) /\ lockQueue'[i] = lockQueue[i]
                 \/ i = Len(lockQueue') /\ lockQueue'[i] = c
        BY <1>1, <2>1, <3>2, AppendInjectiveQueue DEF IInv, QueueInv
      <4> QED
        BY <1>2, <2>1, <3>2, <4>1 DEF IInv, QueueInv
    <3> QED
      BY <1>3, <3>1, <3>2
  <2>4. \A i \in 1..Len(permitQueue) : pc'[permitQueue[i]] = "permit"
    BY <1>2, <2>2 DEF IInv, QueueInv
  <2> QED
    BY <2>3, <2>4 DEF IInv, QueueInv, Admit
<1>8. HeldInv'
  BY <1>1, <1>2, <1>4, NeededType DEF IInv, HeldInv, Admit, Needed
<1>9. ThreadInv'
  BY <1>1, <1>2, <1>4 DEF IInv, ThreadInv, Admit
<1>10. PermitsConserved'
  <2>1. HoldingReaders' = HoldingReaders
    BY <1>1, <1>2, <1>4 DEF HoldingReaders, Calls
  <2>2. WriterPermits' = WriterPermits
    BY <1>1, <1>3 DEF WriterPermits, IInv, HeldInv, Admit, Calls
  <2> QED
    BY <2>1, <2>2 DEF IInv, PermitsConserved, Admit
<1>11. AdmittedExact'
  <2>1. InFlight' = InFlight \cup {c} /\ c \notin InFlight
    BY <1>1, <1>2, <1>4 DEF InFlight
  <2>2. Cardinality(InFlight') = Cardinality(InFlight) + 1
    BY <2>1, FiniteCounts, FS_AddElement
  <2> QED
    BY <1>1, <2>2 DEF IInv, AdmittedExact, Admit, HasRoom
<1> QED
  BY <1>5, <1>6, <1>7, <1>8, <1>9, <1>10, <1>11 DEF IInv

-----------------------------------------------------------------------------
\* What releasing the lock does to the lock queue.
LEMMA HandOver ==
  ASSUME IInv
  PROVE  /\ NextOwner \in Calls \cup {Nobody}
         /\ NextOwner # Nobody => pc[NextOwner] = "locking"
         /\ RestOfLockQueue \in Seq(Calls)
         /\ IsInjective(RestOfLockQueue)
         /\ \A i \in 1..Len(RestOfLockQueue) :
              /\ RestOfLockQueue[i] \in Calls
              /\ RestOfLockQueue[i] # NextOwner
              /\ pc[RestOfLockQueue[i]] = "locking"
<1>1. lockQueue \in Seq(Calls) /\ IsInjective(lockQueue)
      /\ \A i \in 1..Len(lockQueue) : pc[lockQueue[i]] = "locking"
  BY DEF IInv, Typed, QueueInv
<1>2. CASE lockQueue = <<>>
  <2>1. Len(lockQueue) = 0
    BY <1>2, EmptySeq
  <2> QED
    BY <1>1, <1>2, <2>1 DEF NextOwner, RestOfLockQueue
<1>3. CASE lockQueue # <<>>
  <2>1. /\ 1 \in 1..Len(lockQueue) /\ Head(lockQueue) = lockQueue[1]
        /\ Tail(lockQueue) \in Seq(Calls)
        /\ IsInjective(Tail(lockQueue))
        /\ \A i \in 1..Len(Tail(lockQueue)) :
              /\ i+1 \in 1..Len(lockQueue)
              /\ Tail(lockQueue)[i] = lockQueue[i+1]
              /\ Tail(lockQueue)[i] # Head(lockQueue)
    BY <1>1, <1>3, HeadTailInjective
  <2>2. \A i \in 1..Len(lockQueue) : lockQueue[i] \in Calls
    BY <1>1, ElementOfSeq
  <2> QED
    BY <1>1, <1>3, <2>1, <2>2 DEF NextOwner, RestOfLockQueue
<1> QED
  BY <1>2, <1>3

-----------------------------------------------------------------------------
\* A reader leaves the turnstile and joins the permit queue or gets a permit.
LEMMA PassIInv ==
  ASSUME IInv, NEW r \in Calls, PassTurnstile(r)
  PROVE  IInv'
<1> USE GatewayAssumption
<1> DEFINE free == permits > 0 /\ permitQueue = <<>>
<1>1. /\ pc \in [Calls -> PCs] /\ permitQueue \in Seq(Calls) /\ permits \in Nat
      /\ held \in [Calls -> Nat] /\ IsInjective(permitQueue)
      /\ r \in Reads /\ r \notin Writes /\ pc[r] = "turn" /\ held[r] = 0
      /\ lockOwner = r /\ NextOwner # r
  BY HandOver DEF IInv, Typed, QueueInv, LockInv, OwnsLock, HeldInv, PassTurnstile
<1>2. /\ free => /\ permits' = permits - 1 /\ permitQueue' = permitQueue
                 /\ held' = [held EXCEPT ![r] = 1] /\ pc'[r] = "ready"
      /\ ~free => /\ permits' = permits /\ permitQueue' = Append(permitQueue, r)
                  /\ held' = held /\ pc'[r] = "permit"
      /\ lockOwner' = NextOwner /\ lockQueue' = RestOfLockQueue
  BY <1>1 DEF PassTurnstile
<1>3. \A d \in Calls : d # r => pc'[d] = IF d = NextOwner THEN AfterLock(d) ELSE pc[d]
  BY <1>1 DEF PassTurnstile
<1>4. \A d \in Calls : d # r /\ d # NextOwner => pc'[d] = pc[d]
  BY <1>3
<1>5. NextOwner \in Calls =>
        /\ pc[NextOwner] = "locking" /\ pc'[NextOwner] = AfterLock(NextOwner)
        /\ pc'[NextOwner] \in {"turn", "collect"} /\ held[NextOwner] = 0
  BY <1>1, <1>3, HandOver DEF AfterLock, IInv, HeldInv
<1>6. \A d \in Writes : pc[d] \notin {"collect", "permit", "ready", "running"} /\ held[d] = 0
  BY <1>1 DEF IInv, LockInv, OwnsLock, HeldInv, Typed, PCs, Calls
<1>7. \A d \in Calls : d # r => held'[d] = held[d]
  BY <1>1, <1>2
<1>8. pc' \in [Calls -> PCs]
  BY <1>1, <1>2 DEF PassTurnstile, PCs, AfterLock
<1>9. Typed'
  <2>1. permitQueue' \in Seq(Calls)
    <3>1. Append(permitQueue, r) \in Seq(Calls)
      BY <1>1, AppendProperties
    <3> QED
      BY <1>1, <1>2, <3>1
  <2>2. held' \in [Calls -> Nat] /\ permits' \in Nat
    BY <1>1, <1>2
  <2> QED
    BY <1>2, <1>8, <2>1, <2>2, HandOver DEF Typed, IInv, PassTurnstile
<1>10. LockInv'
  BY <1>1, <1>2, <1>3, <1>4, <1>5, <1>6, HandOver, SMTT(30) DEF IInv, LockInv, OwnsLock, AfterLock, Calls
<1>11. QueueInv'
  <2>1. \A i \in 1..Len(permitQueue) :
           permitQueue[i] \in Calls /\ permitQueue[i] # r /\ permitQueue[i] # NextOwner
           /\ permitQueue[i] \notin Writes /\ pc[permitQueue[i]] = "permit"
    BY <1>1, <1>5, <1>6, ElementOfSeq DEF IInv, QueueInv
  <2>2. \A i \in 1..Len(permitQueue) : pc'[permitQueue[i]] = "permit"
    BY <1>4, <2>1
  <2>3. /\ IsInjective(permitQueue')
        /\ \A i \in 1..Len(permitQueue') :
              pc'[permitQueue'[i]] = "permit" /\ permitQueue'[i] \notin Writes
    <3>1. CASE free
      BY <1>1, <1>2, <2>1, <2>2, <3>1
    <3>2. CASE ~free
      <4>1. LET t == Append(permitQueue, r)
            IN  /\ IsInjective(t)
                /\ \A i \in 1..Len(t) :
                     \/ i \in 1..Len(permitQueue) /\ t[i] = permitQueue[i]
                     \/ i = Len(t) /\ t[i] = r
        BY <1>1, <2>1, AppendInjectiveQueue
      <4> QED
        BY <1>1, <1>2, <2>1, <2>2, <3>2, <4>1, ZenonT(30)
    <3> QED
      BY <3>1, <3>2
  <2>4. \A i \in 1..Len(lockQueue') : pc'[lockQueue'[i]] = "locking"
    BY <1>1, <1>2, <1>4, HandOver
  <2> QED
    BY <1>2, <2>3, <2>4, HandOver DEF QueueInv
<1>12. HeldInv'
  <2>1. Needed(r) = 1
    BY <1>1 DEF Needed
  <2>2. \A d \in Writes : held'[d] = 0
    BY <1>1, <1>6, <1>7 DEF Calls
  <2>3. SUFFICES ASSUME NEW d \in Calls
                 PROVE  /\ pc'[d] \in {"idle", "locking", "turn"} => held'[d] = 0
                        /\ pc'[d] \in {"ready", "running"} => held'[d] = Needed(d)
                        /\ pc'[d] \in {"collect", "permit"} => held'[d] < Needed(d)
    BY <2>2 DEF HeldInv, Needed
  <2>4. CASE d = r
    BY <1>1, <1>2, <2>1, <2>4
  <2>5. CASE d # r /\ d = NextOwner
    BY <1>5, <1>7, <2>5, NeededType
  <2>6. CASE d # r /\ d # NextOwner
    BY <1>4, <1>7, <2>6 DEF IInv, HeldInv
  <2> QED
    BY <2>4, <2>5, <2>6
<1>13. ThreadInv'
  <2>1. \A d \in Calls : pc'[d] = "running" <=> pc[d] = "running"
    BY <1>1, <1>2, <1>4, <1>5
  <2> QED
    BY <2>1 DEF IInv, ThreadInv, PassTurnstile
<1>14. PermitsConserved'
  <2>1. WriterPermits = 0 /\ WriterPermits' = 0
    <3>1. NextOwner \in Writes => held'[NextOwner] = 0
      BY <1>1, <1>5, <1>7 DEF Calls
    <3> QED
      BY <1>1, <1>2, <3>1 DEF WriterPermits
  <2>2. r \notin HoldingReaders
    BY <1>1 DEF HoldingReaders
  <2>3. \A d \in Reads : d # r => (pc'[d] \in {"ready", "running"} <=> pc[d] \in {"ready", "running"})
    BY <1>4, <1>5 DEF Calls
  <2>4. HoldingReaders' = IF free THEN HoldingReaders \cup {r} ELSE HoldingReaders
    BY <1>1, <1>2, <2>2, <2>3 DEF HoldingReaders
  <2>5. Cardinality(HoldingReaders \cup {r}) = Cardinality(HoldingReaders) + 1
    BY <2>2, FiniteCounts, FS_AddElement
  <2>6. Cardinality(HoldingReaders) \in Nat
    BY FiniteCounts DEF HoldingReaders, Calls
  <2> QED
    BY <1>1, <1>2, <2>1, <2>4, <2>5, <2>6 DEF IInv, PermitsConserved
<1>15. AdmittedExact'
  <2>1. \A d \in Calls : pc'[d] # "idle" <=> pc[d] # "idle"
    BY <1>1, <1>2, <1>4, <1>5
  <2>2. InFlight' = InFlight
    BY <2>1 DEF InFlight
  <2> QED
    BY <2>2 DEF IInv, AdmittedExact, PassTurnstile
<1> QED
  BY <1>9, <1>10, <1>11, <1>12, <1>13, <1>14, <1>15 DEF IInv

-----------------------------------------------------------------------------
\* A writer takes a permit in its loop, or queues for it.
LEMMA CollectIInv ==
  ASSUME IInv, NEW w \in Calls, Collect(w)
  PROVE  IInv'
<1> USE GatewayAssumption
<1> DEFINE free == permits > 0 /\ permitQueue = <<>>
<1>1. /\ pc \in [Calls -> PCs] /\ permitQueue \in Seq(Calls) /\ permits \in Nat
      /\ held \in [Calls -> Nat] /\ IsInjective(permitQueue)
      /\ w \in Writes /\ w \notin Reads /\ pc[w] = "collect" /\ held[w] < Needed(w)
      /\ lockOwner = w /\ Needed(w) \in Nat
  BY NeededType DEF IInv, Typed, QueueInv, LockInv, OwnsLock, HeldInv, Collect
<1>2. /\ free => /\ permits' = permits - 1 /\ permitQueue' = permitQueue
                 /\ held' = [held EXCEPT ![w] = @ + 1]
                 /\ pc' = [pc EXCEPT ![w] = AfterPermit(w)]
      /\ ~free => /\ permits' = permits /\ permitQueue' = Append(permitQueue, w)
                  /\ held' = held /\ pc' = [pc EXCEPT ![w] = "permit"]
      /\ lockOwner' = lockOwner /\ lockQueue' = lockQueue /\ borrowers' = borrowers
      /\ workers' = workers /\ admitted' = admitted
  BY <1>1 DEF Collect
<1>3. \A d \in Calls : d # w => pc'[d] = pc[d] /\ held'[d] = held[d]
  BY <1>1, <1>2
<1>4. /\ free => /\ held'[w] = held[w] + 1
                 /\ pc'[w] = IF held[w] + 1 = Needed(w) THEN "ready" ELSE "collect"
      /\ ~free => held'[w] = held[w] /\ pc'[w] = "permit"
      /\ pc'[w] \in {"ready", "collect", "permit"}
  BY <1>1, <1>2 DEF AfterPermit
<1>5. \A i \in 1..Len(permitQueue) :
         /\ permitQueue[i] \in Calls /\ permitQueue[i] # w /\ pc[permitQueue[i]] = "permit"
         /\ permitQueue[i] \notin Writes
  BY <1>1, ElementOfSeq DEF IInv, QueueInv, LockInv, OwnsLock
<1>6. /\ permitQueue' \in Seq(Calls)
      /\ IsInjective(permitQueue')
      /\ Len(permitQueue) \in Nat
      /\ \A i \in 1..Len(permitQueue') :
            \/ i \in 1..Len(permitQueue) /\ permitQueue'[i] = permitQueue[i]
            \/ ~free /\ i = Len(permitQueue') /\ permitQueue'[i] = w
  <2>1. LET t == Append(permitQueue, w)
        IN  /\ t \in Seq(Calls)
            /\ IsInjective(t)
            /\ \A i \in 1..Len(t) :
                  \/ i \in 1..Len(permitQueue) /\ t[i] = permitQueue[i]
                  \/ i = Len(t) /\ t[i] = w
    BY <1>1, <1>5, AppendInjectiveQueue
  <2>2. Len(permitQueue) \in Nat
    BY <1>1, LenProperties
  <2> QED
    BY <1>1, <1>2, <2>1, <2>2
<1>7. Typed'
  <2>1. pc' \in [Calls -> PCs]
    BY <1>1, <1>2 DEF AfterPermit, PCs
  <2>2. held' \in [Calls -> Nat] /\ permits' \in Nat
    BY <1>1, <1>2, SMTT(30)
  <2> QED
    BY <1>2, <1>6, <2>1, <2>2 DEF IInv, Typed
<1>8. LockInv'
  BY <1>1, <1>2, <1>3, <1>4 DEF IInv, LockInv, OwnsLock
<1>9. QueueInv'
  <2>1. \A i \in 1..Len(lockQueue) : lockQueue[i] \in Calls /\ lockQueue[i] # w
    BY <1>1, ElementOfSeq DEF IInv, QueueInv, Typed
  <2>2. \A i \in 1..Len(lockQueue') : pc'[lockQueue'[i]] = "locking"
    BY <1>2, <1>3, <2>1 DEF IInv, QueueInv
  <2>3. \A i \in 1..Len(permitQueue') :
           /\ pc'[permitQueue'[i]] = "permit"
           /\ permitQueue'[i] \in Writes => i = Len(permitQueue')
    BY <1>3, <1>4, <1>5, <1>6
  <2> QED
    BY <1>2, <1>6, <2>2, <2>3 DEF IInv, QueueInv
<1>10. HeldInv'
  <2>1. \A d \in Writes : d # w => held'[d] = 0
    <3> SUFFICES ASSUME NEW d \in Writes, d # w PROVE held[d] = 0
      BY <1>3 DEF Calls
    <3>1. pc[d] \in {"idle", "locking"}
      BY <1>1 DEF IInv, LockInv, OwnsLock, Typed, PCs, Calls
    <3> QED
      BY <3>1 DEF IInv, HeldInv, Calls
  <2>2. held'[w] > 0 => \A i \in 1..Len(permitQueue') : permitQueue'[i] = w
    <3>1. CASE free
      <4>1. Len(permitQueue') = 0
        BY <1>2, <3>1, EmptySeq
      <4> QED
        BY <4>1
    <3>2. CASE ~free
      <4>1. held[w] > 0 => \A i \in 1..Len(permitQueue) : permitQueue[i] = w
        BY <1>1 DEF IInv, HeldInv
      <4> QED
        BY <1>4, <1>6, <3>2, <4>1
    <3> QED
      BY <3>1, <3>2
  <2>3. SUFFICES ASSUME NEW d \in Calls
                 PROVE  /\ pc'[d] \in {"idle", "locking", "turn"} => held'[d] = 0
                        /\ pc'[d] \in {"ready", "running"} => held'[d] = Needed(d)
                        /\ pc'[d] \in {"collect", "permit"} => held'[d] < Needed(d)
    BY <2>1, <2>2 DEF HeldInv, Needed
  <2>4. CASE d = w
    BY <1>1, <1>4, <2>4
  <2>5. CASE d # w
    BY <1>3, <2>5 DEF IInv, HeldInv
  <2> QED
    BY <2>4, <2>5
<1>11. ThreadInv'
  <2>1. \A d \in Calls : pc'[d] = "running" <=> pc[d] = "running"
    BY <1>1, <1>3, <1>4
  <2> QED
    BY <1>2, <2>1 DEF IInv, ThreadInv
<1>12. PermitsConserved'
  <2>1. HoldingReaders' = HoldingReaders
    BY <1>1, <1>3 DEF HoldingReaders, Calls
  <2>2. WriterPermits = held[w] /\ WriterPermits' = held'[w]
    BY <1>1, <1>2 DEF WriterPermits
  <2>3. Cardinality(HoldingReaders) \in Nat /\ held[w] \in Nat
    BY <1>1, FiniteCounts DEF HoldingReaders, Calls
  <2> QED
    BY <1>1, <1>2, <1>4, <2>1, <2>2, <2>3 DEF IInv, PermitsConserved
<1>13. AdmittedExact'
  <2>1. InFlight' = InFlight
    BY <1>1, <1>3, <1>4 DEF InFlight
  <2> QED
    BY <1>2, <2>1 DEF IInv, AdmittedExact
<1> QED
  BY <1>7, <1>8, <1>9, <1>10, <1>11, <1>12, <1>13 DEF IInv

-----------------------------------------------------------------------------
\* A call that holds its permits starts its body in a worker thread.
LEMMA StartIInv ==
  ASSUME IInv, NEW c \in Calls, Start(c)
  PROVE  IInv'
<1>1. /\ pc \in [Calls -> PCs] /\ pc[c] = "ready"
      /\ pc' = [pc EXCEPT ![c] = "running"]
      /\ borrowers' = borrowers \cup {c} /\ workers' = workers \cup {c}
      /\ UNCHANGED <<admitted, lockOwner, lockQueue, permits, permitQueue, held>>
  BY DEF IInv, Typed, Start
<1>2. pc'[c] = "running" /\ \A d \in Calls : d # c => pc'[d] = pc[d]
  BY <1>1
<1>3. Typed'
  BY <1>1 DEF IInv, Typed, PCs
<1>4. LockInv'
  BY <1>1, <1>2 DEF IInv, LockInv, OwnsLock
<1>5. QueueInv'
  <2>1. /\ \A i \in 1..Len(lockQueue) : lockQueue[i] \in Calls /\ lockQueue[i] # c
        /\ \A i \in 1..Len(permitQueue) : permitQueue[i] \in Calls /\ permitQueue[i] # c
    BY <1>1, ElementOfSeq DEF IInv, Typed, QueueInv
  <2> QED
    BY <1>1, <1>2, <2>1 DEF IInv, QueueInv
<1>6. HeldInv'
  BY <1>1, <1>2 DEF IInv, HeldInv, Needed
<1>7. ThreadInv'
  BY <1>1, <1>2 DEF IInv, ThreadInv
<1>8. PermitsConserved'
  <2>1. HoldingReaders' = HoldingReaders /\ WriterPermits' = WriterPermits
    BY <1>1, <1>2 DEF HoldingReaders, WriterPermits, Calls
  <2> QED
    BY <1>1, <2>1 DEF IInv, PermitsConserved
<1>9. AdmittedExact'
  <2>1. InFlight' = InFlight
    BY <1>1, <1>2 DEF InFlight
  <2> QED
    BY <1>1, <2>1 DEF IInv, AdmittedExact
<1> QED
  BY <1>3, <1>4, <1>5, <1>6, <1>7, <1>8, <1>9 DEF IInv

\* A body returns in its thread.
LEMMA BodyReturnsIInv ==
  ASSUME IInv, NEW c \in Calls, BodyReturns(c)
  PROVE  IInv'
BY DEF IInv, BodyReturns, Typed, LockInv, OwnsLock, QueueInv, HeldInv, Needed, ThreadInv,
       PermitsConserved, HoldingReaders, WriterPermits, AdmittedExact, InFlight

-----------------------------------------------------------------------------
\* The part of the invariant that does not speak of threads: what leaving
\* run() preserves by itself.
QuietInv == /\ Typed /\ LockInv /\ QueueInv /\ HeldInv
            /\ PermitsConserved /\ AdmittedExact

\* What a leaving call's permits become: its own place in the queue is gone,
\* and at most one waiter is served, by a reader.
LEMMA ExitPermits ==
  ASSUME IInv, NEW c \in Calls, pc[c] # "idle"
  PROVE  LET queue == RemoveFirst(permitQueue, c)
             n     == Released(c)
             m     == IF n < Len(queue) THEN n ELSE Len(queue)
         IN  /\ queue \in Seq(Calls) /\ IsInjective(queue)
             /\ \A i \in 1..Len(queue) :
                   /\ queue[i] \in Calls /\ queue[i] # c
                   /\ pc[queue[i]] = "permit"
                   /\ queue[i] \in Writes => i = Len(queue)
             /\ \/ m = 0 /\ {queue[i] : i \in 1..m} = {}
                   /\ SubSeq(queue, m+1, Len(queue)) = queue
                \/ /\ m = 1 /\ n = 1 /\ queue # <<>> /\ c \in Reads
                   /\ pc[c] \in {"ready", "running"}
                   /\ {queue[i] : i \in 1..m} = {Head(queue)}
                   /\ SubSeq(queue, m+1, Len(queue)) = Tail(queue)
             /\ \A w \in Writes : held[w] > 0 /\ w # c =>
                   \A i \in 1..Len(queue) : queue[i] = w
<1> USE GatewayAssumption
<1> DEFINE queue == RemoveFirst(permitQueue, c)
           n == Released(c)
           m == IF n < Len(queue) THEN n ELSE Len(queue)
<1>1. /\ permitQueue \in Seq(Calls) /\ IsInjective(permitQueue)
      /\ Len(permitQueue) \in Nat
      /\ \A i \in 1..Len(permitQueue) :
            /\ permitQueue[i] \in Calls
            /\ pc[permitQueue[i]] = "permit"
            /\ permitQueue[i] \in Writes => i = Len(permitQueue)
  BY ElementOfSeq, LenProperties DEF IInv, Typed, QueueInv
<1>2. /\ queue \in Seq(Calls) /\ IsInjective(queue)
      /\ \A i \in 1..Len(queue) : /\ queue[i] # c
                                /\ \E j \in 1..Len(permitQueue) : queue[i] = permitQueue[j]
  BY <1>1, RemoveFirstProperties
<1>shift. \/ queue = permitQueue
          \/ \E k \in 1..Len(permitQueue) :
               /\ Len(queue) = Len(permitQueue) - 1
               /\ \A i \in 1..Len(permitQueue)-1 :
                    queue[i] = IF i < k THEN permitQueue[i] ELSE permitQueue[i+1]
  BY <1>1, RemoveFirstShifts
<1> HIDE DEF queue
<1>3. Len(queue) \in Nat
  BY <1>2, LenProperties
<1>4. \A i \in 1..Len(queue) : queue[i] \in Calls /\ queue[i] # c /\ pc[queue[i]] = "permit"
  BY <1>1, <1>2
<1>5. \A i \in 1..Len(queue) : queue[i] \in Writes => i = Len(queue)
  <2>1. CASE queue = permitQueue
    BY <1>1, <2>1
  <2>2. ASSUME NEW k \in 1..Len(permitQueue),
               Len(queue) = Len(permitQueue) - 1,
               \A i \in 1..Len(permitQueue)-1 :
                  queue[i] = IF i < k THEN permitQueue[i] ELSE permitQueue[i+1],
               NEW i \in 1..Len(queue), queue[i] \in Writes
        PROVE  i = Len(queue)
    <3>1. i \in 1..Len(permitQueue) /\ i+1 \in 1..Len(permitQueue)
      BY <1>1, <1>3, <2>2
    <3> QED
      BY <1>1, <1>3, <2>2, <3>1
  <2> QED
    BY <1>shift, <2>1, <2>2
<1>6. \A w \in Writes : held[w] > 0 /\ w # c => \A i \in 1..Len(queue) : queue[i] = w
  BY <1>2 DEF IInv, HeldInv, Calls
<1>7. \/ m = 0 /\ {queue[i] : i \in 1..m} = {} /\ SubSeq(queue, m+1, Len(queue)) = queue
      \/ /\ m = 1 /\ n = 1 /\ queue # <<>> /\ c \in Reads
         /\ pc[c] \in {"ready", "running"}
         /\ {queue[i] : i \in 1..m} = {Head(queue)}
         /\ SubSeq(queue, m+1, Len(queue)) = Tail(queue)
  <2>1. n \in Nat /\ n = held[c] /\ m = IF n < Len(queue) THEN n ELSE Len(queue)
    BY DEF IInv, Typed, Released
  <2> HIDE DEF n, m
  <2>2. CASE m = 0
    <3>1. {queue[i] : i \in 1..m} = {}
      BY <2>2
    <3>2. SubSeq(queue, 1, Len(queue)) = queue
      BY <1>2, SubSeqFull
    <3> QED
      BY <2>2, <3>1, <3>2
  <2>3. CASE m # 0
    <3>1. n > 0 /\ Len(queue) > 0 /\ queue # <<>>
      <4>1. Len(<<>>) = 0
        BY EmptySeq
      <4> QED
        BY <1>3, <2>1, <2>3, <4>1
    <3>2. c \in Reads
      <4>1. SUFFICES ASSUME c \in Writes PROVE FALSE
        BY DEF Calls
      <4>2. \A i \in 1..Len(permitQueue) : permitQueue[i] = c
        BY <2>1, <3>1, <4>1 DEF IInv, HeldInv
      <4>3. 1 \in 1..Len(queue)
        BY <1>3, <3>1
      <4> QED
        BY <1>2, <4>2, <4>3
    <3>3. pc[c] \in {"ready", "running"} /\ n = 1
      <4>1. Needed(c) = 1
        BY <3>2 DEF Needed
      <4>2. pc[c] \in PCs
        BY DEF IInv, Typed
      <4>3. pc[c] # "collect"
        BY <3>2 DEF IInv, LockInv
      <4> QED
        BY <2>1, <3>1, <4>1, <4>2, <4>3 DEF IInv, HeldInv, PCs
    <3>4. m = 1
      <4>1. CASE 1 < Len(queue)
        BY <2>1, <3>3, <4>1
      <4>2. CASE Len(queue) = 1
        BY <2>1, <3>3, <4>2
      <4>3. \A k \in Nat : k > 0 => 1 < k \/ k = 1
        OBVIOUS
      <4>4. 1 < Len(queue) \/ Len(queue) = 1
        BY <1>3, <3>1, <4>3
      <4> QED
        BY <4>1, <4>2, <4>4
    <3>5. {queue[i] : i \in 1..m} = {Head(queue)}
      <4>1. Head(queue) = queue[1] /\ 1..m = {1}
        BY <1>2, <3>1, <3>4, HeadTailInjective
      <4> QED
        BY <4>1
    <3>6. SubSeq(queue, 2, Len(queue)) = Tail(queue)
      BY <1>2, <3>1, TailIsSubSeq
    <3> QED
      BY <3>1, <3>2, <3>3, <3>4, <3>5, <3>6
  <2> QED
    BY <2>2, <2>3
<1> QED
  BY <1>2, <1>4, <1>5, <1>6, <1>7 DEF queue

\* What a leaving call does to the permits, in the two cases there are: nobody
\* is served, or a reader's permit goes to the head h of the queue.
NobodyServed(c) ==
  /\ permits' = permits + held[c]
  /\ permitQueue' = RemoveFirst(permitQueue, c)
  /\ \A d \in Calls \ {c} : held'[d] = held[d]
  /\ \A d \in Calls \ {c} : pc[d] = "permit" => pc'[d] = "permit"

Served(c, h) ==
  /\ h \in Calls \ {c} /\ pc[h] = "permit" /\ pc'[h] = AfterPermit(h)
  /\ held'[h] = held[h] + 1
  /\ c \in Reads /\ pc[c] \in {"ready", "running"} /\ held[c] = 1
  /\ permits' = permits
  /\ RemoveFirst(permitQueue, c) # <<>>
  /\ h = Head(RemoveFirst(permitQueue, c))
  /\ permitQueue' = Tail(RemoveFirst(permitQueue, c))
  /\ \A d \in Calls \ {c, h} : held'[d] = held[d]
  /\ \A d \in Calls \ {c, h} : pc[d] = "permit" => pc'[d] = "permit"

\* A leaving call either serves nobody or hands its permit to the head of the
\* queue, and the lock goes to the head of its own queue.
LEMMA ExitCases ==
  ASSUME IInv, NEW c \in Calls, pc[c] # "idle", Exit(c)
  PROVE  /\ NobodyServed(c) \/ \E h \in Calls : Served(c, h)
         /\ pc'[c] = "idle" /\ held'[c] = 0
         /\ lockOwner = c => /\ lockOwner' = NextOwner
                             /\ lockQueue' = RestOfLockQueue
         /\ lockOwner # c => /\ lockOwner' = lockOwner
                             /\ lockQueue' = RemoveFirst(lockQueue, c)
         /\ \A d \in Calls \ {c} : pc[d] # "permit" =>
              pc'[d] = IF lockOwner = c /\ d = NextOwner THEN AfterLock(d) ELSE pc[d]
<1> DEFINE queue == RemoveFirst(permitQueue, c)
           n == Released(c)
           m == IF n < Len(queue) THEN n ELSE Len(queue)
           served == {queue[i] : i \in 1..m}
           owner == IF GivesUpTurn(c) THEN NextOwner ELSE lockOwner
<1>1. /\ permits' = permits + (n - m)
      /\ permitQueue' = SubSeq(queue, m + 1, Len(queue))
      /\ lockOwner' = owner
      /\ lockQueue' = IF lockOwner = c THEN RestOfLockQueue ELSE RemoveFirst(lockQueue, c)
      /\ held' = [d \in Calls |-> CASE d = c -> 0 [] d \in served -> held[d] + 1
                                    [] OTHER -> held[d]]
      /\ pc' = [d \in Calls |-> CASE d = c -> "idle"
                                  [] d \in served -> AfterPermit(d)
                                  [] d = owner /\ d # lockOwner -> AfterLock(d)
                                  [] OTHER -> pc[d]]
  BY DEF Exit, GivesUpTurn
<1>2. /\ \A i \in 1..Len(queue) : /\ queue[i] \in Calls /\ queue[i] # c
                                /\ pc[queue[i]] = "permit"
      /\ \/ m = 0 /\ served = {} /\ SubSeq(queue, m+1, Len(queue)) = queue
         \/ /\ m = 1 /\ n = 1 /\ queue # <<>> /\ c \in Reads
            /\ pc[c] \in {"ready", "running"}
            /\ served = {Head(queue)}
            /\ SubSeq(queue, m+1, Len(queue)) = Tail(queue)
  BY ExitPermits
<1>3. n = held[c] /\ held[c] \in Nat /\ permits \in Nat /\ queue \in Seq(Calls)
  BY ExitPermits DEF Released, IInv, Typed
<1>4. (owner = NextOwner /\ lockOwner = c) \/ (owner = lockOwner /\ lockOwner # c)
  BY DEF GivesUpTurn
<1>5. NextOwner \in Calls => pc[NextOwner] = "locking" /\ (lockOwner = c => NextOwner # lockOwner)
  <2>1. lockOwner = c => OwnsLock(c)
    BY DEF IInv, LockInv
  <2> QED
    BY <2>1, HandOver, GatewayAssumption DEF OwnsLock
<1>6. queue # <<>> => Head(queue) \in Calls \ {c} /\ pc[Head(queue)] = "permit"
  <2> SUFFICES ASSUME queue # <<>> PROVE Head(queue) \in Calls \ {c} /\ pc[Head(queue)] = "permit"
    OBVIOUS
  <2>1. Head(queue) = queue[1] /\ 1 \in 1..Len(queue)
    BY ExitPermits, HeadTailInjective
  <2> QED
    BY <1>2, <2>1
<1> HIDE DEF queue, n, m, served, owner
<1>7. pc'[c] = "idle" /\ held'[c] = 0
  <2>1. c \notin served /\ ~(c = owner /\ c # lockOwner)
    BY <1>2, <1>4, <1>6
  <2>2. pc'[c] = "idle"
    BY <1>1, <2>1
  <2>3. held'[c] = 0
    BY <1>1, <2>1
  <2> QED
    BY <2>2, <2>3
<1>8. \A d \in Calls \ {c} : d \notin served =>
         /\ held'[d] = held[d]
         /\ pc'[d] = IF d = owner /\ d # lockOwner THEN AfterLock(d) ELSE pc[d]
  BY <1>1
<1>9. \A d \in served : pc[d] = "permit"
  BY <1>2, <1>6
<1>10. \A d \in Calls \ {c} : pc[d] = "permit" /\ d \notin served => pc'[d] = "permit"
  BY <1>4, <1>5, <1>8
<1>11. \A d \in Calls \ {c} : pc[d] # "permit" =>
         pc'[d] = IF lockOwner = c /\ d = NextOwner THEN AfterLock(d) ELSE pc[d]
  BY <1>4, <1>5, <1>8, <1>9
<1>12. CASE m = 0 /\ served = {} /\ SubSeq(queue, m+1, Len(queue)) = queue
  <2>1. permits' = permits + held[c] /\ permitQueue' = queue
    BY <1>1, <1>3, <1>12
  <2>2. NobodyServed(c)
    BY <1>8, <1>10, <1>12, <2>1 DEF NobodyServed, queue
  <2> QED
    BY <1>1, <1>4, <1>7, <1>11, <2>2
<1>13. CASE /\ m = 1 /\ n = 1 /\ queue # <<>> /\ c \in Reads
            /\ pc[c] \in {"ready", "running"}
            /\ served = {Head(queue)}
            /\ SubSeq(queue, m+1, Len(queue)) = Tail(queue)
  <2> DEFINE h == Head(queue)
  <2>1. h \in Calls \ {c} /\ pc[h] = "permit"
    BY <1>6, <1>13
  <2>2. pc'[h] = AfterPermit(h) /\ held'[h] = held[h] + 1
    <3>1. h \in served /\ h \in Calls /\ h # c /\ ~(h = owner /\ h # lockOwner)
      BY <1>4, <1>5, <1>13, <2>1
    <3>2. pc'[h] = AfterPermit(h)
      BY <1>1, <3>1
    <3>3. held'[h] = held[h] + 1
      BY <1>1, <3>1
    <3> QED
      BY <3>2, <3>3
  <2>3. permits' = permits /\ permitQueue' = Tail(queue)
    BY <1>1, <1>3, <1>13
  <2>4. Served(c, h)
    BY <1>3, <1>8, <1>10, <1>13, <2>1, <2>2, <2>3 DEF Served, queue
  <2> QED
    BY <1>1, <1>4, <1>7, <1>11, <2>1, <2>4
<1> QED
  BY <1>2, <1>12, <1>13

\* Leaving run() preserves everything but the account of threads, which
\* Finish and Cancel keep themselves.
LEMMA ExitQuietInv ==
  ASSUME IInv, NEW c \in Calls, pc[c] # "idle", Exit(c),
         borrowers' \in SUBSET Calls, workers' \in SUBSET Calls
  PROVE  QuietInv'
<1> USE GatewayAssumption
<1> DEFINE queue == RemoveFirst(permitQueue, c)
<1>1. /\ NobodyServed(c) \/ \E h \in Calls : Served(c, h)
      /\ pc'[c] = "idle" /\ held'[c] = 0
      /\ lockOwner = c => lockOwner' = NextOwner /\ lockQueue' = RestOfLockQueue
      /\ lockOwner # c => lockOwner' = lockOwner /\ lockQueue' = RemoveFirst(lockQueue, c)
      /\ \A d \in Calls \ {c} : pc[d] # "permit" =>
           pc'[d] = IF lockOwner = c /\ d = NextOwner THEN AfterLock(d) ELSE pc[d]
  BY ExitCases
<1>2. /\ queue \in Seq(Calls) /\ IsInjective(queue)
      /\ \A i \in 1..Len(queue) : queue[i] \in Calls /\ queue[i] # c /\ pc[queue[i]] = "permit"
  BY ExitPermits
<1>last. \A i \in 1..Len(queue) : queue[i] \in Writes => i = Len(queue)
  BY ExitPermits
<1>sole. \A w \in Writes : held[w] > 0 /\ w # c => \A i \in 1..Len(queue) : queue[i] = w
  BY ExitPermits
<1> HIDE DEF queue
<1>3. /\ pc \in [Calls -> PCs] /\ held \in [Calls -> Nat] /\ permits \in Nat
      /\ admitted \in Nat
      /\ DOMAIN pc' = Calls /\ DOMAIN held' = Calls
      /\ pc' = [d \in Calls |-> pc'[d]] /\ held' = [d \in Calls |-> held'[d]]
      /\ admitted' = admitted - 1
  BY DEF IInv, Typed, Exit
<1>4. NextOwner \in Calls => (pc[NextOwner] = "locking" /\ NextOwner # c) \/ lockOwner # c
  BY HandOver DEF IInv, LockInv, OwnsLock
<1>5. \A d \in Calls : held[d] \in Nat /\ Needed(d) \in Nat \ {0} /\ pc[d] \in PCs
  BY <1>3, NeededType
<1>6. \A d \in Calls \ {c} : pc[d] # "permit" => held'[d] = held[d]
  BY <1>1 DEF NobodyServed, Served
<1>7. \A d \in Calls \ {c} : pc[d] = "permit" =>
        \/ pc'[d] = "permit" /\ held'[d] = held[d]
        \/ Served(c, d)
  BY <1>1 DEF NobodyServed, Served
<1>8. \A h \in Calls : Served(c, h) =>
        /\ h # c /\ pc[h] = "permit" /\ held'[h] = held[h] + 1 /\ held[h] < Needed(h)
        /\ pc'[h] = IF held'[h] = Needed(h) THEN "ready" ELSE "collect"
        /\ h \in Reads => pc'[h] = "ready"
  BY <1>5 DEF Served, AfterPermit, IInv, HeldInv, Needed
<1>9. \A d \in Calls \ {c} :
        /\ pc[d] = "permit" => pc'[d] \in {"permit", "ready", "collect"}
        /\ pc[d] # "permit" =>
             pc'[d] = pc[d] \/ (pc[d] = "locking" /\ pc'[d] \in {"turn", "collect"})
  BY <1>1, <1>4, <1>7, <1>8 DEF AfterLock
<1>10. /\ lockQueue' \in Seq(Calls) /\ IsInjective(lockQueue')
       /\ \A i \in 1..Len(lockQueue') :
            /\ lockQueue'[i] \in Calls /\ lockQueue'[i] # c
            /\ pc[lockQueue'[i]] = "locking"
            /\ lockOwner = c => lockQueue'[i] # NextOwner
  <2>1. CASE lockOwner = c
    <3>1. pc[c] # "locking"
      BY <2>1 DEF IInv, LockInv, OwnsLock
    <3> QED
      BY <1>1, <2>1, <3>1, HandOver
  <2>2. CASE lockOwner # c
    <3>1. /\ lockQueue \in Seq(Calls) /\ IsInjective(lockQueue)
          /\ \A i \in 1..Len(lockQueue) : lockQueue[i] \in Calls /\ pc[lockQueue[i]] = "locking"
      BY ElementOfSeq DEF IInv, Typed, QueueInv
    <3>2. /\ RemoveFirst(lockQueue, c) \in Seq(Calls)
          /\ IsInjective(RemoveFirst(lockQueue, c))
          /\ \A i \in 1..Len(RemoveFirst(lockQueue, c)) :
               /\ RemoveFirst(lockQueue, c)[i] # c
               /\ \E j \in 1..Len(lockQueue) : RemoveFirst(lockQueue, c)[i] = lockQueue[j]
      BY <3>1, RemoveFirstProperties
    <3> QED
      BY <1>1, <2>2, <3>1, <3>2
  <2> QED
    BY <2>1, <2>2
<1>11. /\ permitQueue' \in Seq(Calls) /\ IsInjective(permitQueue')
       /\ \A i \in 1..Len(permitQueue') :
            /\ permitQueue'[i] \in Calls /\ permitQueue'[i] # c
            /\ pc'[permitQueue'[i]] = "permit"
       /\ \A i \in 1..Len(permitQueue') : permitQueue'[i] \in Writes => i = Len(permitQueue')
       /\ \A w \in Writes : held[w] > 0 /\ w # c =>
            \A i \in 1..Len(permitQueue') : permitQueue'[i] = w
       /\ \A h \in Writes : Served(c, h) => Len(permitQueue') = 0
  <2>1. CASE NobodyServed(c)
    <3>1. permitQueue' = queue /\ \A d \in Calls \ {c} : pc[d] = "permit" => pc'[d] = "permit"
      BY <2>1 DEF NobodyServed, queue
    <3>2. \A h \in Calls : ~Served(c, h)
      BY <2>1, <1>5 DEF NobodyServed, Served
    <3>3. \A i \in 1..Len(queue) : pc'[queue[i]] = "permit"
      BY <1>2, <3>1
    <3> QED
      BY <1>2, <1>last, <1>sole, <3>1, <3>2, <3>3 DEF Calls
  <2>2. ASSUME NEW h \in Calls, Served(c, h)
        PROVE  <1>11!:
    <3> DEFINE rest == Tail(queue)
    <3>1. /\ queue # <<>> /\ h = Head(queue) /\ permitQueue' = rest
          /\ \A d \in Calls \ {c, h} : pc[d] = "permit" => pc'[d] = "permit"
      BY <2>2 DEF Served, queue
    <3>2. /\ Len(queue) \in Nat /\ 1 \in 1..Len(queue) /\ h = queue[1]
          /\ rest \in Seq(Calls) /\ IsInjective(rest)
          /\ Len(rest) = Len(queue) - 1
      BY <1>2, <3>1, HeadTailInjective
    <3>3. \A i \in 1..Len(rest) :
               i+1 \in 1..Len(queue) /\ rest[i] = queue[i+1] /\ rest[i] # h
      BY <1>2, <3>1, HeadTailInjective
    <3>4. \A g \in Calls : Served(c, g) => g = h
      BY <2>2 DEF Served
    <3> HIDE DEF rest
    <3>5. h \in Writes => Len(queue) = 1
      BY <1>last, <3>2
    <3>6. \A i \in 1..Len(rest) : rest[i] \in Writes => i = Len(rest)
      <4> TAKE i \in 1..Len(rest)
      <4> HAVE rest[i] \in Writes
      <4>1. i+1 \in 1..Len(queue) /\ queue[i+1] \in Writes
        BY <3>3
      <4>2. i+1 = Len(queue)
        BY <1>last, <4>1
      <4> QED
        BY <3>2, <4>2
    <3>7. \A i \in 1..Len(rest) : /\ rest[i] \in Calls /\ rest[i] # c
                                  /\ pc'[rest[i]] = "permit"
      <4> TAKE i \in 1..Len(rest)
      <4>1. i+1 \in 1..Len(queue) /\ rest[i] = queue[i+1] /\ rest[i] # h
        BY <3>3
      <4> QED
        BY <1>2, <3>1, <4>1
    <3>8. \A w \in Writes : held[w] > 0 /\ w # c => \A i \in 1..Len(rest) : rest[i] = w
      <4> TAKE w \in Writes
      <4> HAVE held[w] > 0 /\ w # c
      <4>1. queue[1] = w
        BY <1>sole, <3>2
      <4>2. Len(queue) = 1
        BY <3>2, <3>5, <4>1
      <4> QED
        BY <3>2, <4>2
    <3>9. h \in Writes => Len(rest) = 0
      BY <3>2, <3>5
    <3> QED
      BY <3>1, <3>2, <3>4, <3>6, <3>7, <3>8, <3>9 DEF Calls
  <2> QED
    BY <1>1, <2>1, <2>2
<1>12. Typed'
  <2>1. pc' \in [Calls -> PCs]
    <3>1. \A d \in Calls : pc'[d] \in PCs
      BY <1>1, <1>5, <1>9 DEF PCs
    <3> QED
      BY <1>3, <3>1
  <2>2. held' \in [Calls -> Nat]
    <3>1. \A d \in Calls : held'[d] \in Nat
      BY <1>1, <1>5, <1>6, <1>7, <1>8
    <3> QED
      BY <1>3, <3>1
  <2>3. permits' \in Nat
    BY <1>1, <1>3 DEF NobodyServed, Served
  <2>4. admitted' \in Nat
    <3>1. c \in InFlight
      BY DEF InFlight
    <3>2. Cardinality(InFlight) # 0
      BY <3>1, FiniteCounts, FS_EmptySet
    <3> QED
      BY <1>3, <3>2 DEF IInv, AdmittedExact
  <2>5. lockOwner' \in Calls \cup {Nobody}
    BY <1>1, HandOver DEF IInv, Typed
  <2> QED
    BY <1>10, <1>11, <2>1, <2>2, <2>3, <2>4, <2>5 DEF Typed
<1>13. LockInv'
  <2>1. lockOwner' # c
    BY <1>1, <1>4, HandOver DEF IInv, LockInv, OwnsLock
  <2> SUFFICES ASSUME NEW d \in Calls
               PROVE  /\ OwnsLock(d)' <=> lockOwner' = d
                      /\ d \in Reads => pc'[d] # "collect"
                      /\ d \in Writes => pc'[d] # "turn"
    BY DEF LockInv
  <2>2. /\ OwnsLock(d) <=> lockOwner = d
        /\ d \in Reads => pc[d] # "collect"
        /\ d \in Writes => pc[d] # "turn"
    BY DEF IInv, LockInv
  <2>3. CASE d = c
    BY <1>1, <2>1, <2>3 DEF OwnsLock
  <2>4. CASE d # c /\ pc[d] = "permit"
    <3>1. d # NextOwner
      BY <1>4, <2>4, HandOver
    <3>2. pc'[d] \in {"permit", "ready", "collect"} /\ (d \in Reads => pc'[d] # "collect")
      BY <1>7, <1>8, <2>4
    <3> QED
      BY <1>1, <2>2, <2>4, <3>1, <3>2 DEF OwnsLock, Calls
  <2>5. CASE d # c /\ pc[d] # "permit"
    <3>1. pc'[d] = IF lockOwner = c /\ d = NextOwner THEN AfterLock(d) ELSE pc[d]
      BY <1>1, <2>5
    <3>2. CASE lockOwner = c
      BY <1>1, <2>2, <2>5, <3>1, <3>2 DEF OwnsLock, AfterLock, Calls
    <3>3. CASE lockOwner # c
      BY <1>1, <2>2, <2>5, <3>1, <3>3 DEF OwnsLock
    <3> QED
      BY <3>2, <3>3
  <2> QED
    BY <2>3, <2>4, <2>5
<1>14. QueueInv'
  <2>1. \A i \in 1..Len(lockQueue') : pc'[lockQueue'[i]] = "locking"
    <3> TAKE i \in 1..Len(lockQueue')
    <3> DEFINE d == lockQueue'[i]
    <3>1. /\ d \in Calls /\ d # c /\ pc[d] = "locking"
          /\ lockOwner = c => d # NextOwner
      BY <1>10
    <3> HIDE DEF d
    <3>2. pc'[d] = "locking"
      BY <1>1, <3>1
    <3> QED
      BY <3>2 DEF d
  <2> QED
    BY <1>10, <1>11, <2>1 DEF QueueInv
<1>15. HeldInv'
  <2> SUFFICES ASSUME NEW d \in Calls
               PROVE  /\ pc'[d] \in {"idle", "locking", "turn"} => held'[d] = 0
                      /\ pc'[d] \in {"ready", "running"} => held'[d] = Needed(d)
                      /\ pc'[d] \in {"collect", "permit"} => held'[d] < Needed(d)
                      /\ d \in Writes /\ held'[d] > 0 =>
                           \A i \in 1..Len(permitQueue') : permitQueue'[i] = d
    BY DEF HeldInv, Needed
  <2>1. /\ pc[d] \in {"idle", "locking", "turn"} => held[d] = 0
        /\ pc[d] \in {"ready", "running"} => held[d] = Needed(d)
        /\ pc[d] \in {"collect", "permit"} => held[d] < Needed(d)
    BY DEF IInv, HeldInv
  <2>2. CASE d = c
    BY <1>1, <2>2
  <2>3. CASE d # c /\ Served(c, d)
    <3>1. d \in Writes => Len(permitQueue') = 0
      BY <1>11, <2>3
    <3>2. held'[d] <= Needed(d) /\ held'[d] \in Nat
      BY <1>5, <1>8, <2>3
    <3>3. d \in Writes => 1..Len(permitQueue') = {}
      BY <3>1
    <3> QED
      BY <1>5, <1>8, <2>3, <3>2, <3>3
  <2>4. CASE d # c /\ ~Served(c, d)
    <3>1. held'[d] = held[d]
      BY <1>6, <1>7, <2>4
    <3>2. d \in Writes /\ held[d] > 0 => \A i \in 1..Len(permitQueue') : permitQueue'[i] = d
      BY <1>11, <2>4
    <3>3. pc'[d] = pc[d] \/ (pc'[d] = AfterLock(d) /\ pc[d] = "locking")
      BY <1>1, <1>4, <1>7, <2>4
    <3>4. AfterLock(d) \in {"turn", "collect"} /\ Needed(d) > 0
      BY <1>5 DEF AfterLock
    <3> QED
      BY <2>1, <3>1, <3>2, <3>3, <3>4
  <2> QED
    BY <2>2, <2>3, <2>4
<1>16. AdmittedExact'
  <2>1. InFlight' = InFlight \ {c} /\ c \in InFlight
    <3>1. \A d \in Calls \ {c} : pc'[d] # "idle" <=> pc[d] # "idle"
      BY <1>9
    <3> QED
      BY <1>1, <3>1 DEF InFlight
  <2>2. Cardinality(InFlight') = Cardinality(InFlight) - 1
    BY <2>1, FiniteCounts, FS_RemoveElement
  <2>3. admitted' = Cardinality(InFlight')
    BY <1>3, <2>2 DEF IInv, AdmittedExact
  <2>4. admitted' <= MaxQueueSize
    BY <1>3 DEF IInv, AdmittedExact
  <2> QED
    BY <2>3, <2>4 DEF AdmittedExact
<1>17. PermitsConserved'
  <2>1. /\ Cardinality(HoldingReaders) \in Nat
        /\ \A S \in SUBSET Reads : IsFiniteSet(S) /\ Cardinality(S) \in Nat
    BY FiniteCounts DEF HoldingReaders, Calls
  <2>2. permits + Cardinality(HoldingReaders) + WriterPermits = MaxWorkers
    BY DEF IInv, PermitsConserved
  <2>3. \A d \in Reads \ {c} : ~Served(c, d) =>
          (d \in HoldingReaders' <=> d \in HoldingReaders)
    BY <1>1, <1>4, <1>7 DEF HoldingReaders, AfterLock, Calls
  <2>4. c \notin HoldingReaders'
    BY <1>1 DEF HoldingReaders
  <2>5. lockOwner = c => WriterPermits' = 0
    <3>1. ASSUME lockOwner = c, NextOwner \in Writes
          PROVE  held'[NextOwner] = 0
      <4>1. NextOwner \in Calls \ {c} /\ pc[NextOwner] = "locking"
        BY <1>4, <3>1 DEF Calls
      <4> QED
        BY <1>6, <4>1 DEF IInv, HeldInv
    <3> QED
      BY <1>1, <3>1 DEF WriterPermits
  <2>6. lockOwner # c /\ NobodyServed(c) => WriterPermits' = WriterPermits
    BY <1>1, <1>6 DEF WriterPermits, NobodyServed, Calls
  <2>7. CASE c \in Writes
    <3>1. NobodyServed(c)
      BY <1>1, <2>7 DEF Served
    <3>2. HoldingReaders' = HoldingReaders
      <4>1. \A d \in Calls : ~Served(c, d)
        BY <2>7 DEF Served
      <4>2. \A d \in Reads : d \in HoldingReaders' <=> d \in HoldingReaders
        BY <2>3, <2>7, <4>1 DEF Calls
      <4> QED
        BY <4>2 DEF HoldingReaders
    <3>3. permits' = permits + held[c]
      BY <3>1 DEF NobodyServed
    <3>4. CASE lockOwner = c
      BY <1>3, <1>5, <2>1, <2>2, <2>5, <2>7, <3>2, <3>3, <3>4 DEF WriterPermits, PermitsConserved
    <3>5. CASE lockOwner # c
      <4>1. held[c] = 0
        BY <1>5, <2>7, <3>5 DEF IInv, LockInv, OwnsLock, HeldInv, PCs
      <4> QED
        BY <1>3, <2>1, <2>2, <2>6, <3>1, <3>2, <3>3, <3>5, <4>1 DEF PermitsConserved
    <3> QED
      BY <3>4, <3>5
  <2>8. CASE c \in Reads
    <3>1. /\ c \in HoldingReaders => held[c] = 1 /\ lockOwner # c
          /\ c \notin HoldingReaders => held[c] = 0
      BY <1>5, <2>8 DEF IInv, HeldInv, LockInv, OwnsLock, HoldingReaders, Needed, PCs
    <3>2. Cardinality(HoldingReaders \ {c}) =
            IF c \in HoldingReaders THEN Cardinality(HoldingReaders) - 1
                                    ELSE Cardinality(HoldingReaders)
      BY FiniteCounts, FS_RemoveElement
    <3>3. lockOwner = c => WriterPermits = 0
      BY <2>8 DEF WriterPermits
    <3>4. CASE NobodyServed(c)
      <4>1. \A d \in Calls : ~Served(c, d)
        BY <1>5, <3>4 DEF NobodyServed, Served
      <4>2. HoldingReaders' = HoldingReaders \ {c}
        BY <2>3, <2>4, <4>1 DEF HoldingReaders, Calls
      <4>3. permits' = permits + held[c] /\ WriterPermits' = WriterPermits
        BY <2>5, <2>6, <3>3, <3>4 DEF NobodyServed
      <4>4. WriterPermits \in Nat
        BY <1>5 DEF WriterPermits, Calls
      <4> QED
        BY <1>3, <2>1, <2>2, <3>1, <3>2, <4>2, <4>3, <4>4 DEF PermitsConserved
    <3>5. ASSUME NEW h \in Calls, Served(c, h) PROVE PermitsConserved'
      <4>1. /\ h # c /\ pc[h] = "permit" /\ held'[h] = held[h] + 1 /\ held[h] < Needed(h)
            /\ permits' = permits /\ c \in HoldingReaders
            /\ \A d \in Calls : Served(c, d) => d = h
        BY <1>8, <3>5 DEF Served, HoldingReaders
      <4>2. lockOwner' = lockOwner /\ lockOwner # c
        BY <1>1, <3>1, <4>1
      <4>3. \A d \in Reads : d # h =>
               (d \in HoldingReaders' <=> d \in HoldingReaders \ {c})
        BY <2>3, <2>4, <4>1 DEF Calls
      <4>4. CASE h \in Reads
        <5>1. h \in HoldingReaders' /\ h \notin HoldingReaders
          BY <1>8, <3>5, <4>1, <4>4 DEF HoldingReaders
        <5>2. HoldingReaders' = (HoldingReaders \ {c}) \cup {h}
          BY <4>3, <4>4, <5>1 DEF HoldingReaders
        <5>3. Cardinality(HoldingReaders') = Cardinality(HoldingReaders \ {c}) + 1
          <6>1. IsFiniteSet(HoldingReaders \ {c}) /\ h \notin HoldingReaders \ {c}
            BY <2>1, <5>1 DEF HoldingReaders
          <6> QED
            BY <5>2, <6>1, FS_AddElement
        <5>4. WriterPermits' = WriterPermits
          BY <3>5, <4>2, <4>4 DEF WriterPermits, Served, Calls
        <5> QED
          BY <2>1, <2>2, <3>2, <4>1, <5>3, <5>4 DEF PermitsConserved
      <4>5. CASE h \in Writes
        <5>1. HoldingReaders' = HoldingReaders \ {c}
          BY <4>3, <4>5 DEF HoldingReaders
        <5>2. lockOwner = h
          BY <4>1, <4>5 DEF IInv, LockInv, OwnsLock
        <5>3. WriterPermits = held[h] /\ WriterPermits' = held[h] + 1 /\ held[h] \in Nat
          BY <1>5, <4>1, <4>2, <4>5, <5>2 DEF WriterPermits
        <5> QED
          BY <1>3, <2>1, <2>2, <3>2, <4>1, <5>1, <5>3 DEF PermitsConserved
      <4> QED
        BY <4>4, <4>5 DEF Calls
    <3> QED
      BY <1>1, <3>4, <3>5
  <2> QED
    BY <2>7, <2>8 DEF Calls
<1> QED
  BY <1>12, <1>13, <1>14, <1>15, <1>16, <1>17 DEF QuietInv

-----------------------------------------------------------------------------
\* Nobody else starts or stops running when a call leaves.
LEMMA ExitKeepsRunning ==
  ASSUME IInv, NEW c \in Calls, pc[c] # "idle", Exit(c)
  PROVE  /\ pc'[c] = "idle"
         /\ \A d \in Calls \ {c} : pc'[d] = "running" <=> pc[d] = "running"
<1>1. pc'[c] = "idle"
  BY ExitCases
<1>2. ASSUME NEW d \in Calls \ {c}, pc[d] = "permit"
      PROVE  pc'[d] # "running"
  BY <1>2, ExitCases DEF NobodyServed, Served, AfterPermit
<1>3. ASSUME NEW d \in Calls \ {c}, pc[d] # "permit"
      PROVE  pc'[d] = "running" <=> pc[d] = "running"
  <2>1. pc'[d] = IF lockOwner = c /\ d = NextOwner THEN AfterLock(d) ELSE pc[d]
    BY <1>3, ExitCases
  <2>2. d = NextOwner => pc[d] = "locking"
    BY HandOver, GatewayAssumption
  <2> QED
    BY <2>1, <2>2 DEF AfterLock
<1> QED
  BY <1>1, <1>2, <1>3

\* The task resumes after its body returned, and leaves.
LEMMA FinishIInv ==
  ASSUME IInv, NEW c \in Calls, Finish(c)
  PROVE  IInv'
<1>1. /\ pc[c] = "running" /\ c \notin workers /\ Exit(c)
      /\ borrowers' = borrowers \ {c} /\ workers' = workers
  BY DEF Finish
<1>2. QuietInv'
  BY <1>1, ExitQuietInv DEF IInv, Typed
<1>3. /\ pc'[c] = "idle"
      /\ \A d \in Calls \ {c} : pc'[d] = "running" <=> pc[d] = "running"
  BY <1>1, ExitKeepsRunning
<1>4. ThreadInv'
  BY <1>1, <1>3 DEF IInv, ThreadInv
<1> QED
  BY <1>2, <1>4 DEF QuietInv, IInv

\* A waiting call is cancelled, and leaves.
LEMMA CancelIInv ==
  ASSUME IInv, NEW c \in Calls, Cancel(c)
  PROVE  IInv'
<1>1. /\ pc[c] \in Waiting /\ Exit(c)
      /\ borrowers' = borrowers \ {c} /\ workers' = workers
  BY DEF Cancel, Cancellable
<1>2. pc[c] # "idle" /\ pc[c] # "running"
  BY <1>1 DEF Waiting
<1>3. QuietInv'
  BY <1>1, <1>2, ExitQuietInv DEF IInv, Typed
<1>4. /\ pc'[c] = "idle"
      /\ \A d \in Calls \ {c} : pc'[d] = "running" <=> pc[d] = "running"
  BY <1>1, <1>2, ExitKeepsRunning
<1>5. ThreadInv'
  <2>1. c \notin borrowers
    BY <1>2 DEF IInv, ThreadInv
  <2> QED
    BY <1>1, <1>4, <2>1 DEF IInv, ThreadInv
<1> QED
  BY <1>3, <1>5 DEF QuietInv, IInv

-----------------------------------------------------------------------------
\* Every reachable state satisfies the inductive invariant.
LEMMA NextIInv == IInv /\ [Next]_vars => IInv'
<1> SUFFICES ASSUME IInv, [Next]_vars PROVE IInv'
  OBVIOUS
<1>1. CASE UNCHANGED vars
  BY <1>1 DEF vars, IInv, Typed, LockInv, OwnsLock, QueueInv, HeldInv, Needed, ThreadInv,
              PermitsConserved, HoldingReaders, WriterPermits, AdmittedExact, InFlight
<1>2. ASSUME NEW c \in Calls, Admit(c) PROVE IInv'
  BY <1>2, AdmitIInv
<1>3. ASSUME NEW c \in Calls, Reject(c) PROVE IInv'
  BY <1>1, <1>3 DEF Reject
<1>4. ASSUME NEW c \in Calls, Task(c) PROVE IInv'
  BY <1>4, PassIInv, CollectIInv, StartIInv, FinishIInv DEF Task
<1>5. ASSUME NEW c \in Calls, BodyReturns(c) PROVE IInv'
  BY <1>5, BodyReturnsIInv
<1>6. ASSUME NEW c \in Calls, Cancel(c) PROVE IInv'
  BY <1>6, CancelIInv
<1> QED
  BY <1>1, <1>2, <1>3, <1>4, <1>5, <1>6 DEF Next

\* The inductive invariant implies exclusivity: a writer whose body runs owns
\* the lock and every permit, so no reader holds one.
LEMMA IInvExclusive == IInv => WriteExclusive
<1> SUFFICES ASSUME IInv, NEW w \in Writes \cap workers, NEW c \in workers, c # w
             PROVE  FALSE
  BY DEF WriteExclusive
<1>1. w \in Calls /\ c \in Calls /\ pc[w] = "running" /\ pc[c] = "running"
  BY DEF IInv, ThreadInv
<1>2. lockOwner = w /\ held[w] = MaxWorkers
  <2>1. w \notin Reads
    BY GatewayAssumption
  <2> QED
    BY <1>1, <2>1 DEF IInv, LockInv, OwnsLock, HeldInv, Needed
<1>3. c \in Reads
  BY <1>1, <1>2 DEF IInv, LockInv, OwnsLock, Calls
<1>4. c \in HoldingReaders
  BY <1>1, <1>3 DEF HoldingReaders
<1>5. Cardinality(HoldingReaders) \in Nat /\ Cardinality(HoldingReaders) # 0
  BY <1>4, FiniteCounts, FS_EmptySet DEF HoldingReaders, Calls
<1>6. permits + Cardinality(HoldingReaders) + MaxWorkers = MaxWorkers /\ permits \in Nat
  BY <1>2 DEF IInv, PermitsConserved, WriterPermits, Typed
<1> QED
  BY <1>5, <1>6, GatewayAssumption

\* It also implies that a thread is free for every call that holds its permits:
\* a ready writer is alone, and with a reader ready at most MaxWorkers - 1
\* other readers run.
LEMMA IInvThread == IInv => ThreadForEveryPermit
<1> SUFFICES ASSUME IInv, NEW c \in Calls, pc[c] = "ready"
             PROVE  Cardinality(borrowers) < MaxWorkers
  BY DEF ThreadForEveryPermit, ThreadTokens
<1> USE GatewayAssumption
<1>1. borrowers \in SUBSET Calls /\ IsFiniteSet(borrowers) /\ permits \in Nat
      /\ Cardinality(HoldingReaders) \in Nat /\ held \in [Calls -> Nat]
      /\ \A d \in borrowers : pc[d] = "running"
  BY FiniteCounts DEF IInv, Typed, ThreadInv, HoldingReaders, Calls
<1>2. c \notin borrowers
  BY <1>1
<1>3. CASE c \in Writes
  <2>1. lockOwner = c /\ held[c] = MaxWorkers
    BY <1>3 DEF IInv, LockInv, OwnsLock, HeldInv, Needed
  <2>2. Cardinality(HoldingReaders) = 0
    BY <1>1, <1>3, <2>1 DEF IInv, PermitsConserved, WriterPermits
  <2>3. HoldingReaders = {}
    BY <2>2, FiniteCounts, FS_EmptySet
  <2>4. borrowers = {}
    <3> SUFFICES ASSUME NEW d \in borrowers PROVE FALSE
      OBVIOUS
    <3>1. d \in Calls /\ pc[d] = "running" /\ d # c
      BY <1>1, <1>2
    <3>2. d \notin Reads
      BY <2>3, <3>1 DEF HoldingReaders
    <3> QED
      BY <2>1, <3>1, <3>2 DEF IInv, LockInv, OwnsLock, Calls
  <2> QED
    BY <2>4, FS_EmptySet
<1>4. CASE c \in Reads
  <2>1. c \in HoldingReaders
    BY <1>4 DEF HoldingReaders
  <2>2. WriterPermits \in Nat
    BY <1>1 DEF WriterPermits, Calls
  <2>3. Cardinality(HoldingReaders) # 0
    BY <2>1, FiniteCounts, FS_EmptySet
  <2>4. Cardinality(HoldingReaders) <= MaxWorkers /\ WriterPermits < MaxWorkers
    BY <1>1, <2>2, <2>3 DEF IInv, PermitsConserved
  <2>5. borrowers \subseteq HoldingReaders \ {c}
    <3> SUFFICES ASSUME NEW d \in borrowers PROVE d \in Reads
      BY <1>1, <1>2 DEF HoldingReaders
    <3>1. SUFFICES ASSUME d \in Writes PROVE FALSE
      BY <1>1 DEF Calls
    <3>2. lockOwner = d /\ held[d] = MaxWorkers
      BY <1>1, <3>1 DEF IInv, LockInv, OwnsLock, HeldInv, Needed
    <3> QED
      BY <2>4, <3>1, <3>2 DEF WriterPermits
  <2>6. /\ IsFiniteSet(HoldingReaders \ {c})
        /\ Cardinality(HoldingReaders \ {c}) = Cardinality(HoldingReaders) - 1
    BY <2>1, FiniteCounts, FS_RemoveElement
  <2>7. Cardinality(borrowers) <= Cardinality(HoldingReaders) - 1
    BY <2>5, <2>6, FS_Subset
  <2>8. Cardinality(borrowers) \in Nat
    BY <1>1, FS_CardinalityType
  <2> QED
    BY <1>1, <2>4, <2>7, <2>8
<1> QED
  BY <1>3, <1>4 DEF Calls

\* The counters stay in range: the free permits and the writer's are parts of
\* MaxWorkers, and no phase of a call holds more than it needs.
LEMMA IInvType == IInv => TypeOK
<1> SUFFICES ASSUME IInv PROVE TypeOK
  OBVIOUS
<1>1. Typed
  BY DEF IInv
<1>2. permits <= MaxWorkers
  <2>1. WriterPermits \in Nat
    BY <1>1 DEF WriterPermits, Typed, Calls
  <2>2. Cardinality(HoldingReaders) \in Nat
    BY FiniteCounts, FS_CardinalityType
  <2> QED
    BY <1>1, <2>1, <2>2 DEF IInv, PermitsConserved, Typed
<1>3. ASSUME NEW c \in Calls PROVE held[c] <= Needed(c)
  <2>1. held[c] \in Nat /\ Needed(c) \in Nat /\ pc[c] \in PCs
    BY <1>1, NeededType DEF Typed
  <2> QED
    BY <2>1 DEF IInv, HeldInv, PCs
<1> QED
  BY <1>1, <1>2, <1>3 DEF TypeOK

-----------------------------------------------------------------------------
\* The inductive invariant is an invariant of the gateway.
THEOREM GatewayInvariant == Spec => []IInv
<1>1. Init => IInv
  BY InitIInv
<1>2. IInv /\ [Next]_vars => IInv'
  BY NextIInv
<1> QED
  BY <1>1, <1>2, PTL DEF Spec

\* Types and ranges of the counters hold, however calls arrive and are cancelled.
THEOREM GatewayTypeOK == Spec => []TypeOK
BY GatewayInvariant, IInvType, PTL

\* A mutating tool's body never overlaps another tool's body.
THEOREM GatewayWriteExclusive == Spec => []WriteExclusive
BY GatewayInvariant, IInvExclusive, PTL

\* Cancellation and failure leak no permit and invent none.
THEOREM GatewayPermitsConserved == Spec => []PermitsConserved
BY GatewayInvariant, PTL DEF IInv

\* The admission counter is the number of calls in run(), within its cap.
THEOREM GatewayAdmittedExact == Spec => []AdmittedExact
BY GatewayInvariant, PTL DEF IInv

\* Whoever holds its permits finds a free thread.
THEOREM GatewayThreadForEveryPermit == Spec => []ThreadForEveryPermit
BY GatewayInvariant, IInvThread, PTL

-----------------------------------------------------------------------------
\* The gateway implements ArrivalOrderedAccess: each of its steps is a step of
\* access in the order of arrival, or leaves its state alone.

\* What the inductive invariant says of the lock and the queues.
LEMMA QueueFacts ==
  ASSUME IInv
  PROVE  /\ pc \in [Calls -> PCs]
         /\ lockOwner \in Calls \cup {Nobody}
         /\ lockQueue \in Seq(Calls) /\ IsInjective(lockQueue)
         /\ permitQueue \in Seq(Calls) /\ IsInjective(permitQueue)
         /\ \A c : Contains(lockQueue, c) => c \in Calls /\ pc[c] = "locking"
         /\ \A c : Contains(permitQueue, c) => c \in Calls /\ pc[c] = "permit"
         /\ \A c \in Calls : lockOwner = c => pc[c] \notin {"idle", "locking"}
<1>1. /\ pc \in [Calls -> PCs]
      /\ lockOwner \in Calls \cup {Nobody}
      /\ lockQueue \in Seq(Calls) /\ IsInjective(lockQueue)
      /\ permitQueue \in Seq(Calls) /\ IsInjective(permitQueue)
  BY DEF IInv, Typed, QueueInv
<1>2. \A c : Contains(lockQueue, c) => c \in Calls /\ pc[c] = "locking"
  BY <1>1, ElementOfSeq DEF Contains, IInv, QueueInv
<1>3. \A c : Contains(permitQueue, c) => c \in Calls /\ pc[c] = "permit"
  BY <1>1, ElementOfSeq DEF Contains, IInv, QueueInv
<1>4. \A c \in Calls : lockOwner = c => pc[c] \notin {"idle", "locking"}
  BY DEF IInv, LockInv, OwnsLock
<1> QED
  BY <1>1, <1>2, <1>3, <1>4

\* What a hand-over does to the order in the lock queue.
LEMMA HandOverOrder ==
  ASSUME IInv
  PROVE  /\ NextOwner = Nobody => lockQueue = <<>> /\ RestOfLockQueue = <<>>
         /\ NextOwner \in Calls => /\ Contains(lockQueue, NextOwner)
                                   /\ \A d : ~Before(lockQueue, d, NextOwner)
         /\ \A c : Contains(lockQueue, c) /\ c # NextOwner =>
                     Before(lockQueue, NextOwner, c)
         /\ \A c : Contains(RestOfLockQueue, c) <=>
                     Contains(lockQueue, c) /\ c # NextOwner
         /\ \A d, c : Before(RestOfLockQueue, d, c) <=>
                        Before(lockQueue, d, c) /\ d # NextOwner
<1> USE GatewayAssumption
<1>1. lockQueue \in Seq(Calls) /\ IsInjective(lockQueue)
  BY QueueFacts
<1>2. CASE lockQueue = <<>>
  <2>1. Len(lockQueue) = 0
    BY <1>2, EmptySeq
  <2> QED
    BY <1>2, <2>1 DEF NextOwner, RestOfLockQueue, Contains, Before
<1>3. CASE lockQueue # <<>>
  <2>1. NextOwner = Head(lockQueue) /\ RestOfLockQueue = Tail(lockQueue)
    BY <1>3 DEF NextOwner, RestOfLockQueue
  <2>2. NextOwner \in Calls
    BY <1>1, <1>3, <2>1, HeadTailProperties
  <2>3. /\ Contains(lockQueue, NextOwner) /\ \A d : ~Before(lockQueue, d, NextOwner)
        /\ \A c : Contains(lockQueue, c) /\ c # NextOwner => Before(lockQueue, NextOwner, c)
        /\ \A c : Contains(RestOfLockQueue, c) <=> Contains(lockQueue, c) /\ c # NextOwner
        /\ \A d, c : Before(RestOfLockQueue, d, c) <=>
                       Before(lockQueue, d, c) /\ d # NextOwner
    BY <1>1, <1>3, <2>1, TailOrder
  <2> QED
    BY <2>2, <2>3
<1> QED
  BY <1>2, <1>3

-----------------------------------------------------------------------------
\* A call is admitted: if it has to wait for the lock, it stands in its queue.
LEMMA WaitersAdmit ==
  ASSUME IInv, WaitersQueued, NEW c \in Calls, Admit(c)
  PROVE  WaitersQueued'
<1> USE GatewayAssumption
<1>1. \A d \in Calls \ {c} : pc'[d] = pc[d]
  BY QueueFacts DEF Admit
<1>2. permitQueue' = permitQueue /\ pc'[c] # "permit"
  BY QueueFacts DEF Admit, AfterLock
<1>3. CASE lockOwner = Nobody /\ lockQueue = <<>>
  <2>1. lockOwner' = c /\ lockQueue' = lockQueue /\ pc'[c] # "locking"
    BY <1>3, QueueFacts DEF Admit, AfterLock
  <2> QED
    BY <1>1, <1>2, <2>1 DEF WaitersQueued
<1>4. CASE ~(lockOwner = Nobody /\ lockQueue = <<>>)
  <2>1. lockOwner' = lockOwner /\ lockQueue' = Append(lockQueue, c) /\ lockOwner # Nobody
    BY <1>4 DEF Admit, JoinLockQueue, WaitersQueued
  <2>2. ~Contains(lockQueue, c)
    BY QueueFacts DEF Admit
  <2>3. \A d : Contains(lockQueue', d) <=> Contains(lockQueue, d) \/ d = c
    BY <2>1, <2>2, QueueFacts, AppendOrder
  <2> QED
    BY <1>1, <1>2, <2>1, <2>3 DEF WaitersQueued
<1> QED
  BY <1>3, <1>4

\* What a reader's way through the turnstile does, in short.
LEMMA PassSteps ==
  ASSUME IInv, NEW r \in Calls, PassTurnstile(r)
  PROVE  /\ lockOwner' = NextOwner /\ lockQueue' = RestOfLockQueue
         /\ \A d \in Calls \ {r} : pc'[d] = IF d = NextOwner THEN AfterLock(d) ELSE pc[d]
         /\ pc'[r] \in {"ready", "permit"}
         /\ \/ permitQueue' = permitQueue /\ pc'[r] = "ready"
            \/ permitQueue' = Append(permitQueue, r)
<1> DEFINE free == permits > 0 /\ permitQueue = <<>>
<1>1. /\ lockOwner' = NextOwner /\ lockQueue' = RestOfLockQueue
      /\ permitQueue' = IF free THEN permitQueue ELSE Append(permitQueue, r)
      /\ pc' = [c \in Calls |-> CASE c = r -> IF free THEN "ready" ELSE "permit"
                                  [] c = NextOwner -> AfterLock(c)
                                  [] OTHER -> pc[c]]
  BY DEF PassTurnstile
<1> HIDE DEF free
<1>0. NextOwner # r
  BY HandOver, GatewayAssumption DEF PassTurnstile
<1>2. \A d \in Calls \ {r} : pc'[d] = IF d = NextOwner THEN AfterLock(d) ELSE pc[d]
  BY <1>1
<1>3. pc'[r] = IF free THEN "ready" ELSE "permit"
  BY <1>0, <1>1
<1> QED
  BY <1>1, <1>2, <1>3

\* A reader leaves the turnstile: the new owner leaves the lock queue, and the
\* reader stands in the permit queue unless it got its permit.
LEMMA WaitersPass ==
  ASSUME IInv, WaitersQueued, NEW r \in Calls, PassTurnstile(r)
  PROVE  WaitersQueued'
<1> USE GatewayAssumption
<1>1. /\ lockOwner' = NextOwner /\ lockQueue' = RestOfLockQueue
      /\ \A d \in Calls \ {r} : pc'[d] = IF d = NextOwner THEN AfterLock(d) ELSE pc[d]
      /\ pc'[r] \in {"ready", "permit"}
      /\ \/ permitQueue' = permitQueue /\ pc'[r] = "ready"
         \/ permitQueue' = Append(permitQueue, r)
  BY PassSteps
<1>2. NextOwner = Nobody => lockQueue' = <<>>
  BY <1>1, HandOverOrder
<1>3. ASSUME NEW d \in Calls, pc'[d] = "locking"
      PROVE  Contains(lockQueue', d)
  BY <1>1, <1>3, HandOverOrder DEF WaitersQueued, AfterLock
<1>4. ASSUME NEW d \in Calls, pc'[d] = "permit"
      PROVE  Contains(permitQueue', d)
  <2>1. ~Contains(permitQueue, r)
    BY QueueFacts DEF PassTurnstile
  <2>2. \A x : Contains(Append(permitQueue, r), x) <=> Contains(permitQueue, x) \/ x = r
    BY <2>1, QueueFacts, AppendOrder
  <2> QED
    BY <1>1, <1>4, <2>2 DEF WaitersQueued, AfterLock
<1> QED
  BY <1>1, <1>2, <1>3, <1>4 DEF WaitersQueued

\* A writer that finds no free permit stands in the permit queue.
LEMMA WaitersCollect ==
  ASSUME IInv, WaitersQueued, NEW w \in Calls, Collect(w)
  PROVE  WaitersQueued'
<1>1. /\ lockOwner' = lockOwner /\ lockQueue' = lockQueue
      /\ \A d \in Calls \ {w} : pc'[d] = pc[d]
      /\ pc'[w] # "locking"
      /\ \/ permitQueue' = permitQueue /\ pc'[w] # "permit"
         \/ permitQueue' = Append(permitQueue, w)
  BY QueueFacts DEF Collect, AfterPermit
<1>2. ~Contains(permitQueue, w)
  BY QueueFacts DEF Collect
<1>3. \A x : Contains(Append(permitQueue, w), x) <=> Contains(permitQueue, x) \/ x = w
  BY <1>2, QueueFacts, AppendOrder
<1> QED
  BY <1>1, <1>3 DEF WaitersQueued

\* Whoever is served or gets the lock from a leaving call no longer waits, and
\* the others keep their places.
LEMMA WaitersExit ==
  ASSUME IInv, WaitersQueued, NEW c \in Calls, pc[c] # "idle", Exit(c)
  PROVE  WaitersQueued'
<1> USE GatewayAssumption
<1>1. /\ NobodyServed(c) \/ \E h \in Calls : Served(c, h)
      /\ pc'[c] = "idle"
      /\ lockOwner = c => lockOwner' = NextOwner /\ lockQueue' = RestOfLockQueue
      /\ lockOwner # c => lockOwner' = lockOwner /\ lockQueue' = RemoveFirst(lockQueue, c)
      /\ \A d \in Calls \ {c} : pc[d] # "permit" =>
           pc'[d] = IF lockOwner = c /\ d = NextOwner THEN AfterLock(d) ELSE pc[d]
  BY ExitCases
<1>2. \A x : Contains(RemoveFirst(lockQueue, c), x) <=> Contains(lockQueue, x) /\ x # c
  BY QueueFacts, RemoveFirstOrder
<1>3. \A x : Contains(RemoveFirst(permitQueue, c), x) <=> Contains(permitQueue, x) /\ x # c
  BY QueueFacts, RemoveFirstOrder
<1>4. lockOwner' = Nobody => lockQueue' = <<>>
  <2>1. CASE lockOwner = c
    BY <1>1, <2>1, HandOverOrder
  <2>2. CASE lockOwner # c
    <3> SUFFICES ASSUME lockOwner = Nobody
                 PROVE  RemoveFirst(lockQueue, c) = <<>>
      BY <1>1, <2>2
    <3>1. lockQueue = <<>> /\ Len(lockQueue) = 0
      BY EmptySeq DEF WaitersQueued
    <3> QED
      BY <3>1 DEF RemoveFirst
  <2> QED
    BY <2>1, <2>2
<1>5. ASSUME NEW d \in Calls, pc'[d] = "locking"
      PROVE  Contains(lockQueue', d)
  <2>1. d # c /\ pc[d] # "permit"
    BY <1>1, <1>5 DEF NobodyServed, Served, AfterPermit
  <2>2. pc[d] = "locking" /\ ~(lockOwner = c /\ d = NextOwner)
    BY <1>1, <1>5, <2>1 DEF AfterLock
  <2> QED
    BY <1>1, <1>2, <2>1, <2>2, HandOverOrder DEF WaitersQueued
<1>6. ASSUME NEW d \in Calls, pc'[d] = "permit"
      PROVE  Contains(permitQueue', d)
  <2>1. d # c
    BY <1>1, <1>6
  <2>2. pc[d] = "permit"
    BY <1>1, <1>6, <2>1 DEF AfterLock
  <2>3. Contains(RemoveFirst(permitQueue, c), d)
    BY <1>3, <2>1, <2>2 DEF WaitersQueued
  <2>4. CASE NobodyServed(c)
    BY <2>3, <2>4 DEF NobodyServed
  <2>5. ASSUME NEW h \in Calls, Served(c, h)
        PROVE  Contains(permitQueue', d)
    <3> DEFINE queue == RemoveFirst(permitQueue, c)
    <3>1. d # h
      BY <1>6, <2>5 DEF Served, AfterPermit
    <3>2. queue \in Seq(Calls) /\ IsInjective(queue)
      BY ExitPermits
    <3>3. queue # <<>> /\ h = Head(queue) /\ permitQueue' = Tail(queue)
      BY <2>5 DEF Served
    <3> HIDE DEF queue
    <3>4. \A x : Contains(Tail(queue), x) <=> Contains(queue, x) /\ x # Head(queue)
      BY <3>2, <3>3, TailOrder
    <3> QED
      BY <2>3, <3>1, <3>3, <3>4 DEF queue
  <2> QED
    BY <1>1, <2>4, <2>5
<1> QED
  BY <1>4, <1>5, <1>6 DEF WaitersQueued

\* Every step keeps the waiters in their queues.
LEMMA WaitersNext ==
  ASSUME IInv, WaitersQueued, [Next]_vars
  PROVE  WaitersQueued'
<1>1. CASE UNCHANGED vars
  BY <1>1 DEF vars, WaitersQueued
<1>2. ASSUME NEW c \in Calls, Start(c) \/ BodyReturns(c)
      PROVE  WaitersQueued'
  <2>1. \A d \in Calls : pc'[d] = pc[d] \/ pc'[d] = "running"
    BY <1>2, QueueFacts DEF Start, BodyReturns
  <2> QED
    BY <1>2, <2>1 DEF Start, BodyReturns, WaitersQueued
<1>3. ASSUME NEW c \in Calls, Finish(c) \/ Cancel(c)
      PROVE  WaitersQueued'
  BY <1>3, WaitersExit DEF Finish, Cancel, Cancellable, Waiting
<1> QED
  BY <1>1, <1>2, <1>3, WaitersAdmit, WaitersPass, WaitersCollect
  DEF Next, Task, Reject

\* It is an invariant, with the gateway's own inductive invariant.
LEMMA WaitersAlwaysQueued == Spec => []WaitersQueued
<1>1. Init => WaitersQueued
  BY DEF Init, WaitersQueued
<1>2. IInv /\ WaitersQueued /\ [Next]_vars => WaitersQueued'
  BY WaitersNext
<1> QED
  BY <1>1, <1>2, GatewayInvariant, PTL DEF Spec

-----------------------------------------------------------------------------
\* Who is ahead of a call: the two ways a call can have somebody before it.
AheadIsWho ==
  \A c \in Calls : \A d :
    d \in AheadOf(c) <=>
      \/ /\ pc[c] = "locking"
         /\ c \in Writes \/ d \in Writes
         /\ Before(lockQueue, d, c) \/ (d = lockOwner /\ d \in Calls) \/ d \in PastTurnstile
      \/ pc[c] # "idle" /\ c = lockOwner /\ c \in Writes /\ d \in PastTurnstile

LEMMA AheadMembers == IInv => AheadIsWho
<1> USE GatewayAssumption
<1> SUFFICES ASSUME IInv, NEW c \in Calls, NEW d
             PROVE  d \in AheadOf(c) <=>
      \/ /\ pc[c] = "locking"
         /\ c \in Writes \/ d \in Writes
         /\ Before(lockQueue, d, c) \/ (d = lockOwner /\ d \in Calls) \/ d \in PastTurnstile
      \/ pc[c] # "idle" /\ c = lockOwner /\ c \in Writes /\ d \in PastTurnstile
  BY DEF AheadIsWho
<1>1. d \in AheadInQueue(c) <=> Before(lockQueue, d, c)
  BY DEF AheadInQueue, Before
<1>2. c = lockOwner => pc[c] # "locking"
  BY QueueFacts
<1>3. d \in PastTurnstile => d \in Reads /\ d \notin Writes
  BY DEF PastTurnstile
<1>4. CASE pc[c] = "locking" /\ c \in Reads
  <2>1. AheadOf(c) = (AheadInQueue(c) \cup {lockOwner}) \cap Writes
    BY <1>4 DEF AheadOf
  <2> QED
    BY <1>1, <1>2, <1>3, <1>4, <2>1 DEF Calls
<1>5. CASE pc[c] = "locking" /\ c \in Writes
  <2>1. AheadOf(c) = AheadInQueue(c) \cup ({lockOwner} \cap Calls) \cup PastTurnstile
    BY <1>2, <1>5 DEF AheadOf
  <2> QED
    BY <1>1, <1>2, <1>5, <2>1
<1>6. CASE pc[c] # "locking" /\ pc[c] # "idle" /\ c = lockOwner /\ c \in Writes
  BY <1>6 DEF AheadOf
<1>7. CASE pc[c] # "locking" /\ ~(pc[c] # "idle" /\ c = lockOwner /\ c \in Writes)
  BY <1>7 DEF AheadOf
<1> QED
  BY <1>4, <1>5, <1>6, <1>7 DEF Calls

\* The same of the state after a step.
LEMMA AheadMembersNext == IInv' => AheadIsWho'
BY AheadMembers, PTL

\* A call in run() owns the lock, waits for it, or is a reader past the turnstile.
LEMMA WhereCallsAre ==
  ASSUME IInv, WaitersQueued, NEW d \in Calls
  PROVE  d \in InFlight <=> Contains(lockQueue, d) \/ d = lockOwner \/ d \in PastTurnstile
<1>1. pc[d] \in PCs /\ (Contains(lockQueue, d) <=> pc[d] = "locking")
  BY QueueFacts DEF WaitersQueued
<1>2. CASE d \in Reads
  BY <1>1, <1>2, GatewayAssumption DEF IInv, LockInv, OwnsLock, PCs, InFlight, PastTurnstile
<1>3. CASE d \in Writes
  BY <1>1, <1>3, GatewayAssumption DEF IInv, LockInv, OwnsLock, PCs, InFlight, PastTurnstile
<1> QED
  BY <1>2, <1>3 DEF Calls

-----------------------------------------------------------------------------
\* The access specification counts as this module does.
LEMMA SameCount == \A S : Access!Cardinality(S) = Cardinality(S)
BY DEF Access!Cardinality, Cardinality

\* Admit enters the calls: every conflicting call in run() is ahead of c.
LEMMA AdmitEnters ==
  ASSUME IInv, WaitersQueued, IInv', NEW c \in Calls, Admit(c)
  PROVE  Access!Enter(c)
<1> USE GatewayAssumption
<1>1. /\ pc[c] = "idle" /\ workers' = workers /\ HasRoom
      /\ \A d \in Calls \ {c} : pc'[d] = pc[d]
      /\ pc'[c] \in {"locking", "turn", "collect"}
      /\ ~Contains(lockQueue, c) /\ lockOwner # c /\ c \notin PastTurnstile
  BY QueueFacts DEF Admit, AfterLock, PastTurnstile
<1>2. c \notin InFlight /\ InFlight' = InFlight \cup {c}
  BY <1>1 DEF InFlight
<1>3. Cardinality(InFlight) < MaxQueueSize
  BY <1>1 DEF HasRoom, IInv, AdmittedExact
<1>4. PastTurnstile' = PastTurnstile
  BY <1>1 DEF PastTurnstile, Calls
<1>5. \A x \in Calls : \A d :
        d \in AheadOf(x)' <=> IF x = c THEN d \in InFlight /\ (c \in Writes \/ d \in Writes)
                                       ELSE d \in AheadOf(x)
  <2> SUFFICES ASSUME NEW x \in Calls, NEW d
               PROVE  d \in AheadOf(x)' <=>
                        IF x = c THEN d \in InFlight /\ (c \in Writes \/ d \in Writes)
                                 ELSE d \in AheadOf(x)
    OBVIOUS
  <2>1. CASE lockOwner = Nobody /\ lockQueue = <<>>
    <3>1. lockOwner' = c /\ lockQueue' = lockQueue /\ pc'[c] = AfterLock(c)
      BY <2>1, QueueFacts DEF Admit
    <3>2. \A y, z : ~Before(lockQueue, y, z) /\ ~Contains(lockQueue, y)
      <4>1. Len(lockQueue) = 0
        BY <2>1, EmptySeq
      <4> QED
        BY <4>1 DEF Before, Contains
    <3>3. d \in InFlight <=> d \in PastTurnstile
      BY <2>1, <3>2, WhereCallsAre DEF InFlight, PastTurnstile, Calls
    <3> QED
      BY <1>1, <1>4, <2>1, <3>1, <3>2, <3>3, AheadMembers, AheadMembersNext
      DEF AheadIsWho, AfterLock, PastTurnstile, WaitersQueued, Calls
  <2>2. CASE ~(lockOwner = Nobody /\ lockQueue = <<>>)
    <3>1. lockOwner' = lockOwner /\ lockQueue' = Append(lockQueue, c) /\ pc'[c] = "locking"
      BY <2>2, QueueFacts DEF Admit, JoinLockQueue
    <3>2. \A y, z : Before(lockQueue', y, z) <=>
                      Before(lockQueue, y, z) \/ (z = c /\ Contains(lockQueue, y))
      BY <1>1, <3>1, QueueFacts, AppendOrder
    <3>3. ~Before(lockQueue, d, c)
      BY <1>1 DEF Before, Contains
    <3>4. d \in InFlight <=> Contains(lockQueue, d) \/ (d = lockOwner /\ d \in Calls)
                                                    \/ d \in PastTurnstile
      BY QueueFacts, WhereCallsAre DEF InFlight, PastTurnstile, Calls
    <3> QED
      BY <1>1, <1>4, <3>1, <3>2, <3>3, <3>4, AheadMembers, AheadMembersNext DEF AheadIsWho
  <2> QED
    BY <2>1, <2>2
<1>6. \A x \in Calls :
        AheadOf(x)' = IF x = c THEN {d \in InFlight : Access!Conflict(c, d)} ELSE AheadOf(x)
  BY <1>5 DEF Access!Conflict
<1> QED
  BY <1>1, <1>2, <1>3, <1>6, SameCount DEF Access!Enter

\* The reader that passes the turnstile stays ahead of the writers behind it.
LEMMA PassKeepsAccess ==
  ASSUME IInv, WaitersQueued, IInv', NEW r \in Calls, PassTurnstile(r)
  PROVE  UNCHANGED Access!accessVars
<1> USE GatewayAssumption
<1>1. /\ r \in Reads /\ r \notin Writes /\ pc[r] = "turn" /\ lockOwner = r
      /\ workers' = workers
      /\ lockOwner' = NextOwner /\ lockQueue' = RestOfLockQueue
      /\ \A d \in Calls \ {r} : pc'[d] = IF d = NextOwner THEN AfterLock(d) ELSE pc[d]
      /\ pc'[r] \in {"ready", "permit"}
  BY PassSteps DEF PassTurnstile, IInv, LockInv, OwnsLock
<1>2. /\ NextOwner \in Calls \cup {Nobody} /\ NextOwner # r
      /\ NextOwner \in Calls => pc[NextOwner] = "locking" /\ Contains(lockQueue, NextOwner)
  BY <1>1, HandOver, HandOverOrder
<1>3. InFlight' = InFlight
  BY <1>1, <1>2 DEF InFlight, AfterLock
<1>4. PastTurnstile' = PastTurnstile \cup {r}
  BY <1>1, <1>2 DEF PastTurnstile, AfterLock, Calls
<1>5. \A x \in Calls : \A d : d \in AheadOf(x)' <=> d \in AheadOf(x)
  <2> SUFFICES ASSUME NEW x \in Calls, NEW d
               PROVE  d \in AheadOf(x)' <=> d \in AheadOf(x)
    OBVIOUS
  <2>1. pc[x] = "locking" <=> Contains(lockQueue, x)
    BY QueueFacts DEF WaitersQueued
  <2>2. \A y, z : Before(lockQueue, y, z) => y \in Calls
    BY QueueFacts DEF Before, Contains
  <2>3. CASE x = NextOwner
    <3>1. pc[x] = "locking" /\ ~Before(lockQueue, d, x) /\ x # lockOwner
          /\ pc'[x] = AfterLock(x) /\ lockOwner' = x
      BY <1>1, <1>2, <2>3, HandOverOrder
    <3> QED
      BY <1>1, <1>4, <3>1, AheadMembers, AheadMembersNext DEF AheadIsWho, AfterLock, PastTurnstile, Calls
  <2>4. CASE x = r
    BY <1>1, <1>2, <2>4, AheadMembers, AheadMembersNext DEF AheadIsWho
  <2>5. CASE x # NextOwner /\ x # r
    <3>1. pc'[x] = pc[x] /\ x # lockOwner /\ x # lockOwner'
      BY <1>1, <2>5
    <3>2. Contains(lockQueue, x) =>
            /\ NextOwner \in Calls
            /\ Before(lockQueue, d, x) <=> Before(lockQueue', d, x) \/ d = NextOwner
      <4>1. Contains(lockQueue, x) => Before(lockQueue, NextOwner, x)
        BY <2>5, HandOverOrder
      <4> QED
        BY <1>1, <2>2, <4>1, HandOverOrder
    <3> QED
      BY <1>1, <1>4, <2>1, <3>1, <3>2, AheadMembers, AheadMembersNext DEF AheadIsWho
  <2> QED
    BY <2>3, <2>4, <2>5
<1>6. \A x \in Calls : AheadOf(x)' = AheadOf(x)
  BY <1>5
<1> QED
  BY <1>1, <1>3, <1>6 DEF Access!accessVars

\* A writer that collects permits changes nothing in the order.
LEMMA CollectKeepsAccess ==
  ASSUME IInv, IInv', NEW w \in Calls, Collect(w)
  PROVE  UNCHANGED Access!accessVars
<1> USE GatewayAssumption
<1>1. /\ w \in Writes /\ w \notin Reads /\ pc[w] = "collect" /\ lockOwner = w
      /\ lockOwner' = lockOwner /\ lockQueue' = lockQueue /\ workers' = workers
      /\ \A d \in Calls \ {w} : pc'[d] = pc[d]
      /\ pc'[w] \in {"collect", "permit", "ready"}
  BY QueueFacts DEF Collect, AfterPermit, IInv, LockInv, OwnsLock
<1>2. InFlight' = InFlight
  BY <1>1 DEF InFlight
<1>3. PastTurnstile' = PastTurnstile
  BY <1>1 DEF PastTurnstile, Calls
<1>4. \A x \in Calls : \A d : d \in AheadOf(x)' <=> d \in AheadOf(x)
  BY <1>1, <1>3, AheadMembers, AheadMembersNext DEF AheadIsWho
<1>5. \A x \in Calls : AheadOf(x)' = AheadOf(x)
  BY <1>4
<1> QED
  BY <1>1, <1>2, <1>5 DEF Access!accessVars

\* A body starts with nobody ahead of it: a reader has passed the turnstile, and
\* a writer holds every permit, so no reader holds or awaits one.
LEMMA StartBegins ==
  ASSUME IInv, WaitersQueued, IInv', NEW c \in Calls, Start(c)
  PROVE  Access!Begin(c)
<1> USE GatewayAssumption
<1>1. /\ pc[c] = "ready" /\ pc'[c] = "running" /\ workers' = workers \cup {c}
      /\ Cardinality(borrowers) < MaxWorkers
      /\ lockOwner' = lockOwner /\ lockQueue' = lockQueue
      /\ \A d \in Calls \ {c} : pc'[d] = pc[d]
  BY QueueFacts DEF Start, ThreadTokens
<1>2. c \in InFlight /\ InFlight' = InFlight
  BY <1>1 DEF InFlight
<1>3. workers \subseteq borrowers /\ borrowers \subseteq Calls /\ c \notin workers
  BY <1>1 DEF IInv, ThreadInv
<1>4. Cardinality(workers) < MaxWorkers
  <2>1. /\ IsFiniteSet(borrowers)
        /\ Cardinality(borrowers) \in Nat /\ Cardinality(workers) \in Nat
    BY <1>3, FiniteCounts
  <2>2. Cardinality(workers) <= Cardinality(borrowers)
    BY <1>3, <2>1, FS_Subset
  <2> QED
    BY <1>1, <2>1, <2>2
<1>5. PastTurnstile' = PastTurnstile
  BY <1>1 DEF PastTurnstile, Calls
<1>6. \A x \in Calls : AheadOf(x)' = AheadOf(x)
  <2>1. \A x \in Calls : \A d : d \in AheadOf(x)' <=> d \in AheadOf(x)
    BY <1>1, <1>5, AheadMembers, AheadMembersNext DEF AheadIsWho
  <2> QED
    BY <2>1
<1>7. AheadOf(c) = {}
  <2>1. CASE c \in Reads
    BY <1>1, <2>1, AheadMembers DEF AheadIsWho
  <2>2. CASE c \in Writes
    <3>1. lockOwner = c /\ held[c] = MaxWorkers
      BY <1>1, <2>2 DEF IInv, LockInv, OwnsLock, HeldInv, Needed
    <3>2. HoldingReaders = {}
      <4>1. permits + Cardinality(HoldingReaders) + MaxWorkers = MaxWorkers
            /\ permits \in Nat /\ Cardinality(HoldingReaders) \in Nat
        BY <2>2, <3>1, FiniteCounts DEF IInv, PermitsConserved, WriterPermits, Typed,
                                        HoldingReaders, Calls
      <4> QED
        BY <4>1, FiniteCounts, FS_EmptySet
    <3>3. \A d \in Calls : pc[d] # "permit"
      BY <1>1, <2>2, <3>1 DEF IInv, HeldInv, WaitersQueued, Contains
    <3>4. PastTurnstile = {}
      BY <3>2, <3>3 DEF PastTurnstile, HoldingReaders, Calls
    <3> QED
      BY <1>1, <3>1, <3>4, AheadMembers DEF AheadIsWho
  <2> QED
    BY <2>1, <2>2 DEF Calls
<1> QED
  BY <1>1, <1>2, <1>3, <1>4, <1>6, <1>7, SameCount DEF Access!Begin

\* Where the other calls are after c has left: a waiter that was served
\* goes on, and nobody else moves.
LEMMA ExitMoves ==
  ASSUME IInv, NEW c \in Calls, pc[c] # "idle", Exit(c)
  PROVE  /\ InFlight' = InFlight \ {c}
         /\ PastTurnstile' = PastTurnstile \ {c}
         /\ \A d \in Calls \ {c} : pc'[d] = "locking" <=>
              pc[d] = "locking" /\ ~(lockOwner = c /\ d = NextOwner)
<1> USE GatewayAssumption
<1>1. pc'[c] = "idle"
  BY ExitCases
<1>2. ASSUME NEW d \in Calls \ {c}, pc[d] = "permit"
      PROVE  /\ pc'[d] \in {"permit", "ready", "collect"}
             /\ d \in Reads => pc'[d] \in {"permit", "ready"}
  <2>1. pc'[d] = "permit" \/ pc'[d] = AfterPermit(d)
    BY <1>2, ExitCases DEF NobodyServed, Served
  <2>2. held[d] \in Nat /\ held[d] < Needed(d)
    BY <1>2 DEF IInv, Typed, HeldInv
  <2>3. d \in Reads => held[d] + 1 = Needed(d)
    BY <2>2 DEF Needed
  <2> QED
    BY <2>1, <2>3 DEF AfterPermit
<1>3. ASSUME NEW d \in Calls \ {c}, pc[d] # "permit"
      PROVE  pc'[d] = IF lockOwner = c /\ d = NextOwner THEN AfterLock(d) ELSE pc[d]
  BY <1>3, ExitCases
<1>4. NextOwner \in Calls => pc[NextOwner] = "locking"
  BY HandOver
<1>5. InFlight' = InFlight \ {c}
  <2>1. \A d \in Calls \ {c} : pc'[d] = "idle" <=> pc[d] = "idle"
    BY <1>2, <1>3, <1>4 DEF AfterLock
  <2> QED
    BY <1>1, <2>1 DEF InFlight
<1>6. PastTurnstile' = PastTurnstile \ {c}
  <2>1. \A d \in Reads \ {c} : pc'[d] \in {"permit", "ready", "running"} <=>
                               pc[d] \in {"permit", "ready", "running"}
    BY <1>2, <1>3, <1>4 DEF AfterLock, Calls
  <2> QED
    BY <1>1, <2>1 DEF PastTurnstile
<1>7. \A d \in Calls \ {c} : pc'[d] = "locking" <=>
        pc[d] = "locking" /\ ~(lockOwner = c /\ d = NextOwner)
  BY <1>2, <1>3 DEF AfterLock
<1> QED
  BY <1>5, <1>6, <1>7

\* A call that leaves, in whatever phase, is taken out of every set and out of the
\* calls in run(); the order among the others stays.
LEMMA ExitLeaves ==
  ASSUME IInv, WaitersQueued, IInv', NEW c \in Calls, pc[c] # "idle", Exit(c),
         c \notin workers, workers' = workers
  PROVE  Access!Leave(c)
<1> USE GatewayAssumption
<1>1. c \in InFlight
  BY DEF InFlight
<1>2. /\ InFlight' = InFlight \ {c}
      /\ PastTurnstile' = PastTurnstile \ {c}
      /\ \A d \in Calls \ {c} : pc'[d] = "locking" <=>
           pc[d] = "locking" /\ ~(lockOwner = c /\ d = NextOwner)
  BY ExitMoves
<1>3. /\ pc'[c] = "idle"
      /\ lockOwner = c => lockOwner' = NextOwner /\ lockQueue' = RestOfLockQueue
      /\ lockOwner # c => lockOwner' = lockOwner /\ lockQueue' = RemoveFirst(lockQueue, c)
  BY ExitCases
<1>4. \A x \in Calls \ {c} : pc'[x] = "idle" <=> pc[x] = "idle"
  BY <1>2 DEF InFlight
<1>5. ASSUME NEW x \in Calls, NEW d
      PROVE  d \in AheadOf(x)' <=> x # c /\ d \in AheadOf(x) /\ d # c
  <2>1. pc[x] = "locking" <=> Contains(lockQueue, x)
    BY QueueFacts DEF WaitersQueued
  <2>2. \A y, z : Before(lockQueue, y, z) => y \in Calls /\ pc[y] = "locking"
    BY QueueFacts DEF Before, Contains
  <2>3. \A y \in Calls : y = lockOwner => pc[y] \notin {"idle", "locking"}
    BY QueueFacts
  <2>4. CASE x = c
    BY <1>3, <2>4, AheadMembersNext DEF AheadIsWho
  <2>5. CASE x # c /\ lockOwner # c
    <3>1. Before(lockQueue', d, x) <=> Before(lockQueue, d, x) /\ d # c
      BY <1>3, <2>5, QueueFacts, RemoveFirstOrder
    <3>2. pc'[x] = "locking" <=> pc[x] = "locking"
      BY <1>2, <2>5
    <3> QED
      BY <1>2, <1>3, <1>4, <2>5, <3>1, <3>2, AheadMembers, AheadMembersNext DEF AheadIsWho
  <2>6. CASE x # c /\ lockOwner = c /\ x = NextOwner
    <3>1. pc[x] = "locking" /\ ~Before(lockQueue, d, x) /\ pc'[x] # "locking"
          /\ pc'[x] # "idle" /\ lockOwner' = x
      BY <1>2, <1>3, <1>4, <2>6, HandOver, HandOverOrder
    <3>2. d \in PastTurnstile => d \notin Writes
      BY DEF PastTurnstile
    <3> QED
      BY <1>2, <2>6, <3>1, <3>2, AheadMembers, AheadMembersNext DEF AheadIsWho, Calls
  <2>7. CASE x # c /\ lockOwner = c /\ x # NextOwner
    <3>1. pc'[x] = "locking" <=> pc[x] = "locking"
      BY <1>2, <2>7
    <3>2. x # lockOwner /\ x # lockOwner'
      BY <1>3, <2>7
    <3>3. ~Before(lockQueue, c, x) /\ NextOwner # c
      BY <2>2, <2>3, <2>7, HandOver
    <3>4. Contains(lockQueue, x) =>
            /\ NextOwner \in Calls
            /\ Before(lockQueue, d, x) <=> Before(lockQueue', d, x) \/ d = NextOwner
      <4>1. Contains(lockQueue, x) => Before(lockQueue, NextOwner, x)
        BY <2>7, HandOverOrder
      <4> QED
        BY <1>3, <2>2, <2>7, <4>1, HandOverOrder
    <3> QED
      BY <1>2, <1>3, <2>1, <2>7, <3>1, <3>2, <3>3, <3>4, AheadMembers, AheadMembersNext
      DEF AheadIsWho
  <2> QED
    BY <2>4, <2>5, <2>6, <2>7
<1>6. \A x \in Calls : AheadOf(x)' = IF x = c THEN {} ELSE AheadOf(x) \ {c}
  <2> SUFFICES ASSUME NEW x \in Calls
               PROVE  AheadOf(x)' = IF x = c THEN {} ELSE AheadOf(x) \ {c}
    OBVIOUS
  <2>1. \A d : d \in AheadOf(x)' <=> x # c /\ d \in AheadOf(x) /\ d # c
    BY <1>5
  <2> QED
    BY <2>1
<1> QED
  BY <1>1, <1>2, <1>6 DEF Access!Leave, Access!Calls, Calls

-----------------------------------------------------------------------------
\* The gateway starts where the access specification starts.
LEMMA AccessStarts == Init => Access!AccessInit
<1> SUFFICES ASSUME Init PROVE Access!AccessInit
  OBVIOUS
<1>1. InFlight = {} /\ workers = {}
  BY DEF Init, InFlight
<1>2. \A c \in Calls : AheadOf(c) = {}
  BY DEF Init, AheadOf
<1> QED
  BY <1>1, <1>2 DEF Access!AccessInit, Access!Calls, Calls

\* Every step of the gateway is a step of the access specification, or changes
\* nothing that it sees.
LEMMA AccessSteps ==
  ASSUME IInv, WaitersQueued, IInv', [Next]_vars
  PROVE  [Access!AccessNext]_Access!accessVars
<1> USE DEF Access!AccessNext, Access!Calls, Calls
<1>1. CASE UNCHANGED vars
  <2>1. InFlight' = InFlight /\ workers' = workers
    BY <1>1 DEF vars, InFlight
  <2>2. \A c \in Calls : AheadOf(c)' = AheadOf(c)
    BY <1>1 DEF vars, AheadOf, AheadInQueue, PastTurnstile
  <2> QED
    BY <2>1, <2>2 DEF Access!accessVars
<1>2. ASSUME NEW c \in Calls, Admit(c)
      PROVE  Access!AccessNext
  BY <1>2, AdmitEnters
<1>3. ASSUME NEW c \in Calls, Reject(c)
      PROVE  UNCHANGED vars
  BY <1>3 DEF Reject
<1>4. ASSUME NEW c \in Calls, PassTurnstile(c) \/ Collect(c)
      PROVE  UNCHANGED Access!accessVars
  BY <1>4, PassKeepsAccess, CollectKeepsAccess
<1>5. ASSUME NEW c \in Calls, Start(c)
      PROVE  Access!AccessNext
  BY <1>5, StartBegins
<1>6. ASSUME NEW c \in Calls, BodyReturns(c)
      PROVE  Access!AccessNext
  <2>1. InFlight' = InFlight /\ c \in workers /\ workers' = workers \ {c}
    BY <1>6 DEF BodyReturns, InFlight
  <2>2. \A x \in Calls : AheadOf(x)' = AheadOf(x)
    BY <1>6 DEF BodyReturns, AheadOf, AheadInQueue, PastTurnstile
  <2>3. Access!End(c)
    BY <2>1, <2>2 DEF Access!End
  <2> QED
    BY <2>3
<1>7. ASSUME NEW c \in Calls, Finish(c) \/ Cancel(c)
      PROVE  Access!AccessNext
  <2>1. pc[c] # "idle" /\ Exit(c) /\ c \notin workers /\ workers' = workers
    BY <1>7 DEF Finish, Cancel, Cancellable, Waiting, IInv, ThreadInv
  <2> QED
    BY <2>1, ExitLeaves
<1> QED
  BY <1>1, <1>2, <1>3, <1>4, <1>5, <1>6, <1>7 DEF Next, Task

\* The gateway implements access in the order of arrival: a call begins only after
\* every conflicting call admitted before it has left.
THEOREM GatewayArrivalOrder == Spec => ArrivalOrder
<1>1. Init => Access!AccessInit
  BY AccessStarts
<1>2. IInv /\ WaitersQueued /\ IInv' /\ [Next]_vars => [Access!AccessNext]_Access!accessVars
  BY AccessSteps
<1> QED
  BY <1>1, <1>2, GatewayInvariant, WaitersAlwaysQueued, PTL
  DEF Spec, ArrivalOrder, Access!AccessSpec
=============================================================================
