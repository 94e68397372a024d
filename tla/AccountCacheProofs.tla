------------------------ MODULE AccountCacheProofs -------------------------
(***************************************************************************)
(* The invariants of AccountCache, for any number of threads, backends and *)
(* protocols, any settings and any bound of the cache.                     *)
(***************************************************************************)
EXTENDS AccountCache, QueueLemmas

\* Locks of different kinds or backends are different locks.
LEMMA LocksDiffer ==
  /\ ConfigLock \in Locks
  /\ \A b \in Backends : /\ AccountLock(b) \in Locks
                         /\ OtherLock(b) \in Locks
                         /\ AccountLock(b) # ConfigLock
                         /\ OtherLock(b) # ConfigLock
  /\ \A b, c \in Backends : /\ AccountLock(b) # OtherLock(c)
                            /\ AccountLock(b) = AccountLock(c) => b = c
                            /\ OtherLock(b) = OtherLock(c) => b = c
  BY DEF Locks, AccountLock, OtherLock, ConfigLock

LEMMA EveryLock ==
  ASSUME NEW l \in Locks
  PROVE  \/ l = ConfigLock
         \/ \E b \in Backends : l = AccountLock(b) \/ l = OtherLock(b)
  BY DEF Locks, AccountLock, OtherLock, ConfigLock

LEMMA CacheStart == Init => CacheIInv
  <1> USE AccountAssumption
  <1> SUFFICES ASSUME Init PROVE CacheIInv
    OBVIOUS
  <1>1. Typed
    BY DEF Init, Typed, PCs
  <1>2. LockInv
    BY LocksDiffer DEF Init, LockInv, HoldsOf, HoldsConfig, BuildsOwn, InAccountFor
  <1>3. PhaseInv /\ GotInv
    BY DEF Init, PhaseInv, PhaseOf, GotInv, BuildsOwn
  <1>4. BuiltInv /\ ConfigInv
    BY DEF Init, BuiltInv, ConfigInv
  <1> QED
    BY <1>1, <1>2, <1>3, <1>4 DEF CacheIInv

LEMMA BeginStep ==
  ASSUME CacheIInv, NEW t \in Threads, NEW j \in Jobs, Begin(t, j)
  PROVE  CacheIInv'
  <1> USE AccountAssumption DEF CacheIInv, Begin, Go, fixed, shared
  <1>1. Typed'
    BY DEF Typed, PCs, Jobs
  <1>2. LockInv'
    BY LocksDiffer DEF Typed, PCs, Jobs, LockInv, PhaseInv, PhaseOf, BuildsOwn,
       InAccountFor, HoldsConfig, HoldsOf, Backend, Mailbox
  <1>3. PhaseInv'
    BY DEF Typed, PCs, Jobs, PhaseInv, PhaseOf, BuiltInv, ConfigInv, LockInv,
       HoldsOf, HoldsConfig, BuildsOwn, Backend, Mailbox, Protocol
  <1>4. GotInv'
    BY DEF Typed, Jobs, PhaseInv, PhaseOf, GotInv, BuiltInv, BuildsOwn, Backend,
       Mailbox, Protocol
  <1>5. BuiltInv' /\ ConfigInv'
    BY DEF Typed, Jobs, PhaseInv, PhaseOf, BuiltInv, ConfigInv, BuildsOwn, Backend,
       Mailbox, Protocol
  <1> QED
    BY <1>1, <1>2, <1>3, <1>4, <1>5

LEMMA LookUpStep ==
  ASSUME CacheIInv, NEW t \in Threads, LookUp(t)
  PROVE  CacheIInv'
  <1> USE AccountAssumption DEF CacheIInv, LookUp, Go, Return, Keeps, Free,
          fixed, shared
  <1>0. /\ job[t] \in Jobs /\ Backend(t) \in Backends
        /\ Mailbox(t) \in Mailboxes \cup {None} /\ Protocol(t) \in Protocols
        /\ got[t] = None
    BY DEF Typed, PhaseInv, PhaseOf, GotInv, Jobs, Backend, Mailbox, Protocol
  <1>6. Mailbox(t) \in ToSet(others[Backend(t)]) => account[Backend(t)] # None
    BY <1>0 DEF BuiltInv, ToSet
  <1>1. Typed'
    <2>1. CASE Mailbox(t) \in ToSet(others[Backend(t)])
      <3>1. DOMAIN others' = Backends
        BY <2>1 DEF Typed
      <3>2. /\ zone' = [zone EXCEPT ![t] = Backend(t)]
            /\ got' = [got EXCEPT ![t] = 0]
            /\ pc' = [pc EXCEPT ![t] = "idle"]
            /\ UNCHANGED <<fixed, account, built, patched, config, hooks, job,
                            making, owner>>
        BY <2>1, Zenon
      <3> HIDE DEF LookUp
      <3> QED
        BY <1>0, <3>1, <3>2 DEF Typed, PCs
    <2>2. CASE Mailbox(t) \notin ToSet(others[Backend(t)])
      <3>1. owner' \in [Locks -> Threads \cup {None}] /\ others' = others
        BY <2>2 DEF Typed
      <3>2. pc' \in [Threads -> PCs] /\ zone' = zone /\ got' = got
        BY <2>2 DEF Typed, PCs
      <3> QED
        BY <3>1, <3>2 DEF Typed
    <2> QED
      BY <2>1, <2>2
  <1>2. LockInv'
    <2> SUFFICES ASSUME NEW s \in Threads, NEW b \in Backends
                 PROVE  HoldsConfig(s)' /\ HoldsOf(s, b)'
      BY <1>0 DEF LockInv
    <2>2. HoldsConfig(s) /\ HoldsOf(s, b)
      BY DEF LockInv
    <2>3. CASE s = t
      BY <1>0, <2>2, <2>3, LocksDiffer
         DEF Typed, PCs, PhaseInv, PhaseOf, BuildsOwn, InAccountFor, HoldsConfig, HoldsOf,
             Backend, Mailbox
    <2>4. CASE s # t
      BY <1>0, <2>2, <2>4, LocksDiffer
         DEF Typed, PCs, BuildsOwn, InAccountFor, HoldsConfig, HoldsOf,
             Backend, Mailbox
    <2> QED
      BY <2>3, <2>4
  <1>3. PhaseInv'
    <2>1. making[t] = "own" /\ Mailbox(t) # None
      BY DEF Typed, PhaseInv, PhaseOf
    <2>2. CASE Mailbox(t) \in ToSet(others[Backend(t)])
      BY <1>0, <2>1, <2>2
         DEF Typed, PCs, PhaseInv, PhaseOf, BuildsOwn, Backend, Mailbox, Protocol
    <2>3. CASE Mailbox(t) \notin ToSet(others[Backend(t)])
      BY <1>0, <2>1, <2>3
         DEF Typed, PCs, PhaseInv, PhaseOf, BuildsOwn, Backend, Mailbox, Protocol
    <2> QED
      BY <2>2, <2>3
  <1>4. GotInv'
    BY <1>0, <1>6 DEF Typed, PhaseInv, PhaseOf, GotInv, BuiltInv, BuildsOwn, Backend,
       Mailbox, Protocol
  <1>5. BuiltInv' /\ ConfigInv'
    BY <1>0, <1>6 DEF Typed, PhaseInv, PhaseOf, BuiltInv, ConfigInv, BuildsOwn,
       Backend, Mailbox, Protocol
  <1> QED
    BY <1>1, <1>2, <1>3, <1>4, <1>5

LEMMA CheckStep ==
  ASSUME CacheIInv, NEW t \in Threads, Check(t)
  PROVE  CacheIInv'
  <1> USE AccountAssumption DEF CacheIInv, Check, Go, Return, Have, fixed,
          shared
  <1>0. /\ job[t] \in Jobs /\ Backend(t) \in Backends
        /\ Mailbox(t) \in Mailboxes \cup {None} /\ Protocol(t) \in Protocols
        /\ got[t] = None
    BY DEF Typed, PhaseInv, PhaseOf, GotInv, Jobs, Backend, Mailbox, Protocol
  <1>1. Typed'
    BY <1>0 DEF Typed, PCs
  <1>2. LockInv'
    <2> SUFFICES ASSUME NEW s \in Threads, NEW b \in Backends
                 PROVE  HoldsConfig(s)' /\ HoldsOf(s, b)'
      BY <1>0 DEF LockInv
    <2>2. HoldsConfig(s) /\ HoldsOf(s, b)
      BY DEF LockInv
    <2>3. CASE s = t
      BY <1>0, <2>2, <2>3, LocksDiffer
         DEF Typed, PCs, PhaseInv, PhaseOf, BuildsOwn, InAccountFor, HoldsConfig, HoldsOf,
             Backend, Mailbox
    <2>4. CASE s # t
      BY <1>0, <2>2, <2>4, LocksDiffer
         DEF Typed, PCs, BuildsOwn, InAccountFor, HoldsConfig, HoldsOf,
             Backend, Mailbox
    <2> QED
      BY <2>3, <2>4
  <1>3. PhaseInv'
    BY <1>0 DEF Typed, PCs, PhaseInv, PhaseOf, BuiltInv, ConfigInv, LockInv, HoldsOf,
       HoldsConfig, BuildsOwn, Backend, Mailbox, Protocol
  <1>4. GotInv'
    BY <1>0 DEF Typed, PhaseInv, PhaseOf, GotInv, BuiltInv, BuildsOwn, Backend,
       Mailbox, Protocol
  <1>5. BuiltInv' /\ ConfigInv'
    BY <1>0 DEF Typed, PhaseInv, PhaseOf, BuiltInv, ConfigInv, BuildsOwn, Backend,
       Mailbox, Protocol
  <1> QED
    BY <1>1, <1>2, <1>3, <1>4, <1>5

LEMMA LockStep ==
  ASSUME CacheIInv, NEW t \in Threads, Lock(t)
  PROVE  CacheIInv'
  <1> USE AccountAssumption DEF CacheIInv, Lock, Go, Return, Have, Keeps,
          Free, NeedsBuild, fixed, shared
  <1>0. /\ job[t] \in Jobs /\ Backend(t) \in Backends
        /\ Mailbox(t) \in Mailboxes \cup {None} /\ Protocol(t) \in Protocols
        /\ got[t] = None
    BY DEF Typed, PhaseInv, PhaseOf, GotInv, Jobs, Backend, Mailbox, Protocol
  <1>1. Typed'
    BY <1>0 DEF Typed, PCs
  <1>2. LockInv'
    <2> SUFFICES ASSUME NEW s \in Threads, NEW b \in Backends
                 PROVE  HoldsConfig(s)' /\ HoldsOf(s, b)'
      BY <1>0 DEF LockInv
    <2>2. HoldsConfig(s) /\ HoldsOf(s, b)
      BY DEF LockInv
    <2>3. CASE s = t
      BY <1>0, <2>2, <2>3, LocksDiffer
         DEF Typed, PCs, PhaseInv, PhaseOf, BuildsOwn, InAccountFor, HoldsConfig, HoldsOf,
             Backend, Mailbox
    <2>4. CASE s # t
      BY <1>0, <2>2, <2>4, LocksDiffer
         DEF Typed, PCs, BuildsOwn, InAccountFor, HoldsConfig, HoldsOf,
             Backend, Mailbox
    <2> QED
      BY <2>3, <2>4
  <1>3. PhaseInv'
    BY <1>0 DEF Typed, PCs, PhaseInv, PhaseOf, BuiltInv, ConfigInv, LockInv, HoldsOf,
       HoldsConfig, BuildsOwn, Backend, Mailbox, Protocol
  <1>4. GotInv'
    BY <1>0 DEF Typed, PhaseInv, PhaseOf, GotInv, BuiltInv, BuildsOwn, Backend,
       Mailbox, Protocol
  <1>5. BuiltInv' /\ ConfigInv'
    BY <1>0 DEF Typed, PhaseInv, PhaseOf, BuiltInv, ConfigInv, BuildsOwn, Backend,
       Mailbox, Protocol
  <1> QED
    BY <1>1, <1>2, <1>3, <1>4, <1>5

LEMMA TimezoneStep ==
  ASSUME CacheIInv, NEW t \in Threads, Timezone(t)
  PROVE  CacheIInv'
  <1> USE AccountAssumption DEF CacheIInv, Timezone, Go, fixed, shared
  <1>0. /\ job[t] \in Jobs /\ Backend(t) \in Backends
        /\ Mailbox(t) \in Mailboxes \cup {None} /\ Protocol(t) \in Protocols
        /\ got[t] = None
    BY DEF Typed, PhaseInv, PhaseOf, GotInv, Jobs, Backend, Mailbox, Protocol
  <1>1. Typed'
    BY <1>0 DEF Typed, PCs
  <1>2. LockInv'
    BY LocksDiffer DEF Typed, PCs, Jobs, LockInv, PhaseInv, PhaseOf, BuildsOwn,
       InAccountFor, HoldsConfig, HoldsOf, Backend, Mailbox
  <1>3. PhaseInv'
    BY <1>0 DEF Typed, PCs, PhaseInv, PhaseOf, BuiltInv, ConfigInv, LockInv, HoldsOf,
       HoldsConfig, BuildsOwn, Backend, Mailbox, Protocol
  <1>4. GotInv'
    BY <1>0 DEF Typed, PhaseInv, PhaseOf, GotInv, BuiltInv, BuildsOwn, Backend,
       Mailbox, Protocol
  <1>5. BuiltInv' /\ ConfigInv'
    BY <1>0 DEF Typed, PhaseInv, PhaseOf, BuiltInv, ConfigInv, BuildsOwn, Backend,
       Mailbox, Protocol
  <1> QED
    BY <1>1, <1>2, <1>3, <1>4, <1>5

LEMMA PatchZoneStep ==
  ASSUME CacheIInv, NEW t \in Threads, PatchZone(t)
  PROVE  CacheIInv'
  <1> USE AccountAssumption DEF CacheIInv, PatchZone, Go, Patched, fixed,
          shared
  <1>0. /\ job[t] \in Jobs /\ Backend(t) \in Backends
        /\ Mailbox(t) \in Mailboxes \cup {None} /\ Protocol(t) \in Protocols
        /\ got[t] = None
    BY DEF Typed, PhaseInv, PhaseOf, GotInv, Jobs, Backend, Mailbox, Protocol
  <1>1. Typed'
    BY <1>0 DEF Typed, PCs
  <1>2. LockInv'
    BY LocksDiffer DEF Typed, PCs, Jobs, LockInv, PhaseInv, PhaseOf, BuildsOwn,
       InAccountFor, HoldsConfig, HoldsOf, Backend, Mailbox
  <1>3. PhaseInv'
    BY <1>0 DEF Typed, PCs, PhaseInv, PhaseOf, BuiltInv, ConfigInv, LockInv, HoldsOf,
       HoldsConfig, BuildsOwn, Backend, Mailbox, Protocol
  <1>4. GotInv'
    BY <1>0 DEF Typed, PhaseInv, PhaseOf, GotInv, BuiltInv, BuildsOwn, Backend,
       Mailbox, Protocol
  <1>5. BuiltInv' /\ ConfigInv'
    BY <1>0 DEF Typed, PhaseInv, PhaseOf, BuiltInv, ConfigInv, BuildsOwn, Backend,
       Mailbox, Protocol
  <1> QED
    BY <1>1, <1>2, <1>3, <1>4, <1>5

LEMMA BuildStep ==
  ASSUME CacheIInv, NEW t \in Threads, Build(t)
  PROVE  CacheIInv'
  <1> USE AccountAssumption DEF CacheIInv, Build, Go, fixed, shared
  <1>0. /\ job[t] \in Jobs /\ Backend(t) \in Backends
        /\ Mailbox(t) \in Mailboxes \cup {None} /\ Protocol(t) \in Protocols
        /\ got[t] = None
    BY DEF Typed, PhaseInv, PhaseOf, GotInv, Jobs, Backend, Mailbox, Protocol
  <1>1. Typed'
    BY <1>0 DEF Typed, PCs
  <1>2. LockInv'
    BY LocksDiffer DEF Typed, PCs, Jobs, LockInv, PhaseInv, PhaseOf, BuildsOwn,
       InAccountFor, HoldsConfig, HoldsOf, Backend, Mailbox
  <1>3. PhaseInv'
    BY <1>0 DEF Typed, PCs, PhaseInv, PhaseOf, BuiltInv, ConfigInv, LockInv, HoldsOf,
       HoldsConfig, BuildsOwn, Backend, Mailbox, Protocol
  <1>4. GotInv'
    BY <1>0 DEF Typed, PhaseInv, PhaseOf, GotInv, BuiltInv, BuildsOwn, Backend,
       Mailbox, Protocol
  <1>5. BuiltInv' /\ ConfigInv'
    BY <1>0 DEF Typed, PhaseInv, PhaseOf, BuiltInv, ConfigInv, BuildsOwn, Backend,
       Mailbox, Protocol
  <1> QED
    BY <1>1, <1>2, <1>3, <1>4, <1>5

LEMMA BuildFailsStep ==
  ASSUME CacheIInv, NEW t \in Threads, BuildFails(t)
  PROVE  CacheIInv'
  <1> USE AccountAssumption DEF CacheIInv, BuildFails, Go, Raise, StillHeld,
          fixed, shared
  <1>0. /\ job[t] \in Jobs /\ Backend(t) \in Backends
        /\ Mailbox(t) \in Mailboxes \cup {None} /\ Protocol(t) \in Protocols
        /\ got[t] = None
    BY DEF Typed, PhaseInv, PhaseOf, GotInv, Jobs, Backend, Mailbox, Protocol
  <1>1. Typed'
    BY <1>0 DEF Typed, PCs
  <1>2. LockInv'
    BY LocksDiffer DEF Typed, PCs, Jobs, LockInv, PhaseInv, PhaseOf, BuildsOwn,
       InAccountFor, HoldsConfig, HoldsOf, Backend, Mailbox
  <1>3. PhaseInv'
    BY <1>0 DEF Typed, PCs, PhaseInv, PhaseOf, BuiltInv, ConfigInv, LockInv, HoldsOf,
       HoldsConfig, BuildsOwn, Backend, Mailbox, Protocol
  <1>4. GotInv'
    BY <1>0 DEF Typed, PhaseInv, PhaseOf, GotInv, BuiltInv, BuildsOwn, Backend,
       Mailbox, Protocol
  <1>5. BuiltInv' /\ ConfigInv'
    BY <1>0 DEF Typed, PhaseInv, PhaseOf, BuiltInv, ConfigInv, BuildsOwn, Backend,
       Mailbox, Protocol
  <1> QED
    BY <1>1, <1>2, <1>3, <1>4, <1>5

LEMMA ConfigureStep ==
  ASSUME CacheIInv, NEW t \in Threads, Configure(t)
  PROVE  CacheIInv'
  <1> USE AccountAssumption DEF CacheIInv, Configure, Go, Raise, StillHeld,
          Keeps, Free, ConfigLockFree, Conflicting, fixed, shared
  <1>0. /\ job[t] \in Jobs /\ Backend(t) \in Backends
        /\ Mailbox(t) \in Mailboxes \cup {None} /\ Protocol(t) \in Protocols
        /\ got[t] = None
    BY DEF Typed, PhaseInv, PhaseOf, GotInv, Jobs, Backend, Mailbox, Protocol
  <1>1. Typed'
    BY <1>0 DEF Typed, PCs
  <1>2. LockInv'
    <2> SUFFICES ASSUME NEW s \in Threads, NEW b \in Backends
                 PROVE  HoldsConfig(s)' /\ HoldsOf(s, b)'
      BY <1>0 DEF LockInv
    <2>2. HoldsConfig(s) /\ HoldsOf(s, b)
      BY DEF LockInv
    <2>3. CASE s = t
      BY <1>0, <2>2, <2>3, LocksDiffer
         DEF Typed, PCs, PhaseInv, PhaseOf, BuildsOwn, InAccountFor, HoldsConfig, HoldsOf,
             Backend, Mailbox
    <2>4. CASE s # t
      BY <1>0, <2>2, <2>4, LocksDiffer
         DEF Typed, PCs, BuildsOwn, InAccountFor, HoldsConfig, HoldsOf,
             Backend, Mailbox
    <2> QED
      BY <2>3, <2>4
  <1>3. PhaseInv'
    BY <1>0 DEF Typed, PCs, PhaseInv, PhaseOf, BuiltInv, ConfigInv, LockInv, HoldsOf,
       HoldsConfig, BuildsOwn, Backend, Mailbox, Protocol
  <1>4. GotInv'
    BY <1>0 DEF Typed, PhaseInv, PhaseOf, GotInv, BuiltInv, BuildsOwn, Backend,
       Mailbox, Protocol
  <1>5. BuiltInv' /\ ConfigInv'
    BY <1>0 DEF Typed, PhaseInv, PhaseOf, BuiltInv, ConfigInv, BuildsOwn, Backend,
       Mailbox, Protocol
  <1> QED
    BY <1>1, <1>2, <1>3, <1>4, <1>5

LEMMA PatchStep ==
  ASSUME CacheIInv, NEW t \in Threads, Patch(t)
  PROVE  CacheIInv'
  <1> USE AccountAssumption DEF CacheIInv, Patch, Go, Releases, fixed, shared
  <1>0. /\ job[t] \in Jobs /\ Backend(t) \in Backends
        /\ Mailbox(t) \in Mailboxes \cup {None} /\ Protocol(t) \in Protocols
        /\ got[t] = None
    BY DEF Typed, PhaseInv, PhaseOf, GotInv, Jobs, Backend, Mailbox, Protocol
  <1>1. Typed'
    <2>1. hooks' \in [Protocols -> Nat] /\ config' \in [Protocols -> Settings \cup {None}]
      BY <1>0 DEF Typed
    <2>2. owner' \in [Locks -> Threads \cup {None}] /\ pc' \in [Threads -> PCs]
      BY DEF Typed, PCs
    <2> QED
      BY <2>1, <2>2 DEF Typed
  <1>2. LockInv'
    BY LocksDiffer DEF Typed, PCs, Jobs, LockInv, PhaseInv, PhaseOf, BuildsOwn,
       InAccountFor, HoldsConfig, HoldsOf, Backend, Mailbox
  <1>3. PhaseInv'
    <2> SUFFICES ASSUME NEW s \in Threads PROVE PhaseOf(s)'
      BY DEF PhaseInv
    <2>1. PhaseOf(s) /\ PhaseOf(t)
      BY DEF PhaseInv
    <2>2. CASE s = t
      BY <1>0, <2>1, <2>2
         DEF Typed, PhaseOf, BuiltInv, BuildsOwn, Backend, Mailbox, Protocol
    <2>3. CASE s # t
      <3>1. pc[s] # "patch"
        BY <2>3 DEF LockInv, HoldsConfig
      <3>2. /\ pc'[s] = pc[s] /\ making'[s] = making[s] /\ job' = job
            /\ Protocol(t) \in Protocols /\ pc[t] = "patch"
        BY <1>0, <2>3 DEF Typed
      <3>3. config[Protocol(t)] = None
        BY <2>1, <3>2 DEF PhaseOf
      <3>4. pc[s] = "store" => config[Protocol(s)] = settings[Backend(s)]
        BY <2>1 DEF PhaseOf
      <3>5. pc[s] = "store" => config'[Protocol(s)] = settings[Backend(s)]
        <4> SUFFICES ASSUME pc[s] = "store"
                     PROVE  config'[Protocol(s)] = settings[Backend(s)]
          OBVIOUS
        <4>1. Backend(s) \in Backends /\ Protocol(s) \in Protocols
          BY <2>1 DEF Typed, PhaseOf, Jobs, Backend, Protocol
        <4>2. Protocol(s) # Protocol(t)
          BY <3>3, <3>4, <4>1 DEF Typed
        <4> QED
          BY <3>4, <4>1, <4>2 DEF Typed
      <3> QED
        BY <1>0, <2>1, <2>3, <3>1, <3>2, <3>5
           DEF Typed, PhaseOf, BuildsOwn, Backend, Mailbox, Protocol
    <2> QED
      BY <2>2, <2>3
  <1>4. GotInv'
    BY <1>0 DEF Typed, PhaseInv, PhaseOf, GotInv, BuiltInv, BuildsOwn, Backend,
       Mailbox, Protocol
  <1>5. BuiltInv' /\ ConfigInv'
    BY <1>0 DEF Typed, PhaseInv, PhaseOf, BuiltInv, ConfigInv, BuildsOwn, Backend,
       Mailbox, Protocol
  <1> QED
    BY <1>1, <1>2, <1>3, <1>4, <1>5

LEMMA StoreOwnStep ==
  ASSUME CacheIInv, NEW t \in Threads, StoreOwn(t)
  PROVE  CacheIInv'
  <1> USE AccountAssumption DEF CacheIInv, StoreOwn, Go, Return, Have,
          Releases, fixed, shared
  <1>0. /\ job[t] \in Jobs /\ Backend(t) \in Backends
        /\ Mailbox(t) \in Mailboxes \cup {None} /\ Protocol(t) \in Protocols
        /\ got[t] = None
    BY DEF Typed, PhaseInv, PhaseOf, GotInv, Jobs, Backend, Mailbox, Protocol
  <1>6. built[Backend(t)] = 0 /\ account[Backend(t)] = None /\ patched = 1
        /\ config[Protocol(t)] = settings[Backend(t)]
    BY <1>0 DEF BuiltInv, PhaseInv, PhaseOf, BuildsOwn
  <1>1. Typed'
    <2>1. built' \in [Backends -> Nat] /\ account' \in [Backends -> Nat \cup {None}]
      BY <1>0, <1>6 DEF Typed
    <2>2. owner' \in [Locks -> Threads \cup {None}] /\ pc' \in [Threads -> PCs]
      BY DEF Typed, PCs
    <2>3. /\ zone' \in [Threads -> Backends \cup {None}]
          /\ got' \in [Threads -> Nat \cup {None}]
          /\ making' \in [Threads -> {"own", "other"}]
      BY <1>0, <1>6 DEF Typed
    <2> QED
      BY <2>1, <2>2, <2>3 DEF Typed
  <1>2. LockInv'
    <2> SUFFICES ASSUME NEW s \in Threads, NEW b \in Backends
                 PROVE  HoldsConfig(s)' /\ HoldsOf(s, b)'
      BY <1>0 DEF LockInv
    <2>2. HoldsConfig(s) /\ HoldsOf(s, b)
      BY DEF LockInv
    <2>3. CASE s = t
      BY <1>0, <2>2, <2>3, LocksDiffer
         DEF Typed, PCs, PhaseInv, PhaseOf, BuildsOwn, InAccountFor, HoldsConfig, HoldsOf,
             Backend, Mailbox
    <2>4. CASE s # t
      <3>1. owner' = [owner EXCEPT ![AccountLock(Backend(t))] = None]
        OBVIOUS
      <3>2. owner[AccountLock(Backend(t))] = t
        BY <1>0 DEF LockInv, HoldsOf, BuildsOwn
      <3>3. pc'[s] = pc[s] /\ making'[s] = making[s] /\ job' = job
        BY <2>4 DEF Typed
      <3> QED
        BY <1>0, <2>2, <2>4, <3>1, <3>2, <3>3, LocksDiffer
           DEF Typed, BuildsOwn, InAccountFor, HoldsConfig, HoldsOf, Backend, Mailbox
    <2> QED
      BY <2>3, <2>4
  <1>3. PhaseInv'
    BY <1>0, <1>6 DEF Typed, PCs, PhaseInv, PhaseOf, BuiltInv, ConfigInv, LockInv,
       HoldsOf, HoldsConfig, BuildsOwn, Backend, Mailbox, Protocol
  <1>4. GotInv'
    BY <1>0, <1>6 DEF Typed, PhaseInv, PhaseOf, GotInv, BuiltInv, BuildsOwn, Backend,
       Mailbox, Protocol
  <1>5. BuiltInv' /\ ConfigInv'
    <2>1. built' = [built EXCEPT ![Backend(t)] = 1]
          /\ account' = [account EXCEPT ![Backend(t)] = 1]
      BY <1>0, <1>6 DEF Typed
    <2>2. ConfigInv'
      BY DEF ConfigInv
    <2>3. BuiltInv'
      BY <1>0, <1>6, <2>1 DEF Typed, BuiltInv, Protocol
    <2> QED
      BY <2>2, <2>3
  <1> QED
    BY <1>1, <1>2, <1>3, <1>4, <1>5

LEMMA StoreOtherStep ==
  ASSUME CacheIInv, NEW t \in Threads, StoreOther(t)
  PROVE  CacheIInv'
  <1> USE AccountAssumption DEF CacheIInv, StoreOther, Go, Return, Releases,
          fixed, shared
  <1>0. /\ job[t] \in Jobs /\ Backend(t) \in Backends
        /\ Mailbox(t) \in Mailboxes \cup {None} /\ Protocol(t) \in Protocols
        /\ got[t] = None
    BY DEF Typed, PhaseInv, PhaseOf, GotInv, Jobs, Backend, Mailbox, Protocol
  <1>1. Typed'
    BY <1>0 DEF Typed, PCs
  <1>2. LockInv'
    BY LocksDiffer DEF Typed, PCs, Jobs, LockInv, PhaseInv, PhaseOf, BuildsOwn,
       InAccountFor, HoldsConfig, HoldsOf, Backend, Mailbox
  <1>3. PhaseInv'
    BY <1>0 DEF Typed, PCs, PhaseInv, PhaseOf, BuiltInv, ConfigInv, LockInv, HoldsOf,
       HoldsConfig, BuildsOwn, Backend, Mailbox, Protocol
  <1>4. GotInv'
    BY <1>0 DEF Typed, PhaseInv, PhaseOf, GotInv, BuiltInv, BuildsOwn, Backend,
       Mailbox, Protocol
  <1>5. BuiltInv' /\ ConfigInv'
    BY <1>0 DEF Typed, PhaseInv, PhaseOf, BuiltInv, ConfigInv, BuildsOwn, Backend,
       Mailbox, Protocol
  <1> QED
    BY <1>1, <1>2, <1>3, <1>4, <1>5

\* The inductive invariant holds of every reachable state.
THEOREM CacheInvariant == Spec => []CacheIInv
  <1>1. CacheIInv /\ [Next]_vars => CacheIInv'
    <2> SUFFICES ASSUME CacheIInv, [Next]_vars PROVE CacheIInv'
      OBVIOUS
    <2>1. ASSUME NEW t \in Threads, Step(t) PROVE CacheIInv'
      BY <2>1, LookUpStep, CheckStep, LockStep, TimezoneStep, PatchZoneStep,
         BuildStep, BuildFailsStep, ConfigureStep, PatchStep, StoreOwnStep,
         StoreOtherStep DEF Step
    <2>2. ASSUME NEW t \in Threads, NEW j \in Jobs, Begin(t, j) PROVE CacheIInv'
      BY <2>2, BeginStep
    <2>3. ASSUME UNCHANGED vars PROVE CacheIInv'
      BY <2>3 DEF vars, fixed, shared, CacheIInv, Typed, LockInv, HoldsOf,
         HoldsConfig, BuildsOwn, InAccountFor, PhaseInv, PhaseOf, GotInv, BuiltInv,
         ConfigInv, Backend, Mailbox, Protocol
    <2> QED
      BY <2>1, <2>2, <2>3 DEF Next
  <1> QED
    BY <1>1, CacheStart, PTL DEF Spec

\* A burst of calls builds a backend's own account once, and every caller that
\* asked for it gets that one.
THEOREM CacheOneAccount == Spec => []OneAccount
  <1>1. CacheIInv => OneAccount
    <2> SUFFICES ASSUME CacheIInv PROVE OneAccount
      OBVIOUS
    <2>1. ASSUME NEW b \in Backends PROVE built[b] <= 1
      BY DEF CacheIInv, BuiltInv
    <2>2. ASSUME NEW t \in Threads, got[t] \notin {None, 0}
          PROVE  got[t] = account[Backend(t)]
      BY <2>2 DEF CacheIInv, GotInv
    <2> QED
      BY <2>1, <2>2 DEF OneAccount
  <1> QED
    BY <1>1, CacheInvariant, PTL

\* Whoever has an account has it on a protocol configured once, by its own
\* backend's settings, with the time zone patch in place once.
THEOREM CacheSettingsStick == Spec => []SettingsStick
  <1>1. CacheIInv => SettingsStick
    <2> SUFFICES ASSUME CacheIInv PROVE SettingsStick
      OBVIOUS
    <2>1. patched <= 1 /\ \A p \in Protocols : hooks[p] <= 1
      BY DEF CacheIInv, ConfigInv
    <2>2. ASSUME NEW t \in Threads, got[t] # None
          PROVE  /\ config[Protocol(t)] = settings[Backend(t)]
                 /\ hooks[Protocol(t)] = 1
                 /\ patched = 1
                 /\ zone[t] = Backend(t)
      <3>1. /\ job[t] \in Jobs /\ account[Backend(t)] # None
            /\ zone[t] = Backend(t)
        BY <2>2 DEF CacheIInv, GotInv
      <3>2. /\ Backend(t) \in Backends /\ Protocol(t) \in Protocols
            /\ settings[Backend(t)] # None
        BY <3>1, AccountAssumption DEF CacheIInv, Typed, Jobs, Backend, Protocol
      <3>3. config[Protocol(t)] = settings[Backend(t)] /\ patched = 1
        BY <3>1, <3>2 DEF CacheIInv, BuiltInv, Protocol
      <3> QED
        BY <3>1, <3>2, <3>3 DEF CacheIInv, ConfigInv
    <2> QED
      BY <2>1, <2>2 DEF SettingsStick
  <1> QED
    BY <1>1, CacheInvariant, PTL

\* The locks are taken in one order: a mailbox's, the backend's own account's,
\* the configuration's.  Whoever holds the last one needs no other, so the
\* next one's holder is not kept from it, and so on outwards.
LEMMA SomeCallGoesOn == CacheIInv => SomeoneGoesOn
  <1> DEFINE CanGo(t) == pc[t] # "idle" /\ \A l \in Wanted(t) : Free(l)
  <1> SUFFICES ASSUME CacheIInv PROVE SomeoneGoesOn
    OBVIOUS
  <1>1. ASSUME NEW t \in Threads, pc[t] = "idle", NEW l \in Locks
        PROVE  owner[l] # t
    <2>1. CASE l = ConfigLock
      BY <1>1, <2>1 DEF CacheIInv, LockInv, HoldsConfig
    <2>2. CASE \E b \in Backends : l = AccountLock(b) \/ l = OtherLock(b)
      BY <1>1, <2>2
         DEF CacheIInv, LockInv, HoldsOf, BuildsOwn, InAccountFor
    <2> QED
      BY <2>1, <2>2, EveryLock
  <1>2. ASSUME NEW t \in Threads, pc[t] # "idle"
        PROVE  \E s \in Threads : CanGo(s)
    <2>0. \A s \in Threads : pc[s] # "idle" => Backend(s) \in Backends
      BY DEF CacheIInv, PhaseInv, PhaseOf, Jobs, Backend
    <2>1. CASE \E s \in Threads : pc[s] \notin {"idle", "outer", "lock", "configure"}
      BY <2>1 DEF Wanted
    <2>2. CASE /\ \A s \in Threads : pc[s] \in {"idle", "outer", "lock", "configure"}
               /\ \E s \in Threads : pc[s] = "configure"
      <3>1. PICK s \in Threads : pc[s] = "configure"
        BY <2>2
      <3>2. owner[ConfigLock] \notin Threads
        BY <2>2 DEF CacheIInv, LockInv, HoldsConfig
      <3>3. Free(ConfigLock)
        BY <3>2, LocksDiffer DEF CacheIInv, Typed, Free
      <3> QED
        BY <3>1, <3>3 DEF Wanted
    <2>3. CASE /\ \A s \in Threads : pc[s] \in {"idle", "outer", "lock"}
               /\ \E s \in Threads : pc[s] = "lock"
      <3>1. PICK s \in Threads : pc[s] = "lock"
        BY <2>3
      <3>2. Backend(s) \in Backends
        BY <2>0, <3>1
      <3>3. owner[AccountLock(Backend(s))] \notin Threads
        BY <2>3, <3>2 DEF CacheIInv, LockInv, HoldsOf, BuildsOwn
      <3>4. Free(AccountLock(Backend(s)))
        BY <3>2, <3>3, LocksDiffer DEF CacheIInv, Typed, Free
      <3> QED
        BY <3>1, <3>4 DEF Wanted
    <2>4. CASE \A s \in Threads : pc[s] \in {"idle", "outer"}
      <3>1. pc[t] = "outer" /\ Backend(t) \in Backends
        BY <1>2, <2>0, <2>4
      <3>2. owner[OtherLock(Backend(t))] \notin Threads
        BY <2>4, <3>1 DEF CacheIInv, LockInv, HoldsOf, InAccountFor
      <3>3. Free(OtherLock(Backend(t)))
        BY <3>1, <3>2, LocksDiffer DEF CacheIInv, Typed, Free
      <3> QED
        BY <3>1, <3>3 DEF Wanted
    <2> QED
      BY <2>1, <2>2, <2>3, <2>4
  <1> QED
    BY <1>1, <1>2 DEF SomeoneGoesOn

\* Never do all the calls under way wait on each other, and no lock is held by a
\* thread that has left.
THEOREM CacheSomeoneGoesOn == Spec => []SomeoneGoesOn
  BY SomeCallGoesOn, CacheInvariant, PTL

-----------------------------------------------------------------------------
\* Types, the bound of the cache among them.

LEMMA JobFields ==
  ASSUME CacheIInv, NEW t \in Threads, pc[t] # "idle"
  PROVE  /\ job[t] \in Jobs /\ Backend(t) \in Backends
         /\ Mailbox(t) \in Mailboxes \cup {None} /\ None \notin Mailboxes
  BY AccountAssumption DEF CacheIInv, PhaseInv, PhaseOf, Jobs, Backend, Mailbox

\* A cache that stays as it is stays right, if nobody begins to build.
LEMMA CacheUntouched ==
  ASSUME CachedInv, others' = others, job' = job,
         \A t \in Threads : InAccountFor(t)' => InAccountFor(t)
  PROVE  CachedInv'
<1>1. \A b \in Backends : CachedOf(b)'
  BY DEF CachedInv, CachedOf
<1>2. ASSUME NEW t \in Threads, InAccountFor(t)'
      PROVE  NotCached(t)'
  <2>1. NotCached(t)
    BY <1>2 DEF CachedInv
  <2> QED
    BY <2>1 DEF NotCached, Backend, Mailbox
<1> QED
  BY <1>1, <1>2 DEF CachedInv

\* While a thread is in _account_for's lock no other one is in that backend's.
LEMMA OneInAccountFor ==
  ASSUME CacheIInv, NEW t \in Threads, NEW u \in Threads, InAccountFor(t), InAccountFor(u),
         Backend(t) = Backend(u)
  PROVE  t = u
<1>1. Backend(t) \in Backends
  BY JobFields DEF InAccountFor
<1>2. owner[OtherLock(Backend(t))] = t /\ owner[OtherLock(Backend(t))] = u
  BY <1>1 DEF CacheIInv, LockInv, HoldsOf
<1> QED
  BY <1>2

LEMMA LookUpCached ==
  ASSUME CacheIInv, CachedInv, NEW t \in Threads, LookUp(t)
  PROVE  CachedInv'
<1> DEFINE b == Backend(t)
           m == Mailbox(t)
<1>1. /\ pc[t] = "outer" /\ owner[OtherLock(b)] = None /\ job' = job
      /\ b \in Backends /\ m \in Mailboxes /\ DOMAIN others = Backends
  <2>1. pc[t] = "outer" /\ owner[OtherLock(b)] = None /\ job' = job
    BY DEF LookUp, Free
  <2>2. m # None
    BY <2>1 DEF CacheIInv, PhaseInv, PhaseOf
  <2> QED
    BY <2>1, <2>2, JobFields DEF CacheIInv, Typed
<1>2. CASE m \in ToSet(others[b])
  <2> DEFINE q == others[b]
             r == RemoveFirst(q, m)
  <2>1. /\ others' = [others EXCEPT ![b] = Append(r, m)]
        /\ pc' = [pc EXCEPT ![t] = "idle"]
    BY <1>2 DEF LookUp, Return, Go
  <2>2. q \in Seq(Mailboxes) /\ IsInjective(q) /\ Len(q) <= MaxOthers /\ Len(q) \in Nat
    BY <1>1 DEF CachedInv, CachedOf
  <2>3. PICK k \in 1..Len(q) : q[k] = m
    BY <1>2, <2>2 DEF ToSet
  <2>4. /\ r \in Seq(Mailboxes) /\ IsInjective(r) /\ \A i \in 1..Len(r) : r[i] # m
        /\ \A i \in 1..Len(r) : \E j \in 1..Len(q) : r[i] = q[j]
    BY <2>2, RemoveFirstProperties
  <2>5. Len(r) = Len(q) - 1
    BY <2>2, <2>3, RemoveFirstShifts
  <2> HIDE DEF r, q
  <2>6. /\ Append(r, m) \in Seq(Mailboxes) /\ IsInjective(Append(r, m))
        /\ Len(Append(r, m)) = Len(r) + 1
        /\ \A i \in 1..Len(Append(r, m)) :
             \/ i \in 1..Len(r) /\ Append(r, m)[i] = r[i]
             \/ i = Len(Append(r, m)) /\ Append(r, m)[i] = m
    BY <1>1, <2>4, AppendInjectiveQueue
  <2>7. Len(Append(r, m)) <= MaxOthers
    BY <2>2, <2>5, <2>6
  <2>8. others'[b] = Append(r, m) /\ \A c \in Backends : c # b => others'[c] = others[c]
    BY <1>1, <2>1
  <2>9. \A c \in Backends : CachedOf(c)'
    BY <2>6, <2>7, <2>8 DEF CachedInv, CachedOf
  <2>10. ASSUME NEW u \in Threads, InAccountFor(u)'
         PROVE  NotCached(u)'
    <3>1. u # t /\ InAccountFor(u) /\ pc \in [Threads -> PCs]
      BY <1>1, <2>1, <2>10 DEF InAccountFor, Mailbox, CacheIInv, Typed
    <3>2. Backend(u) \in Backends /\ NotCached(u) /\ owner[OtherLock(Backend(u))] = u
      BY <3>1, JobFields DEF InAccountFor, CachedInv, CacheIInv, LockInv, HoldsOf
    <3>3. Backend(u) # b
      BY <1>1, <3>2, AccountAssumption
    <3> QED
      BY <1>1, <2>8, <3>2, <3>3 DEF NotCached, Backend, Mailbox
  <2> QED
    BY <2>9, <2>10 DEF CachedInv
<1>3. CASE m \notin ToSet(others[b])
  <2>1. /\ others' = others /\ pc' = [pc EXCEPT ![t] = "check"]
    BY <1>3 DEF LookUp, Go
  <2>2. \A c \in Backends : CachedOf(c)'
    BY <2>1 DEF CachedInv, CachedOf
  <2>3. ASSUME NEW u \in Threads, InAccountFor(u)'
        PROVE  NotCached(u)'
    <3>1. CASE u = t
      <4>1. \A i \in 1..Len(others[b]) : others[b][i] # m
        BY <1>1, <1>3 DEF CachedInv, CachedOf, ToSet
      <4> QED
        BY <1>1, <2>1, <3>1, <4>1 DEF NotCached, Backend, Mailbox
    <3>2. CASE u # t
      <4>1. InAccountFor(u)
        BY <1>1, <2>1, <2>3, <3>2 DEF InAccountFor, Mailbox
      <4> QED
        BY <1>1, <2>1, <4>1 DEF CachedInv, NotCached, Backend, Mailbox
    <3> QED
      BY <3>1, <3>2
  <2> QED
    BY <2>2, <2>3 DEF CachedInv
<1> QED
  BY <1>2, <1>3

LEMMA StoreOtherCached ==
  ASSUME CacheIInv, CachedInv, NEW t \in Threads, StoreOther(t)
  PROVE  CachedInv'
<1> DEFINE b == Backend(t)
           m == Mailbox(t)
           q == others[b]
           a == Append(q, m)
<1>1. /\ pc[t] = "store" /\ making[t] = "other" /\ job' = job
      /\ pc' = [pc EXCEPT ![t] = "idle"]
      /\ others' = [others EXCEPT ![b] = Kept(a)]
  BY DEF StoreOther, Return, Go
<1>2. /\ b \in Backends /\ m \in Mailboxes /\ DOMAIN others = Backends
      /\ InAccountFor(t) /\ pc \in [Threads -> PCs] /\ MaxOthers \in Nat \ {0}
  BY <1>1, JobFields, AccountAssumption
     DEF CacheIInv, PhaseInv, PhaseOf, Typed, InAccountFor
<1>3. /\ q \in Seq(Mailboxes) /\ IsInjective(q) /\ Len(q) <= MaxOthers /\ Len(q) \in Nat
      /\ \A i \in 1..Len(q) : q[i] # m
  BY <1>2 DEF CachedInv, CachedOf, NotCached
<1> HIDE DEF q
<1>4. a \in Seq(Mailboxes) /\ IsInjective(a) /\ Len(a) = Len(q) + 1
  BY <1>2, <1>3, AppendInjectiveQueue
<1> HIDE DEF a
<1>5. /\ Kept(a) \in Seq(Mailboxes) /\ IsInjective(Kept(a)) /\ Len(Kept(a)) <= MaxOthers
  <2>1. CASE Len(a) > MaxOthers
    <3>1. a # <<>>
      BY <1>3, <1>4
    <3>2. Tail(a) \in Seq(Mailboxes) /\ IsInjective(Tail(a)) /\ Len(Tail(a)) = Len(a) - 1
      BY <1>4, <3>1, HeadTailInjective
    <3> QED
      BY <1>2, <1>3, <1>4, <2>1, <3>2 DEF Kept
  <2>2. CASE ~(Len(a) > MaxOthers)
    BY <1>2, <1>3, <1>4, <2>2 DEF Kept
  <2> QED
    BY <2>1, <2>2
<1>6. others'[b] = Kept(a) /\ \A c \in Backends : c # b => others'[c] = others[c]
  BY <1>1, <1>2
<1>7. \A c \in Backends : CachedOf(c)'
  BY <1>5, <1>6 DEF CachedInv, CachedOf
<1>8. ASSUME NEW u \in Threads, InAccountFor(u)'
      PROVE  NotCached(u)'
  <2>1. u # t /\ InAccountFor(u)
    BY <1>1, <1>2, <1>8 DEF InAccountFor, Mailbox
  <2>2. Backend(u) \in Backends /\ NotCached(u) /\ Backend(u) # b
    BY <1>2, <2>1, JobFields, OneInAccountFor DEF InAccountFor, CachedInv
  <2> QED
    BY <1>1, <1>6, <2>2 DEF NotCached, Backend, Mailbox
<1> QED
  BY <1>7, <1>8 DEF CachedInv

LEMMA GoesOnInside ==
  ASSUME CacheIInv, CachedInv, NEW t \in Threads, NEW place, Go(t, place),
         pc[t] \notin {"idle", "outer"}, job' = job, others' = others
  PROVE  CachedInv'
<1>1. ASSUME NEW u \in Threads, InAccountFor(u)'
      PROVE  InAccountFor(u)
  BY <1>1 DEF InAccountFor, Go, Mailbox, CacheIInv, Typed
<1> QED
  BY <1>1, CacheUntouched

LEMMA BeginCached ==
  ASSUME CacheIInv, CachedInv, NEW t \in Threads, NEW j \in Jobs, Begin(t, j)
  PROVE  CachedInv'
<1>1. /\ others' = others /\ job' = [job EXCEPT ![t] = j]
      /\ pc' = [pc EXCEPT ![t] = IF j.mailbox = None THEN "check" ELSE "outer"]
      /\ pc \in [Threads -> PCs] /\ job \in [Threads -> Jobs \cup {None}]
  BY DEF Begin, shared, Go, CacheIInv, Typed
<1>2. \A b \in Backends : CachedOf(b)'
  BY <1>1 DEF CachedInv, CachedOf
<1>3. ASSUME NEW u \in Threads, InAccountFor(u)'
      PROVE  NotCached(u)'
  <2>1. u # t
    BY <1>1, <1>3 DEF InAccountFor, Mailbox
  <2>2. job'[u] = job[u] /\ InAccountFor(u)
    BY <1>1, <1>3, <2>1 DEF InAccountFor, Mailbox
  <2> QED
    BY <1>1, <2>2 DEF CachedInv, NotCached, Backend, Mailbox
<1> QED
  BY <1>2, <1>3 DEF CachedInv

LEMMA CachedStep ==
  ASSUME CacheIInv, CachedInv, [Next]_vars
  PROVE  CachedInv'
<1>1. ASSUME NEW t \in Threads, Step(t)
      PROVE  CachedInv'
  <2>1. CASE LookUp(t)
    BY <2>1, LookUpCached
  <2>2. CASE StoreOther(t)
    BY <2>2, StoreOtherCached
  <2>3. CASE Check(t)
    <3>1. /\ pc[t] = "check" /\ job' = job /\ others' = others
          /\ \E place : Go(t, place)
      BY <2>3 DEF Check, Have, Return, shared
    <3> QED
      BY <3>1, GoesOnInside
  <2>4. CASE Lock(t)
    <3>1. /\ pc[t] = "lock" /\ job' = job /\ others' = others
          /\ \E place : Go(t, place)
      BY <2>4 DEF Lock, Have, Return, shared
    <3> QED
      BY <3>1, GoesOnInside
  <2>5. CASE Timezone(t) \/ PatchZone(t) \/ Build(t)
    <3>1. /\ pc[t] \in {"timezone", "patch_zone", "build"} /\ job' = job /\ others' = others
          /\ \E place : Go(t, place)
      BY <2>5 DEF Timezone, PatchZone, Build, shared
    <3> QED
      BY <3>1, GoesOnInside
  <2>6. CASE BuildFails(t) \/ Configure(t)
    <3>1. /\ pc[t] \in {"timezone", "build", "configure"} /\ job' = job /\ others' = others
          /\ \E place : Go(t, place)
      BY <2>6 DEF BuildFails, Configure, Raise, shared
    <3> QED
      BY <3>1, GoesOnInside
  <2>7. CASE Patch(t)
    <3>1. /\ pc[t] = "patch" /\ job' = job /\ others' = others
          /\ Go(t, "store")
      BY <2>7 DEF Patch
    <3> QED
      BY <3>1, GoesOnInside
  <2>8. CASE StoreOwn(t)
    <3>1. /\ pc[t] = "store" /\ job' = job /\ others' = others
          /\ \E place : Go(t, place)
      BY <2>8 DEF StoreOwn, Have, Return
    <3> QED
      BY <3>1, GoesOnInside
  <2> QED
    BY <1>1, <2>1, <2>2, <2>3, <2>4, <2>5, <2>6, <2>7, <2>8 DEF Step
<1>2. ASSUME NEW t \in Threads, NEW j \in Jobs, Begin(t, j)
      PROVE  CachedInv'
  BY <1>2, BeginCached
<1>3. ASSUME UNCHANGED vars
      PROVE  CachedInv'
  <2>1. others' = others /\ job' = job /\ pc' = pc
    BY <1>3 DEF vars, shared
  <2> QED
    BY <2>1, CacheUntouched DEF InAccountFor, Mailbox
<1> QED
  BY <1>1, <1>2, <1>3 DEF Next

\* Types; and the cache of other mailboxes' accounts holds each of them once, and
\* never more than its bound.
THEOREM CacheTypes == Spec => []TypeOK
<1>1. Init => CachedInv
  <2> SUFFICES ASSUME Init PROVE CachedInv
    OBVIOUS
  <2>1. /\ \A b \in Backends : others[b] = <<>>
        /\ \A t \in Threads : ~InAccountFor(t)
    BY DEF Init, InAccountFor
  <2>2. <<>> \in Seq(Mailboxes) /\ IsInjective(<<>>) /\ Len(<<>>) <= MaxOthers
    BY AccountAssumption DEF IsInjective
  <2> QED
    BY <2>1, <2>2 DEF CachedInv, CachedOf
<1>2. CacheIInv /\ CachedInv /\ [Next]_vars => CachedInv'
  BY CachedStep
<1>3. CacheIInv /\ CachedInv => TypeOK
  BY DEF CacheIInv, Typed, CachedInv, CachedOf, TypeOK
<1> QED
  BY <1>1, <1>2, <1>3, CacheInvariant, PTL DEF Spec
=============================================================================
