---------------------------- MODULE AccountCache ----------------------------
(***************************************************************************)
(* BaseEWSBackend.account, _account_for and what they build                *)
(* (exchange_client/base.py), called by the gateway's worker threads: two  *)
(* locks of each backend, the process-wide locks around the time zone      *)
(* patch and the protocol's configuration, and the bounded cache of other  *)
(* mailboxes' accounts.                                                    *)
(*                                                                         *)
(* An action is what a thread does up to the next point where another      *)
(* thread can tell the difference: taking a lock, or reading without one.  *)
(*                                                                         *)
(* External: exchangelib keeps one Protocol per endpoint and credentials,  *)
(* which backends may share; building an Account may fail.                 *)
(***************************************************************************)
EXTENDS Naturals, Sequences, SequencesExt, FiniteSets

CONSTANTS Threads,       \* worker threads
          Backends,      \* EWSExchangeBackend objects of the process
          Protocols,     \* exchangelib's cached Protocol objects
          Settings,      \* values of the settings a protocol is configured by
          Mailboxes,     \* other mailboxes, by casefolded address
          MaxOthers,     \* 32: the bound of the cache of other accounts
          None

ASSUME AccountAssumption ==
  /\ MaxOthers \in Nat \ {0}
  /\ None \notin Threads \cup Backends \cup Protocols \cup Settings \cup Mailboxes
  /\ None \notin Nat

VARIABLES
  protocolOf, \* the protocol of each backend's endpoint and credentials
  settings,   \* each backend's settings
  owner,      \* the thread that holds a lock, or None
  account,    \* _account: None, or which of the accounts built it is
  built,      \* how many accounts a backend has built for itself
  others,     \* _other_accounts: its keys, the least recently used first
  patched,    \* how often from_ms_id was wrapped; _TIMEZONE_FALLBACK_PATCHED is # 0
  config,     \* each protocol's _outlook_mcp_config
  hooks,      \* how often its raw_session was wrapped
  pc,         \* where each thread is
  job,        \* the backend it uses and the other mailbox, or None, it wants
  making,     \* whether it builds the "own" account or an "other"
  got,        \* what it got: an account, 0 for another mailbox's, None if it raised
  zone        \* _active_timezone_fallback in its context: whose setting applies

fixed == <<protocolOf, settings>>
shared == <<account, built, others, patched, config, hooks>>
vars == <<fixed, shared, owner, pc, job, making, got, zone>>

AccountLock(b) == <<"account", b>>
OtherLockShared(b) == AccountLock(b)
OtherLock(b) == <<"other", b>>
ConfigLock == <<"config", None>>

Locks == {AccountLock(b) : b \in Backends} \cup {<<"other", b>> : b \in Backends}
         \cup {ConfigLock}

Jobs == [backend : Backends, mailbox : Mailboxes \cup {None}]

PCs == {"idle", "outer", "check", "lock", "timezone", "patch_zone", "build",
        "configure", "patch", "store"}

Backend(t) == job[t].backend
Mailbox(t) == job[t].mailbox
Protocol(t) == protocolOf[Backend(t)]

-----------------------------------------------------------------------------
Free(l) == owner[l] = None

Go(t, place) == pc' = [pc EXCEPT ![t] = place]

Keeps(t, l) == owner' = [owner EXCEPT ![l] = t]
Releases(l) == owner' = [owner EXCEPT ![l] = None]

\* An exception leaves every `with` block the thread is in.
StillHeld(t) == {}

Raise(t) ==
  /\ owner' = [l \in Locks |-> IF owner[l] = t /\ l \notin StillHeld(t)
                               THEN None ELSE owner[l]]
  /\ Go(t, "idle")
  /\ UNCHANGED <<making, got, zone>>

Return(t, a) ==
  /\ got' = [got EXCEPT ![t] = a]
  /\ Go(t, "idle")

\* `account` has the backend's own account a: it is what was asked for, or the
\* primary another mailbox's account is built from.
Have(t, a) ==
  /\ zone' = [zone EXCEPT ![t] = Backend(t)]
  /\ IF Mailbox(t) = None
     THEN Return(t, a) /\ UNCHANGED making
     ELSE /\ making' = [making EXCEPT ![t] = "other"]
          /\ Go(t, "build")
          /\ UNCHANGED got

NeedsBuildUnchecked(t) == TRUE
NeedsBuild(t) == account[Backend(t)] = None

-----------------------------------------------------------------------------
Init ==
  /\ protocolOf \in [Backends -> Protocols]
  /\ settings \in [Backends -> Settings]
  /\ owner = [l \in Locks |-> None]
  /\ account = [b \in Backends |-> None]
  /\ built = [b \in Backends |-> 0]
  /\ others = [b \in Backends |-> <<>>]
  /\ patched = 0
  /\ config = [p \in Protocols |-> None]
  /\ hooks = [p \in Protocols |-> 0]
  /\ pc = [t \in Threads |-> "idle"]
  /\ job = [t \in Threads |-> None]
  /\ making = [t \in Threads |-> "own"]
  /\ got = [t \in Threads |-> None]
  /\ zone = [t \in Threads |-> None]

\* A tool's body asks for the account of a mailbox, in a fresh context.
Begin(t, j) ==
  /\ pc[t] = "idle"
  /\ job' = [job EXCEPT ![t] = j]
  /\ making' = [making EXCEPT ![t] = "own"]
  /\ got' = [got EXCEPT ![t] = None]
  /\ zone' = [zone EXCEPT ![t] = None]
  /\ Go(t, IF j.mailbox = None THEN "check" ELSE "outer")
  /\ UNCHANGED <<fixed, shared, owner>>

\* _account_for takes its lock and finds the mailbox's account, or goes on to
\* build it with the lock held.
LookUp(t) ==
  LET b == Backend(t)
      m == Mailbox(t)
  IN  /\ pc[t] = "outer"
      /\ Free(OtherLock(b))
      /\ IF m \in ToSet(others[b])
         THEN /\ others' = [others EXCEPT ![b] = Append(RemoveFirst(@, m), m)]
              /\ zone' = [zone EXCEPT ![t] = b]
              /\ Return(t, 0)
              /\ UNCHANGED owner
         ELSE /\ Keeps(t, OtherLock(b))
              /\ Go(t, "check")
              /\ UNCHANGED <<others, zone, got>>
      /\ UNCHANGED <<fixed, account, built, patched, config, hooks, job, making>>

\* `account`: the first look, without the lock.
Check(t) ==
  /\ pc[t] = "check"
  /\ IF account[Backend(t)] # None
     THEN Have(t, account[Backend(t)])
     ELSE Go(t, "lock") /\ UNCHANGED <<making, got, zone>>
  /\ UNCHANGED <<fixed, shared, owner, job>>

\* The second look, with it.
Lock(t) ==
  /\ pc[t] = "lock"
  /\ Free(AccountLock(Backend(t)))
  /\ IF NeedsBuild(t)
     THEN /\ Keeps(t, AccountLock(Backend(t)))
          /\ Go(t, "timezone")
          /\ UNCHANGED <<making, got, zone>>
     ELSE /\ Have(t, account[Backend(t)])
          /\ UNCHANGED owner
  /\ UNCHANGED <<fixed, shared, job>>

\* _configure_timezone_fallback: a look without its lock, ...
Timezone(t) ==
  /\ pc[t] = "timezone"
  /\ Go(t, IF patched # 0 THEN "build" ELSE "patch_zone")
  /\ UNCHANGED <<fixed, shared, owner, job, making, got, zone>>

\* ... then a look and the patch inside it, in one step.
Patched == IF patched = 0 THEN patched + 1 ELSE patched

PatchZone(t) ==
  /\ pc[t] = "patch_zone"
  /\ patched' = Patched
  /\ Go(t, "build")
  /\ UNCHANGED <<fixed, account, built, others, config, hooks, owner, job, making,
                 got, zone>>

\* The Account is built from a Configuration.
Build(t) ==
  /\ pc[t] = "build"
  /\ Go(t, "configure")
  /\ UNCHANGED <<fixed, shared, owner, job, making, got, zone>>

\* The settings are not valid, or Account() raises.
BuildFails(t) ==
  /\ pc[t] \in {"timezone", "build"}
  /\ Raise(t)
  /\ UNCHANGED <<fixed, shared, job>>

ConfigLockAlwaysFree == TRUE
ConfigLockFree == Free(ConfigLock)

Conflicting(t) == config[Protocol(t)] # settings[Backend(t)]

\* _configure_protocol: with its lock, is the protocol configured, and how?
Configure(t) ==
  /\ pc[t] = "configure"
  /\ ConfigLockFree
  /\ IF config[Protocol(t)] = None
     THEN /\ Keeps(t, ConfigLock)
          /\ Go(t, "patch")
          /\ UNCHANGED <<making, got, zone>>
     ELSE IF Conflicting(t)
          THEN Raise(t)
          ELSE Go(t, "store") /\ UNCHANGED <<owner, making, got, zone>>
  /\ UNCHANGED <<fixed, shared, job>>

Patch(t) ==
  /\ pc[t] = "patch"
  /\ hooks' = [hooks EXCEPT ![Protocol(t)] = @ + 1]
  /\ config' = [config EXCEPT ![Protocol(t)] = settings[Backend(t)]]
  /\ Releases(ConfigLock)
  /\ Go(t, "store")
  /\ UNCHANGED <<fixed, account, built, others, patched, job, making, got, zone>>

\* The new account becomes the backend's own.
StoreOwn(t) ==
  LET b == Backend(t)
  IN  /\ pc[t] = "store"
      /\ making[t] = "own"
      /\ built' = [built EXCEPT ![b] = @ + 1]
      /\ account' = [account EXCEPT ![b] = built[b] + 1]
      /\ Releases(AccountLock(b))
      /\ Have(t, built[b] + 1)
      /\ UNCHANGED <<fixed, others, patched, config, hooks, job>>

KeptUnbounded(cache) == cache
Kept(cache) == IF Len(cache) > MaxOthers THEN Tail(cache) ELSE cache

\* It joins the cache, from which the least recently used one falls.
StoreOther(t) ==
  LET b == Backend(t)
  IN  /\ pc[t] = "store"
      /\ making[t] = "other"
      /\ others' = [others EXCEPT ![b] = Kept(Append(@, Mailbox(t)))]
      /\ Releases(OtherLock(b))
      /\ Return(t, 0)
      /\ UNCHANGED <<fixed, account, built, patched, config, hooks, job, making, zone>>

Step(t) ==
  \/ LookUp(t) \/ Check(t) \/ Lock(t) \/ Timezone(t) \/ PatchZone(t)
  \/ Build(t) \/ BuildFails(t) \/ Configure(t) \/ Patch(t)
  \/ StoreOwn(t) \/ StoreOther(t)

Next == \E t \in Threads : Step(t) \/ \E j \in Jobs : Begin(t, j)

Spec == Init /\ [][Next]_vars

-----------------------------------------------------------------------------
TypeOK ==
  /\ protocolOf \in [Backends -> Protocols]
  /\ settings \in [Backends -> Settings]
  /\ owner \in [Locks -> Threads \cup {None}]
  /\ account \in [Backends -> Nat \cup {None}]
  /\ built \in [Backends -> Nat]
  /\ \A b \in Backends : /\ others[b] \in Seq(Mailboxes)
                         /\ IsInjective(others[b])
                         /\ Len(others[b]) <= MaxOthers
  /\ patched \in Nat
  /\ config \in [Protocols -> Settings \cup {None}]
  /\ hooks \in [Protocols -> Nat]
  /\ pc \in [Threads -> PCs]
  /\ job \in [Threads -> Jobs \cup {None}]
  /\ making \in [Threads -> {"own", "other"}]
  /\ got \in [Threads -> Nat \cup {None}]
  /\ zone \in [Threads -> Backends \cup {None}]

\* A first burst of calls builds a backend's account once, and every caller
\* gets that one: no "race to build their own Account/Configuration/protocol".
OneAccount ==
  /\ \A b \in Backends : built[b] <= 1
  /\ \A t \in Threads : got[t] \notin {None, 0} => got[t] = account[Backend(t)]

\* Whoever has an account has the settings of its own backend: its protocol is
\* configured by them, once, although another backend or another mailbox's
\* account shares it ("re-wrapping raw_session would duplicate hooks"), the
\* time zone patch is in place once, and its context names its backend.
SettingsStick ==
  /\ patched <= 1
  /\ \A p \in Protocols : hooks[p] <= 1
  /\ \A t \in Threads :
       got[t] # None => /\ config[Protocol(t)] = settings[Backend(t)]
                        /\ hooks[Protocol(t)] = 1
                        /\ patched = 1
                        /\ zone[t] = Backend(t)

\* The lock a thread cannot pass without, if it is at one.
Wanted(t) ==
  CASE pc[t] = "outer"     -> {OtherLock(Backend(t))}
    [] pc[t] = "lock"      -> {AccountLock(Backend(t))}
    [] pc[t] = "configure" -> {ConfigLock}
    [] OTHER               -> {}

\* Never does everyone wait on everyone: if calls are under way, one of them can
\* go on.  And no lock is held by a thread that has left.
SomeoneGoesOn ==
  /\ \A t \in Threads : pc[t] = "idle" => \A l \in Locks : owner[l] # t
  /\ (\E t \in Threads : pc[t] # "idle") =>
       \E t \in Threads : pc[t] # "idle" /\ \A l \in Wanted(t) : Free(l)

-----------------------------------------------------------------------------
(***************************************************************************)
(* The inductive invariant, in parts.                                      *)
(***************************************************************************)
Typed ==
  /\ protocolOf \in [Backends -> Protocols]
  /\ settings \in [Backends -> Settings]
  /\ owner \in [Locks -> Threads \cup {None}]
  /\ account \in [Backends -> Nat \cup {None}]
  /\ built \in [Backends -> Nat]
  /\ DOMAIN others = Backends
  /\ patched \in Nat
  /\ config \in [Protocols -> Settings \cup {None}]
  /\ hooks \in [Protocols -> Nat]
  /\ pc \in [Threads -> PCs]
  /\ job \in [Threads -> Jobs \cup {None}]
  /\ making \in [Threads -> {"own", "other"}]
  /\ got \in [Threads -> Nat \cup {None}]
  /\ zone \in [Threads -> Backends \cup {None}]

BuildsOwn(t) ==
  /\ pc[t] \in {"timezone", "patch_zone", "build", "configure", "patch", "store"}
  /\ making[t] = "own"

InAccountFor(t) == pc[t] \notin {"idle", "outer"} /\ Mailbox(t) # None

\* Which thread holds a lock can be read off where the threads are.
HoldsOf(t, b) ==
  /\ owner[AccountLock(b)] = t <=> BuildsOwn(t) /\ Backend(t) = b
  /\ owner[OtherLock(b)] = t <=> InAccountFor(t) /\ Backend(t) = b

HoldsConfig(t) == owner[ConfigLock] = t <=> pc[t] = "patch"

LockInv == \A t \in Threads : HoldsConfig(t) /\ \A b \in Backends : HoldsOf(t, b)

\* What a thread has found out is still true.
PhaseOf(t) ==
  /\ pc[t] # "idle" => job[t] \in Jobs
  /\ pc[t] = "outer" => Mailbox(t) # None
  /\ pc[t] # "idle" /\ making[t] = "other" =>
       /\ pc[t] \in {"build", "configure", "patch", "store"}
       /\ Mailbox(t) # None
       /\ account[Backend(t)] # None
       /\ zone[t] = Backend(t)
  /\ BuildsOwn(t) => account[Backend(t)] = None
  /\ BuildsOwn(t) /\ pc[t] \notin {"timezone", "patch_zone"} => patched = 1
  /\ pc[t] = "patch" => config[Protocol(t)] = None
  /\ pc[t] = "store" => config[Protocol(t)] = settings[Backend(t)]

PhaseInv == \A t \in Threads : PhaseOf(t)

GotInv ==
  \A t \in Threads :
    got[t] # None => /\ pc[t] = "idle" /\ job[t] \in Jobs
                     /\ account[Backend(t)] # None
                     /\ zone[t] = Backend(t)
                     /\ got[t] \in {0, account[Backend(t)]}

\* A backend with an account has built one, on a configured protocol.
BuiltInv ==
  \A b \in Backends :
    /\ account[b] = None => built[b] = 0 /\ others[b] = <<>>
    /\ account[b] # None =>
         /\ account[b] = 1 /\ built[b] = 1 /\ patched = 1
         /\ config[protocolOf[b]] = settings[b]

ConfigInv ==
  /\ \A p \in Protocols : hooks[p] = (IF config[p] = None THEN 0 ELSE 1)
  /\ patched \in {0, 1}

CacheIInv == Typed /\ LockInv /\ PhaseInv /\ GotInv /\ BuiltInv /\ ConfigInv

\* The cache of other mailboxes' accounts holds each once, and not the one that
\* is being built.  This is inductive relative to CacheIInv.
CachedOf(b) ==
  /\ others[b] \in Seq(Mailboxes)
  /\ IsInjective(others[b])
  /\ Len(others[b]) <= MaxOthers

NotCached(t) ==
  \A i \in 1..Len(others[Backend(t)]) : others[Backend(t)][i] # Mailbox(t)

CachedInv ==
  /\ \A b \in Backends : CachedOf(b)
  /\ \A t \in Threads : InAccountFor(t) => NotCached(t)
=============================================================================
