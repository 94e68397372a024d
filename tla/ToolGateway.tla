---------------------------- MODULE ToolGateway ----------------------------
(***************************************************************************)
(* ToolGateway.run of outlook_mcp/mcp_tools.py: the admission counter, the *)
(* writer lock readers use as a turnstile, the permits, the worker-thread  *)
(* limiter, and cancellation of a call by its client.                      *)
(*                                                                         *)
(* An action is what one task does between two suspension points of the    *)
(* event loop.  anyio's Lock, Semaphore and CapacityLimiter are external:  *)
(* a free one is taken at once, otherwise the task joins a FIFO queue, and *)
(* a release hands the thing to the head of the queue before that task     *)
(* resumes.  A cancelled waiter is taken out of the queue; one that was    *)
(* already served gives back what it got.                                  *)
(*                                                                         *)
(* A call that has left may be issued again, so the stream of calls never  *)
(* ends.                                                                   *)
(***************************************************************************)
EXTENDS Naturals, FiniteSets, SequencesExt

CONSTANTS Reads,         \* calls of tools with read_only or mailbox_read_only
          Writes,        \* calls of tools that change the mailbox
          MaxWorkers,    \* MCP_MAX_CONCURRENCY
          MaxQueueSize,  \* MCP_MAX_QUEUE_SIZE
          Nobody         \* the owner of a free lock

Calls == Reads \cup Writes

ASSUME GatewayAssumption ==
  /\ IsFiniteSet(Calls)
  /\ Reads \cap Writes = {}
  /\ Nobody \notin Calls
  /\ MaxWorkers \in Nat \ {0}
  /\ MaxQueueSize \in Nat \ {0}

VARIABLES
  pc,           \* where each call's task is in run()
  admitted,     \* ToolGateway._admitted
  lockOwner,    \* _writer_turn: the owner ...
  lockQueue,    \* ... and the tasks waiting for it
  permits,      \* _permits: the semaphore's value ...
  permitQueue,  \* ... and the tasks waiting for one
  held,         \* permits a call holds: a writer's local `acquired`, a reader's 0 or 1
  borrowers,    \* _threads: the calls that borrowed a thread token
  workers       \* the calls whose body is executing in a worker thread

vars == <<pc, admitted, lockOwner, lockQueue, permits, permitQueue, held,
          borrowers, workers>>

\* "locking": waits for the lock; "turn": a reader inside the turnstile;
\* "collect": a writer in its loop; "permit": waits for a permit; "ready": has
\* every permit it needs; "running": awaits its worker thread.
PCs == {"idle", "locking", "turn", "collect", "permit", "ready", "running"}

Waiting == {"locking", "turn", "collect", "permit", "ready"}

InFlight == {c \in Calls : pc[c] # "idle"}

-----------------------------------------------------------------------------
\* The permits a call takes before it runs: one, or for a writer all of them.
Needed(c) == IF c \in Reads THEN 1 ELSE MaxWorkers

ThreadTokensShort == MaxWorkers - 1
ThreadTokens == MaxWorkers

HasRoomOffByOne == admitted <= MaxQueueSize
HasRoom == admitted < MaxQueueSize

\* Where a task resumes when it gets the lock, and when it gets a permit.
AfterLock(c) == IF c \in Reads THEN "turn" ELSE "collect"
AfterPermit(c) == IF held[c] + 1 = Needed(c) THEN "ready" ELSE "collect"

JoinLockQueueReadFirst(c) ==
  IF c \in Reads THEN <<c>> \o lockQueue ELSE Append(lockQueue, c)
JoinLockQueue(c) == Append(lockQueue, c)

-----------------------------------------------------------------------------
Init ==
  /\ pc = [c \in Calls |-> "idle"]
  /\ admitted = 0
  /\ lockOwner = Nobody
  /\ lockQueue = <<>>
  /\ permits = MaxWorkers
  /\ permitQueue = <<>>
  /\ held = [c \in Calls |-> 0]
  /\ borrowers = {}
  /\ workers = {}

\* run() up to its first suspension, with the queue already full: the call is
\* answered server_busy and nothing else happens.
Reject(c) ==
  /\ pc[c] = "idle"
  /\ ~HasRoom
  /\ UNCHANGED vars

\* run() up to its first suspension: counted in, then the lock is taken or
\* queued for.
Admit(c) ==
  /\ pc[c] = "idle"
  /\ HasRoom
  /\ admitted' = admitted + 1
  /\ IF lockOwner = Nobody /\ lockQueue = <<>>
     THEN /\ lockOwner' = c
          /\ pc' = [pc EXCEPT ![c] = AfterLock(c)]
          /\ UNCHANGED lockQueue
     ELSE /\ lockQueue' = JoinLockQueue(c)
          /\ pc' = [pc EXCEPT ![c] = "locking"]
          /\ UNCHANGED lockOwner
  /\ UNCHANGED <<permits, permitQueue, held, borrowers, workers>>

\* The lock passes to the head of its queue, if there is one.
NextOwner == IF lockQueue = <<>> THEN Nobody ELSE Head(lockQueue)
RestOfLockQueue == IF lockQueue = <<>> THEN <<>> ELSE Tail(lockQueue)

\* A reader inside the turnstile releases the lock and, with no suspension in
\* between, takes a permit or joins the queue for one.
PassTurnstile(r) ==
  /\ r \in Reads
  /\ pc[r] = "turn"
  /\ lockOwner' = NextOwner
  /\ lockQueue' = RestOfLockQueue
  /\ LET free == permits > 0 /\ permitQueue = <<>>
         mine == IF free THEN "ready" ELSE "permit"
     IN  /\ permits' = IF free THEN permits - 1 ELSE permits
         /\ permitQueue' = IF free THEN permitQueue ELSE Append(permitQueue, r)
         /\ held' = IF free THEN [held EXCEPT ![r] = 1] ELSE held
         /\ pc' = [c \in Calls |-> CASE c = r         -> mine
                                     [] c = NextOwner -> AfterLock(c)
                                     [] OTHER         -> pc[c]]
  /\ UNCHANGED <<admitted, borrowers, workers>>

\* One turn of a writer's loop: it takes a free permit or waits for one.
Collect(w) ==
  /\ w \in Writes
  /\ pc[w] = "collect"
  /\ IF permits > 0 /\ permitQueue = <<>>
     THEN /\ permits' = permits - 1
          /\ held' = [held EXCEPT ![w] = @ + 1]
          /\ pc' = [pc EXCEPT ![w] = AfterPermit(w)]
          /\ UNCHANGED permitQueue
     ELSE /\ permitQueue' = Append(permitQueue, w)
          /\ pc' = [pc EXCEPT ![w] = "permit"]
          /\ UNCHANGED <<permits, held>>
  /\ UNCHANGED <<admitted, lockOwner, lockQueue, borrowers, workers>>

\* to_thread.run_sync: a thread token is borrowed and the body starts.
Start(c) ==
  /\ pc[c] = "ready"
  /\ Cardinality(borrowers) < ThreadTokens
  /\ borrowers' = borrowers \cup {c}
  /\ workers' = workers \cup {c}
  /\ pc' = [pc EXCEPT ![c] = "running"]
  /\ UNCHANGED <<admitted, lockOwner, lockQueue, permits, permitQueue, held>>

\* The body returns (or raises) in its thread; the task has not resumed yet.
BodyReturns(c) ==
  /\ c \in workers
  /\ workers' = workers \ {c}
  /\ UNCHANGED <<pc, admitted, lockOwner, lockQueue, permits, permitQueue, held,
                 borrowers>>

-----------------------------------------------------------------------------
\* The permits a leaving call's finally block releases.
ReleasedAll(c) == IF c \in Reads THEN held[c] ELSE MaxWorkers
ReleasedUnlessWaiting(c) == IF pc[c] = "permit" THEN 0 ELSE held[c]
Released(c) == held[c]

GivesUpTurnIfRun(c) == lockOwner = c /\ pc[c] # "collect"
GivesUpTurn(c) == lockOwner = c

\* The finally blocks and __aexit__s a task runs when it leaves run(), all
\* without a suspension: its permits go to the heads of the permit queue, the
\* lock to the head of the lock queue, and it is counted out.
Exit(c) ==
  LET queue  == RemoveFirst(permitQueue, c)
      n      == Released(c)
      m      == IF n < Len(queue) THEN n ELSE Len(queue)
      served == {queue[i] : i \in 1..m}
      owner  == IF GivesUpTurn(c) THEN NextOwner ELSE lockOwner
  IN  /\ admitted' = admitted - 1
      /\ permits' = permits + (n - m)
      /\ permitQueue' = SubSeq(queue, m + 1, Len(queue))
      /\ lockOwner' = owner
      /\ lockQueue' = IF GivesUpTurn(c) THEN RestOfLockQueue
                                        ELSE RemoveFirst(lockQueue, c)
      /\ held' = [d \in Calls |-> CASE d = c         -> 0
                                    [] d \in served  -> held[d] + 1
                                    [] OTHER         -> held[d]]
      /\ pc' = [d \in Calls |-> CASE d = c -> "idle"
                                  [] d \in served -> AfterPermit(d)
                                  [] d = owner /\ d # lockOwner -> AfterLock(d)
                                  [] OTHER -> pc[d]]

\* The body has returned: the task gives its thread token back and leaves.
Finish(c) ==
  /\ pc[c] = "running"
  /\ c \notin workers
  /\ borrowers' = borrowers \ {c}
  /\ Exit(c)
  /\ UNCHANGED workers

\* Where a cancellation is delivered.  The wait for a started worker is
\* shielded (abandon_on_cancel=False), so there it is not.
CancellableAlways == Waiting \cup {"running"}
Cancellable == Waiting

\* The client cancels the call, or disconnects.
Cancel(c) ==
  /\ pc[c] \in Cancellable
  /\ Exit(c)
  /\ borrowers' = borrowers \ {c}
  /\ UNCHANGED workers

-----------------------------------------------------------------------------
Task(c) == PassTurnstile(c) \/ Collect(c) \/ Start(c) \/ Finish(c)

Next == \E c \in Calls :
  Admit(c) \/ Reject(c) \/ Task(c) \/ BodyReturns(c) \/ Cancel(c)

Spec == Init /\ [][Next]_vars

\* The event loop resumes every task that can go on, and a body, made of
\* requests with a socket timeout and a bounded retry, returns.  Nobody is
\* obliged to issue a call or to cancel one.
Fairness == \A c \in Calls : WF_vars(Task(c)) /\ WF_vars(BodyReturns(c))

FairSpec == Spec /\ Fairness

-----------------------------------------------------------------------------
Typed ==
  /\ pc \in [Calls -> PCs]
  /\ admitted \in Nat
  /\ lockOwner \in Calls \cup {Nobody}
  /\ lockQueue \in Seq(Calls)
  /\ permits \in Nat
  /\ permitQueue \in Seq(Calls)
  /\ held \in [Calls -> Nat]
  /\ borrowers \in SUBSET Calls
  /\ workers \in SUBSET Calls

\* The variables keep their types and the counters their ranges.
TypeOK ==
  /\ Typed
  /\ permits <= MaxWorkers
  /\ \A c \in Calls : held[c] <= Needed(c)

\* While the body of a mutating tool executes in its thread, no other body
\* does: "a mutating tool ... never overlaps a read", nor another mutation.
WriteExclusive ==
  \A w \in Writes \cap workers : workers = {w}

\* Readers that are past the turnstile and hold a permit.
HoldingReaders == {r \in Reads : pc[r] \in {"ready", "running"}}

WriterPermits == IF lockOwner \in Writes THEN held[lockOwner] ELSE 0

\* No permit is lost or invented, whatever was cancelled and when: the free
\* ones, one per reader holding one and the current writer's make MaxWorkers.
PermitsConserved ==
  permits + Cardinality(HoldingReaders) + WriterPermits = MaxWorkers

\* _admitted counts exactly the calls in run(), and never more than
\* MCP_MAX_QUEUE_SIZE: no path out forgets to count the call out.
AdmittedExact ==
  /\ admitted = Cardinality(InFlight)
  /\ admitted <= MaxQueueSize

\* Nobody who holds its permits waits for a thread: the limiter is as wide as
\* the semaphore, so the permit queue is the only queue for workers.
ThreadForEveryPermit ==
  (\E c \in Calls : pc[c] = "ready") => Cardinality(borrowers) < ThreadTokens

\* Every admitted call leaves run(), although other calls keep arriving: no
\* starvation of a writer by readers, no deadlock, no lost hand-over.
EveryCallLeaves ==
  \A c \in Calls : (pc[c] # "idle") ~> (pc[c] = "idle")

-----------------------------------------------------------------------------
(***************************************************************************)
(* The inductive invariant behind these: who owns the lock, who stands in  *)
(* the queues, and how many permits each phase of a call holds.            *)
(***************************************************************************)
OwnsLock(c) ==
  \/ pc[c] = "turn"
  \/ c \in Writes /\ pc[c] \in {"collect", "permit", "ready", "running"}

LockInv ==
  \A c \in Calls : /\ OwnsLock(c) <=> lockOwner = c
                   /\ c \in Reads => pc[c] # "collect"
                   /\ c \in Writes => pc[c] # "turn"

QueueInv ==
  /\ IsInjective(lockQueue)
  /\ IsInjective(permitQueue)
  /\ \A i \in 1..Len(lockQueue) : pc[lockQueue[i]] = "locking"
  /\ \A i \in 1..Len(permitQueue) :
       /\ pc[permitQueue[i]] = "permit"
       /\ permitQueue[i] \in Writes => i = Len(permitQueue)

\* A writer that holds a permit has no reader left before it in the queue.
HeldInv ==
  \A c \in Calls :
    /\ pc[c] \in {"idle", "locking", "turn"} => held[c] = 0
    /\ pc[c] \in {"ready", "running"} => held[c] = Needed(c)
    /\ pc[c] \in {"collect", "permit"} => held[c] < Needed(c)
    /\ c \in Writes /\ held[c] > 0 =>
         \A i \in 1..Len(permitQueue) : permitQueue[i] = c

ThreadInv ==
  /\ borrowers = {c \in Calls : pc[c] = "running"}
  /\ workers \subseteq borrowers

IInv == /\ Typed /\ LockInv /\ QueueInv /\ HeldInv /\ ThreadInv
        /\ PermitsConserved /\ AdmittedExact

\* Whoever waits stands in a queue, and a free lock has no queue: every call in
\* run() can be found in the lock, its queue or past the turnstile.
WaitersQueued ==
  /\ lockOwner = Nobody => lockQueue = <<>>
  /\ \A c \in Calls : pc[c] = "locking" => Contains(lockQueue, c)
  /\ \A c \in Calls : pc[c] = "permit" => Contains(permitQueue, c)

-----------------------------------------------------------------------------
(***************************************************************************)
(* The gateway implements ArrivalOrderedAccess.  Which conflicting calls   *)
(* are still ahead of a call is read off the lock, its queue and the       *)
(* readers past the turnstile.                                             *)
(***************************************************************************)
PastTurnstile == {r \in Reads : pc[r] \in {"permit", "ready", "running"}}

AheadInQueue(c) ==
  {lockQueue[i] : i \in {k \in 1..Len(lockQueue) :
                           \E j \in 1..Len(lockQueue) : k < j /\ lockQueue[j] = c}}

AheadOf(c) ==
  CASE pc[c] = "locking" /\ c \in Reads ->
         (AheadInQueue(c) \cup {lockOwner}) \cap Writes
    [] pc[c] = "locking" /\ c \in Writes ->
         AheadInQueue(c) \cup ({lockOwner} \cap Calls) \cup PastTurnstile
    [] pc[c] # "idle" /\ c = lockOwner /\ c \in Writes -> PastTurnstile
    [] OTHER -> {}

Access == INSTANCE ArrivalOrderedAccess WITH
  inflight <- InFlight,
  ahead    <- [c \in Calls |-> AheadOf(c)],
  active   <- workers

\* A call begins only after every conflicting call admitted before it has
\* left: reads see all earlier writes, a later read never overtakes a waiting
\* writer, and "anyio hands waiters their turn in arrival order".
ArrivalOrder == Access!AccessSpec
=============================================================================
