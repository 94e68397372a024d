# A TLA+ model of outlook-ews-mcp

`outlook_mcp` is an MCP server that gives a language-model client a set of
tools over one Exchange mailbox: list, search, read and send mail, manage
drafts, folders, calendars, meeting slots, inbox rules and contacts. It is
written in Python (`src/src/outlook_mcp/`), runs its tool bodies on worker
threads behind an event loop, and talks to Exchange through the library
`exchangelib`. This directory models the parts of it whose correctness depends
on an order of events, on a failure at a bad moment, or on a boundary: TLA+
modules, TLC configurations that check them on small instances, and proofs that
TLAPS checks for every value of the constants. All paths below are relative to
`src/`.

Contents: 1 inventory, 2 the modules and the code, 3 the runs, 4 fairness, 5
external assumptions, 6 the proofs, 7 disagreements found, 8 what is not
modelled, 9 the plan, 10 how to run.

## 1. Inventory

### How the parts interact

    MCP client --call--> FastMCP --await--> ToolGateway.run          (mcp_tools.py)
                                              | admission, turnstile, permits
                                              v
                                       a worker thread
                                              | ToolRegistry.call    (server.py)
                                              v
                                   a handler and its request model   (tools/, models.py)
                                              v
                                       ExchangeClient                (facade.py)
                                              | retry of reads, mapping of errors
                                              v
                     EWSExchangeBackend: email, calendar, mailbox, contacts
                                              | account, _account_for  (base.py)
                                              v
                                 exchangelib --requests--> Exchange
                                                              ^
                              the owner, in Outlook ----------+

Calls reach the gateway as tasks of one event loop. The gateway lets reads run
together and mutations alone, and awaits a worker thread for each body. Bodies
share the backend object (its account and its cache of other accounts), the
process-wide protocol configuration, and, what matters most, the mailbox itself,
which the owner and other clients change at any time.

### Components

| Component | Source | State | Operations |
|---|---|---|---|
| Tool gateway | `mcp_tools.py` | `_admitted`, `_writer_turn` (lock), `_permits` (semaphore), `_threads` (limiter) | `run`: admit or reject, turnstile, collect permits, run, release, cancel |
| Exchange client facade | `exchange_client/facade.py`, `exchange_client/errors.py` | the locals of `_retry_read`: deadline, wait | every public method: a read through `_retry_read`, a mutation directly; `_map_exception` |
| Sending mail | `exchange_client/email.py` | the mailbox; a submission id stamped on the message | `send_email`, `reply_email`, `forward_email`, `send_draft`, `_confirm_submission`, `create_reply_draft` |
| Availability | `exchange_client/calendar.py` | the loops' cursors | `get_my_availability`, `find_free_slots`, `_list_events_page` |
| Threads | `exchange_client/email.py` | the items collected so far | `get_thread`, `_thread_items`, `_fetch_thread_bodies` |
| Account and protocol cache | `exchange_client/base.py` | `_account`, `_other_accounts`, the time zone patch, each protocol's `_outlook_mcp_config` | `account`, `_account_for`, `_build_account`, `_configure_protocol` |
| Drafts and their attachments | `exchange_client/email.py`, `exchange_client/mentions.py` | drafts, a header naming the mentioned people | `create_draft`, `update_draft`, `add_attachment`, `delete_attachment` |
| Downloads | `exchange_client/email.py` | the download directory | `get_attachment`, `get_email_mime` |
| Message and bulk actions | `exchange_client/email.py`, `base.py` | the mailbox | move, copy, delete, mark, categorize, and the bulk forms |
| Folders | `base.py`, `email.py` | the folder tree and exchangelib's cache of it | `_resolve_folder`, create, rename, delete |
| Calendar events | `exchange_client/calendar.py` | events, invitations | create, update, delete, respond, list |
| Inbox rules, out of office | `exchange_client/mailbox.py` | the rules, the settings | list, create, update, delete; get and set |
| Contacts | `exchange_client/contacts.py` | contacts | search, create, update, delete |
| Tool registry, telemetry | `server.py`, `telemetry.py` | per-call statistics in a context variable | `call`; counting of EWS requests |
| Listing and searching mail | `exchange_client/email.py` | none | `list_emails`, `search_emails`, `get_email` |
| Tool definitions, models, configuration | `tools/`, `models.py`, `config.py`, `server.py` | none after start-up | validation, wiring |

### What is hard, and the properties that make each part correct

* **Gateway.** Tasks interleave at every `await`, and a client may cancel at any
  of them, also after a permit was handed over and before the task resumed. A
  mutating body never overlaps another body; no permit is lost; the admission
  counter is exact; conflicting calls run in the order of arrival; nobody
  starves, though writers wait for readers and readers for writers.
* **Facade.** A retry competes with a deadline, with a clamped sleep and with a
  late wake-up. A call is bounded in time, backs off in full, gives up only with
  its budget spent, and never repeats a mutation whose answer was lost.
* **Sending.** An EWS request that failed may have been carried out, or may be
  carried out later; the process may die between two requests; the owner edits,
  sends, moves or deletes the same draft. A status is true; a plain error means
  that nothing was sent; nothing goes out twice.
* **Availability.** Overlapping, empty, reversed and touching appointments meet
  the bounds of the window; the index of a sample must stay the index of the
  slot. What is reported free is free, and nothing free is missed.
* **Threads.** Messages arrive, move and vanish between the searches and the
  fetch of the bodies, and the limit is applied at several places. The newest
  messages are there, once.
* **Account cache.** Worker threads look without a lock and then with one; two
  backends may share a protocol; locks nest. One account, one configuration, no
  deadlock.
* **Drafts.** A call is several requests of which any may fail, works on a copy
  fetched at its start, and meets what earlier calls left half done; calls that are
  legal one by one lead to an inconsistent draft together. After a success
  mentions, recipients and attachments are as asked.
* **Calendar events.** A partial update is checked against bounds that earlier
  calls or the owner set, floored or not, and is saved over what the owner did
  since the fetch. An event keeps a proper range, nobody is listed twice however
  often a call is retried, and what a call does not name stays as the owner left
  it.
* **Items.** Marks, categories, contacts and rules are read, changed and written
  back; loops and batches fail for some of their ids. The owner's edits of other
  fields, and of other categories unless they fall between a fetch and its save,
  survive, and every id has one verdict, a true one.
* **Downloads.** Several downloads and other programs compete for one name; a
  stream breaks off or is larger than it said. What is reported saved is whole;
  nobody else's file is touched.
* **Folders.** A folder that cannot be listed is skipped. What is found is a
  folder that the caller named.

## 2. The modules and the code

### `ArrivalOrderedAccess`, `ToolGateway` - the gateway

`ArrivalOrderedAccess` is the promise: a call arrives, remembers which
conflicting calls are ahead of it, begins once all of those have left, and
leaves. It knows no lock, no permit and no thread.

`ToolGateway` is `ToolGateway.run`. An action is what one task does between two
suspension points of the event loop: `Admit` (or `Reject`, `server_busy`) up to
the lock; `PassTurnstile`, a reader that releases the lock at once and takes or
queues for a permit; `Collect`, one turn of the writer's loop; `Start`, the
hand-over to a worker thread; `BodyReturns` in that thread; `Finish` and
`Cancel`, which run the `finally` blocks and the context managers' exits without
a suspension. The state is the code's: `admitted` is `_admitted`;
`lockOwner`/`lockQueue` is `_writer_turn`; `permits`/`permitQueue` is `_permits`;
`borrowers` is `_threads`; `held` is the writer's local `acquired`, or a
reader's 0 or 1. `pc` says at which statement each task is; `workers` are the
bodies executing in a thread. The wait for a started body is shielded
(`abandon_on_cancel=False`), which is why `Cancel` is not possible in "running":
no body outlasts its call. A call that left may be issued again, so calls never run
out.

`AheadOf` reads off the lock, its queue and the readers past the turnstile which
conflicting calls are ahead: that is the refinement mapping of `ArrivalOrder`.

### `RetryRead` - one call of the facade

The loop of `_retry_read` under a clock: `Answered` and `Failed` are the
requests of an attempt, `Wake` the end of `time.sleep` with both deadline
checks. A "write" does not go through the loop. `Code` is `_map_exception`. Time
is a number; a request takes anything up to `EXCHANGE_TIMEOUT`, and a sleep may
return up to `Slack` late.

### `MailDelivery` - the tools that send

A call is a plan of requests: `Plan("draft")` is fetch, stamp the submission id,
send, search for the copy. A reply that mentions people saves a draft, fetches
it, sets the mention header, attaches its files if any, and then sends it as
`send_draft` does; a reply or forward with attachments only saves, attaches and
sends; the rest is one `CreateItem`. `Succeed`, `Fail` and `Crash` apply to the
current request: it may fail before it took effect, after, or be given up on its
way (`late`) and take effect at any time (`TakesEffect`). `Poll` is one turn of
the loop in `_confirm_submission`. `Meddle` is the owner: edit, send, move back
to Drafts, delete. A message has a place, an id that changes with a move, a
change key that changes with every change, the draft flag, the stamp, and
whether searches see it yet.

### `FreeTime`, `MeetingSlots` - availability

`FreeTime` is `get_my_availability`: `List` (the page of events, the refusal of a
truncated one, an error), `Walk` (one turn of `_compute_free_slots`) and
`Close`. Events may overlap, be empty or end before they start.
`MeetingSlots` is `find_free_slots`: `Ask` is the free/busy request, `Scan` one
turn of its loop, `ScanEnds` its end. Minutes are integers; the service marks a
sample free if no minute of it is busy. A slot shorter than the five minutes of
a sample goes by the sample that covers its start (`CoveringSampleFree`), as
`tests/test_ews_backend.py:239` has it: one that reaches into a busy second sample
is offered on purpose.

### `ThreadAssembly` - get_thread

`FetchAnchor`, `SearchFolder` per folder, and `Return` (the limit and the second
fetch, which drops what no longer exists). `Change` is the rest of the world:
between two steps a message arrives, moves (and has a new id) or vanishes.
Messages are numbered in the order of `_received_at`.

### `DraftEditing` - the tools that write a draft

A call is a sequence of jobs: `create_draft` one, `create_reply_draft` a save, a
fetch, the header and an upload per file; `update_draft` a fetch, a deletion per
attachment of the fetched copy, an upload per file and the save of the named
fields; the attachment tools a fetch and one job. `Succeed` and `Fail` apply to
the next job; `Fail` may have carried it out, and also stands for a local file
that cannot be read or is too large, and for the end of the process. `Edit` is the
owner. `Saved` is `update_draft`'s save with its two reads of the *fetched* copy:
the recipients to complete, and whether there is a header to replace. The draft
keeps whom its body mentions and whom its header names apart, since both come
from different statements.

A request that fails has been carried out or not before the next one is sent;
requests that are carried out much later are the subject of `MailDelivery` and
left out here.

### `EventEditing` - the tools that change an event

Calls on one event: `create_event`; `update_event` as `FetchEvent`, in which the
new range is judged, and `WriteEvent`, the save of the named fields;
`delete_event` and `respond_to_invite` likewise. Times are half days, so that
flooring to midnight does something. `Meddle` is the owner, also between a fetch
and its save; `shadow` is the event as it would be without the call under way,
which is what the call is compared with. A retry is one more call.

### `ItemActions` - marks, categories, contacts, rules, batches

A call has a list of ids. In a loop (`_bulk`, or a single id) `FetchObject` and
`SaveObject` deal with the next one; in a batch `BatchStep` does, on the
server, and `Lost` is the answer that never comes. `EndAction` makes the verdicts,
for a batch by `BulkResult` (`_bulk_result`, with its padding and its view of a
missing item). An item has two plain fields and a set; which of them a tool
names is `Named`, and `Written` is what a save does to an item the owner may
have edited since the fetch (`OwnerEdits`). Three history variables say what a call
is compared with: `twin`, the items as they would be without it; `edited`, the
fields the owner changed since it began; and `raced`, those fields and single
categories he changed between its fetch of the item and its save. A category
that is not in `raced` must survive a categorize that adds or removes others.

### `Downloads` - get_attachment and get_email_mime

Each download is a process: the size declared, the search for a free name by
exclusive creation (`TryName`), the stream with the check before each chunk, and
the removal after a failure (`Undo`). `Visit` is any other program in the same
directory, `Die` the end of the server's process. All downloads want the same name.

### `FolderLookup` - _resolve_folder and the folder tools

A folder is the path of names to it. `Resolve` is `_resolve_folder` with the set
of folders that cannot be listed during this call; `Walk` goes down from a folder
and returns what it arrives at, if anything, `FromTops` tries the top of the
information store and then the root, and `FindNamed` and `ByPath` are the search for
a name and for a path. `ActOnFolder` is what the tool then does: create,
rename, delete, or a move into it.

### `MCAvailability`, `MCMailboxTools` - compositions

Tools that share no state but the mailbox are checked in one run: a behaviour
picks a group of tools and the other groups' variables stay as they are.

### `AccountCache` - account and protocol

Threads in `account`, `_account_for`, `_build_account` and `_configure_protocol`,
an action per point at which another thread can tell the difference. Three kinds
of lock: two per backend (one for its own account, one for the other accounts)
and one for the protocols; the time zone patch's own lock covers a single step and needs no
owner. Accounts are numbered, so that two builds can be told apart; the protocol
and the settings of a backend are chosen in `Init`, so that backends share one,
conflict or are independent.

## 3. The runs

| Run | Instance | Shows |
|---|---|---|
| `gateway` | 3 reads, 2 writes, 2 permits, a queue of 4 | `WriteExclusive`, `PermitsConserved`, `AdmittedExact`, `ThreadForEveryPermit`; the refinement `ArrivalOrder`; `EveryCallLeaves` |
| `retry` | timeouts 1 and 3, budgets 0, 1, 4, 9, 1 or 2 requests, first wait 2, sleeps up to 1 late | `WithinBudget`, `WriteTakesEffectOnce`, `BackoffBeforeRetry`, `GivesUpOnlyWhenSpent`; `CallReturns` |
| `delivery` | 2 calls of any kind, a draft, 2 things the owner does | `TruthfulAnswer`, `PlainErrorMeansUnsent`, `CopyCarriesSubmission`, `DeliveredOnce` |
| `calendar` | `FreeTime`: 2 appointments over 4 moments, limits 1 and 2. `MeetingSlots`: 2 attendees, each busy for one run of minutes or not at all, durations below, at and above the shortest sample, a window within a day or across its end. `EventEditing`: 3 calls on an event of up to 3 days, 2 people, 1 act of the owner | `FreeMeansFree`, `SlotsMaximal`; `OfferedIsFree`, `NothingMissed`; `EventWellFormed`, `AttendeesAsAsked`, `OwnersEventKept` |
| `mailbox_tools` | `DraftEditing`: 3 calls, 2 people, 2 files, 1 edit by the owner. `ThreadAssembly`: 3 messages, 2 folders (or one listed twice), limits 1 and 2, 2 changes. `FolderLookup`: 2 calls, folders called "archive" and "work" below three others. `ItemActions`: 2 calls on 2 items, 1 edit by the owner. `Downloads`: 2 downloads of 2 or 3 chunks, limit 2, 3 names, 1 act of another program | `MentionsReach`, `FilesAsAsked`; `NewestKept`, `ThreadOnce`; `ResolvedAsNamed`; `OwnersEditsKept`, `VerdictsTrue`; `SavedIsWhole`, `OthersFilesKept` |
| `account` | 3 threads, 2 backends, 2 protocols, 2 settings, 2 other mailboxes, a cache of 1 | `OneAccount`, `SettingsStick`, `SomeoneGoesOn` |
| `retry_documented`, `work_hours`, `thread_truncated`, `mentions_dropped`, `archive` | as above | each finds one documented statement that does not hold (section 7) |

Every run also checks its module's type invariant.

Why the bounds are enough to be interesting:

* *Gateway.* Two permits make a writer collect more than one and lets two reads
  run together; three reads and two writes give a queue with both kinds behind a
  writer, and a writer behind each of them; five calls for a queue of four make
  `Reject` happen. The proofs remove the bound for all safety properties, the
  refinement included.
* *Retry.* The budgets are: retries disabled, less than one wait, one or two
  waits, and several; the timeouts are shorter and longer than the wait. The
  clock needs no bound, since a call ends.
* *Delivery.* Two calls are a caller and its retry, or a reply whose orphan draft
  a later `send_draft` sends. Time is counted in quarters of a second; a search
  of Sent Items takes up to three, the budget is none or four, so the loop naps in
  full, naps for the rest, or is out of time. Two acts of the owner are a send and
  a move back to Drafts. A reply with mentions always searches: its ten seconds
  are `send_draft`'s default and never 0.
* *Availability.* Two appointments over four moments take every order, overlap
  and degenerate form, and reach the limit of 1; the proof covers any number.
* *Thread.* With three messages a limit of 1 and 2 drops something within a
  folder and across folders. Two changes are a move out of one folder and into
  another between their searches, twice.
* *Drafts.* Three calls: a draft is made, a change of it fails half-way, and the
  change is tried again or another one is made. Two files, of which one may be
  attached twice, tell "some of the old" from "some of the new". With two people
  a mention is a recipient, a Cc recipient, or a stranger.
* *Events.* Three calls: an event is made, a change of it fails though it was carried
  out, and the change is repeated. Half days tell a floored bound from one that
  is not, and a range of one day from a longer one.
* *Folders.* Two calls: the second looks for what the first created, renamed or
  deleted. Any of the root, the top of the information store and Inbox may fail to be
  listed.
* *Items.* Two calls on two items: a call and its retry, or two calls of
  different kinds; a batch of two ids, or of one id twice.
* *Downloads.* Two downloads and a visitor for three names: each finds names taken
  by the other kind; sizes at and above the limit, stated truly or not.
* *Account.* Three threads: one builds, one waits, one has finished; a cache of
  one makes every second mailbox evict.

`CHECK_DEADLOCK FALSE` appears where the model is a single call, or a fixed
number of calls, and really stops; the gateway and the account cache never stop
and are checked for deadlock.

Symmetry is used only in runs without temporal properties.

## 4. Fairness

*Gateway.* `WF` of each task's own step: the event loop resumes every task that
can go on, and anyio hands a lock or permit to the first waiter, so a waiter that
was served can go on. `WF` of `BodyReturns`: a body is a finite number of
requests, each with a socket timeout, under a retry loop with a deadline. There
is no fairness for `Admit`, `Reject` or `Cancel`: nobody has to call or cancel.
No strong fairness is needed, because the queues are FIFO.

*Retry.* `WF` of the next step: a request ends within its timeout and a sleep
returns.

*Account cache.* `threading.Lock` is not fair and Python promises no order among
waiters, so no thread's progress is claimed: only that somebody can always go
on (`SomeoneGoesOn`).

*Delivery, calendar, mailbox tools.* Sequential code between crashes; only safety
is claimed.

## 5. External assumptions

These are libraries and services outside `src/`, modelled from how the code uses
them:

* anyio: `Lock`, `Semaphore` and `CapacityLimiter` serve waiters in FIFO order; a
  release hands over before the waiter resumes; a cancelled waiter leaves the
  queue, and gives back what it was already handed. `anyio.to_thread.run_sync`
  shields the wait for a started thread.
* exchangelib: one `Protocol` object per endpoint and credentials; constructing
  an `Account` may fail; a request fails with one of the exceptions
  `_map_exception` names, or another, within the socket timeout.
* Exchange: a move gives an item a new id, a change a new change key; `SendItem`
  with an outdated change key is refused; a sent copy is visible to searches some
  time later; a request whose client gave up may still be carried out; a
  free/busy request yields a view per mailbox asked for, or an error per mailbox,
  in which a sample is free if no minute of it is busy.
* Exchange's saves write the fields that are named, or all that were loaded if
  none is; a rule is replaced whole. A batch is carried out id by id, and yields no
  result for an id moved to a foreign folder. Listing a folder may fail while others
  answer.
* The file system: `O_EXCL` creates a file or finds the name taken, in one step.
* The clock: `time.monotonic` never goes back and `time.sleep` is at most `Slack`
  late.

## 6. What is proved

Every safety property that a passing run checks, invariant or refinement, is also a
theorem: it holds for all values of the constants that satisfy the modules'
assumptions. The two properties under fairness stay with TLC.

| Module | Proves about | Theorems |
|---|---|---|
| `ToolGatewayProofs` | `ToolGateway`, `ArrivalOrderedAccess` | `GatewayTypeOK`, `GatewayWriteExclusive`, `GatewayPermitsConserved`, `GatewayAdmittedExact`, `GatewayThreadForEveryPermit`, `GatewayArrivalOrder` |
| `RetryReadProofs` | `RetryRead` | `RetryTypeOK`, `RetryWithinBudget`, `RetryWriteTakesEffectOnce`, `RetryBackoff`, `RetryGivesUp` |
| `MailDeliveryProofs` | `MailDelivery` | `DeliveryTypes`, `DeliveryDeliveredOnce`, `DeliveryTruthfulAnswer`, `DeliveryPlainErrorMeansUnsent`, `DeliveryCopyCarriesSubmission` |
| `AccountCacheProofs` | `AccountCache` | `CacheTypes`, `CacheOneAccount`, `CacheSettingsStick`, `CacheSomeoneGoesOn` |
| `CalendarProofs` | `FreeTime`, `MeetingSlots`, `EventEditing` | `FreeTimeTypeOK`, `FreeTimeRight`, `FreeTimeMaximal`; `OfferedSlotsAreFree`, `NoSlotMissed`; `EventsStayWellFormed`, `OwnersEventSurvives`, `AttendeesRight` |
| `DraftProofs` | `DraftEditing` | `DraftTypes`, `MentionsAlwaysReach`, `DraftsHaveTheirFiles` |
| `MailboxToolsProofs` | `Downloads`, `ItemActions`, `ThreadAssembly`, `FolderLookup`, and their composition in `MCMailboxTools` | `DownloadsTypeOK`, `DownloadSavedIsWhole`, `DownloadOthersFilesKept`; `ActionTypes`, `OwnersEditsSurvive`, `VerdictsAreTrue`; `ThreadTypes`, `ThreadAnswersOnce`, `ThreadKeepsNewest`; `FolderTypes`, `FoldersAsNamed`; `MailboxTypes` |
| `QueueLemmas` | what several of them need: `RemoveAt`, `RemoveFirst`, `Append`, `Head` and `Tail` on sequences without duplicates and the order in them; the least element of a set of numbers | |

Each inductive invariant stands at the end of the module it is about, and was
checked by TLC before it was proved.

**Gateway** (assumption: finitely many calls, reads and writes disjoint, positive
limits). `WriteExclusive` is not inductive: it needs that a running writer has
*all* the permits, which follows from their conservation, which needs to know
what every phase of a call holds and what a hand-over does to the queue. `IInv`
has these parts:

* `LockInv`: a call owns the lock exactly while it is in the turnstile or is a
  writer past it;
* `QueueInv`: the queues have no duplicates, hold exactly waiting calls, and a
  writer stands only at the end of the permit queue, since it holds the turnstile;
* `HeldInv`: idle and locking calls hold nothing, ready and running calls all
  they need, collecting ones less; a writer that holds a permit has no reader left
  before it, which is why a leaving writer never has to serve several waiters;
* `ThreadInv`: borrowed threads are running calls', and bodies are among them;
* `PermitsConserved` and `AdmittedExact`.

The hard step is `Exit`, which gives back permits and lock and serves waiters at
once; `ExitCases` splits it into "nobody served" and "the head of the queue
served". `GatewayWriteExclusive` follows because a writer holding `MaxWorkers`
permits leaves none for a reader; `GatewayThreadForEveryPermit` by counting.

`GatewayArrivalOrder` is the refinement: every step of `ToolGateway` is a step of
`ArrivalOrderedAccess` under the mapping `AheadOf`, or changes nothing it sees.
`IInv` says that whoever stands in a queue waits; the mapping also needs the
converse, `WaitersQueued`: whoever waits stands in a queue, and a free lock has
none. Otherwise a call could be in `run()` and be ahead of nobody. `AheadIsWho`
puts the mapping in terms of who stands `Before` whom in the lock queue, and
`AppendOrder`, `TailOrder` and `RemoveFirstOrder` say what joining, hand-over and
cancellation do to that. Then `Admit` is `Enter`, `Start` is `Begin` (a ready
writer has every permit, so no reader holds or awaits one), `BodyReturns` is
`End`, `Finish` and `Cancel` are `Leave`, and the rest stutters.

**Retry** (assumption: positive timeouts, `Slack` at most a timeout). The
invariant bounds the clock in each phase: an attempt began before the budget's
end, and its n-th request ends within n timeouts. `WithinBudget`,
`BackoffBeforeRetry`, `GivesUpOnlyWhenSpent` and `WriteTakesEffectOnce` are proved
for all timeouts, budgets and numbers of requests.

**Free time** (assumption: finitely many events). The loop invariant: what was
passed ends by the cursor; every slot ends before the cursor and before what is
to come; up to the cursor a moment is in a slot exactly if it is not taken. From
it `FreeTimeRight` and `FreeTimeMaximal` hold for any calendar and window. The
finiteness of the calendar is used once: a page as long as the whole list is the
list.

**Sending** (assumption: timeouts and bounds are naturals, names are distinct).
`DeliveryIInv` rests on Exchange's versions: an id changes with every move and
every sending, so what has seen a draft either finds it unsent or finds another
id (`StillDraft`), and what has stamped a message either sends the stamped version
or finds another change key (`RequestOK`, `CallOK`). That is required of the
running call *and* of every request given up on its way, which is what makes a
late request harmless. `MessageOK` ties the mailbox to it (what is marked as a
draft has not been sent; what was sent bears its sender's stamp) and `OutcomeOK`
the answers (a call whose outcome is open, or is a plain error, has sent nothing
and left nothing behind that could). Every change of a message is first shown to
be one of a few kinds (`Evolves`), so each request and each thing the owner does
is compared with the calls once. `DeliveredOnce`, `TruthfulAnswer`,
`PlainErrorMeansUnsent` and `CopyCarriesSubmission` follow, for any number of calls
and any amount of meddling. `TypeOK`'s polling budget is in `OneRuns`.

**Account** (assumption: `None` is no other value). `LockInv` reads each lock's
holder off the threads' places; `PhaseInv` says that what a thread has found out
is still true, above all that a backend has no account while one is being built
and that a protocol is unconfigured while it is being patched. `OneAccount` and
`SettingsStick` follow. For `SomeoneGoesOn` the argument is the order of the
locks: if nobody is past the configuration's lock it is free; if nobody waits for
it either, the own accounts' locks are free; if nobody waits for those, the
other mailboxes' are. `CacheTypes` needs one thing more about the cache of other
accounts, `CachedInv`: it holds each mailbox once, and not the one that is being
built. Whoever is past the look-up holds that backend's lock, so nobody can have
put the mailbox there meanwhile; that is why an eviction, which takes away one
entry, makes room for one. It is inductive relative to `CacheIInv`.

**Downloads** (assumption: `Nobody` and `Others` are no calls). A file a call
made has the name the call is at and holds what it has written; a file gets into
`disturbed` only through those other programs. `SavedIsWhole` and
`OthersFilesKept` follow.

**Meeting slots** (assumption: minutes are integers, durations and limits are
positive, work hours lie in a day). The cursor is always on the grid of
candidates (`OnGrid`); what came back says of each sample whether its minutes are
free (`SamplesTrue`); whatever free candidate lies before the cursor was taken
(`PassedTaken`). The sample at `Position` covers the start of the candidate and no
other sample does (`CandidateSample`), and for a duration of at least `MinSample`
it is the slot itself: that is arithmetic about `\div`, and `OfferedSlotsAreFree`
and `NoSlotMissed` rest on it. The latter also needs that a scan
that ended short of its limit has passed the last candidate.

**Events** (assumption: a request has a proper range if it has both bounds, nobody
is both added and removed, a range set by the owner is proper and, for an all-day
event, made of midnights; the first two are validators of the request model).
`EventIInv`: until it saves, a call has changed nothing (`NothingSaved`), and what
it is about to save was worked out from the event as it still is, unless the
owner came in between (`CopyFresh`). `AttendeeIInv` adds the same for the lists of
attendees (`AboutToSave`). `AttendeesRight` is then about two list operations:
`Times`, how often somebody is listed, is followed through `Remaining` and
`Newcomers`, each of which picks places of a list; the places picked are numbered
by their rank, which is a bijection.

**Drafts** (assumption: only the creators and `update_draft` have a body, and only a
request with a body mentions people; `add_attachment` has one file). A call is a list of requests worked out from
the fetched copy, so the invariant says which request is next (`JobsInTurn`) and
what the ones before it have done to the draft (`Progress`): the n-th request of an
`update_draft` finds the attachments that the first n - 1 have left, or the first
files of the new ones, under the latest ids. If the owner touches the draft
during a call nothing is claimed about its files (`Undisturbed`), but still that
the header names nobody whom the body does not mention.

**Items** (assumption: a call has at least one id; those with several are loops or
batches). The ids left are the rest of those asked for (`InTurn`); what is held
between fetch and save is the item as it is but for the fields and the single
categories that the owner changed in between, which are in `raced` (`HeldTrue`); so
a save leaves of each field, and of each category, what the call asked for, what
would be there without it, or what was raced (`FieldsTrue`); and an answer given for one id stays true while the other ids are
dealt with, an id that occurs twice included (`AnswersTrue`), since what is asked
for is idempotent and what is deleted stays deleted. From it follow
`OwnersEditsSurvive` and, with what `BulkResult` makes of the answers,
`VerdictsAreTrue`.

**Threads** (assumption: finitely many messages, positive limits). Of a folder that
was searched, a message that stayed is collected, or as many newer ones are as the
limit allows (`Accounted`); a later search only adds to what is collected. What a cut
to `n` leaves out has `n` newer items that it keeps (`NewestIsAbove`): the argument
takes an oldest item (`OldestItem`), which exists by `LeastNumber`, where one would
rather use induction on the number of items.

**Folders** (assumption: every name the code gives a folder is among `Segments`, a
tree holds each folder's parent). `FolderTypeOK` is inductive and enough: each
look-up is judged in the state in which it was made. `ResolveFinds` says what
`Walk`, `FromTops` and `ByPath` can arrive at, for any set of folders that cannot be
listed; with none failing, at the folder meant first.

**Composition** (`MailboxTypes`). A behaviour of `MCMailboxTools` in which one group
of tools is at work is a behaviour of that group's own specification
(`GroupStarts`, `GroupSteps`), and the group never changes; so each group's
theorem carries over.

What the proofs changed in the model, the model checker having been content:

* `EventEditing` had two `CASE` expressions whose arms overlapped, with the same
  value where they did; they are `IF`s in the order of the code now.
* The assumptions on the constants of `EventEditing`, `FolderLookup` and
  `DraftEditing` did not say all that the instances satisfied and the code relies on.
* `EventEditing` picks from lists with `AtPlaces` instead of `SelectSeq` and a fold,
  whose recursive definitions the provers cannot unfold for every list. TLC found
  the new definitions equal to the old ones on all lists of up to three elements.
* `Walk` of `FolderLookup` returns the set of the folders it arrives at, so that the
  order of the attempts is a chain of `OrElse` and not of nested cases.
* `FolderLookup` has a constant `Segments` for the names a folder may have; the
  provers do not know that a literal is a `STRING`.

Only model-checked: `EveryCallLeaves` and `CallReturns`, which are temporal and rest
on fairness, and the absence of deadlock in the gateway, which is about `ENABLED`
(for the account cache `SomeoneGoesOn` says it as an invariant, and is proved). No
theorem computes a recursive definition for every input.

## 7. Disagreements between code and documentation

1. **A call's bound** (`retry_documented`). `mcp_tools.py:69` says a call is
   bounded by `EXCHANGE_TIMEOUT` plus the retry budget. A read that makes several
   requests (a folder lookup and a search, say) may take one timeout for each.
   `WithinBudget` states the bound that holds.
2. **Work hours across midnight** (`work_hours`). `calendar.py:618` compares times
   of day, so a slot that begins within the work hours and ends after midnight
   passes. The slots that end on the day they begin are right
   (`OfferedIsFree`).
3. **A truncated thread that does not say so** (`thread_truncated`).
   `models.py:110` says that `truncated` tells when messages were dropped; each
   folder's search is already cut to the limit (`email.py:583`), and what is lost
   there is not counted.
4. **A mention that no one receives** (`mentions_dropped`). `email.py:339` says that
   mentions must actually receive the message. `update_draft` completes the
   recipients with the mentions of its own request only; replacing `to` without the
   body drops somebody whom the body and the header still name. Right after a call
   that writes a body all is well (`MentionsReach`).
5. **The archive folder** (`archive`). `base.py:374` says that the named folder is
   preferred and the archive mailbox taken only when no such folder exists. A
   failed listing counts as "no such folder", so mail may be moved to the archive
   mailbox, or to the root, and is reported as moved.
6. **All-day events cannot be moved by one bound** (no run: it is an error in every
   state). `calendar.py:403` floors a lone new bound of an all-day event and then
   compares it with the event's other bound, which Exchange reports as a date;
   Python raises. `Incomparable` models it; with both bounds given, or none,
   all-day events stay well formed (`EventWellFormed`).

Two more things were seen and not made runs. `update_draft` is not atomic: a
failure after the first deletion loses attachments that no later call brings back
by itself; the model has this state, nothing documents otherwise, and a retry of
the same call repairs it (`FilesAsAsked`). And `email.py:571` says that a
thread is never empty, but a thread asked for by conversation id whose one
selected message vanishes before its body is fetched is returned with no
message.

## 8. What is not modelled

* Conversion of items to results, formatting, HTML, request validation and schema
  building: pure functions and tables. The constraints that validation puts on an
  operation's input are in the `Init` of its module.
* `list_emails`, `search_emails`, `get_email`, `list_categories`: one query each,
  no state of their own.
* Start-up, configuration and the choice of the transport: sequential, once.
* Authentication and TLS inside exchangelib.
* `create_contact` and `create_inbox_rule`: one request that depends on nothing, so
  nothing but its answer can be lost. Delegates, rooms, calendars, contacts and
  the global address list are only queried.
* The verdicts of a batch into a foreign folder in which some ids fail: what comes
  back depends on the server and on exchangelib (`VerdictsTrue` excludes it, and
  the list of hazards names it).
* Recurring events as series, shared calendars, and the cached folder tree of
  exchangelib.
* `ToolRegistry.call` and the statistics it logs.

## 9. Plan

Written: 1 `ArrivalOrderedAccess` and `ToolGateway`; 2 `RetryRead`;
3 `MailDelivery`; 4 `FreeTime` and `MeetingSlots`; 5 `ThreadAssembly`;
6 `AccountCache`; 7 `DraftEditing`; 8 `EventEditing`; 9 `ItemActions`;
10 `Downloads`; 11 `FolderLookup`; the proofs of all of them, of the refinement
of 1, and of
the composition's types.

Next: abstract specifications of what single tools promise, each one step
(`update_event` as a conditional change of the event, a bulk call as a function from
ids to outcomes), with the detailed modules shown to implement them; and the
gateway composed with the facade, so that the bound on a call's duration becomes
one on a whole tool call.

## 10. How to run

    tlc -workers 4 -config MCToolGateway.cfg MCToolGateway
    tlapm ToolGatewayProofs.tla

and the same for the other `MC*.cfg` and `*Proofs.tla`; the longest run takes
about two minutes. `PROJECT.json` lists the components, runs, the mutation of the
model that each property detects, the source lines each definition stands for,
the hazards and the theorems.
