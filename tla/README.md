# Verification of the Primitive SDKs and CLI

This directory is a TLA+ development of the concurrent core of this
repository: specifications translated from the source, TLC runs on small
instances, and TLAPS proofs for every value of the constants. Paths below are
relative to the sources of the repository; `oclif/` stands for `cli-node/src/oclif/`.

## 1. The system

Primitive is an email platform for agents. The repository holds SDKs for Go,
Node and Python, and a CLI in which several independent processes of one
machine (a background listener, session hooks, `chat`, `emails wait`, `reply`,
detached workers) share mail and sessions through files. There is no daemon
that orders them: files, exclusive creation, atomic rename and a lock built
from those are all the coordination there is. That is where the difficult
behaviour of the program lives and what this project models first.

### Inventory

| Part | Where | State it keeps | Operations | Hard behaviour |
|---|---|---|---|---|
| Cross-process lock | `oclif/listen-state.ts` | one directory with one owner file | `acquireListenLock`, release, `listenLockHeld` | crashed owners, reused pids, reclaiming in two system calls |
| Mail files and journal | `oclif/shared-mail-files.ts`, `shared-mail-state.ts` | record files, `pending.json` | `transaction`, `recover`, `commit` | crash or power loss between any two file operations |
| Shared mail store | `oclif/shared-mail-state.ts`, `conversation-follow.ts` | emails and their routes, waits, indexes `parents/`, `unbound/`, `matches/`, follows | 17 operations, each one transaction | several consumers of one email, replies earlier than their send's id, dead waiters |
| Automatic working signals | `oclif/auto-signals.ts`, `auto-signal-worker.ts` | lease, stop, holds, pending restore, in-flight marker, all separate files | halt, restore, release, renew | several answers and workers with no lock between them |
| Signal command | `oclif/signal-command.ts` | durable intent per slot | `sendSignal` | retry after a lost request |
| Reply waits | `oclif/connected-reply-wait.ts`, `commands/chat.ts`, `commands/emails-wait.ts` | position in the send/bind/observe protocol, the chat receipt | register, uncertain, send, bind, inspect, finish, cancel, run again | death between send and bind; late or duplicate replies |
| Listening notifications, native sessions | `oclif/listen-notifications.ts`, `notify-session*.ts` | receipts with an index and a journal | claim, submit, mark, reconcile | a turn submitted whose result is lost |
| Shared receiver | `oclif/shared-mail-receiver.ts`, `shared-mail-watch.ts`, `shared-mail-transport.ts` | stream lock, `owner.json` | own, announce, receive, hand over | several processes electing the one that connects; an owner that dies, fails or closes with an event in hand |
| Pending mail and wake-ups | `oclif/pending-mail.ts`, `wake-mail.ts` | pending rows per session | record, claim, remove | a hook that dies after claiming |
| Chat lock | `oclif/chat-lock.ts` | one lock file, guard files named after the record they guard | `acquireChatLock`, reclaim, release | contenders delayed between judging and reclaiming; chains of dead guards |
| Chat state and receipts | `oclif/chat-state.ts`, `reply-state.ts`, `chat-receipt.ts` | conversation, one receipt per command | save under the chat lock | a command run again with the same key |
| Listener commands | `oclif/listen-runner.ts`, `listen-background.ts`, `listen-handlers.ts` | subscription record | run, detach, stop | reconnects, durable subscription ids |
| Event receivers | `sdk-go/event_receiver.go`; also `sdk-node/src/api/events.ts`, `event-transport.ts`, `sdk-python/src/primitive/event_receiver.py` | names in use, connection, delivery in hand | Listen, Wait, Ack, Retry, Close | deadline, repeated answers, lost receipts and Close at once; the name given up by several goroutines |
| Agent enrolment, profiles, sessions | `oclif/agent-*.ts`, `machine-session.ts`, `session-records.ts` | profile and session files | enrol, connect, disconnect | mostly sequential under the lock |
| Contacts and presence | `oclif/contact-request-state.ts`, `presence-control.ts` | request files | request, accept, publish | matched acceptance of a request |
| Payments | `sdk-go/x402.go`, `sdk-node/src/x402` | none across calls | charge, sign, pay, settle | a charge or payment repeated after a lost answer; clocks that drift; late settlement |
| Webhooks, parsing, trust | `sdk-*/webhook*`, `sdk-node/src/parser` | none | verify, parse, sanitise | pure functions |
| Generated clients | `sdk-go/api`, `packages/api-core`, `sdk-python/src/primitive/api` | none | requests | generated code |

### How the parts interact

Every stateful part takes the cross-process lock around its files (about
twenty callers). A store transaction runs under it and starts by finishing
what an interrupted one left. The receiver ingests and hydrates emails; reply
waits and session notifiers then claim them from the store, which decides who
gets each email. The receiver itself is the SDK's: it leases events from the
server over one connection per subscription name and completes each with the
application's verdict. In the CLI one process at a time owns that connection:
the others read its record, search the service once per owner and gap, and
then trust the store. A chat command holds the chat lock of its conversation
from before its wait is registered until its receipt is settled. Reading an email to a session starts a working lease;
whatever answers the email stops it first, and restores it if the server
definitely refused the answer.

### What makes each part correct

* Lock: at most one live holder; a holder's file is never taken away; a probe
  never calls a held lock free; crashed owners do not block the next one.
* Journal: a transaction happens completely or not at all; recovery always
  succeeds; nothing is forgotten before it is durable. (Section 5 shows the
  fault under which the first two fail.)
* Store: one consumer per email; no native turn for an email that a waiting
  process, or a send whose outcome is unknown, may be owed; exact indexes; a
  completed wait has observed every reply routed to it; a conversation keeps its session; waits end once.
* Chat lock: a live holder's record stays the lock; a process alone gets it.
* Reply waits and listeners together: a send is posted once; a reply is shown
  or stays recoverable; an email has one reader at a time and is shown to one,
  once; the store's word on
  an email agrees with what happened in the session.
* Shared receiver: one process receives at a time; a wait that stopped
  searching misses nothing; a wait left to run ends with its reply.
* Payments: an order is paid once; one nonce per challenge; nothing settles
  late; what is signed can settle.
* Signals: no renewal on its way when an answer goes out; one renewer; refused answers give
  the indication back; an answer is never blocked by a dead renewer.
* Event receiver: one receiver per name; the server hears only what the
  application said; success means recorded; Close, Ack and Retry return and
  names come free whatever the other side does.

## 2. Modules

| Module | Models | Checked by | Proved in |
|---|---|---|---|
| `ListenLock` | `acquireListenLock`, its release, `listenLockHeld` | `ListenLock` | `ListenLockProofs` |
| `MutexLock` | abstract: what a lock promises | refined by `ListenLock` | refined by `ChatLock` while nothing crossed, and by the name of an `EventReceiver` |
| `SharedMailJournal` | `transaction`, `recover`, `commit`, file primitives | `SharedMailJournal`, `SharedMailJournalPowerLoss` | `SharedMailJournalProofs` |
| `AtomicStore` | abstract: what the journal promises | `SharedMailJournal` takes its steps until a replayed journal is lost; `SharedMailJournalPowerLoss` | `SharedMailJournalProofs` |
| `SharedMailStore` | every operation of the store, conversation follows | `SharedMailStore`, and composed in `MailReaders` | `MailReadersProofs` |
| `AutoSignals` | the working lease of one email, answers and workers | `AutoSignals` | `AutoSignalsProofs` |
| `EventReceiver` | Listen, Wait, Ack, Retry, Close of the Go SDK; the server is external | `EventReceiver`, `EventReceiverLive` | `EventReceiverProofs` |
| `EventDelivery` | abstract: what the receiver promises of each lease | | refined by `EventReceiver` |
| `X402Payment` | charge, sign, pay and settle of the Go SDK; platform and chain external | `X402Payment` | `X402PaymentProofs` |
| `ChatLock` | `acquireChatLock`, `reclaimStaleLock`, release | `ChatLock`, `ChatLockTwoOwners` | `ChatLockProofs` |
| `MailServer` | external: the mail service as the two readers of the store use it | in `MailReaders` | |
| `ReplyWait` | the connected chat command, its receipt and its wait, over the store | in `MailReaders` | |
| `NotifySession` | the listener, its receipts and the native turn, over the store | in `MailReaders` | |
| `MailReaders` | composition: chat command, listeners, server and store | `MailReaders` | `MailReadersProofs` |
| `MailDelivery` | abstract: who reads an email, and how often | refined by `MailReaders` | `MailReadersProofs` |
| `SharedReceiver` | owner election, owner record, transport, and the waits that follow them | `SharedReceiver` | `SharedReceiverProofs` |

The layers rest on one another: `ListenLock` proves what lets
`SharedMailJournal` treat "the transaction inside the lock" as a single
`stage`; `SharedMailJournal` refines `AtomicStore` as long as no power loss
drops a journal that was replayed unsynced, which is what lets
`SharedMailStore` make every operation one action (that module has no power
loss, and a process that only stops cannot tear a transaction); `AutoSignals` uses the lock
as one atomic acquisition per email, and `SharedReceiver` as one per stream.
`MailServer` EXTENDS the store, `ReplyWait` and `NotifySession` EXTEND the
server, and `MailReaders` puts the two together: every step of theirs that
touches the store is one of its operations, which `ReadersUseTheStore` proves,
so all that is proved of `SharedMailStore` holds of the composition. What
the composition promises as a whole is `MailDelivery`.
`ChatLock` is what lets `ReplyWait` have a single `cmd`. `EventReceiver` and
`X402Payment` stand apart from them:
the first has goroutines that share memory, the second no state at all.

`MC*` modules only name model values and symmetry sets. Operators commented
"With a bug:" are not part of any specification: each is the named action or
helper as a plausible mistake would write it, and a property that matters must
fail when it replaces the original.

### ListenLock

A process incarnation (`Procs`) is one run of a process; `PidOf` lets two
incarnations use one pid at different times. Each action is one system call
of `acquireListenLock` (rename, readdir, `kill(pid, 0)`, the identity read,
unlink, rmdir) or of the probe. `entries` are the owner files in the lock
directory, and a rename succeeds exactly when there are none. The identity of
a live pid may be withheld by the OS (`Hidden`), in which case the code
must refuse. A process may `Die` anywhere. The owner-file name and its JSON
are one value; symbolic links, foreign entries and I/O errors other than those
the code names are left out. The legacy `darwin:` identities compare as
unknown, which is the `Unknown` case.

### SharedMailJournal

`files` and `pending` are what the file system shows; `kept` and
`keptPending` are what a power loss may leave, because a rename or unlink is
durable only after its directory fsync (`syncMailDirectory`). `Stop` is a
process that dies or throws between two file operations; `MachineFails` a
power loss, at any moment. Two variables follow one chain of faults: a process
that stops between renaming a journal into place and syncing its directory
leaves it `exposed`; recovery does not sync a journal it finds, so a power loss
after it has replayed records from it may bring back another `pending.json`
than the one they were written from. Then the store is `torn`.
`ImplementsAtomicStore` is what a transaction should promise, and the run
`SharedMailJournalPowerLoss` shows that it does not hold (section 5);
`AtomicUntilTorn` is what does: every step is a step of `AtomicStore` until
then. `RecoveryNeverRefuses` is restricted in the same way, because an unlink
that was not synced may bring the lost journal back later, over records that
were changed since. The store of the transaction's action is data: which
records it reads does not matter.

### SharedMailStore

One action per operation of the object `openSharedMailStore` returns, with
the guards of its throws. A call that throws or only reads is a stuttering
step. `wait.waiters` is a set of process tokens, `gone` those the operating
system proves ended, and `tracked` says whether the record has a waiter list
at all (older CLIs wrote none). Details are the fields routing depends on:
sender, parent send, thread and verdict. An exchange that a contact acceptance
completes is a wait with `contact`. Page cursors and list operations, which
read only, are left out; `reserveSharedMailSubscription` belongs to the
listener part.

### AutoSignals

One email whose lease was just started (`startWorkingLease`). Every file of
the protocol is a variable and every file operation an action; an answer is
any command that halts the lease, sends, and restores on a definite refusal.
The worker's loop is modelled to its end: within a round (one hold of the
email's lock) it renews without bound, and `MaxRounds` bounds how often it
takes the lock again.
A stop is created and written in two steps: until it is written (`blank`) it
is there for an exclusive creation and reads as not stopped, for ever if its
creator is killed in between. The other files take one step: a hold counts by
its existence, and a marker or a pending restore that is not written yet reads
as if it were not there (if a pending restore is being overwritten, whoever
overwrites it looks at the holds next and goes on in the other's place).
A renewal's request is on the `wire` from `PostSignal` until it `Lands`; its
worker may be answered, give up after its timeout or be killed meanwhile.
Time is abstract: the cap, the next renewal window and the timeouts are
nondeterministic choices, and an answer may stop waiting for a renewal in
flight at any moment (`GiveUpWaiting`: the marker is old, or 15 s have
passed). `halted` is history: the answers that left their wait with a readable
stop and no renewal in flight. An email that is indexed after the halt, the
`read` signal, the index of active leases and the identities of signals
already sent are not modelled.

### EventReceiver

Calls of `Listen` and `Wait` on one subscription name of one `EventsResource`.
`pc` is where a call's own goroutine is, `hand` the calls of `Ack` and `Retry`
(a listener completes through one too), `delivery` the `PendingEvent`, `wire`
the socket with the one exchange on it. A step is what one goroutine does
between two points where another can act: under the mutex, up to the next
select, or one request. `reserve`, the section of `complete` under its mutex,
and the publication of `cancelReceive` are single actions because they hold a
mutex. A completion over a lost connection dials, stores the socket and writes
in separate steps, since the delivery may be over and the name free when the
dial returns; the socket is then stored for a moment and closed unused. The
timer takes two steps, firing and cancelling, since `timer.Stop` does nothing
in between.

The server is modelled from how the client uses it: it leases an event under a
fresh token, records a completion while the lease is held, gives a receipt for
what it recorded, ends a lease at any time, and answers anything with an
error, a lost connection or nothing at all. Completions are a set: one may
arrive late, twice, or never. Clocks are abstract: the acceptance deadline and
the end of a lease by the client's clock come at any moment. `MaxLeases`
bounds how often one event is leased. Left out: the poll transport, status
callbacks, gaps, the keep-alive reader, and callers of one `Wait` on several
names (names do not share state).

### X402Payment

The client keeps nothing between calls, so every call may be made again at any
time: an answer that is lost is a handover that does not happen (`handed`), a
signed authorization may be settled at any later time, several times or never.
`Charge` with an idempotency key returns the challenge of the first one.
A challenge reaches the payer in a copy, exact or `spelled` otherwise (the
identifiers' case), since an email carries it; nonces are derived from what the
code normalises. `now` is the clock of the contract, `Drift` how far each
payer's is ahead. `ComputePaymentValidityWindow` is translated with its
default, its clamping and its refusals; `WindowAssumption` keeps of the code's
constants (300, 300, 86400 and 60 s) only how they compare. Left out: amounts,
assets, spend policies, payout addresses, listings.

### ChatLock

A record is a call's own file (inode and contents), `path` the record linked
as the lock, `guard[r]` the one linked as the successor of `r`. Each action is
one link, read, `kill(pid, 0)` or unlink of `acquireChatLock` and
`reclaimStaleLock`; the chain of guards a contender follows is `links`.
Incarnations may share a pid, which reads as alive. `published` and `crossed`
are history variables: the second becomes true when a contender that started
from an old lock is elected over, or reads on through, a guard that belongs to
another lock. `acquireChatStateLock` repeats this call until a deadline.

### MailServer, ReplyWait, NotifySession, MailReaders

`MailServer` accepts or refuses a send under its key (a repeated key is the
same send), lets emails arrive, replies only to what was sent, and puts them
into the store as the shared receiver does.

`ReplyWait` is the connected `chat` command from opening its wait to settling
its receipt: `cmd.step` is the next of its store transactions, saved receipts
and requests; it may throw (with the code's clean-up) or die at each of them,
and be run again with the same key, when the receipt decides where it goes on.
A saved send that is looked up may turn out accepted or refused. At the end the
receipt is completed first and the reply shown afterwards.
`receipt` is the file of `chat-receipt.ts`; `posts`, `reported` and `dropped`
(replies whose command was killed between the two) are history. The chat lock makes it one command at a time.

`NotifySession` is the listener from listing to reconciliation: policy and
presence are a nondeterministic verdict (`Judge`), then claim, the receipt
`submitting`, the native turn, which may be accepted, refused or end without
an answer, the receipt of its outcome and the mark in the store. `receipts` and
`index` are two directories updated under `pending`, their journal; a listener
may die between any two writes and is started again.

Left out: joining a wait of another process from the chat, `emails wait`,
waits for contact requests, chats without a connection, several delivery
events of one email, `already_sent` and other records without a final outcome,
the halting of working signals, status mail; which emails the listener has settled in memory is over-approximated.

### SharedReceiver

`main[p]` is where process `p` is in `next()` of a reply wait, or in the same
loop of a listener (`Wanted[p] = None`); `carrier[p]` where its transport is,
if it owns the connection. `lock` is the stream lock (a lock of `ListenLock`),
`owner` is `owner.json`, and `Read` is the record with the answer of the probe.
A process owns at most once: after any end of its transport it either closes or
its next look throws, so its own name stands for the generation. The service is
external: a subscription with a queue, leases and a gap count, which may lapse,
drop an event and count it, or be deleted as a whole. An email can be searched
for from when it arrives; an event is queued only if there is a subscription.
`ready`, `gap` and an abstract `alive` are kept of the record. Watchers are
hints and poll once a second anyway, so they do not appear. The scan of the
store passes over unclassified mail from before the wait's floor (its
registration by the local clock, less ten minutes): `ahead` are the waits whose
clock was so far ahead that their reply lies before it, and whether another
consumer classified the reply is left open. Not modelled: page cursors,
resumed replies and everything before the send is bound (which is
`ReplyWait`). `Forget` clears what a process held in memory.

## 3. Runs

| Run | Instance | Shows |
|---|---|---|
| `ListenLock` | 3 incarnations (one of unreadable identity), 2 pids, 1 prober, 2 calls each, 2 attempts, fair | refinement of `MutexLock` and with it exclusion, reclaim only of the dead, the probe; every call returns; a lone process gets the lock whatever was left behind |
| `SharedMailJournal` | 3 records, 3 contents, 2 writes a transaction | steps of `AtomicStore` until torn, recovery never refuses until then |
| `SharedMailJournalPowerLoss` | the same | the finding of section 5 |
| `SharedMailStore` | 1 email, 2 waits, 1 send, 2 sessions, 2 waiters, 1 contact, 1 thread | indexes, routing, completion, one consumer |
| `AutoSignals` | 2 answers, 2 workers, 1 hold of the lock each, fair | stop, hold, restore and signals in flight under all interleavings; every answer goes out |
| `EventReceiver` | 1 Listen, 1 Wait, 2 hands, 1 event, 2 leases | one receiver, only the application's verdict, success is recorded |
| `EventReceiverLive` | 1 Listen, 1 Wait, 1 hand, 1 lease, fair | Close, Ack and Retry return; names come free |
| `X402Payment` | a keyed and a mailed order, 2 challenges, 2 payers (one clock slow, one fast), 2 signatures, 4 ticks | paid once, one nonce, never late, can settle |
| `ChatLock` | 4 incarnations, 3 pids, one of them calls twice, nested to 2, fair | the holder's record stays; a lone contender gets the lock |
| `ChatLockTwoOwners` | 5 incarnations, narrowed to one order of starts and deaths | the finding of section 5 |
| `MailReaders` | 1 email, 1 send, 1 session, 3 runs of the command | refinement of `MailDelivery`; a reply is read once or stays recoverable, whatever fails in between |
| `SharedReceiver` | a reply wait and a listener, 1 email, 1 gap, 2 subscriptions, fair | one stream; no reply overlooked; the wait ends with its reply |

Why the bounds are enough. Lock: three incarnations give a holder that
dies, a reclaimer that is delayed and a third process that installs its own
file in between, with or without the dead one's pid; two calls each let the
delayed one meet a second generation of its own. Journal: three records with
three contents give a journal that is half written, a second journal over the
same record and one record outside both. Store: one email is enough for who
gets it, two waits and two sessions for every pair of consumers;
`MaxWaiters = 1` makes the full record reachable. With one email
`CompletedWaitObservedAll` is about that one only; a second reply, claimed and
not yet read, is the theorem's (`CompletedWaitsAreDrained`). Signals: two
answers and two workers meet in every pair of roles, and the second worker's
round follows the first one's. Receiver: a listener and a waiter take the name from each
other, two hands are a first and a repeated or contrary answer, and the second
lease is the same event again after a retry or a lapse; the live run needs one
of each, since what it shows is about a single call against the outside.
Payments: two challenges can be for one order or two, two signatures can be
for one challenge or two, and the clock passes every bound of a window.
Chat lock: a holder with a pid that is used again, a reclaimer, a contender
that dies elected and one that comes late; `ChatLockTwoOwners` needs a fifth
and its constraint only says where to look (a violation found under a
constraint is a behaviour of the specification). Mail readers: one email is
what readers compete for, and a command run three times fails, resumes and
completes; with two requests and two sends, and with two sessions, the same
properties were checked apart from these runs (the second takes five
minutes), two emails are beyond a run. Shared receiver: with two processes the
stream is handed over in both directions and to nobody, the second
subscription is the one after a deletion, and one gap is before or after a
search; a third process only adds another owner like the second.
`CHECK_DEADLOCK FALSE` is set where the modelled system ends: all lock calls
were used up, every answer and worker has finished, every receiver ended,
or every command, listener and process has.
Symmetry is used for safety only.

Fairness. `ListenLock`: a live process goes on with a call it started
(the call is synchronous code), but nobody has to start, release, or die.
`AutoSignals`: a live worker goes on, since its requests have timeouts; and an
answer's look for the in-flight marker is strongly fair, since it polls every
50 ms while a renewer sleeps for minutes between its renewals, so it cannot
miss every gap. That it also gives up after 15 s is possible and not assumed.
`EventReceiverLive`: goroutines are scheduled, timers fire, and a connect whose
context was cancelled returns. Nothing is assumed of the server, the network,
the handler or whoever holds a delivery. `ChatLock`: the call is synchronous
code, so a live process runs it to its end. `SharedReceiver`: running processes
and transports go on; a process that keeps asking for a free lock gets it,
which is `LoneProcessAcquires` when it is alone and the lock's retries
otherwise (strong fairness of `Elect`); the service sends status frames, a
lease ends by itself, and after some time the network loses nothing more. That
last assumption excludes only a network that breaks for ever just before the
owner's record is seen to be ready; without the end of leases an offer that
was lost keeps its email from everybody, and `RepliesAreFound` fails.

## 4. Proofs

Everything is proved for arbitrary sets of processes, records, emails, waits,
answers and so on, from the named assumptions of the modules (a bound is a
natural number, `None` is not a value, answers and workers are distinct).

* `ListenLockProofs`. The inductive invariant says that the files in the lock
  are at most one, that each names its creator's call and was installed by
  it, and that whoever is about to unlink a file judged *that file's creator*
  to be dead, a judgement that stays true because incarnations never come
  back. Mutual exclusion alone is not inductive: it does not say why a
  delayed reclaimer is harmless. From it: `TypeCorrect`, `Mutex`,
  `HolderFileKept`, `OnlyTheDeadAreReclaimed`, `ProbeIsSound` and the
  refinement `ImplementsMutex`.
* `SharedMailJournalProofs`. `JInv` relates what the disk shows to what may
  survive: records only change while a durable journal names them, a journal
  is forgotten only when its records are durable, and a journal whose unlink
  was lost (a ghost) describes what the files already hold; the relation is
  claimed while nothing was torn, and `exposed` says which journals it does not
  call durable. From it: `RecoverySucceeds`, `ForgetsOnlyApplied` and
  `ImplementsAtomic`, every step up to a tear a step of `AtomicStore`.
* `MailReadersProofs`, first part: the store. The three indexes, the types and
  the routes are one inductive invariant (`StoreInv`); the per-step properties
  (`NoSecondConsumer`, `NativeOnlyUnawaited`, `WaitsNeverRestart`,
  `SessionIsKept`) follow from it action by action. `NativeOnlyUnawaited` needs
  both indexes to be exact, because `claimForNotification` looks at them and
  not at the waits. From the index of matches also `CompletedWaitsAreDrained`,
  since `finishWait` looks only there, and `CompletedWaitsHaveReplies`: a
  completed wait has a send, so the reply it ended with names its parent, and
  both the verdict on that email and its route are final (`CompletedInv`).
* `AutoSignalsProofs`. A worker between acquiring and releasing has the lock
  and its own marker (`SInv`), so there is one renewer. While nothing was
  refused no stop is removed, so after an answer that left its wait for a
  readable stop and no renewal in flight every renewer meets the stop before
  its request (`QInv`): `AnswerSilencesWorking`. With one refusal a restore can
  remove the stop, but an answer that is delivered or may be has its hold or
  its own stop until then, so the restore looks at the holds after its unlink,
  finds one and puts the stop back (`CommittedGuarded`): `DeliveredKeepTheStop`.
  And a refused answer beside which nobody answers meets only workers' holds
  (`LoneRestore`): `LoneAnswerRestores`.
* `EventReceiverProofs`. Four layers. `Typed` adds to the types where hands
  can be at work and that an offer names a lease. `NameHeld` says a call owns
  the name from its reservation until it is freed, has its socket open at most
  as long, and gives both up in that order and only when it is closing or its
  delivery is over; a context that is done stays done, so a hand that was
  dialling when the name was released stores at most a quiet socket, which it
  closes unused (`DialledInPlace`): `NameIsExclusive`. `Recorded` says a hand at work
  has the verdict that was chosen and a receipt on the wire is for that
  verdict; records at the server do not change: `SuccessIsRecorded`. `VInv`
  says a lease is with one call, on its way there or in its hands
  (`LeasesApart`), that nothing was said of it before it arrived, and that the
  verdict chosen for it is the first the application said (`SaidFirst`), so
  whatever is sent, twice or late, says the same: `FirstVerdictOnly`. Two
  refinements follow. The name alone is a `MutexLock` of the calls
  (`NameImplementsMutex`). And of calls, sockets, hands and timers the
  application sees no more than `EventDelivery` (`ImplementsDelivery`): the
  fate of each lease, the first word on it, and the reports of `Ack` and
  `Retry`; all that a connection loses or repeats is a stutter there.
* `X402PaymentProofs`. The invariant ties what is signed to the challenge it
  is for: nonce, window and clock. `PaidOnce` needs that a key has one
  challenge and a nonce is spent once; `NonceNamesChallenge` that each copy of
  a challenge derives the same nonce and different challenges never do.
  `NeverLate` and `WindowsCanSettle` are arithmetic over the default window
  under `WindowAssumption` and `DriftAssumption` (drift below the skew, and
  below the margin less the headroom); `PinnedNotMoved` needs neither.
* `ChatLockProofs`. Each record is the lock at most once (`Generations`), a
  guard is of the lock its owner found or, through a dead guard, of one that
  stands for the same lock (`Guards`), and what an elected contender goes on
  to unlink has exactly one living end in its chain (`OneEnd`). All of that
  is conditional on `~crossed`, and so are `HolderRecordKept` and `OneOwner`:
  the finding of section 5 is the other case. In the behaviours that never
  cross the lock implements `MutexLock` (`UncrossedImplementsMutex`): a
  contender takes a free lock with one link, and its owner gives it up by dying
  or by calling the outermost release (`StepHandsOver`).
* `MailReadersProofs`, second part: the readers. First the refinement: every
  step of the composition is a step of `SharedMailStore` or leaves the store
  alone (`ReadersUseTheStore`), which carries the store's theorems over. Then
  three invariants over it. `ChatInv` relates the command's step to its receipt
  and its wait (a post only under a saved attempt, a claimed reply named by the
  receipt before it is observed, and a receipt completed before its reply is
  shown only by a command that is about to show it): `PostedOnce`,
  `RepliesAreKept`. `TurnInv`
  relates the listener's step to route and receipt (a turn only after a
  submitted claim of its own): `OneReaderShows`, `RoutesTellTurns`,
  `InterruptedUpdatesFinish`. `FirstInv` says that a send which may have gone
  out keeps its wait uncertain until its outcome is in the receipt, whether a
  command runs or not (`IntentInv`), and that a running command's token is in
  the wait it attends to, so that no other process ends it for dead
  (`AttendsInv`). With the store's exact indexes, a claim for a native turn
  then meets that wait: `CommandsReadFirst`. The properties alone are not
  inductive: they do not say what a process that is half way will still do.
  From the first two also the refinement of `MailDelivery`
  (`ReadersImplementMailbox`), where a reader that has shown an email or
  skipped it keeps it for ever.
* `SharedReceiverProofs`. `RInv` says that a process owns once (`OwnsOnce`),
  that a record, on disk or read some time ago, names a process that has owned
  and counts no gap there was not (`RecordsCredible`), that the event a
  transport is at is stored unless it is about to be (`WorkStored`), and that
  whoever gave up searching did so for an owner it saw ready
  (`SearchesForOwner`). `NoReplyOverlooked` is not inductive without them: a
  search for an owner that is not receiving yet, or a record that counts a gap
  too early, would let a reply slip between the search and the stream. From
  it: `OneStreamAlways`, `NoReplyOverlookedEver`.

Proved and not repeated in a run, because a property that is there implies it
or it is a type invariant: `MutualExclusion` and `HolderFileKept` of the lock,
`ForgottenOnlyWhenApplied` of the journal,
`RenewalIsExclusive`, `PinnedAsAsked`, `OneOwner`, `ShownByOneReader` (which
`ImplementsMailbox` implies), and every `TypeOK`. The refinements of
`EventDelivery` and of `MutexLock` by `EventReceiver` and by `ChatLock` are
not repeated either; on the instances of those runs TLC finds that they hold.

Every safety and action property of the passing runs is stated by a theorem.
Only model-checked is liveness (`LoneProcessAcquires`, `CallsReturn`,
`AnswersGoOut`, `CloseReturns`, `AnswersReturn`, `NameComesFree`,
`LoneContenderAcquires`, `RepliesAreFound`), since TLAPS here does neither
fairness nor ENABLED.

## 5. Findings

`ChatLockTwoOwners`: two live processes can own the chat lock. A contender
that read the guard of an old lock and was delayed goes on, when its holders
died, along the guards of the lock that replaced the old one, because the
guard it read has become the lock itself. It is elected at one of them, sees
that the lock it was called for is gone and removes the guards it passed,
which are the present lock's. A second call of it is then elected at the lock's
own guard beside another contender that was elected there before. The
comments say that new generations use different guards (`oclif/chat-lock.ts`,
127-128 and 155-156) and a test that exactly one owner is kept
(`cli-node/tests/oclif/chat-lock.test.ts:275`).

`SharedMailJournalPowerLoss`: a transaction can stay half applied. A process
renames `pending.json` into place and stops before it syncs the directory
(`oclif/shared-mail-files.ts`, 95 and 96). The next one's `recover` finds the
journal and writes its records, syncing each (`oclif/shared-mail-state.ts`,
474-477), but not the directory of the journal. If power is lost during that,
the journal may be gone while the records written so far stay, and nothing
tells the next transaction. A journal lost that way may also return, from
under a later unlink that was not synced, and then recovery may refuse the
store. The tests (`cli-node/tests/oclif/shared-mail-state.test.ts`, 450 and
470) say that a torn transaction is recovered and that a commit which failed
before the journal was in place commits nothing. Syncing the directory before
replaying would close the gap.

Observations that the modules state and no run repeats; each is a definition,
or one without the named condition, that TLC refutes when it is added to the
named configuration.

* `NoWorkingAfterAnswer` (`AutoSignals.cfg`). A working signal may reach
  receivers after an answer (`oclif/auto-signals.ts`, comments at 474-475 and
  621-622) in four ways: a renewer is killed, or its request times out after
  5 s, with the request on its way; the answer gave up waiting; the answer found
  a stop that another command had created and not yet written, so that a
  renewer still reads the lease as active; or a restore has unlinked the stop
  and looks at the holds only afterwards. `AnswerEndsWorking` is what remains.
  A command killed between creating and writing its stop leaves the lease
  active until its cap, whatever answers come.
* `RefusedAnswersRestore` (`AutoSignals.cfg`). A holder that is refused while
  the owner is between seeing its hold and putting the stop back finds no stop
  to restore; the owner puts it back and leaves, and the lease stays stopped
  though all answers were refused (452-454).
* `OthersStopLeftAlone` (`AutoSignals.cfg`, as a property). The token is
  compared at 463 and the file unlinked by path at 471; a second restore of the
  token and a new stop fit in between (451).
* `OneRefusal` is why `DeliveredStaysStopped` is restricted (`AutoSignals.cfg`
  with three answers refutes it without that condition). Of two refused answers
  that restore the same token, the second unlinks by path the stop that a third
  answer, delivered meanwhile, has made.
* `IntentResumes` (`MailReaders.cfg`). A chat command that ends after it
  cancelled its wait and before it settled its receipt, or whose opening
  failed after it had registered the wait, leaves an unresolved receipt that
  names a cancelled wait. Running it again, as its message says
  ("retry this command to look up the same idempotency key"), then fails at
  `markWaitUncertain` every time.
* `ReplyNotLost` without `dropped` (`MailReaders.cfg`). A chat command killed
  after it saved the completed receipt and before it showed the reply
  (`oclif/commands/chat.ts`, 2388 and 2389) leaves a reply that is observed in
  the store and shown to nobody; the command run again begins a new send.
* `RepliesAreFoundByAnyClock` (`SharedReceiver.cfg`, as a property). A wait
  registered while the local clock was more than ten minutes ahead skips its
  own reply in the store (`oclif/connected-reply-wait.ts`, 189-203 and
  432-433), since nobody has classified it, and does not search the service
  again until the owner or its gap count changes.

Noted while reading and not modelled: a pinned `ValidAfterSec` with clamping
can put the window's floor above its ceiling; an `already_sent` answer leaves
its wait uncertain; a listener that restarts into the same email of unknown
outcome stops again, which holds the email by design.

## 6. Not modelled yet, and the plan

In this order; each is one component module, its run, and proofs where they
say more than the run.

1. `SignalSend`: the durable intent of `sendSignal` (`oclif/signal-command.ts`).
   Claim: one signal per slot whatever is retried.
2. `PendingMail`: rows recorded, claimed by a hook and removed
   (`oclif/pending-mail.ts`). Claim: a row is shown at least once, and the file
   is bounded.
3. `emails wait`, waits for contact requests and resumed replies over
   `SharedMailStore`; the durable subscription of `listen-runner.ts`.
4. The Node and Python receivers as variations of `EventReceiver`, with the
   poll transport.

Theorems worth proving next: that `SharedReceiver` implements one stream per
subscription with a ledger of what is stored, queued or still to be searched;
that `X402Payment` implements a ledger of orders paid once; and an abstract
indicator, on from a read to an answer, for what `AutoSignals` does keep of it.

Most of the repository by lines is generated from the OpenAPI description
(`sdk-go/api`, 370 000 lines of Go, `packages/api-core`,
`sdk-python/src/primitive/api`): encoders, decoders and validators without
state or concurrency. The share of lines that this project models is small for
that reason; of the hand-written Go code it covers the two files that have
protocol behaviour, `event_receiver.go` and `x402.go`.

Not planned: webhook verification, MIME parsing, sanitising, the x402
signature itself (pure functions over bytes), generated API clients, command-line wording and
output.
