--------------------------- MODULE SharedReceiver ---------------------------
(* The processes that share one connection to the mail service              *)
(* (cli-node/src/oclif/shared-mail-watch.ts, shared-mail-receiver.ts and     *)
(* shared-mail-transport.ts): they elect an owner by the stream lock, which  *)
(* announces itself in owner.json, receives events into the shared store and *)
(* reports gaps; every reply wait (connected-reply-wait.ts) searches the     *)
(* service once per owner and gap, and otherwise trusts the store.  A step   *)
(* is one file operation, one store transaction or one request.  A process   *)
(* owns the connection at most once, so it stands for its generation.        *)
EXTENDS Naturals, FiniteSets

CONSTANTS
    Procs,     \* process incarnations
    Emails,
    Wanted,    \* the reply each process waits for; None for a listener
    MaxGaps,   \* bound: events the service lets go of
    MaxSubs,   \* bound: times the subscription is created
    None

ASSUME ReceiverAssumption ==
    /\ None \notin Procs \union Emails
    /\ Wanted \in [Procs -> Emails \union {None}]
    /\ MaxGaps \in Nat /\ MaxSubs \in Nat \ {0}

Waits == {p \in Procs : Wanted[p] # None}

VARIABLES
    main,      \* where each process is in next() or in its listening loop
    ahead,     \* waits registered by a clock so far ahead that the floor of
               \* their local scan (replyFloor) lies after their reply
    view,      \* the owner record it read, with the answer of the probe
    seen,      \* next(): the owner and gap count it last compared with
    recovery,  \* next(): recoveryNeeded
    carrier,   \* where its transport is
    work,      \* the event its transport is at
    failed,    \* its transport failed
    lock,      \* the process that holds the stream lock
    owner,     \* owner.json
    stored,    \* emails in the shared store
    sub,       \* the number of the present subscription, 0 if there is none
    subOf,     \* the subscription each transport opened
    queue,     \* emails the service has queued for the subscription
    lease,     \* who holds the lease of a queued email
    gaps,      \* gap_count of the subscription
    arrived,   \* emails the service has
    subs       \* bound: subscriptions created so far

procVars == <<main, view, seen, recovery>>
carrierVars == <<carrier, work, failed, subOf>>
storeVars == <<stored, ahead>>
localVars == <<lock, owner, storeVars>>
serviceVars == <<sub, queue, lease, gaps, arrived, subs>>
vars == <<procVars, carrierVars, localVars, serviceVars>>

NoOwner == [by |-> None, ready |-> FALSE, gap |-> 0, alive |-> FALSE]

Waiting == {"look", "elect", "announce", "relook", "judge", "search", "list"}
MainStages == Waiting \union {"off", "replied", "closing", "gone", "dead"}
Closing == {"replied", "closing"}
CarrierStages == {"off", "subscribe", "open", "mark", "receive", "ingest", "complete",
                  "unannounce", "unlock"}

Init ==
    /\ main = [p \in Procs |-> "off"]
    /\ view = [p \in Procs |-> NoOwner]
    /\ seen = [p \in Procs |-> NoOwner]
    /\ recovery = [p \in Procs |-> TRUE]
    /\ ahead \in SUBSET Waits
    /\ carrier = [p \in Procs |-> "off"]
    /\ work = [p \in Procs |-> None]
    /\ failed = [p \in Procs |-> FALSE]
    /\ subOf = [p \in Procs |-> 0]
    /\ lock = None
    /\ owner = NoOwner
    /\ stored = {}
    /\ sub = 0
    /\ queue = {}
    /\ lease = [e \in Emails |-> None]
    /\ gaps = 0
    /\ arrived = {}
    /\ subs = 0

At(p, stage) == main[p] = stage
Go(p, stage) == main' = [main EXCEPT ![p] = stage]
Carrying(p, stage) == carrier[p] = stage
Carry(p, stage) == carrier' = [carrier EXCEPT ![p] = stage]

\* A process that ended, by itself or not, is gone for every probe.
Running(p) == main[p] \notin {"off", "gone", "dead"}

\* With a bug: whoever the record names is taken to live.
ReadUnprobed == [owner EXCEPT !.alive = owner.by # None]

\* readSharedMailOwner: the record, and a probe of the process it names.
Read == [owner EXCEPT !.alive = owner.by # None /\ Running(owner.by)]

-----------------------------------------------------------------------------
\* The process starts, or starts to receive.
Start(p) ==
    /\ At(p, "off") /\ Go(p, "look")
    /\ UNCHANGED <<view, seen, recovery, carrierVars, localVars, serviceVars>>

\* ensureOwner: a live owner, or the transport of this process, is enough.
Look(p) ==
    /\ At(p, "look")
    /\ view' = [view EXCEPT ![p] = Read]
    /\ Go(p, CASE failed[p] -> "closing"
               [] ~failed[p] /\ (Read.alive \/ carrier[p] # "off") -> "judge"
               [] OTHER -> "elect")
    /\ UNCHANGED <<seen, recovery, carrierVars, localVars, serviceVars>>

\* acquireListenLock: the lock excludes, and the dead do not keep it.
Elect(p) ==
    /\ At(p, "elect")
    /\ lock = None
    /\ lock' = p
    /\ Go(p, "announce")
    /\ UNCHANGED <<view, seen, recovery, carrierVars, owner, storeVars, serviceVars>>

\* It refuses if it is held, or contended for.
NotElected(p) ==
    /\ At(p, "elect")
    /\ Go(p, "relook")
    /\ UNCHANGED <<view, seen, recovery, carrierVars, localVars, serviceVars>>

\* owner.json is written under the lock, and the transport starts.
Announce(p) ==
    /\ At(p, "announce")
    /\ owner' = [by |-> p, ready |-> FALSE, gap |-> 0, alive |-> FALSE]
    /\ Carry(p, "subscribe")
    /\ Go(p, "relook")
    /\ UNCHANGED <<view, seen, recovery, work, failed, subOf, lock, storeVars, serviceVars>>

\* The process has no identity to announce, or the write failed.
NotAnnounced(p) ==
    /\ At(p, "announce")
    /\ lock' = None
    /\ Go(p, "closing")
    /\ UNCHANGED <<view, seen, recovery, carrierVars, owner, storeVars, serviceVars>>

LookAgain(p) ==
    /\ At(p, "relook")
    /\ view' = [view EXCEPT ![p] = Read]
    /\ Go(p, "judge")
    /\ UNCHANGED <<seen, recovery, carrierVars, localVars, serviceVars>>

\* Another owner, or another gap count, than the last search was for.
Changed(p) == view[p].by # seen[p].by \/ view[p].gap # seen[p].gap

\* ready: no owner that is ready means to wait and look again; a listener only
\* looks again.  next: what the owner's stream may have missed is searched for.
Judge(p) ==
    /\ At(p, "judge")
    /\ IF ~(view[p].alive /\ view[p].ready) \/ Wanted[p] = None
         THEN Go(p, "look") /\ UNCHANGED <<seen, recovery>>
         ELSE /\ IF Changed(p)
                   THEN /\ seen' = [seen EXCEPT ![p] = view[p]]
                        /\ recovery' = [recovery EXCEPT ![p] = TRUE]
                   ELSE UNCHANGED <<seen, recovery>>
              /\ Go(p, IF recovery'[p] THEN "search" ELSE "list")
    /\ view' = [view EXCEPT ![p] = NoOwner]
    /\ UNCHANGED <<carrierVars, localVars, serviceVars>>

\* Targeted search for replies to the exact send; a failed search ends next.
Search(p) ==
    /\ At(p, "search")
    /\ \/ Go(p, "closing") /\ UNCHANGED recovery
       \/ /\ recovery' = [recovery EXCEPT ![p] = FALSE]
          /\ Go(p, IF Wanted[p] \in arrived THEN "replied" ELSE "list")
    /\ UNCHANGED <<view, seen, carrierVars, localVars, serviceVars>>

\* replyFloor: the reply was received before the floor of this wait's scan.
BeforeFloor(p) == p \in ahead

\* The store is listed; then changed() waits for a file or a second.  A scan
\* passes over an email received before its floor, unless another consumer has
\* saved the email's details: whether one has is left open.
List(p) ==
    /\ At(p, "list")
    /\ \/ Wanted[p] \in stored /\ Go(p, "replied")
       \/ (Wanted[p] \in stored => BeforeFloor(p)) /\ Go(p, "look")
    /\ UNCHANGED <<view, seen, recovery, carrierVars, localVars, serviceVars>>

\* The deadline, or a signal.
Stop(p) ==
    /\ main[p] \in {"look", "judge", "search", "list"}
    /\ Go(p, "closing")
    /\ view' = [view EXCEPT ![p] = NoOwner]
    /\ UNCHANGED <<seen, recovery, carrierVars, localVars, serviceVars>>

\* What a process held in memory is gone with it.
Forget(p, stage) ==
    /\ Go(p, stage)
    /\ view' = [view EXCEPT ![p] = NoOwner]
    /\ seen' = [seen EXCEPT ![p] = NoOwner]
    /\ recovery' = [recovery EXCEPT ![p] = TRUE]
    /\ failed' = [failed EXCEPT ![p] = FALSE]
    /\ subOf' = [subOf EXCEPT ![p] = 0]

\* close: the process ends when its transport has.
Gone(p) ==
    /\ main[p] \in Closing /\ Carrying(p, "off")
    /\ Forget(p, "gone")
    /\ UNCHANGED <<carrier, work, localVars, serviceVars>>

-----------------------------------------------------------------------------
\* markStatus writes what the transport learned, only into its own record.
Announced(p, ready, gap) ==
    /\ owner.by = p /\ gap >= owner.gap
    /\ owner' = [owner EXCEPT !.ready = ready, !.gap = gap]

\* ensureSharedMailSubscription: joins the named subscription or creates it.
Subscribe(p) ==
    /\ Carrying(p, "subscribe")
    /\ IF sub # 0 THEN UNCHANGED <<sub, subs, gaps, queue>>
       ELSE sub' = subs + 1 /\ subs' = subs + 1 /\ gaps' = 0 /\ queue' = {}
    /\ subOf' = [subOf EXCEPT ![p] = sub']
    /\ Carry(p, "open")
    /\ UNCHANGED <<procVars, work, failed, localVars, lease, arrived>>

\* ensureOpen, at first and after the stream broke.
Open(p) ==
    /\ Carrying(p, "open") /\ subOf[p] = sub
    /\ Carry(p, "mark")
    /\ UNCHANGED <<procVars, work, failed, subOf, localVars, serviceVars>>

\* markReady, and on with what the stream was opened for.
MarkReady(p) ==
    /\ Carrying(p, "mark")
    /\ Announced(p, TRUE, owner.gap)
    /\ Carry(p, IF work[p] = None THEN "receive" ELSE "complete")
    /\ UNCHANGED <<procVars, work, failed, subOf, lock, storeVars, serviceVars>>

\* A status frame or an empty offer.
Status(p) ==
    /\ carrier[p] \in {"mark", "receive", "ingest", "complete"} /\ subOf[p] = sub
    /\ Announced(p, owner.ready, gaps)
    /\ UNCHANGED <<procVars, carrierVars, lock, storeVars, serviceVars>>

\* receive: an offer leases an event, and tells the gap count.
Offer(p, e) ==
    /\ Carrying(p, "receive") /\ subOf[p] = sub
    /\ e \in queue /\ lease[e] = None
    /\ lease' = [lease EXCEPT ![e] = p]
    /\ Announced(p, owner.ready, gaps)
    /\ work' = [work EXCEPT ![p] = e]
    /\ Carry(p, "ingest")
    /\ UNCHANGED <<procVars, failed, subOf, lock, storeVars, sub, queue, gaps, arrived, subs>>

\* The offer is lost with its connection; the lease is taken.
LoseOffer(p, e) ==
    /\ Carrying(p, "receive") /\ subOf[p] = sub
    /\ e \in queue /\ lease[e] = None
    /\ lease' = [lease EXCEPT ![e] = p]
    /\ Announced(p, FALSE, owner.gap)
    /\ Carry(p, "open")
    /\ UNCHANGED <<procVars, work, failed, subOf, lock, storeVars, sub, queue, gaps, arrived, subs>>

\* With a bug: the event is accepted first and stored when that succeeded.
IngestAccepted(p) ==
    /\ Carrying(p, "ingest") /\ lease[work[p]] = p
    /\ queue' = queue \ {work[p]}
    /\ UNCHANGED storeVars
    /\ Carry(p, "complete")
    /\ UNCHANGED <<procVars, work, failed, subOf, lock, owner, sub, lease, gaps, arrived, subs>>

\* The email is in the store before the event is accepted.
Ingest(p) ==
    /\ Carrying(p, "ingest")
    /\ stored' = stored \union {work[p]}
    /\ UNCHANGED <<ahead, queue>>
    /\ Carry(p, "complete")
    /\ UNCHANGED <<procVars, work, failed, subOf, lock, owner, sub, lease, gaps, arrived, subs>>

\* complete: taken under the lease; the answer may be lost, and then the same
\* completion is sent again.
Complete(p, answered) ==
    /\ Carrying(p, "complete") /\ subOf[p] = sub /\ lease[work[p]] = p
    /\ queue' = queue \ {work[p]}
    /\ IF answered
         THEN /\ lease' = [lease EXCEPT ![work[p]] = None]
              /\ work' = [work EXCEPT ![p] = None]
              /\ Carry(p, "receive") /\ UNCHANGED owner
         ELSE /\ Announced(p, FALSE, owner.gap)
              /\ Carry(p, "open") /\ UNCHANGED <<lease, work>>
    /\ UNCHANGED <<procVars, failed, subOf, lock, storeVars, sub, gaps, arrived, subs>>

\* A failure that may be retried: not ready, and the stream is opened again.
Broken(p) ==
    /\ carrier[p] \in {"receive", "complete"}
    /\ Announced(p, FALSE, owner.gap)
    /\ Carry(p, "open")
    /\ UNCHANGED <<procVars, work, failed, subOf, lock, storeVars, serviceVars>>

End(p) ==
    /\ Carry(p, "unannounce")
    /\ work' = [work EXCEPT ![p] = None]
    /\ subOf' = [subOf EXCEPT ![p] = 0]
    /\ UNCHANGED <<procVars, localVars, serviceVars>>

\* Any other failure ends the transport: an answer it does not take, a store
\* that refuses.
Fail(p) ==
    /\ carrier[p] \in {"subscribe", "open", "mark", "receive", "ingest", "complete"}
    /\ failed' = [failed EXCEPT ![p] = TRUE]
    /\ End(p)

\* So do the end of the subscription and of the lease.
CutOff(p) ==
    /\ \/ carrier[p] \in {"open", "receive", "complete"} /\ subOf[p] # sub
       \/ Carrying(p, "complete") /\ lease[work[p]] # p
    /\ failed' = [failed EXCEPT ![p] = TRUE]
    /\ End(p)

\* The process is closing.
Abort(p) ==
    /\ main[p] \in Closing /\ carrier[p] \notin {"off", "unannounce", "unlock"}
    /\ UNCHANGED failed
    /\ End(p)

\* With a bug: the lock goes first, and once more at the end.
UnlockFirst(p) ==
    /\ Carrying(p, "unannounce")
    /\ lock' = None
    /\ owner' = IF owner.by = p THEN NoOwner ELSE owner
    /\ Carry(p, "unlock")
    /\ UNCHANGED <<procVars, work, failed, subOf, storeVars, serviceVars>>

\* owner.close: its record goes, then the lock.  The lock goes even if the
\* record cannot be removed.
Unannounce(p) ==
    /\ Carrying(p, "unannounce")
    /\ \/ /\ owner' = IF owner.by = p THEN NoOwner ELSE owner
          /\ UNCHANGED failed
       \/ /\ UNCHANGED owner
          /\ failed' = [failed EXCEPT ![p] = TRUE]
    /\ Carry(p, "unlock")
    /\ UNCHANGED <<procVars, work, subOf, lock, storeVars, serviceVars>>

Unlock(p) ==
    /\ Carrying(p, "unlock")
    /\ lock' = None
    /\ Carry(p, "off")
    /\ UNCHANGED <<procVars, work, failed, subOf, owner, storeVars, serviceVars>>

\* The process is killed: its record stays, the lock can be reclaimed.
Die(p) ==
    /\ Running(p)
    /\ Forget(p, "dead")
    /\ Carry(p, "off")
    /\ work' = [work EXCEPT ![p] = None]
    /\ lock' = IF lock = p THEN None ELSE lock
    /\ UNCHANGED <<owner, storeVars, serviceVars>>

-----------------------------------------------------------------------------
\* The service.  An email can be searched for when it arrives; an event is
\* queued if there is a subscription.
Arrive(e) ==
    /\ e \notin arrived
    /\ arrived' = arrived \union {e}
    /\ queue' = IF sub = 0 THEN queue ELSE queue \union {e}
    /\ UNCHANGED <<procVars, carrierVars, localVars, sub, lease, gaps, subs>>

\* Retention ends, or the queue is full: the gap count tells.
LetGo(e) ==
    /\ e \in queue /\ lease[e] = None /\ gaps < MaxGaps
    /\ queue' = queue \ {e}
    /\ gaps' = gaps + 1
    /\ UNCHANGED <<procVars, carrierVars, localVars, sub, lease, arrived, subs>>

Lapse(e) ==
    /\ lease[e] # None
    /\ lease' = [lease EXCEPT ![e] = None]
    /\ UNCHANGED <<procVars, carrierVars, localVars, sub, queue, gaps, arrived, subs>>

\* Somebody deletes the subscription, with its queue and its gap count.
Delete ==
    /\ sub # 0 /\ subs < MaxSubs
    /\ sub' = 0 /\ queue' = {} /\ gaps' = 0
    /\ lease' = [e \in Emails |-> None]
    /\ UNCHANGED <<procVars, carrierVars, localVars, arrived, subs>>

-----------------------------------------------------------------------------
MainStep(p) ==
    \/ Look(p) \/ NotElected(p) \/ Announce(p) \/ LookAgain(p) \/ Judge(p)
    \/ Search(p) \/ List(p) \/ Gone(p)

CarrierStep(p) ==
    \/ Subscribe(p) \/ Open(p) \/ MarkReady(p) \/ \E e \in Emails : Offer(p, e)
    \/ Ingest(p) \/ Complete(p, TRUE) \/ CutOff(p) \/ Abort(p) \/ Unannounce(p) \/ Unlock(p)

\* What the network takes away: an offer, an answer, or the stream.
Loss(p) == (\E e \in Emails : LoseOffer(p, e)) \/ Complete(p, FALSE) \/ Broken(p)

Next ==
    \/ \E p \in Procs :
         \/ Start(p) \/ MainStep(p) \/ Elect(p) \/ NotAnnounced(p) \/ Stop(p) \/ Die(p)
         \/ CarrierStep(p) \/ Status(p) \/ Loss(p) \/ Fail(p)
    \/ \E e \in Emails : Arrive(e) \/ LetGo(e) \/ Lapse(e)
    \/ Delete

Spec == Init /\ [][Next]_vars

\* Running processes go on.  Who keeps asking for a free lock gets it
\* (ListenLock).  The service answers, leases end, and the network is up in
\* the end.
FairSpec ==
    /\ Spec
    /\ \A p \in Procs :
         /\ WF_vars(MainStep(p)) /\ SF_vars(Elect(p))
         /\ WF_vars(CarrierStep(p)) /\ WF_vars(Status(p))
    /\ \A e \in Emails : WF_vars(Lapse(e))
    /\ <>[][\A p \in Procs : ~Loss(p)]_vars

-----------------------------------------------------------------------------
Views == [by : Procs \union {None}, ready : BOOLEAN, gap : 0..MaxGaps, alive : BOOLEAN]

TypeOK ==
    /\ main \in [Procs -> MainStages]
    /\ view \in [Procs -> Views] /\ seen \in [Procs -> Views]
    /\ recovery \in [Procs -> BOOLEAN]
    /\ carrier \in [Procs -> CarrierStages]
    /\ work \in [Procs -> Emails \union {None}]
    /\ failed \in [Procs -> BOOLEAN]
    /\ subOf \in [Procs -> 0..MaxSubs]
    /\ lock \in Procs \union {None}
    /\ owner \in Views
    /\ ahead \subseteq Procs
    /\ stored \subseteq arrived /\ queue \subseteq arrived /\ arrived \subseteq Emails
    /\ lease \in [Emails -> Procs \union {None}]
    /\ sub \in 0..MaxSubs /\ subs \in 0..MaxSubs /\ gaps \in 0..MaxGaps

\* "The caller stays in the foreground and owns the only remote stream until
\* close" (shared-mail-watch.ts:86): one process receives at a time, and the
\* record everybody reads is its own until it removes it.
OneStream ==
    \A p \in Procs : carrier[p] \notin {"off", "unlock"} => lock = p /\ owner.by = p

\* What p last searched for is not what the service could tell by now: there
\* was a gap since, or the owner of then does not receive any more.
Outdated(p) ==
    \/ seen[p].gap # gaps \/ subOf[seen[p].by] # sub
    \/ carrier[seen[p].by] \in {"off", "unannounce", "unlock"}

\* "The event owner decides when recovery is needed" (targeted-replies.ts:183):
\* a wait that does not search any more misses no reply.  One that is neither
\* stored nor queued was let go of, and the owner will report that, or is to
\* be replaced.
NoReplyOverlooked ==
    \A p \in Procs :
        main[p] \in Waiting /\ ~recovery[p] /\ Wanted[p] \in arrived \ (stored \union queue)
            => Outdated(p)

\* A wait ends with the reply, whoever owned the stream when it came, and
\* whether or not its event was delivered, unless it is stopped or fails first
\* ("closing") or is killed.  Excepted is a wait registered by a clock more
\* than REPLY_CLOCK_SKEW_MS ahead (connected-reply-wait.ts:432-439): once it
\* has searched, a reply that no other consumer reads stays unread.
RepliesAreFound ==
    \A p \in Waits :
        main[p] \in Waiting /\ Wanted[p] \in arrived /\ p \notin ahead
            ~> main[p] \in {"replied", "closing", "dead"}

\* The same for every clock: "Only the local scan skips it: exact-parent search
\* still returns an older reply" (connected-reply-wait.ts:430-431), but the
\* search is over once an owner and its gap count were searched for.
RepliesAreFoundByAnyClock ==
    \A p \in Waits :
        main[p] \in Waiting /\ Wanted[p] \in arrived ~> main[p] \in {"replied", "closing", "dead"}
=============================================================================
