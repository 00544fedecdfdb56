-------------------------- MODULE SharedMailStore --------------------------
(* The shared mail store of cli-node/src/oclif/shared-mail-state.ts: which   *)
(* consumer an incoming email belongs to.  Reply waits (chat, emails wait)   *)
(* and session notifiers of several processes share one store per agent      *)
(* address.                                                                 *)
(*                                                                          *)
(* One action is one transaction.  ListenLock shows that transactions        *)
(* exclude each other, SharedMailJournal that each is all or nothing.  Every *)
(* operation may be called at any time with any legal arguments; a call the  *)
(* code answers with invalidSharedMail(), or with a mere reading, changes    *)
(* nothing and is the stuttering step.                                       *)
EXTENDS Integers, FiniteSets

CONSTANTS
    Emails, Events,   \* received emails and the delivery events naming them
    Requests,         \* requestId of the waits
    Sends,            \* sentEmailId: emails this agent sent
    Peers, Sessions, Threads, Contacts,
    Waiters,          \* one token per waiting process
    MaxWaiters,       \* the most waiters one wait record holds (32 in the code)
    None

ASSUME MaxWaitersAssumption == MaxWaiters \in Nat
ASSUME NoneAssumption ==
    None \notin Emails \union Requests \union Sends \union Peers
                  \union Sessions \union Threads \union Contacts \union Waiters

VARIABLES
    known,    \* emails/: the emails ingested
    details,  \* their verified details, or NoDetails
    route,    \* the consumer each was given to
    events,   \* events/: event to email
    waits,    \* waits/
    parents,  \* parents/: sent email to the wait that answers for it
    unbound,  \* unbound/<peer>/<request>: waits whose send is unresolved
    matches,  \* matches/<request>/<email>
    follows,  \* conversation-follows/: thread to session
    gone      \* waiters whose process is proven to have ended

vars == <<known, details, route, events, waits, parents, unbound, matches, follows, gone>>
mailVars == <<known, details, route, events>>
waitVars == <<waits, parents, unbound>>
restVars == <<follows, gone>>

OrNone(S) == S \union {None}

Details == [peer : Peers, parent : OrNone(Sends), thread : OrNone(Threads),
            auth : {"pending", "trusted", "rejected"}]
NoDetails == [peer |-> None, parent |-> None, thread |-> None, auth |-> "pending"]

\* A route gives the email to a wait (`to` is its request) or to a session.
Routes ==
    [kind : {"wait"}, to : Requests, state : {"claimed", "observed"}]
      \union [kind : {"notification"}, to : Sessions,
              state : {"selected", "submitting", "accepted", "unknown", "skipped"}]
NoRoute == [kind |-> "none", to |-> None, state |-> "none"]

Statuses == {"unbound", "uncertain", "bound", "completed", "cancelled"}
Unresolved == {"unbound", "uncertain"}

\* tracked: the record has a waiters array; older CLIs wrote none.
Waits == [status : Statuses, peer : Peers, session : OrNone(Sessions),
          contact : OrNone(Contacts), sent : OrNone(Sends),
          tracked : BOOLEAN, waiters : SUBSET Waiters]
NoWait == [status |-> "absent", peer |-> None, session |-> None, contact |-> None,
           sent |-> None, tracked |-> FALSE, waiters |-> {}]

-----------------------------------------------------------------------------
Exists(req) == waits[req].status # "absent"

\* mayBeWaiting: false only for a process proven gone.
MayBeWaiting(owner) == owner \notin gone

\* With a bug: a wait whose waiters are not recorded is taken for abandoned.
SomebodyTrackedWaits(w) == \E owner \in w.waiters : MayBeWaiting(owner)

SomebodyWaits(w) == ~w.tracked \/ \E owner \in w.waiters : MayBeWaiting(owner)

\* addWaiters: the dead are dropped, an untracked record stays untracked.
AddWaiters(w, owners) ==
    IF w.tracked
      THEN [w EXCEPT !.waiters = {o \in @ : MayBeWaiting(o)} \union owners]
      ELSE w

\* wait(): a longer waiters array is not a valid record.
Fits(w) == Cardinality(w.waiters) <= MaxWaiters

\* The wait that answers for a sent email, if any.
Answers(sent, req) == sent # None /\ parents[sent] = req /\ req # None

Init ==
    /\ known = {}
    /\ details = [e \in Emails |-> NoDetails]
    /\ route = [e \in Emails |-> NoRoute]
    /\ events = [v \in Events |-> None]
    /\ waits = [r \in Requests |-> NoWait]
    /\ parents = [s \in Sends |-> None]
    /\ unbound = {}
    /\ matches = {}
    /\ follows = [t \in Threads |-> None]
    /\ gone = {}

-----------------------------------------------------------------------------
(* Ingress.                                                                 *)

\* ingest: an event names an email; an alias event of a known email is added.
Ingest(v, e) ==
    /\ events[v] = None \/ (events[v] = e /\ e \in known)
    /\ known' = known \union {e}
    /\ events' = [events EXCEPT ![v] = e]
    /\ UNCHANGED <<details, route, waitVars, matches, restVars>>

\* What hydrate stores: a thread once known is kept.
Verified(e, d) ==
    IF d.thread = None THEN [d EXCEPT !.thread = details[e].thread] ELSE d

\* With a bug: a later verdict replaces a final one.
HydrateAgain(e, d) ==
    /\ e \in known
    /\ details' = [details EXCEPT ![e] = Verified(e, d)]
    /\ UNCHANGED <<known, route, events, waitVars, matches, restVars>>

\* hydrate: verdicts are final; a missing parent or thread may be filled in.
Hydrate(e, d) ==
    /\ e \in known
    /\ details[e] # NoDetails /\ details[e].auth # "pending" =>
          LET old == details[e] new == Verified(e, d)
          IN  /\ new.peer = old.peer /\ new.auth = old.auth
              /\ old.parent # None => new.parent = old.parent
              /\ old.thread # None => new.thread = old.thread
    /\ details' = [details EXCEPT ![e] = Verified(e, d)]
    /\ UNCHANGED <<known, route, events, waitVars, matches, restVars>>

-----------------------------------------------------------------------------
(* The life of a wait.                                                      *)

\* registerWait of a new request, before the email it waits on is sent.
RegisterNew(req, peer, session, contact, owner) ==
    /\ ~Exists(req)
    /\ waits' = [waits EXCEPT ![req] =
          [status |-> "unbound", peer |-> peer, session |-> session,
           contact |-> contact, sent |-> None,
           tracked |-> owner # None, waiters |-> {owner} \ {None}]]
    /\ unbound' = unbound \union {<<peer, req>>}
    /\ UNCHANGED <<mailVars, parents, matches, restVars>>

\* registerWait again: only the same registration, which adds its waiter.
RegisterAgain(req, peer, session, contact, owner) ==
    /\ Exists(req)
    /\ waits[req].peer = peer /\ waits[req].session = session
    /\ waits[req].contact = contact
    /\ LET next == AddWaiters(waits[req], {owner} \ {None})
       IN  /\ Fits(next)
           /\ waits' = [waits EXCEPT ![req] = next]
    /\ UNCHANGED <<mailVars, parents, unbound, matches, restVars>>

JoinWait(req, owner) ==
    /\ waits[req].status \in {"bound", "completed"}
    /\ LET next == AddWaiters(waits[req], {owner})
       IN  /\ Fits(next)
           /\ waits' = [waits EXCEPT ![req] = next]
    /\ UNCHANGED <<mailVars, parents, unbound, matches, restVars>>

\* releaseWaiter: also from the wait an alias was joined to.
ReleaseWaiter(req, owner) ==
    /\ Exists(req)
    /\ LET Joined(r) == /\ waits[req].status = "cancelled"
                        /\ Answers(waits[req].sent, r)
       IN  waits' = [r \in Requests |->
             IF r = req \/ Joined(r) THEN [waits[r] EXCEPT !.waiters = @ \ {owner}]
                                     ELSE waits[r]]
    /\ UNCHANGED <<mailVars, parents, unbound, matches, restVars>>

\* The waits may answer for one send: same peer, compatible sessions.
Compatible(canonical, w, sent) ==
    /\ canonical.sent = sent
    /\ canonical.peer = w.peer
    /\ canonical.session = None \/ w.session = None \/ canonical.session = w.session
    /\ canonical.contact = w.contact

\* With a bug: forgets the session the conversation belongs to.
BindForgetsSession(req, sent) ==
    LET w == waits[req]
        occupied == parents[sent] \notin {None, req}
        canonical == waits[parents[sent]]
    IN  /\ w.status \in {"unbound", "uncertain", "bound"}
        /\ w.sent \in {None, sent}
        /\ occupied => Compatible(canonical, w, sent) /\ canonical.status = "completed"
        /\ waits' = [waits EXCEPT ![req] = [w EXCEPT !.status = "bound", !.sent = sent]]
        /\ parents' = [parents EXCEPT ![sent] = req]
        /\ unbound' = unbound \ {<<w.peer, req>>}
        /\ UNCHANGED <<mailVars, matches, restVars>>

\* bindWait, the send belongs to nobody else or to a completed wait: the wait
\* answers for it from now on, and inherits the conversation's session.
BindOwn(req, sent) ==
    LET w == waits[req]
        occupied == parents[sent] \notin {None, req}
        canonical == waits[parents[sent]]
    IN  /\ w.status \in {"unbound", "uncertain", "bound"}
        /\ w.sent \in {None, sent}
        /\ occupied => Compatible(canonical, w, sent) /\ canonical.status = "completed"
        /\ waits' = [waits EXCEPT ![req] =
              [w EXCEPT !.status = "bound", !.sent = sent,
                        !.session = IF occupied /\ @ = None THEN canonical.session ELSE @]]
        /\ parents' = [parents EXCEPT ![sent] = req]
        /\ unbound' = unbound \ {<<w.peer, req>>}
        /\ UNCHANGED <<mailVars, matches, restVars>>

\* bindWait, another wait is bound to the send: its waiters join that wait and
\* this one is cancelled.  An untracked waiter makes the joint wait untracked.
BindJoin(req, sent) ==
    LET w == waits[req]
        other == parents[sent]
        joined == IF w.tracked THEN AddWaiters(waits[other], w.waiters)
                  ELSE [waits[other] EXCEPT !.tracked = FALSE, !.waiters = {}]
    IN  /\ other \notin {None, req}
        /\ w.status \in {"unbound", "cancelled"}
        /\ w.sent \in {None, sent}
        /\ Compatible(waits[other], w, sent) /\ waits[other].status = "bound"
        /\ Fits(joined)
        /\ waits' = [waits EXCEPT ![other] = joined,
              ![req] = [w EXCEPT !.status = "cancelled", !.sent = sent, !.waiters = {}]]
        /\ unbound' = unbound \ {<<w.peer, req>>}
        /\ UNCHANGED <<mailVars, parents, matches, restVars>>

\* With a bug: the unbound/ entry stays.
CancelRecordOnly(req) ==
    /\ waits' = [waits EXCEPT ![req].status = "cancelled"]
    /\ UNCHANGED <<mailVars, parents, unbound, matches, restVars>>

Cancel(req) ==
    /\ waits' = [waits EXCEPT ![req].status = "cancelled"]
    /\ unbound' = unbound \ {<<waits[req].peer, req>>}
    /\ UNCHANGED <<mailVars, parents, matches, restVars>>

\* cancelWaitBeforeSend: only while no send was attempted.
CancelWaitBeforeSend(req) ==
    /\ \/ waits[req].status = "unbound"
       \/ waits[req].status = "cancelled" /\ waits[req].sent = None
    /\ Cancel(req)

\* cancelRejectedSend: also after an attempt, when the server refused it.
CancelRejectedSend(req) ==
    /\ waits[req].status \in {"unbound", "uncertain", "cancelled"}
    /\ waits[req].sent = None
    /\ Cancel(req)

\* With a bug: any wait can become uncertain again.
MarkAnyWaitUncertain(req) ==
    /\ Exists(req)
    /\ waits' = [waits EXCEPT ![req].status = "uncertain"]
    /\ UNCHANGED <<mailVars, parents, unbound, matches, restVars>>

\* markWaitUncertain: the send is about to be attempted, or its outcome is lost.
MarkWaitUncertain(req) ==
    /\ waits[req].status \in Unresolved
    /\ waits' = [waits EXCEPT ![req].status = "uncertain"]
    /\ UNCHANGED <<mailVars, parents, unbound, matches, restVars>>

\* With a bug: a matched reply counts whether it was observed or not.
FinishWaitUnread(req) ==
    /\ waits[req].status = "bound"
    /\ \E e \in Emails : <<req, e>> \in matches
    /\ waits' = [waits EXCEPT ![req].status = "completed"]
    /\ UNCHANGED <<mailVars, parents, unbound, matches, restVars>>

\* finishWait: every matched reply was observed, and there is one.
FinishWait(req) ==
    LET matched == {e \in Emails : <<req, e>> \in matches}
    IN  /\ waits[req].status = "bound"
        /\ matched # {}
        /\ \A e \in matched : route[e] = [kind |-> "wait", to |-> req, state |-> "observed"]
        /\ waits' = [waits EXCEPT ![req].status = "completed"]
        /\ UNCHANGED <<mailVars, parents, unbound, matches, restVars>>

-----------------------------------------------------------------------------
(* Giving emails to consumers.                                              *)

Trusted(e) == details[e] # NoDetails /\ details[e].auth = "trusted"

IsReplyTo(e, w) ==
    Trusted(e) /\ details[e].peer = w.peer /\ details[e].parent = w.sent

\* claimForWait, the branch that writes; a route already given only answers.
ClaimForWait(e, req, token) ==
    LET w == waits[req]
    IN  /\ e \in known /\ Exists(req)
        /\ w.tracked => token \in w.waiters /\ MayBeWaiting(token)
        /\ route[e] = NoRoute
        /\ w.status = "bound"
        /\ IsReplyTo(e, w)
        /\ route' = [route EXCEPT ![e] = [kind |-> "wait", to |-> req, state |-> "claimed"]]
        /\ matches' = matches \union {<<req, e>>}
        /\ UNCHANGED <<known, details, events, waitVars, restVars>>

MarkWaitObserved(e, req) ==
    /\ route[e].kind = "wait" /\ route[e].to = req
    /\ route' = [route EXCEPT ![e].state = "observed"]
    /\ UNCHANGED <<known, details, events, waitVars, matches, restVars>>

\* With a bug: a notification still being submitted is taken for delivered.
ObserveUnsettledContactReply(e, req, token) ==
    LET w == waits[req]
    IN  /\ route[e].kind = "notification" /\ route[e].state \in {"submitting", "accepted", "skipped"}
        /\ w.contact # None
        /\ w.status \in {"bound", "completed"}
        /\ w.tracked /\ token \in w.waiters /\ MayBeWaiting(token)
        /\ IsReplyTo(e, w)
        /\ waits' = [waits EXCEPT ![req].status = "completed"]
        /\ UNCHANGED <<mailVars, parents, unbound, matches, restVars>>

\* observeNotifiedContactReply: a contact acceptance the session was already
\* notified of completes the wait and keeps its native route.
ObserveNotifiedContactReply(e, req, token) ==
    LET w == waits[req]
    IN  /\ route[e].kind = "notification" /\ route[e].state \in {"accepted", "skipped"}
        /\ w.contact # None
        /\ w.status \in {"bound", "completed"}
        /\ w.tracked /\ token \in w.waiters /\ MayBeWaiting(token)
        /\ IsReplyTo(e, w)
        /\ waits' = [waits EXCEPT ![req].status = "completed"]
        /\ UNCHANGED <<mailVars, parents, unbound, matches, restVars>>

\* The parent's wait keeps the email for its own session, or for its waiters.
HeldByParent(d, session) ==
    /\ d.parent # None
    /\ parents[d.parent] # None
    /\ LET w == waits[parents[d.parent]]
       IN  \/ w.session \notin {None, session}
           \/ w.status = "bound" /\ w.peer = d.peer /\ SomebodyWaits(w)

\* Some send to the email's sender has no known outcome yet.
HeldByUnresolvedSend(d) == \E req \in Requests : <<d.peer, req>> \in unbound

\* claimForNotification, the branch that writes.
ClaimForNotification(e, session) ==
    LET d == details[e]
    IN  /\ e \in known
        /\ route[e] = NoRoute
        /\ Trusted(e)
        /\ d.thread # None => follows[d.thread] \in {None, session}
        /\ ~HeldByParent(d, session)
        /\ ~HeldByUnresolvedSend(d)
        /\ route' = [route EXCEPT ![e] =
              [kind |-> "notification", to |-> session, state |-> "selected"]]
        /\ UNCHANGED <<known, details, events, waitVars, matches, restVars>>

Notified(e, session, states) ==
    route[e].kind = "notification" /\ route[e].to = session /\ route[e].state \in states

\* With a bug: gives back a notification that was already submitted.
ReleaseSubmittedNotification(e, session) ==
    /\ Notified(e, session, {"selected", "submitting"})
    /\ route' = [route EXCEPT ![e] = NoRoute]
    /\ UNCHANGED <<known, details, events, waitVars, matches, restVars>>

\* releaseNotification: a claim that was not submitted is given back.
ReleaseNotification(e, session) ==
    /\ Notified(e, session, {"selected"})
    /\ route' = [route EXCEPT ![e] = NoRoute]
    /\ UNCHANGED <<known, details, events, waitVars, matches, restVars>>

SkipNotification(e, session) ==
    /\ Notified(e, session, {"selected", "skipped"})
    /\ route' = [route EXCEPT ![e].state = "skipped"]
    /\ UNCHANGED <<known, details, events, waitVars, matches, restVars>>

\* markNotification: selected, submitting, then one final outcome.
MarkNotification(e, state) ==
    /\ route[e].kind = "notification"
    /\ route[e].state = "selected" => state = "submitting"
    /\ route[e].state \in {"selected", "submitting", state}
    /\ route' = [route EXCEPT ![e].state = state]
    /\ UNCHANGED <<known, details, events, waitVars, matches, restVars>>

-----------------------------------------------------------------------------
\* followEmailConversation: the first session to follow a thread keeps it.
Follow(t, session) ==
    /\ follows[t] \in {None, session}
    /\ follows' = [follows EXCEPT ![t] = session]
    /\ UNCHANGED <<mailVars, waitVars, matches, gone>>

\* A waiting process ends and the operating system can tell.
WaiterGone(owner) ==
    /\ gone' = gone \union {owner}
    /\ UNCHANGED <<mailVars, waitVars, matches, follows>>

Ingress ==
    \E e \in Emails :
        \/ \E v \in Events : Ingest(v, e)
        \/ \E d \in Details : Hydrate(e, d)

WaitLife ==
    \E req \in Requests :
        \/ \E peer \in Peers, session \in OrNone(Sessions), contact \in OrNone(Contacts),
              owner \in OrNone(Waiters) :
             \/ RegisterNew(req, peer, session, contact, owner)
             \/ RegisterAgain(req, peer, session, contact, owner)
        \/ \E owner \in Waiters : JoinWait(req, owner) \/ ReleaseWaiter(req, owner)
        \/ \E sent \in Sends : BindOwn(req, sent) \/ BindJoin(req, sent)
        \/ CancelWaitBeforeSend(req) \/ CancelRejectedSend(req)
        \/ MarkWaitUncertain(req) \/ FinishWait(req)

Claims ==
    \E e \in Emails :
        \/ \E req \in Requests, token \in Waiters :
             ClaimForWait(e, req, token) \/ ObserveNotifiedContactReply(e, req, token)
        \/ \E req \in Requests : MarkWaitObserved(e, req)
        \/ \E session \in Sessions :
             \/ ClaimForNotification(e, session)
             \/ ReleaseNotification(e, session) \/ SkipNotification(e, session)
        \/ \E state \in {"submitting", "accepted", "unknown"} : MarkNotification(e, state)

Next ==
    \/ Ingress \/ WaitLife \/ Claims
    \/ \E t \in Threads, session \in Sessions : Follow(t, session)
    \/ \E owner \in Waiters : WaiterGone(owner)

Spec == Init /\ [][Next]_vars

-----------------------------------------------------------------------------
TypeOK ==
    /\ known \subseteq Emails
    /\ details \in [Emails -> Details \union {NoDetails}]
    /\ route \in [Emails -> Routes \union {NoRoute}]
    /\ events \in [Events -> OrNone(Emails)]
    /\ waits \in [Requests -> Waits \union {NoWait}]
    /\ parents \in [Sends -> OrNone(Requests)]
    /\ unbound \subseteq Peers \X Requests
    /\ matches \subseteq Requests \X Emails
    /\ follows \in [Threads -> OrNone(Sessions)]
    /\ gone \subseteq Waiters

\* The unbound/ index, which claimForNotification scans instead of the waits,
\* names exactly the waits whose send has no known outcome.  A stale entry
\* makes every notification for that peer fail as inconsistent; a missing one
\* lets a reply to an unresolved send become a native turn.
UnboundIndexExact ==
    \A req \in Requests, peer \in Peers :
        <<peer, req>> \in unbound <=>
            waits[req].status \in Unresolved /\ waits[req].peer = peer

\* The parents/ index names a wait that answers for that very send, and every
\* bound wait is the one its send's index entry names: replies find it, and
\* no two waits are bound to one send.
ParentIndexExact ==
    /\ \A sent \in Sends : parents[sent] # None =>
          /\ waits[parents[sent]].sent = sent
          /\ waits[parents[sent]].status \in {"bound", "completed"}
    /\ \A req \in Requests : waits[req].status = "bound" =>
          waits[req].sent # None /\ parents[waits[req].sent] = req

\* The matches/ index, which finishWait trusts to be every reply the wait got,
\* lists exactly the emails routed to the wait.
MatchIndexExact ==
    \A req \in Requests, e \in Emails :
        <<req, e>> \in matches <=> route[e].kind = "wait" /\ route[e].to = req

\* Eight operations write the waits, the routes and the three indexes over
\* them, each its own few files (shared-mail-state.ts:568-1069); no sequence of
\* them leaves an index that disagrees with what it indexes.
IndexesExact == UnboundIndexExact /\ ParentIndexExact /\ MatchIndexExact

\* An email is given to a wait only as the authenticated reply to its send,
\* and stays so whatever is hydrated, bound, joined or cancelled later.
WaitGetsOnlyItsReplies ==
    \A e \in Emails : route[e].kind = "wait" =>
        LET w == waits[route[e].to]
        IN  Trusted(e) /\ details[e].peer = w.peer /\ details[e].parent = w.sent

\* A completed plain wait has observed all of its replies: none is left
\* claimed for a wait nobody will read again.
CompletedWaitObservedAll ==
    \A req \in Requests :
        waits[req].status = "completed" /\ waits[req].contact = None =>
            \A e \in Emails : route[e].kind = "wait" /\ route[e].to = req =>
                route[e].state = "observed"

\* A wait completes only on a reply that some consumer has: one it observed,
\* or, for a contact request, one its session was already notified of.
CompletedByAReply ==
    \A req \in Requests : waits[req].status = "completed" =>
        \E e \in Emails :
            /\ IsReplyTo(e, waits[req])
            /\ \/ route[e] = [kind |-> "wait", to |-> req, state |-> "observed"]
               \/ /\ waits[req].contact # None
                  /\ route[e].kind = "notification"
                  /\ route[e].state \in {"accepted", "skipped"}

\* No two consumers: a consumer that may have seen an email keeps it.  A wait's
\* claim is never moved or unobserved; a submitted, refused or skipped
\* notification is never offered again.
DeliveredOnce ==
    [][\A e \in Emails :
         /\ route[e].kind = "wait" =>
              /\ route'[e].kind = "wait" /\ route'[e].to = route[e].to
              /\ route[e].state = "observed" => route'[e].state = "observed"
         /\ route[e].kind = "notification" /\ route[e].state # "selected" =>
              /\ route'[e].kind = "notification" /\ route'[e].to = route[e].to
              /\ route[e].state \in {"accepted", "unknown", "skipped"} =>
                    route'[e].state = route[e].state]_vars

\* "An unresolved send has no authoritative parent yet ... must never turn its
\* possible reply into a native turn" (shared-mail-state.ts:993-994), and a
\* reply to a bound send is not taken from a process that may be waiting.
NativeOnlyWhenNobodyWaits ==
    [][\A e \in Emails :
         route[e] = NoRoute /\ route'[e].kind = "notification" =>
            \A req \in Requests :
              waits[req].peer = details[e].peer =>
                /\ waits[req].status \notin Unresolved
                /\ (waits[req].status = "bound" /\ waits[req].sent = details[e].parent)
                     => waits[req].tracked /\ waits[req].waiters \subseteq gone]_vars

\* "A manual resume must not erase the session that follows this conversation"
\* (shared-mail-state.ts:722): once a send's replies belong to a session, no
\* later wait on the same send gives them to another.
ConversationKeepsSession ==
    [][\A sent \in Sends :
         parents[sent] # None /\ waits[parents[sent]].session # None =>
            /\ parents'[sent] # None
            /\ waits'[parents'[sent]].session = waits[parents[sent]].session]_vars

\* A wait ends once: a cancelled or completed wait never waits again, and the
\* send a wait is tied to never changes.
WaitsEndOnce ==
    [][\A req \in Requests :
         /\ waits[req].status \in {"completed", "cancelled"} =>
              waits'[req].status = waits[req].status
         /\ waits[req].sent # None => waits'[req].sent = waits[req].sent]_vars
=============================================================================
