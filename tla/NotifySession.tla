--------------------------- MODULE NotifySession ---------------------------
(* The listener that hands mail to a native session: listen-notifications.ts *)
(* takes an email of the store through policy, claim, dispatch and           *)
(* reconciliation; notify-session.ts and notify-session-native.ts start the  *)
(* turn; notify-session-state.ts keeps a receipt for every dispatch.  A step *)
(* is one store transaction, one saved receipt or one request.  A session    *)
(* has one listener at a time (its receipts are opened under ListenLock).    *)
EXTENDS MailServer

VARIABLES
    listener,  \* per session: the step and the email it is at
    row,       \* the route that email had when it was listed
    receipts,  \* emails/: what is recorded of each email's notification
    index,     \* events/: the emails whose delivery event is indexed
    pending,   \* pending.json: the update being written, or NoUpdate
    turns      \* history: turns started for each email

notifyVars == <<listener, row, receipts, index, pending, turns>>

Stages == {"off", "scan", "judge", "ignored", "hydrate", "claim", "claimed", "dispatch",
           "turn", "accepted", "unknown", "refused", "defer", "reconcile", "mark"}
ReceiptStates == {"none", "submitting", "accepted", "unknown", "not_submitted"}
NoUpdate == [email |-> None, state |-> "none"]

NotifyInit ==
    /\ listener = [k \in Sessions |-> [stage |-> "off", email |-> None]]
    /\ row = [k \in Sessions |-> NoRoute]
    /\ receipts = [k \in Sessions |-> [e \in Emails |-> "none"]]
    /\ index = [k \in Sessions |-> {}]
    /\ pending = [k \in Sessions |-> NoUpdate]
    /\ turns = [e \in Emails |-> 0]

In(k, stage) == listener[k].stage = stage
Enter(k, stage) == listener' = [listener EXCEPT ![k].stage = stage]
Leave(k, stage) == listener' = [listener EXCEPT ![k] = [stage |-> stage, email |-> None]]
Mail(k) == listener[k].email
Receipt(k) == receipts[k][Mail(k)]

Rest == UNCHANGED <<row, receipts, index, pending, turns, serverVars>>
NoCall == UNCHANGED vars

\* The email is, or was when listed, given to this session's listener.
Own(k, r) == r.kind = "notification" /\ r.to = k

-----------------------------------------------------------------------------
\* checkCoherence: an outcome may follow submitting, and only submitting may
\* follow a refusal or nothing.
Coherent(k, u) ==
    LET old == receipts[k][u.email]
    IN  \/ old = "submitting" \/ old = u.state
        \/ old \in {"none", "not_submitted"} /\ u.state = "submitting"

\* With a bug: the index is written first, with nothing to recover it from.
WriteUnjournaled(k, u, n) ==
    /\ pending[k] = NoUpdate /\ Coherent(k, u)
    /\ UNCHANGED pending
    /\ receipts' = [receipts EXCEPT ![k][u.email] = IF n >= 2 THEN u.state ELSE @]
    /\ index' = [index EXCEPT ![k] = IF n >= 1 THEN @ \union {u.email} ELSE @]

\* The files after the first n of the four writes of saveUpdate: the pending
\* update, the receipt, the index, and the removal of the pending update.
Write(k, u, n) ==
    /\ pending[k] = NoUpdate /\ Coherent(k, u)
    /\ pending' = [pending EXCEPT ![k] = IF n \in 1..3 THEN u ELSE NoUpdate]
    /\ receipts' = [receipts EXCEPT ![k][u.email] = IF n >= 2 THEN u.state ELSE @]
    /\ index' = [index EXCEPT ![k] = IF n >= 3 THEN @ \union {u.email} ELSE @]

\* save: all four writes and on to `stage`, or the process ends part way.
SaveReceipt(k, state, stage) ==
    \E n \in 0..4 :
        /\ Write(k, [email |-> Mail(k), state |-> state], n)
        /\ IF n = 4 THEN Enter(k, stage) ELSE Leave(k, "off")
        /\ UNCHANGED <<row, turns, serverVars, vars>>

\* openNotificationReceipts: an interrupted update is finished first.
StartListener(k) ==
    /\ In(k, "off")
    /\ LET u == pending[k]
       IN  IF u = NoUpdate THEN UNCHANGED <<receipts, index, pending>>
           ELSE /\ Coherent(k, u)
                /\ receipts' = [receipts EXCEPT ![k][u.email] = u.state]
                /\ index' = [index EXCEPT ![k] = @ \union {u.email}]
                /\ pending' = [pending EXCEPT ![k] = NoUpdate]
    /\ Leave(k, "scan")
    /\ UNCHANGED <<row, turns, serverVars, vars>>

\* The listener fails, is stopped or dies.
StopListener(k) ==
    /\ ~In(k, "off")
    /\ Leave(k, "off")
    /\ Rest /\ NoCall

-----------------------------------------------------------------------------
\* listEmails: the route is read here and may be old when it is used.
List(k, e) ==
    /\ In(k, "scan") /\ e \in known
    /\ listener' = [listener EXCEPT ![k] = [stage |-> "judge", email |-> e]]
    /\ row' = [row EXCEPT ![k] = route[e]]
    /\ UNCHANGED <<receipts, index, pending, turns, serverVars>> /\ NoCall

\* The email has another consumer, or was skipped.
Settled(k) ==
    /\ In(k, "judge")
    /\ row[k].kind # "none"
    /\ Own(k, row[k]) => row[k].state = "skipped"
    /\ Leave(k, "scan") /\ Rest /\ NoCall

\* Something was dispatched for it: the receipt decides, not the email.
Resume(k) ==
    /\ In(k, "judge")
    /\ Own(k, row[k]) /\ row[k].state # "skipped"
    /\ Receipt(k) \in {"submitting", "accepted", "unknown"}
    /\ Enter(k, "reconcile") /\ Rest /\ NoCall

\* The policy on sender, contacts and trust: later, ignored for good, or
\* admitted.  Whatever it looks at may change from one listing to the next.
Judge(k, verdict) ==
    /\ In(k, "judge")
    /\ \/ row[k] = NoRoute
       \/ /\ Own(k, row[k]) /\ row[k].state = "selected"
          /\ Receipt(k) \in {"none", "not_submitted"}
    /\ IF verdict = "scan" THEN Leave(k, "scan") ELSE Enter(k, verdict)
    /\ Rest /\ NoCall

\* An ignored email whose claim an earlier run left is skipped.
Ignored(k) ==
    /\ In(k, "ignored")
    /\ IF Own(k, route[Mail(k)]) /\ route[Mail(k)].state = "selected" /\ Receipt(k) = "none"
         THEN SkipNotification(Mail(k), k) ELSE NoCall
    /\ Leave(k, "scan") /\ Rest

HydrateMail(k) ==
    /\ In(k, "hydrate")
    /\ Hydrate(Mail(k), mail[Mail(k)])
    /\ Enter(k, "claim") /\ Rest

\* claimForNotification: takes the email, or finds it taken by this session.
ClaimMail(k) ==
    /\ In(k, "claim")
    /\ \/ ClaimForNotification(Mail(k), k)
       \/ Own(k, route[Mail(k)]) /\ route[Mail(k)].state = "selected" /\ NoCall
    /\ Enter(k, "claimed") /\ Rest

\* Taken or followed by another consumer, or held by a wait or a send without
\* an outcome.
NotClaimed(k) ==
    /\ In(k, "claim")
    /\ LET d == details[Mail(k)]
           free == /\ route[Mail(k)] = NoRoute
                   /\ ~HeldByUnresolvedSend(d) /\ ~HeldByParent(d, k)
                   /\ d.thread # None => follows[d.thread] \in {None, k}
       IN  ~free /\ ~Own(k, route[Mail(k)])
    /\ Leave(k, "scan") /\ Rest /\ NoCall

\* The thread is muted, or the mail is not for this session after all.
Skip(k) ==
    /\ In(k, "claimed")
    /\ SkipNotification(Mail(k), k)
    /\ Leave(k, "scan") /\ Rest

\* The first reply to a send of this session makes it follow the thread.
FollowThread(k) ==
    LET d == details[Mail(k)]
    IN  /\ In(k, "claimed")
        /\ d.thread # None /\ d.parent # None /\ parents[d.parent] # None
        /\ waits[parents[d.parent]].session = k
        /\ Follow(d.thread, k)
        /\ Enter(k, "dispatch") /\ Rest

Prepare(k) ==
    /\ In(k, "claimed")
    /\ Enter(k, "dispatch") /\ Rest /\ NoCall

\* handleDetail before anything is dispatched: routine mail and suppressed
\* notices are skipped, a full notice budget defers.
Suppress(k) ==
    /\ In(k, "dispatch")
    /\ \/ SkipNotification(Mail(k), k)
       \/ ReleaseNotification(Mail(k), k)
    /\ Leave(k, "scan") /\ Rest

\* With a bug: the receipt is saved only when the turn's outcome is known.
SubmitUnsaved(k) ==
    /\ In(k, "dispatch")
    /\ Enter(k, "turn") /\ Rest /\ NoCall

\* The receipt says submitting, durably, before the turn is requested.
Submit(k) ==
    /\ In(k, "dispatch")
    /\ SaveReceipt(k, "submitting", "turn")

\* With a bug: a turn whose answer was lost is taken for not submitted.
TurnLostIsRefused(k) ==
    /\ In(k, "turn")
    /\ \/ /\ turns' = [turns EXCEPT ![Mail(k)] = @ + 1]
          /\ \E stage \in {"accepted", "refused"} : Enter(k, stage)
       \/ UNCHANGED turns /\ Enter(k, "refused")
    /\ UNCHANGED <<row, receipts, index, pending, serverVars>> /\ NoCall

\* turn/start: answered, refused explicitly, or lost on the way in or out.
Turn(k) ==
    /\ In(k, "turn")
    /\ \/ /\ turns' = [turns EXCEPT ![Mail(k)] = @ + 1]
          /\ \E stage \in {"accepted", "unknown"} : Enter(k, stage)
       \/ /\ UNCHANGED turns
          /\ \E stage \in {"refused", "unknown"} : Enter(k, stage)
    /\ UNCHANGED <<row, receipts, index, pending, serverVars>> /\ NoCall

\* The outcome is saved before the store is told.
Record(k) ==
    \/ In(k, "accepted") /\ SaveReceipt(k, "accepted", "reconcile")
    \/ In(k, "unknown") /\ SaveReceipt(k, "unknown", "reconcile")
    \/ In(k, "refused") /\ SaveReceipt(k, "not_submitted", "defer")

Defer(k) ==
    /\ In(k, "defer")
    /\ ReleaseNotification(Mail(k), k)
    /\ Leave(k, "scan") /\ Rest

\* reconcile: the store follows the receipt, through submitting.
Reconcile(k) ==
    /\ In(k, "reconcile")
    /\ Own(k, route[Mail(k)])
    /\ IF route[Mail(k)].state = "selected"
         THEN MarkNotification(Mail(k), "submitting") ELSE NoCall
    /\ Enter(k, "mark") /\ Rest

\* Anything but accepted is unknown, and ends the listener.
MarkOutcome(k) ==
    /\ In(k, "mark")
    /\ IF Receipt(k) = "accepted"
         THEN MarkNotification(Mail(k), "accepted") /\ Leave(k, "scan")
         ELSE MarkNotification(Mail(k), "unknown") /\ Leave(k, "off")
    /\ Rest

NotifyNext ==
    \E k \in Sessions :
        \/ StartListener(k) \/ StopListener(k)
        \/ \E e \in Emails : List(k, e)
        \/ Settled(k) \/ Resume(k)
        \/ \E verdict \in {"scan", "ignored", "hydrate"} : Judge(k, verdict)
        \/ Ignored(k) \/ HydrateMail(k) \/ ClaimMail(k) \/ NotClaimed(k)
        \/ Skip(k) \/ FollowThread(k) \/ Prepare(k)
        \/ Suppress(k) \/ Submit(k) \/ Turn(k) \/ Record(k) \/ Defer(k)
        \/ Reconcile(k) \/ MarkOutcome(k)
=============================================================================
