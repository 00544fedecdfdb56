----------------------------- MODULE ReplyWait -----------------------------
(* A connected `chat` command (cli-node/src/oclif/commands/chat.ts:1856-2397)*)
(* and its reply wait (connected-reply-wait.ts): register, send once, bind,  *)
(* wait, observe, finish, with the receipt (chat-receipt.ts) from which the  *)
(* same command, run again, goes on.  A step is one store transaction, one   *)
(* saved receipt or one request; the process may fail or die between any     *)
(* two.  The chat lock admits one command of a conversation at a time        *)
(* (ChatLock), so there is one `cmd`.                                        *)
EXTENDS MailServer

CONSTANTS
    ChatPeer,     \* whom the conversation is with
    ChatSession   \* the session the command runs in, or None

ASSUME ChatAssumption == ChatPeer \in Peers /\ ChatSession \in OrNone(Sessions)

VARIABLES
    cmd,       \* the running command: its step, waiter token, wait and reply
    receipt,   \* the chat receipt on disk
    used,      \* tokens of the commands started so far
    posts,     \* history: how often a send was posted under this key
    reported,  \* history: replies shown to the command's user
    dropped    \* history: replies whose command died after it had completed
               \* the receipt and before it showed them

chatVars == <<cmd, receipt, used, posts, reported, dropped>>

Steps == {"idle", "open", "openBind", "giveUp", "giveUpCancel", "ready", "cancel", "settle",
          "ask", "lookup", "rejected", "attempt", "mark", "post", "answer", "bind", "await", "ingest",
          "hydrate", "claim", "follow", "keep", "observe", "finish",
          "complete", "report", "close"}

Idle == [step |-> "idle", token |-> None, wait |-> None, fresh |-> FALSE, reply |-> None]
NoReceipt == [key |-> None, attempted |-> FALSE, sent |-> None, refused |-> FALSE,
              reply |-> None, by |-> None, done |-> TRUE]

ChatInit ==
    /\ cmd = Idle
    /\ receipt = NoReceipt
    /\ used = {}
    /\ posts = [r \in Requests |-> 0]
    /\ reported = {}
    /\ dropped = {}

At(step) == cmd.step = step
Go(step) == cmd' = [cmd EXCEPT !.step = step]

\* A step of the command that leaves its receipt, or the store, as it was.
NoSave == UNCHANGED <<receipt, used, posts, reported, dropped, serverVars>>
NoStore == UNCHANGED <<vars, used, posts, reported, dropped, serverVars>>

-----------------------------------------------------------------------------
\* beginChatReceipt: an unfinished receipt is resumed, or a new key begins.
Begin(token) ==
    /\ At("idle") /\ token \notin used
    /\ \/ ~receipt.done /\ UNCHANGED receipt
       \/ /\ receipt.done
          /\ \E key \in Requests : /\ ~Exists(key)
                                   /\ receipt' = [NoReceipt EXCEPT !.key = key, !.done = FALSE]
    /\ cmd' = [Idle EXCEPT !.step = "open", !.token = token, !.wait = receipt'.key]
    /\ used' = used \union {token}
    /\ UNCHANGED <<posts, reported, dropped, serverVars, vars>>

\* The wait an earlier run left may be continued by this command.
Mine(w) == w.peer = ChatPeer /\ w.session \in {None, ChatSession} /\ w.contact = None

\* openConnectedReplyWait with resumeReply: joins the wait that claimed it.
OpenReply(next) ==
    /\ At("open") /\ receipt.reply # None
    /\ Mine(waits[receipt.by]) /\ waits[receipt.by].sent = receipt.sent
    /\ route[receipt.reply].kind = "wait" /\ route[receipt.reply].to = receipt.by
    /\ JoinWait(receipt.by, cmd.token)
    /\ cmd' = [cmd EXCEPT !.step = next, !.wait = receipt.by]
    /\ NoSave

BoundBefore == parents[receipt.sent] # None /\ waits[parents[receipt.sent]].status = "bound"

\* ... of a send whose wait is bound: joins that wait.
OpenBound(next) ==
    /\ At("open") /\ receipt.reply = None
    /\ receipt.sent # None /\ BoundBefore
    /\ Mine(waits[parents[receipt.sent]])
    /\ JoinWait(parents[receipt.sent], cmd.token)
    /\ cmd' = [cmd EXCEPT !.step = next, !.wait = parents[receipt.sent]]
    /\ NoSave

\* ... otherwise registers, again if the receipt's key is known.
OpenOwn(next) ==
    /\ At("open") /\ receipt.reply = None
    /\ receipt.sent # None => ~BoundBefore
    /\ \/ RegisterNew(receipt.key, ChatPeer, ChatSession, None, cmd.token)
       \/ RegisterAgain(receipt.key, ChatPeer, ChatSession, None, cmd.token)
    /\ cmd' = [cmd EXCEPT !.fresh = ~Exists(receipt.key),
                          !.step = IF next = "ready" /\ receipt.sent # None
                                     THEN "openBind" ELSE next]
    /\ NoSave

\* The registration of a recorded send is bound at once.
OpenBind ==
    /\ At("openBind")
    /\ BindOwn(cmd.wait, receipt.sent)
    /\ Go("ready") /\ NoSave

\* Opening failed after it touched the store: leave the wait, and cancel it if
\* this very attempt registered it.
GiveUp ==
    /\ At("giveUp")
    /\ ReleaseWaiter(cmd.wait, cmd.token)
    /\ IF cmd.fresh /\ waits[cmd.wait].status = "unbound" THEN Go("giveUpCancel") ELSE cmd' = Idle
    /\ NoSave

GiveUpCancel ==
    /\ At("giveUpCancel")
    /\ CancelWaitBeforeSend(cmd.wait)
    /\ cmd' = Idle /\ NoSave

-----------------------------------------------------------------------------
\* Where a command goes once mail can be received: the receipt decides.
Ready ==
    /\ At("ready")
    /\ Go(CASE receipt.sent # None -> "bind"
            [] receipt.sent = None /\ receipt.refused -> "rejected"
            [] receipt.sent = None /\ ~receipt.refused /\ receipt.attempted -> "ask"
            [] OTHER -> "attempt")
    /\ NoStore /\ UNCHANGED receipt

\* The receiver never became ready.
NotReady ==
    /\ At("ready")
    /\ Go(IF receipt.sent = None /\ ~receipt.attempted THEN "cancel" ELSE "close")
    /\ NoStore /\ UNCHANGED receipt

CancelUnsent ==
    /\ At("cancel")
    /\ CancelWaitBeforeSend(cmd.wait)
    /\ Go("settle") /\ NoSave

Settle ==
    /\ At("settle")
    /\ receipt' = [receipt EXCEPT !.done = TRUE]
    /\ Go("close") /\ NoStore

\* An attempt whose outcome is unknown is looked up, never repeated.
Ask ==
    /\ At("ask")
    /\ MarkWaitUncertain(cmd.wait)
    /\ Go("lookup") /\ NoSave

\* reconcileChatSend; a send that is not found ends the command (Fail).
Lookup ==
    /\ At("lookup") /\ outcome[receipt.key] = "accepted"
    /\ receipt' = [receipt EXCEPT !.sent = sentAs[receipt.key]]
    /\ Go("bind") /\ NoStore

\* The record that was found says that the send did not go out.
LookupRefused ==
    /\ At("lookup") /\ outcome[receipt.key] = "refused"
    /\ receipt' = [receipt EXCEPT !.refused = TRUE]
    /\ Go("rejected") /\ NoStore

Rejected ==
    /\ At("rejected")
    /\ CancelRejectedSend(cmd.wait)
    /\ Go("settle") /\ NoSave

\* With a bug: the attempt is recorded only in memory.
AttemptUnsaved ==
    /\ At("attempt")
    /\ UNCHANGED receipt
    /\ Go("mark") /\ NoStore

Attempt ==
    /\ At("attempt")
    /\ receipt' = [receipt EXCEPT !.attempted = TRUE]
    /\ Go("mark") /\ NoStore

Mark ==
    /\ At("mark")
    /\ MarkWaitUncertain(cmd.wait)
    /\ Go("post") /\ NoSave

Post ==
    /\ At("post")
    /\ Take(receipt.key)
    /\ posts' = [posts EXCEPT ![receipt.key] = @ + 1]
    /\ Go("answer")
    /\ UNCHANGED <<receipt, used, reported, dropped, vars>>

Answered ==
    /\ At("answer") /\ outcome[receipt.key] = "accepted"
    /\ receipt' = [receipt EXCEPT !.sent = sentAs[receipt.key]]
    /\ Go("bind") /\ NoStore

\* With a bug: a lost answer is taken for a refusal.
RefusedOrLost ==
    /\ At("answer")
    /\ CancelRejectedSend(cmd.wait)
    /\ Go("settle") /\ NoSave

\* Only a definite refusal settles the send.  A lost answer is Fail.
Refused ==
    /\ At("answer") /\ outcome[receipt.key] = "refused"
    /\ CancelRejectedSend(cmd.wait)
    /\ Go("settle") /\ NoSave

\* bind: nothing to do for a saved reply.  An --async command then closes.
Bind ==
    /\ At("bind")
    /\ IF receipt.reply # None THEN UNCHANGED vars ELSE BindOwn(cmd.wait, receipt.sent)
    /\ Go("await") /\ NoSave

-----------------------------------------------------------------------------
\* next: an email is the reply, by search, by the store, or the saved one.
Found(e) ==
    /\ At("await")
    /\ mail[e].auth = "trusted" /\ mail[e].peer = ChatPeer /\ mail[e].parent = receipt.sent
    /\ receipt.reply # None => e = receipt.reply
    /\ cmd' = [cmd EXCEPT !.reply = e, !.step = IF e \in known THEN "hydrate" ELSE "ingest"]
    /\ NoStore /\ UNCHANGED receipt

IngestFound ==
    /\ At("ingest")
    /\ \E v \in Events : Ingest(v, cmd.reply)
    /\ Go("hydrate") /\ NoSave

HydrateFound ==
    /\ At("hydrate")
    /\ Hydrate(cmd.reply, mail[cmd.reply])
    /\ Go("claim") /\ NoSave

Claim ==
    /\ At("claim")
    /\ ClaimForWait(cmd.reply, cmd.wait, cmd.token)
    /\ Go("follow") /\ NoSave

\* An answer that only reads: this wait's claim, not yet observed or the reply
\* being resumed, goes on; any other consumer keeps the email.
ClaimAgain ==
    /\ At("claim")
    /\ cmd.token \in waits[cmd.wait].waiters
    /\ route[cmd.reply] # NoRoute
    /\ LET own == route[cmd.reply].kind = "wait" /\ route[cmd.reply].to = cmd.wait
           fits == route[cmd.reply].state = "claimed" \/ receipt.reply = cmd.reply
       IN  Go(IF own /\ fits THEN "follow" ELSE "await")
    /\ NoStore /\ UNCHANGED receipt

\* The conversation's session follows the thread of its first reply.
FollowReply ==
    /\ At("follow")
    /\ LET t == mail[cmd.reply].thread
       IN  IF t = None \/ ChatSession = None THEN UNCHANGED vars ELSE Follow(t, ChatSession)
    /\ Go("keep") /\ NoSave

\* With a bug: the receipt is saved only at the end.
KeepLater ==
    /\ At("keep")
    /\ UNCHANGED receipt
    /\ Go("observe") /\ NoStore

\* The reply's id is saved before the store is told it was observed.
Keep ==
    /\ At("keep")
    /\ receipt' = [receipt EXCEPT !.reply = cmd.reply, !.by = cmd.wait]
    /\ Go("observe") /\ NoStore

Observe ==
    /\ At("observe")
    /\ MarkWaitObserved(cmd.reply, cmd.wait)
    /\ Go("finish") /\ NoSave

Finish ==
    /\ At("finish")
    /\ IF waits[cmd.wait].status = "completed" THEN UNCHANGED vars ELSE FinishWait(cmd.wait)
    /\ Go("complete") /\ NoSave

\* persistActiveChat, then the receipt: only a saved chat completes it.  Either
\* may fail or throw; the reply in hand is shown all the same (by the catch in
\* run(), after the wait was closed).
Complete(saved) ==
    /\ At("complete")
    /\ receipt' = [receipt EXCEPT !.done = saved]
    /\ Go("report") /\ NoStore

\* reportReplied comes after the receipt was completed.
Report ==
    /\ At("report")
    /\ reported' = reported \union {cmd.reply}
    /\ Go("close")
    /\ UNCHANGED <<receipt, used, posts, dropped, serverVars, vars>>

\* close: the waiter leaves the wait and the chat lock is released.
Close ==
    /\ At("close")
    /\ ReleaseWaiter(cmd.wait, cmd.token)
    /\ cmd' = Idle /\ NoSave

\* A failed step, the deadline or a lost answer closes an opened wait.
Fail ==
    /\ cmd.step \notin {"idle", "open", "openBind", "giveUp", "giveUpCancel", "ready",
                        "complete", "report", "close"}
    /\ Go("close")
    /\ NoStore /\ UNCHANGED receipt

FailOpening ==
    /\ At("openBind")
    /\ Go("giveUp")
    /\ NoStore /\ UNCHANGED receipt

\* The process dies, or fails where it cannot clean up; the lock is free.
Die ==
    /\ ~At("idle")
    /\ cmd' = Idle
    /\ dropped' = IF At("report") /\ receipt.done THEN dropped \union {cmd.reply} ELSE dropped
    /\ UNCHANGED <<receipt, used, posts, reported, serverVars, vars>>

\* The system reports a command that ended as gone.
CommandGone(token) ==
    /\ token \in used /\ token # cmd.token
    /\ WaiterGone(token)
    /\ UNCHANGED <<chatVars, serverVars>>

ChatNext ==
    \/ \E token \in Waiters : Begin(token) \/ CommandGone(token)
    \/ \E next \in {"ready", "giveUp"} : OpenReply(next) \/ OpenBound(next) \/ OpenOwn(next)
    \/ OpenBind \/ GiveUp \/ GiveUpCancel
    \/ Ready \/ NotReady \/ CancelUnsent \/ Settle
    \/ Ask \/ Lookup \/ LookupRefused \/ Rejected
    \/ Attempt \/ Mark \/ Post \/ Answered \/ Refused \/ Bind
    \/ \E e \in Emails : Found(e)
    \/ IngestFound \/ HydrateFound \/ Claim \/ ClaimAgain \/ FollowReply
    \/ Keep \/ Observe \/ Finish
    \/ (\E saved \in BOOLEAN : Complete(saved)) \/ Report
    \/ Close \/ Fail \/ FailOpening \/ Die
=============================================================================
