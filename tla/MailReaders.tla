---------------------------- MODULE MailReaders ----------------------------
(* A chat command and the sessions' listeners reading one mail store: who    *)
(* gets the reply, when either may fail or die between any two of its steps  *)
(* and is run again.                                                        *)
EXTENDS ReplyWait, NotifySession

readersVars == <<vars, serverVars, chatVars, notifyVars>>

ReadersInit == Init /\ ServerInit /\ ChatInit /\ NotifyInit

ReadersNext ==
    \/ ServerNext /\ UNCHANGED <<chatVars, notifyVars>>
    \/ ChatNext /\ UNCHANGED notifyVars
    \/ NotifyNext /\ UNCHANGED chatVars

ReadersSpec == ReadersInit /\ [][ReadersNext]_readersVars

-----------------------------------------------------------------------------
ReadersTypeOK ==
    /\ outcome \in [Requests -> {"none", "posted", "accepted", "refused"}]
    /\ sentAs \in [Requests -> OrNone(Sends)]
    /\ mail \in [Emails -> Details \union {NoDetails}]
    /\ cmd \in [step : Steps, token : OrNone(Waiters), wait : OrNone(Requests),
                fresh : BOOLEAN, reply : OrNone(Emails)]
    /\ receipt \in [key : OrNone(Requests), attempted : BOOLEAN, sent : OrNone(Sends),
                    refused : BOOLEAN, reply : OrNone(Emails), by : OrNone(Requests), done : BOOLEAN]
    /\ used \subseteq Waiters
    /\ posts \in [Requests -> Nat]
    /\ reported \subseteq Emails /\ dropped \subseteq Emails
    /\ listener \in [Sessions -> [stage : Stages, email : OrNone(Emails)]]
    /\ row \in [Sessions -> Routes \union {NoRoute}]
    /\ receipts \in [Sessions -> [Emails -> ReceiptStates]]
    /\ index \in [Sessions -> SUBSET Emails]
    /\ pending \in [Sessions -> [email : OrNone(Emails), state : ReceiptStates]]
    /\ turns \in [Emails -> Nat]

\* The refinement mapping: of a route only the reader matters, and whether the
\* email was skipped.
Reader == [e \in Emails |-> [kind |-> route[e].kind, to |-> route[e].to]]
Skipped == {e \in Emails : route[e].state = "skipped"}
Mailbox == INSTANCE MailDelivery WITH reader <- Reader, skipped <- Skipped, shown <- reported

\* "Show each email to the session at most once" (receiver-contract.md:33), and
\* more: between the store, the command and the listeners an email has one
\* reader at a time, nobody else shows it, what was shown or skipped is never
\* given away, and a send is posted once, whatever fails or dies in between.
ImplementsMailbox == Mailbox!Spec

\* "Unknown POSTs never retry" (chat-receipt.ts:149): whatever fails, and
\* however often the command is run again, a send is posted at most once.
SentOnce == \A key \in Requests : posts[key] <= 1

\* "Keep the exact reply recoverable across either shared-state write"
\* (chat.ts:2349): a reply the store calls observed, which no reader is
\* offered again, was shown, or is about to be by the command that has it, or
\* will be by the unfinished receipt.  Only a process killed between the save
\* that completes the receipt and the next line, which shows the reply
\* (chat.ts:2388-2389), leaves it to nobody.
ReplyNotLost ==
    \A e \in Emails :
        route[e].kind = "wait" /\ route[e].state = "observed" =>
            \/ e \in reported \union dropped
            \/ receipt.reply = e /\ ~receipt.done
            \/ At("report") /\ cmd.reply = e

\* "Show each email to the session at most once" (receiver-contract.md:33),
\* across the two readers: a turn is started at most once for an email, and
\* never for one that a chat showed.
ShownByOneReader ==
    \A e \in Emails : turns[e] + (IF e \in reported THEN 1 ELSE 0) <= 1

\* The store's word on an email agrees with what happened in the session: no
\* turn stands behind an email that is free, waited for or skipped, and one
\* does behind an accepted email.
RouteTellsTurn ==
    \A e \in Emails :
        /\ turns[e] > 0 => route[e].kind = "notification" /\ route[e].state # "skipped"
        /\ route[e].state = "accepted" => turns[e] = 1

\* "Interrupted index writes recover locally before dispatch"
\* (cli-node/README.md:898): a running listener never meets an index entry
\* without its receipt, which it could only refuse, and an interrupted update
\* can always be finished.
ReceiptsRecover ==
    \A k \in Sessions :
        /\ pending[k] = NoUpdate => index[k] = {e \in Emails : receipts[k][e] # "none"}
        /\ pending[k] # NoUpdate => In(k, "off") /\ Coherent(k, pending[k])

\* The steps at which a command with an open wait may still get the reply.
Reading == Steps \ {"idle", "open", "openBind", "giveUp", "giveUpCancel", "settle", "close"}

\* A reply to the conversation's send does not become a native turn while the
\* send is unresolved, whether its command lives or not, nor while a command
\* with an open wait has no reply yet (shared-mail-state.ts:993-994).
CommandReadsFirst ==
    [][\A e \in Emails :
         /\ route[e] = NoRoute /\ route'[e].kind = "notification"
         /\ mail[e].parent # None /\ receipt.key # None
         /\ sentAs[receipt.key] = mail[e].parent /\ mail[e].peer = ChatPeer
         => /\ receipt.sent = mail[e].parent
            /\ cmd.step \in Reading => receipt.reply # None]_readersVars

\* "Resumes pre-send or uncertain intents" (chat-receipt.test.ts:54): the wait
\* an unresolved receipt names can still take the send's outcome.
IntentResumes ==
    ~receipt.done /\ receipt.sent = None =>
        waits[receipt.key].status \in {"absent", "unbound", "uncertain"}
            \/ cmd.step \in {"settle", "giveUpCancel"}
=============================================================================
