--------------------------- MODULE EventReceiver ---------------------------
(* The receiver of sdk-go/event_receiver.go: calls of Listen and Wait on one *)
(* subscription name of one EventsResource, over WebSocket.  A call reserves *)
(* the name, asks the server for a delivery, hands it to the application and *)
(* completes it with the application's verdict.  Goroutines of one call: the *)
(* receive loop, the handler, the deadline timer, the goroutine that frees   *)
(* the name, callers of Ack and Retry, and a caller of Close.                *)
(*                                                                          *)
(* The server is external.  It leases a queued event under a fresh token,    *)
(* may end a lease at any time, may answer, drop or refuse any request, and  *)
(* may process a completion after the client stopped waiting for it.         *)
(*                                                                          *)
(* A cancelled context makes a write fail and closes the socket              *)
(* (coder/websocket), so writing is one step with the check before it.  The  *)
(* call whose goroutine receives is the one that closes its connection, so   *)
(* its dials are part of that step too; a completion may dial while another  *)
(* goroutine gives the name up.                                              *)
EXTENDS Integers

CONSTANTS
    Listens, Waits,  \* calls of Listen and of Wait, each made once
    Hands,           \* goroutines of the application calling Ack or Retry
    Events,
    MaxLeases,       \* bound: leases the server grants of one event
    None

ASSUME CallsAssumption == Listens \intersect Waits = {} /\ None \notin Listens \union Waits
ASSUME LeasesAssumption == MaxLeases \in Nat
ASSUME EventsAssumption == None \notin Events

Calls == Listens \union Waits
Tokens == 1 .. MaxLeases
Verdicts == {"accept", "retry"}

VARIABLES
    slot,      \* EventsResource.active: the call that holds the name
    pc,        \* where each call's own goroutine is
    ctxDone,   \* the context given to the call was cancelled
    rctx,      \* the context of the current receive was cancelled by Close
    closer,    \* the caller of Close; it starts by closing the channel stop
    wire,      \* the call's socket with the one exchange on it
    delivery,  \* the PendingEvent in hand
    handler,   \* the handler goroutine of a listener
    hand,      \* the calls of Ack and Retry
    teardown,  \* how far the connection and the name were given up
    fate,      \* server: what became of each lease
    sent,      \* completions written to a socket
    said       \* history: the application's first verdict on each lease

callVars == <<slot, pc, ctxDone, rctx, closer, teardown>>
handVars == <<delivery, handler, hand, said>>
vars == <<slot, pc, ctxDone, rctx, closer, wire, delivery, handler, hand,
          teardown, fate, sent, said>>

Frame(kind) == [kind |-> kind, event |-> None, token |-> 0]
NoDelivery == [event |-> None, token |-> 0, ctx |-> "none", timer |-> "none",
               late |-> FALSE, chosen |-> "none", done |-> "none"]
Idle == [pc |-> "idle", want |-> "none", ret |-> "none"]

Init ==
    /\ slot = None
    /\ pc = [c \in Calls |-> "idle"]
    /\ ctxDone = [c \in Calls |-> FALSE]
    /\ rctx = [c \in Calls |-> FALSE]
    /\ closer = [c \in Calls |-> "idle"]
    /\ wire = [c \in Calls |-> Frame("closed")]
    /\ delivery = [c \in Calls |-> NoDelivery]
    /\ handler = [c \in Calls |-> "none"]
    /\ hand = [c \in Calls |-> [h \in Hands |-> Idle]]
    /\ teardown = [c \in Calls |-> "none"]
    /\ fate = [e \in Events |-> [t \in Tokens |-> "none"]]
    /\ sent = {}
    /\ said = [e \in Events |-> [t \in Tokens |-> "none"]]

-----------------------------------------------------------------------------
(* Starting a call.                                                         *)

Goto(c, label) == pc' = [pc EXCEPT ![c] = label]
SetWire(c, kind) == wire' = [wire EXCEPT ![c] = Frame(kind)]

\* reserve: the name is free; a call that finds it busy returns an error.
Reserve(c) ==
    /\ pc[c] = "idle"
    /\ slot = None
    /\ slot' = c
    /\ Goto(c, "connecting")
    /\ UNCHANGED <<ctxDone, rctx, closer, wire, handVars, teardown, fate, sent>>

\* connect: registers the subscription and opens the socket.
Connected(c) ==
    /\ pc[c] = "connecting"
    /\ SetWire(c, "quiet")
    /\ Goto(c, IF c \in Listens THEN "top" ELSE "attempt")
    /\ UNCHANGED <<slot, ctxDone, rctx, closer, handVars, teardown, fate, sent>>

\* connect closes its socket when it fails; the caller releases the name.
ConnectFails(c) ==
    /\ pc[c] = "connecting"
    /\ slot' = None
    /\ Goto(c, "ended")
    /\ UNCHANGED <<ctxDone, rctx, closer, wire, handVars, teardown, fate, sent>>

\* The context of a delivery is done; a timer still running has no more effect.
ContextDone(d) ==
    IF d.ctx = "live" THEN [d EXCEPT !.ctx = "done", !.timer = "stopped"] ELSE d

\* The caller's context ends, and with it the context of its delivery.
CallerCancels(c) ==
    /\ pc[c] \notin {"idle", "ended"} /\ ~ctxDone[c]
    /\ ctxDone' = [ctxDone EXCEPT ![c] = TRUE]
    /\ delivery' = [delivery EXCEPT ![c] = ContextDone(@)]
    /\ UNCHANGED <<slot, pc, rctx, closer, wire, handler, hand, teardown, fate, sent, said>>

-----------------------------------------------------------------------------
(* Receiving: the loop of Listen, and of Wait.                               *)

Stopped(c) == closer[c] # "idle"

\* Listen looks at stop and at its context before each receive.
LoopTop(c) ==
    /\ pc[c] = "top"
    /\ Goto(c, IF Stopped(c) \/ ctxDone[c] THEN "closing" ELSE "arming")
    /\ UNCHANGED <<slot, ctxDone, rctx, closer, wire, handVars, teardown, fate, sent>>

\* With a bug: a Close that came since the loop looked is not noticed.
ArmBlindly(c) ==
    /\ pc[c] = "arming"
    /\ rctx' = [rctx EXCEPT ![c] = FALSE]
    /\ Goto(c, "attempt")
    /\ UNCHANGED <<slot, ctxDone, closer, wire, handVars, teardown, fate, sent>>

\* Under the mutex: publishes cancelReceive, then looks at stop once more.
Arm(c) ==
    /\ pc[c] = "arming"
    /\ rctx' = [rctx EXCEPT ![c] = Stopped(c)]
    /\ Goto(c, "attempt")
    /\ UNCHANGED <<slot, ctxDone, closer, wire, handVars, teardown, fate, sent>>

\* cancelReceive is set exactly while a listener receives.
Receiving(c) == c \in Listens /\ pc[c] \in {"attempt", "asking"}
Cancelled(c) == ctxDone[c] \/ rctx[c]

\* retryEvent, one attempt at receive: the request is written, or that fails
\* for good or for now.  The pause before the next attempt, which a cancelled
\* context ends, is part of it.
Attempt(c) ==
    /\ pc[c] = "attempt"
    /\ \/ Cancelled(c) /\ Goto(c, "closing") /\ UNCHANGED wire
       \/ ~Cancelled(c) /\ Goto(c, "asking") /\ SetWire(c, "receive")
       \/ /\ ~Cancelled(c) /\ SetWire(c, "closed")
          /\ \E label \in {"attempt", "closing"} : Goto(c, label)
    /\ UNCHANGED <<slot, ctxDone, rctx, closer, handVars, teardown, fate, sent>>

\* exchange gives up on a cancelled context and closes the socket.
Abandon(c) ==
    /\ pc[c] = "asking" /\ Cancelled(c)
    /\ SetWire(c, "closed")
    /\ Goto(c, "closing")
    /\ UNCHANGED <<slot, ctxDone, rctx, closer, handVars, teardown, fate, sent>>

\* The answer is an offer: newPendingEvent starts the deadline.  A context
\* cancelled by then is already done in the new delivery.
Offered(c) ==
    /\ pc[c] = "asking" /\ wire[c].kind = "offer"
    /\ delivery' = [delivery EXCEPT ![c] =
          LET d == [NoDelivery EXCEPT !.event = wire[c].event, !.token = wire[c].token,
                                      !.ctx = "live", !.timer = "armed"]
          IN  IF ctxDone[c] THEN ContextDone(d) ELSE d]
    /\ handler' = [handler EXCEPT ![c] = IF c \in Listens THEN "running" ELSE "none"]
    /\ SetWire(c, "quiet")
    /\ Goto(c, IF c \in Listens THEN "handling" ELSE "handed")
    /\ UNCHANGED <<slot, ctxDone, rctx, closer, hand, teardown, fate, sent, said>>

\* The answer is an error, or an offer that is malformed or expired already.
ReceiveFails(c) ==
    /\ pc[c] = "asking"
    /\ \/ wire[c].kind = "offer" /\ Goto(c, "closing") /\ SetWire(c, "quiet")
       \/ wire[c].kind = "refused" /\ Goto(c, "closing") /\ SetWire(c, "closed")
       \/ wire[c].kind = "dropped" /\ Goto(c, "attempt") /\ SetWire(c, "closed")
    /\ UNCHANGED <<slot, ctxDone, rctx, closer, handVars, teardown, fate, sent>>

\* No delivery yet: a pause that only the call's own context ends early.
NothingOffered(c) ==
    /\ pc[c] = "asking" /\ wire[c].kind = "empty"
    /\ SetWire(c, "quiet")
    /\ Goto(c, "resting")
    /\ UNCHANGED <<slot, ctxDone, rctx, closer, handVars, teardown, fate, sent>>

RestEnds(c) ==
    /\ pc[c] = "resting"
    /\ Goto(c, CASE ctxDone[c] -> "closing"
                 [] ~ctxDone[c] /\ c \in Listens -> "top"
                 [] ~ctxDone[c] /\ c \in Waits -> "attempt")
    /\ UNCHANGED <<slot, ctxDone, rctx, closer, wire, handVars, teardown, fate, sent>>

-----------------------------------------------------------------------------
(* The application's verdict.                                               *)

Say(c, v) ==
    LET e == delivery[c].event t == delivery[c].token
    IN  said' = IF said[e][t] = "none" THEN [said EXCEPT ![e][t] = v] ELSE said

\* The handler returns nil or an error, if ever; what it returns after the
\* listener gave up on it is read by nobody.
HandlerReturns(c, v) ==
    /\ pc[c] = "handling" /\ handler[c] = "running"
    /\ handler' = [handler EXCEPT ![c] = v]
    /\ Say(c, v)
    /\ UNCHANGED <<callVars, wire, delivery, hand, fate, sent>>

\* The deadline or the caller's context ended first: the listener stops.
HandlerLate(c) ==
    /\ pc[c] = "handling" /\ delivery[c].ctx # "live"
    /\ Goto(c, "closing")
    /\ UNCHANGED <<slot, ctxDone, rctx, closer, wire, handVars, teardown, fate, sent>>

SetHand(c, h, label, v, r) ==
    hand' = [hand EXCEPT ![c][h] = [pc |-> label, want |-> v, ret |-> r]]

\* The first verdict stops the timer, unless it has fired: its function will
\* then still cancel the context.
Chosen(d, v) ==
    [d EXCEPT !.chosen = v, !.timer = IF d.timer = "armed" THEN "stopped" ELSE d.timer]

\* With a bug: a repeated call does not wait for the first one.
ChooseWithoutWaiting(c, h, v) ==
    LET d == delivery[c]
    IN  \/ /\ d.chosen # "none"
           /\ SetHand(c, h, "returned", v, IF d.chosen = v THEN "ok" ELSE "conflict")
           /\ UNCHANGED delivery
        \/ /\ d.chosen = "none" /\ d.ctx # "live"
           /\ SetHand(c, h, "returned", v, "expired")
           /\ UNCHANGED delivery
        \/ /\ d.chosen = "none" /\ d.ctx = "live"
           /\ SetHand(c, h, "attempt", v, "none")
           /\ delivery' = [delivery EXCEPT ![c] = Chosen(d, v)]

\* PendingEvent.complete, its section under the mutex: the first call chooses,
\* the same verdict waits for it, another one is a conflict.
Choose(c, h, v) ==
    LET d == delivery[c]
    IN  \/ /\ d.chosen \notin {"none", v} /\ SetHand(c, h, "returned", v, "conflict")
           /\ UNCHANGED delivery
        \/ /\ d.chosen = v /\ SetHand(c, h, "waiting", v, "none")
           /\ UNCHANGED delivery
        \/ /\ d.chosen = "none" /\ d.ctx # "live"
           /\ SetHand(c, h, "returned", v, "expired")
           /\ UNCHANGED delivery
        \/ /\ d.chosen = "none" /\ d.ctx = "live"
           /\ SetHand(c, h, "attempt", v, "none")
           /\ delivery' = [delivery EXCEPT ![c] = Chosen(d, v)]

\* The application calls Ack or Retry on the delivery Wait returned.
Answer(c, h, v) ==
    /\ c \in Waits /\ pc[c] = "handed" /\ hand[c][h].pc = "idle"
    /\ Choose(c, h, v)
    /\ Say(c, v)
    /\ UNCHANGED <<callVars, wire, handler, fate, sent>>

\* With a bug: a handler that missed its deadline counts as one that accepted.
DecideAnyway(c, h) ==
    /\ pc[c] = "handling"
    /\ Choose(c, h, IF handler[c] = "retry" THEN "retry" ELSE "accept")
    /\ Goto(c, "completing")
    /\ UNCHANGED <<slot, ctxDone, rctx, closer, wire, handler, teardown, fate, sent, said>>

\* Listen completes with what its handler returned.
Decide(c, h) ==
    /\ pc[c] = "handling" /\ handler[c] \in Verdicts
    /\ Choose(c, h, handler[c])
    /\ Goto(c, "completing")
    /\ UNCHANGED <<slot, ctxDone, rctx, closer, wire, handler, teardown, fate, sent, said>>

\* The listener goes on to the next delivery, or stops with the error.
Completed(c, h) ==
    /\ pc[c] = "completing" /\ hand[c][h].pc = "returned"
    /\ Goto(c, IF hand[c][h].ret = "ok" THEN "top" ELSE "closing")
    /\ delivery' = [delivery EXCEPT ![c] = NoDelivery]
    /\ handler' = [handler EXCEPT ![c] = "none"]
    /\ hand' = [hand EXCEPT ![c][h] = Idle]
    /\ UNCHANGED <<slot, ctxDone, rctx, closer, wire, teardown, fate, sent, said>>

-----------------------------------------------------------------------------
(* PendingEvent.complete, after its verdict is chosen.                       *)

\* With a bug: the retries outlive the lease.
CompleteCancelledByContext(c) == delivery[c].ctx # "live"

\* The delivery's context, or the end of the lease by the client's clock.
CompleteCancelled(c) == delivery[c].ctx # "live" \/ delivery[c].late

LeaseTimeout(c) ==
    /\ \E h \in Hands : hand[c][h].pc \in {"attempt", "dialling", "dialled", "asking"}
    /\ delivery' = [delivery EXCEPT ![c].late = TRUE]
    /\ UNCHANGED <<callVars, wire, handler, hand, fate, sent, said>>

\* d.err is set and done is closed.
Settle(c, h, r) ==
    /\ delivery' = [delivery EXCEPT ![c].done = r, ![c].late = FALSE]
    /\ SetHand(c, h, "finishing", hand[c][h].want, r)

Completion(c, h) == <<delivery[c].event, delivery[c].token, hand[c][h].want>>

\* exchange writes the completion, the same in every attempt.
WriteCompletion(c, h) ==
    /\ SetWire(c, "complete")
    /\ sent' = sent \union {Completion(c, h)}
    /\ SetHand(c, h, "asking", hand[c][h].want, "none")
    /\ UNCHANGED delivery

\* An attempt that failed is made again, or is the last.
AttemptFails(c, h) ==
    /\ \/ SetHand(c, h, "attempt", hand[c][h].want, "none") /\ UNCHANGED delivery
       \/ Settle(c, h, "failed")
    /\ UNCHANGED sent

\* retryEvent, one attempt: over the socket there is, or open dials one.
CompleteAttempt(c, h) ==
    /\ hand[c][h].pc = "attempt"
    /\ \/ /\ CompleteCancelled(c) /\ Settle(c, h, "failed")
          /\ UNCHANGED <<wire, sent>>
       \/ /\ ~CompleteCancelled(c) /\ wire[c].kind # "closed"
          /\ \/ WriteCompletion(c, h)
             \/ SetWire(c, "closed") /\ AttemptFails(c, h)
       \/ /\ ~CompleteCancelled(c) /\ wire[c].kind = "closed"
          /\ SetHand(c, h, "dialling", hand[c][h].want, "none")
          /\ UNCHANGED <<wire, sent, delivery>>
    /\ UNCHANGED <<callVars, handler, fate, said>>

\* The socket is stored, even if its context ended and the name was given up
\* since the dial returned.
CompleteDial(c, h) ==
    /\ hand[c][h].pc = "dialling"
    /\ \/ /\ SetWire(c, "quiet")
          /\ SetHand(c, h, "dialled", hand[c][h].want, "none")
          /\ UNCHANGED <<sent, delivery>>
       \/ CompleteCancelled(c) /\ Settle(c, h, "failed") /\ UNCHANGED <<wire, sent>>
       \/ ~CompleteCancelled(c) /\ AttemptFails(c, h) /\ UNCHANGED wire
    /\ UNCHANGED <<callVars, handler, fate, said>>

\* The exchanges on the new socket look at the context.
CompleteDialled(c, h) ==
    /\ hand[c][h].pc = "dialled"
    /\ \/ /\ CompleteCancelled(c)
          /\ SetWire(c, "closed") /\ Settle(c, h, "failed") /\ UNCHANGED sent
       \/ /\ ~CompleteCancelled(c)
          /\ \/ WriteCompletion(c, h)
             \/ SetWire(c, "closed") /\ AttemptFails(c, h)
    /\ UNCHANGED <<callVars, handler, fate, said>>

CompleteAbandon(c, h) ==
    /\ hand[c][h].pc = "asking" /\ CompleteCancelled(c)
    /\ SetWire(c, "closed")
    /\ Settle(c, h, "failed")
    /\ UNCHANGED <<callVars, handler, fate, sent, said>>

\* A receipt ends the call; a lost connection is tried again, also when the
\* name was given up meanwhile and the socket closed under the call.
CompleteAnswered(c, h) ==
    /\ hand[c][h].pc = "asking"
    /\ \/ wire[c].kind = "receipt" /\ SetWire(c, "quiet") /\ Settle(c, h, "ok")
       \/ wire[c].kind = "refused" /\ SetWire(c, "closed") /\ Settle(c, h, "failed")
       \/ /\ wire[c].kind \in {"dropped", "closed"} /\ SetWire(c, "closed")
          /\ SetHand(c, h, "attempt", hand[c][h].want, "none")
          /\ UNCHANGED delivery
    /\ UNCHANGED <<callVars, handler, fate, sent, said>>

\* d.cancel(): the context of the settled delivery ends.
CancelDelivery(c, h) ==
    /\ hand[c][h].pc = "finishing"
    /\ delivery' = [delivery EXCEPT ![c] = ContextDone(@)]
    /\ SetHand(c, h, IF c \in Waits THEN "releasing" ELSE "returned",
               hand[c][h].want, hand[c][h].ret)
    /\ UNCHANGED <<callVars, wire, handler, fate, sent, said>>

\* d.release() of a Wait returns once the name is given up, by whom ever.
Released(c, h) ==
    /\ hand[c][h].pc = "releasing" /\ teardown[c] = "freed"
    /\ SetHand(c, h, "returned", hand[c][h].want, hand[c][h].ret)
    /\ UNCHANGED <<callVars, wire, delivery, handler, fate, sent, said>>

\* A repeated Ack or Retry gets the outcome of the first.
Repeated(c, h) ==
    /\ hand[c][h].pc = "waiting" /\ delivery[c].done # "none"
    /\ SetHand(c, h, "returned", hand[c][h].want, delivery[c].done)
    /\ UNCHANGED <<callVars, wire, delivery, handler, fate, sent, said>>

\* The deadline: the timer fires, then its function cancels the context.
TimerFires(c) ==
    /\ delivery[c].timer = "armed"
    /\ delivery' = [delivery EXCEPT ![c].timer = "firing"]
    /\ UNCHANGED <<callVars, wire, handler, hand, fate, sent, said>>

TimerCancels(c) ==
    /\ delivery[c].timer = "firing"
    /\ delivery' = [delivery EXCEPT ![c] = ContextDone(@)]
    /\ UNCHANGED <<callVars, wire, handler, hand, fate, sent, said>>

-----------------------------------------------------------------------------
(* Giving up the connection and the name, once per call.                     *)

\* With a bug: only Ack and Retry give up the name of a delivered Wait.
GivesUpOnAnswer(c) ==
    \/ pc[c] = "closing"
    \/ \E h \in Hands : hand[c][h].pc = "releasing"

\* Listen and a failed Wait do so when they return, a delivered Wait when the
\* context of its delivery is done.
GivesUp(c) ==
    \/ pc[c] = "closing"
    \/ c \in Waits /\ pc[c] = "handed" /\ delivery[c].ctx # "live"

CloseConnection(c) ==
    /\ GivesUp(c) /\ teardown[c] = "none"
    /\ SetWire(c, "closed")
    /\ teardown' = [teardown EXCEPT ![c] = "closed"]
    /\ UNCHANGED <<slot, pc, ctxDone, rctx, closer, handVars, fate, sent>>

\* With a bug: the name can be deleted again, after another call reserved it.
FreeAgain(c) ==
    /\ teardown[c] \in {"closed", "freed"}
    /\ slot' = None
    /\ teardown' = [teardown EXCEPT ![c] = "freed"]
    /\ UNCHANGED <<pc, ctxDone, rctx, closer, wire, handVars, fate, sent>>

FreeSlot(c) ==
    /\ teardown[c] = "closed"
    /\ slot' = None
    /\ teardown' = [teardown EXCEPT ![c] = "freed"]
    /\ UNCHANGED <<pc, ctxDone, rctx, closer, wire, handVars, fate, sent>>

\* Wait returns its error; Listen closes done after the name is free, and
\* what it knew of its last delivery goes with it.
End(c) ==
    /\ pc[c] = "closing" /\ teardown[c] = "freed"
    /\ Goto(c, "ended")
    /\ delivery' = [delivery EXCEPT ![c] = NoDelivery]
    /\ handler' = [handler EXCEPT ![c] = "none"]
    /\ UNCHANGED <<slot, ctxDone, rctx, closer, wire, hand, said, teardown, fate, sent>>

\* EventListener.Close, once Listen has returned the listener.
Close(c) ==
    /\ c \in Listens /\ pc[c] \notin {"idle", "connecting"} /\ closer[c] = "idle"
    /\ closer' = [closer EXCEPT ![c] = "cancelling"]
    /\ UNCHANGED <<slot, pc, ctxDone, rctx, wire, handVars, teardown, fate, sent>>

CancelReceive(c) ==
    /\ closer[c] = "cancelling"
    /\ rctx' = [rctx EXCEPT ![c] = Receiving(c) \/ @]
    /\ closer' = [closer EXCEPT ![c] = "waiting"]
    /\ UNCHANGED <<slot, pc, ctxDone, wire, handVars, teardown, fate, sent>>

CloseReturn(c) ==
    /\ closer[c] = "waiting" /\ pc[c] = "ended"
    /\ closer' = [closer EXCEPT ![c] = "returned"]
    /\ UNCHANGED <<slot, pc, ctxDone, rctx, wire, handVars, teardown, fate, sent>>

-----------------------------------------------------------------------------
(* The server, and the network between.                                     *)

serverOnly == <<callVars, handVars>>

Queued(e) == \A t \in Tokens : fate[e][t] \notin {"held", "accept"}

Grant(c, e, t) ==
    /\ wire[c].kind = "receive"
    /\ Queued(e)
    /\ fate[e][t] = "none" /\ \A u \in 1 .. t - 1 : fate[e][u] # "none"
    /\ fate' = [fate EXCEPT ![e][t] = "held"]
    /\ wire' = [wire EXCEPT ![c] = [kind |-> "offer", event |-> e, token |-> t]]
    /\ UNCHANGED <<serverOnly, sent>>

\* An offer without a delivery, a terminal error, or a lost connection.
OtherAnswer(c, kind) ==
    /\ \/ wire[c].kind = "receive"
       \/ wire[c].kind = "complete" /\ kind # "empty"
    /\ SetWire(c, kind)
    /\ UNCHANGED <<serverOnly, fate, sent>>

\* A completion under a lease that is still held.
Record(m) ==
    /\ m \in sent /\ fate[m[1]][m[2]] = "held"
    /\ fate' = [fate EXCEPT ![m[1]][m[2]] = m[3]]
    /\ UNCHANGED <<serverOnly, wire, sent>>

\* "completed", or "already_completed" when it is asked again.
Receipt(c) ==
    /\ wire[c].kind = "complete"
    /\ \E h \in Hands :
         /\ hand[c][h].pc = "asking"
         /\ fate[delivery[c].event][delivery[c].token] = hand[c][h].want
    /\ SetWire(c, "receipt")
    /\ UNCHANGED <<serverOnly, fate, sent>>

Lapse(e, t) ==
    /\ fate[e][t] = "held"
    /\ fate' = [fate EXCEPT ![e][t] = "lapsed"]
    /\ UNCHANGED <<serverOnly, wire, sent>>

-----------------------------------------------------------------------------
Loop(c) ==
    \/ LoopTop(c) \/ Arm(c) \/ Attempt(c) \/ Abandon(c)
    \/ Offered(c) \/ ReceiveFails(c) \/ NothingOffered(c) \/ RestEnds(c)
    \/ HandlerLate(c) \/ End(c)
    \/ \E h \in Hands : Decide(c, h) \/ Completed(c, h)

Completing(c, h) ==
    \/ CompleteAttempt(c, h) \/ CompleteDial(c, h) \/ CompleteDialled(c, h)
    \/ CompleteAbandon(c, h) \/ CompleteAnswered(c, h)
    \/ CancelDelivery(c, h) \/ Released(c, h) \/ Repeated(c, h)

Timer(c) == TimerFires(c) \/ TimerCancels(c)
TearDown(c) == CloseConnection(c) \/ FreeSlot(c)
Closing(c) == CancelReceive(c) \/ CloseReturn(c)

Application(c) ==
    \/ Reserve(c) \/ CallerCancels(c) \/ Close(c)
    \/ \E v \in Verdicts : HandlerReturns(c, v) \/ \E h \in Hands : Answer(c, h, v)

Network(c) ==
    \/ Connected(c) \/ Receipt(c)
    \/ \E e \in Events, t \in Tokens : Grant(c, e, t)
    \/ \E kind \in {"empty", "refused", "dropped"} : OtherAnswer(c, kind)

Server ==
    \/ \E m \in sent : Record(m)
    \/ \E e \in Events, t \in Tokens : Lapse(e, t)

Next ==
    \/ \E c \in Calls :
         \/ Application(c) \/ Network(c) \/ ConnectFails(c) \/ Loop(c)
         \/ Timer(c) \/ LeaseTimeout(c) \/ TearDown(c) \/ Closing(c)
         \/ \E h \in Hands : Completing(c, h)
    \/ Server

Spec == Init /\ [][Next]_vars

\* Goroutines are scheduled, timers fire, and a cancelled connect returns.
\* Nothing is assumed of the application, the server or the network.
FairSpec ==
    /\ Spec
    /\ \A c \in Calls :
         /\ WF_vars(Loop(c)) /\ WF_vars(Timer(c)) /\ WF_vars(LeaseTimeout(c))
         /\ WF_vars(TearDown(c)) /\ WF_vars(Closing(c))
         /\ WF_vars(ctxDone[c] /\ ConnectFails(c))
         /\ \A h \in Hands : WF_vars(Completing(c, h))

-----------------------------------------------------------------------------
Fates == {"none", "held", "lapsed"} \union Verdicts
OrNone(S) == S \union {None}
Deliveries ==
    [event : OrNone(Events), token : {0} \union Tokens, ctx : {"none", "live", "done"},
     timer : {"none", "armed", "firing", "stopped"}, late : BOOLEAN,
     chosen : {"none"} \union Verdicts, done : {"none", "ok", "failed"}]
Frames ==
    [kind : {"closed", "quiet", "receive", "complete", "offer", "empty", "receipt",
             "refused", "dropped"},
     event : OrNone(Events), token : {0} \union Tokens]
Answers ==
    [pc : {"idle", "attempt", "dialling", "dialled", "asking", "finishing", "releasing",
           "waiting", "returned"},
     want : {"none"} \union Verdicts, ret : {"none", "ok", "failed", "conflict", "expired"}]

TypeOK ==
    /\ slot \in OrNone(Calls)
    /\ pc \in [Calls -> {"idle", "connecting", "top", "arming", "attempt", "asking",
                         "resting", "handling", "completing", "handed", "closing", "ended"}]
    /\ ctxDone \in [Calls -> BOOLEAN]
    /\ rctx \in [Calls -> BOOLEAN]
    /\ closer \in [Calls -> {"idle", "cancelling", "waiting", "returned"}]
    /\ wire \in [Calls -> Frames]
    /\ delivery \in [Calls -> Deliveries]
    /\ handler \in [Calls -> {"none", "running"} \union Verdicts]
    /\ hand \in [Calls -> [Hands -> Answers]]
    /\ teardown \in [Calls -> {"none", "closed", "freed"}]
    /\ fate \in [Events -> [Tokens -> Fates]]
    /\ sent \subseteq Events \X Tokens \X Verdicts
    /\ said \in [Events -> [Tokens -> {"none"} \union Verdicts]]
    /\ \A c \in Calls : pc[c] \in {"handling", "completing", "handed"} =>
          delivery[c].event \in Events /\ delivery[c].token \in Tokens

\* The refinement mappings: the name is a lock of the calls, and what the
\* application and the server know of the leases is a delivery.
Name == INSTANCE MutexLock WITH Clients <- Calls, Nobody <- None, holder <- slot
Reported ==
    {m \in Events \X Tokens \X Verdicts : \E c \in Calls, h \in Hands :
        /\ hand[c][h].ret = "ok"
        /\ m = <<delivery[c].event, delivery[c].token, hand[c][h].want>>}
Delivery == INSTANCE EventDelivery WITH reported <- Reported

\* One receiver per name ("busy", event_receiver.go:113): whoever has a socket
\* open or works on a receive holds the name.  A call whose name was freed
\* under it, by a deadline or a cancelled context, has no connection left; but
\* a completion that was dialling may still store a socket, which carries
\* nothing until the completion notices and closes it.
OneReceiver ==
    \A c \in Calls :
        /\ wire[c].kind # "closed" =>
              \/ slot = c
              \/ wire[c].kind = "quiet" /\ \E h \in Hands : hand[c][h].pc = "dialled"
        /\ pc[c] \notin {"idle", "handed", "closing", "ended"} => slot = c

\* The server never hears of a lease anything but what the application said of
\* it first: no completion the application did not give, however the deadline,
\* a repeated or contrary call, a retry and a Close interleave.
OnlyTheVerdict == \A m \in sent : said[m[1]][m[2]] = m[3]

\* An Ack or Retry that returned without an error is on record at the server,
\* for a repeated call too; and a listener goes on only with that.
NilMeansRecorded ==
    \A c \in Calls, h \in Hands :
        hand[c][h].ret = "ok" =>
            fate[delivery[c].event][delivery[c].token] = hand[c][h].want

\* Close ends the listener without help of the server or of the handler: a
\* receive it must interrupt is cancelled whenever Close comes.
CloseReturns ==
    \A c \in Listens : closer[c] = "cancelling" ~> closer[c] = "returned"

\* Ack and Retry return, whatever the server answers and however often the
\* connection is lost: their retries end with the lease.
AnswersReturn ==
    \A c \in Calls, h \in Hands :
        hand[c][h].pc # "idle" ~> hand[c][h].pc \in {"idle", "returned"}

\* The name comes free again: after a delivery the application never answers,
\* and after a call whose context was cancelled.
NameComesFree ==
    \A c \in Calls : pc[c] = "handed" \/ ctxDone[c] ~> slot # c
=============================================================================
