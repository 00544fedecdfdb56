------------------------ MODULE EventReceiverProofs ------------------------
(* Of EventReceiver, for any calls, goroutines, events and leases: who holds *)
(* the name holds the only connection, an Ack or Retry that reports success*)
(* is on record at the server, and the server hears of a lease only what the *)
(* application said of it first.  So it implements EventDelivery, and the  *)
(* name is a MutexLock.                                                    *)
EXTENDS EventReceiver, TLAPS

\* A frame with an offer names a lease, and a hand at work has its verdict.
FramesWellFormed ==
    /\ \A c \in Calls : wire[c].kind = "offer" =>
          wire[c].event \in Events /\ wire[c].token \in Tokens
    /\ \A c \in Calls, h \in Hands :
          hand[c][h].pc # "idle" => hand[c][h].want \in Verdicts

\* Where the calls of Ack and Retry can be at work.
HandsInPlace ==
    /\ \A c \in Listens : pc[c] # "handed"
    /\ \A c \in Waits : pc[c] \notin {"top", "arming", "handling", "completing"}
    /\ \A c \in Waits, h \in Hands : hand[c][h].pc # "idle" => pc[c] = "handed"
    /\ \A c \in Listens, h \in Hands : hand[c][h].pc # "idle" => pc[c] = "completing"
    /\ \A c \in Listens, h \in Hands, g \in Hands :
          hand[c][h].pc # "idle" /\ hand[c][g].pc # "idle" => h = g

Typed == TypeOK /\ FramesWellFormed /\ HandsInPlace

\* The steps of a call whose completion is under way.
Trying == {"attempt", "dialling", "dialled", "asking"}

LEMMA TypedInit == Init => Typed
  BY CallsAssumption
     DEF Init, Typed, TypeOK, FramesWellFormed, HandsInPlace, OrNone, Fates, Deliveries, Frames, Answers, Frame, NoDelivery, Idle, Calls, Tokens, Verdicts

\* The deliveries in hand stay well-formed and of the same leases.
SameLeases ==
    /\ delivery' \in [Calls -> Deliveries]
    /\ \A c \in Calls : /\ delivery'[c].event = delivery[c].event
                       /\ delivery'[c].token = delivery[c].token

LEMMA EndingKeepsLease ==
    ASSUME TypeOK, NEW c \in Calls, delivery' = [delivery EXCEPT ![c] = ContextDone(@)]
    PROVE  SameLeases
<1>1. delivery[c] \in Deliveries
  BY DEF TypeOK
<1>2. /\ ContextDone(delivery[c]) \in Deliveries
      /\ ContextDone(delivery[c]).event = delivery[c].event
      /\ ContextDone(delivery[c]).token = delivery[c].token
      /\ ContextDone(delivery[c]).ctx # "live"
  BY <1>1 DEF ContextDone, Deliveries
<1>3. QED
  BY <1>2 DEF SameLeases, TypeOK

LEMMA SettlingKeepsLease ==
    ASSUME TypeOK, NEW c \in Calls, NEW h \in Hands, NEW r \in {"ok", "failed"}, Settle(c, h, r)
    PROVE  SameLeases /\ SetHand(c, h, "finishing", hand[c][h].want, r)
<1>1. delivery[c] \in Deliveries
  BY DEF TypeOK
<1>2. QED
  BY <1>1 DEF SameLeases, TypeOK, Settle, Deliveries

\* What Choose leaves behind: the same leases, and the call under way.
ChosenTyped(c, h) ==
    /\ SameLeases
    /\ \E v \in Verdicts, r \in {"none", "conflict", "expired"},
          label \in {"attempt", "waiting", "returned"} : SetHand(c, h, label, v, r)

LEMMA ChooseTyped ==
    ASSUME TypeOK, NEW c \in Calls, NEW h \in Hands, NEW v \in Verdicts, Choose(c, h, v)
    PROVE  ChosenTyped(c, h)
<1>1. delivery' = delivery \/
      delivery' = [delivery EXCEPT ![c] = Chosen(delivery[c], v)]
  BY DEF Choose
<1>2. \E r \in {"none", "conflict", "expired"}, label \in {"attempt", "waiting", "returned"} :
        SetHand(c, h, label, v, r)
  BY DEF Choose
<1>3. CASE delivery' = delivery
  BY <1>2, <1>3 DEF ChosenTyped, SameLeases, TypeOK
<1>4. CASE delivery' = [delivery EXCEPT ![c] = Chosen(delivery[c], v)]
  <2>1. delivery[c] \in Deliveries
    BY DEF TypeOK
  <2>2. /\ Chosen(delivery[c], v) \in Deliveries
        /\ Chosen(delivery[c], v).event = delivery[c].event
        /\ Chosen(delivery[c], v).token = delivery[c].token
    BY <2>1 DEF Chosen, Deliveries
  <2>3. QED
    BY <1>2, <1>4, <2>2 DEF ChosenTyped, SameLeases, TypeOK
<1>5. QED
  BY <1>1, <1>3, <1>4

LEMMA LoopTyped == ASSUME Typed, NEW c \in Calls, Loop(c) PROVE Typed'
<1> USE CallsAssumption DEF Typed, OrNone, Fates, Deliveries, Frames, Answers, Calls, Verdicts, callVars, handVars, Goto, SetWire, Frame
<1>1. CASE LoopTop(c)
  BY <1>1 DEF LoopTop, TypeOK, FramesWellFormed, HandsInPlace
<1>2. CASE Arm(c)
  BY <1>2 DEF Arm, Stopped, TypeOK, FramesWellFormed, HandsInPlace
<1>3. CASE Attempt(c)
  <2>1. CASE Goto(c, "closing") /\ UNCHANGED wire
    BY <1>3, <2>1 DEF Attempt, TypeOK, FramesWellFormed, HandsInPlace
  <2>2. CASE Goto(c, "asking") /\ SetWire(c, "receive")
    BY <1>3, <2>2 DEF Attempt, TypeOK, FramesWellFormed, HandsInPlace
  <2>3. ASSUME NEW label \in {"attempt", "closing"}, SetWire(c, "closed"), Goto(c, label)
        PROVE  Typed'
    BY <1>3, <2>3 DEF Attempt, TypeOK, FramesWellFormed, HandsInPlace
  <2>4. QED
    BY <1>3, <2>1, <2>2, <2>3 DEF Attempt
<1>4. CASE Abandon(c)
  BY <1>4 DEF Abandon, TypeOK, FramesWellFormed, HandsInPlace
<1>5. CASE Offered(c)
  <2>1. TypeOK'
    BY <1>5 DEF Offered, NoDelivery, ContextDone, TypeOK, FramesWellFormed
  <2>2. FramesWellFormed'
    BY <1>5 DEF Offered, NoDelivery, ContextDone, TypeOK, FramesWellFormed
  <2>3. HandsInPlace'
    BY <1>5 DEF Offered, NoDelivery, ContextDone, TypeOK, HandsInPlace
  <2>4. QED
    BY <2>1, <2>2, <2>3
<1>6. CASE ReceiveFails(c)
  <2>1. ASSUME NEW label \in {"attempt", "closing"}, NEW kind \in {"quiet", "closed"},
               Goto(c, label), SetWire(c, kind)
        PROVE  Typed'
    BY <1>6, <2>1 DEF ReceiveFails, TypeOK, FramesWellFormed, HandsInPlace
  <2>2. QED
    BY <1>6, <2>1 DEF ReceiveFails
<1>7. CASE NothingOffered(c)
  BY <1>7 DEF NothingOffered, TypeOK, FramesWellFormed, HandsInPlace
<1>8. CASE RestEnds(c)
  BY <1>8 DEF RestEnds, TypeOK, FramesWellFormed, HandsInPlace
<1>9. CASE HandlerLate(c)
  BY <1>9 DEF HandlerLate, TypeOK, FramesWellFormed, HandsInPlace
<1>10. CASE End(c)
  BY <1>10 DEF End, NoDelivery, TypeOK, FramesWellFormed, HandsInPlace
<1>11. ASSUME NEW h \in Hands, Decide(c, h) PROVE Typed'
  <2>1. /\ handler[c] \in Verdicts /\ pc[c] = "handling" /\ Goto(c, "completing")
        /\ Choose(c, h, handler[c])
        /\ UNCHANGED <<slot, ctxDone, rctx, closer, wire, handler, teardown, fate, sent, said>>
    BY <1>11 DEF Decide
  <2>2. hand[c][h].pc = "idle" /\ c \in Listens
    BY <2>1 DEF HandsInPlace
  <2>3. ChosenTyped(c, h)
    BY <2>1, ChooseTyped
  <2> PICK v \in Verdicts, r \in {"none", "conflict", "expired"},
           label \in {"attempt", "waiting", "returned"} : SetHand(c, h, label, v, r)
    BY <2>3 DEF ChosenTyped
  <2>4. TypeOK'
    BY <2>1, <2>3 DEF TypeOK, ChosenTyped, SameLeases, SetHand
  <2>5. FramesWellFormed'
    BY <2>1 DEF FramesWellFormed, SetHand, TypeOK
  <2>6. HandsInPlace'
    BY <2>1, <2>2 DEF HandsInPlace, SetHand, TypeOK
  <2>7. QED
    BY <2>4, <2>5, <2>6
<1>12. ASSUME NEW h \in Hands, Completed(c, h) PROVE Typed'
  BY <1>12 DEF Completed, NoDelivery, Idle, TypeOK, FramesWellFormed, HandsInPlace
<1>13. QED
  BY <1>1, <1>2, <1>3, <1>4, <1>5, <1>6, <1>7, <1>8, <1>9, <1>10, <1>11, <1>12 DEF Loop

\* One attempt of retryEvent: the completion is over, its hand goes on with or
\* without a new socket, or writes.  Its own new socket never stays behind.
AttemptEnds(c, h) ==
    /\ Settle(c, h, "failed") /\ UNCHANGED sent
    /\ (UNCHANGED wire /\ hand[c][h].pc # "dialled") \/ SetWire(c, "closed")

AttemptGoesOn(c, h, label) ==
    /\ SetHand(c, h, label, hand[c][h].want, "none") /\ UNCHANGED <<sent, delivery>>
    /\ \/ UNCHANGED wire /\ hand[c][h].pc # "dialled" /\ label \in {"attempt", "dialling"}
       \/ SetWire(c, "closed") /\ label = "attempt"
       \/ SetWire(c, "quiet") /\ label = "dialled"

LEMMA AttemptMoves ==
    ASSUME NEW c \in Calls, NEW h \in Hands,
           CompleteAttempt(c, h) \/ CompleteDial(c, h) \/ CompleteDialled(c, h)
    PROVE  /\ hand[c][h].pc \in {"attempt", "dialling", "dialled"}
           /\ UNCHANGED <<callVars, handler, fate, said>>
           /\ \/ AttemptEnds(c, h)
              \/ \E label \in {"attempt", "dialling", "dialled"} : AttemptGoesOn(c, h, label)
              \/ /\ WriteCompletion(c, h) /\ ~CompleteCancelled(c)
                 /\ hand[c][h].pc \in {"attempt", "dialled"}
<1> USE DEF AttemptEnds, AttemptGoesOn, AttemptFails
<1>1. CASE CompleteAttempt(c, h)
  BY <1>1 DEF CompleteAttempt
<1>2. CASE CompleteDial(c, h)
  BY <1>2 DEF CompleteDial
<1>3. CASE CompleteDialled(c, h)
  BY <1>3 DEF CompleteDialled
<1>4. QED
  BY <1>1, <1>2, <1>3

\* The calls of Ack and Retry: one hand moves on, its lease stays.
LEMMA HandMovesTyped ==
    ASSUME Typed, NEW c \in Calls, NEW h \in Hands,
           hand[c][h].pc \notin {"idle", "returned"},
           NEW label \in {"attempt", "dialling", "dialled", "asking", "finishing", "releasing",
                          "returned"},
           NEW r \in {"none", "ok", "failed", "conflict", "expired"},
           SetHand(c, h, label, hand[c][h].want, r),
           wire' = wire \/ \E kind \in {"quiet", "closed", "complete"} : SetWire(c, kind),
           sent' \subseteq Events \X Tokens \X Verdicts,
           SameLeases,
           UNCHANGED <<callVars, handler, fate, said>>
    PROVE  Typed'
<1>1. hand[c][h].want \in Verdicts
  BY DEF Typed, FramesWellFormed
<1>2. hand' \in [Calls -> [Hands -> Answers]]
  BY <1>1 DEF Typed, TypeOK, SetHand, Answers
<1>3. \A kind \in {"quiet", "closed", "complete"} :
        Frame(kind) \in Frames /\ Frame(kind).kind # "offer"
  BY DEF Frame, Frames, OrNone
<1>4. /\ wire' \in [Calls -> Frames]
      /\ \A d \in Calls : wire'[d].kind = "offer" => wire'[d] = wire[d]
  BY <1>3 DEF Typed, TypeOK, SetWire
<1>5. TypeOK'
  BY <1>2, <1>4 DEF Typed, TypeOK, SameLeases, callVars, OrNone
<1>6. FramesWellFormed'
  BY <1>1, <1>4 DEF Typed, TypeOK, FramesWellFormed, SetHand
<1>7. HandsInPlace'
  BY DEF Typed, TypeOK, HandsInPlace, SetHand, callVars
<1>8. QED
  BY <1>5, <1>6, <1>7 DEF Typed

LEMMA CompletingTyped ==
    ASSUME Typed, NEW c \in Calls, NEW h \in Hands, Completing(c, h) PROVE Typed'
<1> hand[c][h].pc \notin {"idle", "returned"}
  BY DEF Completing, CompleteAttempt, CompleteDial, CompleteDialled, CompleteAbandon,
         CompleteAnswered, CancelDelivery, Released, Repeated
<1> USE DEF callVars
<1>1. TypeOK /\ hand[c][h].want \in Verdicts
  BY DEF Typed, FramesWellFormed
<1>2. UNCHANGED delivery => SameLeases
  BY <1>1 DEF TypeOK, SameLeases
<1>3. sent \subseteq Events \X Tokens \X Verdicts
  BY <1>1 DEF TypeOK
<1>4. CASE CompleteAttempt(c, h) \/ CompleteDial(c, h) \/ CompleteDialled(c, h)
  <2>1. Completion(c, h) \in Events \X Tokens \X Verdicts
    BY <1>1, <1>4, AttemptMoves DEF Typed, TypeOK, HandsInPlace, Completion, Calls
  <2>2. UNCHANGED <<callVars, handler, fate, said>>
    BY <1>4, AttemptMoves
  <2>3. CASE AttemptEnds(c, h)
    <3>1. UNCHANGED wire \/ SetWire(c, "closed")
      BY <2>3 DEF AttemptEnds
    <3>2. QED
      BY <1>1, <1>3, <2>2, <2>3, <3>1, SettlingKeepsLease, HandMovesTyped DEF AttemptEnds
  <2>4. ASSUME NEW label \in {"attempt", "dialling", "dialled"}, AttemptGoesOn(c, h, label)
        PROVE  Typed'
    <3>1. UNCHANGED wire \/ \E kind \in {"quiet", "closed", "complete"} : SetWire(c, kind)
      BY <2>4 DEF AttemptGoesOn
    <3>2. QED
      BY <1>2, <1>3, <2>2, <2>4, <3>1, HandMovesTyped DEF AttemptGoesOn
  <2>5. CASE WriteCompletion(c, h)
    <3>1. sent' \subseteq Events \X Tokens \X Verdicts
      BY <1>3, <2>1, <2>5 DEF WriteCompletion
    <3>2. QED
      BY <1>2, <2>2, <2>5, <3>1, HandMovesTyped DEF WriteCompletion
  <2>6. QED
    BY <1>4, <2>3, <2>4, <2>5, AttemptMoves
<1>5. CASE CompleteAbandon(c, h)
  BY <1>1, <1>3, <1>5, SettlingKeepsLease, HandMovesTyped DEF CompleteAbandon
<1>6. CASE CompleteAnswered(c, h)
  <2>1. UNCHANGED <<callVars, handler, fate, sent, said>>
    BY <1>6 DEF CompleteAnswered
  <2>2. ASSUME NEW kind \in {"quiet", "closed"}, NEW r \in {"ok", "failed"},
               SetWire(c, kind), Settle(c, h, r)
        PROVE  Typed'
    BY <1>1, <1>3, <2>1, <2>2, SettlingKeepsLease, HandMovesTyped
  <2>3. CASE /\ SetWire(c, "closed") /\ UNCHANGED delivery
             /\ SetHand(c, h, "attempt", hand[c][h].want, "none")
    BY <1>2, <1>3, <2>1, <2>3, HandMovesTyped
  <2>4. QED
    BY <1>6, <2>2, <2>3 DEF CompleteAnswered
<1>7. CASE CancelDelivery(c, h)
  <2>1. SameLeases
    BY <1>1, <1>7, EndingKeepsLease DEF CancelDelivery
  <2>2. hand[c][h].ret \in {"none", "ok", "failed", "conflict", "expired"}
    BY <1>1 DEF TypeOK, Answers
  <2>3. QED
    BY <1>3, <1>7, <2>1, <2>2, HandMovesTyped DEF CancelDelivery
<1>8. CASE Released(c, h)
  <2>1. hand[c][h].ret \in {"none", "ok", "failed", "conflict", "expired"}
    BY <1>1 DEF TypeOK, Answers
  <2>2. QED
    BY <1>2, <1>3, <1>8, <2>1, HandMovesTyped DEF Released
<1>9. CASE Repeated(c, h)
  <2>1. delivery[c].done \in {"none", "ok", "failed"}
    BY <1>1 DEF TypeOK, Deliveries
  <2>2. QED
    BY <1>2, <1>3, <1>9, <2>1, HandMovesTyped DEF Repeated
<1>10. QED
  BY <1>4, <1>5, <1>6, <1>7, <1>8, <1>9 DEF Completing

LEMMA ApplicationTyped == ASSUME Typed, NEW c \in Calls, Application(c) PROVE Typed'
<1> USE CallsAssumption DEF Typed, OrNone, Fates, Deliveries, Frames, Answers, Calls, Verdicts, callVars, handVars, Goto,
        SetWire, Frame, TypeOK, FramesWellFormed, HandsInPlace
<1>1. CASE Reserve(c)
  BY <1>1 DEF Reserve
<1>2. CASE CallerCancels(c)
  <2>1. SameLeases
    BY <1>2, EndingKeepsLease DEF CallerCancels
  <2>2. QED
    BY <1>2, <2>1 DEF CallerCancels, SameLeases
<1>3. CASE Close(c)
  BY <1>3 DEF Close
<1>4. ASSUME NEW v \in Verdicts, HandlerReturns(c, v) PROVE Typed'
  <2>1. said' \in [Events -> [Tokens -> {"none"} \union Verdicts]]
    BY <1>4 DEF HandlerReturns, Say
  <2>2. QED
    BY <1>4, <2>1 DEF HandlerReturns
<1>5. ASSUME NEW v \in Verdicts, NEW h \in Hands, Answer(c, h, v) PROVE Typed'
  <2>1. said' \in [Events -> [Tokens -> {"none"} \union Verdicts]]
    BY <1>5 DEF Answer, Say
  <2>2. ChosenTyped(c, h)
    BY <1>5, ChooseTyped DEF Answer
  <2> PICK u \in Verdicts, r \in {"none", "conflict", "expired"},
           label \in {"attempt", "waiting", "returned"} : SetHand(c, h, label, u, r)
    BY <2>2 DEF ChosenTyped
  <2>3. TypeOK'
    BY <1>5, <2>1, <2>2 DEF Answer, ChosenTyped, SameLeases, SetHand
  <2>4. FramesWellFormed'
    BY <1>5 DEF Answer, SetHand
  <2>5. HandsInPlace'
    BY <1>5 DEF Answer, SetHand
  <2>6. QED
    BY <2>3, <2>4, <2>5
<1>6. QED
  BY <1>1, <1>2, <1>3, <1>4, <1>5 DEF Application

LEMMA RestTyped ==
    ASSUME Typed,
           \/ \E c \in Calls :
                Network(c) \/ ConnectFails(c) \/ Timer(c) \/ LeaseTimeout(c) \/ TearDown(c) \/ Closing(c)
           \/ Server
    PROVE  Typed'
<1> USE CallsAssumption DEF Typed, OrNone, Fates, Deliveries, Frames, Answers, Calls, Verdicts, callVars, handVars, serverOnly,
        Goto, SetWire, Frame, TypeOK, FramesWellFormed, HandsInPlace
<1>1. ASSUME NEW c \in Calls, Network(c) PROVE Typed'
  <2>1. CASE Connected(c)
    BY <2>1 DEF Connected
  <2>2. CASE Receipt(c)
    BY <2>2 DEF Receipt
  <2>3. ASSUME NEW e \in Events, NEW t \in Tokens, Grant(c, e, t) PROVE Typed'
    BY <2>3 DEF Grant
  <2>4. ASSUME NEW kind \in {"empty", "refused", "dropped"}, OtherAnswer(c, kind) PROVE Typed'
    BY <2>4 DEF OtherAnswer
  <2>5. QED
    BY <1>1, <2>1, <2>2, <2>3, <2>4 DEF Network
<1>2. ASSUME NEW c \in Calls, ConnectFails(c) PROVE Typed'
  BY <1>2 DEF ConnectFails
<1>3. ASSUME NEW c \in Calls, Timer(c) PROVE Typed'
  <2>1. SameLeases
    <3>1. CASE TimerFires(c)
      <4>1. delivery[c] \in Deliveries
        BY DEF TypeOK
      <4>2. QED
        BY <3>1, <4>1 DEF TimerFires, SameLeases
    <3>2. CASE TimerCancels(c)
      BY <3>2, EndingKeepsLease DEF TimerCancels
    <3>3. QED
      BY <1>3, <3>1, <3>2 DEF Timer
  <2>2. UNCHANGED <<callVars, wire, handler, hand, fate, sent, said>>
    BY <1>3 DEF Timer, TimerFires, TimerCancels
  <2>3. QED
    BY <2>1, <2>2 DEF SameLeases
<1>4. ASSUME NEW c \in Calls, LeaseTimeout(c) PROVE Typed'
  <2>1. SameLeases
    <3>1. delivery[c] \in Deliveries
      BY DEF TypeOK
    <3>2. QED
      BY <1>4, <3>1 DEF LeaseTimeout, SameLeases
  <2>2. QED
    BY <1>4, <2>1 DEF LeaseTimeout, SameLeases
<1>5. ASSUME NEW c \in Calls, TearDown(c) PROVE Typed'
  <2>1. CASE CloseConnection(c)
    BY <2>1 DEF CloseConnection
  <2>2. CASE FreeSlot(c)
    BY <2>2 DEF FreeSlot
  <2>3. QED
    BY <1>5, <2>1, <2>2 DEF TearDown
<1>6. ASSUME NEW c \in Calls, Closing(c) PROVE Typed'
  <2>1. CASE CancelReceive(c)
    BY <2>1 DEF CancelReceive, Receiving
  <2>2. CASE CloseReturn(c)
    BY <2>2 DEF CloseReturn
  <2>3. QED
    BY <1>6, <2>1, <2>2 DEF Closing
<1>7. CASE Server
  <2>1. ASSUME NEW m \in sent, Record(m) PROVE Typed'
    BY <2>1 DEF Record
  <2>2. ASSUME NEW e \in Events, NEW t \in Tokens, Lapse(e, t) PROVE Typed'
    BY <2>2 DEF Lapse
  <2>3. QED
    BY <1>7, <2>1, <2>2 DEF Server
<1>8. QED
  BY <1>1, <1>2, <1>3, <1>4, <1>5, <1>6, <1>7

\* Every variable keeps its type, and a call in hand names a real lease.
THEOREM TypeCorrect == Spec => []TypeOK
<1>1. Typed /\ [Next]_vars => Typed'
  <2>1. CASE UNCHANGED vars
    BY <2>1 DEF vars, Typed, TypeOK, FramesWellFormed, HandsInPlace
  <2>2. CASE Next
    BY <2>2, LoopTyped, CompletingTyped, ApplicationTyped, RestTyped DEF Next
  <2>3. QED
    BY <2>1, <2>2
<1>2. QED
  BY <1>1, TypedInit, PTL DEF Spec, Typed

-----------------------------------------------------------------------------
(* The name.  A call owns it from its reservation until it is freed, and its *)
(* socket is open at most as long; both are given up in that order, and only *)
(* by a call that is closing or whose delivery is over.                    *)

Owns(c) == pc[c] \notin {"idle", "ended"} /\ teardown[c] # "freed"

\* A completion has a socket of its own that it has not used yet.
Dialled(c) == \E h \in Hands : hand[c][h].pc = "dialled"

NameHeld ==
    \A c \in Calls :
        /\ slot = c <=> Owns(c)
        /\ wire[c].kind # "closed" =>
              \/ Owns(c) /\ teardown[c] = "none" /\ pc[c] # "connecting"
              \/ wire[c].kind = "quiet" /\ Dialled(c)
        /\ teardown[c] = "closed" => GivesUp(c)
        /\ teardown[c] = "freed" => GivesUp(c) \/ pc[c] = "ended"

Inv == Typed /\ NameHeld

\* Most steps of the hands, the timers and the server leave the name alone: no
\* socket is opened but by a completion for itself, none is left behind by one,
\* and no delivery that is over becomes live again.
Quiet ==
    /\ UNCHANGED <<slot, pc, teardown>>
    /\ \A c \in Calls : delivery[c].ctx # "live" => delivery'[c].ctx # "live"
    /\ \A c \in Calls : wire'[c].kind # "closed" =>
          \/ wire[c].kind # "closed" /\ ~(wire[c].kind = "quiet" /\ Dialled(c))
          \/ wire'[c].kind = "quiet" /\ Dialled(c)'

LEMMA QuietKeepsName == NameHeld /\ Quiet => NameHeld'
  BY DEF NameHeld, Quiet, Owns, GivesUp

\* A hand that moves leaves the others where they are, and hands are only where
\* a delivery is in hand.
LEMMA MovingKeepsDialled ==
    ASSUME TypeOK, NEW c \in Calls, NEW h \in Hands, hand[c][h].pc # "dialled",
           NEW label, NEW v, NEW r, SetHand(c, h, label, v, r)
    PROVE  \A d \in Calls : Dialled(d) => Dialled(d)'
  BY DEF TypeOK, SetHand, Dialled

LEMMA StayingKeepsDialled ==
    hand' = hand => \A d \in Calls : Dialled(d)' = Dialled(d)
  BY DEF Dialled

LEMMA DialledInPlace ==
    Typed => \A c \in Calls : Dialled(c) => pc[c] \in {"handed", "completing"}
  BY DEF Typed, HandsInPlace, Dialled, Calls

LEMMA EndingStaysDone ==
    ASSUME TypeOK, NEW c \in Calls, delivery' = [delivery EXCEPT ![c] = ContextDone(@)]
    PROVE  \A d \in Calls : delivery[d].ctx # "live" => delivery'[d].ctx # "live"
<1>1. ContextDone(delivery[c]).ctx # "live"
  BY DEF TypeOK, ContextDone, Deliveries
<1>2. QED
  BY <1>1 DEF TypeOK

LEMMA SettlingStaysDone ==
    ASSUME TypeOK, NEW c \in Calls, NEW h \in Hands, NEW r \in {"ok", "failed"}, Settle(c, h, r)
    PROVE  \A d \in Calls : delivery'[d].ctx = delivery[d].ctx
  BY DEF TypeOK, Settle, Deliveries

LEMMA ChoosingStaysDone ==
    ASSUME TypeOK, NEW c \in Calls, NEW h \in Hands, NEW v \in Verdicts, Choose(c, h, v)
    PROVE  \A d \in Calls : delivery'[d].ctx = delivery[d].ctx
<1>1. delivery[c] \in Deliveries
  BY DEF TypeOK
<1>2. Chosen(delivery[c], v).ctx = delivery[c].ctx
  BY <1>1 DEF Chosen, Deliveries
<1>3. delivery' = delivery \/ delivery' = [delivery EXCEPT ![c] = Chosen(delivery[c], v)]
  BY DEF Choose
<1>4. QED
  BY <1>2, <1>3 DEF TypeOK

LEMMA LoopKeepsName == ASSUME Inv, NEW c \in Calls, Loop(c) PROVE NameHeld'
<1>a. hand' = hand => \A d \in Calls : Dialled(d)' = Dialled(d)
  BY StayingKeepsDialled
<1>b. \A d \in Calls : Dialled(d) => pc[d] \in {"handed", "completing"}
  BY DialledInPlace DEF Inv
<1> USE DEF Inv, Typed, TypeOK, NameHeld, Owns, GivesUp, Goto, SetWire, Frame, callVars, handVars
<1>1. CASE LoopTop(c)
  BY <1>a, <1>b, <1>1 DEF LoopTop
<1>2. CASE Arm(c)
  BY <1>a, <1>b, <1>2 DEF Arm
<1>3. CASE Attempt(c)
  BY <1>a, <1>b, <1>3 DEF Attempt
<1>4. CASE Abandon(c)
  BY <1>a, <1>b, <1>4 DEF Abandon
<1>5. CASE Offered(c)
  BY <1>a, <1>b, <1>5 DEF Offered
<1>6. CASE ReceiveFails(c)
  BY <1>a, <1>b, <1>6 DEF ReceiveFails
<1>7. CASE NothingOffered(c)
  BY <1>a, <1>b, <1>7 DEF NothingOffered
<1>8. CASE RestEnds(c)
  BY <1>a, <1>b, <1>8 DEF RestEnds, Calls
<1>9. CASE HandlerLate(c)
  BY <1>a, <1>b, <1>9 DEF HandlerLate
<1>10. CASE End(c)
  BY <1>a, <1>b, <1>10 DEF End
<1>11. ASSUME NEW h \in Hands, Decide(c, h) PROVE NameHeld'
  <2>1. \A d \in Calls : delivery'[d].ctx = delivery[d].ctx
    BY <1>11, ChoosingStaysDone DEF Decide
  <2>2. \A d \in Calls : Dialled(d) => Dialled(d)'
    <3>1. hand[c][h].pc = "idle" /\ Choose(c, h, handler[c])
      BY <1>11 DEF Decide, HandsInPlace, Calls
    <3>2. QED
      BY <3>1, MovingKeepsDialled DEF Choose
  <2>3. QED
    BY <1>b, <1>11, <2>1, <2>2 DEF Decide, HandsInPlace, Calls
<1>12. ASSUME NEW h \in Hands, Completed(c, h) PROVE NameHeld'
  <2>1. ~Dialled(c) /\ \A d \in Calls \ {c} : Dialled(d)' = Dialled(d)
    BY <1>12 DEF Completed, HandsInPlace, Calls, Dialled
  <2>2. QED
    BY <1>b, <1>12, <2>1 DEF Completed, HandsInPlace, Calls
<1>13. QED
  BY <1>1, <1>2, <1>3, <1>4, <1>5, <1>6, <1>7, <1>8, <1>9, <1>10, <1>11, <1>12 DEF Loop

LEMMA CompletingKeepsName ==
    ASSUME Inv, NEW c \in Calls, NEW h \in Hands, Completing(c, h) PROVE NameHeld'
<1>0. TypeOK /\ NameHeld
  BY DEF Inv, Typed
<1> USE DEF callVars
<1>1. CASE CompleteAttempt(c, h) \/ CompleteDial(c, h) \/ CompleteDialled(c, h)
  <2>1. /\ UNCHANGED <<slot, pc, teardown>>
        /\ hand[c][h].pc \in {"attempt", "dialling", "dialled"}
    BY <1>1, AttemptMoves
  <2>2. CASE AttemptEnds(c, h)
    <3>1. \A d \in Calls : delivery'[d].ctx = delivery[d].ctx
      BY <1>0, <2>2, SettlingStaysDone DEF AttemptEnds
    <3>2. hand[c][h].pc # "dialled" => \A d \in Calls : Dialled(d) => Dialled(d)'
      BY <1>0, <2>2, MovingKeepsDialled DEF AttemptEnds, Settle
    <3>3. \A d \in Calls \ {c} : Dialled(d)' = Dialled(d)
      BY <1>0, <2>2 DEF AttemptEnds, Settle, SetHand, Dialled, TypeOK
    <3>4. CASE UNCHANGED wire /\ hand[c][h].pc # "dialled"
      BY <1>0, <2>1, <3>1, <3>2, <3>4, QuietKeepsName DEF Quiet
    <3>5. CASE SetWire(c, "closed")
      <4>1. wire'[c].kind = "closed" /\ \A d \in Calls \ {c} : wire'[d] = wire[d]
        BY <1>0, <3>5 DEF TypeOK, SetWire, Frame
      <4>2. QED
        BY <1>0, <2>1, <3>1, <3>3, <4>1, QuietKeepsName DEF Quiet
    <3>6. QED
      BY <2>2, <3>4, <3>5 DEF AttemptEnds
  <2>3. ASSUME NEW label \in {"attempt", "dialling", "dialled"}, AttemptGoesOn(c, h, label)
        PROVE  NameHeld'
    <3>1. hand[c][h].pc # "dialled" => \A d \in Calls : Dialled(d) => Dialled(d)'
      BY <1>0, <2>3, MovingKeepsDialled DEF AttemptGoesOn
    <3>2. \A d \in Calls \ {c} : Dialled(d)' = Dialled(d)
      BY <1>0, <2>3 DEF AttemptGoesOn, SetHand, Dialled, TypeOK
    <3>3. label = "dialled" => Dialled(c)'
      BY <1>0, <2>3 DEF AttemptGoesOn, SetHand, Dialled, TypeOK
    <3>4. UNCHANGED delivery
      BY <2>3 DEF AttemptGoesOn
    <3>5. CASE UNCHANGED wire /\ hand[c][h].pc # "dialled"
      BY <1>0, <2>1, <3>1, <3>4, <3>5, QuietKeepsName DEF Quiet
    <3>6. ASSUME NEW kind \in {"closed", "quiet"}, SetWire(c, kind),
                 kind = "quiet" => label = "dialled"
          PROVE  NameHeld'
      <4>1. wire'[c].kind = kind /\ \A d \in Calls \ {c} : wire'[d] = wire[d]
        BY <1>0, <3>6 DEF TypeOK, SetWire, Frame
      <4>2. QED
        BY <1>0, <2>1, <3>2, <3>3, <3>4, <3>6, <4>1, QuietKeepsName DEF Quiet
    <3>7. QED
      BY <2>3, <3>5, <3>6 DEF AttemptGoesOn
  <2>4. CASE WriteCompletion(c, h) /\ ~CompleteCancelled(c)
    <3>1. hand[c][h].pc # "idle" /\ delivery[c].ctx = "live"
      BY <2>1, <2>4 DEF CompleteCancelled
    <3>2. pc[c] \in {"handed", "completing"}
      BY <3>1 DEF Inv, Typed, HandsInPlace, Calls
    <3>3. teardown[c] = "none" /\ Owns(c)
      BY <1>0, <3>1, <3>2 DEF TypeOK, NameHeld, Owns, GivesUp
    <3>4. \A d \in Calls \ {c} : Dialled(d)' = Dialled(d)
      BY <1>0, <2>4 DEF WriteCompletion, SetHand, Dialled, TypeOK
    <3>5. UNCHANGED delivery /\ SetWire(c, "complete")
      BY <2>4 DEF WriteCompletion
    <3>6. QED
      BY <1>0, <2>1, <3>2, <3>3, <3>4, <3>5 DEF TypeOK, NameHeld, Owns, GivesUp, SetWire
  <2>5. QED
    BY <1>1, <2>2, <2>3, <2>4, AttemptMoves
<1>2. CASE CompleteAbandon(c, h)
  <2>1. \A d \in Calls : Dialled(d) => Dialled(d)'
    BY <1>0, <1>2, MovingKeepsDialled DEF CompleteAbandon, Settle
  <2>2. QED
    BY <1>0, <1>2, <2>1, SettlingStaysDone, QuietKeepsName
       DEF CompleteAbandon, Quiet, TypeOK, SetWire, Frame
<1>3. CASE CompleteAnswered(c, h)
  <2>1. \A d \in Calls : delivery'[d].ctx = delivery[d].ctx
    BY <1>0, <1>3, SettlingStaysDone DEF CompleteAnswered
  <2>2. \A d \in Calls : Dialled(d) => Dialled(d)'
    BY <1>0, <1>3, MovingKeepsDialled DEF CompleteAnswered, Settle
  <2>3. QED
    BY <1>0, <1>3, <2>1, <2>2, QuietKeepsName DEF CompleteAnswered, Quiet, TypeOK, SetWire, Frame
<1>4. CASE CancelDelivery(c, h) \/ Released(c, h) \/ Repeated(c, h)
  <2>1. \A d \in Calls : Dialled(d) => Dialled(d)'
    BY <1>0, <1>4, MovingKeepsDialled DEF CancelDelivery, Released, Repeated
  <2>2. \A d \in Calls : delivery[d].ctx # "live" => delivery'[d].ctx # "live"
    BY <1>0, <1>4, EndingStaysDone DEF CancelDelivery, Released, Repeated
  <2>3. QED
    BY <1>0, <1>4, <2>1, <2>2, QuietKeepsName DEF CancelDelivery, Released, Repeated, Quiet
<1>5. QED
  BY <1>1, <1>2, <1>3, <1>4 DEF Completing

LEMMA ApplicationKeepsName == ASSUME Inv, NEW c \in Calls, Application(c) PROVE NameHeld'
<1>0. TypeOK /\ NameHeld
  BY DEF Inv, Typed
<1> USE DEF callVars, handVars
<1>1. CASE Reserve(c)
  BY <1>0, <1>1, DialledInPlace, StayingKeepsDialled, CallsAssumption DEF Inv, Reserve, Goto, TypeOK, NameHeld, Owns, GivesUp, Calls
<1>2. CASE CallerCancels(c)
  BY <1>0, <1>2, EndingStaysDone, StayingKeepsDialled, QuietKeepsName DEF CallerCancels, Quiet
<1>3. CASE Close(c)
  BY <1>0, <1>3, StayingKeepsDialled, QuietKeepsName DEF Close, Quiet
<1>4. ASSUME NEW v \in Verdicts, HandlerReturns(c, v) PROVE NameHeld'
  BY <1>0, <1>4, StayingKeepsDialled, QuietKeepsName DEF HandlerReturns, Quiet
<1>5. ASSUME NEW v \in Verdicts, NEW h \in Hands, Answer(c, h, v) PROVE NameHeld'
  <2>1. \A d \in Calls : Dialled(d) => Dialled(d)'
    BY <1>0, <1>5, MovingKeepsDialled DEF Answer, Choose
  <2>2. QED
    BY <1>0, <1>5, <2>1, ChoosingStaysDone, QuietKeepsName DEF Answer, Quiet
<1>6. QED
  BY <1>1, <1>2, <1>3, <1>4, <1>5 DEF Application

LEMMA RestKeepsName ==
    ASSUME Inv,
           \/ \E c \in Calls :
                Network(c) \/ ConnectFails(c) \/ Timer(c) \/ LeaseTimeout(c) \/ TearDown(c) \/ Closing(c)
           \/ Server
    PROVE  NameHeld'
<1>0. TypeOK /\ NameHeld
  BY DEF Inv, Typed
<1> USE DEF callVars, handVars, serverOnly
<1>1. ASSUME NEW c \in Calls, Network(c) PROVE NameHeld'
  <2>1. CASE Connected(c)
    BY <1>0, <2>1, StayingKeepsDialled DEF Connected, Goto, SetWire, TypeOK, NameHeld, Owns, GivesUp
  <2>2. CASE Receipt(c)
    BY <1>0, <2>2, StayingKeepsDialled, QuietKeepsName DEF Receipt, Quiet, SetWire, TypeOK
  <2>3. ASSUME NEW e \in Events, NEW t \in Tokens, Grant(c, e, t) PROVE NameHeld'
    BY <1>0, <2>3, StayingKeepsDialled, QuietKeepsName DEF Grant, Quiet, TypeOK
  <2>4. ASSUME NEW kind \in {"empty", "refused", "dropped"}, OtherAnswer(c, kind) PROVE NameHeld'
    BY <1>0, <2>4, StayingKeepsDialled, QuietKeepsName DEF OtherAnswer, Quiet, SetWire, TypeOK
  <2>5. QED
    BY <1>1, <2>1, <2>2, <2>3, <2>4 DEF Network
<1>2. ASSUME NEW c \in Calls, ConnectFails(c) PROVE NameHeld'
  BY <1>0, <1>2, DialledInPlace, StayingKeepsDialled, CallsAssumption DEF Inv, ConnectFails, Goto, TypeOK, NameHeld, Owns, GivesUp, Calls
<1>3. ASSUME NEW c \in Calls, Timer(c) PROVE NameHeld'
  <2>1. CASE TimerFires(c)
    BY <1>0, <2>1, StayingKeepsDialled, QuietKeepsName DEF TimerFires, Quiet, TypeOK, Deliveries
  <2>2. CASE TimerCancels(c)
    BY <1>0, <2>2, EndingStaysDone, StayingKeepsDialled, QuietKeepsName DEF TimerCancels, Quiet
  <2>3. QED
    BY <1>3, <2>1, <2>2 DEF Timer
<1>4. ASSUME NEW c \in Calls, LeaseTimeout(c) PROVE NameHeld'
  BY <1>0, <1>4, StayingKeepsDialled, QuietKeepsName DEF LeaseTimeout, Quiet, TypeOK, Deliveries
<1>5. ASSUME NEW c \in Calls, TearDown(c) PROVE NameHeld'
  <2>1. CASE CloseConnection(c)
    BY <1>0, <2>1, StayingKeepsDialled DEF CloseConnection, SetWire, Frame, TypeOK, NameHeld, Owns, GivesUp
  <2>2. CASE FreeSlot(c)
    BY <1>0, <2>2, StayingKeepsDialled, CallsAssumption DEF FreeSlot, TypeOK, NameHeld, Owns, GivesUp, Calls
  <2>3. QED
    BY <1>5, <2>1, <2>2 DEF TearDown
<1>6. ASSUME NEW c \in Calls, Closing(c) PROVE NameHeld'
  BY <1>0, <1>6, StayingKeepsDialled, QuietKeepsName DEF Closing, CancelReceive, CloseReturn, Quiet
<1>7. CASE Server
  BY <1>0, <1>7, StayingKeepsDialled, QuietKeepsName DEF Server, Record, Lapse, Quiet
<1>8. QED
  BY <1>1, <1>2, <1>3, <1>4, <1>5, <1>6, <1>7

LEMMA Invariance == Spec => []Inv
<1>1. Init => Inv
  BY TypedInit, CallsAssumption
     DEF Init, Inv, NameHeld, Owns, GivesUp, Frame, Calls
<1>2. Inv /\ [Next]_vars => Inv'
  <2>1. CASE UNCHANGED vars
    BY <2>1, StayingKeepsDialled, QuietKeepsName
       DEF vars, Inv, Typed, TypeOK, FramesWellFormed, HandsInPlace, Quiet
  <2>2. CASE Next
    BY <2>2, LoopTyped, CompletingTyped, ApplicationTyped, RestTyped, LoopKeepsName,
       CompletingKeepsName, ApplicationKeepsName, RestKeepsName DEF Next, Inv
  <2>3. QED
    BY <2>1, <2>2
<1>3. QED
  BY <1>1, <1>2, PTL DEF Spec

\* One receiver per name: an open socket, and every call at work on a receive,
\* belongs to the call that holds the name (reserve and the release once).
THEOREM NameIsExclusive == Spec => []OneReceiver
<1>1. Inv => OneReceiver
  BY DEF Inv, NameHeld, Owns, Dialled, GivesUp, OneReceiver
<1>2. QED
  BY <1>1, Invariance, PTL

\* Who frees the name is who reserved it.
LEMMA StepTakesName == Inv /\ [Next]_vars => [Name!Next]_slot
<1> SUFFICES ASSUME Inv, [Next]_vars PROVE [Name!Next]_slot
  OBVIOUS
<1>1. ASSUME NEW c \in Calls, Reserve(c) PROVE Name!Acquire(c)
  BY <1>1 DEF Reserve, Name!Acquire
<1>2. ASSUME NEW c \in Calls, ConnectFails(c) \/ FreeSlot(c) PROVE Name!Drop(c)
  <2>1. slot = c
    BY <1>2 DEF ConnectFails, FreeSlot, Inv, NameHeld, Owns, GivesUp
  <2>2. QED
    BY <1>2, <2>1 DEF ConnectFails, FreeSlot, Name!Drop
<1>3. ASSUME NEW c \in Calls, Loop(c) PROVE slot' = slot
  BY <1>3 DEF Loop, LoopTop, Arm, Attempt, Abandon, Offered, ReceiveFails, NothingOffered, RestEnds,
              HandlerLate, End, Decide, Completed
<1>4. ASSUME NEW c \in Calls, NEW h \in Hands, Completing(c, h) PROVE slot' = slot
  BY <1>4, AttemptMoves DEF Completing, CompleteAbandon, CompleteAnswered, CancelDelivery,
              Released, Repeated, callVars
<1>5. ASSUME NEW c \in Calls, Application(c), ~Reserve(c) PROVE slot' = slot
  BY <1>5 DEF Application, CallerCancels, Close, HandlerReturns, Answer, callVars
<1>6. ASSUME NEW c \in Calls, Network(c) \/ Timer(c) \/ LeaseTimeout(c) \/ CloseConnection(c) \/ Closing(c)
      PROVE  slot' = slot
  BY <1>6 DEF Network, Connected, Receipt, Grant, OtherAnswer, Timer, TimerFires, TimerCancels,
              LeaseTimeout, CloseConnection, Closing, CancelReceive, CloseReturn, callVars, serverOnly
<1>7. ASSUME Server PROVE slot' = slot
  BY <1>7 DEF Server, Record, Lapse, serverOnly, callVars
<1>8. ASSUME UNCHANGED vars PROVE slot' = slot
  BY <1>8 DEF vars
<1>9. QED
  BY <1>1, <1>2, <1>3, <1>4, <1>5, <1>6, <1>7, <1>8 DEF Next, TearDown, Name!Next

\* EventsResource.active is a mutex of the calls: it is reserved only while it
\* is free, and freed only by the call that reserved it, whichever of its
\* goroutines does (event_receiver.go:113 and release, once per call).
THEOREM NameImplementsMutex == Spec => Name!Spec
<1>1. Init => Name!Init
  BY DEF Init, Name!Init
<1>2. QED
  BY <1>1, StepTakesName, Invariance, PTL DEF Spec, Name!Spec

-----------------------------------------------------------------------------
(* The record.  A hand at work has the verdict that was chosen, the server's *)
(* receipt on the wire is for that verdict, and a verdict once recorded    *)
(* under a lease stays: so whatever hand reports success has it on record. *)

FateOf(c) == fate[delivery[c].event][delivery[c].token]

\* The record of one call.
RecordOf(c) ==
    /\ \A h \in Hands :
        /\ hand[c][h].pc # "idle" /\ hand[c][h].ret \notin {"conflict", "expired"} =>
              hand[c][h].want = delivery[c].chosen
        /\ hand[c][h].pc \notin {"idle", "returned"} =>
              hand[c][h].ret \notin {"conflict", "expired"}
        /\ hand[c][h].ret = "ok" =>
              hand[c][h].pc # "idle" /\ FateOf(c) = hand[c][h].want
    /\ delivery[c].done = "ok" =>
          /\ pc[c] \in {"handed", "completing"}
          /\ delivery[c].chosen \in Verdicts /\ FateOf(c) = delivery[c].chosen
    /\ wire[c].kind \in {"complete", "receipt"} =>
          \E h \in Hands : hand[c][h].pc = "asking"
    /\ wire[c].kind = "receipt" => FateOf(c) = delivery[c].chosen

Recorded == \A c \in Calls : RecordOf(c)

FatesStay ==
    \A e \in Events, t \in Tokens : fate[e][t] \in Verdicts => fate'[e][t] = fate[e][t]

\* What a step leaves alone of a call it does not complete.
QuietAt(c) ==
    /\ hand'[c] = hand[c]
    /\ delivery'[c].event = delivery[c].event /\ delivery'[c].token = delivery[c].token
    /\ delivery'[c].chosen = delivery[c].chosen /\ delivery'[c].done = delivery[c].done
    /\ pc[c] \in {"handed", "completing"} => pc'[c] = pc[c]
    /\ wire'[c].kind \in {"complete", "receipt"} => wire'[c].kind = wire[c].kind

LEMMA HandsHaveLease ==
    ASSUME Typed, NEW c \in Calls, NEW h \in Hands, hand[c][h].pc # "idle"
    PROVE  /\ pc[c] \in {"handed", "completing"}
           /\ delivery[c].event \in Events /\ delivery[c].token \in Tokens
           /\ hand[c][h].want \in Verdicts
<1>1. pc[c] \in {"handed", "completing"}
  BY DEF Typed, HandsInPlace, Calls
<1>2. QED
  BY <1>1 DEF Typed, TypeOK, FramesWellFormed

LEMMA QuietKeepsRecord ==
    ASSUME Typed, NEW c \in Calls, RecordOf(c), QuietAt(c), FatesStay
    PROVE  RecordOf(c)'
<1>1. ASSUME NEW h \in Hands, hand[c][h].ret = "ok" PROVE FateOf(c)' = FateOf(c)
  BY <1>1, HandsHaveLease DEF RecordOf, QuietAt, FatesStay, FateOf
<1>2. ASSUME delivery[c].done = "ok" PROVE FateOf(c)' = FateOf(c)
  BY <1>2 DEF RecordOf, QuietAt, FatesStay, FateOf, Typed, TypeOK
<1>3. ASSUME wire[c].kind = "receipt" PROVE FateOf(c)' = FateOf(c)
  <2>1. PICK h \in Hands : hand[c][h].pc = "asking"
    BY <1>3 DEF RecordOf
  <2>2. hand[c][h].want = delivery[c].chosen /\ hand[c][h].want \in Verdicts
    BY <2>1, HandsHaveLease DEF RecordOf
  <2>3. QED
    BY <1>3, <2>1, <2>2, HandsHaveLease DEF RecordOf, QuietAt, FatesStay, FateOf
<1>4. QED
  BY <1>1, <1>2, <1>3 DEF RecordOf, QuietAt

LEMMA AllQuiet ==
    ASSUME Typed, Recorded, FatesStay, \A c \in Calls : QuietAt(c)
    PROVE  Recorded'
  BY QuietKeepsRecord DEF Recorded

LEMMA OthersQuiet ==
    ASSUME Typed, Recorded, FatesStay, NEW c \in Calls, RecordOf(c)',
           \A d \in Calls \ {c} : QuietAt(d)
    PROVE  Recorded'
  BY QuietKeepsRecord DEF Recorded

\* A call whose hands are idle and whose delivery is new has nothing to show.
LEMMA FreshKeepsRecord ==
    ASSUME Typed, Recorded, UNCHANGED fate, NEW c \in Calls,
           \A d \in Calls \ {c} : QuietAt(d),
           \A h \in Hands : hand'[c][h].pc = "idle" /\ hand'[c][h].ret # "ok",
           delivery'[c].done # "ok", wire'[c].kind \notin {"complete", "receipt"}
    PROVE  Recorded'
<1>1. RecordOf(c)'
  BY DEF RecordOf
<1>2. FatesStay
  BY DEF FatesStay
<1>3. QED
  BY <1>1, <1>2, OthersQuiet

LEMMA ChooseKeepsRecord ==
    ASSUME Typed, Recorded, NEW c \in Calls, NEW h \in Hands, NEW v \in Verdicts,
           Choose(c, h, v), hand[c][h].pc = "idle", UNCHANGED <<wire, fate>>,
           \A d \in Calls \ {c} : pc'[d] = pc[d], pc'[c] \in {"handed", "completing"}
    PROVE  Recorded'
<1>1. FatesStay
  BY DEF FatesStay
<1>2. TypeOK /\ RecordOf(c)
  BY DEF Typed, Recorded
<1>3. \A d \in Calls \ {c} : QuietAt(d)
  BY <1>2 DEF QuietAt, Choose, SetHand, TypeOK
<1>4. /\ delivery[c] \in Deliveries
      /\ \A g \in Hands \ {h} : hand'[c][g] = hand[c][g]
  BY <1>2 DEF TypeOK, Choose, SetHand
<1>5. RecordOf(c)'
  <2>1. CASE delivery' = delivery
    <3>1. hand'[c][h] \in {[pc |-> "returned", want |-> v, ret |-> "conflict"],
                           [pc |-> "returned", want |-> v, ret |-> "expired"]}
          \/ /\ hand'[c][h] = [pc |-> "waiting", want |-> v, ret |-> "none"]
             /\ delivery[c].chosen = v
          \/ /\ hand'[c][h] = [pc |-> "attempt", want |-> v, ret |-> "none"]
             /\ delivery'[c].chosen = v
      <4>1. Chosen(delivery[c], v).chosen = v
        BY <1>4 DEF Chosen, Deliveries
      <4>2. QED
        BY <1>2, <4>1 DEF TypeOK, Choose, SetHand
    <3>2. QED
      BY <1>2, <1>4, <2>1, <3>1 DEF RecordOf, FateOf
  <2>2. CASE /\ delivery[c].chosen = "none" /\ SetHand(c, h, "attempt", v, "none")
             /\ delivery' = [delivery EXCEPT ![c] = Chosen(delivery[c], v)]
    <3>1. /\ delivery'[c].event = delivery[c].event /\ delivery'[c].token = delivery[c].token
          /\ delivery'[c].chosen = v /\ delivery'[c].done = delivery[c].done
      BY <1>2, <1>4, <2>2 DEF TypeOK, Chosen, Deliveries
    <3>2. hand'[c][h] = [pc |-> "attempt", want |-> v, ret |-> "none"]
      BY <1>2, <2>2 DEF TypeOK, SetHand
    <3>3. ASSUME NEW g \in Hands, g # h, hand[c][g].pc # "idle"
          PROVE  hand[c][g].ret \in {"conflict", "expired"} /\ hand[c][g].pc = "returned"
      BY <1>2, <2>2, <3>3, HandsHaveLease DEF RecordOf, Verdicts
    <3>4. delivery[c].done # "ok" /\ wire[c].kind \notin {"complete", "receipt"}
      BY <1>2, <2>2, <3>3 DEF RecordOf, Verdicts
    <3>5. QED
      BY <1>2, <1>4, <3>1, <3>2, <3>3, <3>4 DEF RecordOf, FateOf
  <2>3. QED
    BY <2>1, <2>2 DEF Choose
<1>6. QED
  BY <1>1, <1>3, <1>5, OthersQuiet

LEMMA LoopKeepsRecord == ASSUME Typed, Recorded, NEW c \in Calls, Loop(c) PROVE Recorded'
<1>0. TypeOK
  BY DEF Typed
<1> USE DEF callVars, handVars
<1>1. ASSUME \/ LoopTop(c) \/ Arm(c) \/ Attempt(c) \/ Abandon(c) \/ ReceiveFails(c)
             \/ NothingOffered(c) \/ RestEnds(c) \/ HandlerLate(c)
      PROVE  Recorded'
  <2>1. UNCHANGED <<hand, delivery, fate>>
    BY <1>1 DEF LoopTop, Arm, Attempt, Abandon, ReceiveFails, NothingOffered, RestEnds, HandlerLate
  <2>2. \A d \in Calls : wire'[d].kind \in {"complete", "receipt"} => wire'[d].kind = wire[d].kind
    BY <1>0, <1>1 DEF LoopTop, Arm, Attempt, Abandon, ReceiveFails, NothingOffered, RestEnds,
                      HandlerLate, TypeOK, SetWire, Frame
  <2>3. \A d \in Calls : pc[d] \in {"handed", "completing"} => pc'[d] = pc[d]
    BY <1>0, <1>1 DEF LoopTop, Arm, Attempt, Abandon, ReceiveFails, NothingOffered, RestEnds,
                      HandlerLate, TypeOK, Goto
  <2>4. QED
    BY <2>1, <2>2, <2>3, AllQuiet DEF FatesStay, QuietAt
<1>2. ASSUME NEW h \in Hands, Decide(c, h) PROVE Recorded'
  <2>1. pc[c] = "handling" /\ handler[c] \in Verdicts /\ hand[c][h].pc = "idle"
    BY <1>2, HandsHaveLease DEF Decide
  <2>2. pc'[c] = "completing" /\ \A d \in Calls \ {c} : pc'[d] = pc[d]
    BY <1>0, <1>2 DEF Decide, Goto, TypeOK
  <2>3. QED
    BY <1>2, <2>1, <2>2, ChooseKeepsRecord DEF Decide
<1>3. ASSUME Offered(c) \/ End(c) \/ \E h \in Hands : Completed(c, h) PROVE Recorded'
  <2>1. UNCHANGED fate /\ \A d \in Calls \ {c} : QuietAt(d)
    BY <1>0, <1>3 DEF Offered, End, Completed, TypeOK, QuietAt, Goto, SetWire
  <2>2. \A h \in Hands : hand'[c][h].pc = "idle" /\ hand'[c][h].ret # "ok"
    <3>1. CASE Offered(c) \/ End(c)
      BY <3>1, HandsHaveLease DEF Offered, End, Recorded, RecordOf
    <3>2. ASSUME NEW h \in Hands, Completed(c, h)
          PROVE  \A g \in Hands : hand'[c][g].pc = "idle" /\ hand'[c][g].ret # "ok"
      <4>1. \A g \in Hands \ {h} : hand[c][g].pc = "idle"
        BY <3>2 DEF Completed, Typed, HandsInPlace, Calls
      <4>2. QED
        BY <1>0, <3>2, <4>1 DEF Completed, TypeOK, Idle, Recorded, RecordOf
    <3>3. QED
      BY <1>3, <3>1, <3>2
  <2>3. delivery'[c].done # "ok"
    <3>1. CASE End(c) \/ \E h \in Hands : Completed(c, h)
      BY <1>0, <3>1 DEF End, Completed, TypeOK, NoDelivery
    <3>2. CASE Offered(c)
      <4> DEFINE d == [NoDelivery EXCEPT !.event = wire[c].event, !.token = wire[c].token,
                                         !.ctx = "live", !.timer = "armed"]
      <4>1. d.done = "none" /\ ContextDone(d).done = "none"
        BY DEF NoDelivery, ContextDone
      <4>2. delivery'[c] \in {d, ContextDone(d)}
        BY <1>0, <3>2 DEF Offered, TypeOK
      <4> HIDE DEF d
      <4>3. QED
        BY <4>1, <4>2
    <3>3. QED
      BY <1>3, <3>1, <3>2
  <2>4. wire'[c].kind \notin {"complete", "receipt"}
    <3>1. CASE Offered(c)
      BY <1>0, <3>1 DEF Offered, TypeOK, SetWire, Frame
    <3>2. CASE End(c)
      BY <3>2, HandsHaveLease DEF End, Recorded, RecordOf
    <3>3. ASSUME NEW h \in Hands, Completed(c, h)
          PROVE  wire'[c].kind \notin {"complete", "receipt"}
      BY <3>3 DEF Completed, Recorded, RecordOf, Typed, HandsInPlace, Calls
    <3>4. QED
      BY <1>3, <3>1, <3>2, <3>3
  <2>5. QED
    BY <2>1, <2>2, <2>3, <2>4, FreshKeepsRecord
<1>4. QED
  BY <1>1, <1>2, <1>3 DEF Loop

\* One hand of a call moves on, with its verdict and a result that is no better
\* than the record.
LEMMA HandKeepsRecord ==
    ASSUME Typed, Recorded, UNCHANGED <<pc, fate>>, NEW c \in Calls, NEW h \in Hands,
           hand[c][h].pc \notin {"idle", "returned"},
           NEW label \in {"attempt", "dialling", "dialled", "asking", "finishing", "releasing",
                          "returned"},
           NEW r \in {"none", "ok", "failed"},
           SetHand(c, h, label, hand[c][h].want, r),
           r = "ok" => FateOf(c) = hand[c][h].want,
           \/ wire' = wire /\ hand[c][h].pc # "asking"
           \/ \E kind \in {"quiet", "closed"} : SetWire(c, kind)
           \/ SetWire(c, "complete") /\ label = "asking",
           \A d \in Calls \ {c} : delivery'[d] = delivery[d],
           /\ delivery'[c].event = delivery[c].event /\ delivery'[c].token = delivery[c].token
           /\ delivery'[c].chosen = delivery[c].chosen,
           delivery'[c].done \in {delivery[c].done, r}
    PROVE  Recorded'
<1>1. TypeOK /\ RecordOf(c) /\ FatesStay
  BY DEF Typed, Recorded, FatesStay
<1>2. \A d \in Calls \ {c} : QuietAt(d)
  BY <1>1 DEF TypeOK, QuietAt, SetHand, SetWire
<1>3. /\ hand'[c][h] = [pc |-> label, want |-> hand[c][h].want, ret |-> r]
      /\ \A g \in Hands \ {h} : hand'[c][g] = hand[c][g]
  BY <1>1 DEF TypeOK, SetHand
<1>4. /\ hand[c][h].want = delivery[c].chosen /\ hand[c][h].want \in Verdicts
      /\ pc[c] \in {"handed", "completing"}
  BY <1>1, HandsHaveLease DEF RecordOf
<1>5. FateOf(c)' = FateOf(c)
  BY DEF FateOf
<1>6. CASE wire' = wire /\ hand[c][h].pc # "asking"
  BY <1>1, <1>2, <1>3, <1>4, <1>5, <1>6, OthersQuiet DEF RecordOf
<1>7. ASSUME NEW kind \in {"quiet", "closed", "complete"}, SetWire(c, kind),
             kind = "complete" => label = "asking"
      PROVE  Recorded'
  <2>1. wire'[c].kind = kind
    BY <1>1, <1>7 DEF TypeOK, SetWire, Frame
  <2>2. \A g \in Hands :
          /\ hand'[c][g].pc # "idle" /\ hand'[c][g].ret \notin {"conflict", "expired"} =>
                hand'[c][g].want = delivery'[c].chosen
          /\ hand'[c][g].pc \notin {"idle", "returned"} =>
                hand'[c][g].ret \notin {"conflict", "expired"}
          /\ hand'[c][g].ret = "ok" =>
                hand'[c][g].pc # "idle" /\ FateOf(c) = hand'[c][g].want
    BY <1>1, <1>3, <1>4 DEF RecordOf
  <2>3. delivery'[c].done = "ok" =>
          /\ pc'[c] \in {"handed", "completing"}
          /\ delivery'[c].chosen \in Verdicts /\ FateOf(c) = delivery'[c].chosen
    BY <1>1, <1>4 DEF RecordOf
  <2>4. wire'[c].kind \in {"complete", "receipt"} => hand'[c][h].pc = "asking"
    BY <1>3, <1>7, <2>1
  <2>5. wire'[c].kind # "receipt"
    BY <2>1
  <2>6. RecordOf(c)'
    BY <1>5, <2>2, <2>3, <2>4, <2>5 DEF RecordOf
  <2>7. QED
    BY <1>1, <1>2, <2>6, OthersQuiet
<1>8. QED
  BY <1>6, <1>7

LEMMA CompletingKeepsRecord ==
    ASSUME Typed, Recorded, NEW c \in Calls, NEW h \in Hands, Completing(c, h)
    PROVE  Recorded'
<1> hand[c][h].pc \notin {"idle", "returned"}
  BY DEF Completing, CompleteAttempt, CompleteDial, CompleteDialled, CompleteAbandon,
         CompleteAnswered, CancelDelivery, Released, Repeated
<1> USE DEF callVars
<1>1. TypeOK /\ RecordOf(c) /\ delivery[c] \in Deliveries
  BY DEF Typed, TypeOK, Recorded
<1>2. ASSUME NEW r \in {"ok", "failed"}, Settle(c, h, r), UNCHANGED <<pc, fate>>,
             r = "ok" => FateOf(c) = hand[c][h].want,
             \/ wire' = wire /\ hand[c][h].pc # "asking"
             \/ \E kind \in {"quiet", "closed"} : SetWire(c, kind)
      PROVE  Recorded'
  <2>1. /\ \A d \in Calls \ {c} : delivery'[d] = delivery[d]
        /\ delivery'[c].event = delivery[c].event /\ delivery'[c].token = delivery[c].token
        /\ delivery'[c].chosen = delivery[c].chosen /\ delivery'[c].done = r
    BY <1>1, <1>2 DEF TypeOK, Settle, Deliveries
  <2>2. SetHand(c, h, "finishing", hand[c][h].want, r)
    BY <1>2 DEF Settle
  <2>3. QED
    BY <1>2, <2>1, <2>2, HandKeepsRecord
<1>3. CASE CompleteAttempt(c, h) \/ CompleteDial(c, h) \/ CompleteDialled(c, h)
  <2>1. UNCHANGED <<pc, fate>> /\ hand[c][h].pc \in {"attempt", "dialling", "dialled"}
    BY <1>3, AttemptMoves
  <2>2. CASE AttemptEnds(c, h)
    BY <1>2, <2>1, <2>2 DEF AttemptEnds
  <2>3. ASSUME NEW label \in {"attempt", "dialling", "dialled"}, AttemptGoesOn(c, h, label)
        PROVE  Recorded'
    <3>1. UNCHANGED wire \/ \E kind \in {"quiet", "closed"} : SetWire(c, kind)
      BY <2>3 DEF AttemptGoesOn
    <3>2. QED
      BY <2>1, <2>3, <3>1, HandKeepsRecord DEF AttemptGoesOn
  <2>4. CASE WriteCompletion(c, h)
    BY <2>1, <2>4, HandKeepsRecord DEF WriteCompletion
  <2>5. QED
    BY <1>3, <2>2, <2>3, <2>4, AttemptMoves
<1>4. CASE CompleteAbandon(c, h)
  BY <1>2, <1>4 DEF CompleteAbandon
<1>5. CASE CompleteAnswered(c, h)
  <2>1. UNCHANGED <<pc, fate>> /\ hand[c][h].pc = "asking"
    BY <1>5 DEF CompleteAnswered
  <2>2. CASE wire[c].kind = "receipt" /\ SetWire(c, "quiet") /\ Settle(c, h, "ok")
    <3>1. hand[c][h].want = delivery[c].chosen /\ FateOf(c) = delivery[c].chosen
      BY <1>1, <2>1, <2>2 DEF RecordOf
    <3>2. QED
      BY <1>2, <2>1, <2>2, <3>1
  <2>3. CASE SetWire(c, "closed") /\ Settle(c, h, "failed")
    BY <1>2, <2>1, <2>3
  <2>4. CASE /\ SetWire(c, "closed") /\ UNCHANGED delivery
             /\ SetHand(c, h, "attempt", hand[c][h].want, "none")
    BY <2>1, <2>4, HandKeepsRecord
  <2>5. QED
    BY <1>5, <2>2, <2>3, <2>4 DEF CompleteAnswered
<1>6. ASSUME CancelDelivery(c, h) \/ Released(c, h) PROVE Recorded'
  <2>1. hand[c][h].pc \notin {"idle", "returned", "asking"} /\ UNCHANGED <<pc, fate, wire>>
    BY <1>6 DEF CancelDelivery, Released
  <2>2. hand[c][h].ret \in {"none", "ok", "failed"}
    BY <1>1, <2>1 DEF TypeOK, RecordOf, Answers
  <2>3. /\ \A d \in Calls \ {c} : delivery'[d] = delivery[d]
        /\ delivery'[c] \in {delivery[c], ContextDone(delivery[c])}
    BY <1>1, <1>6 DEF TypeOK, CancelDelivery, Released
  <2>4. /\ delivery'[c].event = delivery[c].event /\ delivery'[c].token = delivery[c].token
        /\ delivery'[c].chosen = delivery[c].chosen /\ delivery'[c].done = delivery[c].done
    BY <1>1, <2>3 DEF ContextDone, Deliveries
  <2>5. \E label \in {"releasing", "returned"} :
          SetHand(c, h, label, hand[c][h].want, hand[c][h].ret)
    BY <1>6 DEF CancelDelivery, Released
  <2>6. hand[c][h].ret = "ok" => FateOf(c) = hand[c][h].want
    BY <1>1 DEF RecordOf
  <2>7. QED
    BY <2>1, <2>2, <2>3, <2>4, <2>5, <2>6, HandKeepsRecord
<1>7. CASE Repeated(c, h)
  <2>1. delivery[c].done \in {"ok", "failed"}
    BY <1>1, <1>7 DEF Repeated, Deliveries
  <2>2. delivery[c].done = "ok" => FateOf(c) = hand[c][h].want
    BY <1>1, <1>7 DEF Repeated, RecordOf
  <2>3. QED
    BY <1>7, <2>1, <2>2, HandKeepsRecord DEF Repeated
<1>8. QED
  BY <1>3, <1>4, <1>5, <1>6, <1>7 DEF Completing

LEMMA ApplicationKeepsRecord ==
    ASSUME Typed, Recorded, NEW c \in Calls, Application(c) PROVE Recorded'
<1>0. TypeOK
  BY DEF Typed
<1> USE DEF callVars, handVars, FatesStay
<1>1. CASE Reserve(c)
  BY <1>0, <1>1, AllQuiet DEF Reserve, Goto, TypeOK, QuietAt
<1>2. CASE CallerCancels(c)
  <2>1. delivery[c] \in Deliveries
    BY <1>0 DEF TypeOK
  <2>2. \A d \in Calls : QuietAt(d)
    BY <1>0, <1>2, <2>1 DEF CallerCancels, ContextDone, TypeOK, Deliveries, QuietAt
  <2>3. QED
    BY <1>2, <2>2, AllQuiet DEF CallerCancels
<1>3. CASE Close(c)
  BY <1>3, AllQuiet DEF Close, QuietAt
<1>4. ASSUME NEW v \in Verdicts, HandlerReturns(c, v) PROVE Recorded'
  BY <1>4, AllQuiet DEF HandlerReturns, QuietAt
<1>5. ASSUME NEW v \in Verdicts, NEW h \in Hands, Answer(c, h, v) PROVE Recorded'
  BY <1>5, ChooseKeepsRecord DEF Answer
<1>6. QED
  BY <1>1, <1>2, <1>3, <1>4, <1>5 DEF Application

LEMMA RestKeepsRecord ==
    ASSUME Typed, Recorded,
           \/ \E c \in Calls :
                Network(c) \/ ConnectFails(c) \/ Timer(c) \/ LeaseTimeout(c) \/ TearDown(c) \/ Closing(c)
           \/ Server
    PROVE  Recorded'
<1>0. TypeOK
  BY DEF Typed
<1> USE DEF callVars, handVars, serverOnly
<1>1. ASSUME NEW c \in Calls, Network(c) PROVE Recorded'
  <2>1. CASE Connected(c)
    BY <1>0, <2>1, AllQuiet DEF Connected, Goto, SetWire, Frame, TypeOK, QuietAt, FatesStay
  <2>2. CASE Receipt(c)
    <3>1. PICK h \in Hands : hand[c][h].pc = "asking" /\ FateOf(c) = hand[c][h].want
      BY <2>2 DEF Receipt, FateOf
    <3>2. hand[c][h].want = delivery[c].chosen /\ RecordOf(c)
      BY <3>1 DEF Recorded, RecordOf
    <3>3. RecordOf(c)' /\ FatesStay
      BY <1>0, <2>2, <3>1, <3>2 DEF Receipt, SetWire, Frame, TypeOK, RecordOf, FateOf, FatesStay
    <3>4. \A d \in Calls \ {c} : QuietAt(d)
      BY <1>0, <2>2 DEF Receipt, SetWire, TypeOK, QuietAt
    <3>5. QED
      BY <3>3, <3>4, OthersQuiet
  <2>3. ASSUME NEW e \in Events, NEW t \in Tokens, Grant(c, e, t) PROVE Recorded'
    <3>1. FatesStay
      BY <1>0, <2>3 DEF Grant, TypeOK, FatesStay, Verdicts
    <3>2. \A d \in Calls : QuietAt(d)
      BY <1>0, <2>3 DEF Grant, TypeOK, QuietAt
    <3>3. QED
      BY <3>1, <3>2, AllQuiet
  <2>4. ASSUME NEW kind \in {"empty", "refused", "dropped"}, OtherAnswer(c, kind) PROVE Recorded'
    BY <1>0, <2>4, AllQuiet DEF OtherAnswer, SetWire, Frame, TypeOK, QuietAt, FatesStay
  <2>5. QED
    BY <1>1, <2>1, <2>2, <2>3, <2>4 DEF Network
<1>2. ASSUME NEW c \in Calls, ConnectFails(c) PROVE Recorded'
  BY <1>0, <1>2, AllQuiet DEF ConnectFails, Goto, TypeOK, QuietAt, FatesStay
<1>3. ASSUME NEW c \in Calls, Timer(c) \/ LeaseTimeout(c) PROVE Recorded'
  <2>1. delivery[c] \in Deliveries
    BY <1>0 DEF TypeOK
  <2>2. /\ \A d \in Calls \ {c} : delivery'[d] = delivery[d]
        /\ delivery'[c].event = delivery[c].event /\ delivery'[c].token = delivery[c].token
        /\ delivery'[c].chosen = delivery[c].chosen /\ delivery'[c].done = delivery[c].done
    <3>1. CASE TimerFires(c) \/ LeaseTimeout(c)
      BY <1>0, <2>1, <3>1 DEF TimerFires, LeaseTimeout, TypeOK, Deliveries
    <3>2. CASE TimerCancels(c)
      BY <1>0, <2>1, <3>2 DEF TimerCancels, ContextDone, TypeOK, Deliveries
    <3>3. QED
      BY <1>3, <3>1, <3>2 DEF Timer
  <2>3. UNCHANGED <<hand, pc, wire, fate>>
    BY <1>3 DEF Timer, TimerFires, TimerCancels, LeaseTimeout
  <2>4. QED
    BY <2>2, <2>3, AllQuiet DEF QuietAt, FatesStay
<1>4. ASSUME NEW c \in Calls, TearDown(c) PROVE Recorded'
  BY <1>0, <1>4, AllQuiet
     DEF TearDown, CloseConnection, FreeSlot, SetWire, Frame, TypeOK, QuietAt, FatesStay
<1>5. ASSUME NEW c \in Calls, Closing(c) PROVE Recorded'
  BY <1>5, AllQuiet DEF Closing, CancelReceive, CloseReturn, QuietAt, FatesStay
<1>6. CASE Server
  <2>1. FatesStay
    <3>1. ASSUME NEW e \in Events, NEW t \in Tokens, NEW f, fate[e][t] = "held",
                 fate' = [fate EXCEPT ![e][t] = f]
          PROVE  FatesStay
      BY <1>0, <3>1 DEF TypeOK, FatesStay, Verdicts
    <3>2. ASSUME NEW m \in sent, Record(m) PROVE FatesStay
      <4>1. m[1] \in Events /\ m[2] \in Tokens
        BY <1>0 DEF TypeOK
      <4>2. QED
        BY <3>1, <3>2, <4>1 DEF Record
    <3>3. QED
      BY <1>6, <3>1, <3>2 DEF Server, Lapse
  <2>2. \A d \in Calls : QuietAt(d)
    BY <1>6 DEF Server, Record, Lapse, QuietAt
  <2>3. QED
    BY <2>1, <2>2, AllQuiet
<1>7. QED
  BY <1>1, <1>2, <1>3, <1>4, <1>5, <1>6

LEMMA RecordsInvariance == Spec => []Recorded
<1>1. Init => Recorded
  BY DEF Init, Recorded, RecordOf, Idle, NoDelivery, Frame
<1>2. Typed /\ Recorded /\ [Next]_vars => Recorded'
  <2>1. CASE UNCHANGED vars
    BY <2>1, AllQuiet DEF vars, QuietAt, FatesStay
  <2>2. CASE Next
    BY <2>2, LoopKeepsRecord, CompletingKeepsRecord, ApplicationKeepsRecord, RestKeepsRecord DEF Next
  <2>3. QED
    BY <2>1, <2>2
<1>3. Spec => []Typed
  <2>1. Inv => Typed
    BY DEF Inv
  <2>2. QED
    BY <2>1, Invariance, PTL
<1>4. QED
  BY <1>1, <1>2, <1>3, PTL DEF Spec

\* An Ack or Retry that returned without an error is on record at the server,
\* and its record is never changed, whatever was retried, lost or repeated.
THEOREM SuccessIsRecorded == Spec => []NilMeansRecorded
<1>1. Recorded => NilMeansRecorded
  BY DEF Recorded, RecordOf, FateOf, NilMeansRecorded
<1>2. QED
  BY <1>1, RecordsInvariance, PTL

-----------------------------------------------------------------------------
(* What the server hears is what the application said first.               *)

Has(c, e, t) ==
    \/ wire[c].kind = "offer" /\ wire[c].event = e /\ wire[c].token = t
    \/ delivery[c].event = e /\ delivery[c].token = t

(***************************************************************************)
(* A lease is with one call: on its way there, or in its hands.            *)
(***************************************************************************)
LeasesApart ==
    /\ \A c \in Calls :
          /\ wire[c].kind \in {"receive", "offer"} => pc[c] = "asking"
          /\ pc[c] \notin {"handling", "completing", "handed", "closing"} =>
                delivery[c].event = None
    /\ \A c \in Calls, d \in Calls, e \in Events, t \in Tokens :
          Has(c, e, t) /\ Has(d, e, t) => c = d
    /\ \A c \in Calls, e \in Events, t \in Tokens : Has(c, e, t) => fate[e][t] # "none"

SaidOf(c) == said[delivery[c].event][delivery[c].token]

(***************************************************************************)
(* The verdict that is chosen is the first that was given, also where the  *)
(* handler has returned and the listener has not looked yet; a delivery that *)
(* may still choose was given none.                                        *)
(***************************************************************************)
VerdictOf(c) ==
    /\ pc[c] \in {"handling", "completing", "handed"} /\ delivery[c].chosen # "none" =>
          SaidOf(c) = delivery[c].chosen
    /\ pc[c] = "handed" /\ delivery[c].chosen = "none" /\ delivery[c].ctx = "live" =>
          SaidOf(c) = "none"
    /\ pc[c] = "handling" =>
          /\ delivery[c].chosen = "none"
          /\ handler[c] = "running" => SaidOf(c) = "none"
          /\ handler[c] \in Verdicts => SaidOf(c) = handler[c]
    /\ \A h \in Hands : hand[c][h].pc \in Trying =>
          hand[c][h].want = delivery[c].chosen

SaidFirst ==
    /\ \A e \in Events, t \in Tokens : fate[e][t] = "none" => said[e][t] = "none"
    /\ \A c \in Calls : wire[c].kind = "offer" => said[wire[c].event][wire[c].token] = "none"
    /\ \A c \in Calls : VerdictOf(c)

VInv == Typed /\ LeasesApart /\ SaidFirst /\ OnlyTheVerdict

LEMMA VerdictsInit == Init => LeasesApart /\ SaidFirst /\ OnlyTheVerdict
  BY EventsAssumption
     DEF Init, LeasesApart, Has, SaidFirst, VerdictOf, SaidOf, OnlyTheVerdict, NoDelivery, Frame, Idle

\* Where a call stands with a lease in hand.
Holding == {"handling", "completing", "handed"}

\* A step of another call, or of the server.
Untouched(c) ==
    /\ pc'[c] = pc[c] /\ wire'[c] = wire[c] /\ delivery'[c] = delivery[c]
    /\ handler'[c] = handler[c] /\ hand'[c] = hand[c]

\* A step of the call that takes no lease, decides nothing and starts no
\* completion with another verdict.
DecidesNothing(c) ==
    /\ pc'[c] = pc[c] /\ handler'[c] = handler[c]
    /\ delivery'[c].event = delivery[c].event /\ delivery'[c].token = delivery[c].token
    /\ delivery'[c].chosen = delivery[c].chosen
    /\ delivery'[c].ctx = "live" => delivery[c].ctx = "live"
    /\ \A h \in Hands : hand'[c][h].pc \in Trying =>
          hand[c][h].pc \in Trying /\ hand'[c][h].want = hand[c][h].want

InPlace(c) ==
    /\ wire[c].kind \in {"receive", "offer"} => pc[c] = "asking"
    /\ pc[c] \notin Holding \union {"closing"} => delivery[c].event = None

Leaves(c) ==
    /\ wire'[c].kind = "offer" => wire'[c] = wire[c]
    /\ \/ delivery'[c].event = None
       \/ delivery'[c].event = delivery[c].event /\ delivery'[c].token = delivery[c].token
    /\ InPlace(c)'

NoNewLease ==
    /\ \A e \in Events, t \in Tokens : fate'[e][t] = "none" => fate[e][t] = "none"
    /\ \A c \in Calls : InPlace(c)'
    /\ \A c \in Calls, e \in Events, t \in Tokens : Has(c, e, t)' => Has(c, e, t)

LEMMA LeasesStayApart == ASSUME LeasesApart, NoNewLease PROVE LeasesApart'
<1>1. \A c \in Calls : InPlace(c)'
  BY DEF NoNewLease
<1>2. ASSUME NEW c \in Calls, NEW d \in Calls, NEW e \in Events, NEW t \in Tokens,
             Has(c, e, t)', Has(d, e, t)'
      PROVE  c = d
  BY <1>2 DEF NoNewLease, LeasesApart
<1>3. ASSUME NEW c \in Calls, NEW e \in Events, NEW t \in Tokens, Has(c, e, t)'
      PROVE  fate'[e][t] # "none"
  BY <1>3 DEF NoNewLease, LeasesApart
<1>4. \A c \in Calls :
        /\ wire'[c].kind \in {"receive", "offer"} => pc'[c] = "asking"
        /\ pc'[c] \notin {"handling", "completing", "handed", "closing"} =>
              delivery'[c].event = None
  BY <1>1 DEF InPlace, Holding
<1>5. QED
  BY <1>2, <1>3, <1>4 DEF LeasesApart

LEMMA LeavingTakesNone ==
    ASSUME NEW c \in Calls, Leaves(c), NEW e \in Events, NEW t \in Tokens, Has(c, e, t)'
    PROVE  Has(c, e, t)
<1>1. CASE wire'[c].kind = "offer" /\ wire'[c].event = e /\ wire'[c].token = t
  BY <1>1 DEF Leaves, Has
<1>2. CASE delivery'[c].event = e /\ delivery'[c].token = t
  BY <1>2, EventsAssumption DEF Leaves, Has
<1>3. QED
  BY <1>1, <1>2 DEF Has

LEMMA UntouchedLeaves ==
    ASSUME LeasesApart, NEW c \in Calls, Untouched(c) PROVE Leaves(c)
<1>1. InPlace(c)
  BY DEF LeasesApart, InPlace, Holding
<1>2. QED
  BY <1>1 DEF Untouched, Leaves, InPlace

\* A step that writes no completion keeps what was said of each lease; the
\* call keeps what it decided, or holds no lease afterwards.
Keeps(c) ==
    /\ wire'[c].kind = "offer" => wire'[c] = wire[c]
    /\ DecidesNothing(c) \/ pc'[c] \notin Holding

LEMMA KeepsVerdict ==
    ASSUME Typed', SaidFirst, UNCHANGED said, NEW c \in Calls,
           DecidesNothing(c) \/ pc'[c] \notin Holding
    PROVE  VerdictOf(c)'
<1>1. VerdictOf(c)
  BY DEF SaidFirst
<1>2. CASE DecidesNothing(c)
  <2>1. SaidOf(c)' = SaidOf(c)
    BY <1>2 DEF DecidesNothing, SaidOf
  <2>2. QED
    BY <1>1, <1>2, <2>1 DEF DecidesNothing, VerdictOf
<1>3. CASE pc'[c] \notin Holding
  <2>1. \A h \in Hands : hand'[c][h].pc \notin Trying
    BY <1>3 DEF Trying, Typed, HandsInPlace, Holding, Calls
  <2>2. QED
    BY <1>3, <2>1 DEF VerdictOf, Holding
<1>4. QED
  BY <1>2, <1>3

LEMMA UntouchedKeeps == ASSUME NEW c \in Calls, Untouched(c) PROVE Keeps(c)
  BY DEF Untouched, Keeps, DecidesNothing

\* A step of one call that takes no lease, writes no completion and hears no
\* verdict.
LEMMA QuietStep ==
    ASSUME VInv, Typed', UNCHANGED <<said, sent>>, NEW c \in Calls,
           \A d \in Calls \ {c} : Untouched(d),
           Leaves(c), Keeps(c),
           \A e \in Events, t \in Tokens : fate'[e][t] = "none" => fate[e][t] = "none"
    PROVE  VInv'
<1>1. \A d \in Calls : Leaves(d) /\ Keeps(d)
  BY UntouchedLeaves, UntouchedKeeps DEF VInv
<1>2. NoNewLease
  BY <1>1, LeavingTakesNone DEF NoNewLease, Leaves
<1>3. LeasesApart'
  BY <1>2, LeasesStayApart DEF VInv
<1>4. \A d \in Calls : VerdictOf(d)'
  BY <1>1, KeepsVerdict DEF VInv, Keeps
<1>5. SaidFirst'
  BY <1>1, <1>4 DEF VInv, SaidFirst, Keeps
<1>6. OnlyTheVerdict'
  BY DEF VInv, OnlyTheVerdict
<1>7. QED
  BY <1>3, <1>5, <1>6 DEF VInv

\* An offer becomes the delivery in hand, of which nothing was said yet.
LEMMA OfferedKeepsVerdicts ==
    ASSUME VInv, Typed', NEW c \in Calls, Offered(c) PROVE VInv'
<1>0. Typed /\ TypeOK /\ LeasesApart /\ SaidFirst
  BY DEF VInv, Typed
<1>1. \A d \in Calls \ {c} : Untouched(d)
  BY <1>0 DEF Offered, TypeOK, SetWire, Goto, Untouched
<1>2. /\ wire[c].kind = "offer" /\ wire[c].event \in Events /\ wire[c].token \in Tokens
      /\ pc[c] = "asking" /\ said[wire[c].event][wire[c].token] = "none"
  BY <1>0 DEF Offered, Typed, FramesWellFormed, SaidFirst
<1>3. /\ delivery'[c].event = wire[c].event /\ delivery'[c].token = wire[c].token
      /\ delivery'[c].chosen = "none"
      /\ wire'[c].kind = "quiet" /\ pc'[c] \in {"handling", "handed"}
      /\ pc'[c] = "handling" => handler'[c] = "running"
      /\ hand' = hand /\ said' = said /\ fate' = fate /\ sent' = sent
  BY <1>0 DEF Offered, TypeOK, SetWire, Goto, Frame, NoDelivery, ContextDone
<1>4. NoNewLease
  <2>1. InPlace(c)'
    BY <1>3 DEF InPlace, Holding
  <2>2. ASSUME NEW e \in Events, NEW t \in Tokens, Has(c, e, t)' PROVE Has(c, e, t)
    BY <1>2, <1>3, <2>2 DEF Has
  <2>3. \A d \in Calls \ {c} : Leaves(d)
    BY <1>0, <1>1, UntouchedLeaves
  <2>4. QED
    BY <1>3, <2>1, <2>2, <2>3, LeavingTakesNone DEF NoNewLease, Leaves
<1>5. VerdictOf(c)'
  <2>1. SaidOf(c)' = "none"
    BY <1>2, <1>3 DEF SaidOf
  <2>2. \A h \in Hands : hand[c][h].pc = "idle"
    BY <1>0, <1>2 DEF Typed, HandsInPlace, Calls
  <2>3. QED
    BY <1>3, <2>1, <2>2 DEF Trying, VerdictOf, Verdicts
<1>6. \A d \in Calls \ {c} : VerdictOf(d)'
  BY <1>0, <1>1, <1>3, UntouchedKeeps, KeepsVerdict DEF Keeps
<1>7. SaidFirst'
  <2>1. \A d \in Calls : wire'[d].kind = "offer" => wire'[d] = wire[d]
    BY <1>1, <1>3 DEF Untouched
  <2>2. QED
    BY <1>0, <1>3, <1>5, <1>6, <2>1 DEF SaidFirst
<1>8. QED
  BY <1>0, <1>3, <1>4, <1>7, LeasesStayApart DEF VInv, OnlyTheVerdict

\* What Choose decides: nothing, or the verdict of the call, once.
Decides(c, v) ==
    /\ delivery'[c].event = delivery[c].event /\ delivery'[c].token = delivery[c].token
    /\ \A d \in Calls \ {c} : delivery'[d] = delivery[d] /\ hand'[d] = hand[d]
    /\ \/ /\ delivery' = delivery
          /\ delivery[c].chosen # "none" \/ delivery[c].ctx # "live"
          /\ \A h \in Hands : hand'[c][h].pc \in Trying => hand'[c][h] = hand[c][h]
       \/ /\ delivery[c].chosen = "none" /\ delivery[c].ctx = "live"
          /\ delivery'[c].chosen = v
          /\ \A h \in Hands : hand'[c][h].pc \in Trying =>
                hand'[c][h] = hand[c][h] \/ hand'[c][h].want = v

LEMMA ChooseDecides ==
    ASSUME TypeOK, NEW c \in Calls, NEW h \in Hands, NEW v \in Verdicts, Choose(c, h, v)
    PROVE  Decides(c, v)
<1>1. delivery[c] \in Deliveries
  BY DEF TypeOK
<1>2. ASSUME NEW label, NEW r, SetHand(c, h, label, v, r)
      PROVE  /\ hand'[c][h].pc = label /\ hand'[c][h].want = v
             /\ \A g \in Hands \ {h} : hand'[c][g] = hand[c][g]
             /\ \A d \in Calls \ {c} : hand'[d] = hand[d]
  <2>1. /\ hand'[c][h] = [pc |-> label, want |-> v, ret |-> r]
        /\ \A g \in Hands \ {h} : hand'[c][g] = hand[c][g]
        /\ \A d \in Calls \ {c} : hand'[d] = hand[d]
    BY <1>2 DEF SetHand, TypeOK
  <2>2. QED
    BY <2>1
<1>3. ASSUME NEW label \in {"returned", "waiting"}, NEW r, SetHand(c, h, label, v, r),
             delivery' = delivery, delivery[c].chosen # "none" \/ delivery[c].ctx # "live"
      PROVE  Decides(c, v)
  <2>1. /\ hand'[c][h].pc = label
        /\ \A g \in Hands \ {h} : hand'[c][g] = hand[c][g]
        /\ \A d \in Calls \ {c} : hand'[d] = hand[d]
    BY <1>3, <1>2
  <2>2. \A g \in Hands : hand'[c][g].pc \in Trying => hand'[c][g] = hand[c][g]
    BY <2>1 DEF Trying
  <2>3. QED
    BY <1>3, <2>1, <2>2 DEF Decides
<1>4. ASSUME SetHand(c, h, "attempt", v, "none"),
             delivery' = [delivery EXCEPT ![c] = Chosen(delivery[c], v)],
             delivery[c].chosen = "none", delivery[c].ctx = "live"
      PROVE  Decides(c, v)
  <2>1. /\ Chosen(delivery[c], v).event = delivery[c].event
        /\ Chosen(delivery[c], v).token = delivery[c].token
        /\ Chosen(delivery[c], v).chosen = v
    BY <1>1 DEF Chosen, Deliveries
  <2>2. /\ delivery'[c] = Chosen(delivery[c], v)
        /\ \A d \in Calls \ {c} : delivery'[d] = delivery[d]
    BY <1>4 DEF TypeOK
  <2>3. \A g \in Hands : hand'[c][g] = hand[c][g] \/ hand'[c][g].want = v
    <3>1. hand'[c][h].want = v /\ \A g \in Hands \ {h} : hand'[c][g] = hand[c][g]
      BY <1>4, <1>2
    <3>2. QED
      BY <3>1
  <2>4. \A d \in Calls \ {c} : hand'[d] = hand[d]
    BY <1>2, <1>4
  <2>5. QED
    BY <1>4, <2>1, <2>2, <2>3, <2>4 DEF Decides
<1>5. QED
  BY <1>3, <1>4 DEF Choose, Verdicts

\* The lease a call holds, and that no other call has it.
LEMMA HoldingIsLeased ==
    ASSUME Typed, LeasesApart, NEW c \in Calls, pc[c] \in Holding
    PROVE  /\ delivery[c].event \in Events /\ delivery[c].token \in Tokens
           /\ fate[delivery[c].event][delivery[c].token] # "none"
           /\ \A d \in Calls \ {c} : ~Has(d, delivery[c].event, delivery[c].token)
<1>1. delivery[c].event \in Events /\ delivery[c].token \in Tokens
  BY DEF Typed, TypeOK, Holding
<1>2. Has(c, delivery[c].event, delivery[c].token)
  BY DEF Has
<1>3. QED
  BY <1>1, <1>2 DEF LeasesApart

\* A step that only moves the call on, with its socket: no lease is taken, and
\* none is in hand afterwards.
LEMMA MoveKeepsVerdicts ==
    ASSUME VInv, Typed', NEW c \in Calls, NEW label, Goto(c, label),
           label \notin Holding \union {"closing"} => delivery[c].event = None,
           label \notin Holding,
           \/ wire' = wire /\ wire[c].kind \notin {"receive", "offer"}
           \/ SetWire(c, "receive") /\ label = "asking"
           \/ \E kind \in {"closed", "quiet"} : SetWire(c, kind),
           UNCHANGED <<handVars, fate, sent>>
    PROVE  VInv'
<1>0. TypeOK
  BY DEF VInv, Typed
<1>1. \A d \in Calls \ {c} : Untouched(d)
  BY <1>0 DEF TypeOK, Goto, SetWire, Untouched, handVars
<1>2. pc'[c] = label /\ delivery' = delivery
  BY <1>0 DEF TypeOK, Goto, handVars
<1>3. wire'[c].kind # "offer" /\ (wire'[c].kind = "receive" => label = "asking")
  BY <1>0 DEF TypeOK, SetWire, Frame
<1>4. Leaves(c)
  BY <1>2, <1>3 DEF Leaves, InPlace
<1>5. Keeps(c)
  BY <1>2, <1>3 DEF Keeps
<1>6. QED
  BY <1>1, <1>4, <1>5, QuietStep DEF handVars

\* A listener completes with the verdict its handler returned.
LEMMA DecideKeepsVerdicts ==
    ASSUME VInv, Typed', NEW c \in Calls, NEW h \in Hands, Decide(c, h) PROVE VInv'
<1>0. Typed /\ TypeOK /\ LeasesApart /\ VerdictOf(c)
  BY DEF VInv, Typed, SaidFirst
<1>1. /\ pc[c] = "handling" /\ handler[c] \in Verdicts /\ Goto(c, "completing")
      /\ wire' = wire /\ fate' = fate /\ sent' = sent /\ said' = said /\ handler' = handler
  BY DEF Decide
<1>2. Decides(c, handler[c])
  BY <1>0, <1>1, ChooseDecides DEF Decide
<1>3. \A d \in Calls \ {c} : Untouched(d)
  BY <1>0, <1>1, <1>2 DEF Untouched, Goto, TypeOK, Decides
<1>4. pc'[c] = "completing"
  BY <1>0, <1>1 DEF Goto, TypeOK
<1>5. Leaves(c)
  BY <1>0, <1>1, <1>2, <1>4 DEF Leaves, InPlace, Decides, LeasesApart, Holding
<1>6. \A d \in Calls : Leaves(d)
  BY <1>0, <1>3, <1>5, UntouchedLeaves
<1>7. LeasesApart'
  <2>1. NoNewLease
    BY <1>1, <1>6, LeavingTakesNone DEF NoNewLease, Leaves
  <2>2. QED
    BY <1>0, <2>1, LeasesStayApart
<1>8. VerdictOf(c)'
  <2>1. SaidOf(c) = handler[c] /\ SaidOf(c)' = SaidOf(c) /\ delivery[c].chosen = "none"
    BY <1>0, <1>1, <1>2 DEF VerdictOf, SaidOf, Decides
  <2>2. \A g \in Hands : hand[c][g].pc = "idle"
    BY <1>0, <1>1 DEF Typed, HandsInPlace, Calls
  <2>3. delivery'[c].chosen \in {"none", handler[c]}
    BY <1>2, <2>1 DEF Decides
  <2>4. \A g \in Hands : hand'[c][g].pc \in Trying =>
          hand'[c][g].want = delivery'[c].chosen
    BY <1>2, <2>2 DEF Trying, Decides
  <2>5. QED
    BY <1>4, <2>1, <2>3, <2>4 DEF VerdictOf
<1>9. \A d \in Calls : VerdictOf(d)'
  BY <1>1, <1>3, <1>8, UntouchedKeeps, KeepsVerdict DEF Keeps, VInv
<1>10. SaidFirst'
  BY <1>1, <1>9 DEF VInv, SaidFirst
<1>11. QED
  BY <1>1, <1>7, <1>10 DEF VInv, OnlyTheVerdict

\* The delivery is put away.
LEMMA PutAwayKeepsVerdicts ==
    ASSUME VInv, Typed', NEW c \in Calls, pc[c] \in Holding \union {"closing"},
           NEW label \in {"top", "closing", "ended"}, Goto(c, label),
           delivery' = [delivery EXCEPT ![c] = NoDelivery],
           handler' = [handler EXCEPT ![c] = "none"],
           \A d \in Calls \ {c} : hand'[d] = hand[d],
           UNCHANGED <<wire, fate, sent, said>>
    PROVE  VInv'
<1>0. TypeOK /\ LeasesApart
  BY DEF VInv, Typed
<1>1. \A d \in Calls \ {c} : Untouched(d)
  BY <1>0 DEF TypeOK, Goto, Untouched
<1>2. pc'[c] = label /\ delivery'[c].event = None
  BY <1>0 DEF TypeOK, Goto, NoDelivery
<1>3. wire[c].kind \notin {"receive", "offer"}
  BY <1>0 DEF LeasesApart, Holding
<1>4. Leaves(c) /\ Keeps(c)
  BY <1>2, <1>3 DEF Leaves, InPlace, Keeps, Holding
<1>5. QED
  BY <1>1, <1>4, QuietStep

LEMMA LoopKeepsVerdicts == ASSUME VInv, NEW c \in Calls, Loop(c) PROVE VInv'
<1>0. Typed /\ TypeOK /\ LeasesApart
  BY DEF VInv, Typed
<1>1. Typed'
  BY <1>0, LoopTyped
<1> USE DEF handVars
<1>2. CASE LoopTop(c)
  BY <1>0, <1>1, <1>2, MoveKeepsVerdicts DEF LoopTop, LeasesApart, Holding
<1>3. CASE Arm(c)
  BY <1>0, <1>1, <1>3, MoveKeepsVerdicts DEF Arm, LeasesApart, Holding
<1>4. CASE Attempt(c)
  <2>1. delivery[c].event = None /\ wire[c].kind \notin {"receive", "offer"}
    BY <1>0, <1>4 DEF Attempt, LeasesApart
  <2>2. UNCHANGED <<handVars, fate, sent>>
    BY <1>4 DEF Attempt
  <2>3. CASE Goto(c, "closing") /\ UNCHANGED wire
    BY <1>1, <2>1, <2>2, <2>3, MoveKeepsVerdicts DEF Holding
  <2>4. CASE Goto(c, "asking") /\ SetWire(c, "receive")
    BY <1>1, <2>1, <2>2, <2>4, MoveKeepsVerdicts DEF Holding
  <2>5. ASSUME NEW label \in {"attempt", "closing"}, SetWire(c, "closed"), Goto(c, label)
        PROVE  VInv'
    BY <1>1, <2>1, <2>2, <2>5, MoveKeepsVerdicts DEF Holding
  <2>6. QED
    BY <1>4, <2>3, <2>4, <2>5 DEF Attempt
<1>5. CASE Abandon(c)
  BY <1>0, <1>1, <1>5, MoveKeepsVerdicts DEF Abandon, Holding
<1>6. CASE Offered(c)
  BY <1>1, <1>6, OfferedKeepsVerdicts
<1>7. CASE ReceiveFails(c)
  BY <1>0, <1>1, <1>7, MoveKeepsVerdicts DEF ReceiveFails, LeasesApart, Holding
<1>8. CASE NothingOffered(c)
  BY <1>0, <1>1, <1>8, MoveKeepsVerdicts DEF NothingOffered, LeasesApart, Holding
<1>9. CASE RestEnds(c)
  BY <1>0, <1>1, <1>9, MoveKeepsVerdicts DEF RestEnds, LeasesApart, Holding, Calls
<1>10. CASE HandlerLate(c)
  BY <1>0, <1>1, <1>10, MoveKeepsVerdicts DEF HandlerLate, LeasesApart, Holding
<1>11. CASE End(c)
  BY <1>1, <1>11, PutAwayKeepsVerdicts DEF End
<1>12. ASSUME NEW h \in Hands, Decide(c, h) PROVE VInv'
  BY <1>1, <1>12, DecideKeepsVerdicts
<1>13. ASSUME NEW h \in Hands, Completed(c, h) PROVE VInv'
  <2>1. \A d \in Calls \ {c} : hand'[d] = hand[d]
    BY <1>0, <1>13 DEF Completed, TypeOK
  <2>2. QED
    BY <1>1, <1>13, <2>1, PutAwayKeepsVerdicts DEF Completed, Holding
<1>14. QED
  BY <1>2, <1>3, <1>4, <1>5, <1>6, <1>7, <1>8, <1>9, <1>10, <1>11, <1>12, <1>13 DEF Loop

\* One hand moves on with its verdict, or the clock of the delivery does; the
\* call stays where it is and its socket carries no offer.
LEMMA WorkKeepsVerdicts ==
    ASSUME VInv, Typed', NEW c \in Calls,
           \A d \in Calls \ {c} : Untouched(d),
           DecidesNothing(c),
           \/ wire' = wire
           \/ \E kind \in {"closed", "quiet", "complete"} : SetWire(c, kind),
           UNCHANGED <<said, fate, sent>>
    PROVE  VInv'
<1>0. TypeOK /\ LeasesApart
  BY DEF VInv, Typed
<1>1. wire'[c].kind \in {"receive", "offer"} => wire'[c] = wire[c]
  BY <1>0 DEF SetWire, Frame, TypeOK
<1>2. Leaves(c)
  BY <1>0, <1>1 DEF Leaves, InPlace, LeasesApart, DecidesNothing, Holding
<1>3. QED
  BY <1>1, <1>2, QuietStep DEF Keeps

\* A hand at work that moves on keeps its verdict; one that stops working
\* decides nothing either.
LEMMA HandDecidesNothing ==
    ASSUME TypeOK, NEW c \in Calls, NEW h \in Hands, NEW label, NEW r,
           SetHand(c, h, label, hand[c][h].want, r),
           label \in Trying => hand[c][h].pc \in Trying,
           \A d \in Calls \ {c} : delivery'[d] = delivery[d],
           /\ delivery'[c].event = delivery[c].event /\ delivery'[c].token = delivery[c].token
           /\ delivery'[c].chosen = delivery[c].chosen
           /\ delivery'[c].ctx = "live" => delivery[c].ctx = "live",
           \/ wire' = wire
           \/ \E kind \in {"closed", "quiet", "complete"} : SetWire(c, kind),
           UNCHANGED <<pc, handler>>
    PROVE  DecidesNothing(c) /\ \A d \in Calls \ {c} : Untouched(d)
<1>1. /\ hand'[c][h] = [pc |-> label, want |-> hand[c][h].want, ret |-> r]
      /\ \A g \in Hands \ {h} : hand'[c][g] = hand[c][g]
      /\ \A d \in Calls \ {c} : hand'[d] = hand[d]
  BY DEF SetHand, TypeOK
<1>2. hand'[c][h].pc = label /\ hand'[c][h].want = hand[c][h].want
  BY <1>1
<1>3. \A d \in Calls \ {c} : wire'[d] = wire[d]
  BY DEF SetWire, TypeOK
<1>4. \A g \in Hands : hand'[c][g].pc \in Trying =>
        hand[c][g].pc \in Trying /\ hand'[c][g].want = hand[c][g].want
  BY <1>1, <1>2
<1>5. DecidesNothing(c)
  BY <1>4 DEF DecidesNothing
<1>6. QED
  BY <1>1, <1>3, <1>5 DEF Untouched

\* What a completion says is what the application said first.
LEMMA SendsTheVerdict ==
    ASSUME VInv, NEW c \in Calls, NEW h \in Hands, hand[c][h].pc \in Trying
    PROVE  /\ Completion(c, h)[3] = hand[c][h].want
           /\ said[Completion(c, h)[1]][Completion(c, h)[2]] = hand[c][h].want
<1>1. Typed /\ VerdictOf(c)
  BY DEF VInv, SaidFirst
<1>2. pc[c] \in Holding /\ hand[c][h].want \in Verdicts
  BY <1>1 DEF Trying, Typed, HandsInPlace, FramesWellFormed, Holding, Calls
<1>3. SaidOf(c) = hand[c][h].want
  BY <1>1, <1>2 DEF VerdictOf, Holding, Verdicts
<1>4. QED
  BY <1>3 DEF Completion, SaidOf

LEMMA CompletingKeepsVerdicts ==
    ASSUME VInv, NEW c \in Calls, NEW h \in Hands, Completing(c, h) PROVE VInv'
<1>0. Typed /\ TypeOK /\ delivery[c] \in Deliveries
  BY DEF VInv, Typed, TypeOK
<1>1. Typed'
  BY <1>0, CompletingTyped
<1> USE DEF callVars
<1>2. ASSUME NEW r \in {"ok", "failed"}, Settle(c, h, r), UNCHANGED <<pc, handler, said, fate, sent>>,
             wire' = wire \/ \E kind \in {"closed", "quiet"} : SetWire(c, kind)
      PROVE  VInv'
  <2>1. /\ \A d \in Calls \ {c} : delivery'[d] = delivery[d]
        /\ delivery'[c].event = delivery[c].event /\ delivery'[c].token = delivery[c].token
        /\ delivery'[c].chosen = delivery[c].chosen /\ delivery'[c].ctx = delivery[c].ctx
    BY <1>0, <1>2 DEF TypeOK, Settle, Deliveries
  <2>2. SetHand(c, h, "finishing", hand[c][h].want, r)
    BY <1>2 DEF Settle
  <2>3. DecidesNothing(c) /\ \A d \in Calls \ {c} : Untouched(d)
    BY <1>0, <1>2, <2>1, <2>2, HandDecidesNothing DEF Trying
  <2>4. QED
    BY <1>1, <1>2, <2>3, WorkKeepsVerdicts
<1>3. CASE CompleteAttempt(c, h) \/ CompleteDial(c, h) \/ CompleteDialled(c, h)
  <2>1. /\ UNCHANGED <<pc, handler, said, fate>>
        /\ hand[c][h].pc \in {"attempt", "dialling", "dialled"}
    BY <1>3, AttemptMoves
  <2>2. CASE AttemptEnds(c, h)
    BY <1>2, <2>1, <2>2 DEF AttemptEnds
  <2>3. ASSUME NEW label \in {"attempt", "dialling", "dialled"}, AttemptGoesOn(c, h, label)
        PROVE  VInv'
    <3>1. \/ UNCHANGED wire
          \/ \E kind \in {"closed", "quiet", "complete"} : SetWire(c, kind)
      BY <2>3 DEF AttemptGoesOn
    <3>2. DecidesNothing(c) /\ \A d \in Calls \ {c} : Untouched(d)
      BY <1>0, <2>1, <2>3, <3>1, HandDecidesNothing DEF AttemptGoesOn, Trying
    <3>3. QED
      BY <1>1, <2>1, <2>3, <3>1, <3>2, WorkKeepsVerdicts DEF AttemptGoesOn
  <2>4. CASE WriteCompletion(c, h)
    <3>1. DecidesNothing(c) /\ \A d \in Calls \ {c} : Untouched(d)
      BY <1>0, <2>1, <2>4, HandDecidesNothing DEF WriteCompletion, Trying
    <3>2. wire'[c].kind = "complete"
      BY <1>0, <2>4 DEF WriteCompletion, TypeOK, SetWire, Frame
    <3>3. Leaves(c) /\ Keeps(c)
      BY <3>1, <3>2 DEF Leaves, InPlace, Keeps, DecidesNothing, VInv, LeasesApart, Holding
    <3>4. \A d \in Calls : Leaves(d) /\ Keeps(d)
      BY <3>1, <3>3, UntouchedLeaves, UntouchedKeeps DEF VInv
    <3>5. LeasesApart'
      <4>1. NoNewLease
        BY <2>1, <3>4, LeavingTakesNone DEF NoNewLease, Leaves
      <4>2. QED
        BY <4>1, LeasesStayApart DEF VInv
    <3>6. \A d \in Calls : VerdictOf(d)'
      BY <1>1, <2>1, <3>4, KeepsVerdict DEF VInv, Keeps
    <3>7. SaidFirst'
      BY <2>1, <3>4, <3>6 DEF VInv, SaidFirst, Keeps
    <3>8. OnlyTheVerdict'
      BY <2>1, <2>4, SendsTheVerdict DEF WriteCompletion, Trying, VInv, OnlyTheVerdict
    <3>9. QED
      BY <1>1, <3>5, <3>7, <3>8 DEF VInv
  <2>5. QED
    BY <1>3, <2>2, <2>3, <2>4, AttemptMoves
<1>4. CASE CompleteAbandon(c, h)
  BY <1>2, <1>4 DEF CompleteAbandon
<1>5. CASE CompleteAnswered(c, h)
  <2>1. UNCHANGED <<pc, handler, said, fate, sent>> /\ hand[c][h].pc = "asking"
    BY <1>5 DEF CompleteAnswered
  <2>2. ASSUME NEW kind \in {"closed", "quiet"}, SetWire(c, kind),
               NEW r \in {"ok", "failed"}, Settle(c, h, r)
        PROVE  VInv'
    BY <1>2, <2>1, <2>2
  <2>3. CASE /\ SetWire(c, "closed") /\ UNCHANGED delivery
             /\ SetHand(c, h, "attempt", hand[c][h].want, "none")
    <3>1. DecidesNothing(c) /\ \A d \in Calls \ {c} : Untouched(d)
      BY <1>0, <2>1, <2>3, HandDecidesNothing DEF Trying
    <3>2. QED
      BY <1>1, <2>1, <2>3, <3>1, WorkKeepsVerdicts
  <2>4. QED
    BY <1>5, <2>2, <2>3 DEF CompleteAnswered
<1>6. ASSUME CancelDelivery(c, h) \/ Released(c, h) \/ Repeated(c, h) PROVE VInv'
  <2>1. UNCHANGED <<pc, handler, wire, said, fate, sent>>
    BY <1>6 DEF CancelDelivery, Released, Repeated
  <2>2. /\ \A d \in Calls \ {c} : delivery'[d] = delivery[d]
        /\ delivery'[c] \in {delivery[c], ContextDone(delivery[c])}
    BY <1>0, <1>6 DEF TypeOK, CancelDelivery, Released, Repeated
  <2>3. /\ delivery'[c].event = delivery[c].event /\ delivery'[c].token = delivery[c].token
        /\ delivery'[c].chosen = delivery[c].chosen
        /\ delivery'[c].ctx = "live" => delivery[c].ctx = "live"
    BY <1>0, <2>2 DEF ContextDone, Deliveries
  <2>4. \E label \in {"releasing", "returned"}, r \in {hand[c][h].ret, delivery[c].done} :
          SetHand(c, h, label, hand[c][h].want, r)
    BY <1>6 DEF CancelDelivery, Released, Repeated
  <2>5. DecidesNothing(c) /\ \A d \in Calls \ {c} : Untouched(d)
    BY <1>0, <2>1, <2>2, <2>3, <2>4, HandDecidesNothing DEF Trying
  <2>6. QED
    BY <1>1, <2>1, <2>5, WorkKeepsVerdicts
<1>7. QED
  BY <1>3, <1>4, <1>5, <1>6 DEF Completing

\* The application gives a verdict on the lease in hand, its first or a later
\* one: nothing is said of any other lease.
LEMMA SayingKeepsVerdicts ==
    ASSUME VInv, Typed', NEW c \in Calls, pc[c] \in Holding, NEW v \in Verdicts, Say(c, v),
           \A d \in Calls \ {c} : Untouched(d),
           delivery'[c].event = delivery[c].event, delivery'[c].token = delivery[c].token,
           UNCHANGED <<pc, wire, fate, sent>>,
           SaidOf(c)' = (IF SaidOf(c) = "none" THEN v ELSE SaidOf(c)) => VerdictOf(c)'
    PROVE  VInv'
<1>0. Typed /\ TypeOK /\ LeasesApart /\ SaidFirst /\ OnlyTheVerdict
  BY DEF VInv, Typed
<1> DEFINE e == delivery[c].event
           t == delivery[c].token
<1>1. /\ e \in Events /\ t \in Tokens /\ fate[e][t] # "none"
      /\ \A d \in Calls \ {c} : ~Has(d, e, t)
  BY <1>0, HoldingIsLeased
<1>2. /\ \A f \in Events, u \in Tokens :
            f # e \/ u # t => said'[f][u] = said[f][u]
      /\ said'[e][t] = IF said[e][t] = "none" THEN v ELSE said[e][t]
  BY <1>0, <1>1 DEF Say, TypeOK
<1>3. \A d \in Calls : Leaves(d)
  <2>1. Leaves(c)
    BY <1>0 DEF Leaves, InPlace, LeasesApart, Holding
  <2>2. QED
    BY <1>0, <2>1, UntouchedLeaves
<1>4. LeasesApart'
  <2>1. NoNewLease
    BY <1>3, LeavingTakesNone DEF NoNewLease, Leaves
  <2>2. QED
    BY <1>0, <2>1, LeasesStayApart
<1>5. ASSUME NEW d \in Calls \ {c} PROVE VerdictOf(d)'
  <2>1. CASE pc[d] \in Holding
    <3>1. delivery[d].event \in Events /\ delivery[d].token \in Tokens
      BY <1>0, <2>1, HoldingIsLeased
    <3>2. Has(d, delivery[d].event, delivery[d].token)
      BY DEF Has
    <3>3. SaidOf(d)' = SaidOf(d)
      BY <1>1, <1>2, <3>1, <3>2 DEF SaidOf, Untouched
    <3>4. VerdictOf(d)
      BY <1>0 DEF SaidFirst
    <3>5. QED
      BY <3>3, <3>4 DEF VerdictOf, Untouched
  <2>2. CASE pc[d] \notin Holding
    <3>1. \A h \in Hands : hand'[d][h].pc \notin Trying
      BY <1>0, <2>2 DEF Trying, Typed, HandsInPlace, Holding, Calls, Untouched
    <3>2. QED
      BY <2>2, <3>1 DEF VerdictOf, Holding
  <2>3. QED
    BY <2>1, <2>2
<1>6. VerdictOf(c)'
  BY <1>2 DEF SaidOf
<1>7. \A d \in Calls : VerdictOf(d)'
  BY <1>5, <1>6
<1>8. SaidFirst'
  <2>1. ASSUME NEW f \in Events, NEW u \in Tokens, fate'[f][u] = "none"
        PROVE  said'[f][u] = "none"
    BY <1>0, <1>1, <1>2, <2>1 DEF SaidFirst
  <2>2. ASSUME NEW d \in Calls, wire'[d].kind = "offer"
        PROVE  said'[wire'[d].event][wire'[d].token] = "none"
    <3>1. /\ wire[d].kind = "offer" /\ wire[d].event \in Events /\ wire[d].token \in Tokens
          /\ d # c
      BY <1>0, <2>2 DEF Typed, FramesWellFormed, LeasesApart, Holding
    <3>2. Has(d, wire[d].event, wire[d].token)
      BY <3>1 DEF Has
    <3>3. QED
      BY <1>0, <1>1, <1>2, <3>1, <3>2 DEF SaidFirst
  <2>3. QED
    BY <1>7, <2>1, <2>2 DEF SaidFirst
<1>9. OnlyTheVerdict'
  <2>1. ASSUME NEW m \in sent PROVE said'[m[1]][m[2]] = m[3]
    <3>1. m[1] \in Events /\ m[2] \in Tokens /\ m[3] \in Verdicts /\ said[m[1]][m[2]] = m[3]
      BY <1>0 DEF TypeOK, OnlyTheVerdict
    <3>2. QED
      BY <1>2, <3>1 DEF Verdicts
  <2>2. QED
    BY <2>1 DEF OnlyTheVerdict
<1>10. QED
  BY <1>4, <1>8, <1>9 DEF VInv

LEMMA ApplicationKeepsVerdicts ==
    ASSUME VInv, NEW c \in Calls, Application(c) PROVE VInv'
<1>0. Typed /\ TypeOK /\ LeasesApart /\ VerdictOf(c) /\ delivery[c] \in Deliveries
  BY DEF VInv, Typed, TypeOK, SaidFirst
<1>1. Typed'
  BY <1>0, ApplicationTyped
<1> USE DEF callVars, handVars
<1>2. CASE Reserve(c)
  BY <1>0, <1>1, <1>2, MoveKeepsVerdicts DEF Reserve, LeasesApart, Holding
<1>3. CASE CallerCancels(c)
  <2>1. /\ \A d \in Calls \ {c} : Untouched(d)
        /\ delivery'[c] = ContextDone(delivery[c])
        /\ UNCHANGED <<pc, handler, hand, wire, fate, sent, said>>
    BY <1>0, <1>3 DEF CallerCancels, TypeOK, Untouched
  <2>2. DecidesNothing(c)
    BY <1>0, <2>1 DEF DecidesNothing, ContextDone, Deliveries
  <2>3. QED
    BY <1>1, <2>1, <2>2, WorkKeepsVerdicts
<1>4. CASE Close(c)
  BY <1>1, <1>4, WorkKeepsVerdicts DEF Close, DecidesNothing, Untouched
<1>5. ASSUME NEW v \in Verdicts, HandlerReturns(c, v) PROVE VInv'
  <2>1. /\ pc[c] = "handling" /\ handler[c] = "running" /\ handler'[c] = v
        /\ UNCHANGED <<pc, wire, delivery, hand, fate, sent>>
    BY <1>0, <1>5 DEF HandlerReturns, TypeOK
  <2>2. \A d \in Calls \ {c} : Untouched(d)
    BY <1>0, <1>5 DEF HandlerReturns, TypeOK, Untouched
  <2>3. \A h \in Hands : hand[c][h].pc = "idle"
    BY <1>0, <2>1 DEF Typed, HandsInPlace, Calls
  <2>4. SaidOf(c) = "none" /\ delivery[c].chosen = "none"
    BY <1>0, <2>1 DEF VerdictOf
  <2>5. ASSUME SaidOf(c)' = v PROVE VerdictOf(c)'
    BY <2>1, <2>3, <2>4, <2>5 DEF Trying, VerdictOf, Verdicts
  <2>6. QED
    BY <1>1, <1>5, <2>1, <2>2, <2>4, <2>5, SayingKeepsVerdicts DEF Holding, HandlerReturns
<1>6. ASSUME NEW v \in Verdicts, NEW h \in Hands, Answer(c, h, v) PROVE VInv'
  <2>1. /\ pc[c] = "handed" /\ Say(c, v)
        /\ UNCHANGED <<pc, wire, handler, fate, sent>>
    BY <1>6 DEF Answer
  <2>2. Decides(c, v)
    BY <1>0, <1>6, ChooseDecides DEF Answer
  <2>3. \A d \in Calls \ {c} : Untouched(d)
    BY <2>1, <2>2 DEF Decides, Untouched
  <2>4. delivery'[c].event = delivery[c].event /\ delivery'[c].token = delivery[c].token
    BY <2>2 DEF Decides
  <2>5. ASSUME SaidOf(c)' = IF SaidOf(c) = "none" THEN v ELSE SaidOf(c) PROVE VerdictOf(c)'
    <3>1. CASE /\ delivery' = delivery
               /\ delivery[c].chosen # "none" \/ delivery[c].ctx # "live"
               /\ \A g \in Hands : hand'[c][g].pc \in Trying =>
                     hand'[c][g] = hand[c][g]
      BY <1>0, <2>1, <2>5, <3>1 DEF VerdictOf
    <3>2. CASE /\ delivery[c].chosen = "none" /\ delivery[c].ctx = "live"
               /\ delivery'[c].chosen = v
               /\ \A g \in Hands : hand'[c][g].pc \in Trying =>
                     hand'[c][g] = hand[c][g] \/ hand'[c][g].want = v
      <4>1. SaidOf(c) = "none"
        BY <1>0, <2>1, <3>2 DEF VerdictOf
      <4>2. \A g \in Hands : hand[c][g].pc \notin Trying
        BY <1>0, <3>2 DEF Trying, VerdictOf, Typed, FramesWellFormed, Verdicts
      <4>3. QED
        BY <2>1, <2>5, <3>2, <4>1, <4>2 DEF VerdictOf, Verdicts
    <3>3. QED
      BY <2>2, <3>1, <3>2 DEF Decides
  <2>6. QED
    BY <1>1, <2>1, <2>3, <2>4, <2>5, SayingKeepsVerdicts DEF Holding
<1>7. QED
  BY <1>2, <1>3, <1>4, <1>5, <1>6 DEF Application

\* A lease is granted under a token of which nothing was said and that nobody has.
LEMMA GrantKeepsVerdicts ==
    ASSUME VInv, Typed', NEW c \in Calls, NEW e \in Events, NEW t \in Tokens, Grant(c, e, t)
    PROVE  VInv'
<1>0. Typed /\ TypeOK /\ LeasesApart /\ SaidFirst
  BY DEF VInv, Typed
<1>1. /\ wire[c].kind = "receive" /\ fate[e][t] = "none" /\ pc[c] = "asking"
      /\ UNCHANGED <<pc, delivery, handler, hand, said, sent>>
  BY <1>0 DEF Grant, serverOnly, callVars, handVars, LeasesApart
<1>2. /\ wire'[c].kind = "offer" /\ wire'[c].event = e /\ wire'[c].token = t
      /\ \A d \in Calls \ {c} : Untouched(d)
  BY <1>0, <1>1 DEF Grant, TypeOK, Untouched
<1>3. /\ fate'[e][t] = "held"
      /\ \A f \in Events, u \in Tokens : fate'[f][u] = "none" => fate[f][u] = "none"
      /\ \A f \in Events, u \in Tokens : fate[f][u] # "none" => fate'[f][u] # "none"
  BY <1>0 DEF Grant, TypeOK
<1>4. \A d \in Calls \ {c} : Leaves(d)
  BY <1>0, <1>2, UntouchedLeaves
<1>5. ASSUME NEW d \in Calls, NEW f \in Events, NEW u \in Tokens, Has(d, f, u)'
      PROVE  Has(d, f, u) \/ (d = c /\ f = e /\ u = t)
  <2>1. CASE d = c
    <3>1. delivery'[c].event = None
      BY <1>0, <1>1 DEF LeasesApart
    <3>2. QED
      BY <1>2, <1>5, <2>1, <3>1, EventsAssumption DEF Has
  <2>2. CASE d # c
    BY <1>4, <1>5, <2>2, LeavingTakesNone
  <2>3. QED
    BY <2>1, <2>2
<1>6. \A d \in Calls : ~Has(d, e, t)
  BY <1>0, <1>1 DEF LeasesApart
<1>7. LeasesApart'
  <2>1. ASSUME NEW d \in Calls
        PROVE  /\ wire'[d].kind \in {"receive", "offer"} => pc'[d] = "asking"
               /\ pc'[d] \notin {"handling", "completing", "handed", "closing"} =>
                     delivery'[d].event = None
    BY <1>0, <1>1, <1>2 DEF LeasesApart, Untouched
  <2>2. ASSUME NEW b \in Calls, NEW d \in Calls, NEW f \in Events, NEW u \in Tokens,
               Has(b, f, u)', Has(d, f, u)'
        PROVE  b = d
    BY <1>0, <1>5, <1>6, <2>2 DEF LeasesApart
  <2>3. ASSUME NEW d \in Calls, NEW f \in Events, NEW u \in Tokens, Has(d, f, u)'
        PROVE  fate'[f][u] # "none"
    BY <1>0, <1>3, <1>5, <2>3 DEF LeasesApart
  <2>4. QED
    BY <2>1, <2>2, <2>3 DEF LeasesApart
<1>8. SaidFirst'
  <2>1. \A d \in Calls : VerdictOf(d)'
    BY <1>0, <1>1, KeepsVerdict DEF DecidesNothing
  <2>2. said'[e][t] = "none"
    BY <1>0, <1>1 DEF SaidFirst
  <2>3. \A d \in Calls : wire'[d].kind = "offer" =>
          said'[wire'[d].event][wire'[d].token] = "none"
    BY <1>0, <1>1, <1>2, <2>2 DEF SaidFirst, Untouched
  <2>4. QED
    BY <1>0, <1>1, <1>3, <2>1, <2>3 DEF SaidFirst
<1>9. QED
  BY <1>1, <1>7, <1>8 DEF VInv, OnlyTheVerdict

LEMMA RestKeepsVerdicts ==
    ASSUME VInv,
           \/ \E c \in Calls :
                Network(c) \/ ConnectFails(c) \/ Timer(c) \/ LeaseTimeout(c) \/ TearDown(c) \/ Closing(c)
           \/ Server
    PROVE  VInv'
<1>0. Typed /\ TypeOK /\ LeasesApart
  BY DEF VInv, Typed
<1>1. Typed'
  BY <1>0, RestTyped
<1> USE DEF callVars, handVars, serverOnly
<1>2. ASSUME NEW c \in Calls, NEW kind, SetWire(c, kind), kind \notin {"receive", "offer"},
             UNCHANGED <<pc, handVars, fate, sent>>
      PROVE  VInv'
  <2>1. \A d \in Calls \ {c} : Untouched(d)
    BY <1>0, <1>2 DEF SetWire, TypeOK, Untouched
  <2>2. wire'[c].kind \notin {"receive", "offer"}
    BY <1>0, <1>2 DEF SetWire, Frame, TypeOK
  <2>3. Leaves(c) /\ Keeps(c)
    BY <1>0, <1>2, <2>2 DEF Leaves, InPlace, Keeps, DecidesNothing, LeasesApart, Holding
  <2>4. QED
    BY <1>1, <1>2, <2>1, <2>3, QuietStep
<1>3. ASSUME NEW c \in Calls, Network(c) PROVE VInv'
  <2>1. CASE Connected(c)
    BY <1>0, <1>1, <2>1, MoveKeepsVerdicts DEF Connected, LeasesApart, Holding
  <2>2. CASE Receipt(c)
    BY <1>2, <2>2 DEF Receipt
  <2>3. ASSUME NEW e \in Events, NEW t \in Tokens, Grant(c, e, t) PROVE VInv'
    BY <1>1, <2>3, GrantKeepsVerdicts
  <2>4. ASSUME NEW kind \in {"empty", "refused", "dropped"}, OtherAnswer(c, kind) PROVE VInv'
    BY <1>2, <2>4 DEF OtherAnswer
  <2>5. QED
    BY <1>3, <2>1, <2>2, <2>3, <2>4 DEF Network
<1>4. ASSUME NEW c \in Calls, ConnectFails(c) PROVE VInv'
  BY <1>0, <1>1, <1>4, MoveKeepsVerdicts DEF ConnectFails, LeasesApart, Holding
<1>5. ASSUME NEW c \in Calls, Timer(c) \/ LeaseTimeout(c) PROVE VInv'
  <2>1. delivery[c] \in Deliveries
    BY <1>0 DEF TypeOK
  <2>2. /\ \A d \in Calls \ {c} : delivery'[d] = delivery[d]
        /\ delivery'[c].event = delivery[c].event /\ delivery'[c].token = delivery[c].token
        /\ delivery'[c].chosen = delivery[c].chosen
        /\ delivery'[c].ctx = "live" => delivery[c].ctx = "live"
    <3>1. CASE TimerFires(c) \/ LeaseTimeout(c)
      BY <1>0, <2>1, <3>1 DEF TimerFires, LeaseTimeout, TypeOK, Deliveries
    <3>2. CASE TimerCancels(c)
      BY <1>0, <2>1, <3>2 DEF TimerCancels, ContextDone, TypeOK, Deliveries
    <3>3. QED
      BY <1>5, <3>1, <3>2 DEF Timer
  <2>3. UNCHANGED <<pc, handler, hand, wire, fate, sent, said>>
    BY <1>5 DEF Timer, TimerFires, TimerCancels, LeaseTimeout
  <2>4. QED
    BY <1>1, <2>2, <2>3, WorkKeepsVerdicts DEF DecidesNothing, Untouched
<1>6. ASSUME NEW c \in Calls, TearDown(c) PROVE VInv'
  <2>1. CASE CloseConnection(c)
    BY <1>2, <2>1 DEF CloseConnection
  <2>2. CASE FreeSlot(c)
    BY <1>1, <2>2, WorkKeepsVerdicts DEF FreeSlot, DecidesNothing, Untouched
  <2>3. QED
    BY <1>6, <2>1, <2>2 DEF TearDown
<1>7. ASSUME NEW c \in Calls, Closing(c) PROVE VInv'
  BY <1>1, <1>7, WorkKeepsVerdicts DEF Closing, CancelReceive, CloseReturn, DecidesNothing, Untouched
<1>8. CASE Server
  <2>1. \A e \in Events, t \in Tokens : fate'[e][t] = "none" => fate[e][t] = "none"
    <3>1. ASSUME NEW e \in Events, NEW t \in Tokens, NEW f, f # "none",
                 fate' = [fate EXCEPT ![e][t] = f]
          PROVE  \A d \in Events, u \in Tokens : fate'[d][u] = "none" => fate[d][u] = "none"
      BY <1>0, <3>1 DEF TypeOK
    <3>2. ASSUME NEW m \in sent, Record(m)
          PROVE  \A d \in Events, u \in Tokens : fate'[d][u] = "none" => fate[d][u] = "none"
      <4>1. m[1] \in Events /\ m[2] \in Tokens /\ m[3] # "none"
        BY <1>0 DEF TypeOK, Verdicts
      <4>2. QED
        BY <3>1, <3>2, <4>1 DEF Record
    <3>3. QED
      BY <1>8, <3>1, <3>2 DEF Server, Lapse
  <2>2. UNCHANGED <<pc, delivery, handler, hand, wire, sent, said>>
    BY <1>8 DEF Server, Record, Lapse
  <2>3. \A d \in Calls : Untouched(d)
    BY <2>2 DEF Untouched
  <2>4. \A d \in Calls : Leaves(d) /\ VerdictOf(d)'
    BY <1>0, <1>1, <2>2, <2>3, UntouchedLeaves, UntouchedKeeps, KeepsVerdict DEF VInv, Keeps
  <2>5. LeasesApart'
    <3>1. NoNewLease
      BY <2>1, <2>4, LeavingTakesNone DEF NoNewLease, Leaves
    <3>2. QED
      BY <1>0, <3>1, LeasesStayApart
  <2>6. QED
    BY <1>1, <2>1, <2>2, <2>4, <2>5 DEF VInv, SaidFirst, OnlyTheVerdict
<1>9. QED
  BY <1>3, <1>4, <1>5, <1>6, <1>7, <1>8

LEMMA VerdictsInvariance == Spec => []VInv
<1>1. Init => VInv
  BY TypedInit, VerdictsInit DEF VInv
<1>2. VInv /\ [Next]_vars => VInv'
  <2>1. CASE VInv /\ UNCHANGED vars
    BY <2>1
       DEF vars, VInv, Typed, TypeOK, FramesWellFormed, HandsInPlace, LeasesApart, Has, SaidFirst,
           VerdictOf, SaidOf, OnlyTheVerdict
  <2>2. CASE VInv /\ Next
    BY <2>2, LoopKeepsVerdicts, CompletingKeepsVerdicts, ApplicationKeepsVerdicts, RestKeepsVerdicts DEF Next
  <2>3. QED
    BY <2>1, <2>2
<1>3. QED
  BY <1>1, <1>2, PTL DEF Spec

\* The server never hears of a lease anything but what the application said of
\* it first: leases are with one call each, a call decides with the first
\* verdict only, and every completion carries what was decided.
THEOREM FirstVerdictOnly == Spec => []OnlyTheVerdict
<1>1. VInv => OnlyTheVerdict
  BY DEF VInv
<1>2. QED
  BY <1>1, VerdictsInvariance, PTL

-----------------------------------------------------------------------------
(* What the application is promised of each lease.                           *)

\* What one call reports, a function of its delivery and its hands.
LEMMA ReportsFollow ==
    ASSUME \A c \in Calls, h \in Hands :
             /\ delivery'[c].event = delivery[c].event /\ delivery'[c].token = delivery[c].token
             /\ hand'[c][h].ret = "ok" \/ hand[c][h].ret = "ok" => hand'[c][h] = hand[c][h]
    PROVE  Reported' = Reported
  BY DEF Reported

\* All that is reported is on record.
LEMMA ReportedIsRecorded == NilMeansRecorded => Reported \subseteq Delivery!Recorded
  BY DEF NilMeansRecorded, Reported, Delivery!Recorded

LEMMA LeaseIsTyped ==
    ASSUME VInv, NEW c \in Calls, pc[c] \in {"handling", "handed"}
    PROVE  /\ delivery[c].event \in Events /\ delivery[c].token \in Tokens
           /\ fate[delivery[c].event][delivery[c].token] # "none"
  BY HoldingIsLeased DEF VInv, Holding

\* The application's word, where it is the first.
LEMMA SayingDelivers ==
    ASSUME VInv, NEW c \in Calls, NEW v \in Verdicts, pc[c] \in {"handling", "handed"}, Say(c, v),
           UNCHANGED fate, Reported' = Reported
    PROVE  [Delivery!Next]_<<fate, said, Reported>>
<1> DEFINE e == delivery[c].event
           t == delivery[c].token
<1>1. e \in Events /\ t \in Tokens /\ fate[e][t] # "none"
  BY LeaseIsTyped
<1>2. CASE said[e][t] = "none"
  <2>1. Delivery!Say(e, t, v)
    BY <1>1, <1>2 DEF Say, Delivery!Say
  <2>2. QED
    BY <1>1, <2>1 DEF Delivery!Next
<1>3. CASE said[e][t] # "none"
  BY <1>3 DEF Say
<1>4. QED
  BY <1>2, <1>3

LEMMA AnswerKeepsReports ==
    ASSUME Typed, NEW c \in Calls, NEW h \in Hands, NEW v \in Verdicts, Answer(c, h, v), Recorded
    PROVE  Reported' = Reported
<1>1. /\ hand[c][h].pc = "idle" /\ hand[c][h].ret # "ok"
      /\ Choose(c, h, v)
  BY DEF Answer, Recorded, RecordOf
<1>2. delivery[c] \in Deliveries /\ delivery \in [Calls -> Deliveries]
      /\ hand \in [Calls -> [Hands -> Answers]]
  BY DEF Typed, TypeOK
<1>3. \A d \in Calls : delivery'[d].event = delivery[d].event /\ delivery'[d].token = delivery[d].token
  <2>1. Chosen(delivery[c], v).event = delivery[c].event /\ Chosen(delivery[c], v).token = delivery[c].token
    BY <1>2 DEF Chosen, Deliveries
  <2>2. delivery' = delivery \/ delivery' = [delivery EXCEPT ![c] = Chosen(delivery[c], v)]
    BY <1>1 DEF Choose
  <2>3. QED
    BY <1>2, <2>1, <2>2
<1>4. \E l \in {"returned", "waiting", "attempt"}, r \in {"conflict", "none", "expired"} : SetHand(c, h, l, v, r)
  BY <1>1 DEF Choose
<1>5. hand'[c][h].ret # "ok" /\ \A d \in Calls, g \in Hands : d # c \/ g # h => hand'[d][g] = hand[d][g]
  BY <1>2, <1>4 DEF SetHand
<1>6. QED
  BY <1>1, <1>3, <1>5, ReportsFollow

\* Every step is one of the delivery, or reports something, or neither.
LEMMA StepDelivers ==
    VInv /\ Recorded /\ NilMeansRecorded' /\ [Next]_vars
        => [Delivery!Next]_<<fate, said, Reported>>
<1> SUFFICES ASSUME VInv, Recorded, NilMeansRecorded', [Next]_vars
             PROVE  [Delivery!Next]_<<fate, said, Reported>>
  OBVIOUS
<1>0. Typed /\ TypeOK
  BY DEF VInv, Typed
<1>1. ASSUME UNCHANGED <<fate, said>> PROVE Delivery!Next
  <2>1. Reported' \subseteq {m \in Events \X Tokens \X Verdicts : fate'[m[1]][m[2]] = m[3]}
    BY DEF NilMeansRecorded, Reported
  <2>2. Reported' \in SUBSET Delivery!Recorded
    BY <1>1, <2>1 DEF Delivery!Recorded
  <2>3. QED
    BY <1>1, <2>2 DEF Delivery!Next, Delivery!Report
<1>2. ASSUME UNCHANGED <<delivery, hand>> PROVE Reported' = Reported
  BY <1>2 DEF Reported
<1>3. ASSUME NEW c \in Calls, NEW v \in Verdicts, HandlerReturns(c, v)
      PROVE  [Delivery!Next]_<<fate, said, Reported>>
  BY <1>2, <1>3, SayingDelivers DEF HandlerReturns
<1>4. ASSUME NEW c \in Calls, NEW h \in Hands, NEW v \in Verdicts, Answer(c, h, v)
      PROVE  [Delivery!Next]_<<fate, said, Reported>>
  BY <1>0, <1>4, AnswerKeepsReports, SayingDelivers DEF Answer
<1>5. ASSUME NEW c \in Calls, NEW e \in Events, NEW t \in Tokens, Grant(c, e, t)
      PROVE  Delivery!Next
  <2>1. Delivery!Lease(e, t)
    BY <1>2, <1>5 DEF Grant, Queued, Delivery!Lease, serverOnly, handVars
  <2>2. QED
    BY <2>1 DEF Delivery!Next
<1>6. ASSUME NEW m \in sent, Record(m) PROVE Delivery!Next
  <2>1. m[1] \in Events /\ m[2] \in Tokens /\ m[3] \in Verdicts /\ said[m[1]][m[2]] = m[3]
    BY <1>0 DEF TypeOK, VInv, OnlyTheVerdict
  <2>2. Delivery!Record(m[1], m[2])
    BY <1>2, <1>6, <2>1 DEF Record, Delivery!Record, serverOnly, handVars
  <2>3. QED
    BY <2>1, <2>2 DEF Delivery!Next
<1>7. ASSUME NEW e \in Events, NEW t \in Tokens, Lapse(e, t) PROVE Delivery!Next
  <2>1. Delivery!Lapse(e, t)
    BY <1>2, <1>7 DEF Lapse, Delivery!Lapse, serverOnly, handVars
  <2>2. QED
    BY <2>1 DEF Delivery!Next
<1>8. ASSUME NEW c \in Calls, Loop(c) PROVE UNCHANGED <<fate, said>>
  BY <1>8 DEF Loop, LoopTop, Arm, Attempt, Abandon, Offered, ReceiveFails, NothingOffered, RestEnds,
              HandlerLate, End, Decide, Completed, handVars
<1>9. ASSUME NEW c \in Calls, NEW h \in Hands, Completing(c, h) PROVE UNCHANGED <<fate, said>>
  BY <1>9, AttemptMoves DEF Completing, CompleteAbandon, CompleteAnswered, CancelDelivery,
              Released, Repeated
<1>10. ASSUME NEW c \in Calls, Reserve(c) \/ CallerCancels(c) \/ Close(c) \/ ConnectFails(c)
       PROVE  UNCHANGED <<fate, said>>
  BY <1>10 DEF Reserve, CallerCancels, Close, ConnectFails, handVars
<1>11. ASSUME NEW c \in Calls, \/ Connected(c) \/ Receipt(c)
                               \/ \E kind \in {"empty", "refused", "dropped"} : OtherAnswer(c, kind)
       PROVE  UNCHANGED <<fate, said>>
  BY <1>11 DEF Connected, Receipt, OtherAnswer, serverOnly, handVars
<1>12. ASSUME NEW c \in Calls, Timer(c) \/ LeaseTimeout(c) \/ TearDown(c) \/ Closing(c)
       PROVE  UNCHANGED <<fate, said>>
  BY <1>12 DEF Timer, TimerFires, TimerCancels, LeaseTimeout, TearDown, CloseConnection, FreeSlot,
               Closing, CancelReceive, CloseReturn, handVars
<1>13. ASSUME UNCHANGED vars PROVE UNCHANGED <<fate, said>>
  BY <1>13 DEF vars
<1>14. ASSUME NEW c \in Calls, Application(c) \/ Network(c) \/ ConnectFails(c)
       PROVE  [Delivery!Next]_<<fate, said, Reported>>
  BY <1>1, <1>3, <1>4, <1>5, <1>10, <1>11, <1>14 DEF Application, Network
<1>15. ASSUME Server PROVE Delivery!Next
  BY <1>6, <1>7, <1>15 DEF Server
<1>16. QED
  BY <1>1, <1>8, <1>9, <1>12, <1>13, <1>14, <1>15 DEF Next

\* The receiver delivers what it promises (EventDelivery): for each lease the
\* server records only what the application said first, and Ack or Retry
\* report success only for what is recorded, whatever is lost, repeated,
\* late, cancelled or closed meanwhile.
THEOREM ImplementsDelivery == Spec => Delivery!Spec
<1>1. Init => Delivery!Init
  BY DEF Init, Delivery!Init, Reported, Idle
<1>2. QED
  BY <1>1, StepDelivers, VerdictsInvariance, RecordsInvariance, SuccessIsRecorded, PTL
     DEF Spec, Delivery!Spec, Delivery!vars
=============================================================================
