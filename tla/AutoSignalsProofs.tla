------------------------- MODULE AutoSignalsProofs -------------------------
(* For any number of answers and workers: renewal is exclusive; where no   *)
(* answer is refused no worker sends after an answer that waited for it;   *)
(* where one is, the delivered ones keep the lease stopped; and one refused*)
(* alone gives it back.                                                    *)
EXTENDS AutoSignals, TLAPS

(***************************************************************************)
(* A worker keeps the renewer lock from AcquireLock to ReleaseLock         *)
(* (LockKept), so the marker file names the worker that sends (MarkerKept).*)
(***************************************************************************)
Renewal == {"read", "ask", "mark", "active", "shouldSend", "post", "answer", "clearSleep",
            "clearStop", "clearExit", "sleep", "hold", "stop", "write", "unhold", "release"}

Sending == {"active", "shouldSend", "post", "answer", "clearSleep", "clearStop", "clearExit"}

LockKept == \A w \in Workers : pc[w] \in Renewal => lock = w

MarkerKept == \A w \in Workers : pc[w] \in Sending => sending = w

RoundsLeft == \A w \in Workers : pc[w] \in {"idle", "acquire"} => round[w] < MaxRounds

SInv == TypeOK /\ LockKept /\ MarkerKept /\ RoundsLeft

(***************************************************************************)
(* While nothing is refused nothing removes a stop, so one that was read   *)
(* stays.  An answer that left its wait with it and with no renewal in     *)
(* flight therefore finds every later renewal stopped, and no worker is    *)
(* past its last look at the lease (NobodyPosts).                          *)
(***************************************************************************)
NobodyRestores ==
    \A a \in Answers : pc[a] \in {"idle", "hold", "stop", "write", "unhold", "settle", "send",
                                  "done", "dead"}

HaltedIsStopped == halted # {} => Stopped

NobodyPosts ==
    halted # {} => \A w \in Workers : pc[w] \notin {"shouldSend", "post", "answer"}

QInv == SInv /\ NobodyRestores /\ HaltedIsStopped /\ NobodyPosts

(***************************************************************************)
(* What the stage of an answer tells: whether it was refused, whether its  *)
(* hold is on disk and whether the stop may be its own.                    *)
(***************************************************************************)
Releasing == {"dropHold", "othersHold", "readPending"}
Undoing == {"readStop", "pend", "held", "unlinkStop", "recheck", "putBack", "writeBack",
            "unpend"}

StageTells ==
    \A a \in Answers :
        /\ pc[a] \in Releasing \union Undoing => a \in refused
        /\ a \in refused => pc[a] \in Releasing \union Undoing \union {"done", "dead"}
        /\ a \in delivered => pc[a] = "done" /\ a \notin refused
        /\ pc[a] \in {"idle", "hold"} => a \notin holds
        /\ pc[a] = "stop" => a \in holds
        /\ pc[a] \in {"idle", "hold", "stop"} \union Releasing => ~owns[a]
        /\ owns[a] /\ pc[a] \notin {"write", "unhold", "dead"} => a \notin holds

(***************************************************************************)
(* While at most one answer was refused only the owner of a stop removes it,  *)
(* so between its look at the stop and its unlink the stop is its own, and *)
(* a stop that is not written yet is of a process that is writing it or    *)
(* was killed.                                                             *)
(***************************************************************************)
OwnStopUndone ==
    /\ \A a \in Answers :
        /\ target[a] # None => target[a] = a /\ owns[a]
        /\ pc[a] \in Undoing => target[a] # None
        /\ pc[a] \in {"pend", "held", "unlinkStop"} => stop = a
        /\ pc[a] \in {"recheck", "putBack", "unpend"} => stop # a
        /\ pc[a] = "writeBack" => stop = a
    /\ pending # None => pending \in refused /\ owns[pending]
    /\ stop \in Answers => owns[stop]
    /\ \A p \in Procs : pc[p] \in {"write", "unhold"} => stop = p
    /\ blank # None =>
          /\ stop = blank
          /\ pc[blank] \in {"write", "dead"} \/ (pc[blank] = "writeBack" /\ blank \in Answers)

(***************************************************************************)
(* An answer that goes out keeps its hold or its stop, and a restore that  *)
(* took the stop away finds the hold.                                      *)
(***************************************************************************)
Committed(d) == d \in delivered \/ pc[d] \in {"settle", "send"}

CommittedGuarded ==
    /\ \A d \in Answers : Committed(d) => d \in holds \/ stop = d
    /\ stop = None /\ (\E d \in Answers : Committed(d)) =>
          \E a \in refused : pc[a] \in {"recheck", "putBack", "dead"}

DInv == SInv /\ StageTells /\ (OneRefusal => OwnStopUndone /\ CommittedGuarded)

(***************************************************************************)
(* An answer beside which no other command answers is stopped again, when it  *)
(* is refused, only for the hold of a worker.                              *)
(***************************************************************************)
Alone(a) == \A b \in Answers \ {a} : pc[b] = "idle"

EndsWell(a) ==
    /\ pc[a] = "putBack" => stop \in Workers \/ holds \intersect Workers # {}
    /\ pc[a] = "writeBack" => holds \intersect Workers # {}
    /\ pc[a] = "done" => stop # a \/ holds \intersect Workers # {}

LoneRestore == \A a \in refused : Alone(a) => EndsWell(a)

-----------------------------------------------------------------------------
\* Every file operation keeps the lock, the marker and the rounds.
LEMMA SStep == ASSUME SInv, Next PROVE SInv'
<1> USE ProcsAssumption, MaxRoundsAssumption DEF Procs, At, Goto, files, seenBySender
<1>1. ASSUME NEW p \in Procs, WriteHold(p) PROVE SInv'
  <2>1. TypeOK'
    BY <1>1 DEF SInv, WriteHold, TypeOK, AnswerStages, WorkerStages, RoundsLeft
  <2>2. LockKept'
    BY <1>1 DEF SInv, WriteHold, TypeOK, AnswerStages, WorkerStages, LockKept, Renewal
  <2>3. MarkerKept'
    BY <1>1 DEF SInv, WriteHold, TypeOK, AnswerStages, WorkerStages, MarkerKept, Sending, LockKept,
       Renewal
  <2>4. RoundsLeft'
    BY <1>1 DEF SInv, WriteHold, TypeOK, AnswerStages, WorkerStages, RoundsLeft
  <2>5. QED
    BY <2>1, <2>2, <2>3, <2>4 DEF SInv
<1>2. ASSUME NEW p \in Procs, CreateStop(p) PROVE SInv'
  <2>1. TypeOK'
    BY <1>2 DEF SInv, CreateStop, TypeOK, AnswerStages, WorkerStages, RoundsLeft
  <2>2. LockKept'
    BY <1>2 DEF SInv, CreateStop, TypeOK, AnswerStages, WorkerStages, LockKept, Renewal
  <2>3. MarkerKept'
    BY <1>2 DEF SInv, CreateStop, TypeOK, AnswerStages, WorkerStages, MarkerKept, Sending, LockKept,
       Renewal
  <2>4. RoundsLeft'
    BY <1>2 DEF SInv, CreateStop, TypeOK, AnswerStages, WorkerStages, RoundsLeft
  <2>5. QED
    BY <2>1, <2>2, <2>3, <2>4 DEF SInv
<1>3. ASSUME NEW p \in Procs, WriteStop(p) PROVE SInv'
  <2>1. TypeOK'
    BY <1>3 DEF SInv, WriteStop, Write, AfterStop, TypeOK, AnswerStages, WorkerStages, RoundsLeft
  <2>2. LockKept'
    BY <1>3 DEF SInv, WriteStop, Write, AfterStop, TypeOK, AnswerStages, WorkerStages, LockKept,
       Renewal
  <2>3. MarkerKept'
    BY <1>3 DEF SInv, WriteStop, Write, AfterStop, TypeOK, AnswerStages, WorkerStages, MarkerKept,
       Sending, LockKept, Renewal
  <2>4. RoundsLeft'
    BY <1>3 DEF SInv, WriteStop, Write, AfterStop, TypeOK, AnswerStages, WorkerStages, RoundsLeft
  <2>5. QED
    BY <2>1, <2>2, <2>3, <2>4 DEF SInv
<1>4. ASSUME NEW p \in Procs, HoldStop(p) PROVE SInv'
  <2>1. TypeOK'
    BY <1>4 DEF SInv, HoldStop, AfterStop, TypeOK, AnswerStages, WorkerStages, RoundsLeft
  <2>2. LockKept'
    BY <1>4 DEF SInv, HoldStop, AfterStop, TypeOK, AnswerStages, WorkerStages, LockKept, Renewal
  <2>3. MarkerKept'
    BY <1>4 DEF SInv, HoldStop, AfterStop, TypeOK, AnswerStages, WorkerStages, MarkerKept, Sending,
       LockKept, Renewal
  <2>4. RoundsLeft'
    BY <1>4 DEF SInv, HoldStop, AfterStop, TypeOK, AnswerStages, WorkerStages, RoundsLeft
  <2>5. QED
    BY <2>1, <2>2, <2>3, <2>4 DEF SInv
<1>5. ASSUME NEW p \in Procs, RemoveHold(p) PROVE SInv'
  <2>1. TypeOK'
    BY <1>5 DEF SInv, RemoveHold, AfterStop, TypeOK, AnswerStages, WorkerStages, RoundsLeft
  <2>2. LockKept'
    BY <1>5 DEF SInv, RemoveHold, AfterStop, TypeOK, AnswerStages, WorkerStages, LockKept, Renewal
  <2>3. MarkerKept'
    BY <1>5 DEF SInv, RemoveHold, AfterStop, TypeOK, AnswerStages, WorkerStages, MarkerKept,
       Sending, LockKept, Renewal
  <2>4. RoundsLeft'
    BY <1>5 DEF SInv, RemoveHold, AfterStop, TypeOK, AnswerStages, WorkerStages, RoundsLeft
  <2>5. QED
    BY <2>1, <2>2, <2>3, <2>4 DEF SInv
<1>6. ASSUME NEW a \in Answers, Halt(a) PROVE SInv'
  <2>1. TypeOK'
    BY <1>6 DEF SInv, Halt, TypeOK, AnswerStages, WorkerStages, RoundsLeft
  <2>2. LockKept'
    BY <1>6 DEF SInv, Halt, TypeOK, AnswerStages, WorkerStages, LockKept, Renewal
  <2>3. MarkerKept'
    BY <1>6 DEF SInv, Halt, TypeOK, AnswerStages, WorkerStages, MarkerKept, Sending, LockKept,
       Renewal
  <2>4. RoundsLeft'
    BY <1>6 DEF SInv, Halt, TypeOK, AnswerStages, WorkerStages, RoundsLeft
  <2>5. QED
    BY <2>1, <2>2, <2>3, <2>4 DEF SInv
<1>7. ASSUME NEW a \in Answers, Settle(a) PROVE SInv'
  <2>1. TypeOK'
    BY <1>7 DEF SInv, Settle, LeaveSettle, SendingInFlight, Stopped, TypeOK, AnswerStages,
       WorkerStages, RoundsLeft
  <2>2. LockKept'
    BY <1>7 DEF SInv, Settle, LeaveSettle, SendingInFlight, Stopped, TypeOK, AnswerStages,
       WorkerStages, LockKept, Renewal
  <2>3. MarkerKept'
    BY <1>7 DEF SInv, Settle, LeaveSettle, SendingInFlight, Stopped, TypeOK, AnswerStages,
       WorkerStages, MarkerKept, Sending, LockKept, Renewal
  <2>4. RoundsLeft'
    BY <1>7 DEF SInv, Settle, LeaveSettle, SendingInFlight, Stopped, TypeOK, AnswerStages,
       WorkerStages, RoundsLeft
  <2>5. QED
    BY <2>1, <2>2, <2>3, <2>4 DEF SInv
<1>8. ASSUME NEW a \in Answers, GiveUpWaiting(a) PROVE SInv'
  <2>1. TypeOK'
    BY <1>8 DEF SInv, GiveUpWaiting, TypeOK, AnswerStages, WorkerStages, RoundsLeft
  <2>2. LockKept'
    BY <1>8 DEF SInv, GiveUpWaiting, TypeOK, AnswerStages, WorkerStages, LockKept, Renewal
  <2>3. MarkerKept'
    BY <1>8 DEF SInv, GiveUpWaiting, TypeOK, AnswerStages, WorkerStages, MarkerKept, Sending,
       LockKept, Renewal
  <2>4. RoundsLeft'
    BY <1>8 DEF SInv, GiveUpWaiting, TypeOK, AnswerStages, WorkerStages, RoundsLeft
  <2>5. QED
    BY <2>1, <2>2, <2>3, <2>4 DEF SInv
<1>9. ASSUME NEW a \in Answers, Delivered(a) PROVE SInv'
  <2>1. TypeOK'
    BY <1>9 DEF SInv, Delivered, TypeOK, AnswerStages, WorkerStages, RoundsLeft
  <2>2. LockKept'
    BY <1>9 DEF SInv, Delivered, TypeOK, AnswerStages, WorkerStages, LockKept, Renewal
  <2>3. MarkerKept'
    BY <1>9 DEF SInv, Delivered, TypeOK, AnswerStages, WorkerStages, MarkerKept, Sending, LockKept,
       Renewal
  <2>4. RoundsLeft'
    BY <1>9 DEF SInv, Delivered, TypeOK, AnswerStages, WorkerStages, RoundsLeft
  <2>5. QED
    BY <2>1, <2>2, <2>3, <2>4 DEF SInv
<1>10. ASSUME NEW a \in Answers, Refused(a) PROVE SInv'
  <2>1. TypeOK'
    BY <1>10 DEF SInv, Refused, TypeOK, AnswerStages, WorkerStages, RoundsLeft
  <2>2. LockKept'
    BY <1>10 DEF SInv, Refused, TypeOK, AnswerStages, WorkerStages, LockKept, Renewal
  <2>3. MarkerKept'
    BY <1>10 DEF SInv, Refused, TypeOK, AnswerStages, WorkerStages, MarkerKept, Sending, LockKept,
       Renewal
  <2>4. RoundsLeft'
    BY <1>10 DEF SInv, Refused, TypeOK, AnswerStages, WorkerStages, RoundsLeft
  <2>5. QED
    BY <2>1, <2>2, <2>3, <2>4 DEF SInv
<1>11. ASSUME NEW a \in Answers, DropHold(a) PROVE SInv'
  <2>1. TypeOK'
    BY <1>11 DEF SInv, DropHold, TypeOK, AnswerStages, WorkerStages, RoundsLeft
  <2>2. LockKept'
    BY <1>11 DEF SInv, DropHold, TypeOK, AnswerStages, WorkerStages, LockKept, Renewal
  <2>3. MarkerKept'
    BY <1>11 DEF SInv, DropHold, TypeOK, AnswerStages, WorkerStages, MarkerKept, Sending, LockKept,
       Renewal
  <2>4. RoundsLeft'
    BY <1>11 DEF SInv, DropHold, TypeOK, AnswerStages, WorkerStages, RoundsLeft
  <2>5. QED
    BY <2>1, <2>2, <2>3, <2>4 DEF SInv
<1>12. ASSUME NEW a \in Answers, OthersHold(a) PROVE SInv'
  <2>1. TypeOK'
    BY <1>12 DEF SInv, OthersHold, TypeOK, AnswerStages, WorkerStages, RoundsLeft
  <2>2. LockKept'
    BY <1>12 DEF SInv, OthersHold, TypeOK, AnswerStages, WorkerStages, LockKept, Renewal
  <2>3. MarkerKept'
    BY <1>12 DEF SInv, OthersHold, TypeOK, AnswerStages, WorkerStages, MarkerKept, Sending,
       LockKept, Renewal
  <2>4. RoundsLeft'
    BY <1>12 DEF SInv, OthersHold, TypeOK, AnswerStages, WorkerStages, RoundsLeft
  <2>5. QED
    BY <2>1, <2>2, <2>3, <2>4 DEF SInv
<1>13. ASSUME NEW a \in Answers, ReadPending(a) PROVE SInv'
  <2>1. TypeOK'
    BY <1>13 DEF SInv, ReadPending, TypeOK, AnswerStages, WorkerStages, RoundsLeft
  <2>2. LockKept'
    BY <1>13 DEF SInv, ReadPending, TypeOK, AnswerStages, WorkerStages, LockKept, Renewal
  <2>3. MarkerKept'
    BY <1>13 DEF SInv, ReadPending, TypeOK, AnswerStages, WorkerStages, MarkerKept, Sending,
       LockKept, Renewal
  <2>4. RoundsLeft'
    BY <1>13 DEF SInv, ReadPending, TypeOK, AnswerStages, WorkerStages, RoundsLeft
  <2>5. QED
    BY <2>1, <2>2, <2>3, <2>4 DEF SInv
<1>14. ASSUME NEW a \in Answers, ReadStop(a) PROVE SInv'
  <2>1. TypeOK'
    BY <1>14 DEF SInv, ReadStop, Stopped, TypeOK, AnswerStages, WorkerStages, RoundsLeft
  <2>2. LockKept'
    BY <1>14 DEF SInv, ReadStop, Stopped, TypeOK, AnswerStages, WorkerStages, LockKept, Renewal
  <2>3. MarkerKept'
    BY <1>14 DEF SInv, ReadStop, Stopped, TypeOK, AnswerStages, WorkerStages, MarkerKept, Sending,
       LockKept, Renewal
  <2>4. RoundsLeft'
    BY <1>14 DEF SInv, ReadStop, Stopped, TypeOK, AnswerStages, WorkerStages, RoundsLeft
  <2>5. QED
    BY <2>1, <2>2, <2>3, <2>4 DEF SInv
<1>15. ASSUME NEW a \in Answers, WritePending(a) PROVE SInv'
  <2>1. TypeOK'
    BY <1>15 DEF SInv, WritePending, TypeOK, AnswerStages, WorkerStages, RoundsLeft
  <2>2. LockKept'
    BY <1>15 DEF SInv, WritePending, TypeOK, AnswerStages, WorkerStages, LockKept, Renewal
  <2>3. MarkerKept'
    BY <1>15 DEF SInv, WritePending, TypeOK, AnswerStages, WorkerStages, MarkerKept, Sending,
       LockKept, Renewal
  <2>4. RoundsLeft'
    BY <1>15 DEF SInv, WritePending, TypeOK, AnswerStages, WorkerStages, RoundsLeft
  <2>5. QED
    BY <2>1, <2>2, <2>3, <2>4 DEF SInv
<1>16. ASSUME NEW a \in Answers, StopHeld(a) PROVE SInv'
  <2>1. TypeOK'
    BY <1>16 DEF SInv, StopHeld, TypeOK, AnswerStages, WorkerStages, RoundsLeft
  <2>2. LockKept'
    BY <1>16 DEF SInv, StopHeld, TypeOK, AnswerStages, WorkerStages, LockKept, Renewal
  <2>3. MarkerKept'
    BY <1>16 DEF SInv, StopHeld, TypeOK, AnswerStages, WorkerStages, MarkerKept, Sending, LockKept,
       Renewal
  <2>4. RoundsLeft'
    BY <1>16 DEF SInv, StopHeld, TypeOK, AnswerStages, WorkerStages, RoundsLeft
  <2>5. QED
    BY <2>1, <2>2, <2>3, <2>4 DEF SInv
<1>17. ASSUME NEW a \in Answers, UnlinkStop(a) PROVE SInv'
  <2>1. TypeOK'
    BY <1>17 DEF SInv, UnlinkStop, TypeOK, AnswerStages, WorkerStages, RoundsLeft
  <2>2. LockKept'
    BY <1>17 DEF SInv, UnlinkStop, TypeOK, AnswerStages, WorkerStages, LockKept, Renewal
  <2>3. MarkerKept'
    BY <1>17 DEF SInv, UnlinkStop, TypeOK, AnswerStages, WorkerStages, MarkerKept, Sending,
       LockKept, Renewal
  <2>4. RoundsLeft'
    BY <1>17 DEF SInv, UnlinkStop, TypeOK, AnswerStages, WorkerStages, RoundsLeft
  <2>5. QED
    BY <2>1, <2>2, <2>3, <2>4 DEF SInv
<1>18. ASSUME NEW a \in Answers, Recheck(a) PROVE SInv'
  <2>1. TypeOK'
    BY <1>18 DEF SInv, Recheck, TypeOK, AnswerStages, WorkerStages, RoundsLeft
  <2>2. LockKept'
    BY <1>18 DEF SInv, Recheck, TypeOK, AnswerStages, WorkerStages, LockKept, Renewal
  <2>3. MarkerKept'
    BY <1>18 DEF SInv, Recheck, TypeOK, AnswerStages, WorkerStages, MarkerKept, Sending, LockKept,
       Renewal
  <2>4. RoundsLeft'
    BY <1>18 DEF SInv, Recheck, TypeOK, AnswerStages, WorkerStages, RoundsLeft
  <2>5. QED
    BY <2>1, <2>2, <2>3, <2>4 DEF SInv
<1>19. ASSUME NEW a \in Answers, PutBack(a) PROVE SInv'
  <2>1. TypeOK'
    BY <1>19 DEF SInv, PutBack, TypeOK, AnswerStages, WorkerStages, RoundsLeft
  <2>2. LockKept'
    BY <1>19 DEF SInv, PutBack, TypeOK, AnswerStages, WorkerStages, LockKept, Renewal
  <2>3. MarkerKept'
    BY <1>19 DEF SInv, PutBack, TypeOK, AnswerStages, WorkerStages, MarkerKept, Sending, LockKept,
       Renewal
  <2>4. RoundsLeft'
    BY <1>19 DEF SInv, PutBack, TypeOK, AnswerStages, WorkerStages, RoundsLeft
  <2>5. QED
    BY <2>1, <2>2, <2>3, <2>4 DEF SInv
<1>20. ASSUME NEW a \in Answers, WriteBack(a) PROVE SInv'
  <2>1. TypeOK'
    BY <1>20 DEF SInv, WriteBack, Write, TypeOK, AnswerStages, WorkerStages, RoundsLeft
  <2>2. LockKept'
    BY <1>20 DEF SInv, WriteBack, Write, TypeOK, AnswerStages, WorkerStages, LockKept, Renewal
  <2>3. MarkerKept'
    BY <1>20 DEF SInv, WriteBack, Write, TypeOK, AnswerStages, WorkerStages, MarkerKept, Sending,
       LockKept, Renewal
  <2>4. RoundsLeft'
    BY <1>20 DEF SInv, WriteBack, Write, TypeOK, AnswerStages, WorkerStages, RoundsLeft
  <2>5. QED
    BY <2>1, <2>2, <2>3, <2>4 DEF SInv
<1>21. ASSUME NEW a \in Answers, RemovePending(a) PROVE SInv'
  <2>1. TypeOK'
    BY <1>21 DEF SInv, RemovePending, TypeOK, AnswerStages, WorkerStages, RoundsLeft
  <2>2. LockKept'
    BY <1>21 DEF SInv, RemovePending, TypeOK, AnswerStages, WorkerStages, LockKept, Renewal
  <2>3. MarkerKept'
    BY <1>21 DEF SInv, RemovePending, TypeOK, AnswerStages, WorkerStages, MarkerKept, Sending,
       LockKept, Renewal
  <2>4. RoundsLeft'
    BY <1>21 DEF SInv, RemovePending, TypeOK, AnswerStages, WorkerStages, RoundsLeft
  <2>5. QED
    BY <2>1, <2>2, <2>3, <2>4 DEF SInv
<1>22. ASSUME NEW w \in Workers, StartWorker(w) PROVE SInv'
  <2>1. TypeOK'
    BY <1>22 DEF SInv, StartWorker, TypeOK, AnswerStages, WorkerStages, RoundsLeft
  <2>2. LockKept'
    BY <1>22 DEF SInv, StartWorker, TypeOK, AnswerStages, WorkerStages, LockKept, Renewal
  <2>3. MarkerKept'
    BY <1>22 DEF SInv, StartWorker, TypeOK, AnswerStages, WorkerStages, MarkerKept, Sending,
       LockKept, Renewal
  <2>4. RoundsLeft'
    BY <1>22 DEF SInv, StartWorker, TypeOK, AnswerStages, WorkerStages, RoundsLeft
  <2>5. QED
    BY <2>1, <2>2, <2>3, <2>4 DEF SInv
<1>23. ASSUME NEW w \in Workers, AcquireLock(w) PROVE SInv'
  <2>1. TypeOK'
    BY <1>23 DEF SInv, AcquireLock, TypeOK, AnswerStages, WorkerStages, RoundsLeft
  <2>2. LockKept'
    BY <1>23 DEF SInv, AcquireLock, TypeOK, AnswerStages, WorkerStages, LockKept, Renewal
  <2>3. MarkerKept'
    BY <1>23 DEF SInv, AcquireLock, TypeOK, AnswerStages, WorkerStages, MarkerKept, Sending,
       LockKept, Renewal
  <2>4. RoundsLeft'
    BY <1>23 DEF SInv, AcquireLock, TypeOK, AnswerStages, WorkerStages, RoundsLeft
  <2>5. QED
    BY <2>1, <2>2, <2>3, <2>4 DEF SInv
<1>24. ASSUME NEW w \in Workers, ReadLease(w) PROVE SInv'
  <2>1. TypeOK'
    BY <1>24 DEF SInv, ReadLease, Stopped, TypeOK, AnswerStages, WorkerStages, RoundsLeft
  <2>2. LockKept'
    BY <1>24 DEF SInv, ReadLease, Stopped, TypeOK, AnswerStages, WorkerStages, LockKept, Renewal
  <2>3. MarkerKept'
    BY <1>24 DEF SInv, ReadLease, Stopped, TypeOK, AnswerStages, WorkerStages, MarkerKept, Sending,
       LockKept, Renewal
  <2>4. RoundsLeft'
    BY <1>24 DEF SInv, ReadLease, Stopped, TypeOK, AnswerStages, WorkerStages, RoundsLeft
  <2>5. QED
    BY <2>1, <2>2, <2>3, <2>4 DEF SInv
<1>25. ASSUME NEW w \in Workers, AskAnswered(w) PROVE SInv'
  <2>1. TypeOK'
    BY <1>25 DEF SInv, AskAnswered, TypeOK, AnswerStages, WorkerStages, RoundsLeft
  <2>2. LockKept'
    BY <1>25 DEF SInv, AskAnswered, TypeOK, AnswerStages, WorkerStages, LockKept, Renewal
  <2>3. MarkerKept'
    BY <1>25 DEF SInv, AskAnswered, TypeOK, AnswerStages, WorkerStages, MarkerKept, Sending,
       LockKept, Renewal
  <2>4. RoundsLeft'
    BY <1>25 DEF SInv, AskAnswered, TypeOK, AnswerStages, WorkerStages, RoundsLeft
  <2>5. QED
    BY <2>1, <2>2, <2>3, <2>4 DEF SInv
<1>26. ASSUME NEW w \in Workers, MarkSending(w) PROVE SInv'
  <2>1. TypeOK'
    BY <1>26 DEF SInv, MarkSending, TypeOK, AnswerStages, WorkerStages, RoundsLeft
  <2>2. LockKept'
    BY <1>26 DEF SInv, MarkSending, TypeOK, AnswerStages, WorkerStages, LockKept, Renewal
  <2>3. MarkerKept'
    BY <1>26 DEF SInv, MarkSending, TypeOK, AnswerStages, WorkerStages, MarkerKept, Sending,
       LockKept, Renewal
  <2>4. RoundsLeft'
    BY <1>26 DEF SInv, MarkSending, TypeOK, AnswerStages, WorkerStages, RoundsLeft
  <2>5. QED
    BY <2>1, <2>2, <2>3, <2>4 DEF SInv
<1>27. ASSUME NEW w \in Workers, CheckActive(w) PROVE SInv'
  <2>1. TypeOK'
    BY <1>27 DEF SInv, CheckActive, Stopped, TypeOK, AnswerStages, WorkerStages, RoundsLeft
  <2>2. LockKept'
    BY <1>27 DEF SInv, CheckActive, Stopped, TypeOK, AnswerStages, WorkerStages, LockKept, Renewal
  <2>3. MarkerKept'
    BY <1>27 DEF SInv, CheckActive, Stopped, TypeOK, AnswerStages, WorkerStages, MarkerKept,
       Sending, LockKept, Renewal
  <2>4. RoundsLeft'
    BY <1>27 DEF SInv, CheckActive, Stopped, TypeOK, AnswerStages, WorkerStages, RoundsLeft
  <2>5. QED
    BY <2>1, <2>2, <2>3, <2>4 DEF SInv
<1>28. ASSUME NEW w \in Workers, ShouldSend(w) PROVE SInv'
  <2>1. TypeOK'
    BY <1>28 DEF SInv, ShouldSend, Stopped, TypeOK, AnswerStages, WorkerStages, RoundsLeft
  <2>2. LockKept'
    BY <1>28 DEF SInv, ShouldSend, Stopped, TypeOK, AnswerStages, WorkerStages, LockKept, Renewal
  <2>3. MarkerKept'
    BY <1>28 DEF SInv, ShouldSend, Stopped, TypeOK, AnswerStages, WorkerStages, MarkerKept, Sending,
       LockKept, Renewal
  <2>4. RoundsLeft'
    BY <1>28 DEF SInv, ShouldSend, Stopped, TypeOK, AnswerStages, WorkerStages, RoundsLeft
  <2>5. QED
    BY <2>1, <2>2, <2>3, <2>4 DEF SInv
<1>29. ASSUME NEW w \in Workers, PostSignal(w) PROVE SInv'
  <2>1. TypeOK'
    BY <1>29 DEF SInv, PostSignal, TypeOK, AnswerStages, WorkerStages, RoundsLeft
  <2>2. LockKept'
    BY <1>29 DEF SInv, PostSignal, TypeOK, AnswerStages, WorkerStages, LockKept, Renewal
  <2>3. MarkerKept'
    BY <1>29 DEF SInv, PostSignal, TypeOK, AnswerStages, WorkerStages, MarkerKept, Sending,
       LockKept, Renewal
  <2>4. RoundsLeft'
    BY <1>29 DEF SInv, PostSignal, TypeOK, AnswerStages, WorkerStages, RoundsLeft
  <2>5. QED
    BY <2>1, <2>2, <2>3, <2>4 DEF SInv
<1>30. ASSUME NEW w \in Workers, SignalAnswered(w) PROVE SInv'
  <2>1. TypeOK'
    BY <1>30 DEF SInv, SignalAnswered, TypeOK, AnswerStages, WorkerStages, RoundsLeft
  <2>2. LockKept'
    BY <1>30 DEF SInv, SignalAnswered, TypeOK, AnswerStages, WorkerStages, LockKept, Renewal
  <2>3. MarkerKept'
    BY <1>30 DEF SInv, SignalAnswered, TypeOK, AnswerStages, WorkerStages, MarkerKept, Sending,
       LockKept, Renewal
  <2>4. RoundsLeft'
    BY <1>30 DEF SInv, SignalAnswered, TypeOK, AnswerStages, WorkerStages, RoundsLeft
  <2>5. QED
    BY <2>1, <2>2, <2>3, <2>4 DEF SInv
<1>31. ASSUME NEW w \in Workers, ClearSending(w) PROVE SInv'
  <2>1. TypeOK'
    BY <1>31 DEF SInv, ClearSending, AfterSending, TypeOK, AnswerStages, WorkerStages, RoundsLeft
  <2>2. LockKept'
    BY <1>31 DEF SInv, ClearSending, AfterSending, TypeOK, AnswerStages, WorkerStages, LockKept,
       Renewal
  <2>3. MarkerKept'
    BY <1>31 DEF SInv, ClearSending, AfterSending, TypeOK, AnswerStages, WorkerStages, MarkerKept,
       Sending, LockKept, Renewal
  <2>4. RoundsLeft'
    BY <1>31 DEF SInv, ClearSending, AfterSending, TypeOK, AnswerStages, WorkerStages, RoundsLeft
  <2>5. QED
    BY <2>1, <2>2, <2>3, <2>4 DEF SInv
<1>32. ASSUME NEW w \in Workers, Sleep(w) PROVE SInv'
  <2>1. TypeOK'
    BY <1>32 DEF SInv, Sleep, Stopped, TypeOK, AnswerStages, WorkerStages, RoundsLeft
  <2>2. LockKept'
    BY <1>32 DEF SInv, Sleep, Stopped, TypeOK, AnswerStages, WorkerStages, LockKept, Renewal
  <2>3. MarkerKept'
    BY <1>32 DEF SInv, Sleep, Stopped, TypeOK, AnswerStages, WorkerStages, MarkerKept, Sending,
       LockKept, Renewal
  <2>4. RoundsLeft'
    BY <1>32 DEF SInv, Sleep, Stopped, TypeOK, AnswerStages, WorkerStages, RoundsLeft
  <2>5. QED
    BY <2>1, <2>2, <2>3, <2>4 DEF SInv
<1>33. ASSUME NEW w \in Workers, ReleaseLock(w) PROVE SInv'
  <2>1. TypeOK'
    BY <1>33 DEF SInv, ReleaseLock, TypeOK, AnswerStages, WorkerStages, RoundsLeft
  <2>2. LockKept'
    BY <1>33 DEF SInv, ReleaseLock, TypeOK, AnswerStages, WorkerStages, LockKept, Renewal
  <2>3. MarkerKept'
    BY <1>33 DEF SInv, ReleaseLock, TypeOK, AnswerStages, WorkerStages, MarkerKept, Sending,
       LockKept, Renewal
  <2>4. RoundsLeft'
    BY <1>33 DEF SInv, ReleaseLock, TypeOK, AnswerStages, WorkerStages, RoundsLeft
  <2>5. QED
    BY <2>1, <2>2, <2>3, <2>4 DEF SInv
<1>34. ASSUME NEW w \in Workers, CheckAgain(w) PROVE SInv'
  <2>1. TypeOK'
    BY <1>34 DEF SInv, CheckAgain, Stopped, TypeOK, AnswerStages, WorkerStages, RoundsLeft
  <2>2. LockKept'
    BY <1>34 DEF SInv, CheckAgain, Stopped, TypeOK, AnswerStages, WorkerStages, LockKept, Renewal
  <2>3. MarkerKept'
    BY <1>34 DEF SInv, CheckAgain, Stopped, TypeOK, AnswerStages, WorkerStages, MarkerKept, Sending,
       LockKept, Renewal
  <2>4. RoundsLeft'
    BY <1>34 DEF SInv, CheckAgain, Stopped, TypeOK, AnswerStages, WorkerStages, RoundsLeft
  <2>5. QED
    BY <2>1, <2>2, <2>3, <2>4 DEF SInv
<1>35. ASSUME NEW w \in Workers, Lands(w) PROVE SInv'
  <2>1. TypeOK'
    BY <1>35 DEF SInv, Lands, TypeOK, AnswerStages, WorkerStages, RoundsLeft
  <2>2. LockKept'
    BY <1>35 DEF SInv, Lands, TypeOK, AnswerStages, WorkerStages, LockKept, Renewal
  <2>3. MarkerKept'
    BY <1>35 DEF SInv, Lands, TypeOK, AnswerStages, WorkerStages, MarkerKept, Sending, LockKept,
       Renewal
  <2>4. RoundsLeft'
    BY <1>35 DEF SInv, Lands, TypeOK, AnswerStages, WorkerStages, RoundsLeft
  <2>5. QED
    BY <2>1, <2>2, <2>3, <2>4 DEF SInv
<1>36. ASSUME NEW p \in Procs, Die(p) PROVE SInv'
  <2>1. TypeOK'
    BY <1>36 DEF SInv, Die, TypeOK, AnswerStages, WorkerStages, RoundsLeft
  <2>2. LockKept'
    BY <1>36 DEF SInv, Die, TypeOK, AnswerStages, WorkerStages, LockKept, Renewal
  <2>3. MarkerKept'
    BY <1>36 DEF SInv, Die, TypeOK, AnswerStages, WorkerStages, MarkerKept, Sending, LockKept,
       Renewal
  <2>4. RoundsLeft'
    BY <1>36 DEF SInv, Die, TypeOK, AnswerStages, WorkerStages, RoundsLeft
  <2>5. QED
    BY <2>1, <2>2, <2>3, <2>4 DEF SInv
<1>37. QED
  BY <1>1, <1>2, <1>3, <1>4, <1>5, <1>6, <1>7, <1>8, <1>9, <1>10, <1>11, <1>12, <1>13, <1>14, <1>15,
     <1>16, <1>17, <1>18, <1>19, <1>20, <1>21, <1>22, <1>23, <1>24, <1>25, <1>26, <1>27, <1>28,
     <1>29, <1>30, <1>31, <1>32, <1>33, <1>34, <1>35, <1>36
     DEF Next, AnswerStep, WorkerStep, Stopping, Restoring, Renewing

\* No process has begun.
LEMMA InitSInv == Init => SInv
<1> SUFFICES ASSUME Init PROVE SInv
  OBVIOUS
<1>1. \A p \in Procs : pc[p] = "idle"
  BY DEF Init
<1>2. TypeOK
  <2>1. pc \in [Procs -> AnswerStages \union WorkerStages]
    BY DEF Init, AnswerStages, WorkerStages
  <2>2. round \in [Workers -> 0..MaxRounds]
    BY MaxRoundsAssumption DEF Init
  <2>3. QED
    BY <2>1, <2>2 DEF Init, TypeOK
<1>3. LockKept /\ MarkerKept
  BY <1>1 DEF LockKept, MarkerKept, Renewal, Sending, Procs
<1>4. RoundsLeft
  BY MaxRoundsAssumption DEF Init, RoundsLeft
<1>5. QED
  BY <1>2, <1>3, <1>4 DEF SInv

\* The invariant of all runs.
LEMMA SInvariance == Spec => []SInv
<1>1. SInv /\ UNCHANGED vars => SInv'
  BY DEF vars, files, seenBySender, SInv, TypeOK, LockKept, MarkerKept, RoundsLeft
<1>2. QED
  BY <1>1, InitSInv, SStep, PTL DEF Spec

\* The files and stages of every run have their types.
THEOREM SignalTypesCorrect == Spec => []TypeOK
<1>1. SInv => TypeOK
  BY DEF SInv
<1>2. QED
  BY <1>1, SInvariance, PTL

\* At most one process renews an email's working signal.
THEOREM RenewalIsExclusive == Spec => []OneRenewer
<1>1. SInv => OneRenewer
  BY DEF SInv, LockKept, OneRenewer, Renewal
<1>2. QED
  BY <1>1, SInvariance, PTL

-----------------------------------------------------------------------------
\* A refusal is never forgotten.
LEMMA RefusalsAreKept == ASSUME Next PROVE refused \subseteq refused'
  BY DEF Next, AnswerStep, WorkerStep, Stopping, Restoring, Renewing, files, seenBySender,
     LeaveSettle, WriteHold, CreateStop, WriteStop, HoldStop, RemoveHold, Halt, Settle,
     GiveUpWaiting, Delivered, Refused, DropHold, OthersHold, ReadPending, ReadStop, WritePending,
     StopHeld, UnlinkStop, Recheck, PutBack, WriteBack, RemovePending, StartWorker, AcquireLock,
     ReadLease, AskAnswered, MarkSending, CheckActive, ShouldSend, PostSignal, SignalAnswered,
     ClearSending, Sleep, ReleaseLock, CheckAgain, Lands, Die

\* While no answer is refused every operation keeps a stop that was read, and
\* no worker gets past it.
LEMMA QStep == ASSUME refused' = {}, QInv, Next PROVE QInv'
<1> USE ProcsAssumption, MaxRoundsAssumption DEF Procs, At, Goto, files, seenBySender
<1>1. ASSUME NEW p \in Procs, WriteHold(p) PROVE QInv'
  <2>1. SInv'
    BY SStep DEF QInv
  <2>2. NobodyRestores'
    BY <1>1 DEF QInv, WriteHold, SInv, TypeOK, NobodyRestores
  <2>3. HaltedIsStopped'
    BY <1>1 DEF QInv, WriteHold, SInv, TypeOK, NobodyRestores, HaltedIsStopped, Stopped
  <2>4. NobodyPosts'
    BY <1>1 DEF QInv, WriteHold, SInv, TypeOK, NobodyRestores, HaltedIsStopped, NobodyPosts, Stopped
  <2>5. QED
    BY <2>1, <2>2, <2>3, <2>4 DEF QInv
<1>2. ASSUME NEW p \in Procs, CreateStop(p) PROVE QInv'
  <2>1. SInv'
    BY SStep DEF QInv
  <2>2. NobodyRestores'
    BY <1>2 DEF QInv, CreateStop, SInv, TypeOK, NobodyRestores
  <2>3. HaltedIsStopped'
    BY <1>2 DEF QInv, CreateStop, SInv, TypeOK, NobodyRestores, HaltedIsStopped, Stopped
  <2>4. NobodyPosts'
    BY <1>2 DEF QInv, CreateStop, SInv, TypeOK, NobodyRestores, HaltedIsStopped, NobodyPosts,
       Stopped
  <2>5. QED
    BY <2>1, <2>2, <2>3, <2>4 DEF QInv
<1>3. ASSUME NEW p \in Procs, WriteStop(p) PROVE QInv'
  <2>1. SInv'
    BY SStep DEF QInv
  <2>2. NobodyRestores'
    BY <1>3 DEF QInv, WriteStop, Write, AfterStop, SInv, TypeOK, NobodyRestores
  <2>3. HaltedIsStopped'
    BY <1>3 DEF QInv, WriteStop, Write, AfterStop, SInv, TypeOK, NobodyRestores, HaltedIsStopped,
       Stopped
  <2>4. NobodyPosts'
    BY <1>3 DEF QInv, WriteStop, Write, AfterStop, SInv, TypeOK, NobodyRestores, HaltedIsStopped,
       NobodyPosts, Stopped
  <2>5. QED
    BY <2>1, <2>2, <2>3, <2>4 DEF QInv
<1>4. ASSUME NEW p \in Procs, HoldStop(p) PROVE QInv'
  <2>1. SInv'
    BY SStep DEF QInv
  <2>2. NobodyRestores'
    BY <1>4 DEF QInv, HoldStop, AfterStop, SInv, TypeOK, NobodyRestores
  <2>3. HaltedIsStopped'
    BY <1>4 DEF QInv, HoldStop, AfterStop, SInv, TypeOK, NobodyRestores, HaltedIsStopped, Stopped
  <2>4. NobodyPosts'
    BY <1>4 DEF QInv, HoldStop, AfterStop, SInv, TypeOK, NobodyRestores, HaltedIsStopped,
       NobodyPosts, Stopped
  <2>5. QED
    BY <2>1, <2>2, <2>3, <2>4 DEF QInv
<1>5. ASSUME NEW p \in Procs, RemoveHold(p) PROVE QInv'
  <2>1. SInv'
    BY SStep DEF QInv
  <2>2. NobodyRestores'
    BY <1>5 DEF QInv, RemoveHold, AfterStop, SInv, TypeOK, NobodyRestores
  <2>3. HaltedIsStopped'
    BY <1>5 DEF QInv, RemoveHold, AfterStop, SInv, TypeOK, NobodyRestores, HaltedIsStopped, Stopped
  <2>4. NobodyPosts'
    BY <1>5 DEF QInv, RemoveHold, AfterStop, SInv, TypeOK, NobodyRestores, HaltedIsStopped,
       NobodyPosts, Stopped
  <2>5. QED
    BY <2>1, <2>2, <2>3, <2>4 DEF QInv
<1>6. ASSUME NEW a \in Answers, Halt(a) PROVE QInv'
  <2>1. SInv'
    BY SStep DEF QInv
  <2>2. NobodyRestores'
    BY <1>6 DEF QInv, Halt, SInv, TypeOK, NobodyRestores
  <2>3. HaltedIsStopped'
    BY <1>6 DEF QInv, Halt, SInv, TypeOK, NobodyRestores, HaltedIsStopped, Stopped
  <2>4. NobodyPosts'
    BY <1>6 DEF QInv, Halt, SInv, TypeOK, NobodyRestores, HaltedIsStopped, NobodyPosts, Stopped
  <2>5. QED
    BY <2>1, <2>2, <2>3, <2>4 DEF QInv
<1>7. ASSUME NEW a \in Answers, Settle(a) PROVE QInv'
  <2>1. SInv'
    BY SStep DEF QInv
  <2>2. NobodyRestores'
    BY <1>7 DEF QInv, Settle, LeaveSettle, SendingInFlight, Stopped, SInv, TypeOK, NobodyRestores
  <2>3. HaltedIsStopped'
    BY <1>7 DEF QInv, Settle, LeaveSettle, SendingInFlight, Stopped, SInv, TypeOK, NobodyRestores,
       HaltedIsStopped
  <2>4. NobodyPosts'
    BY <1>7 DEF QInv, Settle, LeaveSettle, SendingInFlight, Stopped, SInv, TypeOK, NobodyRestores,
       HaltedIsStopped, NobodyPosts, MarkerKept, Sending
  <2>5. QED
    BY <2>1, <2>2, <2>3, <2>4 DEF QInv
<1>8. ASSUME NEW a \in Answers, GiveUpWaiting(a) PROVE QInv'
  <2>1. SInv'
    BY SStep DEF QInv
  <2>2. NobodyRestores'
    BY <1>8 DEF QInv, GiveUpWaiting, SInv, TypeOK, NobodyRestores
  <2>3. HaltedIsStopped'
    BY <1>8 DEF QInv, GiveUpWaiting, SInv, TypeOK, NobodyRestores, HaltedIsStopped, Stopped
  <2>4. NobodyPosts'
    BY <1>8 DEF QInv, GiveUpWaiting, SInv, TypeOK, NobodyRestores, HaltedIsStopped, NobodyPosts,
       Stopped
  <2>5. QED
    BY <2>1, <2>2, <2>3, <2>4 DEF QInv
<1>9. ASSUME NEW a \in Answers, Delivered(a) PROVE QInv'
  <2>1. SInv'
    BY SStep DEF QInv
  <2>2. NobodyRestores'
    BY <1>9 DEF QInv, Delivered, SInv, TypeOK, NobodyRestores
  <2>3. HaltedIsStopped'
    BY <1>9 DEF QInv, Delivered, SInv, TypeOK, NobodyRestores, HaltedIsStopped, Stopped
  <2>4. NobodyPosts'
    BY <1>9 DEF QInv, Delivered, SInv, TypeOK, NobodyRestores, HaltedIsStopped, NobodyPosts, Stopped
  <2>5. QED
    BY <2>1, <2>2, <2>3, <2>4 DEF QInv
<1>10. ASSUME NEW a \in Answers, Refused(a) PROVE QInv'
  BY <1>10 DEF Refused
<1>11. ASSUME NEW a \in Answers, DropHold(a) PROVE QInv'
  <2>1. SInv'
    BY SStep DEF QInv
  <2>2. NobodyRestores'
    BY <1>11 DEF QInv, DropHold, SInv, TypeOK, NobodyRestores
  <2>3. HaltedIsStopped'
    BY <1>11 DEF QInv, DropHold, SInv, TypeOK, NobodyRestores, HaltedIsStopped, Stopped
  <2>4. NobodyPosts'
    BY <1>11 DEF QInv, DropHold, SInv, TypeOK, NobodyRestores, HaltedIsStopped, NobodyPosts, Stopped
  <2>5. QED
    BY <2>1, <2>2, <2>3, <2>4 DEF QInv
<1>12. ASSUME NEW a \in Answers, OthersHold(a) PROVE QInv'
  <2>1. SInv'
    BY SStep DEF QInv
  <2>2. NobodyRestores'
    BY <1>12 DEF QInv, OthersHold, SInv, TypeOK, NobodyRestores
  <2>3. HaltedIsStopped'
    BY <1>12 DEF QInv, OthersHold, SInv, TypeOK, NobodyRestores, HaltedIsStopped, Stopped
  <2>4. NobodyPosts'
    BY <1>12 DEF QInv, OthersHold, SInv, TypeOK, NobodyRestores, HaltedIsStopped, NobodyPosts,
       Stopped
  <2>5. QED
    BY <2>1, <2>2, <2>3, <2>4 DEF QInv
<1>13. ASSUME NEW a \in Answers, ReadPending(a) PROVE QInv'
  <2>1. SInv'
    BY SStep DEF QInv
  <2>2. NobodyRestores'
    BY <1>13 DEF QInv, ReadPending, SInv, TypeOK, NobodyRestores
  <2>3. HaltedIsStopped'
    BY <1>13 DEF QInv, ReadPending, SInv, TypeOK, NobodyRestores, HaltedIsStopped, Stopped
  <2>4. NobodyPosts'
    BY <1>13 DEF QInv, ReadPending, SInv, TypeOK, NobodyRestores, HaltedIsStopped, NobodyPosts,
       Stopped
  <2>5. QED
    BY <2>1, <2>2, <2>3, <2>4 DEF QInv
<1>14. ASSUME NEW a \in Answers, ReadStop(a) PROVE QInv'
  <2>1. SInv'
    BY SStep DEF QInv
  <2>2. NobodyRestores'
    BY <1>14 DEF QInv, ReadStop, Stopped, SInv, TypeOK, NobodyRestores
  <2>3. HaltedIsStopped'
    BY <1>14 DEF QInv, ReadStop, Stopped, SInv, TypeOK, NobodyRestores, HaltedIsStopped
  <2>4. NobodyPosts'
    BY <1>14 DEF QInv, ReadStop, Stopped, SInv, TypeOK, NobodyRestores, HaltedIsStopped, NobodyPosts
  <2>5. QED
    BY <2>1, <2>2, <2>3, <2>4 DEF QInv
<1>15. ASSUME NEW a \in Answers, WritePending(a) PROVE QInv'
  <2>1. SInv'
    BY SStep DEF QInv
  <2>2. NobodyRestores'
    BY <1>15 DEF QInv, WritePending, SInv, TypeOK, NobodyRestores
  <2>3. HaltedIsStopped'
    BY <1>15 DEF QInv, WritePending, SInv, TypeOK, NobodyRestores, HaltedIsStopped, Stopped
  <2>4. NobodyPosts'
    BY <1>15 DEF QInv, WritePending, SInv, TypeOK, NobodyRestores, HaltedIsStopped, NobodyPosts,
       Stopped
  <2>5. QED
    BY <2>1, <2>2, <2>3, <2>4 DEF QInv
<1>16. ASSUME NEW a \in Answers, StopHeld(a) PROVE QInv'
  <2>1. SInv'
    BY SStep DEF QInv
  <2>2. NobodyRestores'
    BY <1>16 DEF QInv, StopHeld, SInv, TypeOK, NobodyRestores
  <2>3. HaltedIsStopped'
    BY <1>16 DEF QInv, StopHeld, SInv, TypeOK, NobodyRestores, HaltedIsStopped, Stopped
  <2>4. NobodyPosts'
    BY <1>16 DEF QInv, StopHeld, SInv, TypeOK, NobodyRestores, HaltedIsStopped, NobodyPosts, Stopped
  <2>5. QED
    BY <2>1, <2>2, <2>3, <2>4 DEF QInv
<1>17. ASSUME NEW a \in Answers, UnlinkStop(a) PROVE QInv'
  <2>1. SInv'
    BY SStep DEF QInv
  <2>2. NobodyRestores'
    BY <1>17 DEF QInv, UnlinkStop, SInv, TypeOK, NobodyRestores
  <2>3. HaltedIsStopped'
    BY <1>17 DEF QInv, UnlinkStop, SInv, TypeOK, NobodyRestores, HaltedIsStopped, Stopped
  <2>4. NobodyPosts'
    BY <1>17 DEF QInv, UnlinkStop, SInv, TypeOK, NobodyRestores, HaltedIsStopped, NobodyPosts,
       Stopped
  <2>5. QED
    BY <2>1, <2>2, <2>3, <2>4 DEF QInv
<1>18. ASSUME NEW a \in Answers, Recheck(a) PROVE QInv'
  <2>1. SInv'
    BY SStep DEF QInv
  <2>2. NobodyRestores'
    BY <1>18 DEF QInv, Recheck, SInv, TypeOK, NobodyRestores
  <2>3. HaltedIsStopped'
    BY <1>18 DEF QInv, Recheck, SInv, TypeOK, NobodyRestores, HaltedIsStopped, Stopped
  <2>4. NobodyPosts'
    BY <1>18 DEF QInv, Recheck, SInv, TypeOK, NobodyRestores, HaltedIsStopped, NobodyPosts, Stopped
  <2>5. QED
    BY <2>1, <2>2, <2>3, <2>4 DEF QInv
<1>19. ASSUME NEW a \in Answers, PutBack(a) PROVE QInv'
  <2>1. SInv'
    BY SStep DEF QInv
  <2>2. NobodyRestores'
    BY <1>19 DEF QInv, PutBack, SInv, TypeOK, NobodyRestores
  <2>3. HaltedIsStopped'
    BY <1>19 DEF QInv, PutBack, SInv, TypeOK, NobodyRestores, HaltedIsStopped, Stopped
  <2>4. NobodyPosts'
    BY <1>19 DEF QInv, PutBack, SInv, TypeOK, NobodyRestores, HaltedIsStopped, NobodyPosts, Stopped
  <2>5. QED
    BY <2>1, <2>2, <2>3, <2>4 DEF QInv
<1>20. ASSUME NEW a \in Answers, WriteBack(a) PROVE QInv'
  <2>1. SInv'
    BY SStep DEF QInv
  <2>2. NobodyRestores'
    BY <1>20 DEF QInv, WriteBack, Write, SInv, TypeOK, NobodyRestores
  <2>3. HaltedIsStopped'
    BY <1>20 DEF QInv, WriteBack, Write, SInv, TypeOK, NobodyRestores, HaltedIsStopped, Stopped
  <2>4. NobodyPosts'
    BY <1>20 DEF QInv, WriteBack, Write, SInv, TypeOK, NobodyRestores, HaltedIsStopped, NobodyPosts,
       Stopped
  <2>5. QED
    BY <2>1, <2>2, <2>3, <2>4 DEF QInv
<1>21. ASSUME NEW a \in Answers, RemovePending(a) PROVE QInv'
  <2>1. SInv'
    BY SStep DEF QInv
  <2>2. NobodyRestores'
    BY <1>21 DEF QInv, RemovePending, SInv, TypeOK, NobodyRestores
  <2>3. HaltedIsStopped'
    BY <1>21 DEF QInv, RemovePending, SInv, TypeOK, NobodyRestores, HaltedIsStopped, Stopped
  <2>4. NobodyPosts'
    BY <1>21 DEF QInv, RemovePending, SInv, TypeOK, NobodyRestores, HaltedIsStopped, NobodyPosts,
       Stopped
  <2>5. QED
    BY <2>1, <2>2, <2>3, <2>4 DEF QInv
<1>22. ASSUME NEW w \in Workers, StartWorker(w) PROVE QInv'
  <2>1. SInv'
    BY SStep DEF QInv
  <2>2. NobodyRestores'
    BY <1>22 DEF QInv, StartWorker, SInv, TypeOK, NobodyRestores
  <2>3. HaltedIsStopped'
    BY <1>22 DEF QInv, StartWorker, SInv, TypeOK, NobodyRestores, HaltedIsStopped, Stopped
  <2>4. NobodyPosts'
    BY <1>22 DEF QInv, StartWorker, SInv, TypeOK, NobodyRestores, HaltedIsStopped, NobodyPosts,
       Stopped
  <2>5. QED
    BY <2>1, <2>2, <2>3, <2>4 DEF QInv
<1>23. ASSUME NEW w \in Workers, AcquireLock(w) PROVE QInv'
  <2>1. SInv'
    BY SStep DEF QInv
  <2>2. NobodyRestores'
    BY <1>23 DEF QInv, AcquireLock, SInv, TypeOK, NobodyRestores
  <2>3. HaltedIsStopped'
    BY <1>23 DEF QInv, AcquireLock, SInv, TypeOK, NobodyRestores, HaltedIsStopped, Stopped
  <2>4. NobodyPosts'
    BY <1>23 DEF QInv, AcquireLock, SInv, TypeOK, NobodyRestores, HaltedIsStopped, NobodyPosts,
       Stopped
  <2>5. QED
    BY <2>1, <2>2, <2>3, <2>4 DEF QInv
<1>24. ASSUME NEW w \in Workers, ReadLease(w) PROVE QInv'
  <2>1. SInv'
    BY SStep DEF QInv
  <2>2. NobodyRestores'
    BY <1>24 DEF QInv, ReadLease, Stopped, SInv, TypeOK, NobodyRestores
  <2>3. HaltedIsStopped'
    BY <1>24 DEF QInv, ReadLease, Stopped, SInv, TypeOK, NobodyRestores, HaltedIsStopped
  <2>4. NobodyPosts'
    BY <1>24 DEF QInv, ReadLease, Stopped, SInv, TypeOK, NobodyRestores, HaltedIsStopped,
       NobodyPosts
  <2>5. QED
    BY <2>1, <2>2, <2>3, <2>4 DEF QInv
<1>25. ASSUME NEW w \in Workers, AskAnswered(w) PROVE QInv'
  <2>1. SInv'
    BY SStep DEF QInv
  <2>2. NobodyRestores'
    BY <1>25 DEF QInv, AskAnswered, SInv, TypeOK, NobodyRestores
  <2>3. HaltedIsStopped'
    BY <1>25 DEF QInv, AskAnswered, SInv, TypeOK, NobodyRestores, HaltedIsStopped, Stopped
  <2>4. NobodyPosts'
    BY <1>25 DEF QInv, AskAnswered, SInv, TypeOK, NobodyRestores, HaltedIsStopped, NobodyPosts,
       Stopped
  <2>5. QED
    BY <2>1, <2>2, <2>3, <2>4 DEF QInv
<1>26. ASSUME NEW w \in Workers, MarkSending(w) PROVE QInv'
  <2>1. SInv'
    BY SStep DEF QInv
  <2>2. NobodyRestores'
    BY <1>26 DEF QInv, MarkSending, SInv, TypeOK, NobodyRestores
  <2>3. HaltedIsStopped'
    BY <1>26 DEF QInv, MarkSending, SInv, TypeOK, NobodyRestores, HaltedIsStopped, Stopped
  <2>4. NobodyPosts'
    BY <1>26 DEF QInv, MarkSending, SInv, TypeOK, NobodyRestores, HaltedIsStopped, NobodyPosts,
       Stopped
  <2>5. QED
    BY <2>1, <2>2, <2>3, <2>4 DEF QInv
<1>27. ASSUME NEW w \in Workers, CheckActive(w) PROVE QInv'
  <2>1. SInv'
    BY SStep DEF QInv
  <2>2. NobodyRestores'
    BY <1>27 DEF QInv, CheckActive, Stopped, SInv, TypeOK, NobodyRestores
  <2>3. HaltedIsStopped'
    BY <1>27 DEF QInv, CheckActive, Stopped, SInv, TypeOK, NobodyRestores, HaltedIsStopped
  <2>4. NobodyPosts'
    BY <1>27 DEF QInv, CheckActive, Stopped, SInv, TypeOK, NobodyRestores, HaltedIsStopped,
       NobodyPosts
  <2>5. QED
    BY <2>1, <2>2, <2>3, <2>4 DEF QInv
<1>28. ASSUME NEW w \in Workers, ShouldSend(w) PROVE QInv'
  <2>1. SInv'
    BY SStep DEF QInv
  <2>2. NobodyRestores'
    BY <1>28 DEF QInv, ShouldSend, Stopped, SInv, TypeOK, NobodyRestores
  <2>3. HaltedIsStopped'
    BY <1>28 DEF QInv, ShouldSend, Stopped, SInv, TypeOK, NobodyRestores, HaltedIsStopped
  <2>4. NobodyPosts'
    BY <1>28 DEF QInv, ShouldSend, Stopped, SInv, TypeOK, NobodyRestores, HaltedIsStopped,
       NobodyPosts
  <2>5. QED
    BY <2>1, <2>2, <2>3, <2>4 DEF QInv
<1>29. ASSUME NEW w \in Workers, PostSignal(w) PROVE QInv'
  <2>1. SInv'
    BY SStep DEF QInv
  <2>2. NobodyRestores'
    BY <1>29 DEF QInv, PostSignal, SInv, TypeOK, NobodyRestores
  <2>3. HaltedIsStopped'
    BY <1>29 DEF QInv, PostSignal, SInv, TypeOK, NobodyRestores, HaltedIsStopped, Stopped
  <2>4. NobodyPosts'
    BY <1>29 DEF QInv, PostSignal, SInv, TypeOK, NobodyRestores, HaltedIsStopped, NobodyPosts,
       Stopped
  <2>5. QED
    BY <2>1, <2>2, <2>3, <2>4 DEF QInv
<1>30. ASSUME NEW w \in Workers, SignalAnswered(w) PROVE QInv'
  <2>1. SInv'
    BY SStep DEF QInv
  <2>2. NobodyRestores'
    BY <1>30 DEF QInv, SignalAnswered, SInv, TypeOK, NobodyRestores
  <2>3. HaltedIsStopped'
    BY <1>30 DEF QInv, SignalAnswered, SInv, TypeOK, NobodyRestores, HaltedIsStopped, Stopped
  <2>4. NobodyPosts'
    BY <1>30 DEF QInv, SignalAnswered, SInv, TypeOK, NobodyRestores, HaltedIsStopped, NobodyPosts,
       Stopped
  <2>5. QED
    BY <2>1, <2>2, <2>3, <2>4 DEF QInv
<1>31. ASSUME NEW w \in Workers, ClearSending(w) PROVE QInv'
  <2>1. SInv'
    BY SStep DEF QInv
  <2>2. NobodyRestores'
    BY <1>31 DEF QInv, ClearSending, AfterSending, SInv, TypeOK, NobodyRestores
  <2>3. HaltedIsStopped'
    BY <1>31 DEF QInv, ClearSending, AfterSending, SInv, TypeOK, NobodyRestores, HaltedIsStopped,
       Stopped
  <2>4. NobodyPosts'
    BY <1>31 DEF QInv, ClearSending, AfterSending, SInv, TypeOK, NobodyRestores, HaltedIsStopped,
       NobodyPosts, Stopped
  <2>5. QED
    BY <2>1, <2>2, <2>3, <2>4 DEF QInv
<1>32. ASSUME NEW w \in Workers, Sleep(w) PROVE QInv'
  <2>1. SInv'
    BY SStep DEF QInv
  <2>2. NobodyRestores'
    BY <1>32 DEF QInv, Sleep, Stopped, SInv, TypeOK, NobodyRestores
  <2>3. HaltedIsStopped'
    BY <1>32 DEF QInv, Sleep, Stopped, SInv, TypeOK, NobodyRestores, HaltedIsStopped
  <2>4. NobodyPosts'
    BY <1>32 DEF QInv, Sleep, Stopped, SInv, TypeOK, NobodyRestores, HaltedIsStopped, NobodyPosts
  <2>5. QED
    BY <2>1, <2>2, <2>3, <2>4 DEF QInv
<1>33. ASSUME NEW w \in Workers, ReleaseLock(w) PROVE QInv'
  <2>1. SInv'
    BY SStep DEF QInv
  <2>2. NobodyRestores'
    BY <1>33 DEF QInv, ReleaseLock, SInv, TypeOK, NobodyRestores
  <2>3. HaltedIsStopped'
    BY <1>33 DEF QInv, ReleaseLock, SInv, TypeOK, NobodyRestores, HaltedIsStopped, Stopped
  <2>4. NobodyPosts'
    BY <1>33 DEF QInv, ReleaseLock, SInv, TypeOK, NobodyRestores, HaltedIsStopped, NobodyPosts,
       Stopped
  <2>5. QED
    BY <2>1, <2>2, <2>3, <2>4 DEF QInv
<1>34. ASSUME NEW w \in Workers, CheckAgain(w) PROVE QInv'
  <2>1. SInv'
    BY SStep DEF QInv
  <2>2. NobodyRestores'
    BY <1>34 DEF QInv, CheckAgain, Stopped, SInv, TypeOK, NobodyRestores
  <2>3. HaltedIsStopped'
    BY <1>34 DEF QInv, CheckAgain, Stopped, SInv, TypeOK, NobodyRestores, HaltedIsStopped
  <2>4. NobodyPosts'
    BY <1>34 DEF QInv, CheckAgain, Stopped, SInv, TypeOK, NobodyRestores, HaltedIsStopped,
       NobodyPosts
  <2>5. QED
    BY <2>1, <2>2, <2>3, <2>4 DEF QInv
<1>35. ASSUME NEW w \in Workers, Lands(w) PROVE QInv'
  <2>1. SInv'
    BY SStep DEF QInv
  <2>2. NobodyRestores'
    BY <1>35 DEF QInv, Lands, SInv, TypeOK, NobodyRestores
  <2>3. HaltedIsStopped'
    BY <1>35 DEF QInv, Lands, SInv, TypeOK, NobodyRestores, HaltedIsStopped, Stopped
  <2>4. NobodyPosts'
    BY <1>35 DEF QInv, Lands, SInv, TypeOK, NobodyRestores, HaltedIsStopped, NobodyPosts, Stopped
  <2>5. QED
    BY <2>1, <2>2, <2>3, <2>4 DEF QInv
<1>36. ASSUME NEW p \in Procs, Die(p) PROVE QInv'
  <2>1. SInv'
    BY SStep DEF QInv
  <2>2. NobodyRestores'
    BY <1>36 DEF QInv, Die, SInv, TypeOK, NobodyRestores
  <2>3. HaltedIsStopped'
    BY <1>36 DEF QInv, Die, SInv, TypeOK, NobodyRestores, HaltedIsStopped, Stopped
  <2>4. NobodyPosts'
    BY <1>36 DEF QInv, Die, SInv, TypeOK, NobodyRestores, HaltedIsStopped, NobodyPosts, Stopped
  <2>5. QED
    BY <2>1, <2>2, <2>3, <2>4 DEF QInv
<1>37. QED
  BY <1>1, <1>2, <1>3, <1>4, <1>5, <1>6, <1>7, <1>8, <1>9, <1>10, <1>11, <1>12, <1>13, <1>14, <1>15,
     <1>16, <1>17, <1>18, <1>19, <1>20, <1>21, <1>22, <1>23, <1>24, <1>25, <1>26, <1>27, <1>28,
     <1>29, <1>30, <1>31, <1>32, <1>33, <1>34, <1>35, <1>36
     DEF Next, AnswerStep, WorkerStep, Stopping, Restoring, Renewing

\* "A renewal that reached receivers after the answer would show the agent as
\* working again" (auto-signals.ts:621-622): while no answer was refused, no
\* worker has a signal on its way after an answer that left its wait with a
\* readable stop and no renewal in flight, however many answers and workers
\* race and are killed.
THEOREM AnswerSilencesWorking == Spec => []AnswerEndsWorking
<1> DEFINE WInv == SInv /\ (refused = {} => QInv)
<1>1. Init => WInv
  <2>1. Init => SInv
    BY InitSInv
  <2>2. QED
    BY <2>1, ProcsAssumption
       DEF Init, QInv, Procs, NobodyRestores, HaltedIsStopped, NobodyPosts
<1>2. WInv /\ [Next]_vars => WInv'
  <2>1. CASE UNCHANGED vars
    BY <2>1 DEF vars, files, seenBySender, Stopped, QInv, SInv, TypeOK, LockKept, MarkerKept, RoundsLeft,
       NobodyRestores, HaltedIsStopped, NobodyPosts
  <2>2. ASSUME WInv, Next PROVE WInv'
    <3>1. refused' = {} => refused = {}
      BY <2>2, RefusalsAreKept
    <3>2. QED
      BY <2>2, <3>1, SStep, QStep
  <2>3. QED
    BY <2>1, <2>2
<1>3. WInv => AnswerEndsWorking
  BY DEF QInv, NobodyPosts, SInv, TypeOK, AnswerEndsWorking
<1>4. QED
  BY <1>1, <1>2, <1>3, PTL DEF Spec

-----------------------------------------------------------------------------
\* A renewal touches no stop, no hold and no answer.
LEMMA RenewalIsQuiet ==
    ASSUME SInv, NEW w \in Workers, StartWorker(w) \/ Renewing(w)
    PROVE  /\ UNCHANGED <<stop, blank, holds, pending, owns, target, delivered, refused>>
           /\ pc[w] \notin {"write", "writeBack", "dead"}
           /\ pc'[w] \notin {"idle", "write", "unhold"}
           /\ \A p \in Procs \ {w} : pc'[p] = pc[p]
  BY ProcsAssumption DEF Renewing, StartWorker, AcquireLock, ReadLease, AskAnswered, MarkSending,
     CheckActive, ShouldSend, PostSignal, SignalAnswered, ClearSending, Sleep, ReleaseLock,
     CheckAgain, AfterSending, At, Goto, files, seenBySender, SInv, TypeOK, Procs

\* What the stage of an answer tells stays true.
LEMMA StageStep ==
    ASSUME SInv, StageTells, Next
    PROVE  StageTells'
<1> USE ProcsAssumption DEF Procs, At, Goto, files, seenBySender
<1>1. ASSUME NEW p \in Procs, WriteHold(p) PROVE StageTells'
  BY <1>1 DEF SInv, TypeOK, WriteHold, StageTells, Releasing, Undoing
<1>2. ASSUME NEW p \in Procs, CreateStop(p) PROVE StageTells'
  BY <1>2 DEF SInv, TypeOK, CreateStop, StageTells, Releasing, Undoing
<1>3. ASSUME NEW p \in Procs, WriteStop(p) PROVE StageTells'
  BY <1>3 DEF SInv, TypeOK, WriteStop, Write, AfterStop, StageTells, Releasing, Undoing
<1>4. ASSUME NEW p \in Procs, HoldStop(p) PROVE StageTells'
  BY <1>4 DEF SInv, TypeOK, HoldStop, AfterStop, StageTells, Releasing, Undoing
<1>5. ASSUME NEW p \in Procs, RemoveHold(p) PROVE StageTells'
  BY <1>5 DEF SInv, TypeOK, RemoveHold, AfterStop, StageTells, Releasing, Undoing
<1>6. ASSUME NEW a \in Answers, Halt(a) PROVE StageTells'
  BY <1>6 DEF SInv, TypeOK, Halt, StageTells, Releasing, Undoing
<1>7. ASSUME NEW a \in Answers, Settle(a) PROVE StageTells'
  BY <1>7 DEF SInv, TypeOK, Settle, LeaveSettle, Stopped, StageTells, Releasing, Undoing
<1>8. ASSUME NEW a \in Answers, GiveUpWaiting(a) PROVE StageTells'
  BY <1>8 DEF SInv, TypeOK, GiveUpWaiting, StageTells, Releasing, Undoing
<1>9. ASSUME NEW a \in Answers, Delivered(a) PROVE StageTells'
  BY <1>9 DEF SInv, TypeOK, Delivered, StageTells, Releasing, Undoing
<1>10. ASSUME NEW a \in Answers, Refused(a) PROVE StageTells'
  BY <1>10 DEF SInv, TypeOK, Refused, StageTells, Releasing, Undoing
<1>11. ASSUME NEW a \in Answers, DropHold(a) PROVE StageTells'
  BY <1>11 DEF SInv, TypeOK, DropHold, StageTells, Releasing, Undoing
<1>12. ASSUME NEW a \in Answers, OthersHold(a) PROVE StageTells'
  BY <1>12 DEF SInv, TypeOK, OthersHold, StageTells, Releasing, Undoing
<1>13. ASSUME NEW a \in Answers, ReadPending(a) PROVE StageTells'
  BY <1>13 DEF SInv, TypeOK, ReadPending, StageTells, Releasing, Undoing
<1>14. ASSUME NEW a \in Answers, ReadStop(a) PROVE StageTells'
  BY <1>14 DEF SInv, TypeOK, ReadStop, Stopped, StageTells, Releasing, Undoing
<1>15. ASSUME NEW a \in Answers, WritePending(a) PROVE StageTells'
  BY <1>15 DEF SInv, TypeOK, WritePending, StageTells, Releasing, Undoing
<1>16. ASSUME NEW a \in Answers, StopHeld(a) PROVE StageTells'
  BY <1>16 DEF SInv, TypeOK, StopHeld, StageTells, Releasing, Undoing
<1>17. ASSUME NEW a \in Answers, UnlinkStop(a) PROVE StageTells'
  BY <1>17 DEF SInv, TypeOK, UnlinkStop, StageTells, Releasing, Undoing
<1>18. ASSUME NEW a \in Answers, Recheck(a) PROVE StageTells'
  BY <1>18 DEF SInv, TypeOK, Recheck, StageTells, Releasing, Undoing
<1>19. ASSUME NEW a \in Answers, PutBack(a) PROVE StageTells'
  BY <1>19 DEF SInv, TypeOK, PutBack, StageTells, Releasing, Undoing
<1>20. ASSUME NEW a \in Answers, WriteBack(a) PROVE StageTells'
  BY <1>20 DEF SInv, TypeOK, WriteBack, Write, StageTells, Releasing, Undoing
<1>21. ASSUME NEW a \in Answers, RemovePending(a) PROVE StageTells'
  BY <1>21 DEF SInv, TypeOK, RemovePending, StageTells, Releasing, Undoing
<1>22. ASSUME NEW p \in Procs, Die(p) PROVE StageTells'
  BY <1>22 DEF SInv, TypeOK, Die, StageTells, Releasing, Undoing
<1>23. ASSUME NEW w \in Workers, Lands(w) PROVE StageTells'
  BY <1>23 DEF SInv, TypeOK, Lands, StageTells, Releasing, Undoing
<1>24. ASSUME NEW w \in Workers, StartWorker(w) \/ Renewing(w) PROVE StageTells'
  BY <1>24, RenewalIsQuiet DEF SInv, TypeOK, StageTells, Releasing, Undoing
<1>25. QED
  BY <1>1, <1>2, <1>3, <1>4, <1>5, <1>6, <1>7, <1>8, <1>9, <1>10, <1>11, <1>12, <1>13, <1>14, <1>15,
     <1>16, <1>17, <1>18, <1>19, <1>20, <1>21, <1>22, <1>23, <1>24
     DEF Next, AnswerStep, WorkerStep, Stopping, Restoring

\* Of one refused answer the restore undoes its own stop.
LEMMA UndoStep ==
    ASSUME SInv, StageTells, OneRefusal', OwnStopUndone, Next
    PROVE  OwnStopUndone'
<1> USE ProcsAssumption DEF Procs, At, Goto, files, seenBySender
<1>1. OneRefusal
  BY RefusalsAreKept DEF OneRefusal
<1>2. ASSUME NEW p \in Procs, WriteHold(p) PROVE OwnStopUndone'
  BY <1>1, <1>2 DEF SInv, TypeOK, WriteHold, OwnStopUndone, StageTells, OneRefusal, Releasing,
     Undoing
<1>3. ASSUME NEW p \in Procs, CreateStop(p) PROVE OwnStopUndone'
  <2>1. /\ stop = None /\ stop' = p /\ blank' = p /\ pc' = [pc EXCEPT ![p] = "write"]
        /\ UNCHANGED <<pending, target, refused>>
    BY <1>3 DEF CreateStop
  <2>2. \A x \in Answers : owns'[x] = (owns[x] \/ x = p)
    BY <1>3 DEF CreateStop
  <2>3. \A x \in Answers : x = p => pc[x] = "stop" /\ target[x] = None
    BY <1>3 DEF CreateStop, SInv, TypeOK, OwnStopUndone, StageTells
  <2>4. QED
    BY <2>1, <2>2, <2>3, <1>1 DEF SInv, TypeOK, OwnStopUndone, StageTells, OneRefusal, Releasing, Undoing
<1>4. ASSUME NEW p \in Procs, WriteStop(p) PROVE OwnStopUndone'
  BY <1>1, <1>4 DEF SInv, TypeOK, WriteStop, Write, AfterStop, OwnStopUndone, StageTells,
     OneRefusal, Releasing, Undoing
<1>5. ASSUME NEW p \in Procs, HoldStop(p) PROVE OwnStopUndone'
  BY <1>1, <1>5 DEF SInv, TypeOK, HoldStop, AfterStop, OwnStopUndone, StageTells, OneRefusal,
     Releasing, Undoing
<1>6. ASSUME NEW p \in Procs, RemoveHold(p) PROVE OwnStopUndone'
  BY <1>1, <1>6 DEF SInv, TypeOK, RemoveHold, AfterStop, OwnStopUndone, StageTells, OneRefusal,
     Releasing, Undoing
<1>7. ASSUME NEW a \in Answers, Halt(a) PROVE OwnStopUndone'
  BY <1>1, <1>7 DEF SInv, TypeOK, Halt, OwnStopUndone, StageTells, OneRefusal, Releasing, Undoing
<1>8. ASSUME NEW a \in Answers, Settle(a) PROVE OwnStopUndone'
  BY <1>1, <1>8 DEF SInv, TypeOK, Settle, LeaveSettle, Stopped, OwnStopUndone, StageTells,
     OneRefusal, Releasing, Undoing
<1>9. ASSUME NEW a \in Answers, GiveUpWaiting(a) PROVE OwnStopUndone'
  BY <1>1, <1>9 DEF SInv, TypeOK, GiveUpWaiting, OwnStopUndone, StageTells, OneRefusal, Releasing,
     Undoing
<1>10. ASSUME NEW a \in Answers, Delivered(a) PROVE OwnStopUndone'
  BY <1>1, <1>10 DEF SInv, TypeOK, Delivered, OwnStopUndone, StageTells, OneRefusal, Releasing,
     Undoing
<1>11. ASSUME NEW a \in Answers, Refused(a) PROVE OwnStopUndone'
  BY <1>1, <1>11 DEF SInv, TypeOK, Refused, OwnStopUndone, StageTells, OneRefusal, Releasing,
     Undoing
<1>12. ASSUME NEW a \in Answers, DropHold(a) PROVE OwnStopUndone'
  BY <1>1, <1>12 DEF SInv, TypeOK, DropHold, OwnStopUndone, StageTells, OneRefusal, Releasing,
     Undoing
<1>13. ASSUME NEW a \in Answers, OthersHold(a) PROVE OwnStopUndone'
  BY <1>1, <1>13 DEF SInv, TypeOK, OthersHold, OwnStopUndone, StageTells, OneRefusal, Releasing,
     Undoing
<1>14. ASSUME NEW a \in Answers, ReadPending(a) PROVE OwnStopUndone'
  BY <1>1, <1>14 DEF SInv, TypeOK, ReadPending, OwnStopUndone, StageTells, OneRefusal, Releasing,
     Undoing
<1>15. ASSUME NEW a \in Answers, ReadStop(a) PROVE OwnStopUndone'
  BY <1>1, <1>15 DEF SInv, TypeOK, ReadStop, Stopped, OwnStopUndone, StageTells, OneRefusal,
     Releasing, Undoing
<1>16. ASSUME NEW a \in Answers, WritePending(a) PROVE OwnStopUndone'
  BY <1>1, <1>16 DEF SInv, TypeOK, WritePending, OwnStopUndone, StageTells, OneRefusal, Releasing,
     Undoing
<1>17. ASSUME NEW a \in Answers, StopHeld(a) PROVE OwnStopUndone'
  BY <1>1, <1>17 DEF SInv, TypeOK, StopHeld, OwnStopUndone, StageTells, OneRefusal, Releasing,
     Undoing
<1>18. ASSUME NEW a \in Answers, UnlinkStop(a) PROVE OwnStopUndone'
  BY <1>1, <1>18 DEF SInv, TypeOK, UnlinkStop, OwnStopUndone, StageTells, OneRefusal, Releasing,
     Undoing
<1>19. ASSUME NEW a \in Answers, Recheck(a) PROVE OwnStopUndone'
  BY <1>1, <1>19 DEF SInv, TypeOK, Recheck, OwnStopUndone, StageTells, OneRefusal, Releasing,
     Undoing
<1>20. ASSUME NEW a \in Answers, PutBack(a) PROVE OwnStopUndone'
  BY <1>1, <1>20 DEF SInv, TypeOK, PutBack, OwnStopUndone, StageTells, OneRefusal, Releasing,
     Undoing
<1>21. ASSUME NEW a \in Answers, WriteBack(a) PROVE OwnStopUndone'
  BY <1>1, <1>21 DEF SInv, TypeOK, WriteBack, Write, OwnStopUndone, StageTells, OneRefusal,
     Releasing, Undoing
<1>22. ASSUME NEW a \in Answers, RemovePending(a) PROVE OwnStopUndone'
  BY <1>1, <1>22 DEF SInv, TypeOK, RemovePending, OwnStopUndone, StageTells, OneRefusal, Releasing,
     Undoing
<1>23. ASSUME NEW p \in Procs, Die(p) PROVE OwnStopUndone'
  BY <1>1, <1>23 DEF SInv, TypeOK, Die, OwnStopUndone, StageTells, OneRefusal, Releasing, Undoing
<1>24. ASSUME NEW w \in Workers, Lands(w) PROVE OwnStopUndone'
  BY <1>1, <1>24 DEF SInv, TypeOK, Lands, OwnStopUndone, StageTells, OneRefusal, Releasing, Undoing
<1>25. ASSUME NEW w \in Workers, StartWorker(w) \/ Renewing(w) PROVE OwnStopUndone'
  BY <1>1, <1>25, RenewalIsQuiet DEF SInv, TypeOK, OwnStopUndone, StageTells, OneRefusal, Releasing,
     Undoing
<1>26. QED
  BY <1>2, <1>3, <1>4, <1>5, <1>6, <1>7, <1>8, <1>9, <1>10, <1>11, <1>12, <1>13, <1>14, <1>15,
     <1>16, <1>17, <1>18, <1>19, <1>20, <1>21, <1>22, <1>23, <1>24, <1>25
     DEF Next, AnswerStep, WorkerStep, Stopping, Restoring

\* No restore passes by the hold of an answer that goes out.
LEMMA GuardStep ==
    ASSUME SInv, StageTells, OneRefusal, OwnStopUndone, CommittedGuarded,
                              Next
    PROVE  CommittedGuarded'
<1> USE ProcsAssumption DEF Procs, At, Goto, files, seenBySender
<1>1. ASSUME NEW p \in Procs, WriteHold(p) PROVE CommittedGuarded'
  BY <1>1 DEF SInv, TypeOK, WriteHold, CommittedGuarded, Committed, OwnStopUndone, StageTells,
     Releasing, Undoing
<1>2. ASSUME NEW p \in Procs, CreateStop(p) PROVE CommittedGuarded'
  BY <1>2 DEF SInv, TypeOK, CreateStop, CommittedGuarded, Committed, OwnStopUndone, StageTells,
     Releasing, Undoing
<1>3. ASSUME NEW p \in Procs, WriteStop(p) PROVE CommittedGuarded'
  BY <1>3 DEF SInv, TypeOK, WriteStop, Write, AfterStop, CommittedGuarded, Committed, OwnStopUndone,
     StageTells, Releasing, Undoing
<1>4. ASSUME NEW p \in Procs, HoldStop(p) PROVE CommittedGuarded'
  BY <1>4 DEF SInv, TypeOK, HoldStop, AfterStop, CommittedGuarded, Committed, OwnStopUndone,
     StageTells, Releasing, Undoing
<1>5. ASSUME NEW p \in Procs, RemoveHold(p) PROVE CommittedGuarded'
  BY <1>5 DEF SInv, TypeOK, RemoveHold, AfterStop, CommittedGuarded, Committed, OwnStopUndone,
     StageTells, Releasing, Undoing
<1>6. ASSUME NEW a \in Answers, Halt(a) PROVE CommittedGuarded'
  BY <1>6 DEF SInv, TypeOK, Halt, CommittedGuarded, Committed, OwnStopUndone, StageTells, Releasing,
     Undoing
<1>7. ASSUME NEW a \in Answers, Settle(a) PROVE CommittedGuarded'
  BY <1>7 DEF SInv, TypeOK, Settle, LeaveSettle, Stopped, CommittedGuarded, Committed,
     OwnStopUndone, StageTells, Releasing, Undoing
<1>8. ASSUME NEW a \in Answers, GiveUpWaiting(a) PROVE CommittedGuarded'
  BY <1>8 DEF SInv, TypeOK, GiveUpWaiting, CommittedGuarded, Committed, OwnStopUndone, StageTells,
     Releasing, Undoing
<1>9. ASSUME NEW a \in Answers, Delivered(a) PROVE CommittedGuarded'
  BY <1>9 DEF SInv, TypeOK, Delivered, CommittedGuarded, Committed, OwnStopUndone, StageTells,
     Releasing, Undoing
<1>10. ASSUME NEW a \in Answers, Refused(a) PROVE CommittedGuarded'
  BY <1>10 DEF SInv, TypeOK, Refused, CommittedGuarded, Committed, OwnStopUndone, StageTells,
     Releasing, Undoing
<1>11. ASSUME NEW a \in Answers, DropHold(a) PROVE CommittedGuarded'
  BY <1>11 DEF SInv, TypeOK, DropHold, CommittedGuarded, Committed, OwnStopUndone, StageTells,
     Releasing, Undoing
<1>12. ASSUME NEW a \in Answers, OthersHold(a) PROVE CommittedGuarded'
  BY <1>12 DEF SInv, TypeOK, OthersHold, CommittedGuarded, Committed, OwnStopUndone, StageTells,
     Releasing, Undoing
<1>13. ASSUME NEW a \in Answers, ReadPending(a) PROVE CommittedGuarded'
  BY <1>13 DEF SInv, TypeOK, ReadPending, CommittedGuarded, Committed, OwnStopUndone, StageTells,
     Releasing, Undoing
<1>14. ASSUME NEW a \in Answers, ReadStop(a) PROVE CommittedGuarded'
  BY <1>14 DEF SInv, TypeOK, ReadStop, Stopped, CommittedGuarded, Committed, OwnStopUndone,
     StageTells, Releasing, Undoing
<1>15. ASSUME NEW a \in Answers, WritePending(a) PROVE CommittedGuarded'
  BY <1>15 DEF SInv, TypeOK, WritePending, CommittedGuarded, Committed, OwnStopUndone, StageTells,
     Releasing, Undoing
<1>16. ASSUME NEW a \in Answers, StopHeld(a) PROVE CommittedGuarded'
  BY <1>16 DEF SInv, TypeOK, StopHeld, CommittedGuarded, Committed, OwnStopUndone, StageTells,
     Releasing, Undoing
<1>17. ASSUME NEW a \in Answers, UnlinkStop(a) PROVE CommittedGuarded'
  BY <1>17 DEF SInv, TypeOK, UnlinkStop, CommittedGuarded, Committed, OwnStopUndone, StageTells,
     Releasing, Undoing
<1>18. ASSUME NEW a \in Answers, Recheck(a) PROVE CommittedGuarded'
  BY <1>18 DEF SInv, TypeOK, Recheck, CommittedGuarded, Committed, OwnStopUndone, StageTells,
     Releasing, Undoing
<1>19. ASSUME NEW a \in Answers, PutBack(a) PROVE CommittedGuarded'
  BY <1>19 DEF SInv, TypeOK, PutBack, CommittedGuarded, Committed, OwnStopUndone, StageTells,
     Releasing, Undoing
<1>20. ASSUME NEW a \in Answers, WriteBack(a) PROVE CommittedGuarded'
  BY <1>20 DEF SInv, TypeOK, WriteBack, Write, CommittedGuarded, Committed, OwnStopUndone,
     StageTells, Releasing, Undoing
<1>21. ASSUME NEW a \in Answers, RemovePending(a) PROVE CommittedGuarded'
  BY <1>21 DEF SInv, TypeOK, RemovePending, CommittedGuarded, Committed, OwnStopUndone, StageTells,
     Releasing, Undoing
<1>22. ASSUME NEW p \in Procs, Die(p) PROVE CommittedGuarded'
  BY <1>22 DEF SInv, TypeOK, Die, CommittedGuarded, Committed, OwnStopUndone, StageTells, Releasing,
     Undoing
<1>23. ASSUME NEW w \in Workers, Lands(w) PROVE CommittedGuarded'
  BY <1>23 DEF SInv, TypeOK, Lands, CommittedGuarded, Committed, OwnStopUndone, StageTells,
     Releasing, Undoing
<1>24. ASSUME NEW w \in Workers, StartWorker(w) \/ Renewing(w) PROVE CommittedGuarded'
  BY <1>24, RenewalIsQuiet DEF SInv, TypeOK, CommittedGuarded, Committed, OwnStopUndone, StageTells,
     Releasing, Undoing
<1>25. QED
  BY <1>1, <1>2, <1>3, <1>4, <1>5, <1>6, <1>7, <1>8, <1>9, <1>10, <1>11, <1>12, <1>13, <1>14, <1>15,
     <1>16, <1>17, <1>18, <1>19, <1>20, <1>21, <1>22, <1>23, <1>24
     DEF Next, AnswerStep, WorkerStep, Stopping, Restoring

\* No process starts twice, and a refused answer starts to undo its halt.
Onward ==
    /\ \A p \in Procs : pc'[p] = "idle" => pc[p] = "idle"
    /\ \A a \in refused' \ refused : pc'[a] \in {"readStop", "dropHold"}

\* Every step is onward.
LEMMA StartsOnce ==
    ASSUME SInv, Next
    PROVE  Onward
<1> USE ProcsAssumption DEF Procs, At, Goto, files, seenBySender
<1>1. ASSUME NEW p \in Procs, WriteHold(p) PROVE Onward
  BY <1>1 DEF SInv, TypeOK, WriteHold, Onward
<1>2. ASSUME NEW p \in Procs, CreateStop(p) PROVE Onward
  BY <1>2 DEF SInv, TypeOK, CreateStop, Onward
<1>3. ASSUME NEW p \in Procs, WriteStop(p) PROVE Onward
  BY <1>3 DEF SInv, TypeOK, WriteStop, Write, AfterStop, Onward
<1>4. ASSUME NEW p \in Procs, HoldStop(p) PROVE Onward
  BY <1>4 DEF SInv, TypeOK, HoldStop, AfterStop, Onward
<1>5. ASSUME NEW p \in Procs, RemoveHold(p) PROVE Onward
  BY <1>5 DEF SInv, TypeOK, RemoveHold, AfterStop, Onward
<1>6. ASSUME NEW a \in Answers, Halt(a) PROVE Onward
  BY <1>6 DEF SInv, TypeOK, Halt, Onward
<1>7. ASSUME NEW a \in Answers, Settle(a) PROVE Onward
  BY <1>7 DEF SInv, TypeOK, Settle, LeaveSettle, Stopped, Onward
<1>8. ASSUME NEW a \in Answers, GiveUpWaiting(a) PROVE Onward
  BY <1>8 DEF SInv, TypeOK, GiveUpWaiting, Onward
<1>9. ASSUME NEW a \in Answers, Delivered(a) PROVE Onward
  BY <1>9 DEF SInv, TypeOK, Delivered, Onward
<1>10. ASSUME NEW a \in Answers, Refused(a) PROVE Onward
  BY <1>10 DEF SInv, TypeOK, Refused, Onward
<1>11. ASSUME NEW a \in Answers, DropHold(a) PROVE Onward
  BY <1>11 DEF SInv, TypeOK, DropHold, Onward
<1>12. ASSUME NEW a \in Answers, OthersHold(a) PROVE Onward
  BY <1>12 DEF SInv, TypeOK, OthersHold, Onward
<1>13. ASSUME NEW a \in Answers, ReadPending(a) PROVE Onward
  BY <1>13 DEF SInv, TypeOK, ReadPending, Onward
<1>14. ASSUME NEW a \in Answers, ReadStop(a) PROVE Onward
  BY <1>14 DEF SInv, TypeOK, ReadStop, Stopped, Onward
<1>15. ASSUME NEW a \in Answers, WritePending(a) PROVE Onward
  BY <1>15 DEF SInv, TypeOK, WritePending, Onward
<1>16. ASSUME NEW a \in Answers, StopHeld(a) PROVE Onward
  BY <1>16 DEF SInv, TypeOK, StopHeld, Onward
<1>17. ASSUME NEW a \in Answers, UnlinkStop(a) PROVE Onward
  BY <1>17 DEF SInv, TypeOK, UnlinkStop, Onward
<1>18. ASSUME NEW a \in Answers, Recheck(a) PROVE Onward
  BY <1>18 DEF SInv, TypeOK, Recheck, Onward
<1>19. ASSUME NEW a \in Answers, PutBack(a) PROVE Onward
  BY <1>19 DEF SInv, TypeOK, PutBack, Onward
<1>20. ASSUME NEW a \in Answers, WriteBack(a) PROVE Onward
  BY <1>20 DEF SInv, TypeOK, WriteBack, Write, Onward
<1>21. ASSUME NEW a \in Answers, RemovePending(a) PROVE Onward
  BY <1>21 DEF SInv, TypeOK, RemovePending, Onward
<1>22. ASSUME NEW p \in Procs, Die(p) PROVE Onward
  BY <1>22 DEF SInv, TypeOK, Die, Onward
<1>23. ASSUME NEW w \in Workers, Lands(w) PROVE Onward
  BY <1>23 DEF SInv, TypeOK, Lands, Onward
<1>24. ASSUME NEW w \in Workers, StartWorker(w) \/ Renewing(w) PROVE Onward
  BY <1>24, RenewalIsQuiet DEF SInv, TypeOK, Onward
<1>25. QED
  BY <1>1, <1>2, <1>3, <1>4, <1>5, <1>6, <1>7, <1>8, <1>9, <1>10, <1>11, <1>12, <1>13, <1>14, <1>15,
     <1>16, <1>17, <1>18, <1>19, <1>20, <1>21, <1>22, <1>23, <1>24
     DEF Next, AnswerStep, WorkerStep, Stopping, Restoring

\* What a worker holds is what stops the lease again.
LEMMA LoneStep ==
    ASSUME SInv, StageTells, OneRefusal => OwnStopUndone, LoneRestore, Next
    PROVE  LoneRestore'
<1> USE ProcsAssumption DEF Procs, At, Goto, files, seenBySender
<1> SUFFICES ASSUME NEW x \in refused', Alone(x)' PROVE EndsWell(x)'
  BY DEF LoneRestore
<1>a. x \in Answers /\ Alone(x)
  BY StartsOnce, SStep DEF Onward, Alone, SInv, TypeOK
<1>b. CASE x \notin refused
  BY <1>b, StartsOnce DEF Onward, EndsWell
<1> SUFFICES ASSUME x \in refused PROVE EndsWell(x)'
  BY <1>b
<1>c. OwnStopUndone /\ EndsWell(x) /\ \A b \in Answers \ {x} : pc[b] = "idle"
  BY <1>a DEF LoneRestore, Alone, OneRefusal, StageTells, Releasing, Undoing, SInv, TypeOK
<1>1. ASSUME NEW p \in Procs, WriteHold(p) PROVE EndsWell(x)'
  BY <1>a, <1>c, <1>1 DEF SInv, TypeOK, WriteHold, EndsWell, Alone, OwnStopUndone, StageTells,
     Releasing, Undoing
<1>2. ASSUME NEW p \in Procs, CreateStop(p) PROVE EndsWell(x)'
  BY <1>a, <1>c, <1>2 DEF SInv, TypeOK, CreateStop, EndsWell, Alone, OwnStopUndone, StageTells,
     Releasing, Undoing
<1>3. ASSUME NEW p \in Procs, WriteStop(p) PROVE EndsWell(x)'
  BY <1>a, <1>c, <1>3 DEF SInv, TypeOK, WriteStop, Write, AfterStop, EndsWell, Alone, OwnStopUndone,
     StageTells, Releasing, Undoing
<1>4. ASSUME NEW p \in Procs, HoldStop(p) PROVE EndsWell(x)'
  BY <1>a, <1>c, <1>4 DEF SInv, TypeOK, HoldStop, AfterStop, EndsWell, Alone, OwnStopUndone,
     StageTells, Releasing, Undoing
<1>5. ASSUME NEW p \in Procs, RemoveHold(p) PROVE EndsWell(x)'
  BY <1>a, <1>c, <1>5 DEF SInv, TypeOK, RemoveHold, AfterStop, EndsWell, Alone, OwnStopUndone,
     StageTells, Releasing, Undoing
<1>6. ASSUME NEW a \in Answers, Halt(a) PROVE EndsWell(x)'
  BY <1>a, <1>c, <1>6 DEF SInv, TypeOK, Halt, EndsWell, Alone, OwnStopUndone, StageTells, Releasing,
     Undoing
<1>7. ASSUME NEW a \in Answers, Settle(a) PROVE EndsWell(x)'
  BY <1>a, <1>c, <1>7 DEF SInv, TypeOK, Settle, LeaveSettle, Stopped, EndsWell, Alone,
     OwnStopUndone, StageTells, Releasing, Undoing
<1>8. ASSUME NEW a \in Answers, GiveUpWaiting(a) PROVE EndsWell(x)'
  BY <1>a, <1>c, <1>8 DEF SInv, TypeOK, GiveUpWaiting, EndsWell, Alone, OwnStopUndone, StageTells,
     Releasing, Undoing
<1>9. ASSUME NEW a \in Answers, Delivered(a) PROVE EndsWell(x)'
  BY <1>a, <1>c, <1>9 DEF SInv, TypeOK, Delivered, EndsWell, Alone, OwnStopUndone, StageTells,
     Releasing, Undoing
<1>10. ASSUME NEW a \in Answers, Refused(a) PROVE EndsWell(x)'
  BY <1>a, <1>c, <1>10 DEF SInv, TypeOK, Refused, EndsWell, Alone, OwnStopUndone, StageTells,
     Releasing, Undoing
<1>11. ASSUME NEW a \in Answers, DropHold(a) PROVE EndsWell(x)'
  BY <1>a, <1>c, <1>11 DEF SInv, TypeOK, DropHold, EndsWell, Alone, OwnStopUndone, StageTells,
     Releasing, Undoing
<1>12. ASSUME NEW a \in Answers, OthersHold(a) PROVE EndsWell(x)'
  BY <1>a, <1>c, <1>12 DEF SInv, TypeOK, OthersHold, EndsWell, Alone, OwnStopUndone, StageTells,
     Releasing, Undoing
<1>13. ASSUME NEW a \in Answers, ReadPending(a) PROVE EndsWell(x)'
  BY <1>a, <1>c, <1>13 DEF SInv, TypeOK, ReadPending, EndsWell, Alone, OwnStopUndone, StageTells,
     Releasing, Undoing
<1>14. ASSUME NEW a \in Answers, ReadStop(a) PROVE EndsWell(x)'
  BY <1>a, <1>c, <1>14 DEF SInv, TypeOK, ReadStop, Stopped, EndsWell, Alone, OwnStopUndone,
     StageTells, Releasing, Undoing
<1>15. ASSUME NEW a \in Answers, WritePending(a) PROVE EndsWell(x)'
  BY <1>a, <1>c, <1>15 DEF SInv, TypeOK, WritePending, EndsWell, Alone, OwnStopUndone, StageTells,
     Releasing, Undoing
<1>16. ASSUME NEW a \in Answers, StopHeld(a) PROVE EndsWell(x)'
  BY <1>a, <1>c, <1>16 DEF SInv, TypeOK, StopHeld, EndsWell, Alone, OwnStopUndone, StageTells,
     Releasing, Undoing
<1>17. ASSUME NEW a \in Answers, UnlinkStop(a) PROVE EndsWell(x)'
  BY <1>a, <1>c, <1>17 DEF SInv, TypeOK, UnlinkStop, EndsWell, Alone, OwnStopUndone, StageTells,
     Releasing, Undoing
<1>18. ASSUME NEW a \in Answers, Recheck(a) PROVE EndsWell(x)'
  BY <1>a, <1>c, <1>18 DEF SInv, TypeOK, Recheck, EndsWell, Alone, OwnStopUndone, StageTells,
     Releasing, Undoing
<1>19. ASSUME NEW a \in Answers, PutBack(a) PROVE EndsWell(x)'
  BY <1>a, <1>c, <1>19 DEF SInv, TypeOK, PutBack, EndsWell, Alone, OwnStopUndone, StageTells,
     Releasing, Undoing
<1>20. ASSUME NEW a \in Answers, WriteBack(a) PROVE EndsWell(x)'
  BY <1>a, <1>c, <1>20 DEF SInv, TypeOK, WriteBack, Write, EndsWell, Alone, OwnStopUndone,
     StageTells, Releasing, Undoing
<1>21. ASSUME NEW a \in Answers, RemovePending(a) PROVE EndsWell(x)'
  BY <1>a, <1>c, <1>21 DEF SInv, TypeOK, RemovePending, EndsWell, Alone, OwnStopUndone, StageTells,
     Releasing, Undoing
<1>22. ASSUME NEW p \in Procs, Die(p) PROVE EndsWell(x)'
  BY <1>a, <1>c, <1>22 DEF SInv, TypeOK, Die, EndsWell, Alone, OwnStopUndone, StageTells, Releasing,
     Undoing
<1>23. ASSUME NEW w \in Workers, Lands(w) PROVE EndsWell(x)'
  BY <1>a, <1>c, <1>23 DEF SInv, TypeOK, Lands, EndsWell, Alone, OwnStopUndone, StageTells,
     Releasing, Undoing
<1>24. ASSUME NEW w \in Workers, StartWorker(w) \/ Renewing(w) PROVE EndsWell(x)'
  BY <1>a, <1>c, <1>24, RenewalIsQuiet DEF SInv, TypeOK, EndsWell, Alone, OwnStopUndone, StageTells,
     Releasing, Undoing
<1>25. QED
  BY <1>1, <1>2, <1>3, <1>4, <1>5, <1>6, <1>7, <1>8, <1>9, <1>10, <1>11, <1>12, <1>13, <1>14, <1>15,
     <1>16, <1>17, <1>18, <1>19, <1>20, <1>21, <1>22, <1>23, <1>24
     DEF Next, AnswerStep, WorkerStep, Stopping, Restoring

LEMMA DInvariance == Spec => [](DInv /\ LoneRestore)
<1>1. Init => DInv /\ LoneRestore
  BY InitSInv, ProcsAssumption
     DEF Init, DInv, StageTells, OwnStopUndone, CommittedGuarded, Committed, LoneRestore, Procs,
         Releasing, Undoing
<1>2. DInv /\ LoneRestore /\ [Next]_vars => (DInv /\ LoneRestore)'
  <2>1. CASE UNCHANGED vars
    BY <2>1 DEF vars, files, seenBySender, DInv, SInv, TypeOK, LockKept, MarkerKept, RoundsLeft,
       StageTells, OneRefusal, OwnStopUndone, CommittedGuarded, Committed, LoneRestore, Alone, EndsWell
  <2>2. ASSUME DInv, LoneRestore, Next PROVE (DInv /\ LoneRestore)'
    <3>1. OneRefusal' => OneRefusal
      BY <2>2, RefusalsAreKept DEF OneRefusal
    <3>2. SInv' /\ StageTells' /\ LoneRestore'
      BY <2>2, SStep, StageStep, LoneStep DEF DInv
    <3>3. QED
      BY <2>2, <3>1, <3>2, UndoStep, GuardStep DEF DInv
  <2>3. QED
    BY <2>1, <2>2
<1>3. QED
  BY <1>1, <1>2, PTL DEF Spec

(***************************************************************************)
(* "put the stop back ... rather than show working after that answer"      *)
(* (auto-signals.ts:474-475): where one answer was refused, any number of  *)
(* delivered ones leave the lease stopped.                                 *)
(***************************************************************************)
THEOREM DeliveredKeepTheStop == Spec => []DeliveredStaysStopped
<1>1. DInv => DeliveredStaysStopped
  <2> SUFFICES ASSUME DInv, delivered # {}, OneRefusal,
                      \A a \in refused : ~InRestore(a) /\ pc[a] # "dead"
               PROVE  stop # None /\ (blank # None => pc[blank] \in {"write", "dead"})
    BY DEF DeliveredStaysStopped
  <2>1. stop # None
    BY DEF DInv, SInv, TypeOK, CommittedGuarded, Committed, InRestore
  <2>2. \A a \in Answers : pc[a] # "writeBack"
    BY DEF DInv, StageTells, Undoing, InRestore
  <2>3. QED
    BY <2>1, <2>2 DEF DInv, OwnStopUndone
<1>2. QED
  BY <1>1, DInvariance, PTL

(***************************************************************************)
(* An answer that was refused alone gives the lease back, whenever workers *)
(* stop it for their own reasons.                                          *)
(***************************************************************************)
THEOREM LoneAnswerRestores == Spec => []LoneRefusalRestores
<1>1. LoneRestore => LoneRefusalRestores
  BY DEF LoneRestore, Alone, EndsWell, LoneRefusalRestores
<1>2. QED
  BY <1>1, DInvariance, PTL
=============================================================================
