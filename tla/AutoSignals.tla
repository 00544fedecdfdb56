---------------------------- MODULE AutoSignals ----------------------------
(* Automatic "working" signals for one email: auto-signals.ts and            *)
(* auto-signal-worker.ts of cli-node/src/oclif.                             *)
(*                                                                          *)
(* A detached worker renews the signal while the lease has no stop file.  A   *)
(* command that answers the email first stops the lease, waits for a renewal  *)
(* in flight, sends, and undoes the stop if the server refused its answer.    *)
(* An action is one file operation, or what a request or the network does;    *)
(* answers and workers are processes that share files only, and may be killed *)
(* anywhere.  A stop file is there before it can be read (blank); of the      *)
(* other files, whose content is their existence or is read by path once,     *)
(* creating and writing is one step.                                          *)
EXTENDS Integers, FiniteSets

CONSTANTS
    Answers,   \* commands answering the email; also their stop tokens
    Workers,   \* renewing processes; also their stop tokens
    MaxRounds, \* the bound of a worker's rounds (10 in the code)
    None

ASSUME ProcsAssumption == Answers \intersect Workers = {} /\ None \notin Answers \union Workers
ASSUME MaxRoundsAssumption == MaxRounds \in Nat \ {0}

Procs == Answers \union Workers

VARIABLES
    stop,      \* token in stopped.json, or None: no such file
    blank,     \* who created stopped.json and has not written it yet, or None
    holds,     \* files in stop-holds/
    pending,   \* token in restore-pending.json, or None
    sending,   \* the worker named in the file `sending`, or None
    lock,      \* the worker with the email's renewer lock, or None
    pc,
    owns,      \* stopWorkingLease told this answer it owns the stop
    target,    \* the token a restoring answer undoes
    round,     \* rounds a worker has begun
    wire,      \* workers whose signal is on its way to receivers
    halted,    \* history: answers that left their wait with a readable stop and
               \* no renewal in flight, and were not refused or killed since
    delivered, \* answers the server accepted
    refused    \* answers it definitely refused

files == <<stop, blank, holds, pending, sending>>
seenBySender == <<wire, halted, delivered, refused>>
vars == <<files, lock, pc, owns, target, round, seenBySender>>

AnswerStages == {"idle", "hold", "stop", "write", "unhold", "settle", "send",
                 "dropHold", "othersHold", "readPending",
                 "readStop", "pend", "held", "unlinkStop", "recheck", "putBack", "writeBack",
                 "unpend",
                 "done", "dead"}
WorkerStages == {"idle", "acquire", "read", "ask", "mark", "active", "shouldSend", "post",
                 "answer", "clearSleep", "clearStop", "clearExit", "sleep",
                 "hold", "stop", "write", "unhold", "release", "again", "done", "dead"}

\* The state startWorkingLease leaves: working.json exists, nothing else does.
Init ==
    /\ stop = None /\ blank = None /\ holds = {} /\ pending = None /\ sending = None
    /\ lock = None
    /\ pc = [p \in Procs |-> "idle"]
    /\ owns = [a \in Answers |-> FALSE]
    /\ target = [a \in Answers |-> None]
    /\ round = [w \in Workers |-> 0]
    /\ wire = {} /\ halted = {} /\ delivered = {} /\ refused = {}

At(p, stage) == pc[p] = stage
Goto(p, stage) == pc' = [pc EXCEPT ![p] = stage]

\* readStop: a stop that is not written yet reads as none.
Stopped == stop # None /\ blank = None

-----------------------------------------------------------------------------
(* stopWorkingLease, by an answer (haltAutoWorking) or by a worker.         *)

AfterStop(p) == IF p \in Answers THEN "settle" ELSE "release"

\* The hold is written before the stop is attempted.
WriteHold(p) ==
    /\ At(p, "hold")
    /\ holds' = holds \union {p}
    /\ Goto(p, "stop")
    /\ UNCHANGED <<stop, blank, pending, sending, lock, owns, target, round, seenBySender>>

\* stopped.json is created exclusively: the creator owns the stop, ...
CreateStop(p) ==
    /\ At(p, "stop")
    /\ stop = None
    /\ stop' = p /\ blank' = p
    /\ owns' = [a \in Answers |-> owns[a] \/ a = p]
    /\ Goto(p, "write")
    /\ UNCHANGED <<holds, pending, sending, lock, target, round, seenBySender>>

\* What a process writes goes to the file it created, if that is still there.
Write(p) == blank' = IF blank = p THEN None ELSE blank

WriteStop(p) ==
    /\ At(p, "write")
    /\ Write(p)
    /\ Goto(p, "unhold")
    /\ UNCHANGED <<stop, holds, pending, sending, lock, owns, target, round, seenBySender>>

\* ... anyone else keeps its hold on it.
HoldStop(p) ==
    /\ At(p, "stop")
    /\ stop # None
    /\ Goto(p, AfterStop(p))
    /\ UNCHANGED <<files, lock, owns, target, round, seenBySender>>

RemoveHold(p) ==
    /\ At(p, "unhold")
    /\ holds' = holds \ {p}
    /\ Goto(p, AfterStop(p))
    /\ UNCHANGED <<stop, blank, pending, sending, lock, owns, target, round, seenBySender>>

-----------------------------------------------------------------------------
(* An answer.                                                               *)

Halt(a) ==
    /\ At(a, "idle")
    /\ Goto(a, "hold")
    /\ UNCHANGED <<files, lock, owns, target, round, seenBySender>>

\* With a bug: the marker a killed worker left counts as a renewal in flight.
MarkerExists == sending # None

\* sendingInFlight: the marker's process is alive.
SendingInFlight == sending # None /\ pc[sending] \notin {"done", "dead"}

\* The wait is over: for an answer that may rely on the stop, or for any other.
LeaveSettle(a) ==
    /\ At(a, "settle")
    /\ halted' = IF Stopped THEN halted \union {a} ELSE halted
    /\ Goto(a, "send")
    /\ UNCHANGED <<files, lock, owns, target, round, wire, delivered, refused>>

\* With a bug: does not wait for a renewal in flight.
SettleAtOnce(a) == LeaveSettle(a)

Settle(a) == ~SendingInFlight /\ LeaveSettle(a)

\* SENDING_STALE_MS: a marker that old, or a wait that long, does not count.
GiveUpWaiting(a) ==
    /\ At(a, "settle")
    /\ Goto(a, "send")
    /\ UNCHANGED <<files, lock, owns, target, round, seenBySender>>

\* The server accepts the answer, whether or not the command learns of it.
Delivered(a) ==
    /\ At(a, "send")
    /\ delivered' = delivered \union {a}
    /\ Goto(a, "done")
    /\ UNCHANGED <<files, lock, owns, target, round, wire, halted, refused>>

\* With a bug: the owner of the stop only releases a hold it does not have.
RefusedReleases(a) ==
    /\ At(a, "send")
    /\ refused' = refused \union {a} /\ halted' = halted \ {a}
    /\ Goto(a, "dropHold")
    /\ UNCHANGED <<files, lock, owns, target, round, wire, delivered>>

\* restoreAutoWorking, of an answer that was definitely refused.
Refused(a) ==
    /\ At(a, "send")
    /\ refused' = refused \union {a} /\ halted' = halted \ {a}
    /\ target' = [target EXCEPT ![a] = IF owns[a] THEN a ELSE None]
    /\ Goto(a, IF owns[a] THEN "readStop" ELSE "dropHold")
    /\ UNCHANGED <<files, lock, owns, round, wire, delivered>>

-----------------------------------------------------------------------------
(* releaseStopHold: the last holder finishes a pending restore.             *)

DropHold(a) ==
    /\ At(a, "dropHold")
    /\ holds' = holds \ {a}
    /\ Goto(a, "othersHold")
    /\ UNCHANGED <<stop, blank, pending, sending, lock, owns, target, round, seenBySender>>

OthersHold(a) ==
    /\ At(a, "othersHold")
    /\ Goto(a, IF holds # {} THEN "done" ELSE "readPending")
    /\ UNCHANGED <<files, lock, owns, target, round, seenBySender>>

ReadPending(a) ==
    /\ At(a, "readPending")
    /\ target' = [target EXCEPT ![a] = pending]
    /\ Goto(a, IF pending = None THEN "done" ELSE "readStop")
    /\ UNCHANGED <<files, lock, owns, round, seenBySender>>

-----------------------------------------------------------------------------
(* restoreWorkingLease(target).                                             *)

ReadStop(a) ==
    /\ At(a, "readStop")
    /\ Goto(a, IF Stopped /\ stop = target[a] THEN "pend" ELSE "done")
    /\ UNCHANGED <<files, lock, owns, target, round, seenBySender>>

WritePending(a) ==
    /\ At(a, "pend")
    /\ pending' = target[a]
    /\ Goto(a, "held")
    /\ UNCHANGED <<stop, blank, holds, sending, lock, owns, target, round, seenBySender>>

StopHeld(a) ==
    /\ At(a, "held")
    /\ Goto(a, IF holds # {} THEN "done" ELSE "unlinkStop")
    /\ UNCHANGED <<files, lock, owns, target, round, seenBySender>>

\* unlinkSync by path: it throws, and the restore ends, when there is none.
UnlinkStop(a) ==
    /\ At(a, "unlinkStop")
    /\ stop' = None /\ blank' = None
    /\ Goto(a, IF stop = None THEN "done" ELSE "recheck")
    /\ UNCHANGED <<holds, pending, sending, lock, owns, target, round, seenBySender>>

\* With a bug: a hold written during the restore is not looked for.
RecheckNothing(a) ==
    /\ At(a, "recheck")
    /\ Goto(a, "unpend")
    /\ UNCHANGED <<files, lock, owns, target, round, seenBySender>>

Recheck(a) ==
    /\ At(a, "recheck")
    /\ Goto(a, IF holds # {} THEN "putBack" ELSE "unpend")
    /\ UNCHANGED <<files, lock, owns, target, round, seenBySender>>

\* Exclusive again: "The concurrent answer created its own stop."
PutBack(a) ==
    /\ At(a, "putBack")
    /\ IF stop = None
         THEN stop' = target[a] /\ blank' = a /\ Goto(a, "writeBack")
         ELSE UNCHANGED <<stop, blank>> /\ Goto(a, "done")
    /\ UNCHANGED <<holds, pending, sending, lock, owns, target, round, seenBySender>>

WriteBack(a) ==
    /\ At(a, "writeBack")
    /\ Write(a)
    /\ Goto(a, "done")
    /\ UNCHANGED <<stop, holds, pending, sending, lock, owns, target, round, seenBySender>>

RemovePending(a) ==
    /\ At(a, "unpend")
    /\ pending' = None
    /\ Goto(a, "done")
    /\ UNCHANGED <<stop, blank, holds, sending, lock, owns, target, round, seenBySender>>

-----------------------------------------------------------------------------
(* runAutoSignalWorker.  A worker is spawned by the read that started the    *)
(* lease, by a restore, or by any later command (resumeAutoWorking).         *)

StartWorker(w) ==
    /\ At(w, "idle")
    /\ Goto(w, "acquire")
    /\ UNCHANGED <<files, lock, owns, target, round, seenBySender>>

\* acquireListenLock; another renewer owns the email otherwise.
AcquireLock(w) ==
    /\ At(w, "acquire")
    /\ lock' = IF lock = None THEN w ELSE lock
    /\ round' = [round EXCEPT ![w] = @ + 1]
    /\ Goto(w, IF lock = None THEN "read" ELSE "done")
    /\ UNCHANGED <<files, owns, target, seenBySender>>

\* A stopped lease ends the round; so does its cap, which stops it.
ReadLease(w) ==
    /\ At(w, "read")
    /\ IF Stopped THEN Goto(w, "release")
                  ELSE Goto(w, "ask") \/ Goto(w, "hold")
    /\ UNCHANGED <<files, lock, owns, target, round, seenBySender>>

\* answered(): the thread shows an answer; unknown reads as none.
AskAnswered(w) ==
    /\ At(w, "ask")
    /\ Goto(w, "mark") \/ (delivered # {} /\ Goto(w, "hold"))
    /\ UNCHANGED <<files, lock, owns, target, round, seenBySender>>

\* markWorkingSending comes before the lease is read again.
MarkSending(w) ==
    /\ At(w, "mark")
    /\ sending' = w
    /\ Goto(w, "active")
    /\ UNCHANGED <<stop, blank, holds, pending, lock, owns, target, round, seenBySender>>

CheckActive(w) ==
    /\ At(w, "active")
    /\ Goto(w, IF Stopped THEN "clearExit" ELSE "shouldSend")
    /\ UNCHANGED <<files, lock, owns, target, round, seenBySender>>

\* sendSignal asks shouldSend last, after its own reads.
ShouldSend(w) ==
    /\ At(w, "shouldSend")
    /\ Goto(w, IF Stopped THEN "clearSleep" ELSE "post")
    /\ UNCHANGED <<files, lock, owns, target, round, seenBySender>>

PostSignal(w) ==
    /\ At(w, "post")
    /\ wire' = wire \union {w}
    /\ Goto(w, "answer")
    /\ UNCHANGED <<files, lock, owns, target, round, halted, delivered, refused>>

\* The request reaches the server and the signal receivers, or it is lost;
\* whether or not its worker still waits for it.
Lands(w) ==
    /\ w \in wire
    /\ wire' = wire \ {w}
    /\ UNCHANGED <<files, lock, pc, owns, target, round, halted, delivered, refused>>

\* An answer, which may refuse the parent, or the time of the request is up
\* wherever it is.
SignalAnswered(w) ==
    /\ At(w, "answer")
    /\ Goto(w, "clearSleep") \/ (w \notin wire /\ Goto(w, "clearStop"))
    /\ UNCHANGED <<files, lock, owns, target, round, seenBySender>>

AfterSending(stage) ==
    CASE stage = "clearSleep" -> "sleep"
      [] stage = "clearStop" -> "hold"
      [] stage = "clearExit" -> "release"

ClearSending(w) ==
    /\ pc[w] \in {"clearSleep", "clearStop", "clearExit"}
    /\ sending' = None
    /\ Goto(w, AfterSending(pc[w]))
    /\ UNCHANGED <<stop, blank, holds, pending, lock, owns, target, round, seenBySender>>

\* Until the next window, waking every second to look for a stop.
Sleep(w) ==
    /\ At(w, "sleep")
    /\ Goto(w, IF Stopped THEN "release" ELSE "read")
    /\ UNCHANGED <<files, lock, owns, target, round, seenBySender>>

ReleaseLock(w) ==
    /\ At(w, "release")
    /\ lock' = None
    /\ Goto(w, "again")
    /\ UNCHANGED <<files, owns, target, round, seenBySender>>

\* The stop may have been undone since; the cap, or enough rounds, end it.
CheckAgain(w) ==
    /\ At(w, "again")
    /\ IF ~Stopped /\ round[w] < MaxRounds
         THEN Goto(w, "acquire") \/ Goto(w, "done")
         ELSE Goto(w, "done")
    /\ UNCHANGED <<files, lock, owns, target, round, seenBySender>>

-----------------------------------------------------------------------------
\* A process is killed; its lock is reclaimed, its files stay.
Die(p) ==
    /\ pc[p] \notin {"idle", "done", "dead"}
    /\ Goto(p, "dead")
    /\ lock' = IF lock = p THEN None ELSE lock
    /\ halted' = halted \ {p}
    /\ UNCHANGED <<files, owns, target, round, wire, delivered, refused>>

Stopping(p) == WriteHold(p) \/ CreateStop(p) \/ WriteStop(p) \/ HoldStop(p) \/ RemoveHold(p)

Restoring(a) ==
    \/ DropHold(a) \/ OthersHold(a) \/ ReadPending(a)
    \/ ReadStop(a) \/ WritePending(a) \/ StopHeld(a) \/ UnlinkStop(a)
    \/ Recheck(a) \/ PutBack(a) \/ WriteBack(a) \/ RemovePending(a)

Renewing(w) ==
    \/ AcquireLock(w) \/ ReadLease(w) \/ AskAnswered(w) \/ MarkSending(w)
    \/ CheckActive(w) \/ ShouldSend(w) \/ PostSignal(w)
    \/ SignalAnswered(w) \/ ClearSending(w) \/ Sleep(w) \/ ReleaseLock(w) \/ CheckAgain(w)

AnswerStep(a) == Stopping(a) \/ Settle(a) \/ Delivered(a) \/ Refused(a) \/ Restoring(a)

WorkerStep(w) == Stopping(w) \/ Renewing(w)

Next ==
    \/ \E a \in Answers : Halt(a) \/ AnswerStep(a) \/ GiveUpWaiting(a)
    \/ \E w \in Workers : StartWorker(w) \/ WorkerStep(w) \/ Lands(w)
    \/ \E p \in Procs : Die(p)

Spec == Init /\ [][Next]_vars

\* A live worker goes on; its requests return by their timeouts.  A halted
\* answer looks for the marker every 50 ms, and renewals are minutes apart, so
\* it does not miss their absence for ever.
FairSpec ==
    /\ Spec
    /\ \A a \in Answers : SF_vars(Settle(a))
    /\ \A w \in Workers : WF_vars(WorkerStep(w))

-----------------------------------------------------------------------------
TypeOK ==
    /\ stop \in Procs \union {None} /\ blank \in Procs \union {None}
    /\ holds \subseteq Procs
    /\ pending \in Answers \union {None}
    /\ sending \in Workers \union {None}
    /\ lock \in Workers \union {None}
    /\ pc \in [Procs -> AnswerStages \union WorkerStages]
    /\ owns \in [Answers -> BOOLEAN]
    /\ target \in [Answers -> Answers \union {None}]
    /\ round \in [Workers -> 0..MaxRounds]
    /\ wire \subseteq Workers
    /\ halted \subseteq Answers /\ delivered \subseteq Answers /\ refused \subseteq Answers

\* Once an answer reached the sender no signal is on its way to receivers: "A
\* renewal that reached receivers after the answer would show the agent as
\* working again" (auto-signals.ts:621-622).
NoWorkingAfterAnswer == delivered # {} => wire = {}

\* The same for what the stop and the wait for a renewal in flight can order.
\* After an answer that left its wait for a written stop with no renewal in
\* flight, no worker has a signal on its way, as long as no other answer was
\* refused.  What is not ordered is a signal left on its way by a worker that
\* was killed or whose request timed out, and an answer that gave up waiting
\* or relied on a stop which another command had created and not yet written.
AnswerEndsWorking ==
    refused = {} /\ delivered \intersect halted # {} => \A w \in wire : pc[w] # "answer"

InRestore(a) == pc[a] \in {"unlinkStop", "recheck", "putBack", "writeBack", "unpend"}

OneRefusal == \A a, b \in refused : a = b

\* An answer that reached the sender leaves the lease stopped, so the cap is
\* not what ends its renewal: whatever a refused answer undid meanwhile is put
\* back, unless its command is in the middle of that or was killed there.  A
\* stop that cannot be read is being written, or its command was killed.  Two
\* refused answers may restore at once, and then the later one can remove the
\* stop of an answer that came in between.
DeliveredStaysStopped ==
    delivered # {} /\ OneRefusal /\ (\A a \in refused : ~InRestore(a) /\ pc[a] # "dead")
        => stop # None /\ (blank # None => pc[blank] \in {"write", "dead"})

\* If every answer was refused and has finished, the sender sees working
\* again: "the last holder to release finishes it if its answer was refused
\* too" (auto-signals.ts:452-454).  Stops of a worker stay, and so does what a
\* killed command left.
RefusedAnswersRestore ==
    (\A a \in Answers : pc[a] = "done" /\ a \in refused) =>
        stop \notin Answers \/ holds # {}

\* A refused answer that no other command was answering beside leaves no stop
\* of its own, unless a worker that reached the cap holds it.
LoneRefusalRestores ==
    \A a \in refused :
        pc[a] = "done" /\ (\A b \in Answers \ {a} : pc[b] = "idle") =>
            stop # a \/ holds \intersect Workers # {}

\* "A stop made by anyone else (cap, answered, another reply) is left alone"
\* (auto-signals.ts:451): a stop disappears only through a restore of its own
\* token.
OthersStopLeftAlone ==
    [][stop # None /\ stop' # stop =>
         \E a \in Answers : At(a, "unlinkStop") /\ ~At(a, "unlinkStop")' /\ target[a] = stop]_vars

\* A renewer holds the email's lock whenever it may post a signal, so windows
\* are renewed by one process at a time.
OneRenewer ==
    \A w \in Workers : pc[w] \in {"mark", "active", "shouldSend", "post"} => lock = w

\* An answer is never kept waiting by its own courtesy: every halted command,
\* which waits once, gets to send.
AnswersGoOut == []<>(\A a \in Answers : pc[a] # "settle")
=============================================================================
