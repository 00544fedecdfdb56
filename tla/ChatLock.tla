------------------------------ MODULE ChatLock ------------------------------
(* The chat lock of cli-node/src/oclif/chat-lock.ts.  The lock is a file, a   *)
(* record with the holder's pid and a random id, published by linking it.     *)
(* A record whose pid is dead may be unlinked, but only by the one contender  *)
(* that is elected to: it links its own record as the guard of the dead one,  *)
(* or, if that guard is dead too, as the guard of the guard, and so on.       *)
(*                                                                           *)
(* Each action is one file operation or one kill(pid, 0).  A process is one   *)
(* incarnation; incarnations may share a pid.  The call ends with a           *)
(* ChatLockContentionError, or an error, wherever it goes back to "idle".     *)
(* acquireChatStateLock is this call made again until its deadline.           *)
EXTENDS Integers

CONSTANTS
    Procs,      \* process incarnations
    PidOf,      \* their pids
    Calls,      \* bound: how often each calls
    MaxDepth,   \* bound: how deeply a holder enters again
    None

ASSUME CallsAssumption == Calls \in [Procs -> Nat]
ASSUME DepthAssumption == MaxDepth \in Nat \ {0}

\* The record of a call; its contents and inode are its own.
Records == UNION {{p} \X (1..Calls[p]) : p \in Procs}
ASSUME NoneAssumption == None \notin Records \union Procs

VARIABLES
    alive, gone,
    path,       \* the record linked as the lock
    guard,      \* record to the record linked as its guard
    pc, call, depth,
    previous,   \* record of a call to the lock record that call found
    target,     \* the record whose guard is wanted, then cleaned
    seen,       \* the guard that was read
    links,      \* the guards passed or taken, by the record they guard
    published,  \* history: every record that was the lock
    crossed     \* history: some call went over another lock's guard

lockVars == <<path, guard>>
procVars == <<alive, gone>>
callVars == <<call, depth, previous, links>>
history == <<published, crossed>>
vars == <<procVars, lockVars, pc, callVars, target, seen, history>>

Stages == {"idle", "publish", "read", "probe", "elect", "readGuard",
           "probeGuard", "recheck", "reprobe", "unlink", "verify", "match",
           "remove", "republish", "held", "release", "releaseUnlink"}

Owner(r) == r[1]
Mine(p) == <<p, call[p]>>
Previous(p) == previous[Mine(p)]

\* pidIsAlive, of the pid in a record.
PidIsAlive(r) == \E q \in alive : PidOf[q] = PidOf[Owner(r)]

At(p, stage) == p \in alive /\ pc[p] = stage
Goto(p, stage) == pc' = [pc EXCEPT ![p] = stage]

Init ==
    /\ alive = {} /\ gone = {}
    /\ path = None
    /\ guard = [r \in Records |-> None]
    /\ pc = [p \in Procs |-> "idle"]
    /\ call = [p \in Procs |-> 0]
    /\ depth = [p \in Procs |-> 0]
    /\ previous = [r \in Records |-> None]
    /\ target = [p \in Procs |-> None]
    /\ seen = [p \in Procs |-> None]
    /\ links = [p \in Procs |-> [r \in Records |-> None]]
    /\ published = {} /\ crossed = FALSE

Spawn(p) ==
    /\ p \notin alive \union gone
    /\ \A q \in alive : PidOf[q] # PidOf[p]
    /\ alive' = alive \union {p}
    /\ UNCHANGED <<gone, lockVars, pc, callVars, target, seen, history>>

\* Killed at any point; its links stay.
Die(p) ==
    /\ p \in alive
    /\ alive' = alive \ {p} /\ gone' = gone \union {p}
    /\ UNCHANGED <<lockVars, pc, callVars, target, seen, history>>

-----------------------------------------------------------------------------
(* acquireChatLock.                                                          *)

\* The record is written to a temporary file of its own.
Start(p) ==
    /\ At(p, "idle") /\ call[p] < Calls[p]
    /\ call' = [call EXCEPT ![p] = @ + 1]
    /\ Goto(p, "publish")
    /\ UNCHANGED <<procVars, lockVars, depth, previous, links, target, seen, history>>

\* publish: linking fails if there is a lock.
Publishing(p, otherwise) ==
    IF path = None
      THEN /\ path' = Mine(p)
           /\ published' = published \union {Mine(p)}
           /\ depth' = [depth EXCEPT ![p] = 1]
           /\ Goto(p, "held")
      ELSE Goto(p, otherwise) /\ UNCHANGED <<path, published, depth>>

Publish(p) ==
    /\ At(p, "publish")
    /\ Publishing(p, "read")
    /\ UNCHANGED <<procVars, guard, call, previous, links, target, seen, crossed>>

ReadLock(p) ==
    /\ At(p, "read")
    /\ IF path = None
         THEN Goto(p, "idle") /\ UNCHANGED previous
         ELSE Goto(p, "probe") /\ previous' = [previous EXCEPT ![Mine(p)] = path]
    /\ UNCHANGED <<procVars, lockVars, call, depth, links, target, seen, history>>

ProbeHolder(p) ==
    /\ At(p, "probe")
    /\ IF PidIsAlive(Previous(p))
         THEN Goto(p, "idle") /\ UNCHANGED <<target, links>>
         ELSE /\ Goto(p, "elect")
              /\ target' = [target EXCEPT ![p] = Previous(p)]
              /\ links' = [links EXCEPT ![p] = [r \in Records |-> None]]
    /\ UNCHANGED <<procVars, lockVars, call, depth, previous, seen, history>>

-----------------------------------------------------------------------------
(* reclaimStaleLock.                                                         *)

\* The record of a reclaimer is a guard first and the lock later.  A contender
\* that still follows the guards of the old lock can so arrive at the guard of
\* the new one, though "New lock generations use different guards".
Meets(p, r) == links' = [links EXCEPT ![p] = [@ EXCEPT ![target[p]] = r]]
Crossing(p) ==
    crossed' = (crossed \/ (target[p] \in published /\ target[p] # Previous(p)))

ElectSelf(p) ==
    /\ At(p, "elect")
    /\ links[p][target[p]] = None /\ guard[target[p]] = None
    /\ guard' = [guard EXCEPT ![target[p]] = Mine(p)]
    /\ Meets(p, Mine(p)) /\ Crossing(p)
    /\ Goto(p, "recheck")
    /\ UNCHANGED <<procVars, path, call, depth, previous, target, seen, published>>

\* The guard exists, or was met before on the way.
ElectRefused(p) ==
    /\ At(p, "elect")
    /\ IF links[p][target[p]] # None
         THEN Goto(p, "idle")
         ELSE guard[target[p]] # None /\ Goto(p, "readGuard")
    /\ UNCHANGED <<procVars, lockVars, callVars, target, seen, history>>

ReadGuard(p) ==
    /\ At(p, "readGuard")
    /\ seen' = [seen EXCEPT ![p] = guard[target[p]]]
    /\ Goto(p, IF guard[target[p]] = None THEN "idle" ELSE "probeGuard")
    /\ UNCHANGED <<procVars, lockVars, callVars, target, history>>

\* With a bug: a dead guard makes the call fail like a live one.
ProbeGuardRefusing(p) ==
    /\ At(p, "probeGuard")
    /\ Goto(p, "idle")
    /\ UNCHANGED <<procVars, lockVars, callVars, target, seen, history>>

\* "Each successor is elected against an immutable record."
ProbeGuard(p) ==
    /\ At(p, "probeGuard")
    /\ IF PidIsAlive(seen[p])
         THEN Goto(p, "idle") /\ UNCHANGED <<target, links, crossed>>
         ELSE /\ Goto(p, "elect")
              /\ Meets(p, seen[p]) /\ Crossing(p)
              /\ target' = [target EXCEPT ![p] = seen[p]]
    /\ UNCHANGED <<procVars, lockVars, call, depth, previous, seen, published>>

\* With a bug: the elected contender trusts what it read before its election.
RecheckNothing(p) ==
    /\ At(p, "recheck")
    /\ Goto(p, "reprobe")
    /\ UNCHANGED <<procVars, lockVars, callVars, target, seen, history>>

\* "Delayed contenders must recheck it."
Recheck(p) ==
    /\ At(p, "recheck")
    /\ Goto(p, IF path = Previous(p) THEN "reprobe" ELSE "verify")
    /\ UNCHANGED <<procVars, lockVars, callVars, target, seen, history>>

Reprobe(p) ==
    /\ At(p, "reprobe")
    /\ Goto(p, IF PidIsAlive(Previous(p)) THEN "verify" ELSE "unlink")
    /\ UNCHANGED <<procVars, lockVars, callVars, target, seen, history>>

\* By name; without a file there it throws.
Unlink(p) ==
    /\ At(p, "unlink")
    /\ path' = None
    /\ Goto(p, IF path = None THEN "idle" ELSE "verify")
    /\ UNCHANGED <<procVars, guard, callVars, target, seen, history>>

\* Guards are cleaned only once the record is gone.
Verify(p) ==
    /\ At(p, "verify")
    /\ IF path = Previous(p)
         THEN Goto(p, "republish") /\ UNCHANGED target
         ELSE Goto(p, "match") /\ target' = [target EXCEPT ![p] = Previous(p)]
    /\ UNCHANGED <<procVars, lockVars, callVars, seen, history>>

\* From one guard on the way to the next.
CleanNext(p) ==
    IF links[p][target[p]] = Mine(p)
      THEN Goto(p, "republish") /\ UNCHANGED target
      ELSE Goto(p, "match") /\ target' = [target EXCEPT ![p] = links[p][target[p]]]

CleanMatch(p) ==
    /\ At(p, "match")
    /\ IF guard[target[p]] = links[p][target[p]]
         THEN Goto(p, "remove") /\ UNCHANGED target
         ELSE CleanNext(p)
    /\ UNCHANGED <<procVars, lockVars, callVars, seen, history>>

CleanRemove(p) ==
    /\ At(p, "remove")
    /\ guard' = [guard EXCEPT ![target[p]] = None]
    /\ CleanNext(p)
    /\ UNCHANGED <<procVars, path, callVars, seen, history>>

Republish(p) ==
    /\ At(p, "republish")
    /\ Publishing(p, "idle")
    /\ UNCHANGED <<procVars, guard, call, previous, links, target, seen, crossed>>

-----------------------------------------------------------------------------
(* The holder.                                                               *)

\* acquireChatLock of a scope this process holds.
Reenter(p) ==
    /\ At(p, "held") /\ path = Mine(p) /\ depth[p] < MaxDepth
    /\ depth' = [depth EXCEPT ![p] = @ + 1]
    /\ UNCHANGED <<procVars, lockVars, pc, call, previous, links, target, seen, history>>

\* releaseHolder.  The exit listener does this for every depth at once.
Release(p) ==
    /\ At(p, "held")
    /\ depth' = [depth EXCEPT ![p] = @ - 1]
    /\ Goto(p, IF depth[p] = 1 THEN "release" ELSE "held")
    /\ UNCHANGED <<procVars, lockVars, call, previous, links, target, seen, history>>

\* removeOwnedLock looks before it unlinks.
ReleaseMatch(p) ==
    /\ At(p, "release")
    /\ Goto(p, IF path = Mine(p) THEN "releaseUnlink" ELSE "idle")
    /\ UNCHANGED <<procVars, lockVars, callVars, target, seen, history>>

ReleaseUnlink(p) ==
    /\ At(p, "releaseUnlink")
    /\ path' = None
    /\ Goto(p, "idle")
    /\ UNCHANGED <<procVars, guard, callVars, target, seen, history>>

Acquiring(p) ==
    \/ Publish(p) \/ ReadLock(p) \/ ProbeHolder(p)
    \/ ElectSelf(p) \/ ElectRefused(p) \/ ReadGuard(p) \/ ProbeGuard(p)
    \/ Recheck(p) \/ Reprobe(p) \/ Unlink(p) \/ Verify(p)
    \/ CleanMatch(p) \/ CleanRemove(p) \/ Republish(p)

Holding(p) == Reenter(p) \/ Release(p) \/ ReleaseMatch(p) \/ ReleaseUnlink(p)

Next == \E p \in Procs : Spawn(p) \/ Die(p) \/ Start(p) \/ Acquiring(p) \/ Holding(p)

Spec == Init /\ [][Next]_vars

\* A live process runs its synchronous call to the end.
FairSpec == Spec /\ \A p \in Procs : WF_vars(Acquiring(p))

-----------------------------------------------------------------------------
Holds(p) == At(p, "held")

\* The refinement mapping to the abstract lock the chat commands rely on.
Holders == {p \in Procs : Holds(p)}
Holder == IF Holders = {} THEN None ELSE CHOOSE p \in Holders : TRUE
Lock == INSTANCE MutexLock WITH Clients <- Procs, Nobody <- None, holder <- Holder

\* A holder gives up only as often as it took the lock, a contender cleans
\* only after an election, and no record is its own guard or predecessor.
TypeOK ==
    /\ alive \subseteq Procs /\ gone \subseteq Procs /\ alive \cap gone = {}
    /\ path \in Records \union {None}
    /\ guard \in [Records -> Records \union {None}]
    /\ pc \in [Procs -> Stages]
    /\ call \in [Procs -> Nat] /\ \A p \in Procs : call[p] <= Calls[p]
    /\ depth \in [Procs -> 0..MaxDepth]
    /\ previous \in [Records -> Records \union {None}]
    /\ target \in [Procs -> Records \union {None}]
    /\ seen \in [Procs -> Records \union {None}]
    /\ links \in [Procs -> [Records -> Records \union {None}]]
    /\ published \subseteq Records /\ crossed \in BOOLEAN
    /\ \A r \in Records : guard[r] # r /\ previous[r] # r

\* "keeps exactly one owner when real processes reclaim a crashed successor"
\* (chat-lock.test.ts:275): two live processes never both have the lock.
MutualExclusion == \A p, q \in Procs : Holds(p) /\ Holds(q) => p = q

\* "Never unlink a dead guard to take it over: that would recreate the
\* stale-lock deletion race" (chat-lock.ts:127-128): the lock file is a live
\* holder's own record until it releases, whatever delayed reclaimers do, as
\* long as no election went over the guards of another lock.
HolderKeepsRecord == crossed \/ \A p \in Procs : Holds(p) => path = Mine(p)

\* The records on disk, the lock and the guards.
Linked == ({path} \union {guard[r] : r \in Records}) \ {None}

\* "A crashed successor is recovered in exactly the same way on the next try"
\* (chat-lock.ts:129): whatever crashed contenders left, of whatever chain of
\* guards, a process that starts alone gets the lock in that one call, unless
\* a record carries the pid of a live process, its own included.
LoneContenderAcquires ==
    \A p \in Procs :
        (alive = {p} /\ At(p, "publish") /\ \A r \in Linked : ~PidIsAlive(r))
            ~> (Holds(p) \/ alive # {p})
=============================================================================
