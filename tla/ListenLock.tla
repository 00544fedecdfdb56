---------------------------- MODULE ListenLock ----------------------------
(* The cross-process lock of cli-node/src/oclif/listen-state.ts.           *)
(*                                                                         *)
(* A lock is a directory holding exactly one owner file.  A contender      *)
(* builds a private candidate directory and renames it over the lock path: *)
(* the rename succeeds when the path is missing or is an EMPTY directory,  *)
(* and fails on a non-empty one.  A dead owner is removed with unlink then *)
(* rmdir, two steps another contender can fall between.                    *)
(*                                                                         *)
(* Every action is one system call.  A member of Procs is one incarnation  *)
(* of an operating-system process; two incarnations may carry one pid, but *)
(* never at the same time.                                                 *)
EXTENDS Integers, FiniteSets

CONSTANTS
    Procs,        \* process incarnations that may run the CLI
    PidOf,        \* the process id each incarnation runs under
    Probers,      \* callers of listenLockHeld
    MaxAttempts,  \* the bound of the attempt loop (8 in the code)
    MaxClaims,    \* model bound: acquireListenLock calls of one incarnation
    Hidden,       \* incarnations whose identity the OS may withhold
    Unknown       \* the identity recorded or read when it does

ASSUME MaxAttemptsAssumption == MaxAttempts \in Nat \ {0}
ASSUME MaxClaimsAssumption == MaxClaims \in Nat
ASSUME HiddenAssumption == Hidden \subseteq Procs
ASSUME UnknownAssumption == Unknown \notin Procs

VARIABLES
    alive,    \* incarnations running now
    gone,     \* incarnations that exited or crashed
    present,  \* the lock path exists
    entries,  \* the owner files in it
    pc,       \* where each incarnation is in acquireListenLock
    claim,    \* acquireListenLock calls it has made (the random uuid)
    mine,     \* the owner file it created for the current call
    attempt,  \* its index in the attempt loop
    seen,     \* the owner file its readdir returned
    probe,    \* where each prober is in listenLockHeld
    probed,   \* the owner file its readdir returned
    answer    \* what its last call returned

lockVars == <<alive, gone, present, entries, pc, claim, mine, attempt, seen>>
probeVars == <<probe, probed, answer>>
vars == <<lockVars, probeVars>>

Identities == Procs \union {Unknown}

\* An owner file: named <pid>-<uuid>, holding the creator's identity.
Owners == [proc : Procs, claim : 1..MaxClaims, identity : Identities]
NoOwner == [proc |-> Unknown, claim |-> 0, identity |-> Unknown]

Stages == {"idle", "rename", "list", "probe", "verify", "unlink", "rmdir",
           "discard", "held", "clearing"}

-----------------------------------------------------------------------------
(* What the operating system reports about a pid.                          *)

\* process.kill(pid, 0) does not fail with ESRCH.
ProcessAlive(pid) == \E q \in alive : PidOf[q] = pid

\* listenProcessIdentity: the incarnation running under pid, if the OS says.
ReadableIdentities(pid) ==
    LET running == {q \in alive : PidOf[q] = pid}
    IN  running \union (IF running \subseteq Hidden THEN {Unknown} ELSE {})

\* ownerIdentity: the record in the owner file, or null once it is unlinked.
SavedIdentity(o) == IF o \in entries THEN o.identity ELSE Unknown

\* With a bug: an identity that cannot be read counts as another process.
ProvenDifferentOrUnknown(saved, current) == saved # current

\* compareListenProcessIdentity(saved, current) === false
ProvenDifferent(saved, current) ==
    saved # Unknown /\ current # Unknown /\ saved # current

-----------------------------------------------------------------------------
Init ==
    /\ alive = {} /\ gone = {}
    /\ present = FALSE /\ entries = {}
    /\ pc = [p \in Procs |-> "idle"]
    /\ claim = [p \in Procs |-> 0]
    /\ mine = [p \in Procs |-> NoOwner]
    /\ attempt = [p \in Procs |-> 0]
    /\ seen = [p \in Procs |-> NoOwner]
    /\ probe = [r \in Probers |-> "idle"]
    /\ probed = [r \in Probers |-> NoOwner]
    /\ answer = [r \in Probers |-> "none"]

\* A new incarnation starts; its pid is free of live processes.
Spawn(p) ==
    /\ p \notin alive \union gone
    /\ ~ProcessAlive(PidOf[p])
    /\ alive' = alive \union {p}
    /\ UNCHANGED <<gone, present, entries, pc, claim, mine, attempt, seen, probeVars>>

\* A process exits or is killed between any two system calls: its memory is
\* lost, its files stay.
Die(p) ==
    /\ p \in alive
    /\ alive' = alive \ {p}
    /\ gone' = gone \union {p}
    /\ pc' = [pc EXCEPT ![p] = "idle"]
    /\ mine' = [mine EXCEPT ![p] = NoOwner]
    /\ seen' = [seen EXCEPT ![p] = NoOwner]
    /\ attempt' = [attempt EXCEPT ![p] = 0]
    /\ UNCHANGED <<present, entries, claim, probeVars>>

At(p, stage) == p \in alive /\ pc[p] = stage
Goto(p, stage) == pc' = [pc EXCEPT ![p] = stage]

\* mkdtemp and the owner record: private to the caller until the rename.
StartAcquire(p) ==
    /\ At(p, "idle")
    /\ claim[p] < MaxClaims
    /\ claim' = [claim EXCEPT ![p] = @ + 1]
    /\ \E id \in ReadableIdentities(PidOf[p]) :
         mine' = [mine EXCEPT ![p] = [proc |-> p, claim |-> claim'[p], identity |-> id]]
    /\ attempt' = [attempt EXCEPT ![p] = 0]
    /\ Goto(p, "rename")
    /\ UNCHANGED <<alive, gone, present, entries, seen, probeVars>>

\* renameSync onto a missing or an empty directory.
Install(p) ==
    /\ At(p, "rename")
    /\ entries = {}
    /\ present' = TRUE
    /\ entries' = {mine[p]}
    /\ Goto(p, "held")
    /\ attempt' = [attempt EXCEPT ![p] = 0]
    /\ UNCHANGED <<alive, gone, claim, mine, seen, probeVars>>

\* renameSync fails with EEXIST or ENOTEMPTY.
RenameRefused(p) ==
    /\ At(p, "rename")
    /\ entries # {}
    /\ Goto(p, "list")
    /\ UNCHANGED <<alive, gone, present, entries, claim, mine, attempt, seen, probeVars>>

\* `continue`: the next iteration, or out of the loop without the lock.  The
\* iteration's variables go out of scope.
NextAttempt(p) ==
    /\ seen' = [seen EXCEPT ![p] = NoOwner]
    /\ attempt' = [attempt EXCEPT ![p] = @ + 1]
    /\ Goto(p, IF attempt'[p] < MaxAttempts THEN "rename" ELSE "discard")

\* readdirSync finds the lock gone or half removed.
ListNothing(p) ==
    /\ At(p, "list")
    /\ entries = {}
    /\ NextAttempt(p)
    /\ UNCHANGED <<alive, gone, present, entries, claim, mine, probeVars>>

\* readdirSync returns the owner file.
ListOwner(p) ==
    /\ At(p, "list")
    /\ \E o \in entries : seen' = [seen EXCEPT ![p] = o]
    /\ Goto(p, "probe")
    /\ UNCHANGED <<alive, gone, present, entries, claim, mine, attempt, probeVars>>

\* stale = !processAlive(pid)
ProbeOwner(p) ==
    /\ At(p, "probe")
    /\ Goto(p, IF ProcessAlive(PidOf[seen[p].proc]) THEN "verify" ELSE "unlink")
    /\ UNCHANGED <<alive, gone, present, entries, claim, mine, attempt, seen, probeVars>>

\* With a bug: a held lock is waited for instead of refused.
VerifyOwnerAndWait(p) ==
    /\ At(p, "verify")
    /\ \E current \in ReadableIdentities(PidOf[seen[p].proc]) :
         Goto(p, IF ProvenDifferent(SavedIdentity(seen[p]), current)
                   THEN "unlink" ELSE "rename")
    /\ UNCHANGED <<alive, gone, present, entries, claim, mine, attempt, seen, probeVars>>

\* The pid is in use: the lock is stale only if its owner was proven to be
\* another incarnation.  Otherwise the call is refused.
VerifyOwner(p) ==
    /\ At(p, "verify")
    /\ \E current \in ReadableIdentities(PidOf[seen[p].proc]) :
         Goto(p, IF ProvenDifferent(SavedIdentity(seen[p]), current)
                   THEN "unlink" ELSE "discard")
    /\ UNCHANGED <<alive, gone, present, entries, claim, mine, attempt, seen, probeVars>>

\* With a bug: removes whatever the directory holds by now.
UnlinkAnyOwner(p) ==
    /\ At(p, "unlink")
    /\ entries' = {}
    /\ Goto(p, "rmdir")
    /\ UNCHANGED <<alive, gone, present, claim, mine, attempt, seen, probeVars>>

\* removeOwner(path, entries[0]): unlink that exact owner file; ENOENT is fine.
UnlinkStale(p) ==
    /\ At(p, "unlink")
    /\ entries' = entries \ {seen[p]}
    /\ Goto(p, "rmdir")
    /\ UNCHANGED <<alive, gone, present, claim, mine, attempt, seen, probeVars>>

\* With a bug: refuses after a reclaim instead of trying again.
RmdirStaleAndRefuse(p) ==
    /\ At(p, "rmdir")
    /\ present' = (entries # {})
    /\ Goto(p, "discard")
    /\ UNCHANGED <<alive, gone, entries, claim, mine, attempt, seen, probeVars>>

\* ... then rmdir, which leaves a directory that was filled meanwhile; loop.
RmdirStale(p) ==
    /\ At(p, "rmdir")
    /\ present' = (entries # {})
    /\ NextAttempt(p)
    /\ UNCHANGED <<alive, gone, entries, claim, mine, probeVars>>

\* The finally block removes the private candidate; the call throws.
Discard(p) ==
    /\ At(p, "discard")
    /\ Goto(p, "idle")
    /\ seen' = [seen EXCEPT ![p] = NoOwner]
    /\ mine' = [mine EXCEPT ![p] = NoOwner]
    /\ attempt' = [attempt EXCEPT ![p] = 0]
    /\ UNCHANGED <<alive, gone, present, entries, claim, probeVars>>

\* The returned release function, called once: unlink ...
ReleaseUnlink(p) ==
    /\ At(p, "held")
    /\ entries' = entries \ {mine[p]}
    /\ Goto(p, "clearing")
    /\ UNCHANGED <<alive, gone, present, claim, mine, attempt, seen, probeVars>>

\* ... then rmdir.
ReleaseRmdir(p) ==
    /\ At(p, "clearing")
    /\ present' = (entries # {})
    /\ Goto(p, "idle")
    /\ mine' = [mine EXCEPT ![p] = NoOwner]
    /\ UNCHANGED <<alive, gone, entries, claim, attempt, seen, probeVars>>

-----------------------------------------------------------------------------
(* listenLockHeld: the read-only question "does a live process hold this?" *)

\* readdirSync without exactly one entry: the lock is free.
HeldListNothing(r) ==
    /\ probe[r] = "idle"
    /\ entries = {}
    /\ answer' = [answer EXCEPT ![r] = "free"]
    /\ UNCHANGED <<probe, probed, lockVars>>

HeldListOwner(r) ==
    /\ probe[r] = "idle"
    /\ \E o \in entries : probed' = [probed EXCEPT ![r] = o]
    /\ probe' = [probe EXCEPT ![r] = "probe"]
    /\ answer' = [answer EXCEPT ![r] = "none"]
    /\ UNCHANGED lockVars

HeldProbe(r) ==
    /\ probe[r] = "probe"
    /\ LET up == ProcessAlive(PidOf[probed[r].proc])
       IN  /\ probe' = [probe EXCEPT ![r] = IF up THEN "verify" ELSE "idle"]
           /\ answer' = [answer EXCEPT ![r] = IF up THEN "none" ELSE "free"]
    /\ UNCHANGED <<probed, lockVars>>

HeldVerify(r) ==
    /\ probe[r] = "verify"
    /\ \E current \in ReadableIdentities(PidOf[probed[r].proc]) :
         answer' = [answer EXCEPT ![r] =
            IF ProvenDifferent(SavedIdentity(probed[r]), current) THEN "free" ELSE "held"]
    /\ probe' = [probe EXCEPT ![r] = "idle"]
    /\ UNCHANGED <<probed, lockVars>>

-----------------------------------------------------------------------------
Acquiring(p) ==
    \/ Install(p) \/ RenameRefused(p)
    \/ ListNothing(p) \/ ListOwner(p)
    \/ ProbeOwner(p) \/ VerifyOwner(p)
    \/ UnlinkStale(p) \/ RmdirStale(p)
    \/ Discard(p)
    \/ ReleaseRmdir(p)

Probing(r) ==
    \/ HeldListNothing(r) \/ HeldListOwner(r) \/ HeldProbe(r) \/ HeldVerify(r)

Next ==
    \/ \E p \in Procs :
         \/ Spawn(p) \/ Die(p)
         \/ StartAcquire(p) \/ Acquiring(p) \/ ReleaseUnlink(p)
    \/ \E r \in Probers : Probing(r)

Spec == Init /\ [][Next]_vars

\* A live process runs its synchronous call to the end.  Starting a call,
\* releasing, spawning and dying are choices nobody owes.
FairSpec == Spec /\ \A p \in Procs : WF_vars(Acquiring(p))

-----------------------------------------------------------------------------
TypeOK ==
    /\ alive \subseteq Procs /\ gone \subseteq Procs
    /\ present \in BOOLEAN
    /\ entries \subseteq Owners
    /\ pc \in [Procs -> Stages]
    /\ claim \in [Procs -> 0..MaxClaims]
    /\ mine \in [Procs -> Owners \union {NoOwner}]
    /\ attempt \in [Procs -> 0..MaxAttempts]
    /\ seen \in [Procs -> Owners \union {NoOwner}]
    /\ probe \in [Probers -> {"idle", "probe", "verify"}]
    /\ probed \in [Probers -> Owners \union {NoOwner}]
    /\ answer \in [Probers -> {"none", "held", "free"}]

Holds(p) == p \in alive /\ pc[p] = "held"

\* The refinement mapping to the abstract lock callers rely on.
Holders == {p \in Procs : Holds(p)}
Holder == IF Holders = {} THEN Unknown ELSE CHOOSE p \in Holders : TRUE
Lock == INSTANCE MutexLock WITH Clients <- Procs, Nobody <- Unknown, holder <- Holder

\* acquireListenLock's purpose: whatever crashes, reclaims and pid reuses
\* happened, two live processes never both believe they hold the lock.
MutualExclusion == \A p, q \in Procs : Holds(p) /\ Holds(q) => p = q

\* removeOwner deletes by exact owner name, so a contender that judged some
\* earlier owner stale never takes a live holder's file away
\* (listen-state.ts:197-198).
HolderKeepsFile == \A p \in Procs : Holds(p) => present /\ entries = {mine[p]}

\* Only its own release removes the file of a live process: a reclaimer that
\* was delayed between judging and unlinking acts on a dead owner only.
ReclaimsOnlyTheDead ==
    [][\A o \in entries : o \notin entries' =>
          o.proc \in gone \/ (pc[o.proc] = "held" /\ pc'[o.proc] = "clearing")]_vars

\* listenLockHeld never reports a lock free whose listed owner still holds it,
\* even when the OS withholds identities or the pid was read late.
ProbeNeverMissesHolder ==
    [][\A r \in Probers : \A p \in Procs :
          /\ probe[r] # "idle" /\ Holds(p) /\ mine[p] = probed[r]
          /\ probe'[r] = "idle"
          => answer'[r] = "held"]_vars

\* acquireListenLock implements the abstract lock: it hands the lock over only
\* after the holder released it or died.
ImplementsLock == Lock!Spec

\* Recovery: whatever files crashed incarnations left behind, a process that
\* starts its loop alone gets the lock unless it dies or another appears.  Only
\* an owner with its own pid that it cannot tell from itself may stop it.
LoneProcessAcquires ==
    \A p \in Procs :
        (/\ alive = {p} /\ pc[p] = "rename" /\ attempt[p] = 0
         /\ \A o \in entries : PidOf[o.proc] = PidOf[p] => o.identity # Unknown /\ p \notin Hidden)
            ~> (pc[p] = "held" \/ alive # {p})

\* The attempt loop is bounded: no contention pattern keeps a live caller in
\* acquireListenLock for ever.
CallsReturn ==
    \A p \in Procs :
        pc[p] = "rename" ~> (pc[p] \in {"held", "idle"} \/ p \in gone)
=============================================================================
