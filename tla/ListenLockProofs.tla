-------------------------- MODULE ListenLockProofs --------------------------
(* Mutual exclusion of the lock of listen-state.ts, for every number of    *)
(* processes, pids, attempts and claims.                                   *)
EXTENDS ListenLock, TLAPS

(***************************************************************************)
(* The inductive invariant.  MutualExclusion alone is not inductive: that  *)
(* nobody removes a live holder's file rests on what a reclaimer still     *)
(* remembers (StaleIsGone), which rests on what an owner file records      *)
(* (IdentityHonest) and on pids being unique among live processes.         *)
(***************************************************************************)
Known == alive \union gone

PidsUnique == \A p, q \in alive : PidOf[p] = PidOf[q] => p = q

Disjoint == alive \intersect gone = {}

\* The lock directory never holds two owner files.
OneOwner == \A o1, o2 \in entries : o1 = o2

IdentityHonest(o) == o \in Owners /\ o.identity \in {o.proc, Unknown}

EntriesHonest ==
    \A o \in entries : IdentityHonest(o) /\ o.proc \in Known

\* A live process whose owner file is installed is exactly its holder.
LiveOwnerHolds ==
    \A o \in entries : o.proc \in alive => pc[o.proc] = "held" /\ mine[o.proc] = o

HolderInstalled ==
    \A p \in Procs : Holds(p) => present /\ mine[p] \in entries

MineHonest ==
    \A p \in alive :
        pc[p] # "idle" => IdentityHonest(mine[p]) /\ mine[p].proc = p

SeenHonest ==
    \A p \in alive :
        pc[p] \in {"probe", "verify", "unlink"} =>
            IdentityHonest(seen[p]) /\ seen[p].proc \in Known

\* What is about to be unlinked belongs to an incarnation that is gone.
StaleIsGone == \A p \in alive : pc[p] = "unlink" => seen[p].proc \in gone

\* Inside the loop there is an attempt left to count.
AttemptBounded ==
    \A p \in alive :
        pc[p] \notin {"idle", "held", "clearing", "discard"} => attempt[p] < MaxAttempts

\* A process that is not running is in no call.
QuietWhenDown == \A p \in Procs : p \notin alive => pc[p] = "idle"

ProbedHonest == \A r \in Probers : probe[r] # "idle" => IdentityHonest(probed[r])

IInv ==
    /\ TypeOK
    /\ PidsUnique /\ Disjoint
    /\ OneOwner /\ EntriesHonest /\ LiveOwnerHolds
    /\ HolderInstalled /\ MineHonest
    /\ SeenHonest /\ StaleIsGone
    /\ AttemptBounded /\ QuietWhenDown
    /\ ProbedHonest

-----------------------------------------------------------------------------
\* A new incarnation is in no call, and its pid was free.
LEMMA SpawnStep == ASSUME NEW p \in Procs, IInv, Spawn(p) PROVE IInv'
<1> USE MaxAttemptsAssumption, MaxClaimsAssumption, UnknownAssumption
    DEF IInv, Spawn, At, Goto, NextAttempt, probeVars, Known, IdentityHonest
<1>1. OneOwner' /\ ProbedHonest'
  BY DEF OneOwner, ProbedHonest
<1>2. TypeOK'
  BY DEF TypeOK, Stages
<1>3. PidsUnique'
  BY DEF TypeOK, Stages, PidsUnique, ProcessAlive
<1>4. Disjoint'
  BY DEF TypeOK, Stages, Disjoint
<1>5. EntriesHonest'
  BY DEF TypeOK, Stages, EntriesHonest
<1>6. LiveOwnerHolds'
  BY DEF TypeOK, Stages, LiveOwnerHolds, EntriesHonest
<1>7. HolderInstalled'
  BY DEF TypeOK, Stages, HolderInstalled, Holds, QuietWhenDown
<1>8. MineHonest'
  BY DEF TypeOK, Stages, MineHonest, QuietWhenDown
<1>9. SeenHonest'
  BY DEF TypeOK, Stages, SeenHonest, QuietWhenDown
<1>10. StaleIsGone'
  BY DEF TypeOK, Stages, StaleIsGone, QuietWhenDown
<1>11. AttemptBounded'
  BY DEF TypeOK, Stages, AttemptBounded, QuietWhenDown
<1>12. QuietWhenDown'
  BY DEF TypeOK, Stages, QuietWhenDown
<1>13. QED
  BY <1>1, <1>2, <1>3, <1>4, <1>5, <1>6, <1>7, <1>8, <1>9, <1>10, <1>11, <1>12

\* A process that dies stops holding; its owner file may stay.
LEMMA DieStep == ASSUME NEW p \in Procs, IInv, Die(p) PROVE IInv'
<1> USE MaxAttemptsAssumption, MaxClaimsAssumption, UnknownAssumption
    DEF IInv, Die, At, Goto, NextAttempt, probeVars, Known, IdentityHonest
<1>1. OneOwner' /\ ProbedHonest'
  BY DEF OneOwner, ProbedHonest
<1>2. TypeOK'
  BY DEF TypeOK, Stages
<1>3. PidsUnique'
  BY DEF TypeOK, Stages, PidsUnique
<1>4. Disjoint'
  BY DEF TypeOK, Stages, Disjoint
<1>5. EntriesHonest'
  BY DEF TypeOK, Stages, EntriesHonest
<1>6. LiveOwnerHolds'
  BY DEF TypeOK, Stages, LiveOwnerHolds
<1>7. HolderInstalled'
  BY DEF TypeOK, Stages, HolderInstalled, Holds
<1>8. MineHonest'
  BY DEF TypeOK, Stages, MineHonest
<1>9. SeenHonest'
  BY DEF TypeOK, Stages, SeenHonest
<1>10. StaleIsGone'
  BY DEF TypeOK, Stages, StaleIsGone
<1>11. AttemptBounded'
  BY DEF TypeOK, Stages, AttemptBounded
<1>12. QuietWhenDown'
  BY DEF TypeOK, Stages, QuietWhenDown
<1>13. QED
  BY <1>1, <1>2, <1>3, <1>4, <1>5, <1>6, <1>7, <1>8, <1>9, <1>10, <1>11, <1>12

\* A new call records the caller's own identity or none.
LEMMA StartAcquireStep == ASSUME NEW p \in Procs, IInv, StartAcquire(p) PROVE IInv'
<1> USE MaxAttemptsAssumption, MaxClaimsAssumption, UnknownAssumption
    DEF IInv, StartAcquire, At, Goto, NextAttempt, probeVars, Known, IdentityHonest
<1>1. PidsUnique' /\ Disjoint' /\ OneOwner' /\ EntriesHonest' /\ ProbedHonest'
  BY DEF PidsUnique, Disjoint, OneOwner, EntriesHonest, ProbedHonest
<1>2. TypeOK'
  <2>1. PICK id \in ReadableIdentities(PidOf[p]) :
          mine' = [mine EXCEPT ![p] = [proc |-> p, claim |-> claim'[p], identity |-> id]]
    OBVIOUS
  <2>2. id \in Identities
    BY DEF ReadableIdentities, Identities, TypeOK
  <2>3. claim' \in [Procs -> 0..MaxClaims] /\ claim'[p] \in 1..MaxClaims
    BY DEF TypeOK
  <2>4. mine' \in [Procs -> Owners \union {NoOwner}]
    BY <2>1, <2>2, <2>3 DEF Owners, TypeOK
  <2>5. QED
    BY <2>3, <2>4 DEF TypeOK, Stages
<1>3. LiveOwnerHolds'
  BY DEF TypeOK, Stages, LiveOwnerHolds
<1>4. HolderInstalled'
  BY DEF TypeOK, Stages, HolderInstalled, Holds
<1>5. MineHonest'
  <2>1. PICK id \in ReadableIdentities(PidOf[p]) :
          mine' = [mine EXCEPT ![p] = [proc |-> p, claim |-> claim'[p], identity |-> id]]
    OBVIOUS
  <2>2. id \in {p, Unknown}
    BY DEF ReadableIdentities, ProcessAlive, PidsUnique
  <2>3. claim'[p] \in 1..MaxClaims
    BY DEF TypeOK
  <2>4. IdentityHonest(mine'[p]) /\ mine'[p].proc = p
    BY <2>1, <2>2, <2>3 DEF Owners, Identities, TypeOK
  <2>5. QED
    BY <2>1, <2>4 DEF MineHonest, TypeOK
<1>6. SeenHonest'
  BY DEF TypeOK, Stages, SeenHonest
<1>7. StaleIsGone'
  BY DEF TypeOK, Stages, StaleIsGone
<1>8. AttemptBounded'
  BY DEF TypeOK, Stages, AttemptBounded
<1>9. QuietWhenDown'
  BY DEF TypeOK, Stages, QuietWhenDown
<1>10. QED
  BY <1>1, <1>2, <1>3, <1>4, <1>5, <1>6, <1>7, <1>8, <1>9

\* rename over a missing or empty directory installs the caller alone.
LEMMA InstallStep == ASSUME NEW p \in Procs, IInv, Install(p) PROVE IInv'
<1> USE MaxAttemptsAssumption, MaxClaimsAssumption, UnknownAssumption
    DEF IInv, Install, At, Goto, NextAttempt, probeVars, Known, IdentityHonest
<1>1. PidsUnique' /\ Disjoint' /\ ProbedHonest'
  BY DEF PidsUnique, Disjoint, ProbedHonest
<1>2. TypeOK'
  BY DEF TypeOK, Stages, MineHonest
<1>3. OneOwner'
  BY DEF TypeOK, Stages, OneOwner
<1>4. EntriesHonest'
  BY DEF TypeOK, Stages, EntriesHonest, MineHonest
<1>5. LiveOwnerHolds'
  BY DEF TypeOK, Stages, LiveOwnerHolds, MineHonest
<1>6. HolderInstalled'
  BY DEF TypeOK, Stages, HolderInstalled, Holds
<1>7. MineHonest'
  BY DEF TypeOK, Stages, MineHonest
<1>8. SeenHonest'
  BY DEF TypeOK, Stages, SeenHonest
<1>9. StaleIsGone'
  BY DEF TypeOK, Stages, StaleIsGone
<1>10. AttemptBounded'
  BY DEF TypeOK, Stages, AttemptBounded
<1>11. QuietWhenDown'
  BY DEF TypeOK, Stages, QuietWhenDown
<1>12. QED
  BY <1>1, <1>2, <1>3, <1>4, <1>5, <1>6, <1>7, <1>8, <1>9, <1>10, <1>11

\* A refused rename changes nothing on disk.
LEMMA RenameRefusedStep == ASSUME NEW p \in Procs, IInv, RenameRefused(p) PROVE IInv'
<1> USE MaxAttemptsAssumption, MaxClaimsAssumption, UnknownAssumption
    DEF IInv, RenameRefused, At, Goto, NextAttempt, probeVars, Known, IdentityHonest
<1>1. PidsUnique' /\ Disjoint' /\ OneOwner' /\ EntriesHonest' /\ ProbedHonest'
  BY DEF PidsUnique, Disjoint, OneOwner, EntriesHonest, ProbedHonest
<1>2. TypeOK'
  BY DEF TypeOK, Stages
<1>3. LiveOwnerHolds'
  BY DEF TypeOK, Stages, LiveOwnerHolds
<1>4. HolderInstalled'
  BY DEF TypeOK, Stages, HolderInstalled, Holds
<1>5. MineHonest'
  BY DEF TypeOK, Stages, MineHonest
<1>6. SeenHonest'
  BY DEF TypeOK, Stages, SeenHonest
<1>7. StaleIsGone'
  BY DEF TypeOK, Stages, StaleIsGone
<1>8. AttemptBounded'
  BY DEF TypeOK, Stages, AttemptBounded
<1>9. QuietWhenDown'
  BY DEF TypeOK, Stages, QuietWhenDown
<1>10. QED
  BY <1>1, <1>2, <1>3, <1>4, <1>5, <1>6, <1>7, <1>8, <1>9

\* An empty listing costs one attempt.
LEMMA ListNothingStep == ASSUME NEW p \in Procs, IInv, ListNothing(p) PROVE IInv'
<1> USE MaxAttemptsAssumption, MaxClaimsAssumption, UnknownAssumption
    DEF IInv, ListNothing, At, Goto, NextAttempt, probeVars, Known, IdentityHonest
<1>1. PidsUnique' /\ Disjoint' /\ OneOwner' /\ EntriesHonest' /\ ProbedHonest'
  BY DEF PidsUnique, Disjoint, OneOwner, EntriesHonest, ProbedHonest
<1>2. TypeOK'
  BY DEF TypeOK, Stages, AttemptBounded
<1>3. LiveOwnerHolds'
  BY DEF TypeOK, Stages, LiveOwnerHolds
<1>4. HolderInstalled'
  BY DEF TypeOK, Stages, HolderInstalled, Holds
<1>5. MineHonest'
  BY DEF TypeOK, Stages, MineHonest
<1>6. SeenHonest'
  BY DEF TypeOK, Stages, SeenHonest
<1>7. StaleIsGone'
  BY DEF TypeOK, Stages, StaleIsGone
<1>8. AttemptBounded'
  BY DEF TypeOK, Stages, AttemptBounded
<1>9. QuietWhenDown'
  BY DEF TypeOK, Stages, QuietWhenDown
<1>10. QED
  BY <1>1, <1>2, <1>3, <1>4, <1>5, <1>6, <1>7, <1>8, <1>9

\* A listed owner file has an honest record of a known incarnation.
LEMMA ListOwnerStep == ASSUME NEW p \in Procs, IInv, ListOwner(p) PROVE IInv'
<1> USE MaxAttemptsAssumption, MaxClaimsAssumption, UnknownAssumption
    DEF IInv, ListOwner, At, Goto, NextAttempt, probeVars, Known, IdentityHonest
<1>1. PidsUnique' /\ Disjoint' /\ OneOwner' /\ EntriesHonest' /\ ProbedHonest'
  BY DEF PidsUnique, Disjoint, OneOwner, EntriesHonest, ProbedHonest
<1>2. TypeOK'
  BY DEF TypeOK, Stages
<1>3. LiveOwnerHolds'
  BY DEF TypeOK, Stages, LiveOwnerHolds
<1>4. HolderInstalled'
  BY DEF TypeOK, Stages, HolderInstalled, Holds
<1>5. MineHonest'
  BY DEF TypeOK, Stages, MineHonest
<1>6. SeenHonest'
  BY DEF TypeOK, Stages, SeenHonest, EntriesHonest
<1>7. StaleIsGone'
  BY DEF TypeOK, Stages, StaleIsGone
<1>8. AttemptBounded'
  BY DEF TypeOK, Stages, AttemptBounded
<1>9. QuietWhenDown'
  BY DEF TypeOK, Stages, QuietWhenDown
<1>10. QED
  BY <1>1, <1>2, <1>3, <1>4, <1>5, <1>6, <1>7, <1>8, <1>9

\* An owner whose pid no live process has is gone, and stays gone.
LEMMA ProbeOwnerStep == ASSUME NEW p \in Procs, IInv, ProbeOwner(p) PROVE IInv'
<1> USE MaxAttemptsAssumption, MaxClaimsAssumption, UnknownAssumption
    DEF IInv, ProbeOwner, At, Goto, NextAttempt, probeVars, Known, IdentityHonest
<1>1. PidsUnique' /\ Disjoint' /\ OneOwner' /\ EntriesHonest' /\ ProbedHonest'
  BY DEF PidsUnique, Disjoint, OneOwner, EntriesHonest, ProbedHonest
<1>2. TypeOK'
  BY DEF TypeOK, Stages
<1>3. LiveOwnerHolds'
  BY DEF TypeOK, Stages, LiveOwnerHolds
<1>4. HolderInstalled'
  BY DEF TypeOK, Stages, HolderInstalled, Holds
<1>5. MineHonest'
  BY DEF TypeOK, Stages, MineHonest
<1>6. SeenHonest'
  BY DEF TypeOK, Stages, SeenHonest
<1>7. StaleIsGone'
  BY DEF TypeOK, Stages, StaleIsGone, SeenHonest, ProcessAlive
<1>8. AttemptBounded'
  BY DEF TypeOK, Stages, AttemptBounded
<1>9. QuietWhenDown'
  BY DEF TypeOK, Stages, QuietWhenDown
<1>10. QED
  BY <1>1, <1>2, <1>3, <1>4, <1>5, <1>6, <1>7, <1>8, <1>9

\* A live pid with another identity proves the owner gone.
LEMMA VerifyOwnerStep == ASSUME NEW p \in Procs, IInv, VerifyOwner(p) PROVE IInv'
<1> USE MaxAttemptsAssumption, MaxClaimsAssumption, UnknownAssumption
    DEF IInv, VerifyOwner, At, Goto, NextAttempt, probeVars, Known, IdentityHonest
<1>1. PidsUnique' /\ Disjoint' /\ OneOwner' /\ EntriesHonest' /\ ProbedHonest'
  BY DEF PidsUnique, Disjoint, OneOwner, EntriesHonest, ProbedHonest
<1>2. TypeOK'
  BY DEF TypeOK, Stages
<1>3. LiveOwnerHolds'
  BY DEF TypeOK, Stages, LiveOwnerHolds
<1>4. HolderInstalled'
  BY DEF TypeOK, Stages, HolderInstalled, Holds
<1>5. MineHonest'
  BY DEF TypeOK, Stages, MineHonest
<1>6. SeenHonest'
  BY DEF TypeOK, Stages, SeenHonest
<1>7. StaleIsGone'
  BY DEF TypeOK, Stages, StaleIsGone, SeenHonest, PidsUnique, ReadableIdentities, ProvenDifferent, SavedIdentity, ProcessAlive
<1>8. AttemptBounded'
  BY DEF TypeOK, Stages, AttemptBounded
<1>9. QuietWhenDown'
  BY DEF TypeOK, Stages, QuietWhenDown
<1>10. QED
  BY <1>1, <1>2, <1>3, <1>4, <1>5, <1>6, <1>7, <1>8, <1>9

\* The file unlinked as stale is no live holder's.
LEMMA UnlinkStaleStep == ASSUME NEW p \in Procs, IInv, UnlinkStale(p) PROVE IInv'
<1> USE MaxAttemptsAssumption, MaxClaimsAssumption, UnknownAssumption
    DEF IInv, UnlinkStale, At, Goto, NextAttempt, probeVars, Known, IdentityHonest
<1>1. PidsUnique' /\ Disjoint' /\ ProbedHonest'
  BY DEF PidsUnique, Disjoint, ProbedHonest
<1>2. TypeOK'
  BY DEF TypeOK, Stages
<1>3. OneOwner'
  BY DEF TypeOK, Stages, OneOwner
<1>4. EntriesHonest'
  BY DEF TypeOK, Stages, EntriesHonest
<1>5. LiveOwnerHolds'
  BY DEF TypeOK, Stages, LiveOwnerHolds
<1>6. HolderInstalled'
  BY DEF TypeOK, Stages, HolderInstalled, Holds, MineHonest, OneOwner, StaleIsGone, Disjoint
<1>7. MineHonest'
  BY DEF TypeOK, Stages, MineHonest
<1>8. SeenHonest'
  BY DEF TypeOK, Stages, SeenHonest
<1>9. StaleIsGone'
  BY DEF TypeOK, Stages, StaleIsGone
<1>10. AttemptBounded'
  BY DEF TypeOK, Stages, AttemptBounded
<1>11. QuietWhenDown'
  BY DEF TypeOK, Stages, QuietWhenDown
<1>12. QED
  BY <1>1, <1>2, <1>3, <1>4, <1>5, <1>6, <1>7, <1>8, <1>9, <1>10, <1>11

\* rmdir spares a directory that was filled meanwhile.
LEMMA RmdirStaleStep == ASSUME NEW p \in Procs, IInv, RmdirStale(p) PROVE IInv'
<1> USE MaxAttemptsAssumption, MaxClaimsAssumption, UnknownAssumption
    DEF IInv, RmdirStale, At, Goto, NextAttempt, probeVars, Known, IdentityHonest
<1>1. PidsUnique' /\ Disjoint' /\ OneOwner' /\ EntriesHonest' /\ ProbedHonest'
  BY DEF PidsUnique, Disjoint, OneOwner, EntriesHonest, ProbedHonest
<1>2. TypeOK'
  BY DEF TypeOK, Stages, AttemptBounded
<1>3. LiveOwnerHolds'
  BY DEF TypeOK, Stages, LiveOwnerHolds
<1>4. HolderInstalled'
  BY DEF TypeOK, Stages, HolderInstalled, Holds
<1>5. MineHonest'
  BY DEF TypeOK, Stages, MineHonest
<1>6. SeenHonest'
  BY DEF TypeOK, Stages, SeenHonest
<1>7. StaleIsGone'
  BY DEF TypeOK, Stages, StaleIsGone
<1>8. AttemptBounded'
  BY DEF TypeOK, Stages, AttemptBounded
<1>9. QuietWhenDown'
  BY DEF TypeOK, Stages, QuietWhenDown
<1>10. QED
  BY <1>1, <1>2, <1>3, <1>4, <1>5, <1>6, <1>7, <1>8, <1>9

\* A refused call leaves the lock alone.
LEMMA DiscardStep == ASSUME NEW p \in Procs, IInv, Discard(p) PROVE IInv'
<1> USE MaxAttemptsAssumption, MaxClaimsAssumption, UnknownAssumption
    DEF IInv, Discard, At, Goto, NextAttempt, probeVars, Known, IdentityHonest
<1>1. PidsUnique' /\ Disjoint' /\ OneOwner' /\ EntriesHonest' /\ ProbedHonest'
  BY DEF PidsUnique, Disjoint, OneOwner, EntriesHonest, ProbedHonest
<1>2. TypeOK'
  BY DEF TypeOK, Stages
<1>3. LiveOwnerHolds'
  BY DEF TypeOK, Stages, LiveOwnerHolds
<1>4. HolderInstalled'
  BY DEF TypeOK, Stages, HolderInstalled, Holds
<1>5. MineHonest'
  BY DEF TypeOK, Stages, MineHonest
<1>6. SeenHonest'
  BY DEF TypeOK, Stages, SeenHonest
<1>7. StaleIsGone'
  BY DEF TypeOK, Stages, StaleIsGone
<1>8. AttemptBounded'
  BY DEF TypeOK, Stages, AttemptBounded
<1>9. QuietWhenDown'
  BY DEF TypeOK, Stages, QuietWhenDown
<1>10. QED
  BY <1>1, <1>2, <1>3, <1>4, <1>5, <1>6, <1>7, <1>8, <1>9

\* The releasing holder removes exactly its own file.
LEMMA ReleaseUnlinkStep == ASSUME NEW p \in Procs, IInv, ReleaseUnlink(p) PROVE IInv'
<1> USE MaxAttemptsAssumption, MaxClaimsAssumption, UnknownAssumption
    DEF IInv, ReleaseUnlink, At, Goto, NextAttempt, probeVars, Known, IdentityHonest
<1>1. PidsUnique' /\ Disjoint' /\ ProbedHonest'
  BY DEF PidsUnique, Disjoint, ProbedHonest
<1>2. TypeOK'
  BY DEF TypeOK, Stages
<1>3. OneOwner'
  BY DEF TypeOK, Stages, OneOwner
<1>4. EntriesHonest'
  BY DEF TypeOK, Stages, EntriesHonest
<1>5. LiveOwnerHolds'
  BY DEF TypeOK, Stages, LiveOwnerHolds
<1>6. HolderInstalled'
  BY DEF TypeOK, Stages, HolderInstalled, Holds, MineHonest, OneOwner
<1>7. MineHonest'
  BY DEF TypeOK, Stages, MineHonest
<1>8. SeenHonest'
  BY DEF TypeOK, Stages, SeenHonest
<1>9. StaleIsGone'
  BY DEF TypeOK, Stages, StaleIsGone
<1>10. AttemptBounded'
  BY DEF TypeOK, Stages, AttemptBounded
<1>11. QuietWhenDown'
  BY DEF TypeOK, Stages, QuietWhenDown
<1>12. QED
  BY <1>1, <1>2, <1>3, <1>4, <1>5, <1>6, <1>7, <1>8, <1>9, <1>10, <1>11

\* The last rmdir of a release spares the next holder.
LEMMA ReleaseRmdirStep == ASSUME NEW p \in Procs, IInv, ReleaseRmdir(p) PROVE IInv'
<1> USE MaxAttemptsAssumption, MaxClaimsAssumption, UnknownAssumption
    DEF IInv, ReleaseRmdir, At, Goto, NextAttempt, probeVars, Known, IdentityHonest
<1>1. PidsUnique' /\ Disjoint' /\ OneOwner' /\ EntriesHonest' /\ ProbedHonest'
  BY DEF PidsUnique, Disjoint, OneOwner, EntriesHonest, ProbedHonest
<1>2. TypeOK'
  BY DEF TypeOK, Stages
<1>3. LiveOwnerHolds'
  BY DEF TypeOK, Stages, LiveOwnerHolds
<1>4. HolderInstalled'
  BY DEF TypeOK, Stages, HolderInstalled, Holds
<1>5. MineHonest'
  BY DEF TypeOK, Stages, MineHonest
<1>6. SeenHonest'
  BY DEF TypeOK, Stages, SeenHonest
<1>7. StaleIsGone'
  BY DEF TypeOK, Stages, StaleIsGone
<1>8. AttemptBounded'
  BY DEF TypeOK, Stages, AttemptBounded
<1>9. QuietWhenDown'
  BY DEF TypeOK, Stages, QuietWhenDown
<1>10. QED
  BY <1>1, <1>2, <1>3, <1>4, <1>5, <1>6, <1>7, <1>8, <1>9

\* listenLockHeld only reads.
LEMMA ProbingStep == ASSUME NEW r \in Probers, IInv, Probing(r) PROVE IInv'
<1> USE DEF IInv, lockVars
<1>1. UNCHANGED lockVars
  BY DEF Probing, HeldListNothing, HeldListOwner, HeldProbe, HeldVerify
<1>2. TypeOK'
  BY <1>1 DEF TypeOK, Probing, HeldListNothing, HeldListOwner, HeldProbe, HeldVerify
<1>3. ProbedHonest'
  BY <1>1 DEF TypeOK, ProbedHonest, EntriesHonest, IdentityHonest, Probing,
              HeldListNothing, HeldListOwner, HeldProbe, HeldVerify
<1>4. PidsUnique' /\ Disjoint' /\ OneOwner' /\ EntriesHonest' /\ QuietWhenDown'
  BY <1>1 DEF PidsUnique, Disjoint, OneOwner, EntriesHonest, QuietWhenDown, Known
<1>5. LiveOwnerHolds' /\ HolderInstalled' /\ MineHonest'
  BY <1>1 DEF LiveOwnerHolds, HolderInstalled, MineHonest, Holds
<1>6. SeenHonest' /\ StaleIsGone' /\ AttemptBounded'
  BY <1>1 DEF SeenHonest, StaleIsGone, AttemptBounded, Known
<1>7. QED
  BY <1>2, <1>3, <1>4, <1>5, <1>6

-----------------------------------------------------------------------------
\* The invariant holds before any process runs.
LEMMA InitIInv == Init => IInv
<1> SUFFICES ASSUME Init PROVE IInv
  OBVIOUS
<1>1. TypeOK
  <2>1. alive \subseteq Procs /\ gone \subseteq Procs /\ present \in BOOLEAN /\ entries \subseteq Owners
    BY DEF Init
  <2>2. claim \in [Procs -> 0..MaxClaims] /\ attempt \in [Procs -> 0..MaxAttempts]
    BY MaxAttemptsAssumption, MaxClaimsAssumption DEF Init
  <2>3. pc \in [Procs -> Stages] /\ mine \in [Procs -> Owners \union {NoOwner}]
          /\ seen \in [Procs -> Owners \union {NoOwner}]
    BY DEF Init, Stages
  <2>4. probe \in [Probers -> {"idle", "probe", "verify"}]
          /\ probed \in [Probers -> Owners \union {NoOwner}]
          /\ answer \in [Probers -> {"none", "held", "free"}]
    BY DEF Init
  <2>5. QED
    BY <2>1, <2>2, <2>3, <2>4 DEF TypeOK
<1>2. PidsUnique /\ Disjoint /\ OneOwner /\ EntriesHonest /\ LiveOwnerHolds
  BY DEF Init, PidsUnique, Disjoint, OneOwner, EntriesHonest, LiveOwnerHolds
<1>3. HolderInstalled /\ MineHonest /\ SeenHonest /\ StaleIsGone
  BY DEF Init, HolderInstalled, Holds, MineHonest, SeenHonest, StaleIsGone
<1>4. AttemptBounded /\ QuietWhenDown /\ ProbedHonest
  BY DEF Init, AttemptBounded, QuietWhenDown, ProbedHonest
<1>5. QED
  BY <1>1, <1>2, <1>3, <1>4 DEF IInv

\* Every system call of every process keeps it.
LEMMA NextIInv == IInv /\ [Next]_vars => IInv'
<1> SUFFICES ASSUME IInv, [Next]_vars PROVE IInv'
  OBVIOUS
<1>1. CASE \E p \in Procs : Spawn(p) \/ Die(p) \/ StartAcquire(p) \/ Acquiring(p) \/ ReleaseUnlink(p)
  BY <1>1, SpawnStep, DieStep, StartAcquireStep, InstallStep, RenameRefusedStep,
     ListNothingStep, ListOwnerStep, ProbeOwnerStep, VerifyOwnerStep, UnlinkStaleStep,
     RmdirStaleStep, DiscardStep, ReleaseUnlinkStep, ReleaseRmdirStep DEF Acquiring
<1>2. CASE \E r \in Probers : Probing(r)
  BY <1>2, ProbingStep
<1>3. CASE UNCHANGED vars
  BY <1>3 DEF vars, lockVars, probeVars, IInv, TypeOK, PidsUnique, Disjoint, OneOwner,
     EntriesHonest, LiveOwnerHolds, HolderInstalled, Holds, MineHonest, SeenHonest,
     StaleIsGone, AttemptBounded, QuietWhenDown, ProbedHonest, Known
<1>4. QED
  BY <1>1, <1>2, <1>3 DEF Next

\* The strengthening is an invariant of the lock.
LEMMA Invariance == Spec => []IInv
BY InitIInv, NextIInv, PTL DEF Spec

-----------------------------------------------------------------------------
\* Every variable keeps its type, whatever the interleaving and the crashes.
THEOREM TypeCorrect == Spec => []TypeOK
<1>1. IInv => TypeOK
  BY DEF IInv
<1>2. QED
  BY <1>1, Invariance, PTL

\* The invariant separates holders: both files are in the directory, which
\* holds one.
LEMMA AtMostOne == IInv => MutualExclusion
<1> SUFFICES ASSUME IInv, NEW p \in Procs, NEW q \in Procs, Holds(p), Holds(q)
             PROVE p = q
  BY DEF MutualExclusion
<1>1. mine[p] = mine[q]
  BY DEF IInv, HolderInstalled, OneOwner
<1>2. mine[p].proc = p /\ mine[q].proc = q
  BY DEF IInv, MineHonest, Holds
<1>3. QED
  BY <1>1, <1>2

\* acquireListenLock excludes: no two live processes hold the lock at once,
\* for any number of processes, reused pids and crashes between system calls.
THEOREM Mutex == Spec => []MutualExclusion
<1>1. IInv => MutualExclusion
  BY AtMostOne
<1>2. QED
  BY <1>1, Invariance, PTL

\* A live holder's owner file stays alone in the lock directory: no delayed
\* unlink or rmdir of a contender takes it away.
THEOREM HolderFileKept == Spec => []HolderKeepsFile
<1>1. IInv => HolderKeepsFile
  BY DEF IInv, HolderInstalled, OneOwner, HolderKeepsFile
<1>2. QED
  BY <1>1, Invariance, PTL

\* A reclaimer removes files of processes that are gone, never of live ones.
THEOREM OnlyTheDeadAreReclaimed == Spec => ReclaimsOnlyTheDead
<1> DEFINE Removal == \A o \in entries : o \notin entries' =>
              o.proc \in gone \/ (pc[o.proc] = "held" /\ pc'[o.proc] = "clearing")
<1>1. IInv /\ [Next]_vars => [Removal]_vars
  <2> SUFFICES ASSUME IInv, Next, NEW o \in entries, o \notin entries'
               PROVE o.proc \in gone \/ (pc[o.proc] = "held" /\ pc'[o.proc] = "clearing")
    BY DEF vars
  <2>1. CASE \E p \in Procs : UnlinkStale(p)
    BY <2>1 DEF UnlinkStale, At, IInv, StaleIsGone
  <2>2. CASE \E p \in Procs : ReleaseUnlink(p)
    <3>1. PICK p \in Procs : ReleaseUnlink(p)
      BY <2>2
    <3>2. o = mine[p] /\ mine[p].proc = p
      BY <3>1 DEF ReleaseUnlink, At, IInv, MineHonest
    <3>3. QED
      BY <3>1, <3>2 DEF ReleaseUnlink, At, Goto, IInv, TypeOK
  <2>3. QED
    BY <2>1, <2>2 DEF Next, Acquiring, Probing, Spawn, Die, StartAcquire, Install,
       RenameRefused, ListNothing, ListOwner, ProbeOwner, VerifyOwner, RmdirStale, Discard,
       ReleaseRmdir, HeldListNothing, HeldListOwner, HeldProbe, HeldVerify, lockVars
<1>2. QED
  BY <1>1, Invariance, PTL DEF Spec, ReclaimsOnlyTheDead

\* A prober that listed a holder's file and finds it still holding answers
\* "held", however late it looks at the pid and whatever the OS withholds.
THEOREM ProbeIsSound == Spec => ProbeNeverMissesHolder
<1> DEFINE Verdict == \A r \in Probers : \A p \in Procs :
              /\ probe[r] # "idle" /\ Holds(p) /\ mine[p] = probed[r]
              /\ probe'[r] = "idle"
              => answer'[r] = "held"
<1>1. IInv /\ [Next]_vars => [Verdict]_vars
  <2> SUFFICES ASSUME IInv, Next, NEW r \in Probers, NEW p \in Procs,
                      probe[r] # "idle", Holds(p), mine[p] = probed[r], probe'[r] = "idle"
               PROVE answer'[r] = "held"
    BY DEF vars
  <2>1. mine[p].proc = p /\ p \in alive /\ mine[p].identity \in {p, Unknown}
    BY DEF IInv, MineHonest, Holds, IdentityHonest
  <2>2. ProcessAlive(PidOf[probed[r].proc])
    BY <2>1 DEF ProcessAlive
  <2>3. ~HeldProbe(r)
    BY <2>2 DEF HeldProbe, IInv, TypeOK
  <2>4. \A current \in ReadableIdentities(PidOf[probed[r].proc]) :
           ~ProvenDifferent(SavedIdentity(probed[r]), current)
    BY <2>1 DEF ReadableIdentities, ProvenDifferent, SavedIdentity, IInv, PidsUnique
  <2>5. CASE HeldVerify(r)
    BY <2>4, <2>5 DEF HeldVerify, IInv, TypeOK
  <2>6. CASE \E s \in Probers : Probing(s)
    BY <2>3, <2>5, <2>6 DEF Probing, HeldListNothing, HeldListOwner, HeldProbe, HeldVerify,
       IInv, TypeOK
  <2>7. CASE \E q \in Procs : Spawn(q) \/ Die(q) \/ StartAcquire(q) \/ Acquiring(q) \/ ReleaseUnlink(q)
    <3>1. probe' = probe
      BY <2>7 DEF Acquiring, Spawn, Die, StartAcquire, Install, RenameRefused, ListNothing,
         ListOwner, ProbeOwner, VerifyOwner, UnlinkStale, RmdirStale, Discard, ReleaseUnlink,
         ReleaseRmdir, probeVars
    <3>2. QED
      BY <3>1
  <2>8. QED
    BY <2>6, <2>7 DEF Next
<1>2. QED
  BY <1>1, Invariance, PTL DEF Spec, ProbeNeverMissesHolder

-----------------------------------------------------------------------------
\* The lock is handed over by one system call: an install while nobody holds
\* it, a release or a death of its holder; every other call stutters.
LEMMA StepImplements == IInv /\ [Next]_vars => [Lock!Next]_Holder
<1> SUFFICES ASSUME IInv, [Next]_vars PROVE [Lock!Next]_Holder
  OBVIOUS
<1>1. \A p \in Procs : (CHOOSE x \in {p} : TRUE) = p
  OBVIOUS
<1>2. MutualExclusion
  BY AtMostOne
<1>3. ASSUME NEW p \in Procs, Install(p) PROVE Lock!Acquire(p)
  <2>1. Holders = {}
    BY <1>3 DEF Holders, Install, IInv, HolderInstalled
  <2>2. Holds(p)'
    BY <1>3 DEF Holds, Install, At, Goto, IInv, TypeOK
  <2>3. Holders' = {p}
    BY <1>3, <2>1, <2>2 DEF Holders, Holds, Install, At, Goto, IInv, TypeOK
  <2>4. QED
    BY <1>1, <2>1, <2>3 DEF Holder, Lock!Acquire
<1>4. ASSUME NEW p \in Procs, Holds(p), Die(p) \/ ReleaseUnlink(p) PROVE Lock!Drop(p)
  <2>1. Holders = {p}
    BY <1>4, <1>2 DEF Holders, MutualExclusion
  <2>2. Holders' = {}
    BY <1>4, <2>1 DEF Holders, Holds, Die, ReleaseUnlink, At, Goto, IInv, TypeOK
  <2>3. QED
    BY <1>1, <2>1, <2>2 DEF Holder, Lock!Drop
<1>5. ASSUME NEW p \in Procs, Die(p), ~Holds(p) PROVE Holders' = Holders
  BY <1>5 DEF Die, Holders, Holds, IInv, TypeOK
<1>6. ASSUME NEW p \in Procs, Spawn(p) \/ StartAcquire(p) PROVE Holders' = Holders
  BY <1>6 DEF Spawn, StartAcquire, At, Goto, Holders, Holds, IInv, TypeOK, QuietWhenDown
<1>7. ASSUME NEW p \in Procs, Acquiring(p), ~Install(p) PROVE Holders' = Holders
  BY <1>7 DEF Acquiring, RenameRefused, ListNothing, ListOwner, ProbeOwner, VerifyOwner,
     UnlinkStale, RmdirStale, Discard, ReleaseRmdir, NextAttempt, At, Goto, Holders, Holds,
     IInv, TypeOK
<1>8. ASSUME NEW r \in Probers, Probing(r) PROVE Holders' = Holders
  BY <1>8 DEF Probing, HeldListNothing, HeldListOwner, HeldProbe, HeldVerify, lockVars,
     Holders, Holds
<1>9. Holders' = Holders => Holder' = Holder
  BY DEF Holder
<1>10. ASSUME NEW p \in Procs, ReleaseUnlink(p) PROVE Holds(p)
  BY <1>10 DEF ReleaseUnlink, At, Holds
<1>11. CASE UNCHANGED vars
  BY <1>9, <1>11 DEF vars, lockVars, Holders, Holds
<1>12. QED
  BY <1>3, <1>4, <1>5, <1>6, <1>7, <1>8, <1>9, <1>10, <1>11 DEF Next, Lock!Next

\* The lock of acquireListenLock implements the abstract mutex its callers
\* rely on, with the process that holds it as the holder.
THEOREM ImplementsMutex == Spec => ImplementsLock
<1>1. Init => Lock!Init
  BY DEF Init, Lock!Init, Holder, Holders, Holds
<1>2. QED
  BY <1>1, StepImplements, Invariance, PTL DEF Spec, Lock!Spec, ImplementsLock
=============================================================================
