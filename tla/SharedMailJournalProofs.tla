---------------------- MODULE SharedMailJournalProofs ----------------------
(* The journal makes every transaction all or nothing, for any records,    *)
(* contents and sequence of process stops and power losses, until power is *)
(* lost in the middle of replaying a journal that nobody had synced.       *)
EXTENDS SharedMailJournal, TLAPS

(***************************************************************************)
(* The inductive invariant.  A journal on disk is consistent because every *)
(* change to a record is made while the journal names it (JournalKept), and *)
(* it is forgotten only when no record can fall back (ReplayedIsKept).  A   *)
(* journal whose unlink was not synced may reappear; GhostsAreApplied says  *)
(* that replaying it changes nothing.  All of this fails once power was lost *)
(* in the middle of replaying an exposed journal, so it is stated for ~torn. *)
(***************************************************************************)
Settled == \A r \in Records : kept[r] = {files[r]}

Quiet == pending = None \/ stage = "syncJournal" \/ exposed = "renamed"

StageMeans ==
    /\ stage \in {"ready", "decided", "syncForget"} => pending = None
    /\ stage \in {"replay", "syncRecord", "syncJournal"} => pending # None
    /\ stage = "syncRecord" => exposed # "renamed"
    /\ stage = "decided" <=> intent # None

ReplayedIsKept ==
    stage \in {"replay", "syncRecord"} =>
        /\ todo \subseteq Paths(pending)
        /\ \A r \in Paths(pending) \ todo : kept[r] = {pending.after[r]}

WrittenIsSeen == stage = "syncRecord" => at \in todo /\ files[at] = pending.after[at]

QuietIsSettled == Quiet => Settled

JournalConsistent ==
    pending # None =>
        \A r \in Records :
            /\ files[r] \in {pending.before[r], pending.after[r]}
            /\ kept[r] \subseteq {pending.before[r], pending.after[r]}
            /\ files[r] \in kept[r]

JournalStarts ==
    pending # None /\ (stage = "syncJournal" \/ exposed = "renamed") => pending.before = files

JournalKept == ~Quiet /\ exposed = "no" => keptPending = {pending}

GhostsAreApplied ==
    Quiet /\ exposed # "replayed" =>
        \A j \in keptPending : j # None /\ j # pending => j.after = files

PendingIsKept == pending \in keptPending

JCore ==
    /\ QuietIsSettled
    /\ JournalConsistent /\ JournalStarts
    /\ JournalKept /\ GhostsAreApplied /\ PendingIsKept

JInv ==
    /\ TypeOK
    /\ StageMeans
    /\ ReplayedIsKept /\ WrittenIsSeen
    /\ torn \/ JCore

-----------------------------------------------------------------------------
\* Taking the lock changes no file.
LEMMA EnterStep == ASSUME JInv, Enter PROVE JInv'
<1> USE NoneAssumption DEF Enter, disk
<1>1. TypeOK'
  BY DEF JInv, TypeOK, Images, Journals, Stages, StageMeans, Paths, Unsynced, UnsyncedPending
<1>2. StageMeans'
  BY DEF JInv, TypeOK, Images, Journals, StageMeans
<1>3. ReplayedIsKept' /\ WrittenIsSeen'
  BY DEF JInv, TypeOK, Images, Journals, ReplayedIsKept, WrittenIsSeen, StageMeans, Paths, Unsynced
<1>4. ASSUME ~torn' PROVE JCore'
  <2>1. JCore /\ TypeOK /\ StageMeans /\ ReplayedIsKept
    BY <1>4 DEF JInv
  <2>2. QuietIsSettled'
    BY <2>1 DEF JCore, TypeOK, Images, Journals, QuietIsSettled, Quiet, Settled, StageMeans
  <2>3. JournalConsistent'
    BY <2>1 DEF JCore, TypeOK, Images, Journals, JournalConsistent, StageMeans, Quiet, QuietIsSettled, Settled, Unsynced
  <2>4. JournalStarts'
    BY <2>1 DEF JCore, TypeOK, Images, Journals, JournalStarts, StageMeans
  <2>5. JournalKept'
    BY <2>1 DEF JCore, TypeOK, Images, Journals, JournalKept, Quiet, StageMeans
  <2>6. GhostsAreApplied'
    BY <2>1 DEF JCore, TypeOK, Images, Journals, GhostsAreApplied, Quiet, StageMeans, UnsyncedPending
  <2>7. PendingIsKept'
    BY <2>1 DEF JCore, PendingIsKept, UnsyncedPending
  <2>8. QED
    BY <2>2, <2>3, <2>4, <2>5, <2>6, <2>7 DEF JCore
<1>5. QED
  BY <1>1, <1>2, <1>3, <1>4 DEF JInv

\* Without a journal the files are the store.
LEMMA RecoverNothingStep == ASSUME JInv, RecoverNothing PROVE JInv'
<1> USE NoneAssumption DEF RecoverNothing, disk
<1>1. TypeOK'
  BY DEF JInv, TypeOK, Images, Journals, Stages, StageMeans, Paths, Unsynced, UnsyncedPending
<1>2. StageMeans'
  BY DEF JInv, TypeOK, Images, Journals, StageMeans
<1>3. ReplayedIsKept' /\ WrittenIsSeen'
  BY DEF JInv, TypeOK, Images, Journals, ReplayedIsKept, WrittenIsSeen, StageMeans, Paths, Unsynced
<1>4. ASSUME ~torn' PROVE JCore'
  <2>1. JCore /\ TypeOK /\ StageMeans /\ ReplayedIsKept
    BY <1>4 DEF JInv
  <2>2. QuietIsSettled'
    BY <2>1 DEF JCore, TypeOK, Images, Journals, QuietIsSettled, Quiet, Settled, StageMeans
  <2>3. JournalConsistent'
    BY <2>1 DEF JCore, TypeOK, Images, Journals, JournalConsistent, StageMeans, Quiet, QuietIsSettled, Settled, Unsynced
  <2>4. JournalStarts'
    BY <2>1 DEF JCore, TypeOK, Images, Journals, JournalStarts, StageMeans
  <2>5. JournalKept'
    BY <2>1 DEF JCore, TypeOK, Images, Journals, JournalKept, Quiet, StageMeans
  <2>6. GhostsAreApplied'
    BY <2>1 DEF JCore, TypeOK, Images, Journals, GhostsAreApplied, Quiet, StageMeans, UnsyncedPending
  <2>7. PendingIsKept'
    BY <2>1 DEF JCore, PendingIsKept, UnsyncedPending
  <2>8. QED
    BY <2>2, <2>3, <2>4, <2>5, <2>6, <2>7 DEF JCore
<1>5. QED
  BY <1>1, <1>2, <1>3, <1>4 DEF JInv

\* A consistent journal is replayed from its first record.
LEMMA RecoverJournalStep == ASSUME JInv, RecoverJournal PROVE JInv'
<1> USE NoneAssumption DEF RecoverJournal, disk
<1>1. TypeOK'
  BY DEF JInv, TypeOK, Images, Journals, Stages, StageMeans, Paths, Unsynced, UnsyncedPending
<1>2. StageMeans'
  BY DEF JInv, TypeOK, Images, Journals, StageMeans
<1>3. ReplayedIsKept' /\ WrittenIsSeen'
  BY DEF JInv, TypeOK, Images, Journals, ReplayedIsKept, WrittenIsSeen, StageMeans, Paths, Unsynced
<1>4. ASSUME ~torn' PROVE JCore'
  <2>1. JCore /\ TypeOK /\ StageMeans /\ ReplayedIsKept
    BY <1>4 DEF JInv
  <2>2. QuietIsSettled'
    BY <2>1 DEF JCore, TypeOK, Images, Journals, QuietIsSettled, Quiet, Settled, StageMeans
  <2>3. JournalConsistent'
    BY <2>1 DEF JCore, TypeOK, Images, Journals, JournalConsistent, StageMeans, Quiet, QuietIsSettled, Settled, Unsynced
  <2>4. JournalStarts'
    BY <2>1 DEF JCore, TypeOK, Images, Journals, JournalStarts, StageMeans
  <2>5. JournalKept'
    BY <2>1 DEF JCore, TypeOK, Images, Journals, JournalKept, Quiet, StageMeans
  <2>6. GhostsAreApplied'
    BY <2>1 DEF JCore, TypeOK, Images, Journals, GhostsAreApplied, Quiet, StageMeans, UnsyncedPending
  <2>7. PendingIsKept'
    BY <2>1 DEF JCore, PendingIsKept, UnsyncedPending
  <2>8. QED
    BY <2>2, <2>3, <2>4, <2>5, <2>6, <2>7 DEF JCore
<1>5. QED
  BY <1>1, <1>2, <1>3, <1>4 DEF JInv

\* A replayed record has its after image and may still fall back.
LEMMA ReplayRecordStep == ASSUME NEW r \in Records, JInv, ReplayRecord(r) PROVE JInv'
<1> USE NoneAssumption DEF ReplayRecord, disk
<1>1. TypeOK'
  BY DEF JInv, TypeOK, Images, Journals, Stages, StageMeans, Paths, Unsynced, UnsyncedPending
<1>2. StageMeans'
  BY DEF JInv, TypeOK, Images, Journals, StageMeans
<1>3. ReplayedIsKept' /\ WrittenIsSeen'
  BY DEF JInv, TypeOK, Images, Journals, ReplayedIsKept, WrittenIsSeen, StageMeans, Paths, Unsynced
<1>4. ASSUME ~torn' PROVE JCore'
  <2>1. JCore /\ TypeOK /\ StageMeans /\ ReplayedIsKept
    BY <1>4 DEF JInv
  <2>2. QuietIsSettled'
    BY <2>1 DEF JCore, TypeOK, Images, Journals, QuietIsSettled, Quiet, Settled, StageMeans
  <2>3. JournalConsistent'
    BY <2>1 DEF JCore, TypeOK, Images, Journals, JournalConsistent, StageMeans, Quiet, QuietIsSettled, Settled, Unsynced
  <2>4. JournalStarts'
    BY <2>1 DEF JCore, TypeOK, Images, Journals, JournalStarts, StageMeans
  <2>5. JournalKept'
    BY <2>1 DEF JCore, TypeOK, Images, Journals, JournalKept, Quiet, StageMeans
  <2>6. GhostsAreApplied'
    BY <2>1 DEF JCore, TypeOK, Images, Journals, GhostsAreApplied, Quiet, StageMeans, UnsyncedPending
  <2>7. PendingIsKept'
    BY <2>1 DEF JCore, PendingIsKept, UnsyncedPending
  <2>8. QED
    BY <2>2, <2>3, <2>4, <2>5, <2>6, <2>7 DEF JCore
<1>5. QED
  BY <1>1, <1>2, <1>3, <1>4 DEF JInv

\* A synced record cannot fall back.
LEMMA SyncRecordStep == ASSUME JInv, SyncRecord PROVE JInv'
<1> USE NoneAssumption DEF SyncRecord, disk
<1>1. TypeOK'
  BY DEF JInv, TypeOK, Images, Journals, Stages, StageMeans, Paths, Unsynced, UnsyncedPending
<1>2. StageMeans'
  BY DEF JInv, TypeOK, Images, Journals, StageMeans
<1>3. ReplayedIsKept' /\ WrittenIsSeen'
  BY DEF JInv, TypeOK, Images, Journals, ReplayedIsKept, WrittenIsSeen, StageMeans, Paths, Unsynced
<1>4. ASSUME ~torn' PROVE JCore'
  <2>1. JCore /\ TypeOK /\ StageMeans /\ ReplayedIsKept
    BY <1>4 DEF JInv
  <2>2. QuietIsSettled'
    BY <2>1 DEF JCore, TypeOK, Images, Journals, QuietIsSettled, Quiet, Settled, StageMeans
  <2>3. JournalConsistent'
    BY <2>1 DEF JCore, TypeOK, Images, Journals, JournalConsistent, StageMeans, Quiet, QuietIsSettled, Settled, Unsynced
  <2>4. JournalStarts'
    BY <2>1 DEF JCore, TypeOK, Images, Journals, JournalStarts, StageMeans
  <2>5. JournalKept'
    BY <2>1 DEF JCore, TypeOK, Images, Journals, JournalKept, Quiet, StageMeans
  <2>6. GhostsAreApplied'
    BY <2>1 DEF JCore, TypeOK, Images, Journals, GhostsAreApplied, Quiet, StageMeans, UnsyncedPending
  <2>7. PendingIsKept'
    BY <2>1 DEF JCore, PendingIsKept, UnsyncedPending
  <2>8. QED
    BY <2>2, <2>3, <2>4, <2>5, <2>6, <2>7 DEF JCore
<1>5. QED
  BY <1>1, <1>2, <1>3, <1>4 DEF JInv

\* The journal is unlinked when no record can fall back.
LEMMA ForgetStep == ASSUME JInv, Forget PROVE JInv'
<1> USE NoneAssumption DEF Forget, disk
<1>1. TypeOK'
  BY DEF JInv, TypeOK, Images, Journals, Stages, StageMeans, Paths, Unsynced, UnsyncedPending
<1>2. StageMeans'
  BY DEF JInv, TypeOK, Images, Journals, StageMeans
<1>3. ReplayedIsKept' /\ WrittenIsSeen'
  BY DEF JInv, TypeOK, Images, Journals, ReplayedIsKept, WrittenIsSeen, StageMeans, Paths, Unsynced
<1>4. ASSUME ~torn' PROVE JCore'
  <2>1. JCore /\ TypeOK /\ StageMeans /\ ReplayedIsKept
    BY <1>4 DEF JInv
  <2>2. QuietIsSettled'
    BY <2>1 DEF JCore, TypeOK, Images, Journals, QuietIsSettled, Quiet, Settled, StageMeans,
       ReplayedIsKept, JournalConsistent, Paths
  <2>3. JournalConsistent'
    BY <2>1 DEF JCore, TypeOK, Images, Journals, JournalConsistent, StageMeans, Quiet, QuietIsSettled, Settled, Unsynced
  <2>4. JournalStarts'
    BY <2>1 DEF JCore, TypeOK, Images, Journals, JournalStarts, StageMeans
  <2>5. JournalKept'
    BY <2>1 DEF JCore, TypeOK, Images, Journals, JournalKept, Quiet, StageMeans
  <2>6. GhostsAreApplied'
    <3>1. \A r \in Records : files[r] = pending.after[r]
      BY <2>1 DEF JCore, ReplayedIsKept, JournalConsistent, StageMeans, Paths
    <3>2. pending.after = files
      BY <2>1, <3>1 DEF TypeOK, Images, Journals, StageMeans
    <3>3. exposed # "replayed" => \A j \in keptPending : j # None => j.after = files
      BY <2>1, <3>2 DEF JCore, JournalKept, GhostsAreApplied, TypeOK, Quiet
    <3>4. QED
      BY <3>3 DEF GhostsAreApplied, UnsyncedPending
  <2>7. PendingIsKept'
    BY <2>1 DEF JCore, PendingIsKept, UnsyncedPending
  <2>8. QED
    BY <2>2, <2>3, <2>4, <2>5, <2>6, <2>7 DEF JCore
<1>5. QED
  BY <1>1, <1>2, <1>3, <1>4 DEF JInv

\* A synced unlink leaves no ghost of the journal.
LEMMA SyncForgetStep == ASSUME JInv, SyncForget PROVE JInv'
<1> USE NoneAssumption DEF SyncForget, disk
<1>1. TypeOK'
  BY DEF JInv, TypeOK, Images, Journals, Stages, StageMeans, Paths, Unsynced, UnsyncedPending
<1>2. StageMeans'
  BY DEF JInv, TypeOK, Images, Journals, StageMeans
<1>3. ReplayedIsKept' /\ WrittenIsSeen'
  BY DEF JInv, TypeOK, Images, Journals, ReplayedIsKept, WrittenIsSeen, StageMeans, Paths, Unsynced
<1>4. ASSUME ~torn' PROVE JCore'
  <2>1. JCore /\ TypeOK /\ StageMeans /\ ReplayedIsKept
    BY <1>4 DEF JInv
  <2>2. QuietIsSettled'
    BY <2>1 DEF JCore, TypeOK, Images, Journals, QuietIsSettled, Quiet, Settled, StageMeans
  <2>3. JournalConsistent'
    BY <2>1 DEF JCore, TypeOK, Images, Journals, JournalConsistent, StageMeans, Quiet, QuietIsSettled, Settled, Unsynced
  <2>4. JournalStarts'
    BY <2>1 DEF JCore, TypeOK, Images, Journals, JournalStarts, StageMeans
  <2>5. JournalKept'
    BY <2>1 DEF JCore, TypeOK, Images, Journals, JournalKept, Quiet, StageMeans
  <2>6. GhostsAreApplied'
    BY <2>1 DEF JCore, TypeOK, Images, Journals, GhostsAreApplied, Quiet, StageMeans, UnsyncedPending
  <2>7. PendingIsKept'
    BY <2>1 DEF JCore, PendingIsKept, UnsyncedPending
  <2>8. QED
    BY <2>2, <2>3, <2>4, <2>5, <2>6, <2>7 DEF JCore
<1>5. QED
  BY <1>1, <1>2, <1>3, <1>4 DEF JInv

\* Deciding what to change changes no file.
LEMMA DecideStep == ASSUME NEW new \in Images, JInv, Decide(new) PROVE JInv'
<1> USE NoneAssumption DEF Decide, disk
<1>1. TypeOK'
  BY DEF JInv, TypeOK, Images, Journals, Stages, StageMeans, Paths, Unsynced, UnsyncedPending
<1>2. StageMeans'
  BY DEF JInv, TypeOK, Images, Journals, StageMeans
<1>3. ReplayedIsKept' /\ WrittenIsSeen'
  BY DEF JInv, TypeOK, Images, Journals, ReplayedIsKept, WrittenIsSeen, StageMeans, Paths, Unsynced
<1>4. ASSUME ~torn' PROVE JCore'
  <2>1. JCore /\ TypeOK /\ StageMeans /\ ReplayedIsKept
    BY <1>4 DEF JInv
  <2>2. QuietIsSettled'
    BY <2>1 DEF JCore, TypeOK, Images, Journals, QuietIsSettled, Quiet, Settled, StageMeans
  <2>3. JournalConsistent'
    BY <2>1 DEF JCore, TypeOK, Images, Journals, JournalConsistent, StageMeans, Quiet, QuietIsSettled, Settled, Unsynced
  <2>4. JournalStarts'
    BY <2>1 DEF JCore, TypeOK, Images, Journals, JournalStarts, StageMeans
  <2>5. JournalKept'
    BY <2>1 DEF JCore, TypeOK, Images, Journals, JournalKept, Quiet, StageMeans
  <2>6. GhostsAreApplied'
    BY <2>1 DEF JCore, TypeOK, Images, Journals, GhostsAreApplied, Quiet, StageMeans, UnsyncedPending
  <2>7. PendingIsKept'
    BY <2>1 DEF JCore, PendingIsKept, UnsyncedPending
  <2>8. QED
    BY <2>2, <2>3, <2>4, <2>5, <2>6, <2>7 DEF JCore
<1>5. QED
  BY <1>1, <1>2, <1>3, <1>4 DEF JInv

\* A transaction may change nothing.
LEMMA DecideNothingStep == ASSUME JInv, DecideNothing PROVE JInv'
<1> USE NoneAssumption DEF DecideNothing, disk
<1>1. TypeOK'
  BY DEF JInv, TypeOK, Images, Journals, Stages, StageMeans, Paths, Unsynced, UnsyncedPending
<1>2. StageMeans'
  BY DEF JInv, TypeOK, Images, Journals, StageMeans
<1>3. ReplayedIsKept' /\ WrittenIsSeen'
  BY DEF JInv, TypeOK, Images, Journals, ReplayedIsKept, WrittenIsSeen, StageMeans, Paths, Unsynced
<1>4. ASSUME ~torn' PROVE JCore'
  <2>1. JCore /\ TypeOK /\ StageMeans /\ ReplayedIsKept
    BY <1>4 DEF JInv
  <2>2. QuietIsSettled'
    BY <2>1 DEF JCore, TypeOK, Images, Journals, QuietIsSettled, Quiet, Settled, StageMeans
  <2>3. JournalConsistent'
    BY <2>1 DEF JCore, TypeOK, Images, Journals, JournalConsistent, StageMeans, Quiet, QuietIsSettled, Settled, Unsynced
  <2>4. JournalStarts'
    BY <2>1 DEF JCore, TypeOK, Images, Journals, JournalStarts, StageMeans
  <2>5. JournalKept'
    BY <2>1 DEF JCore, TypeOK, Images, Journals, JournalKept, Quiet, StageMeans
  <2>6. GhostsAreApplied'
    BY <2>1 DEF JCore, TypeOK, Images, Journals, GhostsAreApplied, Quiet, StageMeans, UnsyncedPending
  <2>7. PendingIsKept'
    BY <2>1 DEF JCore, PendingIsKept, UnsyncedPending
  <2>8. QED
    BY <2>2, <2>3, <2>4, <2>5, <2>6, <2>7 DEF JCore
<1>5. QED
  BY <1>1, <1>2, <1>3, <1>4 DEF JInv

\* The new journal starts from the files as they are.
LEMMA WriteJournalStep == ASSUME JInv, WriteJournal PROVE JInv'
<1> USE NoneAssumption DEF WriteJournal, disk
<1>1. TypeOK'
  BY DEF JInv, TypeOK, Images, Journals, Stages, StageMeans, Paths, Unsynced, UnsyncedPending
<1>2. StageMeans'
  BY DEF JInv, TypeOK, Images, Journals, StageMeans
<1>3. ReplayedIsKept' /\ WrittenIsSeen'
  BY DEF JInv, TypeOK, Images, Journals, ReplayedIsKept, WrittenIsSeen, StageMeans, Paths, Unsynced
<1>4. ASSUME ~torn' PROVE JCore'
  <2>1. JCore /\ TypeOK /\ StageMeans /\ ReplayedIsKept
    BY <1>4 DEF JInv
  <2>2. QuietIsSettled'
    BY <2>1 DEF JCore, TypeOK, Images, Journals, QuietIsSettled, Quiet, Settled, StageMeans
  <2>3. JournalConsistent'
    BY <2>1 DEF JCore, TypeOK, Images, Journals, JournalConsistent, StageMeans, Quiet, QuietIsSettled, Settled, Unsynced
  <2>4. JournalStarts'
    BY <2>1 DEF JCore, TypeOK, Images, Journals, JournalStarts, StageMeans
  <2>5. JournalKept'
    BY <2>1 DEF JCore, TypeOK, Images, Journals, JournalKept, Quiet, StageMeans
  <2>6. GhostsAreApplied'
    BY <2>1 DEF JCore, TypeOK, Images, Journals, GhostsAreApplied, Quiet, StageMeans, UnsyncedPending
  <2>7. PendingIsKept'
    BY <2>1 DEF JCore, PendingIsKept, UnsyncedPending
  <2>8. QED
    BY <2>2, <2>3, <2>4, <2>5, <2>6, <2>7 DEF JCore
<1>5. QED
  BY <1>1, <1>2, <1>3, <1>4 DEF JInv

\* Once synced, the journal is what a power loss leaves.
LEMMA SyncJournalStep == ASSUME JInv, SyncJournal PROVE JInv'
<1> USE NoneAssumption DEF SyncJournal, disk
<1>1. TypeOK'
  BY DEF JInv, TypeOK, Images, Journals, Stages, StageMeans, Paths, Unsynced, UnsyncedPending
<1>2. StageMeans'
  BY DEF JInv, TypeOK, Images, Journals, StageMeans
<1>3. ReplayedIsKept' /\ WrittenIsSeen'
  BY DEF JInv, TypeOK, Images, Journals, ReplayedIsKept, WrittenIsSeen, StageMeans, Paths, Unsynced
<1>4. ASSUME ~torn' PROVE JCore'
  <2>1. JCore /\ TypeOK /\ StageMeans /\ ReplayedIsKept
    BY <1>4 DEF JInv
  <2>2. QuietIsSettled'
    BY <2>1 DEF JCore, TypeOK, Images, Journals, QuietIsSettled, Quiet, Settled, StageMeans
  <2>3. JournalConsistent'
    BY <2>1 DEF JCore, TypeOK, Images, Journals, JournalConsistent, StageMeans, Quiet, QuietIsSettled, Settled, Unsynced
  <2>4. JournalStarts'
    BY <2>1 DEF JCore, TypeOK, Images, Journals, JournalStarts, StageMeans
  <2>5. JournalKept'
    BY <2>1 DEF JCore, TypeOK, Images, Journals, JournalKept, Quiet, StageMeans
  <2>6. GhostsAreApplied'
    BY <2>1 DEF JCore, TypeOK, Images, Journals, GhostsAreApplied, Quiet, StageMeans, UnsyncedPending
  <2>7. PendingIsKept'
    BY <2>1 DEF JCore, PendingIsKept, UnsyncedPending
  <2>8. QED
    BY <2>2, <2>3, <2>4, <2>5, <2>6, <2>7 DEF JCore
<1>5. QED
  BY <1>1, <1>2, <1>3, <1>4 DEF JInv

\* A stopped transaction leaves the disk as it is.
LEMMA StopStep == ASSUME JInv, Stop PROVE JInv'
<1> USE NoneAssumption DEF Stop, disk
<1>1. TypeOK'
  BY DEF JInv, TypeOK, Images, Journals, Stages, StageMeans, Paths, Unsynced, UnsyncedPending
<1>2. StageMeans'
  BY DEF JInv, TypeOK, Images, Journals, StageMeans
<1>3. ReplayedIsKept' /\ WrittenIsSeen'
  BY DEF JInv, TypeOK, Images, Journals, ReplayedIsKept, WrittenIsSeen, StageMeans, Paths, Unsynced
<1>4. ASSUME ~torn' PROVE JCore'
  <2>1. JCore /\ TypeOK /\ StageMeans /\ ReplayedIsKept
    BY <1>4 DEF JInv
  <2>2. QuietIsSettled'
    BY <2>1 DEF JCore, TypeOK, Images, Journals, QuietIsSettled, Quiet, Settled, StageMeans
  <2>3. JournalConsistent'
    BY <2>1 DEF JCore, TypeOK, Images, Journals, JournalConsistent, StageMeans, Quiet, QuietIsSettled, Settled, Unsynced
  <2>4. JournalStarts'
    BY <2>1 DEF JCore, TypeOK, Images, Journals, JournalStarts, StageMeans
  <2>5. JournalKept'
    BY <2>1 DEF JCore, TypeOK, Images, Journals, JournalKept, Quiet, StageMeans
  <2>6. GhostsAreApplied'
    BY <2>1 DEF JCore, TypeOK, Images, Journals, GhostsAreApplied, Quiet, StageMeans, UnsyncedPending
  <2>7. PendingIsKept'
    BY <2>1 DEF JCore, PendingIsKept, UnsyncedPending
  <2>8. QED
    BY <2>2, <2>3, <2>4, <2>5, <2>6, <2>7 DEF JCore
<1>5. QED
  BY <1>1, <1>2, <1>3, <1>4 DEF JInv

\* A power loss leaves a disk the next recovery can repair.
LEMMA MachineFailsStep == ASSUME JInv, MachineFails PROVE JInv'
<1> USE NoneAssumption DEF MachineFails, disk
<1>1. TypeOK'
  BY DEF JInv, TypeOK, Images, Journals, Stages, StageMeans, Paths, Unsynced, UnsyncedPending
<1>2. StageMeans'
  BY DEF JInv, TypeOK, Images, Journals, StageMeans
<1>3. ReplayedIsKept' /\ WrittenIsSeen'
  BY DEF JInv, TypeOK, Images, Journals, ReplayedIsKept, WrittenIsSeen, StageMeans, Paths, Unsynced
<1>4. ASSUME ~torn' PROVE JCore'
  <2>1. JCore /\ TypeOK /\ StageMeans /\ ReplayedIsKept
    BY <1>4 DEF JInv
  <2>2. QuietIsSettled'
    BY <2>1 DEF JCore, TypeOK, Images, Journals, QuietIsSettled, Quiet, Settled, StageMeans
  <2>3. JournalConsistent'
    <3>1. \A r \in Records : kept'[r] = {files'[r]} /\ files'[r] \in kept[r]
      BY <2>1 DEF TypeOK
    <3>2. CASE Quiet /\ exposed # "replayed"
      <4>1. files' = files
        BY <2>1, <3>2 DEF JCore, QuietIsSettled, Settled, TypeOK, Images
      <4>2. ASSUME pending' # None PROVE files = pending'.before \/ files = pending'.after
        BY <2>1, <3>2, <4>2 DEF JCore, GhostsAreApplied, JournalStarts, Quiet
      <4>3. QED
        BY <3>1, <4>1, <4>2 DEF JournalConsistent
    <3>3. CASE ~(Quiet /\ exposed # "replayed")
      <4>1. pending' = pending
        BY <1>4, <2>1, <3>3 DEF JCore, JournalKept, TypeOK, Quiet
      <4>2. QED
        BY <2>1, <3>1, <4>1 DEF JCore, JournalConsistent
    <3>4. QED
      BY <3>2, <3>3
  <2>4. JournalStarts'
    BY <2>1 DEF JCore, TypeOK, Images, Journals, JournalStarts, StageMeans
  <2>5. JournalKept'
    BY <2>1 DEF JCore, TypeOK, Images, Journals, JournalKept, Quiet, StageMeans
  <2>6. GhostsAreApplied'
    BY <2>1 DEF JCore, TypeOK, Images, Journals, GhostsAreApplied, Quiet, StageMeans, UnsyncedPending
  <2>7. PendingIsKept'
    BY <2>1 DEF JCore, PendingIsKept, UnsyncedPending
  <2>8. QED
    BY <2>2, <2>3, <2>4, <2>5, <2>6, <2>7 DEF JCore
<1>5. QED
  BY <1>1, <1>2, <1>3, <1>4 DEF JInv

-----------------------------------------------------------------------------
\* The invariant holds of an empty store.
LEMMA InitJInv == Init => JInv
<1> SUFFICES ASSUME Init PROVE JInv
  OBVIOUS
<1> USE NoneAssumption DEF Init
<1>1. TypeOK
  BY AbsentAssumption, RecordsAssumption DEF TypeOK, Images, Stages
<1>2. StageMeans /\ ReplayedIsKept /\ WrittenIsSeen
  BY DEF StageMeans, ReplayedIsKept, WrittenIsSeen
<1>3. QuietIsSettled /\ JournalConsistent /\ JournalStarts
  BY DEF QuietIsSettled, Settled, JournalConsistent, JournalStarts
<1>4. JournalKept /\ GhostsAreApplied /\ PendingIsKept
  BY DEF JournalKept, Quiet, GhostsAreApplied, PendingIsKept
<1>5. QED
  BY <1>1, <1>2, <1>3, <1>4 DEF JInv, JCore

\* Every file operation, stop and power loss keeps it.
LEMMA NextJInv == JInv /\ [Next]_vars => JInv'
<1> SUFFICES ASSUME JInv, [Next]_vars PROVE JInv'
  OBVIOUS
<1>1. CASE Next
  BY <1>1, EnterStep, RecoverNothingStep, RecoverJournalStep, ReplayRecordStep,
     SyncRecordStep, ForgetStep, SyncForgetStep, DecideStep, DecideNothingStep,
     WriteJournalStep, SyncJournalStep, StopStep, MachineFailsStep DEF Next
<1>2. CASE UNCHANGED vars
  BY <1>2 DEF vars, JInv, JCore, TypeOK, StageMeans, QuietIsSettled, Quiet, Settled,
     JournalConsistent, JournalStarts, JournalKept, GhostsAreApplied, PendingIsKept,
     ReplayedIsKept, Paths, WrittenIsSeen
<1>3. QED
  BY <1>1, <1>2

\* The strengthening is an invariant of the journal.
LEMMA JournalInvariance == Spec => []JInv
BY InitJInv, NextJInv, PTL DEF Spec

\* Every variable keeps its type.
THEOREM JournalTypeCorrect == Spec => []TypeOK
<1>1. JInv => TypeOK
  BY DEF JInv
<1>2. QED
  BY <1>1, JournalInvariance, PTL

\* recover() never reports a store that only this code wrote as invalid: after
\* any stops and power losses each journaled record has one of its two images,
\* unless power was lost in the middle of replaying a journal nobody had synced.
THEOREM RecoverySucceeds == Spec => []RecoveryNeverRefuses
<1>1. JInv => RecoveryNeverRefuses
  BY DEF JInv, JCore, JournalConsistent, RecoveryNeverRefuses, Consistent, Paths
<1>2. QED
  BY <1>1, JournalInvariance, PTL

\* recover unlinks pending.json only when every record it names would survive a
\* power loss with its new content; torn or not.
THEOREM ForgetsOnlyApplied == Spec => ForgottenOnlyWhenApplied
<1> DEFINE Forgets == pending # None /\ stage' = "syncForget" =>
                        \A r \in Paths(pending) : kept[r] = {pending.after[r]}
<1>1. JInv /\ [Next]_vars => [Forgets]_vars
  <2> SUFFICES ASSUME JInv, Next, pending # None, stage' = "syncForget",
                      NEW r \in Paths(pending)
               PROVE kept[r] = {pending.after[r]}
    BY DEF vars
  <2>1. CASE Forget
    BY <2>1 DEF Forget, JInv, ReplayedIsKept, Paths
  <2>2. ASSUME ~Forget PROVE FALSE
    BY <2>2 DEF Next, Enter, RecoverNothing, RecoverJournal, ReplayRecord, SyncRecord,
       SyncForget, Decide, DecideNothing, WriteJournal, SyncJournal, Stop, MachineFails
  <2>3. QED
    BY <2>1, <2>2
<1>2. QED
  BY <1>1, JournalInvariance, PTL DEF Spec, ForgottenOnlyWhenApplied

-----------------------------------------------------------------------------
\* While nothing is torn, a journal's images are whole stores: they agree with
\* the files on every record it does not name.
LEMMA ImagesAreWhole ==
  ASSUME JInv, ~torn, pending # None
  PROVE With(pending.after) = pending.after /\ With(pending.before) = pending.before
<1>1. pending.before \in Images /\ pending.after \in Images
  BY DEF JInv, TypeOK, Journals
<1>2. \A r \in Records \ Paths(pending) : files[r] = pending.after[r] /\ files[r] = pending.before[r]
  BY DEF JInv, JCore, JournalConsistent, Paths
<1>3. \A r \in Records : With(pending.after)[r] = pending.after[r]
                       /\ With(pending.before)[r] = pending.before[r]
  BY <1>2 DEF With
<1>4. QED
  BY <1>1, <1>3 DEF With, Images

\* Each file operation is one step of the atomic store or none: the rename of
\* pending.json commits, the sync of its directory acknowledges, or else its
\* unlink after a replay; a power loss before falls back or acknowledges, and
\* replaying changes nothing.
LEMMA JournalStepImplements ==
  JInv /\ JInv' /\ [Next]_vars => [torn' \/ Atomic!Next]_(Atomic!vars)
<1> SUFFICES ASSUME JInv, JInv', [Next]_vars, ~torn' PROVE [Atomic!Next]_(Atomic!vars)
  OBVIOUS
<1> USE NoneAssumption
<1>0. ~torn
  BY DEF Next, vars, disk, Enter, RecoverNothing, RecoverJournal, ReplayRecord, SyncRecord,
     Forget, SyncForget, Decide, DecideNothing, WriteJournal, SyncJournal, Stop, MachineFails
<1>a. pending # None => Logical = pending.after
  BY <1>0, ImagesAreWhole DEF Logical
<1>b. pending' # None => Logical' = pending'.after
  <2>1. ASSUME pending' # None PROVE With(pending.after)' = pending'.after
    <3>1. pending'.after \in Images
      BY <2>1 DEF JInv, TypeOK, Journals
    <3>2. \A r \in Records \ Paths(pending)' : files'[r] = pending'.after[r]
      BY <2>1 DEF JInv, JCore, JournalConsistent, Paths
    <3>3. QED
      BY <3>1, <3>2 DEF With, Images
  <2>2. QED
    BY <2>1 DEF Logical
<1>c. Undo = IF pending # None /\ (stage = "syncJournal" \/ exposed # "no")
               THEN pending.before ELSE None
  BY <1>0, ImagesAreWhole DEF Undo
<1>d. Undo' = IF pending' # None /\ (stage' = "syncJournal" \/ exposed' # "no")
                THEN pending'.before ELSE None
  <2>1. ASSUME pending' # None PROVE With(pending.before)' = pending'.before
    <3>1. pending'.before \in Images
      BY <2>1 DEF JInv, TypeOK, Journals
    <3>2. \A r \in Records \ Paths(pending)' : files'[r] = pending'.before[r]
      BY <2>1 DEF JInv, JCore, JournalConsistent, Paths
    <3>3. QED
      BY <3>1, <3>2 DEF With, Images
  <2>2. QED
    BY <2>1 DEF Undo
<1>e. pending # None => pending.before # None /\ pending.after # None
  BY DEF JInv, TypeOK, Journals
<1>f. ASSUME pending' = pending, pending = None => files' = files PROVE Logical' = Logical
  BY <1>f, <1>a, <1>b DEF Logical
\* A step that changes neither the store nor the journal may acknowledge.
<1>g. ASSUME Logical' = Logical, intent' = intent, Undo' = Undo \/ Undo' = None
      PROVE [Atomic!Next]_(Atomic!vars)
  BY <1>g DEF Atomic!vars, Atomic!Next, Atomic!Acknowledge
\* ... or give up an intent, when there is nothing to fall back to.
<1>h. ASSUME Logical' = Logical, intent' = None, Undo' = Undo \/ Undo' = None, intent # None => Undo = None
      PROVE [Atomic!Next]_(Atomic!vars)
  <2>1. CASE intent = None
    BY <1>h, <2>1, <1>g
  <2>2. CASE intent # None
    BY <1>h, <2>2 DEF Atomic!Next, Atomic!Abandon
  <2>3. QED
    BY <2>1, <2>2
<1>i. intent # None => Undo = None
  BY <1>c DEF JInv, StageMeans
<1>2. CASE UNCHANGED vars
  <2>1. Logical' = Logical /\ intent' = intent /\ Undo' = Undo
    BY <1>2, <1>c, <1>d, <1>f DEF vars
  <2>2. QED
    BY <2>1, <1>g
<1>3. CASE Enter \/ RecoverNothing \/ RecoverJournal \/ SyncRecord \/ SyncForget \/ DecideNothing
  <2>1. Logical' = Logical /\ intent' = intent
    BY <1>3, <1>f DEF Enter, RecoverNothing, RecoverJournal, SyncRecord, SyncForget,
       DecideNothing, disk
  <2>2. Undo' = Undo \/ Undo' = None
    BY <1>3, <1>c, <1>d DEF Enter, RecoverNothing, RecoverJournal, SyncRecord, SyncForget,
       DecideNothing, disk
  <2>3. QED
    BY <2>1, <2>2, <1>g
<1>4. CASE \E r \in Records : ReplayRecord(r)
  <2>1. Logical' = Logical /\ intent' = intent
    BY <1>4, <1>f DEF ReplayRecord, JInv, StageMeans
  <2>2. Undo' = Undo
    BY <1>4, <1>c, <1>d DEF ReplayRecord, JInv, TypeOK
  <2>3. QED
    BY <2>1, <2>2, <1>g
<1>5. CASE Forget
  <2>1. \A r \in Records : files[r] = pending.after[r]
    BY <1>5, <1>0 DEF Forget, JInv, JCore, ReplayedIsKept, JournalConsistent, StageMeans, Paths
  <2>2. pending.after = files
    BY <1>5, <2>1 DEF Forget, JInv, TypeOK, Images, Journals, StageMeans
  <2>3. Logical' = Logical /\ intent' = intent /\ Undo' = None
    BY <1>5, <2>2, <1>a, <1>d DEF Forget, Logical, JInv, StageMeans
  <2>4. QED
    BY <2>3, <1>g
<1>6. CASE \E new \in Images : Decide(new)
  <2>1. Logical' = Logical /\ Undo' = Undo
    BY <1>6, <1>f, <1>c, <1>d DEF Decide, disk, JInv, StageMeans
  <2>2. intent = None /\ intent' \in Images
    BY <1>6 DEF Decide, JInv, StageMeans
  <2>3. Atomic!Ask
    BY <2>1, <2>2 DEF Atomic!Ask, Images
  <2>4. QED
    BY <2>3 DEF Atomic!Next
<1>7. CASE WriteJournal
  <2>1. pending = None /\ intent # None
    BY <1>7 DEF WriteJournal, JInv, StageMeans
  <2>2. pending' # None /\ pending'.after = intent /\ pending'.before = files /\ intent' = None
    BY <1>7 DEF WriteJournal, JInv, StageMeans, TypeOK
  <2>3. Logical' = intent /\ Logical = files
    BY <2>1, <2>2, <1>b DEF Logical
  <2>4. Undo' = files
    BY <1>7, <2>2, <1>d DEF WriteJournal
  <2>5. Atomic!Commit
    BY <2>1, <2>2, <2>3, <2>4 DEF Atomic!Commit
  <2>6. QED
    BY <2>5 DEF Atomic!Next
<1>8. CASE SyncJournal
  <2>1. Logical' = Logical /\ intent' = intent /\ Undo' = None
    BY <1>8, <1>f, <1>d DEF SyncJournal
  <2>2. QED
    BY <2>1, <1>g
<1>9. CASE Stop
  <2>1. Logical' = Logical /\ intent' = None
    BY <1>9, <1>f DEF Stop
  <2>2. Undo' = Undo \/ Undo' = None
    BY <1>9, <1>c, <1>d DEF Stop
  <2>3. QED
    BY <2>1, <2>2, <1>h, <1>i
<1>10. CASE MachineFails
  <2>1. intent' = None /\ Undo' = None
    BY <1>10, <1>d DEF MachineFails
  <2>2. CASE Logical' = Logical
    BY <2>1, <2>2, <1>h, <1>i
  <2>3. CASE pending' = pending
    <3>1. CASE pending # None
      BY <2>2, <2>3, <3>1, <1>f
    <3>2. CASE pending = None
      <4>1. files' = files
        BY <1>10, <3>2, <1>0 DEF MachineFails, JInv, JCore, QuietIsSettled, Quiet, Settled,
           TypeOK, Images
      <4>2. QED
        BY <2>2, <2>3, <3>2, <4>1, <1>f
    <3>3. QED
      BY <3>1, <3>2
  <2>4. CASE pending' # pending
    <3>1. exposed # "replayed"
      BY <1>10, <2>4 DEF MachineFails
    <3>2. Quiet
      BY <1>10, <2>4, <3>1, <1>0 DEF MachineFails, JInv, JCore, JournalKept, TypeOK, Quiet
    <3>3. files' = files
      BY <1>10, <3>2, <1>0 DEF MachineFails, JInv, JCore, QuietIsSettled, Settled, TypeOK, Images
    <3>4. Logical' = files
      BY <1>10, <2>4, <3>1, <3>2, <3>3, <1>0, <1>b
         DEF MachineFails, JInv, JCore, GhostsAreApplied, Logical
    <3>5. CASE pending = None
      BY <3>4, <3>5, <2>2 DEF Logical
    <3>6. CASE pending # None
      <4>1. Undo = files /\ Undo # None /\ intent = None
        BY <3>2, <3>6, <1>c, <1>e, <1>i, <1>0 DEF Quiet, JInv, JCore, JournalStarts
      <4>2. Atomic!FallBack
        BY <2>1, <3>4, <4>1 DEF Atomic!FallBack
      <4>3. QED
        BY <4>2 DEF Atomic!Next
    <3>7. QED
      BY <3>5, <3>6
  <2>5. QED
    BY <2>3, <2>4
<1>11. QED
  BY <1>2, <1>3, <1>4, <1>5, <1>6, <1>7, <1>8, <1>9, <1>10 DEF Next

\* The journal implements the atomic store until power is lost in the middle of
\* replaying a journal that its own process left unsynced: no other sequence of
\* crashes, throws and power losses lets a transaction take effect in part.
THEOREM ImplementsAtomic == Spec => AtomicUntilTorn
<1>1. Init => Atomic!Init
  BY DEF Init, Atomic!Init, Logical, Undo
<1>2. QED
  BY <1>1, JournalStepImplements, JournalInvariance, PTL DEF Spec, AtomicUntilTorn
=============================================================================
