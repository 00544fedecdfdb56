------------------------- MODULE SharedMailJournal -------------------------
(* The write-ahead journal of cli-node/src/oclif/shared-mail-state.ts:      *)
(* transaction, recover and commit, over writeMailJson and removeMailFile   *)
(* of shared-mail-files.ts.                                                 *)
(*                                                                          *)
(* Several CLI processes run transactions; withMailLock serialises them (the *)
(* lock is ListenLock's), so one `stage` describes the process inside.  An   *)
(* action is one rename, unlink or directory fsync.  A process may stop       *)
(* (crash, or throw and release the lock) between any two of them, and the   *)
(* machine may at any moment lose every directory change that was not synced.*)
EXTENDS Integers, FiniteSets

CONSTANTS
    Records,         \* the record files of the store
    Contents,        \* what a record file may hold, Absent included
    Absent,          \* the content of a file that does not exist
    MaxWrites,       \* the most records one journal names (8 in the code)
    MaxUnsynced,     \* bound: the versions of pending.json a power loss may
                     \* bring back when a new one is written
    None             \* no journal

ASSUME RecordsAssumption == Records # {}
ASSUME AbsentAssumption == Absent \in Contents
ASSUME MaxWritesAssumption == MaxWrites \in Nat \ {0}
ASSUME MaxUnsyncedAssumption == MaxUnsynced \in Nat \ {0}

Images == [Records -> Contents]
Journals == [before : Images, after : Images]

ASSUME NoneAssumption == None \notin Images /\ None \notin Journals

VARIABLES
    files,     \* the record files as the file system shows them
    pending,   \* pending.json: the before and after images, or None
    kept,      \* per record file, the contents it may have after a power loss
    keptPending, \* the same for pending.json
    stage,     \* where the transaction holding the lock is; "free" if none
    committing, \* recover() runs from commit, not from transaction's start
    intent,    \* the records the transaction decided on, or None
    todo,      \* records of the journal still to be written
    at,        \* the record written last
    exposed,   \* "renamed" when a process stopped between renaming a journal
               \* into place and syncing its directory, "replayed" once a later
               \* recover has written records from it, "no" after the next sync
    torn       \* history: power was lost while "replayed", and pending.json
               \* came back other than it was seen

vars == <<files, pending, kept, keptPending, stage, committing, intent, todo, at, exposed, torn>>
disk == <<files, pending, kept, keptPending, exposed, torn>>

\* The paths a journal names: records whose content it changes.
Paths(j) == {r \in Records : j.before[r] # j.after[r]}

\* What a power loss may leave after an unsynced change of a record, or of
\* pending.json, to x.
Unsynced(r, x) == kept[r] \union {x}
UnsyncedPending(x) == keptPending \union {x}

Stages == {"free", "recover", "replay", "syncRecord", "syncForget", "ready",
           "decided", "syncJournal"}

Init ==
    /\ files = [r \in Records |-> Absent]
    /\ pending = None
    /\ kept = [r \in Records |-> {Absent}]
    /\ keptPending = {None}
    /\ stage = "free"
    /\ committing = FALSE
    /\ intent = None
    /\ todo = {}
    /\ at = CHOOSE r \in Records : TRUE
    /\ exposed = "no"
    /\ torn = FALSE

\* With a bug: the action runs on whatever an interrupted commit left.
EnterWithoutRecovery ==
    /\ stage = "free"
    /\ stage' = "ready"
    /\ committing' = FALSE
    /\ UNCHANGED <<disk, intent, todo, at>>

\* transaction(): withMailLock got the lock; recover() comes first.
Enter ==
    /\ stage = "free"
    /\ stage' = "recover"
    /\ committing' = FALSE
    /\ UNCHANGED <<disk, intent, todo, at>>

\* recover() finds no journal.
RecoverNothing ==
    /\ stage = "recover"
    /\ pending = None
    /\ stage' = "ready"
    /\ UNCHANGED <<disk, committing, intent, todo, at>>

\* Every record the journal names still has its before or its after image.
Consistent == \A r \in Paths(pending) : files[r] \in {pending.before[r], pending.after[r]}

\* recover() finds a journal: replay all of it, or refuse the whole store.
RecoverJournal ==
    /\ stage = "recover"
    /\ pending # None
    /\ IF Consistent
         THEN stage' = "replay" /\ todo' = Paths(pending)
         ELSE stage' = "free" /\ todo' = {}
    /\ UNCHANGED <<disk, committing, intent, at>>

\* writeMailJson or removeMailFile of the next record, up to its rename or
\* unlink; done again even where an earlier replay already did it.  Nothing in
\* recover syncs the journal it found.
ReplayRecord(r) ==
    /\ stage = "replay"
    /\ r \in todo
    /\ files' = [files EXCEPT ![r] = pending.after[r]]
    /\ kept' = [kept EXCEPT ![r] = Unsynced(r, pending.after[r])]
    /\ at' = r
    /\ stage' = "syncRecord"
    /\ exposed' = IF exposed = "no" THEN "no" ELSE "replayed"
    /\ UNCHANGED <<pending, keptPending, committing, intent, todo, torn>>

\* ... and its directory fsync.
SyncRecord ==
    /\ stage = "syncRecord"
    /\ kept' = [kept EXCEPT ![at] = {files[at]}]
    /\ todo' = todo \ {at}
    /\ stage' = "replay"
    /\ UNCHANGED <<files, pending, keptPending, committing, intent, at, exposed, torn>>

\* All records are written: unlink pending.json.
Forget ==
    /\ stage = "replay"
    /\ todo = {}
    /\ pending' = None
    /\ keptPending' = UnsyncedPending(None)
    /\ stage' = "syncForget"
    /\ UNCHANGED <<files, kept, committing, intent, todo, at, exposed, torn>>

\* ... and sync; the action runs next, or the committed transaction returns.
SyncForget ==
    /\ stage = "syncForget"
    /\ keptPending' = {pending}
    /\ exposed' = "no"
    /\ stage' = IF committing THEN "free" ELSE "ready"
    /\ UNCHANGED <<files, pending, kept, committing, intent, todo, at, torn>>

\* The action read the store and decided what to change ...
Decide(new) ==
    /\ stage = "ready"
    /\ Cardinality({r \in Records : files[r] # new[r]}) \in 1..MaxWrites
    /\ intent' = new
    /\ stage' = "decided"
    /\ UNCHANGED <<disk, committing, todo, at>>

\* ... or changed nothing (also commit's early return).
DecideNothing ==
    /\ stage = "ready"
    /\ stage' = "free"
    /\ UNCHANGED <<disk, committing, intent, todo, at>>

\* With a bug: every record is journalled as new.
WriteJournalBlind ==
    /\ stage = "decided"
    /\ Cardinality(keptPending) <= MaxUnsynced
    /\ pending' = [before |-> [r \in Records |-> Absent], after |-> intent]
    /\ keptPending' = UnsyncedPending(pending')
    /\ intent' = None
    /\ committing' = TRUE
    /\ stage' = "syncJournal"
    /\ UNCHANGED <<files, kept, todo, at, exposed, torn>>

\* commit(): rename the synced temporary file to pending.json ...
WriteJournal ==
    /\ stage = "decided"
    /\ Cardinality(keptPending) <= MaxUnsynced
    /\ pending' = [before |-> files, after |-> intent]
    /\ keptPending' = UnsyncedPending(pending')
    /\ intent' = None
    /\ committing' = TRUE
    /\ stage' = "syncJournal"
    /\ UNCHANGED <<files, kept, todo, at, exposed, torn>>

\* ... sync its directory, and recover() from it.
SyncJournal ==
    /\ stage = "syncJournal"
    /\ keptPending' = {pending}
    /\ exposed' = "no"
    /\ stage' = "recover"
    /\ UNCHANGED <<files, pending, kept, committing, intent, todo, at, torn>>

\* The process dies or a file operation throws: the lock becomes free.
Stop ==
    /\ stage # "free"
    /\ stage' = "free"
    /\ intent' = None
    /\ todo' = {}
    /\ exposed' = IF stage = "syncJournal" /\ exposed = "no" THEN "renamed" ELSE exposed
    /\ UNCHANGED <<files, pending, kept, keptPending, committing, at, torn>>

\* Power is lost: each file is what some prefix of its unsynced changes left.
MachineFails ==
    /\ files' \in {f \in Images : \A r \in Records : f[r] \in kept[r]}
    /\ pending' \in keptPending
    /\ kept' = [r \in Records |-> {files'[r]}]
    /\ keptPending' = {pending'}
    /\ stage' = "free"
    /\ intent' = None
    /\ todo' = {}
    /\ exposed' = "no"
    /\ torn' = (torn \/ (exposed = "replayed" /\ pending' # pending))
    /\ UNCHANGED <<committing, at>>

Next ==
    \/ Enter \/ RecoverNothing \/ RecoverJournal
    \/ (\E r \in Records : ReplayRecord(r)) \/ SyncRecord
    \/ Forget \/ SyncForget
    \/ (\E new \in Images : Decide(new)) \/ DecideNothing
    \/ WriteJournal \/ SyncJournal
    \/ Stop \/ MachineFails

Spec == Init /\ [][Next]_vars

-----------------------------------------------------------------------------
TypeOK ==
    /\ files \in Images
    /\ pending \in Journals \union {None}
    /\ kept \in [Records -> SUBSET Contents]
    /\ keptPending \subseteq Journals \union {None}
    /\ stage \in Stages
    /\ committing \in BOOLEAN
    /\ intent \in Images \union {None}
    /\ todo \subseteq Records
    /\ at \in Records
    /\ exposed \in {"no", "renamed", "replayed"}
    /\ torn \in BOOLEAN

\* The records, with those the journal names replaced by an image of it.
With(image) == [r \in Records |-> IF r \in Paths(pending) THEN image[r] ELSE files[r]]

\* The store as transactions see it: the journal is the commit point.
Logical == IF pending = None THEN files ELSE With(pending.after)

\* What a commit may still fall back to: nobody has synced its journal.
Undo ==
    IF pending # None /\ (stage = "syncJournal" \/ exposed # "no")
      THEN With(pending.before) ELSE None

Atomic == INSTANCE AtomicStore WITH store <- Logical, undo <- Undo

\* Every transaction of the shared mail store is all or nothing, whatever the
\* crashes and power losses ("recovers a torn claim transaction",
\* shared-mail-state.test.ts:450).  recover replays a journal it did not sync,
\* so a power loss during the replay may drop the journal and keep a part of
\* the records: the code does not have this property.
ImplementsAtomicStore == Atomic!Spec

\* Up to that fault it does: whatever processes stop and whatever unsynced
\* changes a power loss takes, before, during and after a commit or a replay,
\* each transaction takes effect at once or not at all, a synced one stays, and
\* no later transaction starts from a part of it.
AtomicUntilTorn == Atomic!Init /\ [][torn' \/ Atomic!Next]_(Atomic!vars)

\* recover never refuses a store that only this code wrote: no crash leaves a
\* record that is neither the before nor the after image ("Preserve it before
\* retrying", shared-mail-files.ts:19-21, is for foreign damage only).  Only a
\* journal that reappears from under an exposed one can be refused.
RecoveryNeverRefuses == ~torn => (pending # None => Consistent)

\* recover unlinks a journal only when each of its records survives a power
\* loss with its after image.
ForgottenOnlyWhenApplied ==
    [][pending # None /\ stage' = "syncForget" =>
          \A r \in Paths(pending) : kept[r] = {pending.after[r]}]_vars
=============================================================================
