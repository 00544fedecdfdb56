------------------------ MODULE SharedReceiverProofs ------------------------
(* OneStream and NoReplyOverlooked of SharedReceiver, for any processes,   *)
(* emails and bounds.                                                      *)
EXTENDS SharedReceiver, TLAPS

Over == {"replied", "closing", "gone", "dead"}
Subscribed == {"open", "mark", "receive", "ingest", "complete"}
Ending == {"unannounce", "unlock"}

(***************************************************************************)
(* The lock is kept from the election until the transport has ended.       *)
(***************************************************************************)
HoldsStream ==
    \A p \in Procs : carrier[p] # "off" \/ main[p] = "announce" => lock = p

(***************************************************************************)
(* A process owns once: when its transport has ended it has failed or is   *)
(* closing, and is not elected any more.                                   *)
(***************************************************************************)
Owned(p) == carrier[p] # "off" \/ failed[p] \/ main[p] \in Over

OwnsOnce ==
    \A p \in Procs :
        /\ main[p] \in {"off", "elect", "announce"} => carrier[p] = "off" /\ ~failed[p]
        /\ main[p] \in {"gone", "dead"} => carrier[p] = "off"
        /\ carrier[p] \in Ending => failed[p] \/ main[p] \in Closing

(***************************************************************************)
(* What a record says, whether it is on disk, just read or compared with:  *)
(* its process has owned, is not ready before it subscribed, and counts no *)
(* gap that the subscription does not have.                                *)
(***************************************************************************)
Credible(r) ==
    r.by # None =>
        /\ Owned(r.by)
        /\ carrier[r.by] = "subscribe" => ~r.ready /\ r.gap = 0
        /\ carrier[r.by] \in Subscribed /\ subOf[r.by] = sub => r.gap <= gaps

RecordsCredible == Credible(owner) /\ \A p \in Procs : Credible(view[p]) /\ Credible(seen[p])

\* The subscription a transport opened is the present one or an earlier one.
SubsNumbered ==
    /\ sub \in {0, subs} /\ (sub = 0 => subs < MaxSubs)
    /\ \A p \in Procs : IF carrier[p] \in Subscribed THEN subOf[p] \in 1..subs ELSE subOf[p] = 0

\* The event a transport is at is stored unless it is about to be.
WorkStored ==
    \A p \in Procs :
        /\ carrier[p] \in {"ingest", "complete"} => work[p] # None
        /\ carrier[p] \notin {"open", "mark", "ingest", "complete"} => work[p] = None
        /\ work[p] # None => work[p] \in arrived
        /\ work[p] # None /\ carrier[p] # "ingest" => work[p] \in stored

\* Who searches, or has, does so for an owner it saw ready.
SearchesForOwner ==
    \A p \in Procs :
        /\ view[p].alive => view[p].by # None
        /\ seen[p].by # None => seen[p].ready
        /\ main[p] = "search" \/ ~recovery[p] => seen[p].by # None
        /\ main[p] = "off" => recovery[p]

RInv ==
    /\ TypeOK /\ HoldsStream /\ OneStream /\ OwnsOnce /\ RecordsCredible
    /\ SubsNumbered /\ WorkStored /\ SearchesForOwner /\ NoReplyOverlooked

-----------------------------------------------------------------------------
\* The empty record names nobody.
LEMMA NoRecord == NoOwner \in Views /\ NoOwner.by = None /\ ~NoOwner.alive
BY ReceiverAssumption DEF NoOwner, Views

\* What a process reads is a record, and a live one names its process.
LEMMA ReadIsRecord ==
    ASSUME owner \in Views
    PROVE  /\ Read \in Views /\ Read.by = owner.by /\ Read.ready = owner.ready
           /\ Read.gap = owner.gap /\ (Read.alive => Read.by # None)
BY ReceiverAssumption DEF Read, Views, Running

\* Every step stays within the types.
LEMMA TypeStep == ASSUME RInv, Next PROVE TypeOK'
<1> USE ReceiverAssumption DEF At, Go, Carrying, Carry, procVars, carrierVars, localVars, storeVars, serviceVars,
       Closing, Waits
<1>1. ASSUME NEW p \in Procs, Start(p) PROVE TypeOK'
  BY <1>1 DEF RInv, TypeOK, Start, Views, MainStages, Waiting, CarrierStages, SubsNumbered,
              WorkStored
<1>2. ASSUME NEW p \in Procs, Look(p) PROVE TypeOK'
  BY <1>2 DEF RInv, TypeOK, Look, Read, Running, Views, MainStages, Waiting, CarrierStages,
              SubsNumbered, WorkStored
<1>3. ASSUME NEW p \in Procs, Elect(p) PROVE TypeOK'
  BY <1>3 DEF RInv, TypeOK, Elect, Views, MainStages, Waiting, CarrierStages, SubsNumbered,
              WorkStored
<1>4. ASSUME NEW p \in Procs, NotElected(p) PROVE TypeOK'
  BY <1>4 DEF RInv, TypeOK, NotElected, Views, MainStages, Waiting, CarrierStages,
              SubsNumbered, WorkStored
<1>5. ASSUME NEW p \in Procs, Announce(p) PROVE TypeOK'
  BY <1>5 DEF RInv, TypeOK, Announce, Views, MainStages, Waiting, CarrierStages, SubsNumbered,
              WorkStored
<1>6. ASSUME NEW p \in Procs, NotAnnounced(p) PROVE TypeOK'
  BY <1>6 DEF RInv, TypeOK, NotAnnounced, Views, MainStages, Waiting, CarrierStages,
              SubsNumbered, WorkStored
<1>7. ASSUME NEW p \in Procs, LookAgain(p) PROVE TypeOK'
  BY <1>7 DEF RInv, TypeOK, LookAgain, Read, Running, Views, MainStages, Waiting,
              CarrierStages, SubsNumbered, WorkStored
<1>8. ASSUME NEW p \in Procs, Judge(p) PROVE TypeOK'
  <2>1. CASE ~(view[p].alive /\ view[p].ready) \/ Wanted[p] = None
    BY <1>8, <2>1, NoRecord DEF RInv, TypeOK, Judge, Changed, Views, MainStages, Waiting,
                             CarrierStages, SubsNumbered, WorkStored
  <2>2. CASE view[p].alive /\ view[p].ready /\ Wanted[p] # None /\ Changed(p)
    <3>1. /\ seen' = [seen EXCEPT ![p] = view[p]] /\ recovery' = [recovery EXCEPT ![p] = TRUE]
          /\ main' = [main EXCEPT ![p] = "search"]
      BY <1>8, <2>2 DEF RInv, TypeOK, Judge
    <3>2. /\ view' = [view EXCEPT ![p] = NoOwner]
          /\ UNCHANGED <<carrierVars, localVars, serviceVars>>
      BY <1>8 DEF Judge
    <3>3. QED
      BY <2>2, <3>1, <3>2, NoRecord DEF RInv, TypeOK, Views, MainStages, Waiting,
                                        CarrierStages, SubsNumbered, WorkStored
  <2>3. CASE view[p].alive /\ view[p].ready /\ Wanted[p] # None /\ ~Changed(p)
    BY <1>8, <2>3, NoRecord DEF RInv, TypeOK, Judge, Changed, Views, MainStages, Waiting,
                             CarrierStages, SubsNumbered, WorkStored
  <2>4. QED BY <2>1, <2>2, <2>3
<1>9. ASSUME NEW p \in Procs, Search(p) PROVE TypeOK'
  BY <1>9 DEF RInv, TypeOK, Search, Views, MainStages, Waiting, CarrierStages, SubsNumbered,
              WorkStored
<1>10. ASSUME NEW p \in Procs, List(p) PROVE TypeOK'
  BY <1>10 DEF RInv, TypeOK, List, Views, MainStages, Waiting, CarrierStages, SubsNumbered,
               WorkStored
<1>11. ASSUME NEW p \in Procs, Stop(p) PROVE TypeOK'
  BY <1>11 DEF RInv, TypeOK, Stop, NoOwner, Views, MainStages, Waiting, CarrierStages,
               SubsNumbered, WorkStored
<1>12. ASSUME NEW p \in Procs, Gone(p) PROVE TypeOK'
  BY <1>12 DEF RInv, TypeOK, Gone, Forget, NoOwner, Views, MainStages, Waiting, CarrierStages,
               SubsNumbered, WorkStored
<1>13. ASSUME NEW p \in Procs, Subscribe(p) PROVE TypeOK'
  BY <1>13 DEF RInv, TypeOK, Subscribe, Views, MainStages, Waiting, CarrierStages,
               SubsNumbered, WorkStored
<1>14. ASSUME NEW p \in Procs, Open(p) PROVE TypeOK'
  BY <1>14 DEF RInv, TypeOK, Open, Views, MainStages, Waiting, CarrierStages, SubsNumbered,
               WorkStored
<1>15. ASSUME NEW p \in Procs, MarkReady(p) PROVE TypeOK'
  BY <1>15 DEF RInv, TypeOK, MarkReady, Announced, Views, MainStages, Waiting, CarrierStages,
               SubsNumbered, WorkStored
<1>16. ASSUME NEW p \in Procs, Status(p) PROVE TypeOK'
  BY <1>16 DEF RInv, TypeOK, Status, Announced, Views, MainStages, Waiting, CarrierStages,
               SubsNumbered, WorkStored
<1>17. ASSUME NEW p \in Procs, NEW e \in Emails, Offer(p, e) PROVE TypeOK'
  BY <1>17 DEF RInv, TypeOK, Offer, Announced, Views, MainStages, Waiting, CarrierStages,
               SubsNumbered, WorkStored
<1>18. ASSUME NEW p \in Procs, NEW e \in Emails, LoseOffer(p, e) PROVE TypeOK'
  BY <1>18 DEF RInv, TypeOK, LoseOffer, Announced, Views, MainStages, Waiting, CarrierStages,
               SubsNumbered, WorkStored
<1>19. ASSUME NEW p \in Procs, Ingest(p) PROVE TypeOK'
  BY <1>19 DEF RInv, TypeOK, Ingest, Views, MainStages, Waiting, CarrierStages, SubsNumbered,
               WorkStored
<1>20. ASSUME NEW p \in Procs, Complete(p, TRUE) PROVE TypeOK'
  <2>1. /\ carrier[p] = "complete" /\ queue' = queue \ {work[p]}
        /\ lease' = [lease EXCEPT ![work[p]] = None] /\ work' = [work EXCEPT ![p] = None]
        /\ carrier' = [carrier EXCEPT ![p] = "receive"] /\ UNCHANGED owner
    BY <1>20 DEF Complete
  <2>2. UNCHANGED <<procVars, failed, subOf, lock, storeVars, sub, gaps, arrived, subs>>
    BY <1>20 DEF Complete
  <2>3. QED
    BY <2>1, <2>2 DEF RInv, TypeOK, Views, MainStages, Waiting, CarrierStages, SubsNumbered,
                      WorkStored
<1>21. ASSUME NEW p \in Procs, Complete(p, FALSE) PROVE TypeOK'
  <2>1. /\ owner.by = p /\ carrier[p] = "complete" /\ queue' = queue \ {work[p]}
        /\ owner' = [owner EXCEPT !.ready = FALSE, !.gap = owner.gap]
        /\ carrier' = [carrier EXCEPT ![p] = "open"] /\ UNCHANGED <<lease, work>>
    BY <1>21 DEF Complete, Announced
  <2>2. UNCHANGED <<procVars, failed, subOf, lock, storeVars, sub, gaps, arrived, subs>>
    BY <1>21 DEF Complete
  <2>3. QED
    BY <2>1, <2>2 DEF RInv, TypeOK, Views, MainStages, Waiting, CarrierStages, SubsNumbered,
                      WorkStored
<1>22. ASSUME NEW p \in Procs, Broken(p) PROVE TypeOK'
  BY <1>22 DEF RInv, TypeOK, Broken, Announced, Views, MainStages, Waiting, CarrierStages,
               SubsNumbered, WorkStored
<1>23. ASSUME NEW p \in Procs, Fail(p) PROVE TypeOK'
  BY <1>23 DEF RInv, TypeOK, Fail, End, Views, MainStages, Waiting, CarrierStages,
               SubsNumbered, WorkStored
<1>24. ASSUME NEW p \in Procs, CutOff(p) PROVE TypeOK'
  BY <1>24 DEF RInv, TypeOK, CutOff, End, Views, MainStages, Waiting, CarrierStages,
               SubsNumbered, WorkStored
<1>25. ASSUME NEW p \in Procs, Abort(p) PROVE TypeOK'
  BY <1>25 DEF RInv, TypeOK, Abort, End, Views, MainStages, Waiting, CarrierStages,
               SubsNumbered, WorkStored
<1>26. ASSUME NEW p \in Procs, Unannounce(p) PROVE TypeOK'
  <2>1. CASE owner' = owner
    BY <1>26, <2>1, NoRecord DEF RInv, TypeOK, Unannounce, Views, MainStages, Waiting,
                             CarrierStages, SubsNumbered, WorkStored
  <2>2. CASE owner' = NoOwner
    BY <1>26, <2>2, NoRecord DEF RInv, TypeOK, Unannounce, Views, MainStages, Waiting,
                             CarrierStages, SubsNumbered, WorkStored
  <2>3. QED BY <1>26, <2>1, <2>2 DEF Unannounce
<1>27. ASSUME NEW p \in Procs, Unlock(p) PROVE TypeOK'
  BY <1>27 DEF RInv, TypeOK, Unlock, Views, MainStages, Waiting, CarrierStages, SubsNumbered,
               WorkStored
<1>28. ASSUME NEW p \in Procs, Die(p) PROVE TypeOK'
  BY <1>28 DEF RInv, TypeOK, Die, Running, Forget, NoOwner, Views, MainStages, Waiting,
               CarrierStages, SubsNumbered, WorkStored
<1>29. ASSUME NEW e \in Emails, Arrive(e) PROVE TypeOK'
  BY <1>29 DEF RInv, TypeOK, Arrive, Views, MainStages, Waiting, CarrierStages, SubsNumbered,
               WorkStored
<1>30. ASSUME NEW e \in Emails, LetGo(e) PROVE TypeOK'
  BY <1>30 DEF RInv, TypeOK, LetGo, Views, MainStages, Waiting, CarrierStages, SubsNumbered,
               WorkStored
<1>31. ASSUME NEW e \in Emails, Lapse(e) PROVE TypeOK'
  BY <1>31 DEF RInv, TypeOK, Lapse, Views, MainStages, Waiting, CarrierStages, SubsNumbered,
               WorkStored
<1>32. ASSUME Delete PROVE TypeOK'
  BY <1>32 DEF RInv, TypeOK, Delete, Views, MainStages, Waiting, CarrierStages, SubsNumbered,
               WorkStored
<1>33. QED BY <1>1, <1>2, <1>3, <1>4, <1>5, <1>6, <1>7, <1>8, <1>9, <1>10, <1>11, <1>12, <1>13,
              <1>14, <1>15, <1>16, <1>17, <1>18, <1>19, <1>20, <1>21, <1>22, <1>23, <1>24,
              <1>25, <1>26, <1>27, <1>28, <1>29, <1>30, <1>31, <1>32 DEF Next, MainStep,
              CarrierStep, Loss

\* The lock changes hands only when its holder has ended.
LEMMA HoldsStep == ASSUME RInv, Next PROVE HoldsStream'
<1> USE ReceiverAssumption DEF At, Go, Carrying, Carry, procVars, carrierVars, localVars, storeVars, serviceVars,
       Closing, Waits
<1>1. ASSUME NEW p \in Procs, Start(p) PROVE HoldsStream'
  BY <1>1 DEF RInv, TypeOK, Start, HoldsStream, OwnsOnce, Over
<1>2. ASSUME NEW p \in Procs, Look(p) PROVE HoldsStream'
  BY <1>2 DEF RInv, TypeOK, Look, Read, Running, HoldsStream, OwnsOnce, Over
<1>3. ASSUME NEW p \in Procs, Elect(p) PROVE HoldsStream'
  BY <1>3 DEF RInv, TypeOK, Elect, HoldsStream, OwnsOnce, Over
<1>4. ASSUME NEW p \in Procs, NotElected(p) PROVE HoldsStream'
  BY <1>4 DEF RInv, TypeOK, NotElected, HoldsStream, OwnsOnce, Over
<1>5. ASSUME NEW p \in Procs, Announce(p) PROVE HoldsStream'
  BY <1>5 DEF RInv, TypeOK, Announce, HoldsStream, OwnsOnce, Over
<1>6. ASSUME NEW p \in Procs, NotAnnounced(p) PROVE HoldsStream'
  BY <1>6 DEF RInv, TypeOK, NotAnnounced, HoldsStream, OwnsOnce, Over
<1>7. ASSUME NEW p \in Procs, LookAgain(p) PROVE HoldsStream'
  BY <1>7 DEF RInv, TypeOK, LookAgain, Read, Running, HoldsStream, OwnsOnce, Over
<1>8. ASSUME NEW p \in Procs, Judge(p) PROVE HoldsStream'
  BY <1>8 DEF RInv, TypeOK, Judge, Changed, NoOwner, HoldsStream, OwnsOnce, Over
<1>9. ASSUME NEW p \in Procs, Search(p) PROVE HoldsStream'
  BY <1>9 DEF RInv, TypeOK, Search, HoldsStream, OwnsOnce, Over
<1>10. ASSUME NEW p \in Procs, List(p) PROVE HoldsStream'
  BY <1>10 DEF RInv, TypeOK, List, HoldsStream, OwnsOnce, Over
<1>11. ASSUME NEW p \in Procs, Stop(p) PROVE HoldsStream'
  BY <1>11 DEF RInv, TypeOK, Stop, NoOwner, HoldsStream, OwnsOnce, Over
<1>12. ASSUME NEW p \in Procs, Gone(p) PROVE HoldsStream'
  BY <1>12 DEF RInv, TypeOK, Gone, Forget, NoOwner, HoldsStream, OwnsOnce, Over
<1>13. ASSUME NEW p \in Procs, Subscribe(p) PROVE HoldsStream'
  BY <1>13 DEF RInv, TypeOK, Subscribe, HoldsStream, OwnsOnce, Over
<1>14. ASSUME NEW p \in Procs, Open(p) PROVE HoldsStream'
  BY <1>14 DEF RInv, TypeOK, Open, HoldsStream, OwnsOnce, Over
<1>15. ASSUME NEW p \in Procs, MarkReady(p) PROVE HoldsStream'
  BY <1>15 DEF RInv, TypeOK, MarkReady, Announced, HoldsStream, OwnsOnce, Over
<1>16. ASSUME NEW p \in Procs, Status(p) PROVE HoldsStream'
  BY <1>16 DEF RInv, TypeOK, Status, Announced, HoldsStream, OwnsOnce, Over
<1>17. ASSUME NEW p \in Procs, NEW e \in Emails, Offer(p, e) PROVE HoldsStream'
  BY <1>17 DEF RInv, TypeOK, Offer, Announced, HoldsStream, OwnsOnce, Over
<1>18. ASSUME NEW p \in Procs, NEW e \in Emails, LoseOffer(p, e) PROVE HoldsStream'
  BY <1>18 DEF RInv, TypeOK, LoseOffer, Announced, HoldsStream, OwnsOnce, Over
<1>19. ASSUME NEW p \in Procs, Ingest(p) PROVE HoldsStream'
  BY <1>19 DEF RInv, TypeOK, Ingest, HoldsStream, OwnsOnce, Over
<1>20. ASSUME NEW p \in Procs, Complete(p, TRUE) PROVE HoldsStream'
  BY <1>20 DEF RInv, TypeOK, Complete, Announced, HoldsStream, OwnsOnce, Over
<1>21. ASSUME NEW p \in Procs, Complete(p, FALSE) PROVE HoldsStream'
  BY <1>21 DEF RInv, TypeOK, Complete, Announced, HoldsStream, OwnsOnce, Over
<1>22. ASSUME NEW p \in Procs, Broken(p) PROVE HoldsStream'
  BY <1>22 DEF RInv, TypeOK, Broken, Announced, HoldsStream, OwnsOnce, Over
<1>23. ASSUME NEW p \in Procs, Fail(p) PROVE HoldsStream'
  BY <1>23 DEF RInv, TypeOK, Fail, End, HoldsStream, OwnsOnce, Over
<1>24. ASSUME NEW p \in Procs, CutOff(p) PROVE HoldsStream'
  BY <1>24 DEF RInv, TypeOK, CutOff, End, HoldsStream, OwnsOnce, Over
<1>25. ASSUME NEW p \in Procs, Abort(p) PROVE HoldsStream'
  BY <1>25 DEF RInv, TypeOK, Abort, End, HoldsStream, OwnsOnce, Over
<1>26. ASSUME NEW p \in Procs, Unannounce(p) PROVE HoldsStream'
  BY <1>26 DEF RInv, TypeOK, Unannounce, NoOwner, HoldsStream, OwnsOnce, Over
<1>27. ASSUME NEW p \in Procs, Unlock(p) PROVE HoldsStream'
  BY <1>27 DEF RInv, TypeOK, Unlock, HoldsStream, OwnsOnce, Over
<1>28. ASSUME NEW p \in Procs, Die(p) PROVE HoldsStream'
  BY <1>28 DEF RInv, TypeOK, Die, Running, Forget, NoOwner, HoldsStream, OwnsOnce, Over
<1>29. ASSUME NEW e \in Emails, Arrive(e) PROVE HoldsStream'
  BY <1>29 DEF RInv, TypeOK, Arrive, HoldsStream, OwnsOnce, Over
<1>30. ASSUME NEW e \in Emails, LetGo(e) PROVE HoldsStream'
  BY <1>30 DEF RInv, TypeOK, LetGo, HoldsStream, OwnsOnce, Over
<1>31. ASSUME NEW e \in Emails, Lapse(e) PROVE HoldsStream'
  BY <1>31 DEF RInv, TypeOK, Lapse, HoldsStream, OwnsOnce, Over
<1>32. ASSUME Delete PROVE HoldsStream'
  BY <1>32 DEF RInv, TypeOK, Delete, HoldsStream, OwnsOnce, Over
<1>33. QED BY <1>1, <1>2, <1>3, <1>4, <1>5, <1>6, <1>7, <1>8, <1>9, <1>10, <1>11, <1>12, <1>13,
              <1>14, <1>15, <1>16, <1>17, <1>18, <1>19, <1>20, <1>21, <1>22, <1>23, <1>24,
              <1>25, <1>26, <1>27, <1>28, <1>29, <1>30, <1>31, <1>32 DEF Next, MainStep,
              CarrierStep, Loss

\* A record is replaced only under the lock.
LEMMA StreamStep == ASSUME RInv, Next PROVE OneStream'
<1> USE ReceiverAssumption DEF At, Go, Carrying, Carry, procVars, carrierVars, localVars, storeVars, serviceVars,
       Closing, Waits
<1>1. ASSUME NEW p \in Procs, Start(p) PROVE OneStream'
  BY <1>1 DEF RInv, TypeOK, Start, HoldsStream, OneStream, OwnsOnce, Views
<1>2. ASSUME NEW p \in Procs, Look(p) PROVE OneStream'
  BY <1>2 DEF RInv, TypeOK, Look, Read, Running, HoldsStream, OneStream, OwnsOnce, Views
<1>3. ASSUME NEW p \in Procs, Elect(p) PROVE OneStream'
  BY <1>3 DEF RInv, TypeOK, Elect, HoldsStream, OneStream, OwnsOnce, Views
<1>4. ASSUME NEW p \in Procs, NotElected(p) PROVE OneStream'
  BY <1>4 DEF RInv, TypeOK, NotElected, HoldsStream, OneStream, OwnsOnce, Views
<1>5. ASSUME NEW p \in Procs, Announce(p) PROVE OneStream'
  BY <1>5 DEF RInv, TypeOK, Announce, HoldsStream, OneStream, OwnsOnce, Views
<1>6. ASSUME NEW p \in Procs, NotAnnounced(p) PROVE OneStream'
  BY <1>6 DEF RInv, TypeOK, NotAnnounced, HoldsStream, OneStream, OwnsOnce, Views
<1>7. ASSUME NEW p \in Procs, LookAgain(p) PROVE OneStream'
  BY <1>7 DEF RInv, TypeOK, LookAgain, Read, Running, HoldsStream, OneStream, OwnsOnce, Views
<1>8. ASSUME NEW p \in Procs, Judge(p) PROVE OneStream'
  BY <1>8 DEF RInv, TypeOK, Judge, Changed, NoOwner, HoldsStream, OneStream, OwnsOnce, Views
<1>9. ASSUME NEW p \in Procs, Search(p) PROVE OneStream'
  BY <1>9 DEF RInv, TypeOK, Search, HoldsStream, OneStream, OwnsOnce, Views
<1>10. ASSUME NEW p \in Procs, List(p) PROVE OneStream'
  BY <1>10 DEF RInv, TypeOK, List, HoldsStream, OneStream, OwnsOnce, Views
<1>11. ASSUME NEW p \in Procs, Stop(p) PROVE OneStream'
  BY <1>11 DEF RInv, TypeOK, Stop, NoOwner, HoldsStream, OneStream, OwnsOnce, Views
<1>12. ASSUME NEW p \in Procs, Gone(p) PROVE OneStream'
  BY <1>12 DEF RInv, TypeOK, Gone, Forget, NoOwner, HoldsStream, OneStream, OwnsOnce, Views
<1>13. ASSUME NEW p \in Procs, Subscribe(p) PROVE OneStream'
  BY <1>13 DEF RInv, TypeOK, Subscribe, HoldsStream, OneStream, OwnsOnce, Views
<1>14. ASSUME NEW p \in Procs, Open(p) PROVE OneStream'
  BY <1>14 DEF RInv, TypeOK, Open, HoldsStream, OneStream, OwnsOnce, Views
<1>15. ASSUME NEW p \in Procs, MarkReady(p) PROVE OneStream'
  BY <1>15 DEF RInv, TypeOK, MarkReady, Announced, HoldsStream, OneStream, OwnsOnce, Views
<1>16. ASSUME NEW p \in Procs, Status(p) PROVE OneStream'
  BY <1>16 DEF RInv, TypeOK, Status, Announced, HoldsStream, OneStream, OwnsOnce, Views
<1>17. ASSUME NEW p \in Procs, NEW e \in Emails, Offer(p, e) PROVE OneStream'
  BY <1>17 DEF RInv, TypeOK, Offer, Announced, HoldsStream, OneStream, OwnsOnce, Views
<1>18. ASSUME NEW p \in Procs, NEW e \in Emails, LoseOffer(p, e) PROVE OneStream'
  BY <1>18 DEF RInv, TypeOK, LoseOffer, Announced, HoldsStream, OneStream, OwnsOnce, Views
<1>19. ASSUME NEW p \in Procs, Ingest(p) PROVE OneStream'
  BY <1>19 DEF RInv, TypeOK, Ingest, HoldsStream, OneStream, OwnsOnce, Views
<1>20. ASSUME NEW p \in Procs, Complete(p, TRUE) PROVE OneStream'
  BY <1>20 DEF RInv, TypeOK, Complete, Announced, HoldsStream, OneStream, OwnsOnce, Views
<1>21. ASSUME NEW p \in Procs, Complete(p, FALSE) PROVE OneStream'
  BY <1>21 DEF RInv, TypeOK, Complete, Announced, HoldsStream, OneStream, OwnsOnce, Views
<1>22. ASSUME NEW p \in Procs, Broken(p) PROVE OneStream'
  BY <1>22 DEF RInv, TypeOK, Broken, Announced, HoldsStream, OneStream, OwnsOnce, Views
<1>23. ASSUME NEW p \in Procs, Fail(p) PROVE OneStream'
  BY <1>23 DEF RInv, TypeOK, Fail, End, HoldsStream, OneStream, OwnsOnce, Views
<1>24. ASSUME NEW p \in Procs, CutOff(p) PROVE OneStream'
  BY <1>24 DEF RInv, TypeOK, CutOff, End, HoldsStream, OneStream, OwnsOnce, Views
<1>25. ASSUME NEW p \in Procs, Abort(p) PROVE OneStream'
  BY <1>25 DEF RInv, TypeOK, Abort, End, HoldsStream, OneStream, OwnsOnce, Views
<1>26. ASSUME NEW p \in Procs, Unannounce(p) PROVE OneStream'
  BY <1>26 DEF RInv, TypeOK, Unannounce, NoOwner, HoldsStream, OneStream, OwnsOnce, Views
<1>27. ASSUME NEW p \in Procs, Unlock(p) PROVE OneStream'
  BY <1>27 DEF RInv, TypeOK, Unlock, HoldsStream, OneStream, OwnsOnce, Views
<1>28. ASSUME NEW p \in Procs, Die(p) PROVE OneStream'
  BY <1>28 DEF RInv, TypeOK, Die, Running, Forget, NoOwner, HoldsStream, OneStream, OwnsOnce,
               Views
<1>29. ASSUME NEW e \in Emails, Arrive(e) PROVE OneStream'
  BY <1>29 DEF RInv, TypeOK, Arrive, HoldsStream, OneStream, OwnsOnce, Views
<1>30. ASSUME NEW e \in Emails, LetGo(e) PROVE OneStream'
  BY <1>30 DEF RInv, TypeOK, LetGo, HoldsStream, OneStream, OwnsOnce, Views
<1>31. ASSUME NEW e \in Emails, Lapse(e) PROVE OneStream'
  BY <1>31 DEF RInv, TypeOK, Lapse, HoldsStream, OneStream, OwnsOnce, Views
<1>32. ASSUME Delete PROVE OneStream'
  BY <1>32 DEF RInv, TypeOK, Delete, HoldsStream, OneStream, OwnsOnce, Views
<1>33. QED BY <1>1, <1>2, <1>3, <1>4, <1>5, <1>6, <1>7, <1>8, <1>9, <1>10, <1>11, <1>12, <1>13,
              <1>14, <1>15, <1>16, <1>17, <1>18, <1>19, <1>20, <1>21, <1>22, <1>23, <1>24,
              <1>25, <1>26, <1>27, <1>28, <1>29, <1>30, <1>31, <1>32 DEF Next, MainStep,
              CarrierStep, Loss

\* A transport is started once.
LEMMA OwnsStep == ASSUME RInv, Next PROVE OwnsOnce'
<1> USE ReceiverAssumption DEF At, Go, Carrying, Carry, procVars, carrierVars, localVars, storeVars, serviceVars,
       Closing, Waits
<1>1. ASSUME NEW p \in Procs, Start(p) PROVE OwnsOnce'
  BY <1>1 DEF RInv, TypeOK, Start, OwnsOnce, Over, Ending
<1>2. ASSUME NEW p \in Procs, Look(p) PROVE OwnsOnce'
  BY <1>2 DEF RInv, TypeOK, Look, Read, Running, OwnsOnce, Over, Ending
<1>3. ASSUME NEW p \in Procs, Elect(p) PROVE OwnsOnce'
  BY <1>3 DEF RInv, TypeOK, Elect, OwnsOnce, Over, Ending
<1>4. ASSUME NEW p \in Procs, NotElected(p) PROVE OwnsOnce'
  BY <1>4 DEF RInv, TypeOK, NotElected, OwnsOnce, Over, Ending
<1>5. ASSUME NEW p \in Procs, Announce(p) PROVE OwnsOnce'
  BY <1>5 DEF RInv, TypeOK, Announce, OwnsOnce, Over, Ending
<1>6. ASSUME NEW p \in Procs, NotAnnounced(p) PROVE OwnsOnce'
  BY <1>6 DEF RInv, TypeOK, NotAnnounced, OwnsOnce, Over, Ending
<1>7. ASSUME NEW p \in Procs, LookAgain(p) PROVE OwnsOnce'
  BY <1>7 DEF RInv, TypeOK, LookAgain, Read, Running, OwnsOnce, Over, Ending
<1>8. ASSUME NEW p \in Procs, Judge(p) PROVE OwnsOnce'
  BY <1>8 DEF RInv, TypeOK, Judge, Changed, NoOwner, OwnsOnce, Over, Ending
<1>9. ASSUME NEW p \in Procs, Search(p) PROVE OwnsOnce'
  BY <1>9 DEF RInv, TypeOK, Search, OwnsOnce, Over, Ending
<1>10. ASSUME NEW p \in Procs, List(p) PROVE OwnsOnce'
  BY <1>10 DEF RInv, TypeOK, List, OwnsOnce, Over, Ending
<1>11. ASSUME NEW p \in Procs, Stop(p) PROVE OwnsOnce'
  BY <1>11 DEF RInv, TypeOK, Stop, NoOwner, OwnsOnce, Over, Ending
<1>12. ASSUME NEW p \in Procs, Gone(p) PROVE OwnsOnce'
  BY <1>12 DEF RInv, TypeOK, Gone, Forget, NoOwner, OwnsOnce, Over, Ending
<1>13. ASSUME NEW p \in Procs, Subscribe(p) PROVE OwnsOnce'
  BY <1>13 DEF RInv, TypeOK, Subscribe, OwnsOnce, Over, Ending
<1>14. ASSUME NEW p \in Procs, Open(p) PROVE OwnsOnce'
  BY <1>14 DEF RInv, TypeOK, Open, OwnsOnce, Over, Ending
<1>15. ASSUME NEW p \in Procs, MarkReady(p) PROVE OwnsOnce'
  BY <1>15 DEF RInv, TypeOK, MarkReady, Announced, OwnsOnce, Over, Ending
<1>16. ASSUME NEW p \in Procs, Status(p) PROVE OwnsOnce'
  BY <1>16 DEF RInv, TypeOK, Status, Announced, OwnsOnce, Over, Ending
<1>17. ASSUME NEW p \in Procs, NEW e \in Emails, Offer(p, e) PROVE OwnsOnce'
  BY <1>17 DEF RInv, TypeOK, Offer, Announced, OwnsOnce, Over, Ending
<1>18. ASSUME NEW p \in Procs, NEW e \in Emails, LoseOffer(p, e) PROVE OwnsOnce'
  BY <1>18 DEF RInv, TypeOK, LoseOffer, Announced, OwnsOnce, Over, Ending
<1>19. ASSUME NEW p \in Procs, Ingest(p) PROVE OwnsOnce'
  BY <1>19 DEF RInv, TypeOK, Ingest, OwnsOnce, Over, Ending
<1>20. ASSUME NEW p \in Procs, Complete(p, TRUE) PROVE OwnsOnce'
  BY <1>20 DEF RInv, TypeOK, Complete, Announced, OwnsOnce, Over, Ending
<1>21. ASSUME NEW p \in Procs, Complete(p, FALSE) PROVE OwnsOnce'
  BY <1>21 DEF RInv, TypeOK, Complete, Announced, OwnsOnce, Over, Ending
<1>22. ASSUME NEW p \in Procs, Broken(p) PROVE OwnsOnce'
  BY <1>22 DEF RInv, TypeOK, Broken, Announced, OwnsOnce, Over, Ending
<1>23. ASSUME NEW p \in Procs, Fail(p) PROVE OwnsOnce'
  BY <1>23 DEF RInv, TypeOK, Fail, End, OwnsOnce, Over, Ending
<1>24. ASSUME NEW p \in Procs, CutOff(p) PROVE OwnsOnce'
  BY <1>24 DEF RInv, TypeOK, CutOff, End, OwnsOnce, Over, Ending
<1>25. ASSUME NEW p \in Procs, Abort(p) PROVE OwnsOnce'
  BY <1>25 DEF RInv, TypeOK, Abort, End, OwnsOnce, Over, Ending
<1>26. ASSUME NEW p \in Procs, Unannounce(p) PROVE OwnsOnce'
  BY <1>26 DEF RInv, TypeOK, Unannounce, NoOwner, OwnsOnce, Over, Ending
<1>27. ASSUME NEW p \in Procs, Unlock(p) PROVE OwnsOnce'
  BY <1>27 DEF RInv, TypeOK, Unlock, OwnsOnce, Over, Ending
<1>28. ASSUME NEW p \in Procs, Die(p) PROVE OwnsOnce'
  BY <1>28 DEF RInv, TypeOK, Die, Running, Forget, NoOwner, OwnsOnce, Over, Ending
<1>29. ASSUME NEW e \in Emails, Arrive(e) PROVE OwnsOnce'
  BY <1>29 DEF RInv, TypeOK, Arrive, OwnsOnce, Over, Ending
<1>30. ASSUME NEW e \in Emails, LetGo(e) PROVE OwnsOnce'
  BY <1>30 DEF RInv, TypeOK, LetGo, OwnsOnce, Over, Ending
<1>31. ASSUME NEW e \in Emails, Lapse(e) PROVE OwnsOnce'
  BY <1>31 DEF RInv, TypeOK, Lapse, OwnsOnce, Over, Ending
<1>32. ASSUME Delete PROVE OwnsOnce'
  BY <1>32 DEF RInv, TypeOK, Delete, OwnsOnce, Over, Ending
<1>33. QED BY <1>1, <1>2, <1>3, <1>4, <1>5, <1>6, <1>7, <1>8, <1>9, <1>10, <1>11, <1>12, <1>13,
              <1>14, <1>15, <1>16, <1>17, <1>18, <1>19, <1>20, <1>21, <1>22, <1>23, <1>24,
              <1>25, <1>26, <1>27, <1>28, <1>29, <1>30, <1>31, <1>32 DEF Next, MainStep,
              CarrierStep, Loss

\* A record is written by the transport it is about.
LEMMA CredibleStep == ASSUME RInv, Next PROVE RecordsCredible'
<1> USE ReceiverAssumption DEF At, Go, Carrying, Carry, procVars, carrierVars, localVars, storeVars, serviceVars,
       Closing, Waits
<1>1. ASSUME NEW p \in Procs, Start(p) PROVE RecordsCredible'
  BY <1>1 DEF RInv, TypeOK, Start, RecordsCredible, Credible, Owned, OwnsOnce, Subscribed,
              Over, Ending, SubsNumbered, OneStream, Views
<1>2. ASSUME NEW p \in Procs, Look(p) PROVE RecordsCredible'
  BY <1>2 DEF RInv, TypeOK, Look, Read, Running, RecordsCredible, Credible, Owned, OwnsOnce,
              Subscribed, Over, Ending, SubsNumbered, OneStream, Views
<1>3. ASSUME NEW p \in Procs, Elect(p) PROVE RecordsCredible'
  BY <1>3 DEF RInv, TypeOK, Elect, RecordsCredible, Credible, Owned, OwnsOnce, Subscribed,
              Over, Ending, SubsNumbered, OneStream, Views
<1>4. ASSUME NEW p \in Procs, NotElected(p) PROVE RecordsCredible'
  BY <1>4 DEF RInv, TypeOK, NotElected, RecordsCredible, Credible, Owned, OwnsOnce, Subscribed,
              Over, Ending, SubsNumbered, OneStream, Views
<1>5. ASSUME NEW p \in Procs, Announce(p) PROVE RecordsCredible'
  BY <1>5 DEF RInv, TypeOK, Announce, RecordsCredible, Credible, Owned, OwnsOnce, Subscribed,
              Over, Ending, SubsNumbered, OneStream, Views
<1>6. ASSUME NEW p \in Procs, NotAnnounced(p) PROVE RecordsCredible'
  BY <1>6 DEF RInv, TypeOK, NotAnnounced, RecordsCredible, Credible, Owned, OwnsOnce,
              Subscribed, Over, Ending, SubsNumbered, OneStream, Views
<1>7. ASSUME NEW p \in Procs, LookAgain(p) PROVE RecordsCredible'
  BY <1>7 DEF RInv, TypeOK, LookAgain, Read, Running, RecordsCredible, Credible, Owned,
              OwnsOnce, Subscribed, Over, Ending, SubsNumbered, OneStream, Views
<1>8. ASSUME NEW p \in Procs, Judge(p) PROVE RecordsCredible'
  <2>1. CASE ~(view[p].alive /\ view[p].ready) \/ Wanted[p] = None
    <3>1. /\ main[p] = "judge" /\ main' = [main EXCEPT ![p] = "look"]
          /\ view' = [view EXCEPT ![p] = NoOwner]
          /\ UNCHANGED <<seen, recovery, carrierVars, localVars, serviceVars>>
      BY <1>8, <2>1 DEF Judge
    <3>2. QED
      BY <3>1, NoRecord DEF RInv, TypeOK, RecordsCredible, Credible, Owned, Over, Views
  <2>2. CASE view[p].alive /\ view[p].ready /\ Wanted[p] # None /\ Changed(p)
    <3>1. /\ seen' = [seen EXCEPT ![p] = view[p]] /\ recovery' = [recovery EXCEPT ![p] = TRUE]
          /\ main' = [main EXCEPT ![p] = "search"]
      BY <1>8, <2>2 DEF RInv, TypeOK, Judge
    <3>2. /\ view' = [view EXCEPT ![p] = NoOwner]
          /\ UNCHANGED <<carrierVars, localVars, serviceVars>>
      BY <1>8 DEF Judge
    <3>3. \A q \in Procs :
             /\ view'[q] \in {view[q], NoOwner} /\ seen'[q] \in {seen[q], view[q]}
             /\ main[q] \in Over => main'[q] \in Over
      BY <1>8, <3>1, <3>2 DEF RInv, TypeOK, Judge, Over
    <3>4. UNCHANGED <<owner, carrier, failed, subOf, sub, gaps>>
      BY <3>2
    <3>5. Credible(owner)'
      BY <3>3, <3>4 DEF RInv, TypeOK, Views, RecordsCredible, Credible, Owned
    <3>6. ASSUME NEW q \in Procs PROVE Credible(view[q])'
      BY <3>3, <3>4, NoRecord DEF RInv, TypeOK, Views, RecordsCredible, Credible, Owned
    <3>7. ASSUME NEW q \in Procs PROVE Credible(seen[q])'
      BY <3>3, <3>4 DEF RInv, TypeOK, Views, RecordsCredible, Credible, Owned
    <3>8. QED BY <3>5, <3>6, <3>7 DEF RecordsCredible
  <2>3. CASE view[p].alive /\ view[p].ready /\ Wanted[p] # None /\ ~Changed(p)
    <3>1. /\ view' = [view EXCEPT ![p] = NoOwner]
          /\ UNCHANGED <<seen, carrierVars, localVars, serviceVars>>
      BY <1>8, <2>3 DEF Judge
    <3>2. /\ main[p] = "judge"
          /\ \E stage \in {"search", "list"} : main' = [main EXCEPT ![p] = stage]
      BY <1>8, <2>3 DEF Judge
    <3>3. \A q \in Procs :
             view'[q] \in {view[q], NoOwner} /\ (main[q] \in Over => main'[q] \in Over)
      BY <3>1, <3>2 DEF RInv, TypeOK, Over
    <3>4. UNCHANGED <<owner, seen, carrier, failed, subOf, sub, gaps>>
      BY <3>1
    <3>5. Credible(owner)'
      BY <3>3, <3>4 DEF RInv, TypeOK, Views, RecordsCredible, Credible, Owned
    <3>6. ASSUME NEW q \in Procs PROVE Credible(view[q])'
      BY <3>3, <3>4, NoRecord DEF RInv, TypeOK, Views, RecordsCredible, Credible, Owned
    <3>7. ASSUME NEW q \in Procs PROVE Credible(seen[q])'
      BY <3>3, <3>4 DEF RInv, TypeOK, Views, RecordsCredible, Credible, Owned
    <3>8. QED BY <3>5, <3>6, <3>7 DEF RecordsCredible
  <2>4. QED BY <2>1, <2>2, <2>3
<1>9. ASSUME NEW p \in Procs, Search(p) PROVE RecordsCredible'
  BY <1>9 DEF RInv, TypeOK, Search, RecordsCredible, Credible, Owned, OwnsOnce, Subscribed,
              Over, Ending, SubsNumbered, OneStream, Views
<1>10. ASSUME NEW p \in Procs, List(p) PROVE RecordsCredible'
  <2>1. /\ main[p] = "list" /\ \A q \in Procs \ {p} : main'[q] = main[q]
        /\ UNCHANGED <<view, seen, recovery, carrierVars, localVars, serviceVars>>
    BY <1>10 DEF RInv, TypeOK, List
  <2>2. QED
    BY <2>1 DEF RInv, TypeOK, RecordsCredible, Credible, Owned, Over, Views
<1>11. ASSUME NEW p \in Procs, Stop(p) PROVE RecordsCredible'
  BY <1>11 DEF RInv, TypeOK, Stop, NoOwner, RecordsCredible, Credible, Owned, OwnsOnce,
               Subscribed, Over, Ending, SubsNumbered, OneStream, Views
<1>12. ASSUME NEW p \in Procs, Gone(p) PROVE RecordsCredible'
  BY <1>12 DEF RInv, TypeOK, Gone, Forget, NoOwner, RecordsCredible, Credible, Owned, OwnsOnce,
               Subscribed, Over, Ending, SubsNumbered, OneStream, Views
<1>13. ASSUME NEW p \in Procs, Subscribe(p) PROVE RecordsCredible'
  BY <1>13 DEF RInv, TypeOK, Subscribe, RecordsCredible, Credible, Owned, OwnsOnce, Subscribed,
               Over, Ending, SubsNumbered, OneStream, Views
<1>14. ASSUME NEW p \in Procs, Open(p) PROVE RecordsCredible'
  BY <1>14 DEF RInv, TypeOK, Open, RecordsCredible, Credible, Owned, OwnsOnce, Subscribed,
               Over, Ending, SubsNumbered, OneStream, Views
<1>15. ASSUME NEW p \in Procs, MarkReady(p) PROVE RecordsCredible'
  BY <1>15 DEF RInv, TypeOK, MarkReady, Announced, RecordsCredible, Credible, Owned, OwnsOnce,
               Subscribed, Over, Ending, SubsNumbered, OneStream, Views
<1>16. ASSUME NEW p \in Procs, Status(p) PROVE RecordsCredible'
  BY <1>16 DEF RInv, TypeOK, Status, Announced, RecordsCredible, Credible, Owned, OwnsOnce,
               Subscribed, Over, Ending, SubsNumbered, OneStream, Views
<1>17. ASSUME NEW p \in Procs, NEW e \in Emails, Offer(p, e) PROVE RecordsCredible'
  BY <1>17 DEF RInv, TypeOK, Offer, Announced, RecordsCredible, Credible, Owned, OwnsOnce,
               Subscribed, Over, Ending, SubsNumbered, OneStream, Views
<1>18. ASSUME NEW p \in Procs, NEW e \in Emails, LoseOffer(p, e) PROVE RecordsCredible'
  BY <1>18 DEF RInv, TypeOK, LoseOffer, Announced, RecordsCredible, Credible, Owned, OwnsOnce,
               Subscribed, Over, Ending, SubsNumbered, OneStream, Views
<1>19. ASSUME NEW p \in Procs, Ingest(p) PROVE RecordsCredible'
  BY <1>19 DEF RInv, TypeOK, Ingest, RecordsCredible, Credible, Owned, OwnsOnce, Subscribed,
               Over, Ending, SubsNumbered, OneStream, Views
<1>20. ASSUME NEW p \in Procs, Complete(p, TRUE) PROVE RecordsCredible'
  BY <1>20 DEF RInv, TypeOK, Complete, Announced, RecordsCredible, Credible, Owned, OwnsOnce,
               Subscribed, Over, Ending, SubsNumbered, OneStream, Views
<1>21. ASSUME NEW p \in Procs, Complete(p, FALSE) PROVE RecordsCredible'
  <2>1. /\ owner.by = p /\ carrier[p] = "complete" /\ queue' = queue \ {work[p]}
        /\ owner' = [owner EXCEPT !.ready = FALSE, !.gap = owner.gap]
        /\ carrier' = [carrier EXCEPT ![p] = "open"] /\ UNCHANGED <<lease, work>>
    BY <1>21 DEF Complete, Announced
  <2>2. UNCHANGED <<procVars, failed, subOf, lock, storeVars, sub, gaps, arrived, subs>>
    BY <1>21 DEF Complete
  <2>3. QED
    BY <2>1, <2>2 DEF RInv, TypeOK, RecordsCredible, Credible, Owned, OwnsOnce, Subscribed,
                      Over, Ending, SubsNumbered, OneStream, Views
<1>22. ASSUME NEW p \in Procs, Broken(p) PROVE RecordsCredible'
  BY <1>22 DEF RInv, TypeOK, Broken, Announced, RecordsCredible, Credible, Owned, OwnsOnce,
               Subscribed, Over, Ending, SubsNumbered, OneStream, Views
<1>23. ASSUME NEW p \in Procs, Fail(p) PROVE RecordsCredible'
  BY <1>23 DEF RInv, TypeOK, Fail, End, RecordsCredible, Credible, Owned, OwnsOnce, Subscribed,
               Over, Ending, SubsNumbered, OneStream, Views
<1>24. ASSUME NEW p \in Procs, CutOff(p) PROVE RecordsCredible'
  BY <1>24 DEF RInv, TypeOK, CutOff, End, RecordsCredible, Credible, Owned, OwnsOnce,
               Subscribed, Over, Ending, SubsNumbered, OneStream, Views
<1>25. ASSUME NEW p \in Procs, Abort(p) PROVE RecordsCredible'
  BY <1>25 DEF RInv, TypeOK, Abort, End, RecordsCredible, Credible, Owned, OwnsOnce,
               Subscribed, Over, Ending, SubsNumbered, OneStream, Views
<1>26. ASSUME NEW p \in Procs, Unannounce(p) PROVE RecordsCredible'
  <2>1. CASE owner' = owner
    BY <1>26, <2>1, NoRecord DEF RInv, TypeOK, Unannounce, RecordsCredible, Credible, Owned,
                             OwnsOnce, Subscribed, Over, Ending, SubsNumbered, OneStream, Views
  <2>2. CASE owner' = NoOwner
    BY <1>26, <2>2, NoRecord DEF RInv, TypeOK, Unannounce, RecordsCredible, Credible, Owned,
                             OwnsOnce, Subscribed, Over, Ending, SubsNumbered, OneStream, Views
  <2>3. QED BY <1>26, <2>1, <2>2 DEF Unannounce
<1>27. ASSUME NEW p \in Procs, Unlock(p) PROVE RecordsCredible'
  BY <1>27 DEF RInv, TypeOK, Unlock, RecordsCredible, Credible, Owned, OwnsOnce, Subscribed,
               Over, Ending, SubsNumbered, OneStream, Views
<1>28. ASSUME NEW p \in Procs, Die(p) PROVE RecordsCredible'
  BY <1>28 DEF RInv, TypeOK, Die, Running, Forget, NoOwner, RecordsCredible, Credible, Owned,
               OwnsOnce, Subscribed, Over, Ending, SubsNumbered, OneStream, Views
<1>29. ASSUME NEW e \in Emails, Arrive(e) PROVE RecordsCredible'
  BY <1>29 DEF RInv, TypeOK, Arrive, RecordsCredible, Credible, Owned, OwnsOnce, Subscribed,
               Over, Ending, SubsNumbered, OneStream, Views
<1>30. ASSUME NEW e \in Emails, LetGo(e) PROVE RecordsCredible'
  BY <1>30 DEF RInv, TypeOK, LetGo, RecordsCredible, Credible, Owned, OwnsOnce, Subscribed,
               Over, Ending, SubsNumbered, OneStream, Views
<1>31. ASSUME NEW e \in Emails, Lapse(e) PROVE RecordsCredible'
  BY <1>31 DEF RInv, TypeOK, Lapse, RecordsCredible, Credible, Owned, OwnsOnce, Subscribed,
               Over, Ending, SubsNumbered, OneStream, Views
<1>32. ASSUME Delete PROVE RecordsCredible'
  BY <1>32 DEF RInv, TypeOK, Delete, RecordsCredible, Credible, Owned, OwnsOnce, Subscribed,
               Over, Ending, SubsNumbered, OneStream, Views
<1>33. QED BY <1>1, <1>2, <1>3, <1>4, <1>5, <1>6, <1>7, <1>8, <1>9, <1>10, <1>11, <1>12, <1>13,
              <1>14, <1>15, <1>16, <1>17, <1>18, <1>19, <1>20, <1>21, <1>22, <1>23, <1>24,
              <1>25, <1>26, <1>27, <1>28, <1>29, <1>30, <1>31, <1>32 DEF Next, MainStep,
              CarrierStep, Loss

\* Only a new subscription takes a number, which is the next.
LEMMA SubsStep == ASSUME RInv, Next PROVE SubsNumbered'
<1> USE ReceiverAssumption DEF At, Go, Carrying, Carry, procVars, carrierVars, localVars, storeVars, serviceVars,
       Closing, Waits
<1>1. ASSUME NEW p \in Procs, Start(p) PROVE SubsNumbered'
  BY <1>1 DEF RInv, TypeOK, Start, SubsNumbered, Subscribed, OwnsOnce
<1>2. ASSUME NEW p \in Procs, Look(p) PROVE SubsNumbered'
  BY <1>2 DEF RInv, TypeOK, Look, Read, Running, SubsNumbered, Subscribed, OwnsOnce
<1>3. ASSUME NEW p \in Procs, Elect(p) PROVE SubsNumbered'
  BY <1>3 DEF RInv, TypeOK, Elect, SubsNumbered, Subscribed, OwnsOnce
<1>4. ASSUME NEW p \in Procs, NotElected(p) PROVE SubsNumbered'
  BY <1>4 DEF RInv, TypeOK, NotElected, SubsNumbered, Subscribed, OwnsOnce
<1>5. ASSUME NEW p \in Procs, Announce(p) PROVE SubsNumbered'
  BY <1>5 DEF RInv, TypeOK, Announce, SubsNumbered, Subscribed, OwnsOnce
<1>6. ASSUME NEW p \in Procs, NotAnnounced(p) PROVE SubsNumbered'
  BY <1>6 DEF RInv, TypeOK, NotAnnounced, SubsNumbered, Subscribed, OwnsOnce
<1>7. ASSUME NEW p \in Procs, LookAgain(p) PROVE SubsNumbered'
  BY <1>7 DEF RInv, TypeOK, LookAgain, Read, Running, SubsNumbered, Subscribed, OwnsOnce
<1>8. ASSUME NEW p \in Procs, Judge(p) PROVE SubsNumbered'
  BY <1>8 DEF RInv, TypeOK, Judge, Changed, NoOwner, SubsNumbered, Subscribed, OwnsOnce
<1>9. ASSUME NEW p \in Procs, Search(p) PROVE SubsNumbered'
  BY <1>9 DEF RInv, TypeOK, Search, SubsNumbered, Subscribed, OwnsOnce
<1>10. ASSUME NEW p \in Procs, List(p) PROVE SubsNumbered'
  BY <1>10 DEF RInv, TypeOK, List, SubsNumbered, Subscribed, OwnsOnce
<1>11. ASSUME NEW p \in Procs, Stop(p) PROVE SubsNumbered'
  BY <1>11 DEF RInv, TypeOK, Stop, NoOwner, SubsNumbered, Subscribed, OwnsOnce
<1>12. ASSUME NEW p \in Procs, Gone(p) PROVE SubsNumbered'
  BY <1>12 DEF RInv, TypeOK, Gone, Forget, NoOwner, SubsNumbered, Subscribed, OwnsOnce
<1>13. ASSUME NEW p \in Procs, Subscribe(p) PROVE SubsNumbered'
  BY <1>13 DEF RInv, TypeOK, Subscribe, SubsNumbered, Subscribed, OwnsOnce
<1>14. ASSUME NEW p \in Procs, Open(p) PROVE SubsNumbered'
  BY <1>14 DEF RInv, TypeOK, Open, SubsNumbered, Subscribed, OwnsOnce
<1>15. ASSUME NEW p \in Procs, MarkReady(p) PROVE SubsNumbered'
  BY <1>15 DEF RInv, TypeOK, MarkReady, Announced, SubsNumbered, Subscribed, OwnsOnce
<1>16. ASSUME NEW p \in Procs, Status(p) PROVE SubsNumbered'
  BY <1>16 DEF RInv, TypeOK, Status, Announced, SubsNumbered, Subscribed, OwnsOnce
<1>17. ASSUME NEW p \in Procs, NEW e \in Emails, Offer(p, e) PROVE SubsNumbered'
  BY <1>17 DEF RInv, TypeOK, Offer, Announced, SubsNumbered, Subscribed, OwnsOnce
<1>18. ASSUME NEW p \in Procs, NEW e \in Emails, LoseOffer(p, e) PROVE SubsNumbered'
  BY <1>18 DEF RInv, TypeOK, LoseOffer, Announced, SubsNumbered, Subscribed, OwnsOnce
<1>19. ASSUME NEW p \in Procs, Ingest(p) PROVE SubsNumbered'
  BY <1>19 DEF RInv, TypeOK, Ingest, SubsNumbered, Subscribed, OwnsOnce
<1>20. ASSUME NEW p \in Procs, Complete(p, TRUE) PROVE SubsNumbered'
  BY <1>20 DEF RInv, TypeOK, Complete, Announced, SubsNumbered, Subscribed, OwnsOnce
<1>21. ASSUME NEW p \in Procs, Complete(p, FALSE) PROVE SubsNumbered'
  BY <1>21 DEF RInv, TypeOK, Complete, Announced, SubsNumbered, Subscribed, OwnsOnce
<1>22. ASSUME NEW p \in Procs, Broken(p) PROVE SubsNumbered'
  BY <1>22 DEF RInv, TypeOK, Broken, Announced, SubsNumbered, Subscribed, OwnsOnce
<1>23. ASSUME NEW p \in Procs, Fail(p) PROVE SubsNumbered'
  BY <1>23 DEF RInv, TypeOK, Fail, End, SubsNumbered, Subscribed, OwnsOnce
<1>24. ASSUME NEW p \in Procs, CutOff(p) PROVE SubsNumbered'
  BY <1>24 DEF RInv, TypeOK, CutOff, End, SubsNumbered, Subscribed, OwnsOnce
<1>25. ASSUME NEW p \in Procs, Abort(p) PROVE SubsNumbered'
  BY <1>25 DEF RInv, TypeOK, Abort, End, SubsNumbered, Subscribed, OwnsOnce
<1>26. ASSUME NEW p \in Procs, Unannounce(p) PROVE SubsNumbered'
  BY <1>26 DEF RInv, TypeOK, Unannounce, NoOwner, SubsNumbered, Subscribed, OwnsOnce
<1>27. ASSUME NEW p \in Procs, Unlock(p) PROVE SubsNumbered'
  BY <1>27 DEF RInv, TypeOK, Unlock, SubsNumbered, Subscribed, OwnsOnce
<1>28. ASSUME NEW p \in Procs, Die(p) PROVE SubsNumbered'
  BY <1>28 DEF RInv, TypeOK, Die, Running, Forget, NoOwner, SubsNumbered, Subscribed, OwnsOnce
<1>29. ASSUME NEW e \in Emails, Arrive(e) PROVE SubsNumbered'
  BY <1>29 DEF RInv, TypeOK, Arrive, SubsNumbered, Subscribed, OwnsOnce
<1>30. ASSUME NEW e \in Emails, LetGo(e) PROVE SubsNumbered'
  BY <1>30 DEF RInv, TypeOK, LetGo, SubsNumbered, Subscribed, OwnsOnce
<1>31. ASSUME NEW e \in Emails, Lapse(e) PROVE SubsNumbered'
  BY <1>31 DEF RInv, TypeOK, Lapse, SubsNumbered, Subscribed, OwnsOnce
<1>32. ASSUME Delete PROVE SubsNumbered'
  BY <1>32 DEF RInv, TypeOK, Delete, SubsNumbered, Subscribed, OwnsOnce
<1>33. QED BY <1>1, <1>2, <1>3, <1>4, <1>5, <1>6, <1>7, <1>8, <1>9, <1>10, <1>11, <1>12, <1>13,
              <1>14, <1>15, <1>16, <1>17, <1>18, <1>19, <1>20, <1>21, <1>22, <1>23, <1>24,
              <1>25, <1>26, <1>27, <1>28, <1>29, <1>30, <1>31, <1>32 DEF Next, MainStep,
              CarrierStep, Loss

\* An event is stored before it is accepted.
LEMMA WorkStep == ASSUME RInv, Next PROVE WorkStored'
<1> USE ReceiverAssumption DEF At, Go, Carrying, Carry, procVars, carrierVars, localVars, storeVars, serviceVars,
       Closing, Waits
<1>1. ASSUME NEW p \in Procs, Start(p) PROVE WorkStored'
  BY <1>1 DEF RInv, TypeOK, Start, WorkStored, OwnsOnce
<1>2. ASSUME NEW p \in Procs, Look(p) PROVE WorkStored'
  BY <1>2 DEF RInv, TypeOK, Look, Read, Running, WorkStored, OwnsOnce
<1>3. ASSUME NEW p \in Procs, Elect(p) PROVE WorkStored'
  BY <1>3 DEF RInv, TypeOK, Elect, WorkStored, OwnsOnce
<1>4. ASSUME NEW p \in Procs, NotElected(p) PROVE WorkStored'
  BY <1>4 DEF RInv, TypeOK, NotElected, WorkStored, OwnsOnce
<1>5. ASSUME NEW p \in Procs, Announce(p) PROVE WorkStored'
  BY <1>5 DEF RInv, TypeOK, Announce, WorkStored, OwnsOnce
<1>6. ASSUME NEW p \in Procs, NotAnnounced(p) PROVE WorkStored'
  BY <1>6 DEF RInv, TypeOK, NotAnnounced, WorkStored, OwnsOnce
<1>7. ASSUME NEW p \in Procs, LookAgain(p) PROVE WorkStored'
  BY <1>7 DEF RInv, TypeOK, LookAgain, Read, Running, WorkStored, OwnsOnce
<1>8. ASSUME NEW p \in Procs, Judge(p) PROVE WorkStored'
  BY <1>8 DEF RInv, TypeOK, Judge, Changed, NoOwner, WorkStored, OwnsOnce
<1>9. ASSUME NEW p \in Procs, Search(p) PROVE WorkStored'
  BY <1>9 DEF RInv, TypeOK, Search, WorkStored, OwnsOnce
<1>10. ASSUME NEW p \in Procs, List(p) PROVE WorkStored'
  BY <1>10 DEF RInv, TypeOK, List, WorkStored, OwnsOnce
<1>11. ASSUME NEW p \in Procs, Stop(p) PROVE WorkStored'
  BY <1>11 DEF RInv, TypeOK, Stop, NoOwner, WorkStored, OwnsOnce
<1>12. ASSUME NEW p \in Procs, Gone(p) PROVE WorkStored'
  BY <1>12 DEF RInv, TypeOK, Gone, Forget, NoOwner, WorkStored, OwnsOnce
<1>13. ASSUME NEW p \in Procs, Subscribe(p) PROVE WorkStored'
  BY <1>13 DEF RInv, TypeOK, Subscribe, WorkStored, OwnsOnce
<1>14. ASSUME NEW p \in Procs, Open(p) PROVE WorkStored'
  BY <1>14 DEF RInv, TypeOK, Open, WorkStored, OwnsOnce
<1>15. ASSUME NEW p \in Procs, MarkReady(p) PROVE WorkStored'
  BY <1>15 DEF RInv, TypeOK, MarkReady, Announced, WorkStored, OwnsOnce
<1>16. ASSUME NEW p \in Procs, Status(p) PROVE WorkStored'
  BY <1>16 DEF RInv, TypeOK, Status, Announced, WorkStored, OwnsOnce
<1>17. ASSUME NEW p \in Procs, NEW e \in Emails, Offer(p, e) PROVE WorkStored'
  BY <1>17 DEF RInv, TypeOK, Offer, Announced, WorkStored, OwnsOnce
<1>18. ASSUME NEW p \in Procs, NEW e \in Emails, LoseOffer(p, e) PROVE WorkStored'
  BY <1>18 DEF RInv, TypeOK, LoseOffer, Announced, WorkStored, OwnsOnce
<1>19. ASSUME NEW p \in Procs, Ingest(p) PROVE WorkStored'
  BY <1>19 DEF RInv, TypeOK, Ingest, WorkStored, OwnsOnce
<1>20. ASSUME NEW p \in Procs, Complete(p, TRUE) PROVE WorkStored'
  BY <1>20 DEF RInv, TypeOK, Complete, Announced, WorkStored, OwnsOnce
<1>21. ASSUME NEW p \in Procs, Complete(p, FALSE) PROVE WorkStored'
  BY <1>21 DEF RInv, TypeOK, Complete, Announced, WorkStored, OwnsOnce
<1>22. ASSUME NEW p \in Procs, Broken(p) PROVE WorkStored'
  BY <1>22 DEF RInv, TypeOK, Broken, Announced, WorkStored, OwnsOnce
<1>23. ASSUME NEW p \in Procs, Fail(p) PROVE WorkStored'
  BY <1>23 DEF RInv, TypeOK, Fail, End, WorkStored, OwnsOnce
<1>24. ASSUME NEW p \in Procs, CutOff(p) PROVE WorkStored'
  BY <1>24 DEF RInv, TypeOK, CutOff, End, WorkStored, OwnsOnce
<1>25. ASSUME NEW p \in Procs, Abort(p) PROVE WorkStored'
  BY <1>25 DEF RInv, TypeOK, Abort, End, WorkStored, OwnsOnce
<1>26. ASSUME NEW p \in Procs, Unannounce(p) PROVE WorkStored'
  BY <1>26 DEF RInv, TypeOK, Unannounce, NoOwner, WorkStored, OwnsOnce
<1>27. ASSUME NEW p \in Procs, Unlock(p) PROVE WorkStored'
  BY <1>27 DEF RInv, TypeOK, Unlock, WorkStored, OwnsOnce
<1>28. ASSUME NEW p \in Procs, Die(p) PROVE WorkStored'
  BY <1>28 DEF RInv, TypeOK, Die, Running, Forget, NoOwner, WorkStored, OwnsOnce
<1>29. ASSUME NEW e \in Emails, Arrive(e) PROVE WorkStored'
  BY <1>29 DEF RInv, TypeOK, Arrive, WorkStored, OwnsOnce
<1>30. ASSUME NEW e \in Emails, LetGo(e) PROVE WorkStored'
  BY <1>30 DEF RInv, TypeOK, LetGo, WorkStored, OwnsOnce
<1>31. ASSUME NEW e \in Emails, Lapse(e) PROVE WorkStored'
  BY <1>31 DEF RInv, TypeOK, Lapse, WorkStored, OwnsOnce
<1>32. ASSUME Delete PROVE WorkStored'
  BY <1>32 DEF RInv, TypeOK, Delete, WorkStored, OwnsOnce
<1>33. QED BY <1>1, <1>2, <1>3, <1>4, <1>5, <1>6, <1>7, <1>8, <1>9, <1>10, <1>11, <1>12, <1>13,
              <1>14, <1>15, <1>16, <1>17, <1>18, <1>19, <1>20, <1>21, <1>22, <1>23, <1>24,
              <1>25, <1>26, <1>27, <1>28, <1>29, <1>30, <1>31, <1>32 DEF Next, MainStep,
              CarrierStep, Loss

\* A search is for the owner that was seen ready.
LEMMA SearchesStep == ASSUME RInv, Next PROVE SearchesForOwner'
<1> USE ReceiverAssumption DEF At, Go, Carrying, Carry, procVars, carrierVars, localVars, storeVars, serviceVars,
       Closing, Waits
<1>1. ASSUME NEW p \in Procs, Start(p) PROVE SearchesForOwner'
  BY <1>1 DEF RInv, TypeOK, Start, SearchesForOwner, Views
<1>2. ASSUME NEW p \in Procs, Look(p) PROVE SearchesForOwner'
  BY <1>2, ReadIsRecord DEF RInv, TypeOK, Look, SearchesForOwner
<1>3. ASSUME NEW p \in Procs, Elect(p) PROVE SearchesForOwner'
  BY <1>3 DEF RInv, TypeOK, Elect, SearchesForOwner, Views
<1>4. ASSUME NEW p \in Procs, NotElected(p) PROVE SearchesForOwner'
  BY <1>4 DEF RInv, TypeOK, NotElected, SearchesForOwner, Views
<1>5. ASSUME NEW p \in Procs, Announce(p) PROVE SearchesForOwner'
  BY <1>5 DEF RInv, TypeOK, Announce, SearchesForOwner, Views
<1>6. ASSUME NEW p \in Procs, NotAnnounced(p) PROVE SearchesForOwner'
  BY <1>6 DEF RInv, TypeOK, NotAnnounced, SearchesForOwner, Views
<1>7. ASSUME NEW p \in Procs, LookAgain(p) PROVE SearchesForOwner'
  BY <1>7, ReadIsRecord DEF RInv, TypeOK, LookAgain, SearchesForOwner
<1>8. ASSUME NEW p \in Procs, Judge(p) PROVE SearchesForOwner'
  <2>1. CASE ~(view[p].alive /\ view[p].ready) \/ Wanted[p] = None
    BY <1>8, <2>1, NoRecord DEF RInv, TypeOK, Judge, Changed, SearchesForOwner, Views
  <2>2. CASE view[p].alive /\ view[p].ready /\ Wanted[p] # None /\ Changed(p)
    <3>1. /\ seen' = [seen EXCEPT ![p] = view[p]] /\ recovery' = [recovery EXCEPT ![p] = TRUE]
          /\ main' = [main EXCEPT ![p] = "search"]
      BY <1>8, <2>2 DEF RInv, TypeOK, Judge
    <3>2. /\ view' = [view EXCEPT ![p] = NoOwner]
          /\ UNCHANGED <<carrierVars, localVars, serviceVars>>
      BY <1>8 DEF Judge
    <3>3. QED
      BY <2>2, <3>1, <3>2, NoRecord DEF RInv, TypeOK, SearchesForOwner, Views
  <2>3. CASE view[p].alive /\ view[p].ready /\ Wanted[p] # None /\ ~Changed(p)
    BY <1>8, <2>3, NoRecord DEF RInv, TypeOK, Judge, Changed, SearchesForOwner, Views
  <2>4. QED BY <2>1, <2>2, <2>3
<1>9. ASSUME NEW p \in Procs, Search(p) PROVE SearchesForOwner'
  BY <1>9 DEF RInv, TypeOK, Search, SearchesForOwner, Views
<1>10. ASSUME NEW p \in Procs, List(p) PROVE SearchesForOwner'
  BY <1>10 DEF RInv, TypeOK, List, SearchesForOwner, Views
<1>11. ASSUME NEW p \in Procs, Stop(p) PROVE SearchesForOwner'
  BY <1>11 DEF RInv, TypeOK, Stop, NoOwner, SearchesForOwner, Views
<1>12. ASSUME NEW p \in Procs, Gone(p) PROVE SearchesForOwner'
  BY <1>12 DEF RInv, TypeOK, Gone, Forget, NoOwner, SearchesForOwner, Views
<1>13. ASSUME NEW p \in Procs, Subscribe(p) PROVE SearchesForOwner'
  BY <1>13 DEF RInv, TypeOK, Subscribe, SearchesForOwner, Views
<1>14. ASSUME NEW p \in Procs, Open(p) PROVE SearchesForOwner'
  BY <1>14 DEF RInv, TypeOK, Open, SearchesForOwner, Views
<1>15. ASSUME NEW p \in Procs, MarkReady(p) PROVE SearchesForOwner'
  BY <1>15 DEF RInv, TypeOK, MarkReady, Announced, SearchesForOwner, Views
<1>16. ASSUME NEW p \in Procs, Status(p) PROVE SearchesForOwner'
  BY <1>16 DEF RInv, TypeOK, Status, Announced, SearchesForOwner, Views
<1>17. ASSUME NEW p \in Procs, NEW e \in Emails, Offer(p, e) PROVE SearchesForOwner'
  BY <1>17 DEF RInv, TypeOK, Offer, Announced, SearchesForOwner, Views
<1>18. ASSUME NEW p \in Procs, NEW e \in Emails, LoseOffer(p, e) PROVE SearchesForOwner'
  BY <1>18 DEF RInv, TypeOK, LoseOffer, Announced, SearchesForOwner, Views
<1>19. ASSUME NEW p \in Procs, Ingest(p) PROVE SearchesForOwner'
  BY <1>19 DEF RInv, TypeOK, Ingest, SearchesForOwner, Views
<1>20. ASSUME NEW p \in Procs, Complete(p, TRUE) PROVE SearchesForOwner'
  BY <1>20 DEF RInv, TypeOK, Complete, Announced, SearchesForOwner, Views
<1>21. ASSUME NEW p \in Procs, Complete(p, FALSE) PROVE SearchesForOwner'
  BY <1>21 DEF RInv, TypeOK, Complete, Announced, SearchesForOwner, Views
<1>22. ASSUME NEW p \in Procs, Broken(p) PROVE SearchesForOwner'
  BY <1>22 DEF RInv, TypeOK, Broken, Announced, SearchesForOwner, Views
<1>23. ASSUME NEW p \in Procs, Fail(p) PROVE SearchesForOwner'
  BY <1>23 DEF RInv, TypeOK, Fail, End, SearchesForOwner, Views
<1>24. ASSUME NEW p \in Procs, CutOff(p) PROVE SearchesForOwner'
  BY <1>24 DEF RInv, TypeOK, CutOff, End, SearchesForOwner, Views
<1>25. ASSUME NEW p \in Procs, Abort(p) PROVE SearchesForOwner'
  BY <1>25 DEF RInv, TypeOK, Abort, End, SearchesForOwner, Views
<1>26. ASSUME NEW p \in Procs, Unannounce(p) PROVE SearchesForOwner'
  BY <1>26 DEF RInv, TypeOK, Unannounce, NoOwner, SearchesForOwner, Views
<1>27. ASSUME NEW p \in Procs, Unlock(p) PROVE SearchesForOwner'
  BY <1>27 DEF RInv, TypeOK, Unlock, SearchesForOwner, Views
<1>28. ASSUME NEW p \in Procs, Die(p) PROVE SearchesForOwner'
  BY <1>28 DEF RInv, TypeOK, Die, Running, Forget, NoOwner, SearchesForOwner, Views
<1>29. ASSUME NEW e \in Emails, Arrive(e) PROVE SearchesForOwner'
  BY <1>29 DEF RInv, TypeOK, Arrive, SearchesForOwner, Views
<1>30. ASSUME NEW e \in Emails, LetGo(e) PROVE SearchesForOwner'
  BY <1>30 DEF RInv, TypeOK, LetGo, SearchesForOwner, Views
<1>31. ASSUME NEW e \in Emails, Lapse(e) PROVE SearchesForOwner'
  BY <1>31 DEF RInv, TypeOK, Lapse, SearchesForOwner, Views
<1>32. ASSUME Delete PROVE SearchesForOwner'
  BY <1>32 DEF RInv, TypeOK, Delete, SearchesForOwner, Views
<1>33. QED BY <1>1, <1>2, <1>3, <1>4, <1>5, <1>6, <1>7, <1>8, <1>9, <1>10, <1>11, <1>12, <1>13,
              <1>14, <1>15, <1>16, <1>17, <1>18, <1>19, <1>20, <1>21, <1>22, <1>23, <1>24,
              <1>25, <1>26, <1>27, <1>28, <1>29, <1>30, <1>31, <1>32 DEF Next, MainStep,
              CarrierStep, Loss

\* Who searched did so for a process that was past its subscription.
LEMMA Searched ==
    ASSUME RInv, NEW q \in Procs, ~recovery[q]
    PROVE  LET o == seen[q].by IN
           /\ o \in Procs /\ Owned(o) /\ carrier[o] \in CarrierStages \ {"subscribe"}
           /\ carrier[o] \in Subscribed => subOf[o] \in 1..subs /\ (subOf[o] = sub => seen[q].gap <= gaps)
BY DEF RInv, TypeOK, Views, SearchesForOwner, RecordsCredible, Credible, SubsNumbered

\* A reply that is neither stored nor queued any more leaves the last search behind.
LEMMA OverlookedStep == ASSUME RInv, Next PROVE NoReplyOverlooked'
<1> USE ReceiverAssumption DEF At, Go, Carrying, Carry, procVars, carrierVars, localVars, storeVars, serviceVars,
       Closing, Waits
<1>1. ASSUME NEW p \in Procs, Start(p) PROVE NoReplyOverlooked'
  BY <1>1 DEF RInv, TypeOK, Start, NoReplyOverlooked, Outdated, Waiting, SearchesForOwner
<1>2. ASSUME NEW p \in Procs, Look(p) PROVE NoReplyOverlooked'
  BY <1>2 DEF RInv, TypeOK, Look, Read, Running, NoReplyOverlooked, Outdated, Waiting,
              SearchesForOwner
<1>3. ASSUME NEW p \in Procs, Elect(p) PROVE NoReplyOverlooked'
  BY <1>3 DEF RInv, TypeOK, Elect, NoReplyOverlooked, Outdated, Waiting, SearchesForOwner
<1>4. ASSUME NEW p \in Procs, NotElected(p) PROVE NoReplyOverlooked'
  BY <1>4 DEF RInv, TypeOK, NotElected, NoReplyOverlooked, Outdated, Waiting, SearchesForOwner
<1>5. ASSUME NEW p \in Procs, Announce(p) PROVE NoReplyOverlooked'
  <2> SUFFICES ASSUME NEW q \in Procs, main'[q] \in Waiting, ~recovery'[q],
                      Wanted[q] \in arrived' \ (stored' \union queue')
               PROVE  Outdated(q)'
    BY DEF NoReplyOverlooked
  <2>1. Outdated(q) /\ ~recovery[q]
    BY <1>5 DEF RInv, TypeOK, Announce, NoReplyOverlooked, Waiting
  <2>2. carrier'[seen[q].by] = carrier[seen[q].by]
    BY <1>5, <2>1, Searched DEF RInv, TypeOK, Announce, OwnsOnce, Owned, Over
  <2>3. QED BY <1>5, <2>1, <2>2 DEF Announce, Outdated
<1>6. ASSUME NEW p \in Procs, NotAnnounced(p) PROVE NoReplyOverlooked'
  BY <1>6 DEF RInv, TypeOK, NotAnnounced, NoReplyOverlooked, Outdated, Waiting,
              SearchesForOwner
<1>7. ASSUME NEW p \in Procs, LookAgain(p) PROVE NoReplyOverlooked'
  BY <1>7 DEF RInv, TypeOK, LookAgain, Read, Running, NoReplyOverlooked, Outdated, Waiting,
              SearchesForOwner
<1>8. ASSUME NEW p \in Procs, Judge(p) PROVE NoReplyOverlooked'
  <2>1. CASE ~(view[p].alive /\ view[p].ready) \/ Wanted[p] = None
    BY <1>8, <2>1, NoRecord DEF RInv, TypeOK, Judge, Changed, NoReplyOverlooked, Outdated,
                             Waiting, SearchesForOwner
  <2>2. CASE view[p].alive /\ view[p].ready /\ Wanted[p] # None /\ Changed(p)
    <3>1. /\ seen' = [seen EXCEPT ![p] = view[p]] /\ recovery' = [recovery EXCEPT ![p] = TRUE]
          /\ main' = [main EXCEPT ![p] = "search"]
      BY <1>8, <2>2 DEF RInv, TypeOK, Judge
    <3>2. /\ view' = [view EXCEPT ![p] = NoOwner]
          /\ UNCHANGED <<carrierVars, localVars, serviceVars>>
      BY <1>8 DEF Judge
    <3>3. QED
      BY <2>2, <3>1, <3>2, NoRecord DEF RInv, TypeOK, NoReplyOverlooked, Outdated, Waiting,
                                        SearchesForOwner
  <2>3. CASE view[p].alive /\ view[p].ready /\ Wanted[p] # None /\ ~Changed(p)
    BY <1>8, <2>3, NoRecord DEF RInv, TypeOK, Judge, Changed, NoReplyOverlooked, Outdated,
                             Waiting, SearchesForOwner
  <2>4. QED BY <2>1, <2>2, <2>3
<1>9. ASSUME NEW p \in Procs, Search(p) PROVE NoReplyOverlooked'
  BY <1>9 DEF RInv, TypeOK, Search, NoReplyOverlooked, Outdated, Waiting, SearchesForOwner
<1>10. ASSUME NEW p \in Procs, List(p) PROVE NoReplyOverlooked'
  BY <1>10 DEF RInv, TypeOK, List, NoReplyOverlooked, Outdated, Waiting, SearchesForOwner
<1>11. ASSUME NEW p \in Procs, Stop(p) PROVE NoReplyOverlooked'
  BY <1>11 DEF RInv, TypeOK, Stop, NoOwner, NoReplyOverlooked, Outdated, Waiting,
               SearchesForOwner
<1>12. ASSUME NEW p \in Procs, Gone(p) PROVE NoReplyOverlooked'
  BY <1>12 DEF RInv, TypeOK, Gone, Forget, NoOwner, NoReplyOverlooked, Outdated, Waiting,
               SearchesForOwner
<1>13. ASSUME NEW p \in Procs, Subscribe(p) PROVE NoReplyOverlooked'
  <2> SUFFICES ASSUME NEW q \in Procs, main'[q] \in Waiting, ~recovery'[q],
                      Wanted[q] \in arrived' \ (stored' \union queue')
               PROVE  Outdated(q)'
    BY DEF NoReplyOverlooked
  <2>1. ~recovery[q] /\ main[q] \in Waiting
    BY <1>13 DEF Subscribe
  <2>2. carrier'[seen[q].by] = carrier[seen[q].by] /\ subOf'[seen[q].by] = subOf[seen[q].by]
    BY <1>13, <2>1, Searched DEF RInv, TypeOK, Subscribe
  <2>3. CASE sub = 0
    BY <1>13, <2>1, <2>2, <2>3, Searched DEF RInv, TypeOK, Subscribe, Outdated, CarrierStages, Subscribed
  <2>4. CASE sub # 0
    BY <1>13, <2>1, <2>2, <2>4 DEF RInv, Subscribe, Outdated, NoReplyOverlooked
  <2>5. QED BY <2>3, <2>4
<1>14. ASSUME NEW p \in Procs, Open(p) PROVE NoReplyOverlooked'
  BY <1>14 DEF RInv, TypeOK, Open, NoReplyOverlooked, Outdated, Waiting, SearchesForOwner
<1>15. ASSUME NEW p \in Procs, MarkReady(p) PROVE NoReplyOverlooked'
  BY <1>15 DEF RInv, TypeOK, MarkReady, Announced, NoReplyOverlooked, Outdated, Waiting,
               SearchesForOwner
<1>16. ASSUME NEW p \in Procs, Status(p) PROVE NoReplyOverlooked'
  BY <1>16 DEF RInv, TypeOK, Status, Announced, NoReplyOverlooked, Outdated, Waiting,
               SearchesForOwner
<1>17. ASSUME NEW p \in Procs, NEW e \in Emails, Offer(p, e) PROVE NoReplyOverlooked'
  BY <1>17 DEF RInv, TypeOK, Offer, Announced, NoReplyOverlooked, Outdated, Waiting,
               SearchesForOwner
<1>18. ASSUME NEW p \in Procs, NEW e \in Emails, LoseOffer(p, e) PROVE NoReplyOverlooked'
  BY <1>18 DEF RInv, TypeOK, LoseOffer, Announced, NoReplyOverlooked, Outdated, Waiting,
               SearchesForOwner
<1>19. ASSUME NEW p \in Procs, Ingest(p) PROVE NoReplyOverlooked'
  BY <1>19 DEF RInv, TypeOK, Ingest, NoReplyOverlooked, Outdated, Waiting, SearchesForOwner
<1>20. ASSUME NEW p \in Procs, Complete(p, TRUE) PROVE NoReplyOverlooked'
  <2> SUFFICES ASSUME NEW q \in Procs, main'[q] \in Waiting, ~recovery'[q],
                      Wanted[q] \in arrived' \ (stored' \union queue')
               PROVE  Outdated(q)'
    BY DEF NoReplyOverlooked
  <2>1. queue \subseteq queue' \union stored
    BY <1>20 DEF RInv, TypeOK, Complete, WorkStored
  <2>2. UNCHANGED <<main, recovery, seen, subOf, sub, gaps, stored, arrived>>
    BY <1>20 DEF Complete
  <2>3. Outdated(q)
    BY <2>1, <2>2 DEF RInv, NoReplyOverlooked
  <2>4. carrier[p] = "complete" /\ \E s \in {"receive", "open"} : carrier' = [carrier EXCEPT ![p] = s]
    BY <1>20 DEF Complete
  <2>5. QED
    BY <2>2, <2>3, <2>4 DEF RInv, TypeOK, Outdated
<1>21. ASSUME NEW p \in Procs, Complete(p, FALSE) PROVE NoReplyOverlooked'
  <2> SUFFICES ASSUME NEW q \in Procs, main'[q] \in Waiting, ~recovery'[q],
                      Wanted[q] \in arrived' \ (stored' \union queue')
               PROVE  Outdated(q)'
    BY DEF NoReplyOverlooked
  <2>1. queue \subseteq queue' \union stored
    BY <1>21 DEF RInv, TypeOK, Complete, WorkStored
  <2>2. UNCHANGED <<main, recovery, seen, subOf, sub, gaps, stored, arrived>>
    BY <1>21 DEF Complete
  <2>3. Outdated(q)
    BY <2>1, <2>2 DEF RInv, NoReplyOverlooked
  <2>4. carrier[p] = "complete" /\ \E s \in {"receive", "open"} : carrier' = [carrier EXCEPT ![p] = s]
    BY <1>21 DEF Complete
  <2>5. QED
    BY <2>2, <2>3, <2>4 DEF RInv, TypeOK, Outdated
<1>22. ASSUME NEW p \in Procs, Broken(p) PROVE NoReplyOverlooked'
  BY <1>22 DEF RInv, TypeOK, Broken, Announced, NoReplyOverlooked, Outdated, Waiting,
               SearchesForOwner
<1>23. ASSUME NEW p \in Procs, Fail(p) PROVE NoReplyOverlooked'
  BY <1>23 DEF RInv, TypeOK, Fail, End, NoReplyOverlooked, Outdated, Waiting, SearchesForOwner
<1>24. ASSUME NEW p \in Procs, CutOff(p) PROVE NoReplyOverlooked'
  BY <1>24 DEF RInv, TypeOK, CutOff, End, NoReplyOverlooked, Outdated, Waiting,
               SearchesForOwner
<1>25. ASSUME NEW p \in Procs, Abort(p) PROVE NoReplyOverlooked'
  BY <1>25 DEF RInv, TypeOK, Abort, End, NoReplyOverlooked, Outdated, Waiting, SearchesForOwner
<1>26. ASSUME NEW p \in Procs, Unannounce(p) PROVE NoReplyOverlooked'
  BY <1>26 DEF RInv, TypeOK, Unannounce, NoOwner, NoReplyOverlooked, Outdated, Waiting,
               SearchesForOwner
<1>27. ASSUME NEW p \in Procs, Unlock(p) PROVE NoReplyOverlooked'
  BY <1>27 DEF RInv, TypeOK, Unlock, NoReplyOverlooked, Outdated, Waiting, SearchesForOwner
<1>28. ASSUME NEW p \in Procs, Die(p) PROVE NoReplyOverlooked'
  BY <1>28 DEF RInv, TypeOK, Die, Running, Forget, NoOwner, NoReplyOverlooked, Outdated,
               Waiting, SearchesForOwner
<1>29. ASSUME NEW e \in Emails, Arrive(e) PROVE NoReplyOverlooked'
  <2> SUFFICES ASSUME NEW q \in Procs, main'[q] \in Waiting, ~recovery'[q],
                      Wanted[q] \in arrived' \ (stored' \union queue')
               PROVE  Outdated(q)'
    BY DEF NoReplyOverlooked
  <2>1. ~recovery[q] /\ main[q] \in Waiting
    BY <1>29 DEF Arrive
  <2>2. CASE sub = 0
    BY <1>29, <2>1, <2>2, Searched DEF RInv, TypeOK, Arrive, Outdated, CarrierStages, Subscribed
  <2>3. CASE sub # 0
    BY <1>29, <2>1, <2>3 DEF RInv, Arrive, Outdated, NoReplyOverlooked
  <2>4. QED BY <2>2, <2>3
<1>30. ASSUME NEW e \in Emails, LetGo(e) PROVE NoReplyOverlooked'
  <2> SUFFICES ASSUME NEW q \in Procs, main'[q] \in Waiting, ~recovery'[q],
                      Wanted[q] \in arrived' \ (stored' \union queue')
               PROVE  Outdated(q)'
    BY DEF NoReplyOverlooked
  <2>1. ~recovery[q]
    BY <1>30 DEF LetGo
  <2>2. QED
    BY <1>30, <2>1, Searched DEF RInv, TypeOK, Views, LetGo, Outdated, CarrierStages, Subscribed
<1>31. ASSUME NEW e \in Emails, Lapse(e) PROVE NoReplyOverlooked'
  BY <1>31 DEF RInv, TypeOK, Lapse, NoReplyOverlooked, Outdated, Waiting, SearchesForOwner
<1>32. ASSUME Delete PROVE NoReplyOverlooked'
  <2> SUFFICES ASSUME NEW q \in Procs, main'[q] \in Waiting, ~recovery'[q],
                      Wanted[q] \in arrived' \ (stored' \union queue')
               PROVE  Outdated(q)'
    BY DEF NoReplyOverlooked
  <2>1. ~recovery[q]
    BY <1>32 DEF Delete
  <2>2. QED
    BY <1>32, <2>1, Searched DEF RInv, TypeOK, Delete, Outdated, CarrierStages, Subscribed
<1>33. QED BY <1>1, <1>2, <1>3, <1>4, <1>5, <1>6, <1>7, <1>8, <1>9, <1>10, <1>11, <1>12, <1>13,
              <1>14, <1>15, <1>16, <1>17, <1>18, <1>19, <1>20, <1>21, <1>22, <1>23, <1>24,
              <1>25, <1>26, <1>27, <1>28, <1>29, <1>30, <1>31, <1>32 DEF Next, MainStep,
              CarrierStep, Loss

(***************************************************************************)
(* The inductive invariant holds throughout: a record names a process that *)
(* owned the stream and counts no gap there was not (shared-mail-watch.ts  *)
(* writes it only as owner), a transport's work is stored before it is     *)
(* completed, and whoever gave up searching did so for a ready owner.      *)
(***************************************************************************)
THEOREM ReceiverInvariant == Spec => []RInv
<1>1. Init => RInv
  BY ReceiverAssumption DEF Init, Waits, RInv, TypeOK, NoOwner, Views, MainStages, Waiting, CarrierStages, HoldsStream,
     OneStream, OwnsOnce, Over, Ending, RecordsCredible, Credible, SubsNumbered, Subscribed,
     WorkStored, SearchesForOwner, NoReplyOverlooked
<1>2. RInv /\ [Next]_vars => RInv'
  <2> SUFFICES ASSUME RInv, [Next]_vars PROVE RInv' OBVIOUS
  <2>1. CASE Next
    BY <2>1, TypeStep, HoldsStep, StreamStep, OwnsStep, CredibleStep, SubsStep, WorkStep,
       SearchesStep, OverlookedStep DEF RInv
  <2>2. CASE UNCHANGED vars
    BY <2>2 DEF vars, procVars, carrierVars, localVars, storeVars, serviceVars, RInv, TypeOK, HoldsStream,
       OneStream, OwnsOnce, RecordsCredible, Credible, Owned, SubsNumbered, WorkStored,
       SearchesForOwner, NoReplyOverlooked, Outdated
  <2>3. QED BY <2>1, <2>2
<1>3. QED BY <1>1, <1>2, PTL DEF Spec

(***************************************************************************)
(* "The caller stays in the foreground and owns the only remote stream until *)
(* close" (shared-mail-watch.ts:86): whatever is killed, fails or is lost. *)
(***************************************************************************)
THEOREM OneStreamAlways == Spec => []OneStream
<1>1. RInv => OneStream BY DEF RInv
<1>2. QED BY <1>1, ReceiverInvariant, PTL

(***************************************************************************)
(* "The event owner decides when recovery is needed"                       *)
(* (targeted-replies.ts:183): a wait that does not search any more has missed *)
(* no reply, for any number of processes, emails, gaps and subscriptions.  *)
(***************************************************************************)
THEOREM NoReplyOverlookedEver == Spec => []NoReplyOverlooked
<1>1. RInv => NoReplyOverlooked BY DEF RInv
<1>2. QED BY <1>1, ReceiverInvariant, PTL
=============================================================================
