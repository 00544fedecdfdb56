--------------------------- MODULE ChatLockProofs ---------------------------
(* TypeOK and HolderKeepsRecord of ChatLock, for any processes, pids and   *)
(* bounds, and that it implements MutexLock as long as nothing crosses.    *)
EXTENDS ChatLock, TLAPS

Electing == {"elect", "readGuard", "probeGuard"}
Elected == {"recheck", "reprobe", "unlink"}
Cleaning == {"match", "remove"}
Reclaiming == Electing \union Elected \union Cleaning \union {"verify", "republish"}
Owning == {"held", "release", "releaseUnlink"}

Gone(r) == Owner(r) \in gone

\* Only processes that were started call, and a holder has entered.
Lives ==
    \A p \in Procs :
        /\ call[p] > 0 => p \in alive \union gone
        /\ pc[p] # "idle" => call[p] > 0
        /\ pc[p] = "held" => depth[p] > 0

\* A record is the lock at most once, and what a lock replaced is not the lock.
Generations ==
    /\ path # None => path \in published
    /\ \A r \in published :
         /\ r[2] <= call[Owner(r)]
         /\ previous[r] # None => previous[r] # path
    /\ \A r \in Records :
         previous[r] # None => previous[r] \in published /\ r[2] <= call[Owner(r)]
    /\ \A p \in Procs :
         /\ pc[p] \notin Owning \union {"idle"} => Mine(p) \notin published
         /\ pc[p] \in {"publish", "read"} => previous[Mine(p)] = None

\* s replaced, or would have replaced, the same lock that t is or stood for.
SameElection(t, s) ==
    t = previous[s] \/ (previous[t] = previous[s] /\ t \notin published)

Guards ==
    \A t \in Records :
        guard[t] # None =>
            /\ Gone(t) /\ previous[guard[t]] # None
            /\ ~crossed => SameElection(t, guard[t])

\* r is the lock or a guard of it.
InChain(r) == r = path \/ (previous[r] = path /\ \E u \in Records : guard[u] = r)

\* What a contender found.
Finding(p) ==
    /\ pc[p] = "probe" => Previous(p) # None
    /\ pc[p] \in Reclaiming =>
         Previous(p) # None /\ Gone(Previous(p)) /\ target[p] # None
    /\ pc[p] \in Electing =>
         /\ Gone(target[p])
         /\ ~crossed /\ target[p] # Previous(p) =>
              /\ previous[target[p]] = Previous(p)
              /\ path = Previous(p) => InChain(target[p])
    /\ pc[p] = "probeGuard" =>
         /\ seen[p] # None /\ previous[seen[p]] # None
         /\ ~crossed =>
              /\ SameElection(target[p], seen[p])
              /\ path = previous[seen[p]] /\ path = Previous(p) => InChain(seen[p])

\* The guards it went over are of the lock that it found.
Way(p) ==
    /\ pc[p] \in Reclaiming =>
         \A r \in Records : links[p][r] # None =>
            /\ Gone(r)
            /\ ~crossed =>
                 r = Previous(p) \/ (previous[r] = Previous(p) /\ r \notin published)
            /\ links[p][r] = Mine(p) \/ links[p][links[p][r]] # None
                 \/ (links[p][r] = target[p] /\ pc[p] \in Electing)
    /\ pc[p] \in Electing /\ target[p] # Previous(p) => links[p][Previous(p)] # None
    /\ pc[p] \in Elected \union {"verify"} => links[p][Previous(p)] # None
    /\ pc[p] \in Cleaning => links[p][target[p]] # None /\ path # Previous(p)

\* A live elected contender is in the chain of the lock, and what it is about
\* to unlink is the lock it found.
Election(p) ==
    p \in alive /\ ~crossed =>
        /\ pc[p] \in Elected /\ path = Previous(p) => InChain(Mine(p))
        /\ pc[p] \in {"reprobe", "unlink"} => path = Previous(p)
        /\ pc[p] \in Owning => path = Mine(p)

\* A chain has one end, where the next contender is elected.
OneEnd ==
    ~crossed /\ path # None =>
      \A t, u \in Records :
        InChain(t) /\ InChain(u) /\ guard[t] = None /\ guard[u] = None => t = u

IInv ==
    /\ TypeOK /\ Lives /\ Generations /\ Guards
    /\ \A p \in Procs : Finding(p) /\ Way(p) /\ Election(p)
    /\ OneEnd
-----------------------------------------------------------------------------
LEMMA RecordShape ==
    ASSUME NEW r \in Records
    PROVE  Owner(r) \in Procs /\ r[2] \in 1..Calls[Owner(r)] /\ r = <<Owner(r), r[2]>>
  BY DEF Records, Owner

LEMMA RecordOf ==
    ASSUME NEW p \in Procs, NEW n \in 1..Calls[p]
    PROVE  <<p, n>> \in Records
<1>1. <<p, n>> \in {p} \X (1..Calls[p])
  OBVIOUS
<1> QED BY <1>1 DEF Records

LEMMA MineShape ==
    ASSUME TypeOK, NEW p \in Procs, call[p] > 0
    PROVE  Mine(p) \in Records /\ Owner(Mine(p)) = p /\ Mine(p)[2] = call[p] /\ Mine(p) # None
<1>1. call[p] \in 1..Calls[p]
  BY CallsAssumption DEF TypeOK
<1> QED BY <1>1, RecordOf, NoneAssumption DEF Mine, Owner

\* A record whose pid is dead is the record of a process that is gone.
LEMMA DeadOwner ==
    ASSUME TypeOK, Lives, NEW r \in Records, r[2] <= call[Owner(r)], ~PidIsAlive(r)
    PROVE  Gone(r)
<1>1. Owner(r) \in Procs /\ r[2] \in Nat /\ r[2] > 0 /\ call[Owner(r)] \in Nat
  BY RecordShape, CallsAssumption DEF TypeOK
<1>2. call[Owner(r)] > 0
  BY <1>1
<1>3. Owner(r) \notin alive
  BY DEF PidIsAlive
<1> QED BY <1>1, <1>2, <1>3 DEF Lives, Gone

\* The record of a call that is under way.
LEMMA Calling ==
    ASSUME IInv, NEW p \in Procs, pc[p] # "idle"
    PROVE  Mine(p) \in Records /\ Owner(Mine(p)) = p /\ Mine(p) # None
           /\ Mine(p)[2] = call[p] /\ (p \in alive => ~Gone(Mine(p)))
  BY MineShape DEF IInv, Lives, TypeOK, Gone

LEMMA TypeStep ==
    ASSUME IInv, [Next]_vars
    PROVE  TypeOK'
<1> USE NoneAssumption
<1> USE DEF lockVars, procVars, callVars, history, At, Goto, Stages, IInv
<1>1. ASSUME NEW p \in Procs, Spawn(p) PROVE TypeOK'
  BY <1>1 DEF TypeOK, Spawn
<1>2. ASSUME NEW p \in Procs, Die(p) PROVE TypeOK'
  BY <1>2 DEF TypeOK, Die
<1>3. ASSUME NEW p \in Procs, Start(p) PROVE TypeOK'
  <2>1. call[p] \in Nat /\ Calls[p] \in Nat /\ call[p] < Calls[p]
    BY <1>3, CallsAssumption DEF TypeOK, Start
  <2>2. call[p] + 1 \in Nat /\ call[p] + 1 <= Calls[p]
    BY <2>1
  <2> QED BY <1>3, <2>1, <2>2 DEF TypeOK, Start
<1>4. ASSUME NEW p \in Procs, Publish(p) PROVE TypeOK'
  <2>1. Mine(p) \in Records /\ Mine(p) # None /\ (p \in alive => ~Gone(Mine(p)))
    BY <1>4, Calling DEF Publish
  <2>3. CASE path = None
    <3>1. 1 \in 0..MaxDepth
      BY DepthAssumption
    <3>2. path' = Mine(p) /\ published' = published \union {Mine(p)} /\ depth' = [depth EXCEPT ![p] = 1]
          /\ pc' = [pc EXCEPT ![p] = "held"]
          /\ UNCHANGED <<alive, gone, guard, call, previous, target, seen, links, crossed>>
      BY <1>4, <2>1, <2>3 DEF Publish, Publishing
    <3> QED BY <2>1, <3>1, <3>2 DEF TypeOK
  <2>4. CASE ~(path = None)
    BY <1>4, <2>1, <2>4 DEF TypeOK, Publish, Publishing
  <2> QED BY <2>3, <2>4
<1>5. ASSUME NEW p \in Procs, ReadLock(p) PROVE TypeOK'
  <2>1. Mine(p) \in Records /\ Mine(p) # None /\ (p \in alive => ~Gone(Mine(p)))
    BY <1>5, Calling DEF ReadLock
  <2>2. path # None => path # Mine(p) /\ path \in Records
    BY <1>5, <2>1 DEF TypeOK, Lives, Generations, Finding, Way, Electing, Reclaiming, Cleaning, Owning, Previous, ReadLock
  <2>3. CASE path = None
    BY <1>5, <2>1, <2>2, <2>3 DEF TypeOK, ReadLock
  <2>4. CASE ~(path = None)
    <3>1. previous' = [previous EXCEPT ![Mine(p)] = path] /\ path # None
          /\ UNCHANGED <<alive, gone, path, guard, call, depth, target, seen, links, published, crossed>>
      BY <1>5, <2>1, <2>2, <2>4 DEF ReadLock
    <3>2. pc' \in [Procs -> Stages]
      BY <1>5, <2>1, <2>2, <2>4 DEF TypeOK, ReadLock
    <3>3. previous' \in [Records -> Records \union {None}] /\ \A r \in Records : previous'[r] # r
      BY <2>1, <2>2, <3>1 DEF TypeOK
    <3> QED BY <3>1, <3>2, <3>3 DEF TypeOK
  <2> QED BY <2>3, <2>4
<1>6. ASSUME NEW p \in Procs, ProbeHolder(p) PROVE TypeOK'
  <2>1. Mine(p) \in Records /\ Mine(p) # None /\ (p \in alive => ~Gone(Mine(p)))
    BY <1>6, Calling DEF ProbeHolder
  <2>2. Previous(p) \in Records \union {None} /\ [r \in Records |-> None] \in [Records -> Records \union {None}]
    BY <1>6, <2>1 DEF TypeOK, Lives, Generations, Finding, Way, Electing, Reclaiming, Cleaning, Owning, Previous, ProbeHolder
  <2>3. CASE PidIsAlive(Previous(p))
    BY <1>6, <2>1, <2>2, <2>3 DEF TypeOK, ProbeHolder
  <2>4. CASE ~(PidIsAlive(Previous(p)))
    <3>1. links' \in [Procs -> [Records -> Records \union {None}]]
      BY <1>6, <2>1, <2>2, <2>4 DEF TypeOK, ProbeHolder
    <3>2. UNCHANGED <<guard, previous, seen, call, depth, published, path, alive, gone>>
      BY <1>6, <2>1, <2>2, <2>4 DEF ProbeHolder
    <3>3. target' \in [Procs -> Records \union {None}]
      BY <1>6, <2>1, <2>2, <2>4 DEF TypeOK, ProbeHolder
    <3>4. pc' \in [Procs -> Stages] /\ crossed' \in BOOLEAN
      BY <1>6, <2>1, <2>2, <2>4 DEF TypeOK, ProbeHolder
    <3> QED BY <3>1, <3>2, <3>3, <3>4 DEF TypeOK
  <2> QED BY <2>3, <2>4
<1>7. ASSUME NEW p \in Procs, ElectSelf(p) PROVE TypeOK'
  <2>1. Mine(p) \in Records /\ Mine(p) # None /\ (p \in alive => ~Gone(Mine(p)))
    BY <1>7, Calling DEF ElectSelf
  <2>2. target[p] \in Records /\ links[p] \in [Records -> Records \union {None}] /\ [links[p] EXCEPT ![target[p]] = Mine(p)] \in [Records -> Records \union {None}] /\ target[p] # Mine(p)
    BY <1>7, <2>1 DEF TypeOK, Lives, Generations, Finding, Way, Electing, Reclaiming, Cleaning, Owning, Previous, ElectSelf
  <2> QED BY <1>7, <2>1, <2>2 DEF TypeOK, ElectSelf, Meets, Crossing
<1>8. ASSUME NEW p \in Procs, ElectRefused(p) PROVE TypeOK'
  <2>1. Mine(p) \in Records /\ Mine(p) # None /\ (p \in alive => ~Gone(Mine(p)))
    BY <1>8, Calling DEF ElectRefused
  <2> QED BY <1>8, <2>1 DEF TypeOK, ElectRefused
<1>9. ASSUME NEW p \in Procs, ReadGuard(p) PROVE TypeOK'
  <2>1. Mine(p) \in Records /\ Mine(p) # None /\ (p \in alive => ~Gone(Mine(p)))
    BY <1>9, Calling DEF ReadGuard
  <2>2. target[p] \in Records
    BY <1>9, <2>1 DEF TypeOK, Lives, Generations, Finding, Way, Electing, Reclaiming, Cleaning, Owning, Previous, ReadGuard
  <2> QED BY <1>9, <2>1, <2>2 DEF TypeOK, ReadGuard, Previous
<1>10. ASSUME NEW p \in Procs, ProbeGuard(p) PROVE TypeOK'
  <2>1. Mine(p) \in Records /\ Mine(p) # None /\ (p \in alive => ~Gone(Mine(p)))
    BY <1>10, Calling DEF ProbeGuard
  <2>2. target[p] \in Records /\ seen[p] \in Records /\ links[p] \in [Records -> Records \union {None}] /\ [links[p] EXCEPT ![target[p]] = seen[p]] \in [Records -> Records \union {None}]
    BY <1>10, <2>1 DEF TypeOK, Lives, Generations, Finding, Way, Electing, Reclaiming, Cleaning, Owning, Previous, ProbeGuard
  <2>3. CASE PidIsAlive(seen[p])
    BY <1>10, <2>1, <2>2, <2>3 DEF TypeOK, ProbeGuard, Meets, Crossing
  <2>4. CASE ~(PidIsAlive(seen[p]))
    <3> DEFINE way == [links[p] EXCEPT ![target[p]] = seen[p]]
    <3>0. links' = [links EXCEPT ![p] = way]
      BY <1>10, <2>1, <2>2, <2>4 DEF ProbeGuard, Meets, Crossing
    <3>1. links' \in [Procs -> [Records -> Records \union {None}]]
      <4>1. way \in [Records -> Records \union {None}] /\ links \in [Procs -> [Records -> Records \union {None}]]
        BY <2>2 DEF TypeOK
      <4> HIDE DEF way
      <4> QED BY <3>0, <4>1
    <3>2. UNCHANGED <<guard, previous, seen, call, depth, published, path, alive, gone>>
      BY <1>10, <2>1, <2>2, <2>4 DEF ProbeGuard, Meets, Crossing
    <3>3. target' \in [Procs -> Records \union {None}]
      BY <1>10, <2>1, <2>2, <2>4 DEF TypeOK, ProbeGuard, Meets, Crossing
    <3>4. pc' \in [Procs -> Stages] /\ crossed' \in BOOLEAN
      BY <1>10, <2>1, <2>2, <2>4 DEF TypeOK, ProbeGuard, Meets, Crossing
    <3> QED BY <3>1, <3>2, <3>3, <3>4 DEF TypeOK
  <2> QED BY <2>3, <2>4
<1>11. ASSUME NEW p \in Procs, Recheck(p) PROVE TypeOK'
  <2>1. Mine(p) \in Records /\ Mine(p) # None /\ (p \in alive => ~Gone(Mine(p)))
    BY <1>11, Calling DEF Recheck
  <2> QED BY <1>11, <2>1 DEF TypeOK, Recheck
<1>12. ASSUME NEW p \in Procs, Reprobe(p) PROVE TypeOK'
  <2>1. Mine(p) \in Records /\ Mine(p) # None /\ (p \in alive => ~Gone(Mine(p)))
    BY <1>12, Calling DEF Reprobe
  <2> QED BY <1>12, <2>1 DEF TypeOK, Reprobe
<1>13. ASSUME NEW p \in Procs, Unlink(p) PROVE TypeOK'
  <2>1. Mine(p) \in Records /\ Mine(p) # None /\ (p \in alive => ~Gone(Mine(p)))
    BY <1>13, Calling DEF Unlink
  <2> QED BY <1>13, <2>1 DEF TypeOK, Unlink
<1>14. ASSUME NEW p \in Procs, Verify(p) PROVE TypeOK'
  <2>1. Mine(p) \in Records /\ Mine(p) # None /\ (p \in alive => ~Gone(Mine(p)))
    BY <1>14, Calling DEF Verify
  <2>2. Previous(p) \in Records \union {None}
    BY <1>14, <2>1 DEF TypeOK, Lives, Generations, Finding, Way, Electing, Reclaiming, Cleaning, Owning, Previous, Verify
  <2> QED BY <1>14, <2>1, <2>2 DEF TypeOK, Verify, Previous
<1>15. ASSUME NEW p \in Procs, CleanMatch(p) PROVE TypeOK'
  <2>1. Mine(p) \in Records /\ Mine(p) # None /\ (p \in alive => ~Gone(Mine(p)))
    BY <1>15, Calling DEF CleanMatch
  <2>2. target[p] \in Records /\ links[p] \in [Records -> Records \union {None}] /\ links[p][target[p]] \in Records
    BY <1>15, <2>1 DEF TypeOK, Lives, Generations, Finding, Way, Electing, Reclaiming, Cleaning, Owning, Previous, CleanMatch
  <2> QED BY <1>15, <2>1, <2>2 DEF TypeOK, CleanMatch, CleanNext
<1>16. ASSUME NEW p \in Procs, CleanRemove(p) PROVE TypeOK'
  <2>1. Mine(p) \in Records /\ Mine(p) # None /\ (p \in alive => ~Gone(Mine(p)))
    BY <1>16, Calling DEF CleanRemove
  <2>2. target[p] \in Records /\ links[p] \in [Records -> Records \union {None}] /\ links[p][target[p]] \in Records
    BY <1>16, <2>1 DEF TypeOK, Lives, Generations, Finding, Way, Electing, Reclaiming, Cleaning, Owning, Previous, CleanRemove
  <2> QED BY <1>16, <2>1, <2>2 DEF TypeOK, CleanRemove, CleanNext
<1>17. ASSUME NEW p \in Procs, Republish(p) PROVE TypeOK'
  <2>1. Mine(p) \in Records /\ Mine(p) # None /\ (p \in alive => ~Gone(Mine(p)))
    BY <1>17, Calling DEF Republish
  <2>3. CASE path = None
    <3>1. 1 \in 0..MaxDepth
      BY DepthAssumption
    <3>2. path' = Mine(p) /\ published' = published \union {Mine(p)} /\ depth' = [depth EXCEPT ![p] = 1]
          /\ pc' = [pc EXCEPT ![p] = "held"]
          /\ UNCHANGED <<alive, gone, guard, call, previous, target, seen, links, crossed>>
      BY <1>17, <2>1, <2>3 DEF Republish, Publishing
    <3> QED BY <2>1, <3>1, <3>2 DEF TypeOK
  <2>4. CASE ~(path = None)
    BY <1>17, <2>1, <2>4 DEF TypeOK, Republish, Publishing
  <2> QED BY <2>3, <2>4
<1>18. ASSUME NEW p \in Procs, Reenter(p) PROVE TypeOK'
  <2>1. Mine(p) \in Records /\ Mine(p) # None /\ (p \in alive => ~Gone(Mine(p)))
    BY <1>18, Calling DEF Reenter
  <2> QED BY <1>18, <2>1, DepthAssumption DEF TypeOK, Reenter
<1>19. ASSUME NEW p \in Procs, Release(p) PROVE TypeOK'
  <2>1. Mine(p) \in Records /\ Mine(p) # None /\ (p \in alive => ~Gone(Mine(p)))
    BY <1>19, Calling DEF Release
  <2> QED BY <1>19, <2>1, DepthAssumption DEF TypeOK, Lives, Release
<1>20. ASSUME NEW p \in Procs, ReleaseMatch(p) PROVE TypeOK'
  <2>1. Mine(p) \in Records /\ Mine(p) # None /\ (p \in alive => ~Gone(Mine(p)))
    BY <1>20, Calling DEF ReleaseMatch
  <2> QED BY <1>20, <2>1 DEF TypeOK, ReleaseMatch
<1>21. ASSUME NEW p \in Procs, ReleaseUnlink(p) PROVE TypeOK'
  <2>1. Mine(p) \in Records /\ Mine(p) # None /\ (p \in alive => ~Gone(Mine(p)))
    BY <1>21, Calling DEF ReleaseUnlink
  <2> QED BY <1>21, <2>1 DEF TypeOK, ReleaseUnlink
<1>22. CASE UNCHANGED vars
  BY <1>22 DEF TypeOK, vars
<1>23. QED
  BY <1>1, <1>2, <1>3, <1>4, <1>5, <1>6, <1>7, <1>8, <1>9, <1>10, <1>11, <1>12, <1>13, <1>14, <1>15, <1>16, <1>17, <1>18, <1>19, <1>20, <1>21, <1>22 DEF Next, Acquiring, Holding

LEMMA LivesStep ==
    ASSUME IInv, [Next]_vars
    PROVE  Lives'
<1> USE NoneAssumption
<1> USE DEF lockVars, procVars, callVars, history, At, Goto

<1>1. ASSUME NEW p \in Procs, Spawn(p) PROVE Lives'
  BY <1>1 DEF IInv, TypeOK, Lives, Spawn
<1>2. ASSUME NEW p \in Procs, Die(p) PROVE Lives'
  BY <1>2 DEF IInv, TypeOK, Lives, Die
<1>3. ASSUME NEW p \in Procs, Start(p) PROVE Lives'
  BY <1>3 DEF IInv, TypeOK, Lives, Start
<1>4. ASSUME NEW p \in Procs, Publish(p) PROVE Lives'
  BY <1>4 DEF IInv, TypeOK, Lives, Publish, Publishing
<1>5. ASSUME NEW p \in Procs, ReadLock(p) PROVE Lives'
  BY <1>5 DEF IInv, TypeOK, Lives, ReadLock
<1>6. ASSUME NEW p \in Procs, ProbeHolder(p) PROVE Lives'
  BY <1>6 DEF IInv, TypeOK, Lives, ProbeHolder
<1>7. ASSUME NEW p \in Procs, ElectSelf(p) PROVE Lives'
  BY <1>7 DEF IInv, TypeOK, Lives, ElectSelf, Meets, Crossing
<1>8. ASSUME NEW p \in Procs, ElectRefused(p) PROVE Lives'
  BY <1>8 DEF IInv, TypeOK, Lives, ElectRefused
<1>9. ASSUME NEW p \in Procs, ReadGuard(p) PROVE Lives'
  BY <1>9 DEF IInv, TypeOK, Lives, ReadGuard
<1>10. ASSUME NEW p \in Procs, ProbeGuard(p) PROVE Lives'
  BY <1>10 DEF IInv, TypeOK, Lives, ProbeGuard, Meets, Crossing
<1>11. ASSUME NEW p \in Procs, Recheck(p) PROVE Lives'
  BY <1>11 DEF IInv, TypeOK, Lives, Recheck
<1>12. ASSUME NEW p \in Procs, Reprobe(p) PROVE Lives'
  BY <1>12 DEF IInv, TypeOK, Lives, Reprobe
<1>13. ASSUME NEW p \in Procs, Unlink(p) PROVE Lives'
  BY <1>13 DEF IInv, TypeOK, Lives, Unlink
<1>14. ASSUME NEW p \in Procs, Verify(p) PROVE Lives'
  BY <1>14 DEF IInv, TypeOK, Lives, Verify
<1>15. ASSUME NEW p \in Procs, CleanMatch(p) PROVE Lives'
  BY <1>15 DEF IInv, TypeOK, Lives, CleanMatch, CleanNext
<1>16. ASSUME NEW p \in Procs, CleanRemove(p) PROVE Lives'
  BY <1>16 DEF IInv, TypeOK, Lives, CleanRemove, CleanNext
<1>17. ASSUME NEW p \in Procs, Republish(p) PROVE Lives'
  BY <1>17 DEF IInv, TypeOK, Lives, Republish, Publishing
<1>18. ASSUME NEW p \in Procs, Reenter(p) PROVE Lives'
  BY <1>18 DEF IInv, TypeOK, Lives, Reenter
<1>19. ASSUME NEW p \in Procs, Release(p) PROVE Lives'
  BY <1>19 DEF IInv, TypeOK, Lives, Release
<1>20. ASSUME NEW p \in Procs, ReleaseMatch(p) PROVE Lives'
  BY <1>20 DEF IInv, TypeOK, Lives, ReleaseMatch
<1>21. ASSUME NEW p \in Procs, ReleaseUnlink(p) PROVE Lives'
  BY <1>21 DEF IInv, TypeOK, Lives, ReleaseUnlink
<1>22. CASE UNCHANGED vars
  BY <1>22 DEF IInv, TypeOK, Lives, vars
<1>23. QED
  BY <1>1, <1>2, <1>3, <1>4, <1>5, <1>6, <1>7, <1>8, <1>9, <1>10, <1>11, <1>12, <1>13, <1>14, <1>15, <1>16, <1>17, <1>18, <1>19, <1>20, <1>21, <1>22 DEF Next, Acquiring, Holding

\* What only grows, and that a lock is always a new record.
Grows ==
    /\ gone \subseteq gone' /\ published \subseteq published'
    /\ crossed => crossed'
    /\ \A r \in Records : previous[r] # None => previous'[r] = previous[r]
    /\ \A r \in Records : Gone(r) /\ r \notin published => r \notin published'
    /\ path' # path => path' = None \/ path' \notin published

LEMMA GrowsStep ==
    ASSUME IInv, [Next]_vars
    PROVE  Grows
<1> USE NoneAssumption
<1> USE DEF lockVars, procVars, callVars, history, At, Goto

<1>1. ASSUME NEW p \in Procs, Spawn(p) PROVE Grows
  BY <1>1 DEF IInv, TypeOK, Generations, Gone, Grows, Electing, Elected, Cleaning, Reclaiming, Owning, Spawn
<1>2. ASSUME NEW p \in Procs, Die(p) PROVE Grows
  BY <1>2 DEF IInv, TypeOK, Generations, Gone, Grows, Electing, Elected, Cleaning, Reclaiming, Owning, Die
<1>3. ASSUME NEW p \in Procs, Start(p) PROVE Grows
  BY <1>3 DEF IInv, TypeOK, Generations, Gone, Grows, Electing, Elected, Cleaning, Reclaiming, Owning, Start
<1>4. ASSUME NEW p \in Procs, Publish(p) PROVE Grows
  <2>1. Mine(p) \in Records /\ Owner(Mine(p)) = p /\ (p \in alive => ~Gone(Mine(p)))
    BY <1>4, Calling DEF Publish
  <2> QED BY <1>4, <2>1 DEF IInv, TypeOK, Generations, Gone, Grows, Electing, Elected, Cleaning, Reclaiming, Owning, Publish, Publishing
<1>5. ASSUME NEW p \in Procs, ReadLock(p) PROVE Grows
  <2>1. Mine(p) \in Records /\ Owner(Mine(p)) = p /\ (p \in alive => ~Gone(Mine(p)))
    BY <1>5, Calling DEF ReadLock
  <2> QED BY <1>5, <2>1 DEF IInv, TypeOK, Generations, Gone, Grows, Electing, Elected, Cleaning, Reclaiming, Owning, ReadLock
<1>6. ASSUME NEW p \in Procs, ProbeHolder(p) PROVE Grows
  <2>1. Mine(p) \in Records /\ Owner(Mine(p)) = p /\ (p \in alive => ~Gone(Mine(p)))
    BY <1>6, Calling DEF ProbeHolder
  <2> QED BY <1>6, <2>1 DEF IInv, TypeOK, Generations, Gone, Grows, Electing, Elected, Cleaning, Reclaiming, Owning, ProbeHolder
<1>7. ASSUME NEW p \in Procs, ElectSelf(p) PROVE Grows
  <2>1. Mine(p) \in Records /\ Owner(Mine(p)) = p /\ (p \in alive => ~Gone(Mine(p)))
    BY <1>7, Calling DEF ElectSelf
  <2> QED BY <1>7, <2>1 DEF IInv, TypeOK, Generations, Gone, Grows, Electing, Elected, Cleaning, Reclaiming, Owning, ElectSelf, Meets, Crossing
<1>8. ASSUME NEW p \in Procs, ElectRefused(p) PROVE Grows
  <2>1. Mine(p) \in Records /\ Owner(Mine(p)) = p /\ (p \in alive => ~Gone(Mine(p)))
    BY <1>8, Calling DEF ElectRefused
  <2> QED BY <1>8, <2>1 DEF IInv, TypeOK, Generations, Gone, Grows, Electing, Elected, Cleaning, Reclaiming, Owning, ElectRefused
<1>9. ASSUME NEW p \in Procs, ReadGuard(p) PROVE Grows
  <2>1. Mine(p) \in Records /\ Owner(Mine(p)) = p /\ (p \in alive => ~Gone(Mine(p)))
    BY <1>9, Calling DEF ReadGuard
  <2> QED BY <1>9, <2>1 DEF IInv, TypeOK, Generations, Gone, Grows, Electing, Elected, Cleaning, Reclaiming, Owning, ReadGuard
<1>10. ASSUME NEW p \in Procs, ProbeGuard(p) PROVE Grows
  <2>1. Mine(p) \in Records /\ Owner(Mine(p)) = p /\ (p \in alive => ~Gone(Mine(p)))
    BY <1>10, Calling DEF ProbeGuard
  <2> QED BY <1>10, <2>1 DEF IInv, TypeOK, Generations, Gone, Grows, Electing, Elected, Cleaning, Reclaiming, Owning, ProbeGuard, Meets, Crossing
<1>11. ASSUME NEW p \in Procs, Recheck(p) PROVE Grows
  <2>1. Mine(p) \in Records /\ Owner(Mine(p)) = p /\ (p \in alive => ~Gone(Mine(p)))
    BY <1>11, Calling DEF Recheck
  <2> QED BY <1>11, <2>1 DEF IInv, TypeOK, Generations, Gone, Grows, Electing, Elected, Cleaning, Reclaiming, Owning, Recheck
<1>12. ASSUME NEW p \in Procs, Reprobe(p) PROVE Grows
  <2>1. Mine(p) \in Records /\ Owner(Mine(p)) = p /\ (p \in alive => ~Gone(Mine(p)))
    BY <1>12, Calling DEF Reprobe
  <2> QED BY <1>12, <2>1 DEF IInv, TypeOK, Generations, Gone, Grows, Electing, Elected, Cleaning, Reclaiming, Owning, Reprobe
<1>13. ASSUME NEW p \in Procs, Unlink(p) PROVE Grows
  <2>1. Mine(p) \in Records /\ Owner(Mine(p)) = p /\ (p \in alive => ~Gone(Mine(p)))
    BY <1>13, Calling DEF Unlink
  <2> QED BY <1>13, <2>1 DEF IInv, TypeOK, Generations, Gone, Grows, Electing, Elected, Cleaning, Reclaiming, Owning, Unlink
<1>14. ASSUME NEW p \in Procs, Verify(p) PROVE Grows
  <2>1. Mine(p) \in Records /\ Owner(Mine(p)) = p /\ (p \in alive => ~Gone(Mine(p)))
    BY <1>14, Calling DEF Verify
  <2> QED BY <1>14, <2>1 DEF IInv, TypeOK, Generations, Gone, Grows, Electing, Elected, Cleaning, Reclaiming, Owning, Verify
<1>15. ASSUME NEW p \in Procs, CleanMatch(p) PROVE Grows
  <2>1. Mine(p) \in Records /\ Owner(Mine(p)) = p /\ (p \in alive => ~Gone(Mine(p)))
    BY <1>15, Calling DEF CleanMatch
  <2> QED BY <1>15, <2>1 DEF IInv, TypeOK, Generations, Gone, Grows, Electing, Elected, Cleaning, Reclaiming, Owning, CleanMatch, CleanNext
<1>16. ASSUME NEW p \in Procs, CleanRemove(p) PROVE Grows
  <2>1. Mine(p) \in Records /\ Owner(Mine(p)) = p /\ (p \in alive => ~Gone(Mine(p)))
    BY <1>16, Calling DEF CleanRemove
  <2> QED BY <1>16, <2>1 DEF IInv, TypeOK, Generations, Gone, Grows, Electing, Elected, Cleaning, Reclaiming, Owning, CleanRemove, CleanNext
<1>17. ASSUME NEW p \in Procs, Republish(p) PROVE Grows
  <2>1. Mine(p) \in Records /\ Owner(Mine(p)) = p /\ (p \in alive => ~Gone(Mine(p)))
    BY <1>17, Calling DEF Republish
  <2> QED BY <1>17, <2>1 DEF IInv, TypeOK, Generations, Gone, Grows, Electing, Elected, Cleaning, Reclaiming, Owning, Republish, Publishing
<1>18. ASSUME NEW p \in Procs, Reenter(p) PROVE Grows
  <2>1. Mine(p) \in Records /\ Owner(Mine(p)) = p /\ (p \in alive => ~Gone(Mine(p)))
    BY <1>18, Calling DEF Reenter
  <2> QED BY <1>18, <2>1 DEF IInv, TypeOK, Generations, Gone, Grows, Electing, Elected, Cleaning, Reclaiming, Owning, Reenter
<1>19. ASSUME NEW p \in Procs, Release(p) PROVE Grows
  <2>1. Mine(p) \in Records /\ Owner(Mine(p)) = p /\ (p \in alive => ~Gone(Mine(p)))
    BY <1>19, Calling DEF Release
  <2> QED BY <1>19, <2>1 DEF IInv, TypeOK, Generations, Gone, Grows, Electing, Elected, Cleaning, Reclaiming, Owning, Release
<1>20. ASSUME NEW p \in Procs, ReleaseMatch(p) PROVE Grows
  <2>1. Mine(p) \in Records /\ Owner(Mine(p)) = p /\ (p \in alive => ~Gone(Mine(p)))
    BY <1>20, Calling DEF ReleaseMatch
  <2> QED BY <1>20, <2>1 DEF IInv, TypeOK, Generations, Gone, Grows, Electing, Elected, Cleaning, Reclaiming, Owning, ReleaseMatch
<1>21. ASSUME NEW p \in Procs, ReleaseUnlink(p) PROVE Grows
  <2>1. Mine(p) \in Records /\ Owner(Mine(p)) = p /\ (p \in alive => ~Gone(Mine(p)))
    BY <1>21, Calling DEF ReleaseUnlink
  <2> QED BY <1>21, <2>1 DEF IInv, TypeOK, Generations, Gone, Grows, Electing, Elected, Cleaning, Reclaiming, Owning, ReleaseUnlink
<1>22. CASE UNCHANGED vars
  BY <1>22 DEF IInv, TypeOK, Generations, Gone, Grows, Electing, Elected, Cleaning, Reclaiming, Owning, vars
<1>23. QED
  BY <1>1, <1>2, <1>3, <1>4, <1>5, <1>6, <1>7, <1>8, <1>9, <1>10, <1>11, <1>12, <1>13, <1>14, <1>15, <1>16, <1>17, <1>18, <1>19, <1>20, <1>21, <1>22 DEF Next, Acquiring, Holding

LEMMA GenerationsStep ==
    ASSUME IInv, [Next]_vars
    PROVE  Generations'
<1> USE NoneAssumption
<1> USE DEF lockVars, procVars, callVars, history, At, Goto

<1>1. ASSUME NEW p \in Procs, Spawn(p) PROVE Generations'
  BY <1>1 DEF IInv, TypeOK, Lives, Generations, Mine, Electing, Elected, Cleaning, Reclaiming, Owning, Spawn
<1>2. ASSUME NEW p \in Procs, Die(p) PROVE Generations'
  BY <1>2 DEF IInv, TypeOK, Lives, Generations, Mine, Electing, Elected, Cleaning, Reclaiming, Owning, Die
<1>3. ASSUME NEW p \in Procs, Start(p) PROVE Generations'
  <2>1. call[p] \in Nat /\ call' = [call EXCEPT ![p] = @ + 1] /\ pc' = [pc EXCEPT ![p] = "publish"]
        /\ UNCHANGED <<path, published, previous>>
    BY <1>3 DEF IInv, TypeOK, Start
  <2>2. call'[p] = call[p] + 1 /\ \A q \in Procs : q # p => call'[q] = call[q] /\ pc'[q] = pc[q]
    BY <2>1 DEF IInv, TypeOK
  <2>3. Mine(p)' \in Records /\ Owner(Mine(p)') = p /\ Mine(p)'[2] = call[p] + 1
    <3>1. call'[p] \in 1..Calls[p]
      BY <2>1, <2>2, <1>3, CallsAssumption DEF Start
    <3> QED BY <3>1, <2>2, RecordOf DEF Mine, Owner
  <2>4. Mine(p)' \notin published /\ previous[Mine(p)'] = None
    BY <2>1, <2>3 DEF IInv, Generations
  <2>5. \A q \in Procs : q # p => Mine(q)' = Mine(q)
    BY <2>2 DEF Mine
  <2>6. \A r \in Records : r[2] \in Nat /\ Owner(r) \in Procs
    BY RecordShape, CallsAssumption
  <2>7. \A r \in Records : r[2] <= call[Owner(r)] => r[2] <= call'[Owner(r)]
    BY <2>1, <2>2, <2>6 DEF IInv, TypeOK
  <2>8. \A q \in Procs : pc'[q] \notin Owning \union {"idle"} => Mine(q)' \notin published'
    BY <2>1, <2>2, <2>4, <2>5 DEF IInv, Generations
  <2>9. \A q \in Procs : pc'[q] \in {"publish", "read"} => previous'[Mine(q)'] = None
    BY <2>1, <2>2, <2>4, <2>5 DEF IInv, Generations
  <2> QED BY <2>1, <2>7, <2>8, <2>9 DEF IInv, TypeOK, Generations
<1>4. ASSUME NEW p \in Procs, Publish(p) PROVE Generations'
  <2>1. Mine(p) \in Records /\ Owner(Mine(p)) = p /\ Mine(p)[2] = call[p] /\ Mine(p) # None
    BY <1>4, Calling DEF Publish
  <2>2. Mine(p) \notin published /\ published \subseteq Records
    BY <1>4 DEF IInv, TypeOK, Generations, Owning, Publish
  <2>3. CASE path = None
    <3>1. path' = Mine(p) /\ published' = published \union {Mine(p)} /\ pc' = [pc EXCEPT ![p] = "held"] /\ UNCHANGED <<call, previous>>
      BY <1>4, <2>3 DEF Publish, Publishing
    <3>2. \A r \in Records : previous[r] # Mine(p)
      BY <2>1, <2>2 DEF IInv, Generations
    <3>3. \A q \in Procs : q # p => Mine(q) # Mine(p)
      BY DEF Mine
    <3>4. call[p] \in Nat
      BY DEF IInv, TypeOK
    <3>5. \A q \in Procs : Mine(q)' = Mine(q)
      BY <3>1 DEF Mine
    <3>6. \A q \in Procs : q # p => pc'[q] = pc[q]
      BY <3>1 DEF IInv, TypeOK
    <3>7. pc'[p] = "held"
      BY <3>1 DEF IInv, TypeOK
    <3>8. \A r \in published' : r[2] <= call'[Owner(r)] /\ (previous'[r] # None => previous'[r] # path')
      BY <3>1, <3>2, <3>4, <2>1, <2>2 DEF IInv, Generations
    <3>9. \A q \in Procs : pc'[q] \notin Owning \union {"idle"} => Mine(q)' \notin published'
      BY <3>1, <3>3, <3>5, <3>6, <3>7 DEF IInv, Generations, Owning
    <3>10. \A q \in Procs : pc'[q] \in {"publish", "read"} => previous'[Mine(q)'] = None
      BY <3>1, <3>5, <3>6, <3>7 DEF IInv, Generations
    <3> QED BY <3>1, <3>8, <3>9, <3>10 DEF IInv, Generations
  <2>4. CASE path # None
    <3>1. UNCHANGED <<path, published, call, previous>> /\ pc' = [pc EXCEPT ![p] = "read"]
      BY <1>4, <2>4 DEF Publish, Publishing
    <3> QED BY <3>1, <2>2, <1>4 DEF IInv, TypeOK, Generations, Mine, Owning, Publish
  <2> QED BY <2>3, <2>4
<1>5. ASSUME NEW p \in Procs, ReadLock(p) PROVE Generations'
  <2>1. Mine(p) \in Records /\ Owner(Mine(p)) = p /\ Mine(p)[2] = call[p] /\ Mine(p) # None
    BY <1>5, Calling DEF ReadLock
  <2>2. Mine(p) \notin published
    BY <1>5 DEF IInv, Generations, Owning, ReadLock
  <2>3. \A q \in Procs : q # p => Mine(q) # Mine(p)
    BY DEF Mine
  <2>4. CASE path = None
    BY <1>5, <2>4, <2>2 DEF IInv, TypeOK, Generations, Mine, Owning, ReadLock
  <2>5. CASE path # None
    <3>1. previous' = [previous EXCEPT ![Mine(p)] = path] /\ pc' = [pc EXCEPT ![p] = "probe"] /\ UNCHANGED <<path, published, call>>
      BY <1>5, <2>5 DEF ReadLock
    <3>2. \A r \in Records : r # Mine(p) => previous'[r] = previous[r]
      BY <3>1 DEF IInv, TypeOK
    <3>3. previous'[Mine(p)] = path /\ call[p] \in Nat
      BY <3>1, <2>1 DEF IInv, TypeOK
    <3>4. \A q \in Procs : Mine(q)' = Mine(q)
      BY <3>1 DEF Mine
    <3>5. \A q \in Procs : q # p => pc'[q] = pc[q]
      BY <3>1 DEF IInv, TypeOK
    <3>6. pc'[p] = "probe"
      BY <3>1 DEF IInv, TypeOK
    <3>7. \A r \in published' : previous'[r] # None => previous'[r] # path'
      BY <3>1, <3>2, <2>2 DEF IInv, TypeOK, Generations
    <3>8. \A r \in Records : previous'[r] # None => previous'[r] \in published' /\ r[2] <= call'[Owner(r)]
      BY <3>1, <3>2, <3>3, <2>1 DEF IInv, Generations
    <3>9. \A q \in Procs : pc'[q] \notin Owning \union {"idle"} => Mine(q)' \notin published'
      BY <3>1, <3>4, <3>5, <3>6, <2>2 DEF IInv, Generations
    <3>10. \A q \in Procs : pc'[q] \in {"publish", "read"} => Mine(q) \in Records
      BY <3>5, <3>6, Calling
    <3>11. \A q \in Procs : pc'[q] \in {"publish", "read"} => previous'[Mine(q)'] = None
      BY <3>2, <3>4, <3>5, <3>6, <3>10, <2>3 DEF IInv, Generations
    <3> QED BY <3>1, <3>7, <3>8, <3>9, <3>11 DEF IInv, Generations
  <2> QED BY <2>4, <2>5
<1>6. ASSUME NEW p \in Procs, ProbeHolder(p) PROVE Generations'
  <2>1. Mine(p) \in Records /\ Owner(Mine(p)) = p /\ (p \in alive => ~Gone(Mine(p)))
    BY <1>6, Calling DEF ProbeHolder
  <2> QED BY <1>6, <2>1 DEF IInv, TypeOK, Lives, Generations, Mine, Electing, Elected, Cleaning, Reclaiming, Owning, ProbeHolder
<1>7. ASSUME NEW p \in Procs, ElectSelf(p) PROVE Generations'
  <2>1. Mine(p) \in Records /\ Owner(Mine(p)) = p /\ (p \in alive => ~Gone(Mine(p)))
    BY <1>7, Calling DEF ElectSelf
  <2> QED BY <1>7, <2>1 DEF IInv, TypeOK, Lives, Generations, Mine, Electing, Elected, Cleaning, Reclaiming, Owning, ElectSelf, Meets, Crossing
<1>8. ASSUME NEW p \in Procs, ElectRefused(p) PROVE Generations'
  <2>1. Mine(p) \in Records /\ Owner(Mine(p)) = p /\ (p \in alive => ~Gone(Mine(p)))
    BY <1>8, Calling DEF ElectRefused
  <2> QED BY <1>8, <2>1 DEF IInv, TypeOK, Lives, Generations, Mine, Electing, Elected, Cleaning, Reclaiming, Owning, ElectRefused
<1>9. ASSUME NEW p \in Procs, ReadGuard(p) PROVE Generations'
  <2>1. Mine(p) \in Records /\ Owner(Mine(p)) = p /\ (p \in alive => ~Gone(Mine(p)))
    BY <1>9, Calling DEF ReadGuard
  <2> QED BY <1>9, <2>1 DEF IInv, TypeOK, Lives, Generations, Mine, Electing, Elected, Cleaning, Reclaiming, Owning, ReadGuard
<1>10. ASSUME NEW p \in Procs, ProbeGuard(p) PROVE Generations'
  <2>1. Mine(p) \in Records /\ Owner(Mine(p)) = p /\ (p \in alive => ~Gone(Mine(p)))
    BY <1>10, Calling DEF ProbeGuard
  <2> QED BY <1>10, <2>1 DEF IInv, TypeOK, Lives, Generations, Mine, Electing, Elected, Cleaning, Reclaiming, Owning, ProbeGuard, Meets, Crossing
<1>11. ASSUME NEW p \in Procs, Recheck(p) PROVE Generations'
  <2>1. Mine(p) \in Records /\ Owner(Mine(p)) = p /\ (p \in alive => ~Gone(Mine(p)))
    BY <1>11, Calling DEF Recheck
  <2> QED BY <1>11, <2>1 DEF IInv, TypeOK, Lives, Generations, Mine, Electing, Elected, Cleaning, Reclaiming, Owning, Recheck
<1>12. ASSUME NEW p \in Procs, Reprobe(p) PROVE Generations'
  <2>1. Mine(p) \in Records /\ Owner(Mine(p)) = p /\ (p \in alive => ~Gone(Mine(p)))
    BY <1>12, Calling DEF Reprobe
  <2> QED BY <1>12, <2>1 DEF IInv, TypeOK, Lives, Generations, Mine, Electing, Elected, Cleaning, Reclaiming, Owning, Reprobe
<1>13. ASSUME NEW p \in Procs, Unlink(p) PROVE Generations'
  <2>1. Mine(p) \in Records /\ Owner(Mine(p)) = p /\ (p \in alive => ~Gone(Mine(p)))
    BY <1>13, Calling DEF Unlink
  <2> QED BY <1>13, <2>1 DEF IInv, TypeOK, Lives, Generations, Mine, Electing, Elected, Cleaning, Reclaiming, Owning, Unlink
<1>14. ASSUME NEW p \in Procs, Verify(p) PROVE Generations'
  <2>1. Mine(p) \in Records /\ Owner(Mine(p)) = p /\ (p \in alive => ~Gone(Mine(p)))
    BY <1>14, Calling DEF Verify
  <2> QED BY <1>14, <2>1 DEF IInv, TypeOK, Lives, Generations, Mine, Electing, Elected, Cleaning, Reclaiming, Owning, Verify
<1>15. ASSUME NEW p \in Procs, CleanMatch(p) PROVE Generations'
  <2>1. Mine(p) \in Records /\ Owner(Mine(p)) = p /\ (p \in alive => ~Gone(Mine(p)))
    BY <1>15, Calling DEF CleanMatch
  <2> QED BY <1>15, <2>1 DEF IInv, TypeOK, Lives, Generations, Mine, Electing, Elected, Cleaning, Reclaiming, Owning, CleanMatch, CleanNext
<1>16. ASSUME NEW p \in Procs, CleanRemove(p) PROVE Generations'
  <2>1. Mine(p) \in Records /\ Owner(Mine(p)) = p /\ (p \in alive => ~Gone(Mine(p)))
    BY <1>16, Calling DEF CleanRemove
  <2> QED BY <1>16, <2>1 DEF IInv, TypeOK, Lives, Generations, Mine, Electing, Elected, Cleaning, Reclaiming, Owning, CleanRemove, CleanNext
<1>17. ASSUME NEW p \in Procs, Republish(p) PROVE Generations'
  <2>1. Mine(p) \in Records /\ Owner(Mine(p)) = p /\ Mine(p)[2] = call[p] /\ Mine(p) # None
    BY <1>17, Calling DEF Republish
  <2>2. Mine(p) \notin published /\ published \subseteq Records
    BY <1>17 DEF IInv, TypeOK, Generations, Owning, Republish
  <2>3. CASE path = None
    <3>1. path' = Mine(p) /\ published' = published \union {Mine(p)} /\ pc' = [pc EXCEPT ![p] = "held"] /\ UNCHANGED <<call, previous>>
      BY <1>17, <2>3 DEF Republish, Publishing
    <3>2. \A r \in Records : previous[r] # Mine(p)
      BY <2>1, <2>2 DEF IInv, Generations
    <3>3. \A q \in Procs : q # p => Mine(q) # Mine(p)
      BY DEF Mine
    <3>4. call[p] \in Nat
      BY DEF IInv, TypeOK
    <3>5. \A q \in Procs : Mine(q)' = Mine(q)
      BY <3>1 DEF Mine
    <3>6. \A q \in Procs : q # p => pc'[q] = pc[q]
      BY <3>1 DEF IInv, TypeOK
    <3>7. pc'[p] = "held"
      BY <3>1 DEF IInv, TypeOK
    <3>8. \A r \in published' : r[2] <= call'[Owner(r)] /\ (previous'[r] # None => previous'[r] # path')
      BY <3>1, <3>2, <3>4, <2>1, <2>2 DEF IInv, Generations
    <3>9. \A q \in Procs : pc'[q] \notin Owning \union {"idle"} => Mine(q)' \notin published'
      BY <3>1, <3>3, <3>5, <3>6, <3>7 DEF IInv, Generations, Owning
    <3>10. \A q \in Procs : pc'[q] \in {"publish", "read"} => previous'[Mine(q)'] = None
      BY <3>1, <3>5, <3>6, <3>7 DEF IInv, Generations
    <3> QED BY <3>1, <3>8, <3>9, <3>10 DEF IInv, Generations
  <2>4. CASE path # None
    <3>1. UNCHANGED <<path, published, call, previous>> /\ pc' = [pc EXCEPT ![p] = "idle"]
      BY <1>17, <2>4 DEF Republish, Publishing
    <3> QED BY <3>1, <2>2, <1>17 DEF IInv, TypeOK, Generations, Mine, Owning, Republish
  <2> QED BY <2>3, <2>4
<1>18. ASSUME NEW p \in Procs, Reenter(p) PROVE Generations'
  <2>1. Mine(p) \in Records /\ Owner(Mine(p)) = p /\ (p \in alive => ~Gone(Mine(p)))
    BY <1>18, Calling DEF Reenter
  <2> QED BY <1>18, <2>1 DEF IInv, TypeOK, Lives, Generations, Mine, Electing, Elected, Cleaning, Reclaiming, Owning, Reenter
<1>19. ASSUME NEW p \in Procs, Release(p) PROVE Generations'
  <2>1. Mine(p) \in Records /\ Owner(Mine(p)) = p /\ (p \in alive => ~Gone(Mine(p)))
    BY <1>19, Calling DEF Release
  <2> QED BY <1>19, <2>1 DEF IInv, TypeOK, Lives, Generations, Mine, Electing, Elected, Cleaning, Reclaiming, Owning, Release
<1>20. ASSUME NEW p \in Procs, ReleaseMatch(p) PROVE Generations'
  <2>1. Mine(p) \in Records /\ Owner(Mine(p)) = p /\ (p \in alive => ~Gone(Mine(p)))
    BY <1>20, Calling DEF ReleaseMatch
  <2> QED BY <1>20, <2>1 DEF IInv, TypeOK, Lives, Generations, Mine, Electing, Elected, Cleaning, Reclaiming, Owning, ReleaseMatch
<1>21. ASSUME NEW p \in Procs, ReleaseUnlink(p) PROVE Generations'
  <2>1. Mine(p) \in Records /\ Owner(Mine(p)) = p /\ (p \in alive => ~Gone(Mine(p)))
    BY <1>21, Calling DEF ReleaseUnlink
  <2> QED BY <1>21, <2>1 DEF IInv, TypeOK, Lives, Generations, Mine, Electing, Elected, Cleaning, Reclaiming, Owning, ReleaseUnlink
<1>22. CASE UNCHANGED vars
  BY <1>22 DEF IInv, TypeOK, Lives, Generations, Mine, Electing, Elected, Cleaning, Reclaiming, Owning, vars
<1>23. QED
  BY <1>1, <1>2, <1>3, <1>4, <1>5, <1>6, <1>7, <1>8, <1>9, <1>10, <1>11, <1>12, <1>13, <1>14, <1>15, <1>16, <1>17, <1>18, <1>19, <1>20, <1>21, <1>22 DEF Next, Acquiring, Holding

LEMMA GuardsStep ==
    ASSUME IInv, [Next]_vars
    PROVE  Guards'
<1> USE NoneAssumption
<1> USE DEF lockVars, procVars, callVars, history, At, Goto

<1>1. ASSUME NEW p \in Procs, Spawn(p) PROVE Guards'
  BY <1>1 DEF IInv, TypeOK, Guards, Finding, Generations, SameElection, Gone, Previous, Electing, Elected, Cleaning, Reclaiming, Owning, Spawn
<1>2. ASSUME NEW p \in Procs, Die(p) PROVE Guards'
  BY <1>2 DEF IInv, TypeOK, Guards, Finding, Generations, SameElection, Gone, Previous, Electing, Elected, Cleaning, Reclaiming, Owning, Die
<1>3. ASSUME NEW p \in Procs, Start(p) PROVE Guards'
  BY <1>3 DEF IInv, TypeOK, Guards, Finding, Generations, SameElection, Gone, Previous, Electing, Elected, Cleaning, Reclaiming, Owning, Start
<1>4. ASSUME NEW p \in Procs, Publish(p) PROVE Guards'
  <2>1. Mine(p) \in Records /\ Owner(Mine(p)) = p /\ (p \in alive => ~Gone(Mine(p)))
    BY <1>4, Calling DEF Publish
  <2> QED BY <1>4, <2>1 DEF IInv, TypeOK, Guards, Finding, Generations, SameElection, Gone, Previous, Electing, Elected, Cleaning, Reclaiming, Owning, Publish, Publishing
<1>5. ASSUME NEW p \in Procs, ReadLock(p) PROVE Guards'
  <2>1. Mine(p) \in Records /\ Owner(Mine(p)) = p /\ (p \in alive => ~Gone(Mine(p)))
    BY <1>5, Calling DEF ReadLock
  <2> QED BY <1>5, <2>1 DEF IInv, TypeOK, Guards, Finding, Generations, SameElection, Gone, Previous, Electing, Elected, Cleaning, Reclaiming, Owning, ReadLock
<1>6. ASSUME NEW p \in Procs, ProbeHolder(p) PROVE Guards'
  <2>1. Mine(p) \in Records /\ Owner(Mine(p)) = p /\ (p \in alive => ~Gone(Mine(p)))
    BY <1>6, Calling DEF ProbeHolder
  <2> QED BY <1>6, <2>1 DEF IInv, TypeOK, Guards, Finding, Generations, SameElection, Gone, Previous, Electing, Elected, Cleaning, Reclaiming, Owning, ProbeHolder
<1>7. ASSUME NEW p \in Procs, ElectSelf(p) PROVE Guards'
  <2>1. Mine(p) \in Records /\ Owner(Mine(p)) = p /\ Mine(p) # None
    BY <1>7, Calling DEF ElectSelf
  <2>2. target[p] \in Records /\ Gone(target[p]) /\ previous[Mine(p)] # None
    BY <1>7 DEF IInv, TypeOK, Finding, Electing, Reclaiming, ElectSelf, Previous
  <2>3. guard' = [guard EXCEPT ![target[p]] = Mine(p)] /\ UNCHANGED <<previous, published, gone>>
    BY <1>7 DEF ElectSelf
  <2>4. ~crossed' => SameElection(target[p], Mine(p))
    <3>1. ~crossed' => ~crossed /\ (target[p] \notin published \/ target[p] = Previous(p))
      BY <1>7 DEF ElectSelf, Crossing
    <3>2. ~crossed /\ target[p] # Previous(p) => previous[target[p]] = Previous(p)
      BY <1>7 DEF IInv, Finding, Electing, ElectSelf
    <3> QED BY <3>1, <3>2 DEF SameElection, Previous
  <2>5. ~crossed' => ~crossed
    BY <1>7 DEF ElectSelf, Crossing
  <2> QED BY <2>1, <2>2, <2>3, <2>4, <2>5 DEF IInv, TypeOK, Guards, SameElection, Gone
<1>8. ASSUME NEW p \in Procs, ElectRefused(p) PROVE Guards'
  <2>1. Mine(p) \in Records /\ Owner(Mine(p)) = p /\ (p \in alive => ~Gone(Mine(p)))
    BY <1>8, Calling DEF ElectRefused
  <2> QED BY <1>8, <2>1 DEF IInv, TypeOK, Guards, Finding, Generations, SameElection, Gone, Previous, Electing, Elected, Cleaning, Reclaiming, Owning, ElectRefused
<1>9. ASSUME NEW p \in Procs, ReadGuard(p) PROVE Guards'
  <2>1. Mine(p) \in Records /\ Owner(Mine(p)) = p /\ (p \in alive => ~Gone(Mine(p)))
    BY <1>9, Calling DEF ReadGuard
  <2> QED BY <1>9, <2>1 DEF IInv, TypeOK, Guards, Finding, Generations, SameElection, Gone, Previous, Electing, Elected, Cleaning, Reclaiming, Owning, ReadGuard
<1>10. ASSUME NEW p \in Procs, ProbeGuard(p) PROVE Guards'
  <2>1. Mine(p) \in Records /\ Owner(Mine(p)) = p /\ (p \in alive => ~Gone(Mine(p)))
    BY <1>10, Calling DEF ProbeGuard
  <2> QED BY <1>10, <2>1 DEF IInv, TypeOK, Guards, Finding, Generations, SameElection, Gone, Previous, Electing, Elected, Cleaning, Reclaiming, Owning, ProbeGuard, Meets, Crossing
<1>11. ASSUME NEW p \in Procs, Recheck(p) PROVE Guards'
  <2>1. Mine(p) \in Records /\ Owner(Mine(p)) = p /\ (p \in alive => ~Gone(Mine(p)))
    BY <1>11, Calling DEF Recheck
  <2> QED BY <1>11, <2>1 DEF IInv, TypeOK, Guards, Finding, Generations, SameElection, Gone, Previous, Electing, Elected, Cleaning, Reclaiming, Owning, Recheck
<1>12. ASSUME NEW p \in Procs, Reprobe(p) PROVE Guards'
  <2>1. Mine(p) \in Records /\ Owner(Mine(p)) = p /\ (p \in alive => ~Gone(Mine(p)))
    BY <1>12, Calling DEF Reprobe
  <2> QED BY <1>12, <2>1 DEF IInv, TypeOK, Guards, Finding, Generations, SameElection, Gone, Previous, Electing, Elected, Cleaning, Reclaiming, Owning, Reprobe
<1>13. ASSUME NEW p \in Procs, Unlink(p) PROVE Guards'
  <2>1. Mine(p) \in Records /\ Owner(Mine(p)) = p /\ (p \in alive => ~Gone(Mine(p)))
    BY <1>13, Calling DEF Unlink
  <2> QED BY <1>13, <2>1 DEF IInv, TypeOK, Guards, Finding, Generations, SameElection, Gone, Previous, Electing, Elected, Cleaning, Reclaiming, Owning, Unlink
<1>14. ASSUME NEW p \in Procs, Verify(p) PROVE Guards'
  <2>1. Mine(p) \in Records /\ Owner(Mine(p)) = p /\ (p \in alive => ~Gone(Mine(p)))
    BY <1>14, Calling DEF Verify
  <2> QED BY <1>14, <2>1 DEF IInv, TypeOK, Guards, Finding, Generations, SameElection, Gone, Previous, Electing, Elected, Cleaning, Reclaiming, Owning, Verify
<1>15. ASSUME NEW p \in Procs, CleanMatch(p) PROVE Guards'
  <2>1. Mine(p) \in Records /\ Owner(Mine(p)) = p /\ (p \in alive => ~Gone(Mine(p)))
    BY <1>15, Calling DEF CleanMatch
  <2> QED BY <1>15, <2>1 DEF IInv, TypeOK, Guards, Finding, Generations, SameElection, Gone, Previous, Electing, Elected, Cleaning, Reclaiming, Owning, CleanMatch, CleanNext
<1>16. ASSUME NEW p \in Procs, CleanRemove(p) PROVE Guards'
  <2>1. Mine(p) \in Records /\ Owner(Mine(p)) = p /\ (p \in alive => ~Gone(Mine(p)))
    BY <1>16, Calling DEF CleanRemove
  <2> QED BY <1>16, <2>1 DEF IInv, TypeOK, Guards, Finding, Generations, SameElection, Gone, Previous, Electing, Elected, Cleaning, Reclaiming, Owning, CleanRemove, CleanNext
<1>17. ASSUME NEW p \in Procs, Republish(p) PROVE Guards'
  <2>1. Mine(p) \in Records /\ Owner(Mine(p)) = p /\ (p \in alive => ~Gone(Mine(p)))
    BY <1>17, Calling DEF Republish
  <2> QED BY <1>17, <2>1 DEF IInv, TypeOK, Guards, Finding, Generations, SameElection, Gone, Previous, Electing, Elected, Cleaning, Reclaiming, Owning, Republish, Publishing
<1>18. ASSUME NEW p \in Procs, Reenter(p) PROVE Guards'
  <2>1. Mine(p) \in Records /\ Owner(Mine(p)) = p /\ (p \in alive => ~Gone(Mine(p)))
    BY <1>18, Calling DEF Reenter
  <2> QED BY <1>18, <2>1 DEF IInv, TypeOK, Guards, Finding, Generations, SameElection, Gone, Previous, Electing, Elected, Cleaning, Reclaiming, Owning, Reenter
<1>19. ASSUME NEW p \in Procs, Release(p) PROVE Guards'
  <2>1. Mine(p) \in Records /\ Owner(Mine(p)) = p /\ (p \in alive => ~Gone(Mine(p)))
    BY <1>19, Calling DEF Release
  <2> QED BY <1>19, <2>1 DEF IInv, TypeOK, Guards, Finding, Generations, SameElection, Gone, Previous, Electing, Elected, Cleaning, Reclaiming, Owning, Release
<1>20. ASSUME NEW p \in Procs, ReleaseMatch(p) PROVE Guards'
  <2>1. Mine(p) \in Records /\ Owner(Mine(p)) = p /\ (p \in alive => ~Gone(Mine(p)))
    BY <1>20, Calling DEF ReleaseMatch
  <2> QED BY <1>20, <2>1 DEF IInv, TypeOK, Guards, Finding, Generations, SameElection, Gone, Previous, Electing, Elected, Cleaning, Reclaiming, Owning, ReleaseMatch
<1>21. ASSUME NEW p \in Procs, ReleaseUnlink(p) PROVE Guards'
  <2>1. Mine(p) \in Records /\ Owner(Mine(p)) = p /\ (p \in alive => ~Gone(Mine(p)))
    BY <1>21, Calling DEF ReleaseUnlink
  <2> QED BY <1>21, <2>1 DEF IInv, TypeOK, Guards, Finding, Generations, SameElection, Gone, Previous, Electing, Elected, Cleaning, Reclaiming, Owning, ReleaseUnlink
<1>22. CASE UNCHANGED vars
  BY <1>22 DEF IInv, TypeOK, Guards, Finding, Generations, SameElection, Gone, Previous, Electing, Elected, Cleaning, Reclaiming, Owning, vars
<1>23. QED
  BY <1>1, <1>2, <1>3, <1>4, <1>5, <1>6, <1>7, <1>8, <1>9, <1>10, <1>11, <1>12, <1>13, <1>14, <1>15, <1>16, <1>17, <1>18, <1>19, <1>20, <1>21, <1>22 DEF Next, Acquiring, Holding

-----------------------------------------------------------------------------
\* What p does changes nothing of what another process knows.
Step(p) ==
    Spawn(p) \/ Die(p) \/ Start(p) \/ Acquiring(p) \/ Holding(p)

Same(q) ==
    /\ pc'[q] = pc[q] /\ call'[q] = call[q] /\ depth'[q] = depth[q]
    /\ target'[q] = target[q] /\ seen'[q] = seen[q] /\ links'[q] = links[q]

LEMMA OthersSame ==
    ASSUME IInv, NEW p \in Procs, Step(p), NEW q \in Procs, q # p
    PROVE  Same(q)
<1> USE DEF lockVars, procVars, callVars, history, Goto, IInv, TypeOK, Same
<1>1. CASE Spawn(p) \/ Die(p) \/ Start(p)
  BY <1>1 DEF Spawn, Die, Start
<1>2. CASE Publish(p) \/ ReadLock(p) \/ ProbeHolder(p)
  BY <1>2 DEF Publish, Publishing, ReadLock, ProbeHolder
<1>3. CASE ElectSelf(p) \/ ElectRefused(p) \/ ReadGuard(p) \/ ProbeGuard(p)
  BY <1>3 DEF ElectSelf, ElectRefused, ReadGuard, ProbeGuard, Meets
<1>4. CASE Recheck(p) \/ Reprobe(p) \/ Unlink(p) \/ Verify(p)
  BY <1>4 DEF Recheck, Reprobe, Unlink, Verify
<1>5. CASE CleanMatch(p) \/ CleanRemove(p) \/ Republish(p)
  BY <1>5 DEF CleanMatch, CleanRemove, CleanNext, Republish, Publishing
<1>6. CASE Holding(p)
  BY <1>6 DEF Holding, Reenter, Release, ReleaseMatch, ReleaseUnlink
<1> QED BY <1>1, <1>2, <1>3, <1>4, <1>5, <1>6 DEF Step, Acquiring

\* A guard that is cleaned is not in the chain of the lock.
LEMMA CleanedOutside ==
    ASSUME IInv, ~crossed, path # None, NEW p \in Procs, pc[p] = "remove"
    PROVE  /\ target[p] \in Records /\ target[p] # path /\ previous[target[p]] # path
           /\ guard[target[p]] # None => previous[guard[target[p]]] # path
<1>1. target[p] \in Records /\ Previous(p) # None /\ path # Previous(p) /\ links[p][target[p]] # None
  BY DEF IInv, TypeOK, Finding, Way, Reclaiming, Cleaning
<1>2. target[p] = Previous(p) \/ (previous[target[p]] = Previous(p) /\ target[p] \notin published)
  BY <1>1 DEF IInv, Way, Reclaiming, Cleaning
<1>3. Mine(p) \in Records
  BY Calling
<1>4. Previous(p) \in published
  BY <1>1, <1>3 DEF IInv, Generations, Previous
<1>5. target[p] # path
  BY <1>1, <1>2, NoneAssumption DEF IInv, Generations
<1>6. previous[target[p]] # path
  BY <1>1, <1>2, <1>4 DEF IInv, Generations
<1>7. ASSUME guard[target[p]] # None PROVE previous[guard[target[p]]] # path
  BY <1>1, <1>5, <1>6, <1>7 DEF IInv, Guards, SameElection
<1> QED BY <1>1, <1>5, <1>6, <1>7

\* As long as there is the same lock, its chain only grows.
LEMMA ChainKept ==
    ASSUME IInv, [Next]_vars, ~crossed, path # None, path' = path,
           NEW r \in Records, InChain(r)
    PROVE  InChain(r)'
<1> USE DEF lockVars, procVars, callVars, history, At
<1>1. previous'[r] = path \/ r = path
  BY GrowsStep DEF Grows, InChain
<1>2. CASE r = path
  BY <1>2 DEF InChain
<1>3. CASE r # path
  <2>1. PICK u \in Records : guard[u] = r
    BY <1>3 DEF InChain
  <2>2. previous[r] = path
    BY <1>3 DEF InChain
  <2>3. guard'[u] = r
    <3>1. CASE guard' = guard
      BY <2>1, <3>1
    <3>2. ASSUME NEW p \in Procs, ElectSelf(p) PROVE guard'[u] = r
      <4>1. u # target[p] /\ guard' = [guard EXCEPT ![target[p]] = Mine(p)]
        BY <3>2, <2>1, NoneAssumption DEF ElectSelf, IInv, TypeOK
      <4> QED BY <4>1, <2>1 DEF IInv, TypeOK
    <3>3. ASSUME NEW p \in Procs, CleanRemove(p) PROVE guard'[u] = r
      <4>1. pc[p] = "remove" /\ guard' = [guard EXCEPT ![target[p]] = None]
        BY <3>3 DEF CleanRemove
      <4>2. u # target[p]
        BY <4>1, <2>1, <2>2, CleanedOutside, NoneAssumption
      <4> QED BY <4>1, <4>2, <2>1 DEF IInv, TypeOK
    <3>4. guard' = guard \/ \E p \in Procs : ElectSelf(p) \/ CleanRemove(p)
      BY DEF Next, Acquiring, Holding, vars, Spawn, Die, Start, Publish, ReadLock,
             ProbeHolder, ElectRefused, ReadGuard, ProbeGuard, Recheck, Reprobe,
             Unlink, Verify, CleanMatch, Republish, Reenter, Release,
             ReleaseMatch, ReleaseUnlink
    <3> QED BY <3>1, <3>2, <3>3, <3>4
  <2> QED BY <1>1, <1>3, <2>3 DEF InChain
<1> QED BY <1>2, <1>3

\* A contender that does nothing keeps what it knows.
LEMMA KeptPrevious ==
    ASSUME IInv, [Next]_vars, NEW q \in Procs, Same(q), pc[q] # "idle"
    PROVE  /\ Mine(q)' = Mine(q)
           /\ Previous(q) # None =>
                /\ Previous(q)' = Previous(q) /\ Previous(q) \in published
                /\ path' = Previous(q) => path' = path
<1>1. Mine(q)' = Mine(q) /\ Mine(q) \in Records
  BY Calling DEF Same, Mine
<1>2. ASSUME Previous(q) # None PROVE Previous(q)' = Previous(q) /\ Previous(q) \in published
  BY <1>1, <1>2, GrowsStep DEF Grows, Previous, IInv, Generations
<1> QED BY <1>1, <1>2, GrowsStep DEF Grows

LEMMA FindingKept ==
    ASSUME IInv, [Next]_vars, NEW q \in Procs, Same(q)
    PROVE  Finding(q)'
<1>1. CASE pc[q] \notin Reclaiming
  <2>1. pc[q] = "probe" => Previous(q) # None /\ Previous(q)' = Previous(q)
    BY KeptPrevious DEF IInv, Finding
  <2> QED BY <1>1, <2>1 DEF Same, Finding, Reclaiming, Electing
<1>2. CASE pc[q] \in Reclaiming
  <2>1. pc[q] # "idle" /\ Previous(q) # None /\ Gone(Previous(q)) /\ target[q] \in Records
    BY <1>2 DEF IInv, TypeOK, Finding, Reclaiming, Electing, Elected, Cleaning
  <2>2. Previous(q)' = Previous(q) /\ Previous(q) \in published /\ (path' = Previous(q) => path' = path)
    BY <2>1, KeptPrevious
  <2>3. ASSUME NEW r \in Records, Gone(r) PROVE Gone(r)'
    BY <2>3, GrowsStep DEF Grows, Gone
  <2>4. Previous(q) \in Records
    BY <2>2 DEF IInv, TypeOK
  <2>5. (Previous(q) # None /\ Gone(Previous(q)) /\ target[q] # None)'
    <3>1. PICK r \in Records : r = Previous(q)
      BY <2>4
    <3>2. Gone(r)'
      BY <2>1, <2>3, <3>1
    <3> QED BY <2>1, <2>2, <3>1, <3>2, NoneAssumption DEF Same, Gone
  <2>6. ASSUME pc[q] \in Electing
        PROVE (/\ Gone(target[q])
               /\ ~crossed /\ target[q] # Previous(q) =>
                    /\ previous[target[q]] = Previous(q)
                    /\ path = Previous(q) => InChain(target[q]))'
    <3>1. Gone(target[q])'
      BY <2>6, <2>1, <2>3 DEF IInv, Finding, Gone, Same
    <3>0. PICK t \in Records : t = target[q]
      BY <2>1
    <3>2. ASSUME ~crossed', t # Previous(q)
          PROVE  previous'[t] = Previous(q) /\ (path' = Previous(q) => InChain(t)')
      <4>1. ~crossed /\ previous[t] = Previous(q) /\ (path = Previous(q) => InChain(t))
        BY <3>0, <3>2, <2>6, GrowsStep DEF Grows, IInv, Finding
      <4> QED BY <4>1, <2>1, <2>2, GrowsStep, ChainKept DEF Grows
    <3> QED BY <3>0, <3>1, <3>2, <2>2 DEF Same, InChain
  <2>7. ASSUME pc[q] = "probeGuard"
        PROVE (/\ seen[q] # None /\ previous[seen[q]] # None
               /\ ~crossed =>
                    /\ SameElection(target[q], seen[q])
                    /\ path = previous[seen[q]] /\ path = Previous(q) => InChain(seen[q]))'
    <3>0. PICK t \in Records, s \in Records : t = target[q] /\ s = seen[q]
      BY <2>1, <2>7 DEF IInv, TypeOK, Finding
    <3>1. previous[s] # None /\ Gone(t)
      BY <3>0, <2>7 DEF IInv, Finding, Electing
    <3>2. previous'[s] = previous[s] /\ previous[s] \in published
      BY <3>1, GrowsStep DEF Grows, IInv, Generations
    <3>3. ASSUME ~crossed'
          PROVE  (t = previous[s] \/ (previous'[t] = previous[s] /\ t \notin published'))
                 /\ (path' = previous[s] /\ path' = Previous(q) => InChain(s)')
      <4>1. ~crossed /\ SameElection(t, s)
            /\ (path = previous[s] /\ path = Previous(q) => InChain(s))
        BY <3>0, <3>3, <2>7, GrowsStep DEF Grows, IInv, Finding
      <4>2. path' = Previous(q) => path' = path /\ path # None
        BY <2>1, <2>2
      <4>3. path' = previous[s] /\ path' = Previous(q) => InChain(s)'
        BY <4>1, <4>2, ChainKept
      <4>4. t = previous[s] \/ (previous'[t] = previous[s] /\ t \notin published')
        BY <4>1, <3>1, GrowsStep DEF Grows, SameElection
      <4> QED BY <4>3, <4>4
    <3>4. target'[q] = t /\ seen'[q] = s /\ s # None
      BY <3>0, NoneAssumption DEF Same
    <3>5. ~crossed' => SameElection(t, s)'
      BY <3>2, <3>3 DEF SameElection
    <3> HIDE DEF InChain
    <3>6. ~crossed' /\ path' = previous'[s] /\ path' = Previous(q)' => InChain(s)'
      BY <3>2, <3>3, <2>2
    <3> QED BY <3>1, <3>2, <3>4, <3>5, <3>6 DEF SameElection, InChain
  <2>8. (pc[q] = "probe" => Previous(q) # None)'
    BY <2>1, <2>2 DEF Same
  <2> QED BY <2>5, <2>6, <2>7, <2>8, <1>2 DEF Finding, Same
<1> QED BY <1>1, <1>2

LEMMA WayKept ==
    ASSUME IInv, [Next]_vars, NEW q \in Procs, Same(q)
    PROVE  Way(q)'
<1>1. CASE pc[q] \notin Reclaiming
  BY <1>1 DEF Same, Way, Reclaiming, Electing, Elected, Cleaning
<1>2. CASE pc[q] \in Reclaiming
  <2>1. pc[q] # "idle" /\ Previous(q) # None
    BY <1>2 DEF IInv, Finding, Reclaiming, Electing, Elected, Cleaning
  <2>2. Previous(q)' = Previous(q) /\ Mine(q)' = Mine(q) /\ (path' = Previous(q) => path' = path)
    BY <2>1, KeptPrevious
  <2>3. ASSUME NEW r \in Records, links[q][r] # None
        PROVE  (/\ Gone(r)
                /\ ~crossed =>
                     r = Previous(q) \/ (previous[r] = Previous(q) /\ r \notin published)
                /\ links[q][r] = Mine(q) \/ links[q][links[q][r]] # None
                     \/ (links[q][r] = target[q] /\ pc[q] \in Electing))'
    <3>1. /\ Gone(r)
          /\ ~crossed => r = Previous(q) \/ (previous[r] = Previous(q) /\ r \notin published)
          /\ links[q][r] = Mine(q) \/ links[q][links[q][r]] # None
               \/ (links[q][r] = target[q] /\ pc[q] \in Electing)
      BY <1>2, <2>3 DEF IInv, Way
    <3>2. Gone(r)'
      BY <3>1, GrowsStep DEF Grows, Gone
    <3>3. ~crossed' => r = Previous(q) \/ (previous'[r] = Previous(q) /\ r \notin published')
      BY <3>1, <2>1, GrowsStep DEF Grows
    <3> QED BY <3>1, <3>2, <3>3, <2>2 DEF Same
  <2> QED BY <1>2, <2>2, <2>3 DEF IInv, Way, Same
<1> QED BY <1>1, <1>2

LEMMA ElectionKept ==
    ASSUME IInv, NEW p \in Procs, Step(p), [Next]_vars,
           NEW q \in Procs, q # p, Same(q)
    PROVE  Election(q)'
<1> USE DEF lockVars, procVars, callVars, history, At
<1> SUFFICES ASSUME (q \in alive /\ ~crossed)', pc[q] # "idle" PROVE Election(q)'
  BY DEF Election, Same, Elected, Owning
<1>1. ~crossed /\ q \in alive
  BY GrowsStep, OthersSame DEF Grows, Step, IInv, Lives, Spawn, Die, Start, Acquiring, Holding,
     Publish, ReadLock, ProbeHolder, ElectSelf, ElectRefused, ReadGuard, ProbeGuard,
     Recheck, Reprobe, Unlink, Verify, CleanMatch, CleanRemove, Republish,
     Reenter, Release, ReleaseMatch, ReleaseUnlink
<1>2. Mine(q)' = Mine(q) /\ Mine(q) \in Records /\ Mine(q) # None /\ ~Gone(Mine(q)) /\ Owner(Mine(q)) = q
  BY <1>1, Calling, KeptPrevious
<1>3. ASSUME pc[q] \in Elected, path' = Previous(q)' PROVE InChain(Mine(q))'
  <2>1. Previous(q) # None
    BY <1>3 DEF IInv, Finding, Reclaiming, Elected
  <2>2. path = Previous(q) /\ path' = path /\ path # None
    BY <1>3, <2>1, KeptPrevious
  <2>3. InChain(Mine(q))
    BY <1>1, <1>3, <2>2 DEF IInv, Election
  <2> QED BY <2>2, <2>3, <1>1, <1>2, ChainKept DEF InChain
<1>4. path' = path \/ (path = None) \/ Unlink(p) \/ ReleaseUnlink(p)
  BY DEF Step, Spawn, Die, Start, Acquiring, Holding,
     Publish, Publishing, ReadLock, ProbeHolder, ElectSelf, ElectRefused, ReadGuard, ProbeGuard,
     Recheck, Reprobe, Verify, CleanMatch, CleanRemove, Republish,
     Reenter, Release, ReleaseMatch
<1>5. ASSUME pc[q] \in {"reprobe", "unlink"} PROVE path' = Previous(q)'
  <2>1. Previous(q) # None /\ Previous(q)' = Previous(q) /\ path = Previous(q) /\ Gone(Previous(q))
    BY <1>1, <1>5, KeptPrevious DEF IInv, Finding, Election, Reclaiming, Elected
  <2>2. ~Unlink(p)
    <3> SUFFICES ASSUME Unlink(p) PROVE FALSE
      OBVIOUS
    <3>1. p \in alive /\ pc[p] = "unlink"
      BY DEF Unlink
    <3>2. path = Previous(p) /\ Mine(p) \in Records /\ ~Gone(Mine(p))
      BY <3>1, <1>1, Calling DEF IInv, Election
    <3>3. InChain(Mine(p)) /\ InChain(Mine(q))
      BY <3>1, <3>2, <2>1, <1>1, <1>5 DEF IInv, Election, Elected
    <3>4. guard[Mine(p)] = None /\ guard[Mine(q)] = None
      BY <3>2, <1>2 DEF IInv, Guards
    <3>5. Mine(p) = Mine(q)
      BY <3>2, <3>3, <3>4, <2>1, <1>1, <1>2 DEF IInv, OneEnd
    <3> QED BY <3>5 DEF Mine
  <2>3. ~ReleaseUnlink(p)
    <3> SUFFICES ASSUME ReleaseUnlink(p) PROVE FALSE
      OBVIOUS
    <3>1. p \in alive /\ pc[p] = "releaseUnlink"
      BY DEF ReleaseUnlink
    <3> QED BY <3>1, <2>1, <1>1, Calling DEF IInv, Election, Owning
  <2> QED BY <2>1, <2>2, <2>3, <1>4
<1>6. ASSUME pc[q] \in Owning PROVE path' = Mine(q)'
  <2>1. path = Mine(q)
    BY <1>1, <1>6 DEF IInv, Election
  <2>2. ~Unlink(p)
    <3> SUFFICES ASSUME Unlink(p) PROVE FALSE
      OBVIOUS
    <3>1. p \in alive /\ pc[p] = "unlink"
      BY DEF Unlink
    <3> QED BY <3>1, <2>1, <1>1, <1>2 DEF IInv, Election, Finding, Reclaiming, Elected
  <2>3. ~ReleaseUnlink(p)
    <3> SUFFICES ASSUME ReleaseUnlink(p) PROVE FALSE
      OBVIOUS
    <3>1. p \in alive /\ pc[p] = "releaseUnlink"
      BY DEF ReleaseUnlink
    <3> QED BY <3>1, <2>1, <1>1 DEF IInv, Election, Owning, Mine
  <2> QED BY <2>1, <2>2, <2>3, <1>2, <1>4
<1> QED BY <1>3, <1>5, <1>6 DEF Election, Same


-----------------------------------------------------------------------------
(* What p learns itself.                                                   *)

\* A contender before and while it follows the guards.
LEMMA OwnPrevious ==
    ASSUME IInv, NEW p \in Procs, pc[p] \in Reclaiming \union {"probe"}
    PROVE  /\ Mine(p) \in Records /\ Mine(p) # None
           /\ Previous(p) \in Records /\ Previous(p) # None /\ Previous(p) \in published
           /\ previous[Mine(p)] = Previous(p)
<1>1. pc[p] # "idle" /\ Previous(p) # None
  BY DEF IInv, Finding, Reclaiming, Electing, Elected, Cleaning
<1> QED BY <1>1, Calling DEF IInv, TypeOK, Generations, Previous

\* The guard that is passed over is one of the lock that p found.
LEMMA PassedOver ==
    ASSUME IInv, NEW p \in Procs, pc[p] \in Electing, ~crossed,
           target[p] \notin published \/ target[p] = Previous(p)
    PROVE  /\ target[p] = Previous(p)
                \/ (previous[target[p]] = Previous(p) /\ target[p] \notin published)
           /\ pc[p] = "probeGuard" => previous[seen[p]] = Previous(p)
<1>1. Previous(p) # None /\ Previous(p) \in published /\ previous[Mine(p)] = Previous(p)
  BY OwnPrevious DEF Reclaiming
<1>2. target[p] # Previous(p) => previous[target[p]] = Previous(p)
  BY DEF IInv, Finding
<1>3. ASSUME pc[p] = "probeGuard" PROVE previous[seen[p]] = Previous(p)
  <2>1. SameElection(target[p], seen[p]) /\ previous[seen[p]] \in published
    BY <1>3 DEF IInv, TypeOK, Finding, Generations
  <2> QED BY <1>1, <1>2, <2>1 DEF SameElection
<1> QED BY <1>2, <1>3

LEMMA OwnFinding ==
    ASSUME IInv, [Next]_vars, NEW p \in Procs, Step(p)
    PROVE  Finding(p)'
<1> USE DEF lockVars, procVars, callVars, history, At, Goto
<1>0. TypeOK' /\ pc \in [Procs -> Stages] /\ target \in [Procs -> Records \union {None}]
  BY TypeStep DEF IInv, TypeOK
<1>1. CASE Spawn(p) \/ Die(p)
  <2>1. Same(p)
    BY <1>1 DEF Spawn, Die, Same
  <2> QED BY <2>1, FindingKept
<1>2. CASE Start(p) \/ Publish(p) \/ Republish(p) \/ Holding(p)
  <2>1. pc'[p] \in {"publish", "read"} \union {"idle"} \union Owning
    BY <1>0, <1>2 DEF Start, Publish, Republish, Publishing, Holding, Reenter, Release,
                      ReleaseMatch, ReleaseUnlink, Owning
  <2> QED BY <2>1 DEF Finding, Reclaiming, Electing, Elected, Cleaning, Owning
<1>3. CASE ReadLock(p)
  <2>1. Mine(p) \in Records /\ Mine(p)' = Mine(p)
    BY <1>3, Calling DEF ReadLock, Mine
  <2>2. pc'[p] = "idle" \/ (pc'[p] = "probe" /\ Previous(p)' # None)
    BY <1>0, <1>3, <2>1 DEF ReadLock, Previous, IInv, TypeOK
  <2> QED BY <2>2 DEF Finding, Reclaiming, Electing, Elected, Cleaning
<1>4. CASE ProbeHolder(p)
  <2>1. Previous(p) \in Records /\ Previous(p) # None /\ Previous(p) \in published
    BY <1>4, OwnPrevious DEF ProbeHolder
  <2>2. Previous(p)' = Previous(p) /\ gone' = gone
    BY <1>4 DEF ProbeHolder, Previous, Mine
  <2>3. CASE PidIsAlive(Previous(p))
    <3>1. pc'[p] = "idle"
      BY <1>0, <1>4, <2>3 DEF ProbeHolder
    <3> QED BY <3>1 DEF Finding, Reclaiming, Electing, Elected, Cleaning
  <2>4. CASE ~PidIsAlive(Previous(p))
    <3>1. pc'[p] = "elect" /\ target'[p] = Previous(p)
      BY <1>0, <1>4, <2>4 DEF ProbeHolder
    <3>2. Gone(Previous(p))
      BY <2>1, <2>4, DeadOwner DEF IInv, Generations
    <3>3. Gone(Previous(p))' /\ Gone(target[p])'
      BY <2>2, <3>1, <3>2 DEF Gone, Owner
    <3> QED BY <2>1, <2>2, <3>1, <3>3, NoneAssumption DEF Finding
  <2> QED BY <2>3, <2>4
<1>5. CASE ElectSelf(p) \/ ElectRefused(p) \/ Recheck(p) \/ Reprobe(p) \/ Unlink(p)
  <2>1. Previous(p)' = Previous(p) /\ target' = target /\ gone' = gone /\ previous' = previous
        /\ path' \in {path, None}
    BY <1>5 DEF ElectSelf, ElectRefused, Recheck, Reprobe, Unlink, Previous, Mine
  <2>2. pc'[p] \in {"idle", "verify"} \union Elected \/ (ElectRefused(p) /\ pc'[p] = "readGuard")
    BY <1>0, <1>5 DEF ElectSelf, ElectRefused, Recheck, Reprobe, Unlink, Elected
  <2>3. pc[p] \in Reclaiming
    BY <1>5 DEF ElectSelf, ElectRefused, Recheck, Reprobe, Unlink, Reclaiming, Electing, Elected
  <2>4. (Previous(p) # None /\ Gone(Previous(p)) /\ target[p] # None)'
    BY <2>1, <2>3 DEF IInv, Finding, Gone, Owner
  <2>5. CASE pc'[p] \in {"idle", "verify"} \union Elected
    BY <2>4, <2>5 DEF Finding, Electing, Elected
  <2>6. CASE ElectRefused(p) /\ pc'[p] = "readGuard"
    <3>1. guard' = guard /\ path' = path /\ crossed' = crossed /\ pc[p] \in Electing
      BY <2>6 DEF ElectRefused, Electing
    <3> QED BY <2>1, <2>4, <2>6, <3>1 DEF IInv, Finding, Gone, Owner, InChain, Electing
  <2> QED BY <2>2, <2>5, <2>6
<1>6. CASE ReadGuard(p)
  <2>1. UNCHANGED <<gone, path, guard, previous, target, published, crossed>>
        /\ Previous(p)' = Previous(p) /\ pc[p] \in Electing
    BY <1>6 DEF ReadGuard, Previous, Mine, Electing
  <2>2. target[p] \in Records /\ Previous(p) # None /\ Gone(Previous(p)) /\ Gone(target[p])
    BY <2>1 DEF IInv, TypeOK, Finding, Reclaiming
  <2>3. pc'[p] = (IF guard[target[p]] = None THEN "idle" ELSE "probeGuard")
        /\ seen'[p] = guard[target[p]]
    BY <1>0, <1>6 DEF ReadGuard, IInv, TypeOK
  <2>4. CASE guard[target[p]] = None
    BY <2>3, <2>4 DEF Finding, Reclaiming, Electing, Elected, Cleaning
  <2>5. CASE guard[target[p]] # None
    <3>1. previous[guard[target[p]]] # None /\ (~crossed => SameElection(target[p], guard[target[p]]))
          /\ guard[target[p]] \in Records
      BY <2>2, <2>5 DEF IInv, TypeOK, Guards
    <3>2. (pc[p] \in Electing =>
             /\ Gone(target[p])
             /\ ~crossed /\ target[p] # Previous(p) =>
                  /\ previous[target[p]] = Previous(p)
                  /\ path = Previous(p) => InChain(target[p]))'
      BY <2>1 DEF IInv, Finding, Gone, Owner, InChain
    <3>3. path = previous[guard[target[p]]] => InChain(guard[target[p]])
      BY <2>2 DEF InChain
    <3>4. pc'[p] = "probeGuard"
      BY <2>3, <2>5
    <3>5. (seen[p] # None /\ previous[seen[p]] # None)' /\ (~crossed' => SameElection(target[p], seen[p])')
          /\ (path' = previous'[seen'[p]] => InChain(seen[p])')
      BY <2>1, <2>3, <2>5, <3>1, <3>3 DEF SameElection, InChain
    <3>6. (Previous(p) # None /\ Gone(Previous(p)) /\ target[p] # None)'
      BY <2>1, <2>2, NoneAssumption DEF Gone, Owner
    <3> QED BY <3>2, <3>4, <3>5, <3>6 DEF Finding
  <2> QED BY <2>4, <2>5
<1>7. CASE ProbeGuard(p)
  <2>1. UNCHANGED <<gone, path, guard, previous, published>> /\ Previous(p)' = Previous(p)
        /\ pc[p] = "probeGuard" /\ pc[p] \in Electing
    BY <1>7 DEF ProbeGuard, Previous, Mine, Electing
  <2>2. Previous(p) # None /\ Gone(Previous(p)) /\ seen[p] \in Records /\ previous[seen[p]] # None
    BY <2>1 DEF IInv, TypeOK, Finding, Reclaiming
  <2>3. CASE PidIsAlive(seen[p])
    <3>1. pc'[p] = "idle"
      BY <1>0, <1>7, <2>3 DEF ProbeGuard
    <3> QED BY <3>1 DEF Finding, Reclaiming, Electing, Elected, Cleaning
  <2>4. CASE ~PidIsAlive(seen[p])
    <3>1. pc'[p] = "elect" /\ target'[p] = seen[p]
      BY <1>0, <1>7, <2>4 DEF ProbeGuard
    <3>2. Gone(seen[p])
      BY <2>2, <2>4, DeadOwner DEF IInv, Generations
    <3>3. (Previous(p) # None /\ Gone(Previous(p)) /\ target[p] # None /\ Gone(target[p]))'
      BY <2>1, <2>2, <3>1, <3>2, NoneAssumption DEF Gone, Owner
    <3>4. ASSUME ~crossed'
          PROVE  previous[seen[p]] = Previous(p) /\ (path = Previous(p) => InChain(seen[p]))
      <4>1. ~crossed /\ (target[p] \notin published \/ target[p] = Previous(p))
        BY <1>7, <2>4, <3>4 DEF ProbeGuard, Crossing
      <4>2. previous[seen[p]] = Previous(p)
        BY <2>1, <4>1, PassedOver
      <4> QED BY <2>1, <4>1, <4>2 DEF IInv, Finding
    <3>5. (~crossed /\ target[p] # Previous(p) =>
              /\ previous[target[p]] = Previous(p)
              /\ path = Previous(p) => InChain(target[p]))'
      BY <2>1, <3>1, <3>4 DEF InChain
    <3> QED BY <3>1, <3>3, <3>5 DEF Finding
  <2> QED BY <2>3, <2>4
<1>8. CASE Verify(p) \/ CleanMatch(p) \/ CleanRemove(p)
  <2>1. Previous(p)' = Previous(p) /\ gone' = gone /\ pc[p] \in Reclaiming
    BY <1>8 DEF Verify, CleanMatch, CleanRemove, Previous, Mine, Reclaiming, Cleaning
  <2>2. Previous(p) # None /\ Gone(Previous(p)) /\ target[p] # None
        /\ (pc[p] \in Cleaning => links[p][target[p]] # None)
    BY <2>1 DEF IInv, Finding, Way
  <2>3. pc'[p] \in {"republish"} \union Cleaning
    BY <1>0, <1>8 DEF Verify, CleanMatch, CleanRemove, CleanNext, Cleaning
  <2>4. target'[p] # None
    BY <1>0, <1>8, <2>2 DEF Verify, CleanMatch, CleanRemove, CleanNext, Cleaning
  <2> QED BY <2>1, <2>2, <2>3, <2>4 DEF Finding, Gone, Owner, Electing, Cleaning
<1> QED BY <1>1, <1>2, <1>3, <1>4, <1>5, <1>6, <1>7, <1>8 DEF Step, Acquiring


LEMMA OwnWay ==
    ASSUME IInv, [Next]_vars, NEW p \in Procs, Step(p)
    PROVE  Way(p)'
<1> USE DEF lockVars, procVars, callVars, history, At, Goto
<1>0. pc \in [Procs -> Stages] /\ target \in [Procs -> Records \union {None}]
      /\ links \in [Procs -> [Records -> Records \union {None}]]
  BY DEF IInv, TypeOK
<1> DEFINE Passed(r) ==
      links[p][r] # None =>
        /\ Gone(r)
        /\ ~crossed =>
             r = Previous(p) \/ (previous[r] = Previous(p) /\ r \notin published)
        /\ links[p][r] = Mine(p) \/ links[p][links[p][r]] # None
             \/ (links[p][r] = target[p] /\ pc[p] \in Electing)
<1>1. CASE Spawn(p) \/ Die(p)
  <2>1. Same(p)
    BY <1>1 DEF Spawn, Die, Same
  <2> QED BY <2>1, WayKept
<1>2. CASE Start(p) \/ Publish(p) \/ ReadLock(p) \/ Republish(p) \/ Holding(p)
  <2>1. pc'[p] \in {"publish", "read", "probe", "idle"} \union Owning
    BY <1>0, <1>2 DEF Start, Publish, ReadLock, Republish, Publishing, Holding, Reenter,
                      Release, ReleaseMatch, ReleaseUnlink, Owning
  <2> QED BY <2>1 DEF Way, Reclaiming, Electing, Elected, Cleaning, Owning
<1>3. CASE ProbeHolder(p)
  <2>1. CASE PidIsAlive(Previous(p))
    <3>1. pc'[p] = "idle"
      BY <1>0, <1>3, <2>1 DEF ProbeHolder
    <3> QED BY <3>1 DEF Way, Reclaiming, Electing, Elected, Cleaning
  <2>2. CASE ~PidIsAlive(Previous(p))
    <3>1. pc'[p] = "elect" /\ target'[p] = Previous(p) /\ Previous(p)' = Previous(p)
          /\ \A r \in Records : links'[p][r] = None
      BY <1>0, <1>3, <2>2 DEF ProbeHolder, Previous, Mine
    <3> QED BY <3>1 DEF Way, Elected, Cleaning
  <2> QED BY <2>1, <2>2
<1>4. CASE ElectSelf(p) \/ (ProbeGuard(p) /\ ~PidIsAlive(seen[p]))
  <2>1. /\ UNCHANGED <<gone, path, previous, published>> /\ Previous(p)' = Previous(p)
        /\ Mine(p)' = Mine(p) /\ pc[p] \in Electing /\ pc[p] \in Reclaiming
    BY <1>4 DEF ElectSelf, ProbeGuard, Previous, Mine, Electing, Reclaiming
  <2>2. target[p] \in Records /\ Gone(target[p]) /\ Mine(p) # None /\ Previous(p) \in Records
    BY <2>1, OwnPrevious DEF IInv, TypeOK, Finding
  <2>3. PICK g \in Records :
          /\ g # None /\ Meets(p, g) /\ Crossing(p)
          /\ \/ g = Mine(p) /\ pc'[p] = "recheck" /\ target' = target
             \/ pc'[p] = "elect" /\ target'[p] = g
    <3>1. CASE ElectSelf(p)
      <4>1. Mine(p) \in Records /\ pc'[p] = "recheck" /\ target' = target
        BY <1>0, <2>1, <3>1, OwnPrevious DEF ElectSelf
      <4> QED BY <2>2, <3>1, <4>1 DEF ElectSelf
    <3>2. CASE ProbeGuard(p) /\ ~PidIsAlive(seen[p])
      <4>1. seen[p] \in Records /\ seen[p] # None
        BY <3>2 DEF ProbeGuard, IInv, TypeOK, Finding
      <4>2. pc'[p] = "elect" /\ target'[p] = seen[p]
        BY <1>0, <3>2 DEF ProbeGuard
      <4> QED BY <3>2, <4>1, <4>2 DEF ProbeGuard
    <3> QED BY <1>4, <3>1, <3>2
  <2>4. links'[p] = [links[p] EXCEPT ![target[p]] = g]
    BY <1>0, <2>3 DEF Meets
  <2>5. /\ links'[p][target[p]] = g
        /\ \A r \in Records : r # target[p] => links'[p][r] = links[p][r]
    BY <1>0, <2>2, <2>4
  <2>6. ~crossed' =>
          ~crossed /\ (target[p] = Previous(p)
                         \/ (previous[target[p]] = Previous(p) /\ target[p] \notin published))
    BY <2>1, <2>3, PassedOver DEF Crossing
  <2>7. links'[p][Previous(p)] # None
    BY <2>1, <2>2, <2>3, <2>5 DEF IInv, Way
  <2>8. ASSUME NEW r \in Records, links'[p][r] # None
        PROVE  /\ Gone(r)
               /\ ~crossed' =>
                    r = Previous(p) \/ (previous[r] = Previous(p) /\ r \notin published)
               /\ links'[p][r] = Mine(p) \/ links'[p][links'[p][r]] # None
                    \/ (links'[p][r] = target'[p] /\ pc'[p] \in Electing)
    <3>1. CASE r = target[p]
      <4>1. links'[p][r] = Mine(p) \/ (links'[p][r] = target'[p] /\ pc'[p] \in Electing)
        BY <3>1, <2>3, <2>5 DEF Electing
      <4> QED BY <3>1, <4>1, <2>2, <2>6
    <3>2. CASE r # target[p]
      <4>1. links'[p][r] = links[p][r] /\ links[p][r] # None /\ links[p][r] \in Records
        BY <1>0, <3>2, <2>5, <2>8
      <4>2. Gone(r) /\ (~crossed => r = Previous(p) \/ (previous[r] = Previous(p) /\ r \notin published))
            /\ (links[p][r] = Mine(p) \/ links[p][links[p][r]] # None \/ links[p][r] = target[p])
        BY <2>1, <4>1 DEF IInv, Way
      <4>3. links[p][r] # Mine(p) => links'[p][links[p][r]] # None
        BY <4>1, <4>2, <2>3, <2>5
      <4> QED BY <4>1, <4>2, <4>3, <2>6
    <3> QED BY <3>1, <3>2
  <2>9. pc'[p] \notin Cleaning
    BY <2>3 DEF Cleaning
  <2> QED BY <2>1, <2>7, <2>8, <2>9 DEF Way, Gone
<1>5. CASE ElectRefused(p) \/ ReadGuard(p) \/ (ProbeGuard(p) /\ PidIsAlive(seen[p]))
           \/ Recheck(p) \/ Reprobe(p) \/ Unlink(p) \/ Verify(p)
           \/ CleanMatch(p) \/ CleanRemove(p)
  <2>1. /\ UNCHANGED <<gone, previous, published, crossed, links>> /\ Previous(p)' = Previous(p)
        /\ Mine(p)' = Mine(p) /\ pc[p] \in Reclaiming /\ path' \in {path, None}
    BY <1>5 DEF ElectRefused, ReadGuard, ProbeGuard, Recheck, Reprobe, Unlink, Verify, CleanMatch,
                CleanRemove, Previous, Mine, Reclaiming, Electing, Elected, Cleaning
  <2>2. Previous(p) # None
    BY <2>1 DEF IInv, Finding
  <2>3. CASE pc'[p] = "idle"
    BY <2>3 DEF Way, Reclaiming, Electing, Elected, Cleaning
  <2>4. CASE pc[p] \in Electing /\ pc'[p] # "idle"
    <3>1. target' = target /\ pc'[p] \in Electing
      BY <1>0, <1>5, <2>4 DEF ElectRefused, ReadGuard, ProbeGuard, Recheck, Reprobe, Unlink, Verify,
                CleanMatch, CleanRemove, Electing
    <3> QED BY <2>1, <2>4, <3>1 DEF IInv, Way, Gone, Electing, Elected, Cleaning
  <2>5. CASE pc[p] \in Elected /\ pc'[p] # "idle"
    <3>1. target' = target /\ pc'[p] \in Elected \union {"verify"}
      BY <1>0, <1>5, <2>5 DEF ElectRefused, ReadGuard, ProbeGuard, Recheck, Reprobe, Unlink, Verify,
                CleanMatch, CleanRemove, Elected
    <3> QED BY <2>1, <2>5, <3>1 DEF IInv, Way, Gone, Electing, Elected, Cleaning
  <2>6. CASE Verify(p)
    <3>1. pc[p] = "verify" /\ path' = path /\ pc[p] \notin Electing
      BY <2>6 DEF Verify, Electing
    <3>2. pc'[p] = "republish"
            \/ (pc'[p] = "match" /\ target'[p] = Previous(p) /\ path # Previous(p))
      BY <1>0, <2>6 DEF Verify
    <3> QED BY <2>1, <3>1, <3>2 DEF IInv, Way, Gone, Electing, Elected, Cleaning
  <2>7. CASE CleanMatch(p) \/ CleanRemove(p)
    <3>1. pc[p] \in Cleaning /\ path' = path /\ pc[p] \notin Electing /\ path # Previous(p)
          /\ links[p][target[p]] # None /\ target[p] \in Records
      BY <2>1, <2>7 DEF CleanMatch, CleanRemove, Electing, Cleaning, IInv, TypeOK, Way, Finding
    <3>2. \/ pc'[p] = "republish"
          \/ pc'[p] = "remove" /\ target' = target
          \/ pc'[p] = "match" /\ target'[p] = links[p][target[p]] /\ links[p][target[p]] # Mine(p)
      BY <1>0, <2>7 DEF CleanMatch, CleanRemove, CleanNext
    <3>3. pc'[p] \in Cleaning => links[p][target'[p]] # None
      BY <2>1, <3>1, <3>2 DEF IInv, Way, Cleaning
    <3>4. pc'[p] \in {"republish"} \union Cleaning
      BY <3>2 DEF Cleaning
    <3> QED BY <2>1, <3>1, <3>3, <3>4 DEF IInv, Way, Gone, Electing, Elected, Cleaning
  <2>8. pc[p] \in Electing \union Elected \/ Verify(p) \/ CleanMatch(p) \/ CleanRemove(p)
    BY <1>5 DEF ElectRefused, ReadGuard, ProbeGuard, Recheck, Reprobe, Unlink, Electing, Elected
  <2> QED BY <2>3, <2>4, <2>5, <2>6, <2>7, <2>8
<1> QED BY <1>1, <1>2, <1>3, <1>4, <1>5 DEF Step, Acquiring

LEMMA OwnElection ==
    ASSUME IInv, [Next]_vars, NEW p \in Procs, Step(p)
    PROVE  Election(p)'
<1> USE DEF lockVars, procVars, callVars, history, At, Goto
<1>0. pc \in [Procs -> Stages] /\ guard \in [Records -> Records \union {None}]
  BY DEF IInv, TypeOK
<1>1. CASE Spawn(p)
  <2>1. pc'[p] = "idle"
    BY <1>1 DEF Spawn, IInv, TypeOK, Lives, Stages
  <2> QED BY <2>1 DEF Election, Elected, Owning
<1>2. CASE Die(p)
  BY <1>2 DEF Die, Election, IInv, TypeOK
<1>3. CASE Publish(p) \/ Republish(p)
  <2>1. pc'[p] \in {"read", "idle"} \/ (pc'[p] = "held" /\ path' = Mine(p)')
    BY <1>0, <1>3 DEF Publish, Republish, Publishing, Mine
  <2> QED BY <2>1 DEF Election, Elected, Owning
<1>4. CASE ElectSelf(p)
  <2>1. pc'[p] = "recheck" /\ guard' = [guard EXCEPT ![target[p]] = Mine(p)] /\ Mine(p)' = Mine(p)
        /\ UNCHANGED <<path, previous>> /\ Previous(p)' = Previous(p) /\ pc[p] \in Electing
    BY <1>0, <1>4 DEF ElectSelf, Previous, Mine, Electing
  <2>2. target[p] \in Records /\ Mine(p) \in Records /\ previous[Mine(p)] = Previous(p)
    BY <2>1, OwnPrevious DEF IInv, TypeOK, Finding, Reclaiming
  <2>3. guard'[target[p]] = Mine(p)
    BY <1>0, <2>1, <2>2
  <2>4. PICK t \in Records : t = target[p]
    BY <2>2
  <2>5. path' = Previous(p)' => InChain(Mine(p))'
    BY <2>1, <2>2, <2>3, <2>4 DEF InChain
  <2> QED BY <2>1, <2>5 DEF Election, Owning
<1>5. CASE Recheck(p) \/ Reprobe(p)
  <2>1. pc[p] \in Elected /\ UNCHANGED <<alive, path, previous, guard, crossed>> /\ Mine(p)' = Mine(p)
        /\ Previous(p)' = Previous(p)
        /\ (pc[p] = "reprobe" \/ pc'[p] = "verify" \/ (pc'[p] = "reprobe" /\ path = Previous(p)))
    BY <1>0, <1>5 DEF Recheck, Reprobe, Previous, Mine, Elected
  <2>2. pc'[p] \in {"verify", "reprobe", "unlink"}
    BY <1>0, <1>5 DEF Recheck, Reprobe
  <2> QED BY <2>1, <2>2 DEF IInv, Election, InChain, Owning, Elected
<1>6. CASE Reenter(p) \/ Release(p) \/ ReleaseMatch(p)
  <2>1. pc[p] \in Owning /\ UNCHANGED <<alive, path, crossed>> /\ Mine(p)' = Mine(p)
        /\ pc'[p] \in Owning \union {"idle"}
    BY <1>0, <1>6 DEF Reenter, Release, ReleaseMatch, Mine, Owning
  <2> QED BY <2>1 DEF IInv, Election, Owning, Elected
<1>7. CASE Start(p) \/ ReadLock(p) \/ ProbeHolder(p) \/ ElectRefused(p) \/ ReadGuard(p)
           \/ ProbeGuard(p) \/ Unlink(p) \/ Verify(p) \/ CleanMatch(p) \/ CleanRemove(p)
           \/ ReleaseUnlink(p)
  <2>1. pc'[p] \notin Elected \union Owning
    BY <1>0, <1>7 DEF Start, ReadLock, ProbeHolder, ElectRefused, ReadGuard, ProbeGuard, Unlink,
                      Verify, CleanMatch, CleanRemove, CleanNext, ReleaseUnlink, Elected, Owning
  <2> QED BY <2>1 DEF Election, Elected
<1> QED BY <1>1, <1>2, <1>3, <1>4, <1>5, <1>6, <1>7 DEF Step, Acquiring, Holding


-----------------------------------------------------------------------------
(* The end of the chain.                                                   *)

LEMMA OneEndStep ==
    ASSUME IInv, NEW p \in Procs, Step(p), [Next]_vars
    PROVE  OneEnd'
<1> USE DEF lockVars, procVars, callVars, history, At, Goto
<1> SUFFICES ASSUME ~crossed', path' # None, NEW t \in Records, NEW u \in Records,
                    InChain(t)', InChain(u)', guard'[t] = None, guard'[u] = None
             PROVE  t = u
  BY DEF OneEnd
<1>1. ~crossed /\ guard \in [Records -> Records \union {None}]
      /\ previous \in [Records -> Records \union {None}]
  BY GrowsStep DEF Grows, IInv, TypeOK
<1>2. CASE path' # path
  <2>1. path' = Mine(p) /\ previous' = previous /\ Mine(p) \notin published
    BY <1>2, GrowsStep DEF Grows, Step, Spawn, Die, Start, Acquiring, Holding, Publish, Publishing,
       ReadLock, ProbeHolder, ElectSelf, ElectRefused, ReadGuard, ProbeGuard, Recheck, Reprobe,
       Unlink, Verify, CleanMatch, CleanRemove, Republish, Reenter, Release, ReleaseMatch,
       ReleaseUnlink, IInv, Generations, Owning
  <2>2. \A r \in Records : previous[r] # Mine(p)
    BY <2>1, <1>2 DEF IInv, Generations
  <2> QED BY <2>1, <2>2 DEF InChain
<1>3. CASE path' = path
  <2>1. \A r, s \in Records :
          InChain(r) /\ InChain(s) /\ guard[r] = None /\ guard[s] = None => r = s
    BY <1>1, <1>3 DEF IInv, OneEnd
  <2>2. CASE ElectSelf(p)
    <3>1. /\ guard' = [guard EXCEPT ![target[p]] = Mine(p)] /\ UNCHANGED previous
          /\ guard[target[p]] = None /\ p \in alive /\ pc[p] \in Electing
      BY <2>2 DEF ElectSelf, Electing, IInv, TypeOK
    <3>2. Mine(p) \in Records /\ Mine(p) # None /\ previous[Mine(p)] = Previous(p)
          /\ ~Gone(Mine(p)) /\ target[p] \in Records
      BY <3>1, OwnPrevious, Calling DEF Reclaiming, Electing, IInv, TypeOK, Finding
    <3>3. guard'[target[p]] = Mine(p) /\ \A r \in Records : r # target[p] => guard'[r] = guard[r]
      BY <1>1, <3>1, <3>2
    <3>4. guard[t] = None /\ guard[u] = None /\ t # target[p] /\ u # target[p]
      BY <3>2, <3>3
    <3>5. \A r \in {t, u} : InChain(r) \/ (r = Mine(p) /\ path = Previous(p))
      BY <1>3, <3>1, <3>2, <3>3 DEF InChain
    <3>6. CASE path # Previous(p)
      BY <2>1, <3>4, <3>5, <3>6
    <3>7. CASE path = Previous(p)
      <4>1. InChain(target[p])
        BY <3>1, <3>7, <1>1 DEF IInv, Finding, InChain
      <4>2. ~InChain(t) /\ ~InChain(u)
        BY <2>1, <3>1, <3>2, <3>4, <4>1
      <4> QED BY <3>5, <4>2
    <3> QED BY <3>6, <3>7
  <2>3. CASE CleanRemove(p)
    <3>1. pc[p] = "remove" /\ guard' = [guard EXCEPT ![target[p]] = None] /\ UNCHANGED previous
      BY <2>3 DEF CleanRemove
    <3>2. target[p] \in Records /\ target[p] # path /\ previous[target[p]] # path
      BY <1>1, <1>3, <3>1, CleanedOutside
    <3>3. \A r \in Records : r # target[p] => guard'[r] = guard[r]
      BY <1>1, <3>1, <3>2
    <3>4. \A r \in {t, u} : r # target[p]
      BY <1>3, <3>1, <3>2 DEF InChain
    <3>5. \A r \in {t, u} : InChain(r)
      <4> SUFFICES ASSUME NEW r \in {t, u}, r # path PROVE \E v \in Records : guard[v] = r
        BY <1>3, <3>1 DEF InChain
      <4>1. PICK v \in Records : guard'[v] = r
        BY <1>3 DEF InChain
      <4>2. v # target[p]
        BY <1>1, <3>1, <3>2, <4>1, NoneAssumption
      <4> QED BY <3>3, <4>1, <4>2
    <3> QED BY <2>1, <3>3, <3>4, <3>5
  <2>4. CASE guard' = guard
    <3>1. ASSUME NEW r \in Records, InChain(r)' PROVE InChain(r)
      <4>1. CASE r = path
        BY <4>1 DEF InChain
      <4>2. CASE r # path
        <5>1. PICK v \in Records : guard[v] = r
          BY <1>3, <2>4, <3>1, <4>2 DEF InChain
        <5>2. previous[r] # None
          BY <5>1, NoneAssumption DEF IInv, Guards
        <5>3. previous'[r] = previous[r] /\ previous'[r] = path
          BY <1>3, <3>1, <4>2, <5>2, GrowsStep DEF Grows, InChain
        <5> QED BY <5>1, <5>3 DEF InChain
      <4> QED BY <4>1, <4>2
    <3> QED BY <2>1, <2>4, <3>1
  <2> QED BY <2>2, <2>3, <2>4 DEF Step, Spawn, Die, Start, Acquiring, Holding, Publish,
       ReadLock, ProbeHolder, ElectRefused, ReadGuard, ProbeGuard, Recheck, Reprobe,
       Unlink, Verify, CleanMatch, Republish, Reenter, Release, ReleaseMatch, ReleaseUnlink
<1> QED BY <1>2, <1>3

-----------------------------------------------------------------------------
LEMMA InitInvariant == Init => IInv
<1> SUFFICES ASSUME Init PROVE IInv
  OBVIOUS
<1>1. TypeOK
  <2>1. 0 \in 0..MaxDepth /\ \A p \in Procs : 0 <= Calls[p]
    BY CallsAssumption, DepthAssumption
  <2>2. \A r \in Records : r # None
    BY NoneAssumption
  <2>3. alive \cap gone = {} /\ "idle" \in Stages
    BY DEF Init, Stages
  <2> QED BY <2>1, <2>2, <2>3 DEF Init, TypeOK
<1>2. Lives /\ Generations /\ Guards /\ OneEnd
  BY DEF Init, Lives, Generations, Guards, OneEnd, Owning, Mine
<1>3. \A p \in Procs : Finding(p) /\ Way(p) /\ Election(p)
  BY DEF Init, Finding, Way, Election, Reclaiming, Electing, Elected, Cleaning, Owning
<1> QED BY <1>1, <1>2, <1>3 DEF IInv

LEMMA StepInvariant == IInv /\ [Next]_vars => IInv'
<1> SUFFICES ASSUME IInv, [Next]_vars PROVE IInv'
  OBVIOUS
<1>1. TypeOK' /\ Lives' /\ Generations' /\ Guards'
  BY TypeStep, LivesStep, GenerationsStep, GuardsStep
<1>2. CASE Next
  <2>1. PICK p \in Procs : Step(p)
    BY <1>2 DEF Next, Step
  <2>2. ASSUME NEW q \in Procs PROVE Finding(q)' /\ Way(q)' /\ Election(q)'
    <3>1. CASE q = p
      BY <2>1, <3>1, OwnFinding, OwnWay, OwnElection
    <3>2. CASE q # p
      <4>1. Same(q)
        BY <2>1, <3>2, OthersSame
      <4> QED BY <2>1, <3>2, <4>1, FindingKept, WayKept, ElectionKept
    <3> QED BY <3>1, <3>2
  <2> QED BY <1>1, <2>1, <2>2, OneEndStep DEF IInv
<1>3. CASE UNCHANGED vars
  <2>1. \A q \in Procs : Same(q)
    BY <1>3 DEF vars, callVars, Same
  <2>2. \A q \in Procs : Finding(q)' /\ Way(q)'
    BY <2>1, FindingKept, WayKept
  <2>3. \A q \in Procs : Election(q)'
    BY <1>3 DEF IInv, Election, InChain, Mine, Previous, vars, lockVars, procVars, callVars, history
  <2>4. OneEnd'
    BY <1>3 DEF IInv, OneEnd, InChain, vars, lockVars, procVars, callVars, history
  <2> QED BY <1>1, <2>2, <2>3, <2>4 DEF IInv
<1> QED BY <1>2, <1>3

THEOREM Invariant == Spec => []IInv
BY InitInvariant, StepInvariant, PTL DEF Spec

\* Types, for any processes, pids and bounds; no record guards itself.
THEOREM TypeCorrect == Spec => []TypeOK
<1>1. IInv => TypeOK
  BY DEF IInv
<1> QED BY <1>1, Invariant, PTL

\* A live holder's record is the lock file, for any number of contenders,
\* crashes, reused pids and chains of dead guards, until an election goes over
\* the guards of another lock.
THEOREM HolderRecordKept == Spec => []HolderKeepsRecord
<1>1. IInv => HolderKeepsRecord
  <2> SUFFICES ASSUME IInv, ~crossed, NEW p \in Procs, Holds(p) PROVE path = Mine(p)
    BY DEF HolderKeepsRecord
  <2> QED BY DEF IInv, Election, Holds, At, Owning
<1> QED BY <1>1, Invariant, PTL

\* So until then at most one live process has the lock.
THEOREM OneOwner == Spec => [](crossed \/ MutualExclusion)
<1>1. HolderKeepsRecord => crossed \/ MutualExclusion
  BY DEF HolderKeepsRecord, MutualExclusion, Mine
<1> QED BY <1>1, HolderRecordKept, PTL

-----------------------------------------------------------------------------
\* Without a crossing the lock is handed over by one link or one unlink: taken
\* while nobody holds it, given up by its holder or with its death.  Every
\* other step leaves it where it is.
LEMMA StepHandsOver == IInv /\ ~crossed /\ ~crossed' /\ [Next]_vars => [Lock!Next]_Holder
<1> SUFFICES ASSUME IInv, ~crossed, [Next]_vars PROVE [Lock!Next]_Holder
  OBVIOUS
<1>1. \A p \in Procs : (CHOOSE q \in {p} : TRUE) = p
  OBVIOUS
<1>2. \A p \in Procs : Holds(p) => path = Mine(p)
  BY DEF IInv, Election, Holds, At, Owning
<1>3. \A p, q \in Procs : Holds(p) /\ Holds(q) => p = q
  BY <1>2 DEF Mine
<1>4. \A p \in Procs : Holds(p) => path # None
  <2>1. ASSUME NEW p \in Procs, Holds(p) PROVE path # None
    BY <1>2, <2>1, MineShape DEF IInv, Lives, Holds, At
  <2>2. QED BY <2>1
<1>5. ASSUME NEW p \in Procs, Publish(p) \/ Republish(p), path = None PROVE Lock!Acquire(p)
  <2>1. Holders = {}
    BY <1>4, <1>5 DEF Holders
  <2>2. Holders' = {p}
    BY <1>5, <2>1 DEF Holders, Holds, Publish, Republish, Publishing, At, Goto, procVars,
                      IInv, TypeOK
  <2>3. QED
    BY <1>1, <2>1, <2>2 DEF Holder, Lock!Acquire
<1>6. ASSUME NEW p \in Procs, Holds(p), Die(p) \/ (Release(p) /\ depth[p] = 1) PROVE Lock!Drop(p)
  <2>1. Holders = {p}
    BY <1>3, <1>6 DEF Holders
  <2>2. Holders' = {}
    BY <1>6, <2>1 DEF Holders, Holds, Die, Release, At, Goto, procVars, IInv, TypeOK
  <2>3. QED
    BY <1>1, <2>1, <2>2 DEF Holder, Lock!Drop
<1>7. ASSUME NEW p \in Procs, Die(p), ~Holds(p) PROVE Holders' = Holders
  BY <1>7 DEF Die, Holders, Holds, At, IInv, TypeOK
<1>8. ASSUME NEW p \in Procs, Spawn(p) \/ Start(p) PROVE Holders' = Holders
  BY <1>8, CallsAssumption DEF Spawn, Start, At, Goto, Holders, Holds, procVars, IInv, TypeOK, Lives
<1>9. ASSUME NEW p \in Procs, (Publish(p) \/ Republish(p)) /\ path # None PROVE Holders' = Holders
  BY <1>9 DEF Publish, Republish, Publishing, At, Goto, Holders, Holds, procVars, IInv, TypeOK
<1>10. ASSUME NEW p \in Procs, ReadLock(p) \/ ProbeHolder(p) \/ ElectSelf(p) \/ ElectRefused(p)
                               \/ ReadGuard(p) \/ ProbeGuard(p) \/ Recheck(p) \/ Reprobe(p)
       PROVE  Holders' = Holders
  BY <1>10 DEF ReadLock, ProbeHolder, ElectSelf, ElectRefused, ReadGuard, ProbeGuard, Recheck,
               Reprobe, At, Goto, Holders, Holds, procVars, IInv, TypeOK
<1>11. ASSUME NEW p \in Procs, Unlink(p) \/ Verify(p) \/ CleanMatch(p) \/ CleanRemove(p)
       PROVE  Holders' = Holders
  BY <1>11 DEF Unlink, Verify, CleanMatch, CleanRemove, CleanNext, At, Goto, Holders, Holds,
               procVars, IInv, TypeOK
<1>12. ASSUME NEW p \in Procs, Reenter(p) \/ (Release(p) /\ depth[p] # 1) \/ ReleaseMatch(p)
                               \/ ReleaseUnlink(p)
       PROVE  Holders' = Holders
  BY <1>12 DEF Reenter, Release, ReleaseMatch, ReleaseUnlink, At, Goto, Holders, Holds, procVars,
               IInv, TypeOK
<1>13. ASSUME UNCHANGED vars PROVE Holders' = Holders
  BY <1>13 DEF vars, procVars, Holders, Holds, At
<1>14. Holders' = Holders => Holder' = Holder
  BY DEF Holder
<1>15. ASSUME NEW p \in Procs, Release(p) PROVE Holds(p)
  BY <1>15 DEF Release, Holds
<1>16. QED
  BY <1>5, <1>6, <1>7, <1>8, <1>9, <1>10, <1>11, <1>12, <1>13, <1>14, <1>15
     DEF Next, Acquiring, Holding, Lock!Next

\* "keeps exactly one owner when real processes reclaim a crashed successor"
\* (chat-lock.test.ts:275): in every run without a crossing acquireChatLock,
\* reclaiming and releasing implement the mutex that the listen lock is too.
THEOREM UncrossedImplementsMutex == Spec /\ []~crossed => Lock!Spec
<1>1. Init => Lock!Init
  BY DEF Init, Lock!Init, Holder, Holders, Holds, At
<1>2. QED
  BY <1>1, StepHandsOver, Invariant, PTL DEF Spec, Lock!Spec
=============================================================================
