------------------------- MODULE MailReadersProofs -------------------------
(* Proofs about the shared mail store and its readers, for any emails, waits, *)
(* sends, sessions and processes.  First the store by itself               *)
(* (SharedMailStore): its indexes stay exact and no email ever has two     *)
(* consumers.  Then its readers (MailReaders): every step of theirs is a   *)
(* step of the store, no reply is lost and none is shown twice, and all of *)
(* it together implements MailDelivery.                                    *)
EXTENDS MailReaders, TLAPS

(***************************************************************************)
(* The inductive invariant.  The index invariants need one another: a wait *)
(* is bound exactly when its send's parents/ entry names it, so binding,   *)
(* joining and cancelling keep the entries of other waits valid.           *)
(* RepliesTied adds to WaitGetsOnlyItsReplies that a wait with a reply has a *)
(* send, which no later bind can replace.                                  *)
(***************************************************************************)
RepliesTied ==
    \A e \in Emails : route[e].kind = "wait" =>
        LET w == waits[route[e].to]
        IN  /\ Trusted(e) /\ details[e].peer = w.peer /\ details[e].parent = w.sent
            /\ w.sent # None

StoreInv ==
    /\ TypeOK
    /\ UnboundIndexExact /\ ParentIndexExact /\ MatchIndexExact
    /\ RepliesTied /\ CompletedWaitObservedAll

-----------------------------------------------------------------------------
\* An event adds an email; nobody owns it yet.
LEMMA IngestStep ==
    ASSUME StoreInv, NEW v \in Events, NEW e \in Emails, Ingest(v, e)
    PROVE  StoreInv'
<1> USE NoneAssumption DEF StoreInv, Ingest, mailVars, waitVars, restVars
<1>1. TypeOK'
  BY DEF TypeOK, OrNone, Details, NoDetails, Routes, NoRoute, Waits, NoWait, Statuses
<1>2. QED
  BY <1>1 DEF UnboundIndexExact, ParentIndexExact, MatchIndexExact, RepliesTied, CompletedWaitObservedAll, Trusted, Unresolved

\* Verdicts are final, so a routed email keeps its sender and parent.
LEMMA HydrateStep ==
    ASSUME StoreInv, NEW e \in Emails, NEW d \in Details, Hydrate(e, d)
    PROVE  StoreInv'
<1> USE NoneAssumption DEF StoreInv, Hydrate, Verified, mailVars, waitVars, restVars
<1>1. TypeOK'
  BY DEF TypeOK, OrNone, Details, NoDetails, Routes, NoRoute, Waits, NoWait, Statuses
<1>2. RepliesTied'
  BY DEF TypeOK, OrNone, Details, NoDetails, Routes, NoRoute, Waits, NoWait, Statuses, RepliesTied, Trusted
<1>3. QED
  BY <1>1, <1>2 DEF UnboundIndexExact, ParentIndexExact, MatchIndexExact, CompletedWaitObservedAll, Trusted, Unresolved

\* A new wait owns no send.
LEMMA RegisterNewStep ==
    ASSUME StoreInv, NEW req \in Requests, NEW peer \in Peers, NEW session \in OrNone(Sessions), NEW contact \in OrNone(Contacts), NEW owner \in OrNone(Waiters), RegisterNew(req, peer, session, contact, owner)
    PROVE  StoreInv'
<1> USE NoneAssumption DEF StoreInv, RegisterNew, Exists, Unresolved, mailVars, waitVars, restVars
<1>1. TypeOK'
  BY DEF TypeOK, OrNone, Details, NoDetails, Routes, NoRoute, Waits, NoWait, Statuses
<1>2. UnboundIndexExact'
  <2> SUFFICES ASSUME NEW r \in Requests, NEW q \in Peers
               PROVE  <<q, r>> \in unbound' <=>
                        waits'[r].status \in Unresolved /\ waits'[r].peer = q
    BY DEF UnboundIndexExact
  <2>1. <<q, r>> \in unbound <=> waits[r].status \in Unresolved /\ waits[r].peer = q
    BY DEF UnboundIndexExact
  <2>2. CASE r = req
    BY <2>1, <2>2 DEF TypeOK, OrNone, Waits, NoWait, Statuses, Unresolved
  <2>3. CASE r # req
    BY <2>1, <2>3 DEF TypeOK, OrNone, Waits, NoWait, Statuses, Unresolved
  <2>4. QED
    BY <2>2, <2>3
<1>3. ParentIndexExact'
  BY DEF TypeOK, OrNone, Details, NoDetails, Routes, NoRoute, Waits, NoWait, Statuses, ParentIndexExact
<1>4. RepliesTied'
  BY DEF TypeOK, OrNone, Details, NoDetails, Routes, NoRoute, Waits, NoWait, Statuses, RepliesTied, Trusted, ParentIndexExact
<1>5. CompletedWaitObservedAll'
  BY DEF TypeOK, OrNone, Details, NoDetails, Routes, NoRoute, Waits, NoWait, Statuses, CompletedWaitObservedAll, RepliesTied, ParentIndexExact
<1>6. QED
  BY <1>1, <1>2, <1>3, <1>4, <1>5 DEF MatchIndexExact, Trusted, Unresolved

\* Registering again only adds a waiter.
LEMMA RegisterAgainStep ==
    ASSUME StoreInv, NEW req \in Requests, NEW peer \in Peers, NEW session \in OrNone(Sessions), NEW contact \in OrNone(Contacts), NEW owner \in OrNone(Waiters), RegisterAgain(req, peer, session, contact, owner)
    PROVE  StoreInv'
<1> USE NoneAssumption DEF StoreInv, RegisterAgain, Exists, AddWaiters, MayBeWaiting, Unresolved, mailVars, waitVars, restVars
<1>1. TypeOK'
  BY DEF TypeOK, OrNone, Details, NoDetails, Routes, NoRoute, Waits, NoWait, Statuses
<1>2. UnboundIndexExact'
  <2> SUFFICES ASSUME NEW r \in Requests, NEW q \in Peers
               PROVE  <<q, r>> \in unbound' <=>
                        waits'[r].status \in Unresolved /\ waits'[r].peer = q
    BY DEF UnboundIndexExact
  <2>1. <<q, r>> \in unbound <=> waits[r].status \in Unresolved /\ waits[r].peer = q
    BY DEF UnboundIndexExact
  <2>2. CASE r = req
    BY <2>1, <2>2 DEF TypeOK, OrNone, Waits, NoWait, Statuses, Unresolved
  <2>3. CASE r # req
    BY <2>1, <2>3 DEF TypeOK, OrNone, Waits, NoWait, Statuses, Unresolved
  <2>4. QED
    BY <2>2, <2>3
<1>3. ParentIndexExact'
  BY DEF TypeOK, OrNone, Details, NoDetails, Routes, NoRoute, Waits, NoWait, Statuses, ParentIndexExact
<1>4. RepliesTied'
  BY DEF TypeOK, OrNone, Details, NoDetails, Routes, NoRoute, Waits, NoWait, Statuses, RepliesTied, Trusted, ParentIndexExact
<1>5. CompletedWaitObservedAll'
  BY DEF TypeOK, OrNone, Details, NoDetails, Routes, NoRoute, Waits, NoWait, Statuses, CompletedWaitObservedAll
<1>6. QED
  BY <1>1, <1>2, <1>3, <1>4, <1>5 DEF MatchIndexExact, Trusted, Unresolved

\* Joining only adds a waiter.
LEMMA JoinWaitStep ==
    ASSUME StoreInv, NEW req \in Requests, NEW owner \in Waiters, JoinWait(req, owner)
    PROVE  StoreInv'
<1> USE NoneAssumption DEF StoreInv, JoinWait, AddWaiters, MayBeWaiting, Unresolved, mailVars, waitVars, restVars
<1>1. TypeOK'
  BY DEF TypeOK, OrNone, Details, NoDetails, Routes, NoRoute, Waits, NoWait, Statuses
<1>2. UnboundIndexExact'
  <2> SUFFICES ASSUME NEW r \in Requests, NEW q \in Peers
               PROVE  <<q, r>> \in unbound' <=>
                        waits'[r].status \in Unresolved /\ waits'[r].peer = q
    BY DEF UnboundIndexExact
  <2>1. <<q, r>> \in unbound <=> waits[r].status \in Unresolved /\ waits[r].peer = q
    BY DEF UnboundIndexExact
  <2>2. CASE r = req
    BY <2>1, <2>2 DEF TypeOK, OrNone, Waits, NoWait, Statuses, Unresolved
  <2>3. CASE r # req
    BY <2>1, <2>3 DEF TypeOK, OrNone, Waits, NoWait, Statuses, Unresolved
  <2>4. QED
    BY <2>2, <2>3
<1>3. ParentIndexExact'
  BY DEF TypeOK, OrNone, Details, NoDetails, Routes, NoRoute, Waits, NoWait, Statuses, ParentIndexExact
<1>4. RepliesTied'
  BY DEF TypeOK, OrNone, Details, NoDetails, Routes, NoRoute, Waits, NoWait, Statuses, RepliesTied, Trusted, ParentIndexExact
<1>5. CompletedWaitObservedAll'
  BY DEF TypeOK, OrNone, Details, NoDetails, Routes, NoRoute, Waits, NoWait, Statuses, CompletedWaitObservedAll
<1>6. QED
  BY <1>1, <1>2, <1>3, <1>4, <1>5 DEF MatchIndexExact, Trusted, Unresolved

\* Releasing only removes waiters.
LEMMA ReleaseWaiterStep ==
    ASSUME StoreInv, NEW req \in Requests, NEW owner \in Waiters, ReleaseWaiter(req, owner)
    PROVE  StoreInv'
<1> USE NoneAssumption DEF StoreInv, ReleaseWaiter, Exists, Answers, Unresolved, mailVars, waitVars, restVars
<1>1. TypeOK'
  <2>1. waits' \in [Requests -> Waits \union {NoWait}]
    <3>1. ASSUME NEW r \in Requests
          PROVE  [waits[r] EXCEPT !.waiters = @ \ {owner}] \in Waits \union {NoWait}
      <4>1. CASE waits[r] \in Waits
        BY <4>1 DEF Waits
      <4>2. CASE waits[r] = NoWait
        <5>1. NoWait.waiters \ {owner} = NoWait.waiters
          BY DEF NoWait
        <5>2. [NoWait EXCEPT !.waiters = NoWait.waiters] = NoWait
          BY DEF NoWait
        <5>3. [NoWait EXCEPT !.waiters = @ \ {owner}] = NoWait
          BY <5>1, <5>2
        <5>4. QED
          BY <4>2, <5>3
      <4>3. QED
        BY <4>1, <4>2 DEF TypeOK
    <3>2. QED
      BY <3>1 DEF TypeOK
  <2>2. QED
    BY <2>1 DEF TypeOK
<1>2. UnboundIndexExact'
  <2> SUFFICES ASSUME NEW r \in Requests, NEW q \in Peers
               PROVE  <<q, r>> \in unbound' <=>
                        waits'[r].status \in Unresolved /\ waits'[r].peer = q
    BY DEF UnboundIndexExact
  <2>1. <<q, r>> \in unbound <=> waits[r].status \in Unresolved /\ waits[r].peer = q
    BY DEF UnboundIndexExact
  <2>2. CASE r = req
    BY <2>1, <2>2 DEF TypeOK, OrNone, Waits, NoWait, Statuses, Unresolved
  <2>3. CASE r # req
    BY <2>1, <2>3 DEF TypeOK, OrNone, Waits, NoWait, Statuses, Unresolved
  <2>4. QED
    BY <2>2, <2>3
<1>3. ParentIndexExact'
  BY DEF TypeOK, OrNone, Details, NoDetails, Routes, NoRoute, Waits, NoWait, Statuses, ParentIndexExact
<1>4. RepliesTied'
  BY DEF TypeOK, OrNone, Details, NoDetails, Routes, NoRoute, Waits, NoWait, Statuses, RepliesTied, Trusted, ParentIndexExact
<1>5. CompletedWaitObservedAll'
  BY DEF TypeOK, OrNone, Details, NoDetails, Routes, NoRoute, Waits, NoWait, Statuses, CompletedWaitObservedAll
<1>6. QED
  BY <1>1, <1>2, <1>3, <1>4, <1>5 DEF MatchIndexExact, Trusted, Unresolved

\* The bound wait replaces at most a completed one in the index.
LEMMA BindOwnStep ==
    ASSUME StoreInv, NEW req \in Requests, NEW sent \in Sends, BindOwn(req, sent)
    PROVE  StoreInv'
<1> USE NoneAssumption DEF StoreInv, BindOwn, Compatible, Unresolved, mailVars, waitVars, restVars
<1>1. TypeOK'
  <2>1. waits[req] \in Waits
    BY DEF TypeOK, NoWait, Waits
  <2>2. ASSUME parents[sent] \notin {None, req}
        PROVE  waits[parents[sent]].session \in OrNone(Sessions)
    BY <2>2 DEF TypeOK, NoWait, Waits, OrNone
  <2>3. waits'[req] \in Waits
    BY <2>1, <2>2 DEF TypeOK, Waits, OrNone, Statuses
  <2>4. waits' \in [Requests -> Waits \union {NoWait}]
    BY <2>3 DEF TypeOK
  <2>5. QED
    BY <2>4 DEF TypeOK, OrNone
<1>2. UnboundIndexExact'
  <2> SUFFICES ASSUME NEW r \in Requests, NEW q \in Peers
               PROVE  <<q, r>> \in unbound' <=>
                        waits'[r].status \in Unresolved /\ waits'[r].peer = q
    BY DEF UnboundIndexExact
  <2>1. <<q, r>> \in unbound <=> waits[r].status \in Unresolved /\ waits[r].peer = q
    BY DEF UnboundIndexExact
  <2>2. CASE r = req
    BY <2>1, <2>2 DEF TypeOK, OrNone, Waits, NoWait, Statuses, Unresolved
  <2>3. CASE r # req
    BY <2>1, <2>3 DEF TypeOK, OrNone, Waits, NoWait, Statuses, Unresolved
  <2>4. QED
    BY <2>2, <2>3
<1>3. ParentIndexExact'
  BY DEF TypeOK, OrNone, Details, NoDetails, Routes, NoRoute, Waits, NoWait, Statuses, ParentIndexExact
<1>4. RepliesTied'
  BY DEF TypeOK, OrNone, Details, NoDetails, Routes, NoRoute, Waits, NoWait, Statuses, RepliesTied, Trusted, ParentIndexExact
<1>5. CompletedWaitObservedAll'
  BY DEF TypeOK, OrNone, Details, NoDetails, Routes, NoRoute, Waits, NoWait, Statuses, CompletedWaitObservedAll, RepliesTied, ParentIndexExact
<1>6. QED
  BY <1>1, <1>2, <1>3, <1>4, <1>5 DEF MatchIndexExact, Trusted, Unresolved

\* The joined wait keeps its send; the alias owns none and leaves the index.
LEMMA BindJoinStep ==
    ASSUME StoreInv, NEW req \in Requests, NEW sent \in Sends, BindJoin(req, sent)
    PROVE  StoreInv'
<1> DEFINE w == waits[req]
           other == parents[sent]
<1>1. /\ other \in Requests /\ other # req
      /\ waits[other] \in Waits /\ w \in Waits
  BY DEF StoreInv, TypeOK, OrNone, Waits, NoWait, Statuses, BindJoin, Compatible
<1>2. /\ waits[other].status = "bound" /\ waits[other].sent = sent
      /\ w.status \in {"unbound", "cancelled"} /\ w.sent \in {None, sent}
  BY DEF BindJoin, Compatible
<1>3. ASSUME NEW owners \in SUBSET Waiters
      PROVE  /\ AddWaiters(waits[other], owners) \in Waits
             /\ \E set \in SUBSET Waiters :
                  AddWaiters(waits[other], owners) = [waits[other] EXCEPT !.waiters = set]
  <2>1. CASE waits[other].tracked
    BY <1>1, <2>1 DEF AddWaiters, Waits
  <2>2. CASE ~waits[other].tracked
    <3>1. waits[other] = [waits[other] EXCEPT !.waiters = waits[other].waiters]
      BY <1>1 DEF Waits
    <3>2. AddWaiters(waits[other], owners) = waits[other]
      BY <2>2 DEF AddWaiters
    <3>3. QED
      BY <1>1, <3>1, <3>2 DEF Waits
  <2>3. QED
    BY <2>1, <2>2
<1>4. w.waiters \in SUBSET Waiters
  BY <1>1 DEF Waits
<1>5. PICK joined \in Waits :
        /\ waits' = [waits EXCEPT ![other] = joined,
              ![req] = [w EXCEPT !.status = "cancelled", !.sent = sent, !.waiters = {}]]
        /\ joined.status = "bound" /\ joined.sent = sent
        /\ joined.peer = waits[other].peer /\ joined.contact = waits[other].contact
  <2>1. CASE w.tracked
    <3> DEFINE next == AddWaiters(waits[other], w.waiters)
    <3>1. next \in Waits
      BY <1>3, <1>4
    <3>2. PICK set \in SUBSET Waiters : next = [waits[other] EXCEPT !.waiters = set]
      BY <1>3, <1>4
    <3>3. /\ next.status = "bound" /\ next.sent = sent
          /\ next.peer = waits[other].peer /\ next.contact = waits[other].contact
      BY <1>1, <1>2, <3>2 DEF Waits
    <3>4. waits' = [waits EXCEPT ![other] = next,
              ![req] = [w EXCEPT !.status = "cancelled", !.sent = sent, !.waiters = {}]]
      BY <2>1 DEF BindJoin
    <3>5. QED
      BY <3>1, <3>3, <3>4
  <2>2. CASE ~w.tracked
    <3>1. [waits[other] EXCEPT !.tracked = FALSE, !.waiters = {}] \in Waits
      BY <1>1 DEF Waits
    <3>2. QED
      BY <1>1, <1>2, <2>2, <3>1 DEF BindJoin, Waits
  <2>3. QED
    BY <2>1, <2>2
<1>6. /\ unbound' = unbound \ {<<w.peer, req>>}
      /\ UNCHANGED <<mailVars, parents, matches, restVars>>
  BY DEF BindJoin
<1>7. /\ waits'[req] \in Waits
      /\ waits'[req].status = "cancelled" /\ waits'[req].sent = sent
      /\ waits'[req].peer = w.peer /\ waits'[req].contact = w.contact
  BY <1>1, <1>5 DEF StoreInv, TypeOK, Waits, Statuses, OrNone
<1>8. /\ waits'[other] = joined
      /\ \A r \in Requests \ {req, other} : waits'[r] = waits[r]
  BY <1>1, <1>5 DEF StoreInv, TypeOK
<1>9. TypeOK'
  <2>1. waits' \in [Requests -> Waits \union {NoWait}]
    BY <1>1, <1>5, <1>7, <1>8 DEF StoreInv, TypeOK
  <2>2. QED
    BY <1>6, <2>1 DEF StoreInv, TypeOK, mailVars, restVars
<1>10. UnboundIndexExact'
  <2> SUFFICES ASSUME NEW r \in Requests, NEW q \in Peers
               PROVE  <<q, r>> \in unbound' <=>
                        waits'[r].status \in Unresolved /\ waits'[r].peer = q
    BY DEF UnboundIndexExact
  <2>1. <<q, r>> \in unbound <=> waits[r].status \in Unresolved /\ waits[r].peer = q
    BY DEF StoreInv, UnboundIndexExact
  <2>2. CASE r = req
    BY <1>6, <1>7, <2>1, <2>2 DEF Unresolved
  <2>3. CASE r = other
    BY <1>1, <1>2, <1>5, <1>6, <1>8, <2>1, <2>3 DEF Unresolved
  <2>4. CASE r \notin {req, other}
    BY <1>6, <1>8, <2>1, <2>4
  <2>5. QED
    BY <2>2, <2>3, <2>4
<1>11. ParentIndexExact'
  <2>1. ASSUME NEW s \in Sends, parents[s] # None
        PROVE  waits'[parents[s]].sent = s /\ waits'[parents[s]].status \in {"bound", "completed"}
    <3>1. waits[parents[s]].sent = s /\ waits[parents[s]].status \in {"bound", "completed"}
      BY <2>1 DEF StoreInv, ParentIndexExact
    <3>2. parents[s] \in Requests /\ parents[s] # req
      BY <1>2, <2>1, <3>1 DEF StoreInv, TypeOK, OrNone
    <3>3. QED
      BY <1>2, <1>5, <1>8, <3>1, <3>2
  <2>2. ASSUME NEW r \in Requests, waits'[r].status = "bound"
        PROVE  waits'[r].sent # None /\ parents[waits'[r].sent] = r
    <3>1. r # req
      BY <1>7, <2>2
    <3>2. waits[r].status = "bound" /\ waits'[r].sent = waits[r].sent
      BY <1>2, <1>5, <1>8, <2>2, <3>1
    <3>3. QED
      BY <3>2 DEF StoreInv, ParentIndexExact
  <2>3. QED
    BY <1>6, <2>1, <2>2 DEF ParentIndexExact
<1>12. \A r \in Requests :
          /\ waits'[r].peer = waits[r].peer /\ waits'[r].contact = waits[r].contact
          /\ waits[r].sent # None => waits'[r].sent = waits[r].sent
          /\ waits'[r].status = "completed" => waits[r].status = "completed"
  BY <1>2, <1>5, <1>7, <1>8
<1>13. RepliesTied'
  BY <1>6, <1>12 DEF StoreInv, RepliesTied, TypeOK, Routes, NoRoute, Trusted, mailVars
<1>14. CompletedWaitObservedAll'
  BY <1>6, <1>12 DEF StoreInv, CompletedWaitObservedAll, mailVars
<1>15. MatchIndexExact'
  BY <1>6 DEF StoreInv, MatchIndexExact, mailVars
<1>16. QED
  BY <1>9, <1>10, <1>11, <1>13, <1>14, <1>15 DEF StoreInv

\* Only a wait that owns no send is cancelled.
LEMMA CancelWaitBeforeSendStep ==
    ASSUME StoreInv, NEW req \in Requests, CancelWaitBeforeSend(req)
    PROVE  StoreInv'
<1> USE NoneAssumption DEF StoreInv, CancelWaitBeforeSend, Cancel, Unresolved, mailVars, waitVars, restVars
<1>1. TypeOK'
  BY DEF TypeOK, OrNone, Details, NoDetails, Routes, NoRoute, Waits, NoWait, Statuses
<1>2. UnboundIndexExact'
  <2> SUFFICES ASSUME NEW r \in Requests, NEW q \in Peers
               PROVE  <<q, r>> \in unbound' <=>
                        waits'[r].status \in Unresolved /\ waits'[r].peer = q
    BY DEF UnboundIndexExact
  <2>1. <<q, r>> \in unbound <=> waits[r].status \in Unresolved /\ waits[r].peer = q
    BY DEF UnboundIndexExact
  <2>2. CASE r = req
    BY <2>1, <2>2 DEF TypeOK, OrNone, Waits, NoWait, Statuses, Unresolved
  <2>3. CASE r # req
    BY <2>1, <2>3 DEF TypeOK, OrNone, Waits, NoWait, Statuses, Unresolved
  <2>4. QED
    BY <2>2, <2>3
<1>3. ParentIndexExact'
  BY DEF TypeOK, OrNone, Details, NoDetails, Routes, NoRoute, Waits, NoWait, Statuses, ParentIndexExact
<1>4. RepliesTied'
  BY DEF TypeOK, OrNone, Details, NoDetails, Routes, NoRoute, Waits, NoWait, Statuses, RepliesTied, Trusted, ParentIndexExact
<1>5. CompletedWaitObservedAll'
  BY DEF TypeOK, OrNone, Details, NoDetails, Routes, NoRoute, Waits, NoWait, Statuses, CompletedWaitObservedAll
<1>6. QED
  BY <1>1, <1>2, <1>3, <1>4, <1>5 DEF MatchIndexExact, Trusted, Unresolved

\* Only a wait that owns no send is cancelled.
LEMMA CancelRejectedSendStep ==
    ASSUME StoreInv, NEW req \in Requests, CancelRejectedSend(req)
    PROVE  StoreInv'
<1> USE NoneAssumption DEF StoreInv, CancelRejectedSend, Cancel, Unresolved, mailVars, waitVars, restVars
<1>1. TypeOK'
  BY DEF TypeOK, OrNone, Details, NoDetails, Routes, NoRoute, Waits, NoWait, Statuses
<1>2. UnboundIndexExact'
  <2> SUFFICES ASSUME NEW r \in Requests, NEW q \in Peers
               PROVE  <<q, r>> \in unbound' <=>
                        waits'[r].status \in Unresolved /\ waits'[r].peer = q
    BY DEF UnboundIndexExact
  <2>1. <<q, r>> \in unbound <=> waits[r].status \in Unresolved /\ waits[r].peer = q
    BY DEF UnboundIndexExact
  <2>2. CASE r = req
    BY <2>1, <2>2 DEF TypeOK, OrNone, Waits, NoWait, Statuses, Unresolved
  <2>3. CASE r # req
    BY <2>1, <2>3 DEF TypeOK, OrNone, Waits, NoWait, Statuses, Unresolved
  <2>4. QED
    BY <2>2, <2>3
<1>3. ParentIndexExact'
  BY DEF TypeOK, OrNone, Details, NoDetails, Routes, NoRoute, Waits, NoWait, Statuses, ParentIndexExact
<1>4. RepliesTied'
  BY DEF TypeOK, OrNone, Details, NoDetails, Routes, NoRoute, Waits, NoWait, Statuses, RepliesTied, Trusted, ParentIndexExact
<1>5. CompletedWaitObservedAll'
  BY DEF TypeOK, OrNone, Details, NoDetails, Routes, NoRoute, Waits, NoWait, Statuses, CompletedWaitObservedAll
<1>6. QED
  BY <1>1, <1>2, <1>3, <1>4, <1>5 DEF MatchIndexExact, Trusted, Unresolved

\* An uncertain wait is still unresolved.
LEMMA MarkWaitUncertainStep ==
    ASSUME StoreInv, NEW req \in Requests, MarkWaitUncertain(req)
    PROVE  StoreInv'
<1> USE NoneAssumption DEF StoreInv, MarkWaitUncertain, Unresolved, mailVars, waitVars, restVars
<1>1. TypeOK'
  BY DEF TypeOK, OrNone, Details, NoDetails, Routes, NoRoute, Waits, NoWait, Statuses
<1>2. UnboundIndexExact'
  <2> SUFFICES ASSUME NEW r \in Requests, NEW q \in Peers
               PROVE  <<q, r>> \in unbound' <=>
                        waits'[r].status \in Unresolved /\ waits'[r].peer = q
    BY DEF UnboundIndexExact
  <2>1. <<q, r>> \in unbound <=> waits[r].status \in Unresolved /\ waits[r].peer = q
    BY DEF UnboundIndexExact
  <2>2. CASE r = req
    BY <2>1, <2>2 DEF TypeOK, OrNone, Waits, NoWait, Statuses, Unresolved
  <2>3. CASE r # req
    BY <2>1, <2>3 DEF TypeOK, OrNone, Waits, NoWait, Statuses, Unresolved
  <2>4. QED
    BY <2>2, <2>3
<1>3. ParentIndexExact'
  BY DEF TypeOK, OrNone, Details, NoDetails, Routes, NoRoute, Waits, NoWait, Statuses, ParentIndexExact
<1>4. RepliesTied'
  BY DEF TypeOK, OrNone, Details, NoDetails, Routes, NoRoute, Waits, NoWait, Statuses, RepliesTied, Trusted, ParentIndexExact
<1>5. CompletedWaitObservedAll'
  BY DEF TypeOK, OrNone, Details, NoDetails, Routes, NoRoute, Waits, NoWait, Statuses, CompletedWaitObservedAll
<1>6. QED
  BY <1>1, <1>2, <1>3, <1>4, <1>5 DEF MatchIndexExact, Trusted, Unresolved

\* Every reply the match index lists was observed.
LEMMA FinishWaitStep ==
    ASSUME StoreInv, NEW req \in Requests, FinishWait(req)
    PROVE  StoreInv'
<1> USE NoneAssumption DEF StoreInv, FinishWait, Unresolved, mailVars, waitVars, restVars
<1>1. TypeOK'
  BY DEF TypeOK, OrNone, Details, NoDetails, Routes, NoRoute, Waits, NoWait, Statuses
<1>2. UnboundIndexExact'
  <2> SUFFICES ASSUME NEW r \in Requests, NEW q \in Peers
               PROVE  <<q, r>> \in unbound' <=>
                        waits'[r].status \in Unresolved /\ waits'[r].peer = q
    BY DEF UnboundIndexExact
  <2>1. <<q, r>> \in unbound <=> waits[r].status \in Unresolved /\ waits[r].peer = q
    BY DEF UnboundIndexExact
  <2>2. CASE r = req
    BY <2>1, <2>2 DEF TypeOK, OrNone, Waits, NoWait, Statuses, Unresolved
  <2>3. CASE r # req
    BY <2>1, <2>3 DEF TypeOK, OrNone, Waits, NoWait, Statuses, Unresolved
  <2>4. QED
    BY <2>2, <2>3
<1>3. ParentIndexExact'
  BY DEF TypeOK, OrNone, Details, NoDetails, Routes, NoRoute, Waits, NoWait, Statuses, ParentIndexExact
<1>4. RepliesTied'
  BY DEF TypeOK, OrNone, Details, NoDetails, Routes, NoRoute, Waits, NoWait, Statuses, RepliesTied, Trusted, ParentIndexExact
<1>5. CompletedWaitObservedAll'
  <2> SUFFICES ASSUME NEW r \in Requests, NEW x \in Emails,
                      waits'[r].status = "completed", waits'[r].contact = None,
                      route[x].kind = "wait", route[x].to = r
               PROVE  route[x].state = "observed"
    BY DEF CompletedWaitObservedAll
  <2>1. CASE r = req
    <3>1. <<r, x>> \in matches
      BY DEF MatchIndexExact
    <3>2. QED
      BY <2>1, <3>1
  <2>2. CASE r # req
    BY <2>2 DEF CompletedWaitObservedAll, TypeOK
  <2>3. QED
    BY <2>1, <2>2
<1>6. QED
  BY <1>1, <1>2, <1>3, <1>4, <1>5 DEF MatchIndexExact, Trusted, Unresolved

\* A bound contact wait completes.
LEMMA ObserveNotifiedContactReplyStep ==
    ASSUME StoreInv, NEW e \in Emails, NEW req \in Requests, NEW token \in Waiters, ObserveNotifiedContactReply(e, req, token)
    PROVE  StoreInv'
<1> USE NoneAssumption DEF StoreInv, ObserveNotifiedContactReply, IsReplyTo, Trusted, Unresolved, mailVars, waitVars, restVars
<1>1. TypeOK'
  BY DEF TypeOK, OrNone, Details, NoDetails, Routes, NoRoute, Waits, NoWait, Statuses
<1>2. UnboundIndexExact'
  <2> SUFFICES ASSUME NEW r \in Requests, NEW q \in Peers
               PROVE  <<q, r>> \in unbound' <=>
                        waits'[r].status \in Unresolved /\ waits'[r].peer = q
    BY DEF UnboundIndexExact
  <2>1. <<q, r>> \in unbound <=> waits[r].status \in Unresolved /\ waits[r].peer = q
    BY DEF UnboundIndexExact
  <2>2. CASE r = req
    BY <2>1, <2>2 DEF TypeOK, OrNone, Waits, NoWait, Statuses, Unresolved
  <2>3. CASE r # req
    BY <2>1, <2>3 DEF TypeOK, OrNone, Waits, NoWait, Statuses, Unresolved
  <2>4. QED
    BY <2>2, <2>3
<1>3. ParentIndexExact'
  BY DEF TypeOK, OrNone, Details, NoDetails, Routes, NoRoute, Waits, NoWait, Statuses, ParentIndexExact
<1>4. RepliesTied'
  BY DEF TypeOK, OrNone, Details, NoDetails, Routes, NoRoute, Waits, NoWait, Statuses, RepliesTied, ParentIndexExact
<1>5. CompletedWaitObservedAll'
  BY DEF TypeOK, OrNone, Details, NoDetails, Routes, NoRoute, Waits, NoWait, Statuses, CompletedWaitObservedAll
<1>6. QED
  BY <1>1, <1>2, <1>3, <1>4, <1>5 DEF MatchIndexExact, Trusted, Unresolved

\* The claim adds the email to the match index.
LEMMA ClaimForWaitStep ==
    ASSUME StoreInv, NEW e \in Emails, NEW req \in Requests, NEW token \in Waiters, ClaimForWait(e, req, token)
    PROVE  StoreInv'
<1> USE NoneAssumption DEF StoreInv, ClaimForWait, Exists, IsReplyTo, Trusted, Unresolved, mailVars, waitVars, restVars
<1>1. TypeOK'
  BY DEF TypeOK, OrNone, Details, NoDetails, Routes, NoRoute, Waits, NoWait, Statuses
<1>2. MatchIndexExact'
  <2> SUFFICES ASSUME NEW r \in Requests, NEW x \in Emails
               PROVE  <<r, x>> \in matches' <=> route'[x].kind = "wait" /\ route'[x].to = r
    BY DEF MatchIndexExact
  <2>1. <<r, x>> \in matches <=> route[x].kind = "wait" /\ route[x].to = r
    BY DEF MatchIndexExact
  <2>2. CASE x = e
    BY <2>1, <2>2 DEF TypeOK, Routes, NoRoute
  <2>3. CASE x # e
    BY <2>1, <2>3 DEF TypeOK, Routes, NoRoute
  <2>4. QED
    BY <2>2, <2>3
<1>3. RepliesTied'
  BY DEF TypeOK, OrNone, Details, NoDetails, Routes, NoRoute, Waits, NoWait, Statuses, RepliesTied, ParentIndexExact
<1>4. CompletedWaitObservedAll'
  BY DEF TypeOK, OrNone, Details, NoDetails, Routes, NoRoute, Waits, NoWait, Statuses, CompletedWaitObservedAll
<1>5. QED
  BY <1>1, <1>2, <1>3, <1>4 DEF UnboundIndexExact, ParentIndexExact, Trusted, Unresolved

\* Observing moves no email.
LEMMA MarkWaitObservedStep ==
    ASSUME StoreInv, NEW e \in Emails, NEW req \in Requests, MarkWaitObserved(e, req)
    PROVE  StoreInv'
<1> USE NoneAssumption DEF StoreInv, MarkWaitObserved, mailVars, waitVars, restVars
<1>1. TypeOK'
  BY DEF TypeOK, OrNone, Details, NoDetails, Routes, NoRoute, Waits, NoWait, Statuses
<1>2. MatchIndexExact'
  <2> SUFFICES ASSUME NEW r \in Requests, NEW x \in Emails
               PROVE  <<r, x>> \in matches' <=> route'[x].kind = "wait" /\ route'[x].to = r
    BY DEF MatchIndexExact
  <2>1. <<r, x>> \in matches <=> route[x].kind = "wait" /\ route[x].to = r
    BY DEF MatchIndexExact
  <2>2. CASE x = e
    BY <2>1, <2>2 DEF TypeOK, Routes, NoRoute
  <2>3. CASE x # e
    BY <2>1, <2>3 DEF TypeOK, Routes, NoRoute
  <2>4. QED
    BY <2>2, <2>3
<1>3. RepliesTied'
  BY DEF TypeOK, OrNone, Details, NoDetails, Routes, NoRoute, Waits, NoWait, Statuses, RepliesTied, Trusted
<1>4. CompletedWaitObservedAll'
  BY DEF TypeOK, OrNone, Details, NoDetails, Routes, NoRoute, Waits, NoWait, Statuses, CompletedWaitObservedAll
<1>5. QED
  BY <1>1, <1>2, <1>3, <1>4 DEF UnboundIndexExact, ParentIndexExact, Trusted, Unresolved

\* An email without a consumer becomes a notification.
LEMMA ClaimForNotificationStep ==
    ASSUME StoreInv, NEW e \in Emails, NEW session \in Sessions, ClaimForNotification(e, session)
    PROVE  StoreInv'
<1> USE NoneAssumption DEF StoreInv, ClaimForNotification, mailVars, waitVars, restVars
<1>1. TypeOK'
  BY DEF TypeOK, OrNone, Details, NoDetails, Routes, NoRoute, Waits, NoWait, Statuses
<1>2. MatchIndexExact'
  <2> SUFFICES ASSUME NEW r \in Requests, NEW x \in Emails
               PROVE  <<r, x>> \in matches' <=> route'[x].kind = "wait" /\ route'[x].to = r
    BY DEF MatchIndexExact
  <2>1. <<r, x>> \in matches <=> route[x].kind = "wait" /\ route[x].to = r
    BY DEF MatchIndexExact
  <2>2. CASE x = e
    BY <2>1, <2>2 DEF TypeOK, Routes, NoRoute
  <2>3. CASE x # e
    BY <2>1, <2>3 DEF TypeOK, Routes, NoRoute
  <2>4. QED
    BY <2>2, <2>3
<1>3. RepliesTied'
  BY DEF TypeOK, OrNone, Details, NoDetails, Routes, NoRoute, Waits, NoWait, Statuses, RepliesTied, Trusted
<1>4. CompletedWaitObservedAll'
  BY DEF TypeOK, OrNone, Details, NoDetails, Routes, NoRoute, Waits, NoWait, Statuses, CompletedWaitObservedAll
<1>5. QED
  BY <1>1, <1>2, <1>3, <1>4 DEF UnboundIndexExact, ParentIndexExact, Trusted, Unresolved

\* A notification given back was no wait's.
LEMMA ReleaseNotificationStep ==
    ASSUME StoreInv, NEW e \in Emails, NEW session \in Sessions, ReleaseNotification(e, session)
    PROVE  StoreInv'
<1> USE NoneAssumption DEF StoreInv, ReleaseNotification, Notified, mailVars, waitVars, restVars
<1>1. TypeOK'
  BY DEF TypeOK, OrNone, Details, NoDetails, Routes, NoRoute, Waits, NoWait, Statuses
<1>2. MatchIndexExact'
  <2> SUFFICES ASSUME NEW r \in Requests, NEW x \in Emails
               PROVE  <<r, x>> \in matches' <=> route'[x].kind = "wait" /\ route'[x].to = r
    BY DEF MatchIndexExact
  <2>1. <<r, x>> \in matches <=> route[x].kind = "wait" /\ route[x].to = r
    BY DEF MatchIndexExact
  <2>2. CASE x = e
    BY <2>1, <2>2 DEF TypeOK, Routes, NoRoute
  <2>3. CASE x # e
    BY <2>1, <2>3 DEF TypeOK, Routes, NoRoute
  <2>4. QED
    BY <2>2, <2>3
<1>3. RepliesTied'
  BY DEF TypeOK, OrNone, Details, NoDetails, Routes, NoRoute, Waits, NoWait, Statuses, RepliesTied, Trusted
<1>4. CompletedWaitObservedAll'
  BY DEF TypeOK, OrNone, Details, NoDetails, Routes, NoRoute, Waits, NoWait, Statuses, CompletedWaitObservedAll
<1>5. QED
  BY <1>1, <1>2, <1>3, <1>4 DEF UnboundIndexExact, ParentIndexExact, Trusted, Unresolved

\* A notification stays one.
LEMMA SkipNotificationStep ==
    ASSUME StoreInv, NEW e \in Emails, NEW session \in Sessions, SkipNotification(e, session)
    PROVE  StoreInv'
<1> USE NoneAssumption DEF StoreInv, SkipNotification, Notified, mailVars, waitVars, restVars
<1>1. TypeOK'
  BY DEF TypeOK, OrNone, Details, NoDetails, Routes, NoRoute, Waits, NoWait, Statuses
<1>2. MatchIndexExact'
  <2> SUFFICES ASSUME NEW r \in Requests, NEW x \in Emails
               PROVE  <<r, x>> \in matches' <=> route'[x].kind = "wait" /\ route'[x].to = r
    BY DEF MatchIndexExact
  <2>1. <<r, x>> \in matches <=> route[x].kind = "wait" /\ route[x].to = r
    BY DEF MatchIndexExact
  <2>2. CASE x = e
    BY <2>1, <2>2 DEF TypeOK, Routes, NoRoute
  <2>3. CASE x # e
    BY <2>1, <2>3 DEF TypeOK, Routes, NoRoute
  <2>4. QED
    BY <2>2, <2>3
<1>3. RepliesTied'
  BY DEF TypeOK, OrNone, Details, NoDetails, Routes, NoRoute, Waits, NoWait, Statuses, RepliesTied, Trusted
<1>4. CompletedWaitObservedAll'
  BY DEF TypeOK, OrNone, Details, NoDetails, Routes, NoRoute, Waits, NoWait, Statuses, CompletedWaitObservedAll
<1>5. QED
  BY <1>1, <1>2, <1>3, <1>4 DEF UnboundIndexExact, ParentIndexExact, Trusted, Unresolved

\* A notification stays one.
LEMMA MarkNotificationStep ==
    ASSUME StoreInv, NEW e \in Emails, NEW state \in {"submitting", "accepted", "unknown"}, MarkNotification(e, state)
    PROVE  StoreInv'
<1> USE NoneAssumption DEF StoreInv, MarkNotification, mailVars, waitVars, restVars
<1>1. TypeOK'
  BY DEF TypeOK, OrNone, Details, NoDetails, Routes, NoRoute, Waits, NoWait, Statuses
<1>2. MatchIndexExact'
  <2> SUFFICES ASSUME NEW r \in Requests, NEW x \in Emails
               PROVE  <<r, x>> \in matches' <=> route'[x].kind = "wait" /\ route'[x].to = r
    BY DEF MatchIndexExact
  <2>1. <<r, x>> \in matches <=> route[x].kind = "wait" /\ route[x].to = r
    BY DEF MatchIndexExact
  <2>2. CASE x = e
    BY <2>1, <2>2 DEF TypeOK, Routes, NoRoute
  <2>3. CASE x # e
    BY <2>1, <2>3 DEF TypeOK, Routes, NoRoute
  <2>4. QED
    BY <2>2, <2>3
<1>3. RepliesTied'
  BY DEF TypeOK, OrNone, Details, NoDetails, Routes, NoRoute, Waits, NoWait, Statuses, RepliesTied, Trusted
<1>4. CompletedWaitObservedAll'
  BY DEF TypeOK, OrNone, Details, NoDetails, Routes, NoRoute, Waits, NoWait, Statuses, CompletedWaitObservedAll
<1>5. QED
  BY <1>1, <1>2, <1>3, <1>4 DEF UnboundIndexExact, ParentIndexExact, Trusted, Unresolved

\* Following a thread moves no email.
LEMMA FollowStep ==
    ASSUME StoreInv, NEW t \in Threads, NEW session \in Sessions, Follow(t, session)
    PROVE  StoreInv'
<1> USE NoneAssumption DEF StoreInv, Follow, mailVars, waitVars, restVars
<1>1. TypeOK'
  BY DEF TypeOK, OrNone, Details, NoDetails, Routes, NoRoute, Waits, NoWait, Statuses
<1>2. QED
  BY <1>1 DEF UnboundIndexExact, ParentIndexExact, MatchIndexExact, RepliesTied, CompletedWaitObservedAll, Trusted, Unresolved

\* The end of a process changes no record.
LEMMA WaiterGoneStep ==
    ASSUME StoreInv, NEW owner \in Waiters, WaiterGone(owner)
    PROVE  StoreInv'
<1> USE NoneAssumption DEF StoreInv, WaiterGone, mailVars, waitVars, restVars
<1>1. TypeOK'
  BY DEF TypeOK, OrNone, Details, NoDetails, Routes, NoRoute, Waits, NoWait, Statuses
<1>2. QED
  BY <1>1 DEF UnboundIndexExact, ParentIndexExact, MatchIndexExact, RepliesTied, CompletedWaitObservedAll, Trusted, Unresolved

-----------------------------------------------------------------------------
\* An empty store has exact indexes.
LEMMA InitStoreInv == Init => StoreInv
  BY NoneAssumption
     DEF Init, StoreInv, TypeOK, OrNone, NoDetails, NoRoute, NoWait, Unresolved, Details,
         UnboundIndexExact, ParentIndexExact, MatchIndexExact, RepliesTied,
         CompletedWaitObservedAll

\* Every transaction keeps the store's invariant.
LEMMA NextStoreInv == StoreInv /\ [Next]_vars => StoreInv'
<1> SUFFICES ASSUME StoreInv, [Next]_vars PROVE StoreInv'
  OBVIOUS
<1>1. CASE Ingress
  BY <1>1, IngestStep, HydrateStep DEF Ingress
<1>2. CASE WaitLife
  BY <1>2, RegisterNewStep, RegisterAgainStep, JoinWaitStep, ReleaseWaiterStep,
     BindOwnStep, BindJoinStep, CancelWaitBeforeSendStep, CancelRejectedSendStep,
     MarkWaitUncertainStep, FinishWaitStep
     DEF WaitLife
<1>3. CASE Claims
  BY <1>3, ClaimForWaitStep, ObserveNotifiedContactReplyStep, MarkWaitObservedStep,
     ClaimForNotificationStep, ReleaseNotificationStep, SkipNotificationStep,
     MarkNotificationStep
     DEF Claims
<1>4. CASE \E t \in Threads, session \in Sessions : Follow(t, session)
  BY <1>4, FollowStep
<1>5. CASE \E owner \in Waiters : WaiterGone(owner)
  BY <1>5, WaiterGoneStep
<1>6. CASE UNCHANGED vars
  BY <1>6 DEF vars, mailVars, waitVars, restVars, StoreInv, TypeOK, UnboundIndexExact,
     ParentIndexExact, MatchIndexExact, RepliesTied, Trusted, CompletedWaitObservedAll
<1>7. QED
  BY <1>1, <1>2, <1>3, <1>4, <1>5, <1>6 DEF Next

\* The invariant holds in every reachable store.
LEMMA StoreInvariance == Spec => []StoreInv
  BY InitStoreInv, NextStoreInv, PTL DEF Spec

\* Records, routes and indexes always have the shape the code reads back.
THEOREM StoreTypeCorrect == Spec => []TypeOK
<1>1. StoreInv => TypeOK
  BY DEF StoreInv
<1>2. QED
  BY <1>1, StoreInvariance, PTL

\* Each index names exactly what the waits and routes say, after any sequence
\* of registrations, bindings, cancellations, claims and completions.
THEOREM IndexesAreExact == Spec => []IndexesExact
<1>1. StoreInv => IndexesExact
  BY DEF StoreInv, IndexesExact
<1>2. QED
  BY <1>1, StoreInvariance, PTL

\* A wait only ever gets authenticated replies to its own send.
THEOREM OnlyOwnReplies == Spec => []WaitGetsOnlyItsReplies
<1>1. StoreInv => WaitGetsOnlyItsReplies
  BY DEF StoreInv, RepliesTied, WaitGetsOnlyItsReplies
<1>2. QED
  BY <1>1, StoreInvariance, PTL

\* A completed plain wait has observed every reply it was given.
THEOREM CompletedWaitsAreDrained == Spec => []CompletedWaitObservedAll
<1>1. StoreInv => CompletedWaitObservedAll
  BY DEF StoreInv
<1>2. QED
  BY <1>1, StoreInvariance, PTL

-----------------------------------------------------------------------------
(* What a step may never do.                                               *)

\* The actions that write a route; every other step leaves them all alone.
LEMMA RouteWriters ==
    ASSUME Next
    PROVE  \/ route' = route
           \/ \E e \in Emails, req \in Requests, token \in Waiters : ClaimForWait(e, req, token)
           \/ \E e \in Emails, req \in Requests : MarkWaitObserved(e, req)
           \/ \E e \in Emails, session \in Sessions : ClaimForNotification(e, session)
           \/ \E e \in Emails, session \in Sessions : ReleaseNotification(e, session)
           \/ \E e \in Emails, session \in Sessions : SkipNotification(e, session)
           \/ \E e \in Emails, state \in {"submitting", "accepted", "unknown"} :
                MarkNotification(e, state)
<1>1. CASE Ingress
  BY <1>1 DEF Ingress, Ingest, Hydrate
<1>2. CASE WaitLife
  <2>1. \A req \in Requests, peer \in Peers, session \in OrNone(Sessions),
               contact \in OrNone(Contacts), owner \in OrNone(Waiters) :
          RegisterNew(req, peer, session, contact, owner) => route' = route
    BY DEF RegisterNew, mailVars
  <2>2. \A req \in Requests, peer \in Peers, session \in OrNone(Sessions),
               contact \in OrNone(Contacts), owner \in OrNone(Waiters) :
          RegisterAgain(req, peer, session, contact, owner) => route' = route
    BY DEF RegisterAgain, mailVars
  <2>3. \A req \in Requests, owner \in Waiters :
          JoinWait(req, owner) => route' = route
    BY DEF JoinWait, mailVars
  <2>4. \A req \in Requests, owner \in Waiters :
          ReleaseWaiter(req, owner) => route' = route
    BY DEF ReleaseWaiter, mailVars
  <2>5. \A req \in Requests, sent \in Sends :
          BindOwn(req, sent) => route' = route
    BY DEF BindOwn, mailVars
  <2>6. \A req \in Requests, sent \in Sends :
          BindJoin(req, sent) => route' = route
    BY DEF BindJoin, mailVars
  <2>7. \A req \in Requests :
          CancelWaitBeforeSend(req) => route' = route
    BY DEF CancelWaitBeforeSend, Cancel, mailVars
  <2>8. \A req \in Requests :
          CancelRejectedSend(req) => route' = route
    BY DEF CancelRejectedSend, Cancel, mailVars
  <2>9. \A req \in Requests :
          MarkWaitUncertain(req) => route' = route
    BY DEF MarkWaitUncertain, mailVars
  <2>10. \A req \in Requests :
          FinishWait(req) => route' = route
    BY DEF FinishWait, mailVars
  <2>11. route' = route
    BY <1>2, <2>1, <2>2, <2>3, <2>4, <2>5, <2>6, <2>7, <2>8, <2>9, <2>10 DEF WaitLife
  <2>12. QED
    BY <2>11
<1>3. CASE Claims
  <2>1. ASSUME NEW e \in Emails, NEW req \in Requests, NEW token \in Waiters,
               ObserveNotifiedContactReply(e, req, token)
        PROVE  route' = route
    BY <2>1 DEF ObserveNotifiedContactReply, mailVars
  <2>2. QED
    BY <1>3, <2>1 DEF Claims
<1>4. CASE \E t \in Threads, session \in Sessions : Follow(t, session)
  BY <1>4 DEF Follow, mailVars
<1>5. CASE \E owner \in Waiters : WaiterGone(owner)
  BY <1>5 DEF WaiterGone, mailVars
<1>6. QED
  BY <1>1, <1>2, <1>3, <1>4, <1>5 DEF Next

DeliveredOnceStep ==
    \A e \in Emails :
         /\ route[e].kind = "wait" =>
              /\ route'[e].kind = "wait" /\ route'[e].to = route[e].to
              /\ route[e].state = "observed" => route'[e].state = "observed"
         /\ route[e].kind = "notification" /\ route[e].state # "selected" =>
              /\ route'[e].kind = "notification" /\ route'[e].to = route[e].to
              /\ route[e].state \in {"accepted", "unknown", "skipped"} =>
                    route'[e].state = route[e].state

\* Every action that writes a route respects the consumer that has the email.
LEMMA RoutesMoveForward == StoreInv /\ Next => DeliveredOnceStep
<1> SUFFICES ASSUME StoreInv, Next PROVE DeliveredOnceStep
  OBVIOUS
<1>1. CASE route' = route
  BY <1>1 DEF DeliveredOnceStep
<1>2. ASSUME NEW e \in Emails, NEW req \in Requests, NEW token \in Waiters,
             ClaimForWait(e, req, token)
      PROVE  DeliveredOnceStep
  BY <1>2 DEF DeliveredOnceStep, ClaimForWait, NoRoute, StoreInv, TypeOK
<1>3. ASSUME NEW e \in Emails, NEW req \in Requests, MarkWaitObserved(e, req)
      PROVE  DeliveredOnceStep
  BY <1>3 DEF DeliveredOnceStep, MarkWaitObserved, StoreInv, TypeOK, Routes, NoRoute
<1>4. ASSUME NEW e \in Emails, NEW session \in Sessions, ClaimForNotification(e, session)
      PROVE  DeliveredOnceStep
  BY <1>4 DEF DeliveredOnceStep, ClaimForNotification, NoRoute, StoreInv, TypeOK
<1>5. ASSUME NEW e \in Emails, NEW session \in Sessions, ReleaseNotification(e, session)
      PROVE  DeliveredOnceStep
  BY <1>5 DEF DeliveredOnceStep, ReleaseNotification, Notified, StoreInv, TypeOK
<1>6. ASSUME NEW e \in Emails, NEW session \in Sessions, SkipNotification(e, session)
      PROVE  DeliveredOnceStep
  BY <1>6 DEF DeliveredOnceStep, SkipNotification, Notified, StoreInv, TypeOK, Routes, NoRoute
<1>7. ASSUME NEW e \in Emails, NEW state \in {"submitting", "accepted", "unknown"},
             MarkNotification(e, state)
      PROVE  DeliveredOnceStep
  BY <1>7 DEF DeliveredOnceStep, MarkNotification, StoreInv, TypeOK, Routes, NoRoute
<1>8. QED
  BY <1>1, <1>2, <1>3, <1>4, <1>5, <1>6, <1>7, RouteWriters

\* An email that a consumer may have seen is never given to another.
THEOREM NoSecondConsumer == Spec => DeliveredOnce
<1>1. StoreInv /\ [Next]_vars => [DeliveredOnceStep]_vars
  BY RoutesMoveForward
<1>2. QED
  BY <1>1, StoreInvariance, PTL DEF Spec, DeliveredOnce, DeliveredOnceStep

\* Only claimForNotification makes an email native.
LEMMA OnlyClaimsMakeNative ==
    ASSUME StoreInv, Next, NEW y \in Emails, route[y] = NoRoute, route'[y].kind = "notification"
    PROVE  \E e \in Emails, session \in Sessions : ClaimForNotification(e, session)
<1> SUFFICES ASSUME ~ \E e \in Emails, session \in Sessions : ClaimForNotification(e, session)
             PROVE  \A x \in Emails : route[x] = NoRoute => route'[x].kind # "notification"
  OBVIOUS
<1>1. CASE route' = route
  BY <1>1 DEF NoRoute
<1>2. ASSUME NEW e \in Emails, NEW req \in Requests, NEW token \in Waiters,
             ClaimForWait(e, req, token)
      PROVE  \A x \in Emails : route[x] = NoRoute => route'[x].kind # "notification"
  BY <1>2 DEF ClaimForWait, NoRoute, StoreInv, TypeOK
<1>3. ASSUME NEW e \in Emails, NEW req \in Requests, MarkWaitObserved(e, req)
      PROVE  \A x \in Emails : route[x] = NoRoute => route'[x].kind # "notification"
  BY <1>3 DEF MarkWaitObserved, NoRoute, StoreInv, TypeOK
<1>4. ASSUME NEW e \in Emails, NEW session \in Sessions, ReleaseNotification(e, session)
      PROVE  \A x \in Emails : route[x] = NoRoute => route'[x].kind # "notification"
  BY <1>4 DEF ReleaseNotification, Notified, NoRoute, StoreInv, TypeOK
<1>5. ASSUME NEW e \in Emails, NEW session \in Sessions, SkipNotification(e, session)
      PROVE  \A x \in Emails : route[x] = NoRoute => route'[x].kind # "notification"
  BY <1>5 DEF SkipNotification, Notified, NoRoute, StoreInv, TypeOK
<1>6. ASSUME NEW e \in Emails, NEW state \in {"submitting", "accepted", "unknown"},
             MarkNotification(e, state)
      PROVE  \A x \in Emails : route[x] = NoRoute => route'[x].kind # "notification"
  BY <1>6 DEF MarkNotification, NoRoute, StoreInv, TypeOK
<1>7. QED
  BY <1>1, <1>2, <1>3, <1>4, <1>5, <1>6, RouteWriters

NativeStep ==
    \A e \in Emails :
         route[e] = NoRoute /\ route'[e].kind = "notification" =>
            \A req \in Requests :
              waits[req].peer = details[e].peer =>
                /\ waits[req].status \notin Unresolved
                /\ (waits[req].status = "bound" /\ waits[req].sent = details[e].parent)
                     => waits[req].tracked /\ waits[req].waiters \subseteq gone

\* The exact indexes that claimForNotification looks at show it every wait that
\* could still want the email.
LEMMA NativeClaimSeesEveryWait == StoreInv /\ Next => NativeStep
<1> SUFFICES ASSUME StoreInv, Next PROVE NativeStep
  OBVIOUS
<1>1. CASE \E e \in Emails, session \in Sessions : ClaimForNotification(e, session)
  <2>1. PICK e \in Emails, session \in Sessions : ClaimForNotification(e, session)
    BY <1>1
  <2> SUFFICES ASSUME NEW x \in Emails, NEW req \in Requests,
                      route[x] = NoRoute, route'[x].kind = "notification",
                      waits[req].peer = details[x].peer
               PROVE  /\ waits[req].status \notin Unresolved
                      /\ (waits[req].status = "bound" /\ waits[req].sent = details[x].parent)
                           => waits[req].tracked /\ waits[req].waiters \subseteq gone
    BY DEF NativeStep
  <2>2. x = e
    BY <2>1 DEF ClaimForNotification, NoRoute, StoreInv, TypeOK
  <2>3. Trusted(x) /\ details[x].peer \in Peers
    BY <2>1, <2>2 DEF ClaimForNotification, Trusted, StoreInv, TypeOK, Details
  <2>4. waits[req].status \notin Unresolved
    <3>1. <<details[x].peer, req>> \notin unbound
      BY <2>1, <2>2 DEF ClaimForNotification, HeldByUnresolvedSend
    <3>2. QED
      BY <2>3, <3>1 DEF StoreInv, UnboundIndexExact
  <2>5. ASSUME waits[req].status = "bound", waits[req].sent = details[x].parent
        PROVE  waits[req].tracked /\ waits[req].waiters \subseteq gone
    <3>1. waits[req].sent # None /\ parents[waits[req].sent] = req
      BY <2>5 DEF StoreInv, ParentIndexExact
    <3>2. req # None
      BY NoneAssumption
    <3>3. ~HeldByParent(details[x], session)
      BY <2>1, <2>2 DEF ClaimForNotification
    <3>4. ~SomebodyWaits(waits[req])
      BY <2>5, <3>1, <3>2, <3>3 DEF HeldByParent
    <3>5. QED
      BY <3>4 DEF SomebodyWaits, MayBeWaiting
  <2>6. QED
    BY <2>4, <2>5
<1>2. CASE ~ \E e \in Emails, session \in Sessions : ClaimForNotification(e, session)
  BY <1>2, OnlyClaimsMakeNative DEF NativeStep
<1>3. QED
  BY <1>1, <1>2

\* A possible reply to an unresolved or still awaited send never goes native.
THEOREM NativeOnlyUnawaited == Spec => NativeOnlyWhenNobodyWaits
<1>1. StoreInv /\ [Next]_vars => [NativeStep]_vars
  BY NativeClaimSeesEveryWait
<1>2. QED
  BY <1>1, StoreInvariance, PTL DEF Spec, NativeOnlyWhenNobodyWaits, NativeStep

-----------------------------------------------------------------------------
WaitsEndOnceStep ==
    \A req \in Requests :
         /\ waits[req].status \in {"completed", "cancelled"} =>
              waits'[req].status = waits[req].status
         /\ waits[req].sent # None => waits'[req].sent = waits[req].sent

ConversationStep ==
    \A sent \in Sends :
         parents[sent] # None /\ waits[parents[sent]].session # None =>
            /\ parents'[sent] # None
            /\ waits'[parents'[sent]].session = waits[parents[sent]].session

WaitsForward == WaitsEndOnceStep /\ ConversationStep

\* Waits only ever move to their end, and a send keeps its session.
LEMMA WaitsMoveForward == StoreInv /\ [Next]_vars => WaitsForward
<1> SUFFICES ASSUME StoreInv, [Next]_vars PROVE WaitsForward
  OBVIOUS
<1> USE NoneAssumption
<1>1. CASE UNCHANGED waitVars
  BY <1>1 DEF WaitsForward, WaitsEndOnceStep, ConversationStep, waitVars
<1>2. ASSUME NEW req \in Requests, NEW peer \in Peers, NEW session \in OrNone(Sessions), NEW contact \in OrNone(Contacts), NEW owner \in OrNone(Waiters), RegisterNew(req, peer, session, contact, owner)
      PROVE  WaitsForward
  <2>1. WaitsEndOnceStep
    BY <1>2 DEF WaitsEndOnceStep, RegisterNew, Exists, StoreInv, TypeOK, OrNone, Waits, NoWait, Statuses, ParentIndexExact, mailVars, waitVars, restVars
  <2>2. ConversationStep
    BY <1>2 DEF ConversationStep, RegisterNew, Exists, StoreInv, TypeOK, OrNone, Waits, NoWait, Statuses, ParentIndexExact, mailVars, waitVars, restVars
  <2>3. QED
    BY <2>1, <2>2 DEF WaitsForward
<1>3. ASSUME NEW req \in Requests, NEW peer \in Peers, NEW session \in OrNone(Sessions), NEW contact \in OrNone(Contacts), NEW owner \in OrNone(Waiters), RegisterAgain(req, peer, session, contact, owner)
      PROVE  WaitsForward
  <2>1. WaitsEndOnceStep
    BY <1>3 DEF WaitsEndOnceStep, RegisterAgain, Exists, AddWaiters, StoreInv, TypeOK, OrNone, Waits, NoWait, Statuses, ParentIndexExact, mailVars, waitVars, restVars
  <2>2. ConversationStep
    BY <1>3 DEF ConversationStep, RegisterAgain, Exists, AddWaiters, StoreInv, TypeOK, OrNone, Waits, NoWait, Statuses, ParentIndexExact, mailVars, waitVars, restVars
  <2>3. QED
    BY <2>1, <2>2 DEF WaitsForward
<1>4. ASSUME NEW req \in Requests, NEW owner \in Waiters, JoinWait(req, owner)
      PROVE  WaitsForward
  <2>1. WaitsEndOnceStep
    BY <1>4 DEF WaitsEndOnceStep, JoinWait, AddWaiters, StoreInv, TypeOK, OrNone, Waits, NoWait, Statuses, ParentIndexExact, mailVars, waitVars, restVars
  <2>2. ConversationStep
    BY <1>4 DEF ConversationStep, JoinWait, AddWaiters, StoreInv, TypeOK, OrNone, Waits, NoWait, Statuses, ParentIndexExact, mailVars, waitVars, restVars
  <2>3. QED
    BY <2>1, <2>2 DEF WaitsForward
<1>5. ASSUME NEW req \in Requests, NEW owner \in Waiters, ReleaseWaiter(req, owner)
      PROVE  WaitsForward
  <2>1. WaitsEndOnceStep
    BY <1>5 DEF WaitsEndOnceStep, ReleaseWaiter, StoreInv, TypeOK, OrNone, Waits, NoWait, Statuses, ParentIndexExact, mailVars, waitVars, restVars
  <2>2. ConversationStep
    BY <1>5 DEF ConversationStep, ReleaseWaiter, StoreInv, TypeOK, OrNone, Waits, NoWait, Statuses, ParentIndexExact, mailVars, waitVars, restVars
  <2>3. QED
    BY <2>1, <2>2 DEF WaitsForward
<1>6. ASSUME NEW req \in Requests, CancelWaitBeforeSend(req)
      PROVE  WaitsForward
  <2>1. WaitsEndOnceStep
    BY <1>6 DEF WaitsEndOnceStep, CancelWaitBeforeSend, Cancel, StoreInv, TypeOK, OrNone, Waits, NoWait, Statuses, ParentIndexExact, mailVars, waitVars, restVars
  <2>2. ConversationStep
    BY <1>6 DEF ConversationStep, CancelWaitBeforeSend, Cancel, StoreInv, TypeOK, OrNone, Waits, NoWait, Statuses, ParentIndexExact, mailVars, waitVars, restVars
  <2>3. QED
    BY <2>1, <2>2 DEF WaitsForward
<1>7. ASSUME NEW req \in Requests, CancelRejectedSend(req)
      PROVE  WaitsForward
  <2>1. WaitsEndOnceStep
    BY <1>7 DEF WaitsEndOnceStep, CancelRejectedSend, Cancel, StoreInv, TypeOK, OrNone, Waits, NoWait, Statuses, ParentIndexExact, mailVars, waitVars, restVars
  <2>2. ConversationStep
    BY <1>7 DEF ConversationStep, CancelRejectedSend, Cancel, StoreInv, TypeOK, OrNone, Waits, NoWait, Statuses, ParentIndexExact, mailVars, waitVars, restVars
  <2>3. QED
    BY <2>1, <2>2 DEF WaitsForward
<1>8. ASSUME NEW req \in Requests, MarkWaitUncertain(req)
      PROVE  WaitsForward
  <2>1. WaitsEndOnceStep
    BY <1>8 DEF WaitsEndOnceStep, MarkWaitUncertain, Unresolved, StoreInv, TypeOK, OrNone, Waits, NoWait, Statuses, ParentIndexExact, mailVars, waitVars, restVars
  <2>2. ConversationStep
    BY <1>8 DEF ConversationStep, MarkWaitUncertain, Unresolved, StoreInv, TypeOK, OrNone, Waits, NoWait, Statuses, ParentIndexExact, mailVars, waitVars, restVars
  <2>3. QED
    BY <2>1, <2>2 DEF WaitsForward
<1>9. ASSUME NEW req \in Requests, FinishWait(req)
      PROVE  WaitsForward
  <2>1. WaitsEndOnceStep
    BY <1>9 DEF WaitsEndOnceStep, FinishWait, StoreInv, TypeOK, OrNone, Waits, NoWait, Statuses, ParentIndexExact, mailVars, waitVars, restVars
  <2>2. ConversationStep
    BY <1>9 DEF ConversationStep, FinishWait, StoreInv, TypeOK, OrNone, Waits, NoWait, Statuses, ParentIndexExact, mailVars, waitVars, restVars
  <2>3. QED
    BY <2>1, <2>2 DEF WaitsForward
<1>10. ASSUME NEW e \in Emails, NEW req \in Requests, NEW token \in Waiters, ObserveNotifiedContactReply(e, req, token)
      PROVE  WaitsForward
  <2>1. WaitsEndOnceStep
    BY <1>10 DEF WaitsEndOnceStep, ObserveNotifiedContactReply, StoreInv, TypeOK, OrNone, Waits, NoWait, Statuses, ParentIndexExact, mailVars, waitVars, restVars
  <2>2. ConversationStep
    BY <1>10 DEF ConversationStep, ObserveNotifiedContactReply, StoreInv, TypeOK, OrNone, Waits, NoWait, Statuses, ParentIndexExact, mailVars, waitVars, restVars
  <2>3. QED
    BY <2>1, <2>2 DEF WaitsForward
<1>11. ASSUME NEW req \in Requests, NEW sent \in Sends, BindOwn(req, sent)
      PROVE  WaitsForward
  <2>1. WaitsEndOnceStep
    BY <1>11 DEF WaitsEndOnceStep, BindOwn, StoreInv, TypeOK, Waits, NoWait
  <2>2. ASSUME NEW s \in Sends, parents[s] # None, waits[parents[s]].session # None
        PROVE  parents'[s] # None /\ waits'[parents'[s]].session = waits[parents[s]].session
    <3>1. parents[s] \in Requests /\ waits[parents[s]].sent = s
      BY <2>2 DEF StoreInv, TypeOK, OrNone, ParentIndexExact
    <3>2. CASE s = sent
      <4>1. parents'[s] = req
        BY <1>11, <3>2 DEF BindOwn, StoreInv, TypeOK
      <4>2. waits'[req].session = waits[parents[s]].session
        BY <1>11, <2>2, <3>1, <3>2 DEF BindOwn, Compatible, StoreInv, TypeOK, Waits, NoWait
      <4>3. QED
        BY <4>1, <4>2
    <3>3. CASE s # sent
      <4>1. parents'[s] = parents[s]
        BY <1>11, <3>3 DEF BindOwn, StoreInv, TypeOK
      <4>2. parents[s] # req
        BY <1>11, <2>2, <3>1, <3>3 DEF BindOwn
      <4>3. waits'[parents[s]] = waits[parents[s]]
        BY <1>11, <3>1, <4>2 DEF BindOwn, StoreInv, TypeOK
      <4>4. QED
        BY <2>2, <4>1, <4>3
    <3>4. QED
      BY <3>2, <3>3
  <2>3. QED
    BY <2>1, <2>2 DEF WaitsForward, ConversationStep
<1>12. ASSUME NEW req \in Requests, NEW sent \in Sends, BindJoin(req, sent)
      PROVE  WaitsForward
  <2> DEFINE other == parents[sent]
             joined == IF waits[req].tracked THEN AddWaiters(waits[other], waits[req].waiters)
                       ELSE [waits[other] EXCEPT !.tracked = FALSE, !.waiters = {}]
  <2>1. /\ other \in Requests /\ other # req /\ waits[other] \in Waits /\ waits[req] \in Waits
        /\ waits[other].status = "bound"
        /\ waits[req].status \in {"unbound", "cancelled"} /\ waits[req].sent \in {None, sent}
    BY <1>12 DEF BindJoin, Compatible, StoreInv, TypeOK, OrNone, Waits, NoWait
  <2>2. /\ waits' = [waits EXCEPT ![other] = joined,
              ![req] = [waits[req] EXCEPT !.status = "cancelled", !.sent = sent, !.waiters = {}]]
        /\ parents' = parents
    BY <1>12 DEF BindJoin
  <2>3. /\ joined.status = waits[other].status /\ joined.sent = waits[other].sent
        /\ joined.session = waits[other].session
    BY <2>1 DEF AddWaiters, Waits
  <2> HIDE DEF joined
  <2>4. /\ waits'[other] = joined
        /\ waits'[req] = [waits[req] EXCEPT !.status = "cancelled", !.sent = sent, !.waiters = {}]
        /\ \A r \in Requests \ {req, other} : waits'[r] = waits[r]
    BY <2>1, <2>2 DEF StoreInv, TypeOK
  <2>5. WaitsEndOnceStep
    BY <2>1, <2>3, <2>4 DEF WaitsEndOnceStep, Waits
  <2>6. \A r \in Requests : waits'[r].session = waits[r].session
    BY <2>1, <2>3, <2>4 DEF Waits
  <2>7. ConversationStep
    BY <2>2, <2>6 DEF ConversationStep, StoreInv, TypeOK, OrNone
  <2>8. QED
    BY <2>5, <2>7 DEF WaitsForward
<1>13. CASE Ingress
  BY <1>1, <1>13 DEF Ingress, Ingest, Hydrate
<1>14. CASE WaitLife
  BY <1>2, <1>3, <1>4, <1>5, <1>6, <1>7, <1>8, <1>9, <1>11, <1>12, <1>14 DEF WaitLife
<1>15. CASE Claims
  <2>1. ASSUME NEW e \in Emails,
               \/ \E req \in Requests, token \in Waiters : ClaimForWait(e, req, token)
               \/ \E req \in Requests : MarkWaitObserved(e, req)
               \/ \E session \in Sessions :
                    \/ ClaimForNotification(e, session)
                    \/ ReleaseNotification(e, session) \/ SkipNotification(e, session)
               \/ \E state \in {"submitting", "accepted", "unknown"} : MarkNotification(e, state)
        PROVE  UNCHANGED waitVars
    BY <2>1 DEF ClaimForWait, MarkWaitObserved, ClaimForNotification, ReleaseNotification,
       SkipNotification, MarkNotification
  <2>2. QED
    BY <1>1, <1>10, <1>15, <2>1 DEF Claims
<1>16. CASE \/ \E t \in Threads, session \in Sessions : Follow(t, session)
            \/ \E owner \in Waiters : WaiterGone(owner)
            \/ UNCHANGED vars
  BY <1>1, <1>16 DEF Follow, WaiterGone, vars, waitVars
<1>17. QED
  BY <1>13, <1>14, <1>15, <1>16 DEF Next

\* A cancelled or completed wait never waits again, and never changes its send.
THEOREM WaitsNeverRestart == Spec => WaitsEndOnce
<1>1. StoreInv /\ [Next]_vars => [WaitsEndOnceStep]_vars
  BY WaitsMoveForward DEF WaitsForward
<1>2. QED
  BY <1>1, StoreInvariance, PTL DEF Spec, WaitsEndOnce, WaitsEndOnceStep

\* A later wait on the same send never moves its conversation to another session.
THEOREM SessionIsKept == Spec => ConversationKeepsSession
<1>1. StoreInv /\ [Next]_vars => [ConversationStep]_vars
  BY WaitsMoveForward DEF WaitsForward
<1>2. QED
  BY <1>1, StoreInvariance, PTL DEF Spec, ConversationKeepsSession, ConversationStep

-----------------------------------------------------------------------------
(* A completed wait has its reply.                                         *)

\* The two ways to complete a wait.
CompletesNow(req) ==
    \/ FinishWait(req)
    \/ \E e \in Emails, token \in Waiters : ObserveNotifiedContactReply(e, req, token)

WaitsKept ==
    \A r \in Requests :
        /\ waits[r].status # "absent" =>
              waits'[r].peer = waits[r].peer /\ waits'[r].contact = waits[r].contact
        /\ waits'[r].status = "completed" => waits[r].status = "completed" \/ CompletesNow(r)

\* Nothing else completes a wait, and no wait is given to another peer or contact.
LEMMA WaitsKeepTheirPeer == StoreInv /\ [Next]_vars => WaitsKept
<1> SUFFICES ASSUME StoreInv, [Next]_vars PROVE WaitsKept
  OBVIOUS
<1> USE NoneAssumption
<1>1. CASE UNCHANGED waitVars
  BY <1>1 DEF WaitsKept, waitVars
<1>2. ASSUME NEW req \in Requests, NEW peer \in Peers, NEW session \in OrNone(Sessions),
             NEW contact \in OrNone(Contacts), NEW owner \in OrNone(Waiters),
             RegisterNew(req, peer, session, contact, owner)
      PROVE  WaitsKept
  BY <1>2 DEF WaitsKept, RegisterNew, Exists, StoreInv, TypeOK, Waits, NoWait, mailVars, restVars
<1>3. ASSUME NEW req \in Requests, NEW peer \in Peers, NEW session \in OrNone(Sessions),
             NEW contact \in OrNone(Contacts), NEW owner \in OrNone(Waiters),
             RegisterAgain(req, peer, session, contact, owner)
      PROVE  WaitsKept
  BY <1>3 DEF WaitsKept, RegisterAgain, AddWaiters, StoreInv, TypeOK, Waits, NoWait, mailVars, restVars
<1>4. ASSUME NEW req \in Requests, NEW owner \in Waiters, JoinWait(req, owner)
      PROVE  WaitsKept
  BY <1>4 DEF WaitsKept, JoinWait, AddWaiters, StoreInv, TypeOK, Waits, NoWait, mailVars, restVars
<1>5. ASSUME NEW req \in Requests, NEW owner \in Waiters, ReleaseWaiter(req, owner)
      PROVE  WaitsKept
  BY <1>5 DEF WaitsKept, ReleaseWaiter, StoreInv, TypeOK, Waits, NoWait, mailVars, restVars
<1>6. ASSUME NEW req \in Requests, CancelWaitBeforeSend(req)
      PROVE  WaitsKept
  BY <1>6 DEF WaitsKept, CancelWaitBeforeSend, Cancel, StoreInv, TypeOK, Waits, NoWait, mailVars, restVars
<1>7. ASSUME NEW req \in Requests, CancelRejectedSend(req)
      PROVE  WaitsKept
  BY <1>7 DEF WaitsKept, CancelRejectedSend, Cancel, StoreInv, TypeOK, Waits, NoWait, mailVars, restVars
<1>8. ASSUME NEW req \in Requests, MarkWaitUncertain(req)
      PROVE  WaitsKept
  BY <1>8 DEF WaitsKept, MarkWaitUncertain, StoreInv, TypeOK, Waits, NoWait, mailVars, restVars
<1>9. ASSUME NEW req \in Requests, FinishWait(req)
      PROVE  WaitsKept
  <2>1. waits' = [waits EXCEPT ![req].status = "completed"]
    BY <1>9 DEF FinishWait
  <2>2. CompletesNow(req)
    BY <1>9 DEF CompletesNow
  <2>3. QED
    BY <2>1, <2>2 DEF WaitsKept, StoreInv, TypeOK, Waits, NoWait
<1>10. ASSUME NEW req \in Requests, NEW sent \in Sends, BindOwn(req, sent)
      PROVE  WaitsKept
  BY <1>10 DEF WaitsKept, BindOwn, StoreInv, TypeOK, Waits, NoWait, mailVars, restVars
<1>11. ASSUME NEW e \in Emails, NEW req \in Requests, NEW token \in Waiters,
             ObserveNotifiedContactReply(e, req, token)
      PROVE  WaitsKept
  <2>1. waits' = [waits EXCEPT ![req].status = "completed"]
    BY <1>11 DEF ObserveNotifiedContactReply
  <2>2. CompletesNow(req)
    BY <1>11 DEF CompletesNow
  <2>3. QED
    BY <2>1, <2>2 DEF WaitsKept, StoreInv, TypeOK, Waits, NoWait
<1>12. ASSUME NEW req \in Requests, NEW sent \in Sends, BindJoin(req, sent)
      PROVE  WaitsKept
  <2> DEFINE other == parents[sent]
             joined == IF waits[req].tracked THEN AddWaiters(waits[other], waits[req].waiters)
                       ELSE [waits[other] EXCEPT !.tracked = FALSE, !.waiters = {}]
  <2>1. /\ other \in Requests /\ other # req /\ waits[other] \in Waits /\ waits[req] \in Waits
    BY <1>12 DEF BindJoin, Compatible, StoreInv, TypeOK, OrNone, Waits, NoWait
  <2>2. waits' = [waits EXCEPT ![other] = joined,
              ![req] = [waits[req] EXCEPT !.status = "cancelled", !.sent = sent, !.waiters = {}]]
    BY <1>12 DEF BindJoin
  <2>3. /\ joined.status = waits[other].status /\ joined.peer = waits[other].peer
        /\ joined.contact = waits[other].contact
    BY <2>1 DEF AddWaiters, Waits
  <2> HIDE DEF joined
  <2>4. /\ waits'[other] = joined
        /\ waits'[req] = [waits[req] EXCEPT !.status = "cancelled", !.sent = sent, !.waiters = {}]
        /\ \A r \in Requests \ {req, other} : waits'[r] = waits[r]
    BY <2>1, <2>2 DEF StoreInv, TypeOK
  <2>5. QED
    BY <2>1, <2>3, <2>4 DEF WaitsKept, Waits
<1>13. CASE Ingress
  BY <1>1, <1>13 DEF Ingress, Ingest, Hydrate
<1>14. CASE WaitLife
  BY <1>2, <1>3, <1>4, <1>5, <1>6, <1>7, <1>8, <1>9, <1>10, <1>12, <1>14 DEF WaitLife
<1>15. CASE Claims
  <2>1. ASSUME NEW e \in Emails,
               \/ \E req \in Requests, token \in Waiters : ClaimForWait(e, req, token)
               \/ \E req \in Requests : MarkWaitObserved(e, req)
               \/ \E session \in Sessions :
                    \/ ClaimForNotification(e, session)
                    \/ ReleaseNotification(e, session) \/ SkipNotification(e, session)
               \/ \E state \in {"submitting", "accepted", "unknown"} : MarkNotification(e, state)
        PROVE  UNCHANGED waitVars
    BY <2>1 DEF ClaimForWait, MarkWaitObserved, ClaimForNotification, ReleaseNotification,
       SkipNotification, MarkNotification
  <2>2. QED
    BY <1>1, <1>11, <1>15, <2>1 DEF Claims
<1>16. CASE \/ \E t \in Threads, session \in Sessions : Follow(t, session)
            \/ \E owner \in Waiters : WaiterGone(owner)
            \/ UNCHANGED vars
  BY <1>1, <1>16 DEF Follow, WaiterGone, vars, waitVars
<1>17. QED
  BY <1>13, <1>14, <1>15, <1>16 DEF Next

VerdictsKept ==
    \A e \in Emails : Trusted(e) =>
        /\ Trusted(e)' /\ details'[e].peer = details[e].peer
        /\ details[e].parent # None => details'[e].parent = details[e].parent

\* Verdicts are final, and so are the sender and the parent they were given for.
LEMMA VerdictsAreFinal == StoreInv /\ [Next]_vars => VerdictsKept
<1> SUFFICES ASSUME StoreInv, [Next]_vars PROVE VerdictsKept
  OBVIOUS
<1> USE NoneAssumption
<1>1. CASE UNCHANGED details
  BY <1>1 DEF VerdictsKept, Trusted
<1>2. ASSUME NEW e \in Emails, NEW d \in Details, Hydrate(e, d)
      PROVE  VerdictsKept
  BY <1>2 DEF VerdictsKept, Hydrate, Verified, Trusted, StoreInv, TypeOK, OrNone, Details, NoDetails
<1>3. CASE Ingress
  BY <1>1, <1>2, <1>3 DEF Ingress, Ingest
<1>4. CASE WaitLife
  <2>1. \A req \in Requests, peer \in Peers, session \in OrNone(Sessions),
               contact \in OrNone(Contacts), owner \in OrNone(Waiters) :
          RegisterNew(req, peer, session, contact, owner) => details' = details
    BY DEF RegisterNew, mailVars
  <2>2. \A req \in Requests, peer \in Peers, session \in OrNone(Sessions),
               contact \in OrNone(Contacts), owner \in OrNone(Waiters) :
          RegisterAgain(req, peer, session, contact, owner) => details' = details
    BY DEF RegisterAgain, mailVars
  <2>3. \A req \in Requests, owner \in Waiters : JoinWait(req, owner) => details' = details
    BY DEF JoinWait, mailVars
  <2>4. \A req \in Requests, owner \in Waiters : ReleaseWaiter(req, owner) => details' = details
    BY DEF ReleaseWaiter, mailVars
  <2>5. \A req \in Requests, sent \in Sends : BindOwn(req, sent) => details' = details
    BY DEF BindOwn, mailVars
  <2>6. \A req \in Requests, sent \in Sends : BindJoin(req, sent) => details' = details
    BY DEF BindJoin, mailVars
  <2>7. \A req \in Requests : CancelWaitBeforeSend(req) => details' = details
    BY DEF CancelWaitBeforeSend, Cancel, mailVars
  <2>8. \A req \in Requests : CancelRejectedSend(req) => details' = details
    BY DEF CancelRejectedSend, Cancel, mailVars
  <2>9. \A req \in Requests : MarkWaitUncertain(req) => details' = details
    BY DEF MarkWaitUncertain, mailVars
  <2>10. \A req \in Requests : FinishWait(req) => details' = details
    BY DEF FinishWait, mailVars
  <2>11. details' = details
    BY <1>4, <2>1, <2>2, <2>3, <2>4, <2>5, <2>6, <2>7, <2>8, <2>9, <2>10 DEF WaitLife
  <2>12. QED
    BY <1>1, <2>11
<1>5. CASE Claims
  BY <1>1, <1>5 DEF Claims, ClaimForWait, ObserveNotifiedContactReply, MarkWaitObserved,
     ClaimForNotification, ReleaseNotification, SkipNotification, MarkNotification, mailVars
<1>6. CASE \/ \E t \in Threads, session \in Sessions : Follow(t, session)
           \/ \E owner \in Waiters : WaiterGone(owner)
           \/ UNCHANGED vars
  BY <1>1, <1>6 DEF Follow, WaiterGone, vars, mailVars
<1>7. QED
  BY <1>3, <1>4, <1>5, <1>6 DEF Next

(***************************************************************************)
(* A completed wait has a send, so a reply to it names a parent, and that is *)
(* kept by every later verdict.                                            *)
(***************************************************************************)
CompletedInv ==
    /\ CompletedByAReply
    /\ \A req \in Requests : waits[req].status = "completed" => waits[req].sent # None

LEMMA CompletedStep == ASSUME StoreInv, CompletedInv, [Next]_vars PROVE CompletedInv'
<1> SUFFICES ASSUME NEW req \in Requests, waits'[req].status = "completed"
             PROVE  /\ waits'[req].sent # None
                    /\ \E e \in Emails :
                         /\ IsReplyTo(e, waits[req])'
                         /\ \/ route'[e] = [kind |-> "wait", to |-> req, state |-> "observed"]
                            \/ /\ waits'[req].contact # None
                               /\ route'[e].kind = "notification"
                               /\ route'[e].state \in {"accepted", "skipped"}
  BY DEF CompletedInv, CompletedByAReply
<1>1. /\ waits[req].status # "absent" =>
            waits'[req].peer = waits[req].peer /\ waits'[req].contact = waits[req].contact
      /\ waits[req].status = "completed" \/ CompletesNow(req)
  BY WaitsKeepTheirPeer DEF WaitsKept
<1>2. CASE waits[req].status = "completed"
  <2>1. PICK e \in Emails :
          /\ IsReplyTo(e, waits[req])
          /\ \/ route[e] = [kind |-> "wait", to |-> req, state |-> "observed"]
             \/ /\ waits[req].contact # None
                /\ route[e].kind = "notification"
                /\ route[e].state \in {"accepted", "skipped"}
    BY <1>2 DEF CompletedInv, CompletedByAReply
  <2>2. waits[req].sent # None /\ waits'[req].sent = waits[req].sent
    BY <1>2, WaitsMoveForward DEF CompletedInv, WaitsForward, WaitsEndOnceStep
  <2>3. IsReplyTo(e, waits[req])'
    BY <1>1, <1>2, <2>1, <2>2, VerdictsAreFinal DEF VerdictsKept, IsReplyTo
  <2>4. /\ route[e].kind = "wait" =>
              /\ route'[e].kind = "wait" /\ route'[e].to = route[e].to
              /\ route[e].state = "observed" => route'[e].state = "observed"
        /\ route[e].kind = "notification" /\ route[e].state # "selected" =>
              /\ route'[e].kind = "notification"
              /\ route[e].state \in {"accepted", "skipped"} => route'[e].state = route[e].state
    BY RoutesMoveForward DEF DeliveredOnceStep, vars, mailVars
  <2>5. route'[e] \in Routes \union {NoRoute}
    BY NextStoreInv DEF StoreInv, TypeOK
  <2>6. \/ route'[e] = [kind |-> "wait", to |-> req, state |-> "observed"]
        \/ /\ waits'[req].contact # None
           /\ route'[e].kind = "notification"
           /\ route'[e].state \in {"accepted", "skipped"}
    BY <1>1, <1>2, <2>1, <2>4, <2>5 DEF Routes, NoRoute
  <2>7. QED
    BY <2>2, <2>3, <2>6
<1>3. CASE FinishWait(req)
  <2>1. PICK e \in Emails : <<req, e>> \in matches
    BY <1>3 DEF FinishWait
  <2>2. route[e] = [kind |-> "wait", to |-> req, state |-> "observed"]
    BY <1>3, <2>1 DEF FinishWait
  <2>3. IsReplyTo(e, waits[req]) /\ waits[req].sent # None
    BY <2>2 DEF StoreInv, RepliesTied, IsReplyTo
  <2>4. /\ route' = route /\ details' = details /\ waits'[req].sent = waits[req].sent
        /\ waits'[req].peer = waits[req].peer
    BY <1>3 DEF FinishWait, mailVars, StoreInv, TypeOK, Waits, NoWait
  <2>5. QED
    BY <2>2, <2>3, <2>4 DEF IsReplyTo, Trusted
<1>4. ASSUME NEW e \in Emails, NEW token \in Waiters, ObserveNotifiedContactReply(e, req, token)
      PROVE  /\ waits'[req].sent # None
             /\ IsReplyTo(e, waits[req])'
             /\ waits'[req].contact # None
             /\ route'[e].kind = "notification"
             /\ route'[e].state \in {"accepted", "skipped"}
  <2>1. /\ route' = route /\ details' = details /\ waits'[req].sent = waits[req].sent
        /\ waits'[req].peer = waits[req].peer /\ waits'[req].contact = waits[req].contact
    BY <1>4 DEF ObserveNotifiedContactReply, mailVars, StoreInv, TypeOK, Waits, NoWait
  <2>2. waits[req].sent # None
    BY <1>4 DEF ObserveNotifiedContactReply, StoreInv, ParentIndexExact, CompletedInv
  <2>3. QED
    BY <1>4, <2>1, <2>2 DEF ObserveNotifiedContactReply, IsReplyTo, Trusted
<1>5. QED
  BY <1>1, <1>2, <1>3, <1>4 DEF CompletesNow

\* No wait is completed without a reply that a consumer has, and it has it for
\* good (finishWait and observeNotifiedContactReply, shared-mail-state.ts).
THEOREM CompletedWaitsHaveReplies == Spec => []CompletedByAReply
<1>1. Init => CompletedInv
  BY DEF Init, NoWait, CompletedInv, CompletedByAReply
<1>2. StoreInv /\ CompletedInv /\ [Next]_vars => CompletedInv'
  BY CompletedStep
<1>3. CompletedInv => CompletedByAReply
  BY DEF CompletedInv
<1>4. QED
  BY <1>1, <1>2, <1>3, StoreInvariance, PTL DEF Spec

-----------------------------------------------------------------------------
(* The readers.                                                            *)

ListenerType == listener \in [Sessions -> [stage : Stages, email : OrNone(Emails)]]
ListenerKnows ==
    \A k \in Sessions : listener[k].stage \notin {"off", "scan"} =>
        listener[k].email \in Emails /\ mail[listener[k].email] \in Details

\* What a command and a listener know at the steps where they use it.
Known ==
    /\ cmd.step # "idle" => /\ cmd.token \in Waiters /\ cmd.wait \in Requests
                            /\ receipt.key \in Requests
    /\ cmd.step \in {"ingest", "hydrate", "claim", "follow", "keep", "observe", "finish",
                     "complete", "report"}
         => cmd.reply \in Emails /\ mail[cmd.reply] \in Details
    /\ cmd.step \in {"openBind", "bind"} => receipt.sent \in Sends
    /\ ~receipt.done => receipt.key \in Requests
    /\ receipt.reply # None => receipt.by \in Requests
    /\ \A key \in Requests : outcome[key] = "accepted" => sentAs[key] \in Sends
    /\ \A e \in known : mail[e] \in Details
    /\ ListenerKnows
    /\ \A k \in Sessions : pending[k] # NoUpdate => pending[k].email \in Emails

WellFormed == StoreInv /\ ReadersTypeOK /\ Known

-----------------------------------------------------------------------------
\* The service moves on without touching what the readers do.
LEMMA ServerStep ==
    ASSUME WellFormed, ServerNext, UNCHANGED <<chatVars, notifyVars>>
    PROVE  [Next]_vars /\ ReadersTypeOK' /\ Known'
<1> USE NoneAssumption DEF chatVars, notifyVars
<1>1. ASSUME NEW key \in Requests, Accept(key)
      PROVE  [Next]_vars /\ ReadersTypeOK' /\ Known'
  BY <1>1 DEF Accept, WellFormed, ReadersTypeOK, Known, ListenerKnows, vars, OrNone
<1>2. ASSUME NEW key \in Requests, Refuse(key)
      PROVE  [Next]_vars /\ ReadersTypeOK' /\ Known'
  BY <1>2 DEF Refuse, WellFormed, ReadersTypeOK, Known, ListenerKnows, vars, OrNone
<1>3. ASSUME NEW e \in Emails, Arrive(e)
      PROVE  [Next]_vars /\ ReadersTypeOK' /\ Known'
  BY <1>3 DEF Arrive, WellFormed, ReadersTypeOK, Known, ListenerKnows, vars, OrNone, Details
<1>4. ASSUME NEW e \in Emails, Receive(e)
      PROVE  [Next]_vars /\ ReadersTypeOK' /\ Known'
  <2>1. PICK v \in Events : Ingest(v, e)
    BY <1>4 DEF Receive
  <2>2. [Next]_vars
    BY <2>1 DEF Next, Ingress
  <2>3. QED
    BY <1>4, <2>1, <2>2 DEF Receive, serverVars, Ingest, WellFormed, ReadersTypeOK, Known, ListenerKnows
<1>5. QED
  BY <1>1, <1>2, <1>3, <1>4 DEF ServerNext

\* The steps of a chat command: each is a call of the store or leaves the store
\* alone.
LEMMA ChatStep ==
    ASSUME WellFormed, ChatNext, UNCHANGED notifyVars
    PROVE  [Next]_vars /\ ReadersTypeOK' /\ Known'
<1> USE NoneAssumption, ChatAssumption
       DEF notifyVars, chatVars, serverVars, NoSave, NoStore, At, Go, Idle, Steps, Exists
<1>1. ASSUME NEW token \in Waiters, Begin(token)
      PROVE  [Next]_vars /\ ReadersTypeOK' /\ Known'
  <2> DEFINE Saved == [key : OrNone(Requests), attempted : BOOLEAN, sent : OrNone(Sends),
                       refused : BOOLEAN, reply : OrNone(Emails), by : OrNone(Requests), done : BOOLEAN]
  <2>1. /\ receipt' \in Saved /\ receipt'.key \in Requests
        /\ receipt'.reply # None => receipt'.by \in Requests
    <3>1. CASE ~receipt.done /\ UNCHANGED receipt
      BY <3>1 DEF WellFormed, ReadersTypeOK, Known, ListenerKnows
    <3>2. CASE \E key \in Requests : receipt' = [NoReceipt EXCEPT !.key = key, !.done = FALSE]
      <4>1. PICK key \in Requests : receipt' = [NoReceipt EXCEPT !.key = key, !.done = FALSE]
        BY <3>2
      <4>2. receipt' = [key |-> key, attempted |-> FALSE, sent |-> None,
                        refused |-> FALSE, reply |-> None, by |-> None, done |-> FALSE]
        BY <4>1 DEF NoReceipt
      <4>. QED
        BY <4>2 DEF OrNone
    <3>. QED
      BY <1>1, <3>1, <3>2 DEF Begin
  <2>2. receipt'.key \in Requests /\ (receipt'.reply # None => receipt'.by \in Requests)
    BY <2>1
  <2>3. /\ cmd' \in [step : Steps, token : OrNone(Waiters), wait : OrNone(Requests),
                      fresh : BOOLEAN, reply : OrNone(Emails)]
        /\ cmd'.step = "open" /\ cmd'.token = token /\ cmd'.wait = receipt'.key
    BY <1>1, <2>2 DEF Begin, OrNone
  <2>4. ReadersTypeOK'
    BY <1>1, <2>1, <2>3 DEF Begin, vars, WellFormed, ReadersTypeOK
  <2>5. Known'
    BY <1>1, <2>2, <2>3 DEF Begin, vars, WellFormed, Known, ListenerKnows
  <2>. QED
    BY <1>1, <2>4, <2>5 DEF Begin
<1>2. ASSUME NEW token \in Waiters, CommandGone(token)
      PROVE  [Next]_vars /\ ReadersTypeOK' /\ Known'
  <2>1. [Next]_vars
    BY <1>2 DEF CommandGone, Next, WellFormed, Known, ListenerKnows, OrNone
  <2>2. UNCHANGED known
    BY <1>2 DEF CommandGone, WaiterGone, mailVars
  <2>3. QED
    BY <1>2, <2>1, <2>2 DEF CommandGone, WellFormed, ReadersTypeOK, Known, ListenerKnows,
       OrNone
<1>3. ASSUME NEW next \in {"ready", "giveUp"}, OpenReply(next)
      PROVE  [Next]_vars /\ ReadersTypeOK' /\ Known'
  <2>1. [Next]_vars
    BY <1>3 DEF OpenReply, Next, WaitLife, WellFormed, Known, ListenerKnows, OrNone
  <2>2. UNCHANGED known
    BY <1>3 DEF OpenReply, JoinWait, mailVars
  <2>3. QED
    BY <1>3, <2>1, <2>2 DEF OpenReply, WellFormed, ReadersTypeOK, Known, ListenerKnows, OrNone
<1>4. ASSUME NEW next \in {"ready", "giveUp"}, OpenBound(next)
      PROVE  [Next]_vars /\ ReadersTypeOK' /\ Known'
  <2>1. parents[receipt.sent] \in Requests
    BY <1>4 DEF OpenBound, BoundBefore, WellFormed, ReadersTypeOK, StoreInv,
       TypeOK, OrNone
  <2>2. [Next]_vars
    BY <1>4, <2>1 DEF OpenBound, Next, WaitLife, WellFormed, Known, ListenerKnows
  <2>3. UNCHANGED known
    BY <1>4 DEF OpenBound, JoinWait, mailVars
  <2>4. /\ cmd' \in [step : Steps, token : OrNone(Waiters), wait : OrNone(Requests),
                      fresh : BOOLEAN, reply : OrNone(Emails)]
        /\ cmd'.step \in {"ready", "giveUp"} /\ cmd'.token = cmd.token /\ cmd'.wait \in Requests
    BY <1>4, <2>1 DEF OpenBound, WellFormed, ReadersTypeOK, OrNone
  <2>5. ReadersTypeOK'
    BY <1>4, <2>4 DEF OpenBound, WellFormed, ReadersTypeOK
  <2>6. Known'
    BY <1>4, <2>3, <2>4 DEF OpenBound, WellFormed, Known, ListenerKnows
  <2>. QED
    BY <2>2, <2>5, <2>6
<1>5. ASSUME NEW next \in {"ready", "giveUp"}, OpenOwn(next)
      PROVE  [Next]_vars /\ ReadersTypeOK' /\ Known'
  <2>1. [Next]_vars
    BY <1>5 DEF OpenOwn, Next, WaitLife, WellFormed, Known, ListenerKnows, OrNone
  <2>2. UNCHANGED known
    BY <1>5 DEF OpenOwn, RegisterNew, RegisterAgain, mailVars
  <2>3. /\ cmd' \in [step : Steps, token : OrNone(Waiters), wait : OrNone(Requests),
                      fresh : BOOLEAN, reply : OrNone(Emails)]
        /\ cmd'.step \in {"ready", "giveUp", "openBind"}
        /\ cmd'.step = "openBind" => receipt.sent # None
        /\ cmd'.token = cmd.token /\ cmd'.wait = cmd.wait
    BY <1>5 DEF OpenOwn, WellFormed, ReadersTypeOK
  <2>4. ReadersTypeOK'
    BY <1>5, <2>3 DEF OpenOwn, WellFormed, ReadersTypeOK
  <2>5. Known'
    BY <1>5, <2>2, <2>3 DEF OpenOwn, WellFormed, ReadersTypeOK, Known, ListenerKnows, OrNone
  <2>. QED
    BY <2>1, <2>4, <2>5
<1>6. ASSUME OpenBind
      PROVE  [Next]_vars /\ ReadersTypeOK' /\ Known'
  <2>1. [Next]_vars
    BY <1>6 DEF OpenBind, Next, WaitLife, WellFormed, Known, ListenerKnows, OrNone
  <2>2. UNCHANGED known
    BY <1>6 DEF OpenBind, BindOwn, mailVars
  <2>3. QED
    BY <1>6, <2>1, <2>2 DEF OpenBind, WellFormed, ReadersTypeOK, Known, ListenerKnows, OrNone
<1>7. ASSUME GiveUp
      PROVE  [Next]_vars /\ ReadersTypeOK' /\ Known'
  <2>1. [Next]_vars
    BY <1>7 DEF GiveUp, Next, WaitLife, WellFormed, Known, ListenerKnows
  <2>2. UNCHANGED known
    BY <1>7 DEF GiveUp, ReleaseWaiter, mailVars
  <2>3. cmd' = Idle \/ cmd' = [cmd EXCEPT !.step = "giveUpCancel"]
    BY <1>7 DEF GiveUp
  <2>6. cmd' \in [step : Steps, token : OrNone(Waiters), wait : OrNone(Requests),
                  fresh : BOOLEAN, reply : OrNone(Emails)]
    <3>1. CASE cmd' = Idle
      BY <3>1 DEF OrNone
    <3>2. CASE cmd' = [cmd EXCEPT !.step = "giveUpCancel"]
      BY <3>2 DEF WellFormed, ReadersTypeOK
    <3>. QED
      BY <2>3, <3>1, <3>2
  <2>4. ReadersTypeOK'
    BY <1>7, <2>6 DEF GiveUp, WellFormed, ReadersTypeOK
  <2>5. Known'
    BY <1>7, <2>2, <2>3, SMTT(60) DEF GiveUp, WellFormed, ReadersTypeOK, Known, ListenerKnows
  <2>. QED
    BY <2>1, <2>4, <2>5
<1>8. ASSUME GiveUpCancel
      PROVE  [Next]_vars /\ ReadersTypeOK' /\ Known'
  <2>1. [Next]_vars
    BY <1>8 DEF GiveUpCancel, Next, WaitLife, WellFormed, Known, ListenerKnows, OrNone
  <2>2. UNCHANGED known
    BY <1>8 DEF GiveUpCancel, CancelWaitBeforeSend, Cancel, mailVars
  <2>3. QED
    BY <1>8, <2>1, <2>2 DEF GiveUpCancel, WellFormed, ReadersTypeOK, Known, ListenerKnows,
       OrNone
<1>9. ASSUME Ready
      PROVE  [Next]_vars /\ ReadersTypeOK' /\ Known'
  <2>1. /\ \E step \in {"bind", "rejected", "ask", "attempt"} : cmd' = [cmd EXCEPT !.step = step]
        /\ cmd'.step = "bind" => receipt.sent # None
    BY <1>9 DEF Ready, WellFormed, ReadersTypeOK
  <2>2. ReadersTypeOK'
    BY <1>9, <2>1 DEF Ready, vars, WellFormed, ReadersTypeOK
  <2>3. Known'
    BY <1>9, <2>1 DEF Ready, vars, WellFormed, ReadersTypeOK, Known, ListenerKnows, OrNone
  <2>. QED
    BY <1>9, <2>2, <2>3 DEF Ready
<1>10. ASSUME NotReady
      PROVE  [Next]_vars /\ ReadersTypeOK' /\ Known'
  BY <1>10 DEF NotReady, vars, WellFormed, ReadersTypeOK, Known, ListenerKnows, OrNone
<1>11. ASSUME CancelUnsent
      PROVE  [Next]_vars /\ ReadersTypeOK' /\ Known'
  <2>1. [Next]_vars
    BY <1>11 DEF CancelUnsent, Next, WaitLife, WellFormed, Known, ListenerKnows, OrNone
  <2>2. UNCHANGED known
    BY <1>11 DEF CancelUnsent, CancelWaitBeforeSend, Cancel, mailVars
  <2>3. QED
    BY <1>11, <2>1, <2>2 DEF CancelUnsent, WellFormed, ReadersTypeOK, Known, ListenerKnows,
       OrNone
<1>12. ASSUME Settle
      PROVE  [Next]_vars /\ ReadersTypeOK' /\ Known'
  BY <1>12 DEF Settle, vars, WellFormed, ReadersTypeOK, Known, ListenerKnows, OrNone
<1>13. ASSUME Ask
      PROVE  [Next]_vars /\ ReadersTypeOK' /\ Known'
  <2>1. [Next]_vars
    BY <1>13 DEF Ask, Next, WaitLife, WellFormed, Known, ListenerKnows, OrNone
  <2>2. UNCHANGED known
    BY <1>13 DEF Ask, MarkWaitUncertain, mailVars
  <2>3. QED
    BY <1>13, <2>1, <2>2 DEF Ask, WellFormed, ReadersTypeOK, Known, ListenerKnows, OrNone
<1>14. ASSUME Lookup
      PROVE  [Next]_vars /\ ReadersTypeOK' /\ Known'
  BY <1>14 DEF Lookup, vars, WellFormed, ReadersTypeOK, Known, ListenerKnows, OrNone
<1>36. ASSUME LookupRefused
      PROVE  [Next]_vars /\ ReadersTypeOK' /\ Known'
  BY <1>36 DEF LookupRefused, vars, WellFormed, ReadersTypeOK, Known, ListenerKnows, OrNone
<1>37. ASSUME Rejected
      PROVE  [Next]_vars /\ ReadersTypeOK' /\ Known'
  <2>1. [Next]_vars
    BY <1>37 DEF Rejected, Next, WaitLife, WellFormed, Known, ListenerKnows, OrNone
  <2>2. UNCHANGED known
    BY <1>37 DEF Rejected, CancelRejectedSend, Cancel, mailVars
  <2>3. QED
    BY <1>37, <2>1, <2>2 DEF Rejected, WellFormed, ReadersTypeOK, Known, ListenerKnows, OrNone
<1>15. ASSUME Attempt
      PROVE  [Next]_vars /\ ReadersTypeOK' /\ Known'
  BY <1>15 DEF Attempt, vars, WellFormed, ReadersTypeOK, Known, ListenerKnows, OrNone
<1>16. ASSUME Mark
      PROVE  [Next]_vars /\ ReadersTypeOK' /\ Known'
  <2>1. [Next]_vars
    BY <1>16 DEF Mark, Next, WaitLife, WellFormed, Known, ListenerKnows, OrNone
  <2>2. UNCHANGED known
    BY <1>16 DEF Mark, MarkWaitUncertain, mailVars
  <2>3. QED
    BY <1>16, <2>1, <2>2 DEF Mark, WellFormed, ReadersTypeOK, Known, ListenerKnows, OrNone
<1>17. ASSUME Post
      PROVE  [Next]_vars /\ ReadersTypeOK' /\ Known'
  <2>1. /\ outcome' \in [Requests -> {"none", "posted", "accepted", "refused"}]
        /\ \A key \in Requests : outcome'[key] = "accepted" => outcome[key] = "accepted"
    BY <1>17 DEF Post, Take, WellFormed, ReadersTypeOK
  <2>6. posts[receipt.key] \in Nat
    BY <1>17 DEF Post, WellFormed, ReadersTypeOK, Known, ListenerKnows
  <2>7. posts[receipt.key] + 1 \in Nat
    BY <2>6
  <2>2. posts' \in [Requests -> Nat]
    BY <1>17, <2>7 DEF Post, WellFormed, ReadersTypeOK
  <2>3. ReadersTypeOK'
    BY <1>17, <2>1, <2>2 DEF Post, Take, vars, WellFormed, ReadersTypeOK
  <2>4. Known'
    BY <1>17, <2>1 DEF Post, Take, vars, WellFormed, ReadersTypeOK, Known, ListenerKnows
  <2>. QED
    BY <1>17, <2>3, <2>4 DEF Post
<1>18. ASSUME Answered
      PROVE  [Next]_vars /\ ReadersTypeOK' /\ Known'
  BY <1>18 DEF Answered, vars, WellFormed, ReadersTypeOK, Known, ListenerKnows, OrNone
<1>19. ASSUME Refused
      PROVE  [Next]_vars /\ ReadersTypeOK' /\ Known'
  <2>1. [Next]_vars
    BY <1>19 DEF Refused, Next, WaitLife, WellFormed, Known, ListenerKnows, OrNone
  <2>2. UNCHANGED known
    BY <1>19 DEF Refused, CancelRejectedSend, Cancel, mailVars
  <2>3. QED
    BY <1>19, <2>1, <2>2 DEF Refused, WellFormed, ReadersTypeOK, Known, ListenerKnows, OrNone
<1>20. ASSUME Bind
      PROVE  [Next]_vars /\ ReadersTypeOK' /\ Known'
  <2>1. [Next]_vars
    BY <1>20 DEF Bind, Next, WaitLife, WellFormed, Known, ListenerKnows, OrNone
  <2>2. UNCHANGED known
    BY <1>20 DEF Bind, BindOwn, mailVars, vars
  <2>3. QED
    BY <1>20, <2>1, <2>2 DEF Bind, WellFormed, ReadersTypeOK, Known, ListenerKnows, OrNone
<1>21. ASSUME NEW e \in Emails, Found(e)
      PROVE  [Next]_vars /\ ReadersTypeOK' /\ Known'
  <2>1. /\ cmd' \in [step : Steps, token : OrNone(Waiters), wait : OrNone(Requests),
                      fresh : BOOLEAN, reply : OrNone(Emails)]
        /\ cmd'.step \in {"ingest", "hydrate"} /\ cmd'.reply = e
        /\ cmd'.token = cmd.token /\ cmd'.wait = cmd.wait
    BY <1>21 DEF Found, WellFormed, ReadersTypeOK, OrNone
  <2>2. mail[e] \in Details
    BY <1>21 DEF Found, NoDetails, WellFormed, ReadersTypeOK
  <2>3. ReadersTypeOK'
    BY <1>21, <2>1 DEF Found, vars, WellFormed, ReadersTypeOK
  <2>4. Known'
    BY <1>21, <2>1, <2>2 DEF Found, vars, WellFormed, Known, ListenerKnows
  <2>. QED
    BY <1>21, <2>3, <2>4 DEF Found
<1>22. ASSUME IngestFound
      PROVE  [Next]_vars /\ ReadersTypeOK' /\ Known'
  <2>1. PICK v \in Events : Ingest(v, cmd.reply)
    BY <1>22 DEF IngestFound
  <2>2. [Next]_vars
    BY <1>22, <2>1 DEF IngestFound, Next, Ingress, WellFormed, Known, ListenerKnows
  <2>3. known' = known \union {cmd.reply}
    BY <2>1 DEF Ingest
  <2>4. QED
    BY <1>22, <2>2, <2>3 DEF IngestFound, WellFormed, ReadersTypeOK, Known, ListenerKnows
<1>23. ASSUME HydrateFound
      PROVE  [Next]_vars /\ ReadersTypeOK' /\ Known'
  <2>1. [Next]_vars
    BY <1>23 DEF HydrateFound, Next, Ingress, WellFormed, Known, ListenerKnows, OrNone
  <2>2. UNCHANGED known
    BY <1>23 DEF HydrateFound, Hydrate
  <2>3. QED
    BY <1>23, <2>1, <2>2 DEF HydrateFound, WellFormed, ReadersTypeOK, Known, ListenerKnows,
       OrNone
<1>24. ASSUME Claim
      PROVE  [Next]_vars /\ ReadersTypeOK' /\ Known'
  <2>1. [Next]_vars
    BY <1>24 DEF Claim, Next, Claims, WellFormed, Known, ListenerKnows, OrNone
  <2>2. UNCHANGED known
    BY <1>24 DEF Claim, ClaimForWait
  <2>3. QED
    BY <1>24, <2>1, <2>2 DEF Claim, WellFormed, ReadersTypeOK, Known, ListenerKnows, OrNone
<1>25. ASSUME ClaimAgain
      PROVE  [Next]_vars /\ ReadersTypeOK' /\ Known'
  BY <1>25 DEF ClaimAgain, vars, WellFormed, ReadersTypeOK, Known, ListenerKnows, OrNone
<1>26. ASSUME FollowReply
      PROVE  [Next]_vars /\ ReadersTypeOK' /\ Known'
  <2>1. [Next]_vars
    BY <1>26 DEF FollowReply, Next, Details, WellFormed, Known, ListenerKnows, OrNone
  <2>2. UNCHANGED known
    BY <1>26 DEF FollowReply, Follow, mailVars, vars
  <2>3. QED
    BY <1>26, <2>1, <2>2 DEF FollowReply, WellFormed, ReadersTypeOK, Known, ListenerKnows,
       OrNone
<1>27. ASSUME Keep
      PROVE  [Next]_vars /\ ReadersTypeOK' /\ Known'
  BY <1>27 DEF Keep, vars, WellFormed, ReadersTypeOK, Known, ListenerKnows, OrNone
<1>28. ASSUME Observe
      PROVE  [Next]_vars /\ ReadersTypeOK' /\ Known'
  <2>1. [Next]_vars
    BY <1>28 DEF Observe, Next, Claims, WellFormed, Known, ListenerKnows, OrNone
  <2>2. UNCHANGED known
    BY <1>28 DEF Observe, MarkWaitObserved
  <2>3. QED
    BY <1>28, <2>1, <2>2 DEF Observe, WellFormed, ReadersTypeOK, Known, ListenerKnows, OrNone
<1>29. ASSUME Finish
      PROVE  [Next]_vars /\ ReadersTypeOK' /\ Known'
  <2>1. [Next]_vars
    BY <1>29 DEF Finish, Next, WaitLife, WellFormed, Known, ListenerKnows, OrNone
  <2>2. UNCHANGED known
    BY <1>29 DEF Finish, FinishWait, mailVars, vars
  <2>3. QED
    BY <1>29, <2>1, <2>2 DEF Finish, WellFormed, ReadersTypeOK, Known, ListenerKnows, OrNone
<1>38. ASSUME NEW saved \in BOOLEAN, Complete(saved)
      PROVE  [Next]_vars /\ ReadersTypeOK' /\ Known'
  BY <1>38 DEF Complete, vars, WellFormed, ReadersTypeOK, Known, ListenerKnows, OrNone
<1>30. ASSUME Report
      PROVE  [Next]_vars /\ ReadersTypeOK' /\ Known'
  <2>1. ReadersTypeOK'
    <3>1. /\ reported' = reported \union {cmd.reply} /\ cmd' = [cmd EXCEPT !.step = "close"]
          /\ UNCHANGED <<receipt, used, posts, dropped, serverVars, notifyVars>>
      BY <1>30 DEF Report
    <3>2. cmd.reply \in Emails
      BY <1>30 DEF Report, WellFormed, Known
    <3>3. reported' \subseteq Emails
      BY <3>1, <3>2 DEF WellFormed, ReadersTypeOK
    <3>4. cmd' \in [step : Steps, token : OrNone(Waiters), wait : OrNone(Requests),
                    fresh : BOOLEAN, reply : OrNone(Emails)]
      BY <3>1 DEF WellFormed, ReadersTypeOK
    <3>. QED
      BY <3>1, <3>3, <3>4 DEF WellFormed, ReadersTypeOK
  <2>2. Known'
    BY <1>30 DEF Report, vars, WellFormed, ReadersTypeOK, Known, ListenerKnows
  <2>. QED
    BY <1>30, <2>1, <2>2 DEF Report
<1>31. ASSUME Close
      PROVE  [Next]_vars /\ ReadersTypeOK' /\ Known'
  <2>1. [Next]_vars
    BY <1>31 DEF Close, Next, WaitLife, WellFormed, Known, ListenerKnows, OrNone
  <2>2. UNCHANGED known
    BY <1>31 DEF Close, ReleaseWaiter, mailVars
  <2>3. QED
    BY <1>31, <2>1, <2>2 DEF Close, WellFormed, ReadersTypeOK, Known, ListenerKnows, OrNone
<1>32. ASSUME Fail
      PROVE  [Next]_vars /\ ReadersTypeOK' /\ Known'
  BY <1>32 DEF Fail, vars, WellFormed, ReadersTypeOK, Known, ListenerKnows, OrNone
<1>33. ASSUME FailOpening
      PROVE  [Next]_vars /\ ReadersTypeOK' /\ Known'
  BY <1>33 DEF FailOpening, vars, WellFormed, ReadersTypeOK, Known, ListenerKnows, OrNone
<1>34. ASSUME Die
      PROVE  [Next]_vars /\ ReadersTypeOK' /\ Known'
  BY <1>34 DEF Die, vars, WellFormed, ReadersTypeOK, Known, ListenerKnows, OrNone
<1>35. QED
  BY <1>1, <1>2, <1>3, <1>4, <1>5, <1>6, <1>7, <1>8, <1>9, <1>10, <1>11,
     <1>12, <1>13, <1>14, <1>15, <1>16, <1>17, <1>18, <1>19, <1>20, <1>21,
     <1>22, <1>23, <1>24, <1>25, <1>26, <1>27, <1>28, <1>29, <1>30, <1>31,
     <1>32, <1>33, <1>34, <1>36, <1>37, <1>38 DEF ChatNext

-----------------------------------------------------------------------------
\* Going on with an email, and done with it.
LEMMA Entered ==
    ASSUME WellFormed, NEW k \in Sessions, NEW stage \in Stages,
           ~In(k, "off"), ~In(k, "scan"), Enter(k, stage), UNCHANGED mail
    PROVE  ListenerType' /\ ListenerKnows'
BY NoneAssumption DEF WellFormed, ReadersTypeOK, Known, ListenerKnows,
   ListenerType, In, Enter

LEMMA Left ==
    ASSUME WellFormed, NEW k \in Sessions, NEW stage \in {"off", "scan"},
           Leave(k, stage), UNCHANGED mail
    PROVE  ListenerType' /\ ListenerKnows'
BY DEF WellFormed, ReadersTypeOK, Known, ListenerKnows, ListenerType, Leave,
   OrNone, Stages

\* A receipt is saved, or its saving is interrupted.
LEMMA Saved ==
    ASSUME WellFormed, NEW k \in Sessions, NEW u \in [email : Emails, state : ReceiptStates],
           NEW n \in 0..4, Write(k, u, n)
    PROVE  /\ receipts' \in [Sessions -> [Emails -> ReceiptStates]]
           /\ index' \in [Sessions -> SUBSET Emails]
           /\ pending' \in [Sessions -> [email : OrNone(Emails), state : ReceiptStates]]
           /\ \A j \in Sessions : pending'[j] # NoUpdate => pending'[j].email \in Emails
<1> USE DEF WellFormed, ReadersTypeOK, Known, Write
<1>1. receipts' \in [Sessions -> [Emails -> ReceiptStates]]
  OBVIOUS
<1>2. index' \in [Sessions -> SUBSET Emails]
  OBVIOUS
<1>3. NoUpdate \in [email : OrNone(Emails), state : ReceiptStates] /\ u \in [email : OrNone(Emails), state : ReceiptStates]
  BY DEF NoUpdate, OrNone, ReceiptStates
<1>4. pending' \in [Sessions -> [email : OrNone(Emails), state : ReceiptStates]]
  BY <1>3
<1>5. \A j \in Sessions : pending'[j] # NoUpdate => pending'[j].email \in Emails
  OBVIOUS
<1>. QED
  BY <1>1, <1>2, <1>4, <1>5

\* The steps of a listener.
LEMMA NotifyStep ==
    ASSUME WellFormed, NotifyNext, UNCHANGED chatVars
    PROVE  [Next]_vars /\ ReadersTypeOK' /\ Known'
<1> PICK k \in Sessions :
        \/ StartListener(k) \/ StopListener(k)
        \/ \E e \in Emails : List(k, e)
        \/ Settled(k) \/ Resume(k)
        \/ \E verdict \in {"scan", "ignored", "hydrate"} : Judge(k, verdict)
        \/ Ignored(k) \/ HydrateMail(k) \/ ClaimMail(k) \/ NotClaimed(k)
        \/ Skip(k) \/ FollowThread(k) \/ Prepare(k)
        \/ Suppress(k) \/ Submit(k) \/ Turn(k) \/ Record(k) \/ Defer(k)
        \/ Reconcile(k) \/ MarkOutcome(k)
  BY DEF NotifyNext
<1> USE NoneAssumption DEF chatVars, serverVars
<1>a. ASSUME NEW stage \in Stages, ~In(k, "off"), ~In(k, "scan"), Enter(k, stage),
             Rest, [Next]_vars, UNCHANGED known
      PROVE  [Next]_vars /\ ReadersTypeOK' /\ Known'
  <2>1. ListenerType' /\ ListenerKnows'
    BY <1>a, Entered DEF Rest
  <2>. QED
    BY <1>a, <2>1 DEF Rest, ListenerType, WellFormed, ReadersTypeOK, Known
<1>b. ASSUME NEW stage \in {"off", "scan"}, Leave(k, stage), Rest, [Next]_vars, UNCHANGED known
      PROVE  [Next]_vars /\ ReadersTypeOK' /\ Known'
  <2>1. ListenerType' /\ ListenerKnows'
    BY <1>b, Left DEF Rest
  <2>. QED
    BY <1>b, <2>1 DEF Rest, ListenerType, WellFormed, ReadersTypeOK, Known
<1>c. ASSUME NEW state \in ReceiptStates, NEW stage \in Stages, ~In(k, "off"), ~In(k, "scan"),
             SaveReceipt(k, state, stage)
      PROVE  [Next]_vars /\ ReadersTypeOK' /\ Known'
  <2>1. PICK n \in 0..4 :
          /\ Write(k, [email |-> Mail(k), state |-> state], n)
          /\ IF n = 4 THEN Enter(k, stage) ELSE Leave(k, "off")
          /\ UNCHANGED <<row, turns, serverVars, vars>>
    BY <1>c DEF SaveReceipt
  <2>2. Mail(k) \in Emails
    BY <1>c DEF Mail, In, WellFormed, Known, ListenerKnows
  <2>3. ListenerType' /\ ListenerKnows'
    BY <1>c, <2>1, Entered, Left
  <2>4. /\ receipts' \in [Sessions -> [Emails -> ReceiptStates]]
        /\ index' \in [Sessions -> SUBSET Emails]
        /\ pending' \in [Sessions -> [email : OrNone(Emails), state : ReceiptStates]]
        /\ \A j \in Sessions : pending'[j] # NoUpdate => pending'[j].email \in Emails
    BY <2>1, <2>2, Saved
  <2>. QED
    BY <2>1, <2>3, <2>4 DEF ListenerType, vars, WellFormed, ReadersTypeOK, Known
<1>1. ASSUME StartListener(k)
      PROVE  [Next]_vars /\ ReadersTypeOK' /\ Known'
  <2>1. ListenerType' /\ ListenerKnows'
    BY <1>1, Left DEF StartListener
  <2>2. /\ receipts' \in [Sessions -> [Emails -> ReceiptStates]]
        /\ index' \in [Sessions -> SUBSET Emails]
        /\ pending' \in [Sessions -> [email : OrNone(Emails), state : ReceiptStates]]
        /\ \A j \in Sessions : pending'[j] # NoUpdate => pending'[j].email \in Emails
    <3>1. CASE pending[k] = NoUpdate
      BY <1>1, <3>1 DEF StartListener, WellFormed, ReadersTypeOK, Known
    <3>2. CASE pending[k] # NoUpdate
      <4>1. pending[k].email \in Emails /\ pending[k].state \in ReceiptStates
        BY <3>2 DEF WellFormed, ReadersTypeOK, Known
      <4>2. NoUpdate \in [email : OrNone(Emails), state : ReceiptStates]
        BY DEF NoUpdate, OrNone, ReceiptStates
      <4>3. /\ receipts' = [receipts EXCEPT ![k][pending[k].email] = pending[k].state]
            /\ index' = [index EXCEPT ![k] = @ \union {pending[k].email}]
            /\ pending' = [pending EXCEPT ![k] = NoUpdate]
        BY <1>1, <3>2 DEF StartListener
      <4>. QED
        BY <4>1, <4>2, <4>3 DEF WellFormed, ReadersTypeOK, Known
    <3>. QED
      BY <3>1, <3>2
  <2>. QED
    BY <1>1, <2>1, <2>2 DEF StartListener, ListenerType, vars, WellFormed,
       ReadersTypeOK, Known
<1>2. ASSUME StopListener(k)
      PROVE  [Next]_vars /\ ReadersTypeOK' /\ Known'
  BY <1>2, <1>b DEF StopListener, NoCall, vars
<1>3. ASSUME NEW e \in Emails, List(k, e)
      PROVE  [Next]_vars /\ ReadersTypeOK' /\ Known'
  <2>1. ListenerType' /\ ListenerKnows'
    BY <1>3 DEF List, ListenerType, ListenerKnows, Stages, OrNone, WellFormed,
       ReadersTypeOK, Known
  <2>2. row' \in [Sessions -> Routes \union {NoRoute}]
    BY <1>3 DEF List, WellFormed, ReadersTypeOK, StoreInv, TypeOK
  <2>. QED
    BY <1>3, <2>1, <2>2 DEF List, NoCall, vars, ListenerType, WellFormed,
       ReadersTypeOK, Known
<1>4. ASSUME Settled(k)
      PROVE  [Next]_vars /\ ReadersTypeOK' /\ Known'
  BY <1>4, <1>b DEF Settled, NoCall, vars
<1>5. ASSUME Resume(k)
      PROVE  [Next]_vars /\ ReadersTypeOK' /\ Known'
  BY <1>5, <1>a DEF Resume, In, NoCall, vars, Stages
<1>6. ASSUME NEW verdict \in {"scan", "ignored", "hydrate"}, Judge(k, verdict)
      PROVE  [Next]_vars /\ ReadersTypeOK' /\ Known'
  <2>1. CASE verdict = "scan"
    BY <1>6, <2>1, <1>b DEF Judge, NoCall, vars
  <2>2. CASE verdict # "scan"
    BY <1>6, <2>2, <1>a DEF Judge, In, NoCall, vars, Stages
  <2>. QED
    BY <2>1, <2>2
<1>7. ASSUME Ignored(k)
      PROVE  [Next]_vars /\ ReadersTypeOK' /\ Known'
  <2>1. Mail(k) \in Emails /\ mail[Mail(k)] \in Details
    BY <1>7 DEF Ignored, In, Mail, WellFormed, Known, ListenerKnows
  <2>2. [Next]_vars
    BY <1>7, <2>1 DEF Ignored, Next, Claims, NoCall
  <2>3. UNCHANGED known
    BY <1>7 DEF Ignored, SkipNotification, NoCall, vars
  <2>. QED
    BY <1>7, <2>2, <2>3, <1>b DEF Ignored, In, Stages
<1>8. ASSUME HydrateMail(k)
      PROVE  [Next]_vars /\ ReadersTypeOK' /\ Known'
  <2>1. Mail(k) \in Emails /\ mail[Mail(k)] \in Details
    BY <1>8 DEF HydrateMail, In, Mail, WellFormed, Known, ListenerKnows
  <2>2. [Next]_vars
    BY <1>8, <2>1 DEF HydrateMail, Next, Ingress, NoCall
  <2>3. UNCHANGED known
    BY <1>8 DEF HydrateMail, Hydrate
  <2>. QED
    BY <1>8, <2>2, <2>3, <1>a DEF HydrateMail, In, Stages
<1>9. ASSUME ClaimMail(k)
      PROVE  [Next]_vars /\ ReadersTypeOK' /\ Known'
  <2>1. Mail(k) \in Emails /\ mail[Mail(k)] \in Details
    BY <1>9 DEF ClaimMail, In, Mail, WellFormed, Known, ListenerKnows
  <2>2. [Next]_vars
    BY <1>9, <2>1 DEF ClaimMail, Next, Claims, NoCall
  <2>3. UNCHANGED known
    BY <1>9 DEF ClaimMail, ClaimForNotification, NoCall, vars
  <2>. QED
    BY <1>9, <2>2, <2>3, <1>a DEF ClaimMail, In, Stages
<1>10. ASSUME NotClaimed(k)
      PROVE  [Next]_vars /\ ReadersTypeOK' /\ Known'
  BY <1>10, <1>b DEF NotClaimed, NoCall, vars
<1>11. ASSUME Skip(k)
      PROVE  [Next]_vars /\ ReadersTypeOK' /\ Known'
  <2>1. Mail(k) \in Emails /\ mail[Mail(k)] \in Details
    BY <1>11 DEF Skip, In, Mail, WellFormed, Known, ListenerKnows
  <2>2. [Next]_vars
    BY <1>11, <2>1 DEF Skip, Next, Claims, NoCall
  <2>3. UNCHANGED known
    BY <1>11 DEF Skip, SkipNotification
  <2>. QED
    BY <1>11, <2>2, <2>3, <1>b DEF Skip, In, Stages
<1>12. ASSUME FollowThread(k)
      PROVE  [Next]_vars /\ ReadersTypeOK' /\ Known'
  <2>1. Mail(k) \in Emails /\ mail[Mail(k)] \in Details
    BY <1>12 DEF FollowThread, In, Mail, WellFormed, Known, ListenerKnows
  <2>2. details[Mail(k)].thread \in Threads
    BY <1>12, <2>1 DEF FollowThread, WellFormed, StoreInv, TypeOK, Details,
       NoDetails, OrNone
  <2>3. [Next]_vars
    BY <1>12, <2>2 DEF FollowThread, Next
  <2>4. UNCHANGED known
    BY <1>12 DEF FollowThread, Follow, mailVars
  <2>. QED
    BY <1>12, <2>3, <2>4, <1>a DEF FollowThread, In, Stages
<1>13. ASSUME Prepare(k)
      PROVE  [Next]_vars /\ ReadersTypeOK' /\ Known'
  BY <1>13, <1>a DEF Prepare, In, NoCall, vars, Stages
<1>14. ASSUME Suppress(k)
      PROVE  [Next]_vars /\ ReadersTypeOK' /\ Known'
  <2>1. Mail(k) \in Emails /\ mail[Mail(k)] \in Details
    BY <1>14 DEF Suppress, In, Mail, WellFormed, Known, ListenerKnows
  <2>2. [Next]_vars
    BY <1>14, <2>1 DEF Suppress, Next, Claims, NoCall
  <2>3. UNCHANGED known
    BY <1>14 DEF Suppress, SkipNotification, ReleaseNotification
  <2>. QED
    BY <1>14, <2>2, <2>3, <1>b DEF Suppress, In, Stages
<1>15. ASSUME Submit(k)
      PROVE  [Next]_vars /\ ReadersTypeOK' /\ Known'
  BY <1>15, <1>c DEF Submit, In, Stages, ReceiptStates
<1>16. ASSUME Turn(k)
      PROVE  [Next]_vars /\ ReadersTypeOK' /\ Known'
  <2>1. Mail(k) \in Emails /\ mail[Mail(k)] \in Details
    BY <1>16 DEF Turn, In, Mail, WellFormed, Known, ListenerKnows
  <2>2. \E stage \in Stages : Enter(k, stage)
    BY <1>16 DEF Turn, Stages
  <2>3. ListenerType' /\ ListenerKnows'
    BY <1>16, <2>2, Entered DEF Turn, In
  <2>4. turns[Mail(k)] + 1 \in Nat
    BY <2>1 DEF WellFormed, ReadersTypeOK
  <2>5. turns' \in [Emails -> Nat]
    BY <1>16, <2>4 DEF Turn, WellFormed, ReadersTypeOK
  <2>. QED
    BY <1>16, <2>3, <2>5 DEF Turn, NoCall, vars, ListenerType, WellFormed,
       ReadersTypeOK, Known
<1>17. ASSUME Record(k)
      PROVE  [Next]_vars /\ ReadersTypeOK' /\ Known'
  BY <1>17, <1>c DEF Record, In, Stages, ReceiptStates
<1>18. ASSUME Defer(k)
      PROVE  [Next]_vars /\ ReadersTypeOK' /\ Known'
  <2>1. Mail(k) \in Emails /\ mail[Mail(k)] \in Details
    BY <1>18 DEF Defer, In, Mail, WellFormed, Known, ListenerKnows
  <2>2. [Next]_vars
    BY <1>18, <2>1 DEF Defer, Next, Claims, NoCall
  <2>3. UNCHANGED known
    BY <1>18 DEF Defer, ReleaseNotification
  <2>. QED
    BY <1>18, <2>2, <2>3, <1>b DEF Defer, In, Stages
<1>19. ASSUME Reconcile(k)
      PROVE  [Next]_vars /\ ReadersTypeOK' /\ Known'
  <2>1. Mail(k) \in Emails /\ mail[Mail(k)] \in Details
    BY <1>19 DEF Reconcile, In, Mail, WellFormed, Known, ListenerKnows
  <2>2. [Next]_vars
    BY <1>19, <2>1 DEF Reconcile, Next, Claims, NoCall
  <2>3. UNCHANGED known
    BY <1>19 DEF Reconcile, MarkNotification, NoCall, vars
  <2>. QED
    BY <1>19, <2>2, <2>3, <1>a DEF Reconcile, In, Stages
<1>20. ASSUME MarkOutcome(k)
      PROVE  [Next]_vars /\ ReadersTypeOK' /\ Known'
  <2>1. Mail(k) \in Emails /\ mail[Mail(k)] \in Details
    BY <1>20 DEF MarkOutcome, In, Mail, WellFormed, Known, ListenerKnows
  <2>2. [Next]_vars
    BY <1>20, <2>1 DEF MarkOutcome, Next, Claims, NoCall
  <2>3. UNCHANGED known
    BY <1>20 DEF MarkOutcome, MarkNotification
  <2>. QED
    BY <1>20, <2>2, <2>3, <1>b DEF MarkOutcome, In, Stages
<1>21. QED
  BY <1>1, <1>2, <1>3, <1>4, <1>5, <1>6, <1>7, <1>8, <1>9, <1>10, <1>11,
     <1>12, <1>13, <1>14, <1>15, <1>16, <1>17, <1>18, <1>19, <1>20

-----------------------------------------------------------------------------
\* A command posts only what its saved receipt has not attempted, settles only
\* what was shown, and marks observed only what its receipt names.
ChatInv ==
    /\ \A key \in Requests : posts[key] <= 1 /\ (posts[key] > 0 => Exists(key))
    /\ ~receipt.done => receipt.attempted \/ posts[receipt.key] = 0
    /\ receipt.reply # None => receipt.sent # None
    /\ cmd.step \notin {"idle", "report", "close"} => ~receipt.done
    /\ cmd.step \in {"open", "ready"} /\ receipt.sent = None => cmd.wait = receipt.key
    /\ cmd.step \in {"cancel", "attempt", "mark", "post", "answer", "ask", "lookup", "rejected"}
         => receipt.sent = None
    /\ cmd.step = "attempt" => ~receipt.attempted
    /\ cmd.step \in {"attempt", "mark", "post"} =>
          posts[receipt.key] = 0 /\ cmd.wait = receipt.key
    /\ cmd.step \in {"mark", "post"} => receipt.attempted
    /\ cmd.step = "post" => Exists(receipt.key)
    /\ cmd.step \in {"bind", "await", "ingest", "hydrate", "claim", "follow", "keep"}
         => receipt.sent # None
    /\ cmd.step \in {"ingest", "hydrate", "claim", "follow", "keep"}
         => receipt.reply \in {None, cmd.reply}
    /\ cmd.step \in {"observe", "finish", "complete", "report"} => receipt.reply = cmd.reply
    /\ cmd.step \in {"follow", "keep", "observe", "finish", "complete", "report"}
         => route[cmd.reply].kind = "wait"
    /\ cmd.step = "settle" => receipt.reply = None
    /\ \A e \in reported : route[e].kind = "wait"
    /\ ReplyNotLost

\* The receipt says that a turn may have been requested.
Dispatched(k, e) == receipts[k][e] \in {"submitting", "accepted", "unknown"}

\* What a listener may rely on about the email it is at.
AtEmail(k) ==
    /\ In(k, "judge") /\ row[k] = NoRoute => ~Dispatched(k, Mail(k))
    /\ listener[k].stage \in {"hydrate", "claim", "claimed", "dispatch"} =>
          ~Dispatched(k, Mail(k))
    /\ listener[k].stage \in {"claimed", "dispatch", "turn", "accepted", "unknown", "refused", "defer"} =>
          Own(k, route[Mail(k)]) /\ route[Mail(k)].state = "selected"
    /\ listener[k].stage \in {"turn", "accepted", "unknown", "refused"} =>
          Receipt(k) = "submitting"
    /\ listener[k].stage \in {"turn", "refused"} => turns[Mail(k)] = 0
    /\ In(k, "accepted") => turns[Mail(k)] = 1
    /\ In(k, "defer") => Receipt(k) = "not_submitted"
    /\ In(k, "mark") => Own(k, route[Mail(k)])

\* What an interrupted update, finished by the next listener, will say is true.
Interrupted(k) ==
    LET u == pending[k]
    IN  u # NoUpdate =>
          /\ In(k, "off") /\ Coherent(k, u) /\ u.state # "none"
          /\ Own(k, route[u.email]) /\ route[u.email].state # "skipped"
          /\ u.state = "not_submitted" => turns[u.email] = 0
          /\ u.state = "accepted" => turns[u.email] = 1

SessionInv(k) ==
    /\ \A e \in Emails :
          /\ Dispatched(k, e) => Own(k, route[e]) /\ route[e].state # "skipped"
          /\ receipts[k][e] = "accepted" => turns[e] = 1
          /\ e # pending[k].email => (e \in index[k] <=> receipts[k][e] # "none")
    /\ AtEmail(k) /\ Interrupted(k)

EmailInv(e) ==
    /\ turns[e] <= 1
    /\ turns[e] > 0 => \E k \in Sessions : Dispatched(k, e)
    /\ route[e].state = "accepted" => turns[e] = 1

TurnInv == (\A k \in Sessions : SessionInv(k)) /\ (\A e \in Emails : EmailInv(e))

ReadersInv == WellFormed /\ ChatInv /\ TurnInv

-----------------------------------------------------------------------------
\* What a step of the store may do to the waits and routes.
LEMMA WaitsStay ==
    ASSUME WellFormed, [Next]_vars, NEW r \in Requests, Exists(r)
    PROVE  Exists(r)'
<1>1. waits[r] \in Waits
  BY DEF WellFormed, StoreInv, TypeOK, Exists, NoWait
<1>2. CASE UNCHANGED waits
  BY <1>2 DEF Exists
<1>3. CASE WaitLife
  <2> PICK req \in Requests :
        \/ \E peer \in Peers, session \in OrNone(Sessions), contact \in OrNone(Contacts),
              owner \in OrNone(Waiters) :
             \/ RegisterNew(req, peer, session, contact, owner)
             \/ RegisterAgain(req, peer, session, contact, owner)
        \/ \E owner \in Waiters : JoinWait(req, owner) \/ ReleaseWaiter(req, owner)
        \/ \E sent \in Sends : BindOwn(req, sent) \/ BindJoin(req, sent)
        \/ CancelWaitBeforeSend(req) \/ CancelRejectedSend(req)
        \/ MarkWaitUncertain(req) \/ FinishWait(req)
    BY <1>3 DEF WaitLife
  <2> USE <1>1 DEF WellFormed, StoreInv, TypeOK, Exists
  <2>1. CASE \E peer \in Peers, session \in OrNone(Sessions), contact \in OrNone(Contacts),
              owner \in OrNone(Waiters) : RegisterNew(req, peer, session, contact, owner)
    BY <2>1 DEF RegisterNew
  <2>2. CASE \E peer \in Peers, session \in OrNone(Sessions), contact \in OrNone(Contacts),
              owner \in OrNone(Waiters) : RegisterAgain(req, peer, session, contact, owner)
    BY <2>2 DEF RegisterAgain, AddWaiters, Waits
  <2>3. CASE \E owner \in Waiters : JoinWait(req, owner)
    BY <2>3 DEF JoinWait, AddWaiters, Waits
  <2>4. CASE \E owner \in Waiters : ReleaseWaiter(req, owner)
    BY <2>4 DEF ReleaseWaiter, Waits
  <2>5. CASE \E sent \in Sends : BindOwn(req, sent)
    <3>1. PICK sent \in Sends : BindOwn(req, sent)
      BY <2>5
    <3>2. CASE r = req
      BY <3>1, <3>2 DEF BindOwn, Waits
    <3>3. CASE r # req
      BY <3>1, <3>3 DEF BindOwn
    <3>. QED
      BY <3>2, <3>3
  <2>6. CASE \E sent \in Sends : BindJoin(req, sent)
    <3>1. PICK sent \in Sends : BindJoin(req, sent)
      BY <2>6
    <3>2. CASE r = req
      <4>1. waits'[req] = [waits[req] EXCEPT !.status = "cancelled", !.sent = sent, !.waiters = {}]
        BY <3>1 DEF BindJoin
      <4>. QED
        BY <3>2, <4>1 DEF Waits
    <3>3. CASE r # req
      BY <3>1, <3>3, NoneAssumption DEF BindJoin, AddWaiters, Waits, OrNone
    <3>. QED
      BY <3>2, <3>3
  <2>7. CASE CancelWaitBeforeSend(req) \/ CancelRejectedSend(req)
    BY <2>7 DEF CancelWaitBeforeSend, CancelRejectedSend, Cancel, Waits
  <2>8. CASE MarkWaitUncertain(req) \/ FinishWait(req)
    BY <2>8 DEF MarkWaitUncertain, FinishWait, Waits
  <2>. QED
    BY <2>1, <2>2, <2>3, <2>4, <2>5, <2>6, <2>7, <2>8
<1>4. CASE Claims
  <2>1. ASSUME NEW e \in Emails, NEW req \in Requests, NEW token \in Waiters,
               ObserveNotifiedContactReply(e, req, token)
        PROVE  Exists(r)'
    BY <1>1, <2>1 DEF ObserveNotifiedContactReply, WellFormed, StoreInv, TypeOK,
       Exists, Waits
  <2>2. ASSUME ~(\E e \in Emails, req \in Requests, token \in Waiters :
                  ObserveNotifiedContactReply(e, req, token))
        PROVE  UNCHANGED waits
    BY <1>4, <2>2 DEF Claims, ClaimForWait, MarkWaitObserved, ClaimForNotification,
       ReleaseNotification, SkipNotification, MarkNotification, waitVars
  <2>. QED
    BY <1>2, <2>1, <2>2
<1>5. CASE Ingress
  BY <1>5, <1>2 DEF Ingress, Ingest, Hydrate, waitVars
<1>. QED
  BY <1>2, <1>3, <1>4, <1>5 DEF Next, Follow, WaiterGone, waitVars, vars

\* A chat takes only free emails and leaves a notification alone.
ByChat ==
    \A e \in Emails :
        \/ route'[e] = route[e]
        \/ route[e] = NoRoute /\ route'[e].kind = "wait" /\ route'[e].state = "claimed"
        \/ route[e].kind = "wait" /\ route'[e].kind = "wait" /\ route'[e].state = "observed"

\* A listener leaves a wait's email alone.
ByNotify ==
    \A e \in Emails : route'[e] = route[e] \/ (route[e].kind # "wait" /\ route'[e].kind # "wait")

LEMMA ServerRoutes ==
    ASSUME ServerNext
    PROVE  UNCHANGED route
BY DEF ServerNext, Accept, Refuse, Arrive, Receive, Ingest, vars

LEMMA ChatRoutes ==
    ASSUME WellFormed, ChatNext
    PROVE  ByChat
<1> USE DEF NoStore, vars, mailVars
<1>1. CASE Claim \/ Observe
  <2>1. CASE Claim
    BY <1>1, <2>1 DEF Claim, ClaimForWait, ByChat, WellFormed, StoreInv, TypeOK
  <2>2. CASE Observe
    BY <1>1, <2>2 DEF Observe, MarkWaitObserved, ByChat, WellFormed, StoreInv,
       TypeOK, Routes, NoRoute
  <2>. QED
    BY <1>1, <2>1, <2>2
<1>2. CASE UNCHANGED route
  BY <1>2 DEF ByChat
<1>3. CASE ~Claim /\ ~Observe
  <2>1. ASSUME NEW token \in Waiters, Begin(token) \/ CommandGone(token)
        PROVE  UNCHANGED route
    BY <2>1 DEF Begin, CommandGone, WaiterGone
  <2>2. ASSUME NEW next \in {"ready", "giveUp"}, OpenReply(next) \/ OpenBound(next) \/ OpenOwn(next)
        PROVE  UNCHANGED route
    BY <2>2 DEF OpenReply, OpenBound, OpenOwn, JoinWait, RegisterNew, RegisterAgain
  <2>3. ASSUME OpenBind \/ GiveUp \/ GiveUpCancel \/ Ready \/ NotReady \/ CancelUnsent
               \/ Settle \/ Ask \/ Lookup \/ LookupRefused \/ Rejected \/ Attempt \/ Mark \/ Post
        PROVE  UNCHANGED route
    BY <2>3 DEF OpenBind, GiveUp, GiveUpCancel, Ready, NotReady, CancelUnsent,
       Settle, Ask, Lookup, LookupRefused, Rejected, CancelRejectedSend,
       Attempt, Mark, Post, BindOwn, ReleaseWaiter, CancelWaitBeforeSend, Cancel, MarkWaitUncertain
  <2>4. ASSUME Answered \/ Refused \/ Bind \/ (\E e \in Emails : Found(e)) \/ IngestFound
               \/ HydrateFound \/ ClaimAgain \/ FollowReply \/ Keep \/ Finish
        PROVE  UNCHANGED route
    BY <2>4 DEF Answered, Refused, Bind, Found, IngestFound, HydrateFound,
       ClaimAgain, FollowReply,
       Keep, Finish, CancelRejectedSend, Cancel, BindOwn, Ingest, Hydrate, Follow, FinishWait
  <2>5. ASSUME (\E saved \in BOOLEAN : Complete(saved)) \/ Report \/ Close \/ Fail \/ FailOpening \/ Die
        PROVE  UNCHANGED route
    BY <2>5 DEF Complete, Report, Close, Fail, FailOpening, Die, ReleaseWaiter
  <2>. QED
    BY <1>2, <1>3, <2>1, <2>2, <2>3, <2>4, <2>5 DEF ChatNext
<1>. QED
  BY <1>1, <1>3

\* A listener changes only the route of its email, free or its own.
ByListener(k) ==
    \A e \in Emails :
        \/ route'[e] = route[e]
        \/ /\ e = Mail(k) /\ (route[e] = NoRoute \/ Own(k, route[e]))
           /\ route'[e].kind # "wait"

LEMMA ListenerByNotify ==
    ASSUME NEW k \in Sessions, ByListener(k)
    PROVE  ByNotify
BY DEF ByListener, ByNotify, Own, NoRoute

\* What the service and the chat do keeps what the listeners know.
LEMMA OthersKeepTurns ==
    ASSUME WellFormed, TurnInv, ByChat, UNCHANGED notifyVars
    PROVE  TurnInv'
<1> USE DEF notifyVars
<1>1. ASSUME NEW k \in Sessions, NEW e \in Emails, Own(k, route[e])
      PROVE  route'[e] = route[e]
  BY <1>1 DEF ByChat, Own, NoRoute
<1>2. ASSUME NEW k \in Sessions PROVE AtEmail(k)'
  <2>1. AtEmail(k)
    BY DEF TurnInv, SessionInv
  <2>2. listener[k].stage \notin {"off", "scan"} => Mail(k) \in Emails
    BY DEF WellFormed, Known, ListenerKnows, Mail
  <2>. QED
    BY <1>1, <2>1, <2>2 DEF AtEmail, In, Mail, Dispatched, Receipt
<1>3. ASSUME NEW k \in Sessions PROVE Interrupted(k)'
  <2>1. Interrupted(k) /\ (pending[k] # NoUpdate => pending[k].email \in Emails)
    BY DEF TurnInv, SessionInv, WellFormed, Known
  <2>. QED
    BY <1>1, <2>1 DEF Interrupted, In, Coherent
<1>4. ASSUME NEW k \in Sessions PROVE SessionInv(k)'
  BY <1>1, <1>2, <1>3 DEF TurnInv, SessionInv, Dispatched
<1>5. ASSUME NEW e \in Emails PROVE EmailInv(e)'
  BY DEF ByChat, TurnInv, EmailInv, Dispatched
<1>. QED
  BY <1>4, <1>5 DEF TurnInv

\* What the service and the listeners do keeps what the chat knows.
LEMMA OthersKeepChat ==
    ASSUME WellFormed, ChatInv, ByNotify, [Next]_vars, UNCHANGED chatVars
    PROVE  ChatInv'
<1> USE DEF chatVars
<1>1. \A r \in Requests : Exists(r) => Exists(r)'
  BY WaitsStay
<1>2. ReplyNotLost'
  BY DEF ChatInv, ReplyNotLost, ByNotify, At
<1>3. /\ \A e \in reported : e \in Emails /\ route[e].kind = "wait"
      /\ cmd.step \in {"follow", "keep", "observe", "finish", "complete", "report"} => cmd.reply \in Emails
      /\ cmd.step = "post" => receipt.key \in Requests
  BY DEF ChatInv, WellFormed, ReadersTypeOK, Known
<1>4. \A e \in Emails : route[e].kind = "wait" => route'[e].kind = "wait"
  BY DEF ByNotify
<1>. QED
  BY <1>1, <1>2, <1>3, <1>4 DEF ChatInv

\* What one listener does keeps what another knows.
LEMMA OtherSession ==
    ASSUME WellFormed, NEW k \in Sessions, NEW j \in Sessions, j # k,
           SessionInv(j), ByListener(k),
           listener'[j] = listener[j], row'[j] = row[j], receipts'[j] = receipts[j],
           index'[j] = index[j], pending'[j] = pending[j],
           \A e \in Emails : turns'[e] = turns[e] \/ Own(k, route[e])
    PROVE  SessionInv(j)'
<1>1. ASSUME NEW e \in Emails, Own(j, route[e])
      PROVE  route'[e] = route[e] /\ turns'[e] = turns[e]
  BY <1>1 DEF ByListener, Own, NoRoute
<1>2. AtEmail(j)'
  <2>1. listener[j].stage \notin {"off", "scan"} => Mail(j) \in Emails
    BY DEF WellFormed, Known, ListenerKnows, Mail
  <2>. QED
    BY <1>1, <2>1 DEF SessionInv, AtEmail, In, Mail, Dispatched, Receipt
<1>3. Interrupted(j)'
  <2>1. Interrupted(j) /\ (pending[j] # NoUpdate => pending[j].email \in Emails)
    BY DEF SessionInv, WellFormed, Known
  <2>. QED
    BY <1>1, <2>1 DEF Interrupted, In, Coherent
<1>. QED
  BY <1>1, <1>2, <1>3 DEF SessionInv, Dispatched

\* A step of a listener that saves no receipt and starts no turn.
LEMMA RestKeeps ==
    ASSUME WellFormed, TurnInv, NEW k \in Sessions, ~In(k, "off"), Rest, ByListener(k),
           \A j \in Sessions : j # k => listener'[j] = listener[j],
           AtEmail(k)',
           \A e \in Emails : e = Mail(k) /\ route'[e] # route[e] =>
              /\ Dispatched(k, e) => Own(k, route'[e]) /\ route'[e].state # "skipped"
              /\ route'[e].state = "accepted" => turns[e] = 1
    PROVE  TurnInv'
<1> USE DEF Rest
<1>1. ASSUME NEW j \in Sessions, j # k PROVE SessionInv(j)'
  BY <1>1, OtherSession DEF TurnInv
<1>2. SessionInv(k)'
  <2>1. pending[k] = NoUpdate
    BY DEF TurnInv, SessionInv, Interrupted
  <2>2. Interrupted(k)'
    BY <2>1 DEF Interrupted
  <2>3. \A e \in Emails : Dispatched(k, e) => Own(k, route'[e]) /\ route'[e].state # "skipped"
    BY DEF ByListener, TurnInv, SessionInv
  <2>. QED
    BY <2>2, <2>3 DEF TurnInv, SessionInv, Dispatched
<1>3. ASSUME NEW e \in Emails PROVE EmailInv(e)'
  BY DEF TurnInv, EmailInv, ByListener, Dispatched
<1>. QED
  BY <1>1, <1>2, <1>3 DEF TurnInv

\* A listener's step keeps what the listeners know, and the waits' emails.
LEMMA NotifyKeeps ==
    ASSUME WellFormed, TurnInv, NotifyNext, UNCHANGED chatVars
    PROVE  TurnInv' /\ ByNotify
<1> PICK k \in Sessions :
        \/ StartListener(k) \/ StopListener(k)
        \/ \E e \in Emails : List(k, e)
        \/ Settled(k) \/ Resume(k)
        \/ \E verdict \in {"scan", "ignored", "hydrate"} : Judge(k, verdict)
        \/ Ignored(k) \/ HydrateMail(k) \/ ClaimMail(k) \/ NotClaimed(k)
        \/ Skip(k) \/ FollowThread(k) \/ Prepare(k)
        \/ Suppress(k) \/ Submit(k) \/ Turn(k) \/ Record(k) \/ Defer(k)
        \/ Reconcile(k) \/ MarkOutcome(k)
  BY DEF NotifyNext
<1>k. AtEmail(k) /\ Interrupted(k) /\ SessionInv(k)
  BY DEF TurnInv, SessionInv
<1>m. listener[k].stage \notin {"off", "scan"} => Mail(k) \in Emails
  BY DEF WellFormed, Known, ListenerKnows, Mail
\* An email done with.
<1>a. ASSUME NEW stage \in {"off", "scan"}, ~In(k, "off"), Leave(k, stage), Rest, ByListener(k),
             \A e \in Emails : e = Mail(k) /\ route'[e] # route[e] =>
                /\ Dispatched(k, e) => Own(k, route'[e]) /\ route'[e].state # "skipped"
                /\ route'[e].state = "accepted" => turns[e] = 1
      PROVE  TurnInv' /\ ByNotify
  <2>1. AtEmail(k)' /\ \A j \in Sessions : j # k => listener'[j] = listener[j]
    BY <1>a DEF Leave, AtEmail, In, WellFormed, ReadersTypeOK
  <2>. QED
    BY <1>a, <2>1, RestKeeps, ListenerByNotify
\* On to the next stage, when the routes stay.
<1>b. ASSUME NEW stage \in Stages, ~In(k, "off"), Enter(k, stage), Rest, UNCHANGED route,
             AtEmail(k)'
      PROVE  TurnInv' /\ ByNotify
  <2>1. ByListener(k) /\ \A j \in Sessions : j # k => listener'[j] = listener[j]
    BY <1>b DEF Enter, ByListener
  <2>. QED
    BY <1>b, <2>1, RestKeeps, ListenerByNotify
\* A receipt saved, or its saving interrupted.
<1>c. ASSUME NEW state \in ReceiptStates \ {"none"}, NEW stage \in Stages, ~In(k, "off"), ~In(k, "scan"),
             SaveReceipt(k, state, stage),
             Own(k, route[Mail(k)]), route[Mail(k)].state # "skipped",
             state = "accepted" => turns[Mail(k)] = 1,
             state = "not_submitted" => turns[Mail(k)] = 0,
             stage \notin {"off", "scan"},
             Receipt(k)' = state /\ In(k, stage)' /\ Mail(k)' = Mail(k) => AtEmail(k)'
      PROVE  TurnInv' /\ ByNotify
  <2> DEFINE e == Mail(k)
             u == [email |-> e, state |-> state]
  <2>1. PICK n \in 0..4 :
          /\ Write(k, u, n)
          /\ IF n = 4 THEN Enter(k, stage) ELSE Leave(k, "off")
          /\ UNCHANGED <<row, turns, serverVars, vars>>
    BY <1>c DEF SaveReceipt
  <2>2. e \in Emails /\ u # NoUpdate /\ u.email = e /\ u.state = state
    BY <1>c, <1>m, NoneAssumption DEF In, NoUpdate
  <2>3. /\ UNCHANGED <<turns, row, route>> /\ ByListener(k) /\ ByNotify
        /\ pending[k] = NoUpdate /\ Coherent(k, u)
    BY <2>1 DEF vars, ByListener, ByNotify, Write
  <2>4. ASSUME NEW j \in Sessions, j # k PROVE SessionInv(j)'
    <3>1. /\ listener'[j] = listener[j] /\ receipts'[j] = receipts[j]
          /\ index'[j] = index[j] /\ pending'[j] = pending[j]
      BY <2>1, <2>4 DEF Write, Enter, Leave, WellFormed, ReadersTypeOK
    <3>. QED
      BY <2>3, <2>4, <3>1, OtherSession DEF TurnInv
  <2>5. \A f \in Emails : receipts'[k][f] = IF f = e /\ n >= 2 THEN state ELSE receipts[k][f]
    BY <2>1, <2>2 DEF Write, WellFormed, ReadersTypeOK
  <2>6. \A f \in Emails : f \in index'[k] <=> (f \in index[k] \/ (f = e /\ n >= 3))
    BY <2>1, <2>2 DEF Write, WellFormed, ReadersTypeOK
  <2>7. pending'[k] = IF n \in 1..3 THEN u ELSE NoUpdate
    BY <2>1, <2>2 DEF Write, WellFormed, ReadersTypeOK
  <2>8. \A f \in Emails : f \in index[k] <=> receipts[k][f] # "none"
    BY <1>k, <2>3, NoneAssumption DEF SessionInv, NoUpdate
  <2>9. AtEmail(k)'
    <3>1. CASE n = 4
      <4>1. listener'[k] = [listener[k] EXCEPT !.stage = stage]
        BY <2>1, <3>1 DEF Enter, WellFormed, ReadersTypeOK
      <4>2. In(k, stage)' /\ Mail(k)' = e
        BY <4>1 DEF In, Mail, WellFormed, ReadersTypeOK
      <4>3. Receipt(k)' = state
        BY <2>2, <2>5, <3>1, <4>2 DEF Receipt
      <4>. QED
        BY <1>c, <4>2, <4>3
    <3>2. CASE n # 4
      BY <2>1, <3>2 DEF Leave, AtEmail, In, WellFormed, ReadersTypeOK
    <3>. QED
      BY <3>1, <3>2
  <2>10. Interrupted(k)'
    <3>1. CASE n \in 1..3
      <4>1. pending'[k] = u /\ In(k, "off")'
        BY <2>1, <2>7, <3>1 DEF Leave, In, WellFormed, ReadersTypeOK
      <4>2. pending'[k].email = e /\ pending'[k].state = state
        BY <2>2, <4>1
      <4>3. \/ receipts'[k][e] = "submitting" \/ receipts'[k][e] = state
            \/ receipts'[k][e] \in {"none", "not_submitted"} /\ state = "submitting"
        BY <2>2, <2>3, <2>5 DEF Coherent
      <4>4. Coherent(k, pending[k])'
        BY <4>2, <4>3 DEF Coherent
      <4>. QED
        BY <1>c, <2>3, <4>1, <4>2, <4>4 DEF Interrupted
    <3>2. CASE n \notin 1..3
      BY <2>7, <3>2 DEF Interrupted
    <3>. QED
      BY <3>1, <3>2
  <2>11. SessionInv(k)'
    <3>1. ASSUME NEW f \in Emails
          PROVE  /\ Dispatched(k, f)' => Own(k, route'[f]) /\ route'[f].state # "skipped"
                 /\ receipts'[k][f] = "accepted" => turns'[f] = 1
                 /\ f # pending'[k].email => (f \in index'[k] <=> receipts'[k][f] # "none")
      <4>1. /\ Dispatched(k, f) => Own(k, route[f]) /\ route[f].state # "skipped"
            /\ receipts[k][f] = "accepted" => turns[f] = 1
        BY <1>k DEF SessionInv
      <4>2. f # pending'[k].email => (f \in index'[k] <=> receipts'[k][f] # "none")
        BY <1>c, <2>2, <2>5, <2>6, <2>7, <2>8
      <4>. QED
        BY <1>c, <2>2, <2>3, <2>5, <4>1, <4>2 DEF Dispatched
    <3>. QED
      BY <2>9, <2>10, <3>1 DEF SessionInv
  <2>12. ASSUME NEW f \in Emails PROVE EmailInv(f)'
    <3>1. EmailInv(f)
      BY DEF TurnInv
    <3>2. CASE f = e /\ state = "not_submitted"
      BY <1>c, <2>3, <3>1, <3>2 DEF EmailInv
    <3>3. ASSUME NEW j \in Sessions, Dispatched(j, f), ~(f = e /\ state = "not_submitted")
          PROVE  Dispatched(j, f)'
      <4>1. CASE j = k
        BY <1>c, <2>5, <3>3, <4>1 DEF Dispatched, ReceiptStates
      <4>2. CASE j # k
        <5>1. receipts'[j] = receipts[j]
          BY <2>1, <4>2 DEF Write
        <5>. QED
          BY <3>3, <5>1 DEF Dispatched
      <4>. QED
        BY <4>1, <4>2
    <3>. QED
      BY <2>3, <3>1, <3>2, <3>3 DEF EmailInv
  <2>. QED
    BY <2>3, <2>4, <2>11, <2>12 DEF TurnInv
\* The stage an `Enter` leads to.
<1>e. ASSUME NEW stage \in Stages, Enter(k, stage)
      PROVE  In(k, stage)' /\ Mail(k)' = Mail(k) /\ \A s : In(k, s)' => s = stage
  BY <1>e DEF Enter, In, Mail, WellFormed, ReadersTypeOK
<1>1. ASSUME StartListener(k)
      PROVE  TurnInv' /\ ByNotify
  <2> DEFINE u == pending[k]
  <2>1. UNCHANGED <<turns, row, route>> /\ ByListener(k) /\ ByNotify /\ AtEmail(k)'
    BY <1>1 DEF StartListener, vars, ByListener, ByNotify, Leave, AtEmail, In,
       WellFormed, ReadersTypeOK
  <2>2. ASSUME NEW j \in Sessions, j # k PROVE SessionInv(j)'
    <3>1. /\ listener'[j] = listener[j] /\ receipts'[j] = receipts[j]
          /\ index'[j] = index[j] /\ pending'[j] = pending[j]
      BY <1>1, <2>2 DEF StartListener, Leave, WellFormed, ReadersTypeOK
    <3>. QED
      BY <2>1, <2>2, <3>1, OtherSession DEF TurnInv
  <2>3. pending'[k] = NoUpdate
    BY <1>1 DEF StartListener, WellFormed, ReadersTypeOK
  <2>4. CASE u = NoUpdate
    <3>1. UNCHANGED <<receipts, index, pending>>
      BY <1>1, <2>4 DEF StartListener
    <3>2. SessionInv(k)'
      BY <1>k, <2>1, <2>3, <3>1 DEF SessionInv, Interrupted, Dispatched
    <3>3. \A e \in Emails : EmailInv(e)'
      BY <2>1, <3>1 DEF TurnInv, EmailInv, Dispatched
    <3>. QED
      BY <2>1, <2>2, <3>2, <3>3 DEF TurnInv
  <2>5. CASE u # NoUpdate
    <3>1. /\ u.email \in Emails /\ u.state \in ReceiptStates \ {"none"}
          /\ Own(k, route[u.email]) /\ route[u.email].state # "skipped"
          /\ u.state = "not_submitted" => turns[u.email] = 0
          /\ u.state = "accepted" => turns[u.email] = 1
      BY <1>k, <2>5 DEF Interrupted, WellFormed, Known, ReadersTypeOK
    <3>2. \A f \in Emails :
            /\ receipts'[k][f] = IF f = u.email THEN u.state ELSE receipts[k][f]
            /\ f \in index'[k] <=> (f \in index[k] \/ f = u.email)
      BY <1>1, <2>5, <3>1 DEF StartListener, WellFormed, ReadersTypeOK
    <3>3. SessionInv(k)'
      <4>1. Interrupted(k)'
        BY <2>3 DEF Interrupted
      <4>2. ASSUME NEW f \in Emails
            PROVE  /\ Dispatched(k, f)' => Own(k, route'[f]) /\ route'[f].state # "skipped"
                   /\ receipts'[k][f] = "accepted" => turns'[f] = 1
                   /\ f \in index'[k] <=> receipts'[k][f] # "none"
        <5>1. /\ Dispatched(k, f) => Own(k, route[f]) /\ route[f].state # "skipped"
              /\ receipts[k][f] = "accepted" => turns[f] = 1
              /\ f # u.email => (f \in index[k] <=> receipts[k][f] # "none")
          BY <1>k DEF SessionInv
        <5>. QED
          BY <2>1, <3>1, <3>2, <5>1 DEF Dispatched
      <4>. QED
        BY <2>1, <4>1, <4>2 DEF SessionInv
    <3>4. ASSUME NEW f \in Emails PROVE EmailInv(f)'
      <4>1. EmailInv(f)
        BY DEF TurnInv
      <4>2. CASE f = u.email /\ u.state = "not_submitted"
        BY <2>1, <3>1, <4>1, <4>2 DEF EmailInv
      <4>3. ASSUME NEW j \in Sessions, Dispatched(j, f), ~(f = u.email /\ u.state = "not_submitted")
            PROVE  Dispatched(j, f)'
        <5>1. CASE j = k
          BY <3>1, <3>2, <4>3, <5>1 DEF Dispatched, ReceiptStates
        <5>2. CASE j # k
          <6>1. receipts'[j] = receipts[j]
            BY <1>1, <5>2 DEF StartListener, WellFormed, ReadersTypeOK
          <6>. QED
            BY <4>3, <6>1 DEF Dispatched
        <5>. QED
          BY <5>1, <5>2
      <4>. QED
        BY <2>1, <4>1, <4>2, <4>3 DEF EmailInv
    <3>. QED
      BY <2>1, <2>2, <3>3, <3>4 DEF TurnInv
  <2>. QED
    BY <2>4, <2>5
<1>2. ASSUME StopListener(k)
      PROVE  TurnInv' /\ ByNotify
  BY <1>2, <1>a DEF StopListener, In, ByListener, NoCall, vars
<1>3. ASSUME NEW e \in Emails, List(k, e)
      PROVE  TurnInv' /\ ByNotify
  <2>1. UNCHANGED <<route, receipts, index, pending, turns>> /\ ByListener(k) /\ ByNotify
    BY <1>3 DEF List, NoCall, vars, ByListener, ByNotify
  <2>2. ASSUME NEW j \in Sessions, j # k PROVE SessionInv(j)'
    <3>1. listener'[j] = listener[j] /\ row'[j] = row[j]
      BY <1>3, <2>2 DEF List
    <3>. QED
      BY <2>1, <2>2, <3>1, OtherSession DEF TurnInv
  <2>3. listener'[k] = [stage |-> "judge", email |-> e] /\ row'[k] = route[e]
    BY <1>3 DEF List, WellFormed, ReadersTypeOK
  <2>4. pending[k] = NoUpdate
    BY <1>3, <1>k DEF List, In, Interrupted
  <2>5. AtEmail(k)'
    <3>1. route[e] = NoRoute => ~Dispatched(k, e)
      BY <1>k DEF SessionInv, Own, NoRoute
    <3>. QED
      BY <2>1, <2>3, <3>1 DEF AtEmail, In, Mail, Dispatched
  <2>6. SessionInv(k)'
    BY <1>k, <2>1, <2>4, <2>5 DEF SessionInv, Interrupted, Dispatched
  <2>7. \A f \in Emails : EmailInv(f)'
    BY <2>1 DEF TurnInv, EmailInv, Dispatched
  <2>. QED
    BY <2>1, <2>2, <2>6, <2>7 DEF TurnInv
<1>4. ASSUME Settled(k)
      PROVE  TurnInv' /\ ByNotify
  BY <1>4, <1>a DEF Settled, In, ByListener, NoCall, vars
<1>5. ASSUME Resume(k)
      PROVE  TurnInv' /\ ByNotify
  <2>1. ~In(k, "off") /\ UNCHANGED route /\ Rest
    BY <1>5 DEF Resume, In, NoCall, vars
  <2>2. AtEmail(k)'
    BY <1>5, <1>k, <1>e, <2>1 DEF Resume, AtEmail, In, Dispatched, Receipt,
       Rest, Stages
  <2>. QED
    BY <1>5, <1>b, <2>1, <2>2 DEF Resume, Stages
<1>6. ASSUME NEW verdict \in {"scan", "ignored", "hydrate"}, Judge(k, verdict)
      PROVE  TurnInv' /\ ByNotify
  <2>1. CASE verdict = "scan"
    BY <1>6, <2>1, <1>a DEF Judge, In, ByListener, NoCall, vars
  <2>2. CASE verdict # "scan"
    <3>1. ~In(k, "off") /\ UNCHANGED route /\ Rest /\ Enter(k, verdict) /\ verdict \in Stages
      BY <1>6, <2>2 DEF Judge, In, NoCall, vars, Stages
    <3>2. ~Dispatched(k, Mail(k))
      BY <1>6, <1>k DEF Judge, AtEmail, Dispatched, Receipt, In
    <3>3. AtEmail(k)'
      BY <1>e, <2>2, <3>1, <3>2 DEF AtEmail, In, Dispatched, Receipt, Rest
    <3>. QED
      BY <1>b, <3>1, <3>3
  <2>. QED
    BY <2>1, <2>2
<1>7. ASSUME Ignored(k)
      PROVE  TurnInv' /\ ByNotify
  <2>1. Mail(k) \in Emails /\ ~In(k, "off")
    BY <1>7, <1>m DEF Ignored, In
  <2>2. Receipt(k) = "none" => ~Dispatched(k, Mail(k))
    BY DEF Dispatched, Receipt
  <2>3. /\ ByListener(k)
        /\ \A e \in Emails : e = Mail(k) /\ route'[e] # route[e] =>
              /\ Dispatched(k, e) => Own(k, route'[e]) /\ route'[e].state # "skipped"
              /\ route'[e].state = "accepted" => turns[e] = 1
    BY <1>7, <2>1, <2>2 DEF Ignored, SkipNotification, Notified, NoCall, vars,
       Receipt, Dispatched, ByListener, Own, WellFormed, StoreInv, TypeOK,
       Routes, NoRoute
  <2>. QED
    BY <1>7, <1>a, <2>1, <2>3 DEF Ignored
<1>8. ASSUME HydrateMail(k)
      PROVE  TurnInv' /\ ByNotify
  <2>1. ~In(k, "off") /\ UNCHANGED route /\ Rest
    BY <1>8 DEF HydrateMail, In, NoCall, vars, Hydrate
  <2>2. AtEmail(k)'
    BY <1>8, <1>k, <1>e, <2>1 DEF HydrateMail, AtEmail, In, Dispatched, Receipt,
       Rest, Stages
  <2>. QED
    BY <1>8, <1>b, <2>1, <2>2 DEF HydrateMail, Stages
<1>9. ASSUME ClaimMail(k)
      PROVE  TurnInv' /\ ByNotify
  <2>1. Mail(k) \in Emails /\ ~In(k, "off")
    BY <1>9, <1>m DEF ClaimMail, In
  <2>2. ~Dispatched(k, Mail(k))
    BY <1>9, <1>k DEF ClaimMail, AtEmail, Dispatched, Receipt, In
  <2>3. /\ ByListener(k) /\ Own(k, route'[Mail(k)]) /\ route'[Mail(k)].state = "selected"
        /\ Rest /\ Enter(k, "claimed")
    BY <1>9, <2>1 DEF ClaimMail, ClaimForNotification, NoCall, vars, ByListener,
       Own, WellFormed, StoreInv, TypeOK
  <2>4. AtEmail(k)'
    BY <1>e, <2>2, <2>3 DEF AtEmail, In, Dispatched, Receipt, Rest, Stages
  <2>5. \A j \in Sessions : j # k => listener'[j] = listener[j]
    BY <2>3 DEF Enter
  <2>. QED
    BY <2>1, <2>2, <2>3, <2>4, <2>5, RestKeeps, ListenerByNotify
<1>10. ASSUME NotClaimed(k)
      PROVE  TurnInv' /\ ByNotify
  BY <1>10, <1>a DEF NotClaimed, In, ByListener, NoCall, vars
<1>11. ASSUME Skip(k)
      PROVE  TurnInv' /\ ByNotify
  <2>1. Mail(k) \in Emails /\ ~In(k, "off")
    BY <1>11, <1>m DEF Skip, In
  <2>2. ~Dispatched(k, Mail(k))
    BY <1>11, <1>k DEF Skip, AtEmail, Dispatched, Receipt, In
  <2>3. /\ ByListener(k)
        /\ \A e \in Emails : e = Mail(k) /\ route'[e] # route[e] =>
              /\ Dispatched(k, e) => Own(k, route'[e]) /\ route'[e].state # "skipped"
              /\ route'[e].state = "accepted" => turns[e] = 1
    BY <1>11, <2>1, <2>2 DEF Skip, SkipNotification, Notified, ByListener, Own,
       WellFormed, StoreInv, TypeOK, Routes, NoRoute
  <2>. QED
    BY <1>11, <1>a, <2>1, <2>3 DEF Skip
<1>12. ASSUME FollowThread(k)
      PROVE  TurnInv' /\ ByNotify
  <2>1. ~In(k, "off") /\ UNCHANGED route /\ Rest
    BY <1>12 DEF FollowThread, In, NoCall, vars, Follow, mailVars
  <2>2. AtEmail(k)'
    BY <1>12, <1>k, <1>e, <2>1 DEF FollowThread, AtEmail, In, Dispatched,
       Receipt, Rest, Stages
  <2>. QED
    BY <1>12, <1>b, <2>1, <2>2 DEF FollowThread, Stages
<1>13. ASSUME Prepare(k)
      PROVE  TurnInv' /\ ByNotify
  <2>1. ~In(k, "off") /\ UNCHANGED route /\ Rest
    BY <1>13 DEF Prepare, In, NoCall, vars
  <2>2. AtEmail(k)'
    BY <1>13, <1>k, <1>e, <2>1 DEF Prepare, AtEmail, In, Dispatched, Receipt,
       Rest, Stages
  <2>. QED
    BY <1>13, <1>b, <2>1, <2>2 DEF Prepare, Stages
<1>14. ASSUME Suppress(k)
      PROVE  TurnInv' /\ ByNotify
  <2>1. Mail(k) \in Emails /\ ~In(k, "off")
    BY <1>14, <1>m DEF Suppress, In
  <2>2. ~Dispatched(k, Mail(k))
    BY <1>14, <1>k DEF Suppress, AtEmail, Dispatched, Receipt, In
  <2>3. /\ ByListener(k)
        /\ \A e \in Emails : e = Mail(k) /\ route'[e] # route[e] =>
              /\ Dispatched(k, e) => Own(k, route'[e]) /\ route'[e].state # "skipped"
              /\ route'[e].state = "accepted" => turns[e] = 1
    BY <1>14, <2>1, <2>2 DEF Suppress, SkipNotification, ReleaseNotification,
       Notified, ByListener, Own, WellFormed, StoreInv, TypeOK, Routes, NoRoute
  <2>. QED
    BY <1>14, <1>a, <2>1, <2>3 DEF Suppress
<1>15. ASSUME Submit(k)
      PROVE  TurnInv' /\ ByNotify
  <2>1. /\ Own(k, route[Mail(k)]) /\ route[Mail(k)].state = "selected" /\ Mail(k) \in Emails
        /\ ~Dispatched(k, Mail(k))
    BY <1>15, <1>k, <1>m DEF Submit, AtEmail, In
  <2>2. turns[Mail(k)] = 0
    <3>1. \A j \in Sessions : ~Dispatched(j, Mail(k))
      BY <2>1 DEF TurnInv, SessionInv, Own
    <3>2. turns[Mail(k)] \in Nat /\ ~(turns[Mail(k)] > 0)
      BY <2>1, <3>1 DEF TurnInv, EmailInv, WellFormed, ReadersTypeOK
    <3>. QED
      BY <3>2
  <2>3. UNCHANGED <<route, turns>>
    BY <1>15 DEF Submit, SaveReceipt, vars
  <2>4. ASSUME Receipt(k)' = "submitting", In(k, "turn")', Mail(k)' = Mail(k)
        PROVE  AtEmail(k)'
    BY <2>1, <2>2, <2>3, <2>4 DEF AtEmail, In
  <2>. QED
    BY <1>15, <1>c, <2>1, <2>4 DEF Submit, In, Stages, ReceiptStates
<1>16. ASSUME Turn(k)
      PROVE  TurnInv' /\ ByNotify
  <2>1. /\ Own(k, route[Mail(k)]) /\ route[Mail(k)].state = "selected" /\ Mail(k) \in Emails
        /\ Receipt(k) = "submitting" /\ turns[Mail(k)] = 0
    BY <1>16, <1>k, <1>m DEF Turn, AtEmail, In
  <2>2. /\ UNCHANGED <<route, row, receipts, index, pending>> /\ ByListener(k) /\ ByNotify
        /\ pending[k] = NoUpdate
    BY <1>16, <1>k DEF Turn, NoCall, vars, ByListener, ByNotify, Interrupted, In
  <2>3. PICK stage \in {"accepted", "unknown", "refused"} :
          /\ Enter(k, stage)
          /\ \/ stage # "refused" /\ turns' = [turns EXCEPT ![Mail(k)] = @ + 1]
             \/ stage # "accepted" /\ UNCHANGED turns
    BY <1>16 DEF Turn
  <2>4. /\ turns'[Mail(k)] \in {0, 1}
        /\ stage = "accepted" => turns'[Mail(k)] = 1
        /\ stage = "refused" => turns'[Mail(k)] = 0
        /\ \A e \in Emails : e # Mail(k) => turns'[e] = turns[e]
    BY <2>1, <2>3 DEF WellFormed, ReadersTypeOK
  <2>5. ASSUME NEW j \in Sessions, j # k PROVE SessionInv(j)'
    <3>1. listener'[j] = listener[j]
      BY <2>3, <2>5 DEF Enter
    <3>2. \A e \in Emails : turns'[e] = turns[e] \/ Own(k, route[e])
      BY <2>1, <2>4
    <3>. QED
      BY <2>2, <2>5, <3>1, <3>2, OtherSession DEF TurnInv
  <2>6. AtEmail(k)'
    <3>1. In(k, stage)' /\ Mail(k)' = Mail(k) /\ \A s : In(k, s)' => s = stage
      BY <1>e, <2>3 DEF Stages
    <3>. QED
      BY <2>1, <2>2, <2>4, <3>1 DEF AtEmail, In, Receipt
  <2>7. SessionInv(k)'
    BY <1>k, <2>1, <2>2, <2>4, <2>6 DEF SessionInv, Interrupted, Dispatched, Receipt
  <2>8. ASSUME NEW e \in Emails PROVE EmailInv(e)'
    <3>1. CASE e = Mail(k)
      <4>1. Dispatched(k, e)' /\ route[e].state = "selected"
        BY <2>1, <2>2, <3>1 DEF Dispatched, Receipt
      <4>. QED
        BY <2>2, <2>4, <3>1, <4>1 DEF EmailInv
    <3>2. CASE e # Mail(k)
      BY <2>2, <2>4, <3>2 DEF TurnInv, EmailInv, Dispatched
    <3>. QED
      BY <3>1, <3>2
  <2>. QED
    BY <2>2, <2>5, <2>7, <2>8 DEF TurnInv
<1>17. ASSUME Record(k)
      PROVE  TurnInv' /\ ByNotify
  <2>1. PICK state \in {"accepted", "unknown", "not_submitted"} :
          \E stage \in {"reconcile", "defer"} :
            /\ SaveReceipt(k, state, stage)
            /\ state = "accepted" => In(k, "accepted")
            /\ state = "unknown" => In(k, "unknown")
            /\ state = "not_submitted" <=> In(k, "refused")
            /\ stage = "defer" <=> state = "not_submitted"
    BY <1>17 DEF Record, In
  <2>2. PICK stage \in {"reconcile", "defer"} :
            /\ SaveReceipt(k, state, stage)
            /\ state = "accepted" => In(k, "accepted")
            /\ state = "unknown" => In(k, "unknown")
            /\ state = "not_submitted" <=> In(k, "refused")
            /\ stage = "defer" <=> state = "not_submitted"
    BY <2>1
  <2>3. /\ Own(k, route[Mail(k)]) /\ route[Mail(k)].state = "selected"
        /\ state = "accepted" => turns[Mail(k)] = 1
        /\ state = "not_submitted" => turns[Mail(k)] = 0
    BY <1>k, <2>2 DEF AtEmail, In
  <2>4. UNCHANGED <<route, turns>>
    BY <2>2 DEF SaveReceipt, vars
  <2>5. ASSUME Receipt(k)' = state, In(k, stage)', Mail(k)' = Mail(k)
        PROVE  AtEmail(k)'
    BY <2>2, <2>3, <2>4, <2>5 DEF AtEmail, In
  <2>6. ~In(k, "off") /\ ~In(k, "scan")
    BY <2>2 DEF In
  <2>. QED
    BY <1>c, <2>2, <2>3, <2>5, <2>6 DEF Stages, ReceiptStates
<1>18. ASSUME Defer(k)
      PROVE  TurnInv' /\ ByNotify
  <2>1. Mail(k) \in Emails /\ ~In(k, "off")
    BY <1>18, <1>m DEF Defer, In
  <2>2. ~Dispatched(k, Mail(k))
    BY <1>18, <1>k DEF Defer, AtEmail, Dispatched, Receipt, In
  <2>3. /\ ByListener(k)
        /\ \A e \in Emails : e = Mail(k) /\ route'[e] # route[e] =>
              /\ Dispatched(k, e) => Own(k, route'[e]) /\ route'[e].state # "skipped"
              /\ route'[e].state = "accepted" => turns[e] = 1
    BY <1>18, <2>1, <2>2 DEF Defer, ReleaseNotification, Notified, ByListener,
       Own, WellFormed, StoreInv, TypeOK, Routes, NoRoute
  <2>. QED
    BY <1>18, <1>a, <2>1, <2>3 DEF Defer
<1>19. ASSUME Reconcile(k)
      PROVE  TurnInv' /\ ByNotify
  <2>1. Mail(k) \in Emails /\ ~In(k, "off")
    BY <1>19, <1>m DEF Reconcile, In
  <2>2. /\ ByListener(k) /\ Own(k, route'[Mail(k)]) /\ Rest /\ Enter(k, "mark")
        /\ route'[Mail(k)] # route[Mail(k)] => route'[Mail(k)].state = "submitting"
    BY <1>19, <2>1 DEF Reconcile, MarkNotification, NoCall, vars, ByListener,
       Own, WellFormed, StoreInv, TypeOK, Routes, NoRoute
  <2>3. AtEmail(k)'
    BY <1>e, <2>2 DEF AtEmail, In, Stages
  <2>4. \A j \in Sessions : j # k => listener'[j] = listener[j]
    BY <2>2 DEF Enter
  <2>. QED
    BY <2>1, <2>2, <2>3, <2>4, RestKeeps, ListenerByNotify
<1>20. ASSUME MarkOutcome(k)
      PROVE  TurnInv' /\ ByNotify
  <2>1. Mail(k) \in Emails /\ ~In(k, "off") /\ Own(k, route[Mail(k)])
    BY <1>20, <1>k, <1>m DEF MarkOutcome, AtEmail, In
  <2>2. Receipt(k) = "accepted" => turns[Mail(k)] = 1
    BY <1>k, <2>1 DEF SessionInv, Receipt
  <2>3. CASE Receipt(k) = "accepted"
    <3>1. MarkNotification(Mail(k), "accepted") /\ Leave(k, "scan") /\ Rest
      BY <1>20, <2>3 DEF MarkOutcome
    <3>2. /\ ByListener(k) /\ Own(k, route'[Mail(k)])
          /\ route'[Mail(k)].state = "accepted"
      BY <2>1, <3>1 DEF MarkNotification, ByListener, Own, WellFormed, StoreInv,
         TypeOK, Routes, NoRoute
    <3>. QED
      BY <1>a, <2>1, <2>2, <2>3, <3>1, <3>2
  <2>4. CASE Receipt(k) # "accepted"
    <3>1. MarkNotification(Mail(k), "unknown") /\ Leave(k, "off") /\ Rest
      BY <1>20, <2>4 DEF MarkOutcome
    <3>2. /\ ByListener(k) /\ Own(k, route'[Mail(k)])
          /\ route'[Mail(k)].state = "unknown"
      BY <2>1, <3>1 DEF MarkNotification, ByListener, Own, WellFormed, StoreInv,
         TypeOK, Routes, NoRoute
    <3>. QED
      BY <1>a, <2>1, <3>1, <3>2
  <2>. QED
    BY <2>3, <2>4
<1>21. QED
  BY <1>1, <1>2, <1>3, <1>4, <1>5, <1>6, <1>7, <1>8, <1>9, <1>10, <1>11, <1>12,
     <1>13, <1>14, <1>15, <1>16, <1>17, <1>18, <1>19, <1>20

\* A command's step keeps what the command relies on.
LEMMA ChatKeeps ==
    ASSUME WellFormed, ChatInv, ChatNext, [Next]_vars
    PROVE  ChatInv'
<1> USE DEF At, Go, Idle, NoSave, NoStore
<1>x. \A r \in Requests : Exists(r) => Exists(r)'
  BY WaitsStay
<1>k. /\ cmd.step # "idle" => receipt.key \in Requests
      /\ cmd.step \in {"ingest", "hydrate", "claim", "follow", "keep", "observe", "finish", "complete", "report"}
           => cmd.reply \in Emails
      /\ cmd \in [step : Steps, token : OrNone(Waiters), wait : OrNone(Requests),
                  fresh : BOOLEAN, reply : OrNone(Emails)]
      /\ receipt \in [key : OrNone(Requests), attempted : BOOLEAN, sent : OrNone(Sends),
                      refused : BOOLEAN, reply : OrNone(Emails), by : OrNone(Requests), done : BOOLEAN]
      /\ posts \in [Requests -> Nat] /\ None \notin Emails /\ reported \subseteq Emails
      /\ cmd.step = "openBind" => receipt.sent # None
      /\ \A key \in Requests : outcome[key] = "accepted" => sentAs[key] # None
  BY NoneAssumption DEF WellFormed, ReadersTypeOK, Known
<1>1. ASSUME NEW token \in Waiters, Begin(token)
      PROVE  ChatInv'
  <2>1. /\ UNCHANGED <<posts, reported, dropped, route>> /\ ~receipt'.done /\ cmd.step = "idle"
        /\ cmd'.step = "open" /\ cmd'.wait = receipt'.key /\ receipt'.key \in Requests
    BY <1>1, <1>k DEF Begin, vars, NoReceipt, WellFormed, Known
  <2>2. CASE UNCHANGED receipt /\ ~receipt.done
    BY <1>x, <1>k, <2>1, <2>2 DEF ChatInv, ReplyNotLost
  <2>3. CASE receipt.done
    <3>1. PICK key \in Requests : ~Exists(key) /\ receipt' = [NoReceipt EXCEPT !.key = key, !.done = FALSE]
      BY <1>1, <2>3 DEF Begin
    <3>2. receipt' = [key |-> key, attempted |-> FALSE, sent |-> None,
                      refused |-> FALSE, reply |-> None, by |-> None, done |-> FALSE]
      BY <3>1 DEF NoReceipt
    <3>3. posts[key] = 0
      BY <1>k, <3>1 DEF ChatInv
    <3>. QED
      BY <1>x, <1>k, <2>1, <2>3, <3>2, <3>3 DEF ChatInv, ReplyNotLost
  <2>. QED
    BY <1>1, <2>2, <2>3 DEF Begin
<1>2. ASSUME NEW token \in Waiters, CommandGone(token)
      PROVE  ChatInv'
  <2>1. UNCHANGED <<chatVars, route>>
    BY <1>2 DEF CommandGone, WaiterGone, mailVars
  <2>. QED
    BY <1>x, <1>k, <2>1 DEF chatVars, ChatInv, ReplyNotLost
<1>3. ASSUME NEW next \in {"ready", "giveUp"}, OpenReply(next)
      PROVE  ChatInv'
  <2>1. UNCHANGED route
    BY <1>3 DEF OpenReply, vars, mailVars, JoinWait
  <2>. QED
    BY <1>3, <1>x, <1>k, <2>1 DEF OpenReply, serverVars, ChatInv, ReplyNotLost
<1>4. ASSUME NEW next \in {"ready", "giveUp"}, OpenBound(next)
      PROVE  ChatInv'
  <2>1. UNCHANGED route
    BY <1>4 DEF OpenBound, vars, mailVars, JoinWait
  <2>. QED
    BY <1>4, <1>x, <1>k, <2>1 DEF OpenBound, serverVars, ChatInv, ReplyNotLost
<1>5. ASSUME NEW next \in {"ready", "giveUp"}, OpenOwn(next)
      PROVE  ChatInv'
  <2>1. UNCHANGED route
    BY <1>5 DEF OpenOwn, vars, mailVars, RegisterNew, RegisterAgain
  <2>. QED
    BY <1>5, <1>x, <1>k, <2>1 DEF OpenOwn, serverVars, ChatInv, ReplyNotLost
<1>6. ASSUME OpenBind
      PROVE  ChatInv'
  <2>1. UNCHANGED route
    BY <1>6 DEF OpenBind, vars, mailVars, BindOwn
  <2>. QED
    BY <1>6, <1>x, <1>k, <2>1 DEF OpenBind, serverVars, ChatInv, ReplyNotLost
<1>7. ASSUME GiveUp
      PROVE  ChatInv'
  <2>1. UNCHANGED route
    BY <1>7 DEF GiveUp, vars, mailVars, ReleaseWaiter
  <2>. QED
    BY <1>7, <1>x, <1>k, <2>1 DEF GiveUp, serverVars, ChatInv, ReplyNotLost
<1>8. ASSUME GiveUpCancel
      PROVE  ChatInv'
  <2>1. UNCHANGED route
    BY <1>8 DEF GiveUpCancel, vars, mailVars, CancelWaitBeforeSend, Cancel
  <2>. QED
    BY <1>8, <1>x, <1>k, <2>1 DEF GiveUpCancel, serverVars, ChatInv, ReplyNotLost
<1>9. ASSUME Ready
      PROVE  ChatInv'
  <2>1. UNCHANGED route
    BY <1>9 DEF Ready, vars, mailVars
  <2>. QED
    BY <1>9, <1>x, <1>k, <2>1 DEF Ready, serverVars, ChatInv, ReplyNotLost
<1>10. ASSUME NotReady
      PROVE  ChatInv'
  <2>1. UNCHANGED route
    BY <1>10 DEF NotReady, vars, mailVars
  <2>. QED
    BY <1>10, <1>x, <1>k, <2>1 DEF NotReady, serverVars, ChatInv, ReplyNotLost
<1>11. ASSUME CancelUnsent
      PROVE  ChatInv'
  <2>1. UNCHANGED route
    BY <1>11 DEF CancelUnsent, vars, mailVars, CancelWaitBeforeSend, Cancel
  <2>. QED
    BY <1>11, <1>x, <1>k, <2>1 DEF CancelUnsent, serverVars, ChatInv, ReplyNotLost
<1>12. ASSUME Settle
      PROVE  ChatInv'
  <2>1. UNCHANGED route
    BY <1>12 DEF Settle, vars, mailVars
  <2>. QED
    BY <1>12, <1>x, <1>k, <2>1 DEF Settle, serverVars, ChatInv, ReplyNotLost
<1>13. ASSUME Ask
      PROVE  ChatInv'
  <2>1. UNCHANGED route
    BY <1>13 DEF Ask, vars, mailVars, MarkWaitUncertain
  <2>. QED
    BY <1>13, <1>x, <1>k, <2>1 DEF Ask, serverVars, ChatInv, ReplyNotLost
<1>14. ASSUME Lookup
      PROVE  ChatInv'
  <2>1. UNCHANGED route
    BY <1>14 DEF Lookup, vars, mailVars
  <2>. QED
    BY <1>14, <1>x, <1>k, <2>1 DEF Lookup, serverVars, ChatInv, ReplyNotLost
<1>36. ASSUME LookupRefused
      PROVE  ChatInv'
  <2>1. UNCHANGED route
    BY <1>36 DEF LookupRefused, vars, mailVars
  <2>. QED
    BY <1>36, <1>x, <1>k, <2>1 DEF LookupRefused, serverVars, ChatInv, ReplyNotLost
<1>37. ASSUME Rejected
      PROVE  ChatInv'
  <2>1. UNCHANGED route
    BY <1>37 DEF Rejected, vars, mailVars, CancelRejectedSend, Cancel
  <2>. QED
    BY <1>37, <1>x, <1>k, <2>1 DEF Rejected, serverVars, ChatInv, ReplyNotLost
<1>15. ASSUME Attempt
      PROVE  ChatInv'
  <2>1. UNCHANGED route
    BY <1>15 DEF Attempt, vars, mailVars
  <2>. QED
    BY <1>15, <1>x, <1>k, <2>1 DEF Attempt, serverVars, ChatInv, ReplyNotLost
<1>16. ASSUME Mark
      PROVE  ChatInv'
  <2>1. UNCHANGED route /\ Exists(receipt.key)
    BY <1>16, <1>k DEF Mark, MarkWaitUncertain, mailVars, ChatInv, Exists,
       Unresolved
  <2>. QED
    BY <1>16, <1>x, <1>k, <2>1 DEF Mark, serverVars, ChatInv, ReplyNotLost
<1>17. ASSUME Post
      PROVE  ChatInv'
  <2>1. UNCHANGED <<route, receipt, reported>> /\ cmd' = [cmd EXCEPT !.step = "answer"]
    BY <1>17 DEF Post, vars
  <2>2. \A key \in Requests : posts'[key] = IF key = receipt.key THEN 1 ELSE posts[key]
    BY <1>17, <1>k DEF Post, ChatInv
  <2>. QED
    BY <1>17, <1>x, <1>k, <2>1, <2>2 DEF Post, ChatInv, ReplyNotLost
<1>18. ASSUME Answered
      PROVE  ChatInv'
  <2>1. UNCHANGED route
    BY <1>18 DEF Answered, vars, mailVars
  <2>. QED
    BY <1>18, <1>x, <1>k, <2>1 DEF Answered, serverVars, ChatInv, ReplyNotLost
<1>19. ASSUME Refused
      PROVE  ChatInv'
  <2>1. UNCHANGED route
    BY <1>19 DEF Refused, vars, mailVars, CancelRejectedSend, Cancel
  <2>. QED
    BY <1>19, <1>x, <1>k, <2>1 DEF Refused, serverVars, ChatInv, ReplyNotLost
<1>20. ASSUME Bind
      PROVE  ChatInv'
  <2>1. UNCHANGED route
    BY <1>20 DEF Bind, vars, mailVars, BindOwn
  <2>. QED
    BY <1>20, <1>x, <1>k, <2>1 DEF Bind, serverVars, ChatInv, ReplyNotLost
<1>21. ASSUME NEW e \in Emails, Found(e)
      PROVE  ChatInv'
  <2>1. UNCHANGED route
    BY <1>21 DEF Found, vars, mailVars
  <2>. QED
    BY <1>21, <1>x, <1>k, <2>1 DEF Found, serverVars, ChatInv, ReplyNotLost
<1>22. ASSUME IngestFound
      PROVE  ChatInv'
  <2>1. UNCHANGED route
    BY <1>22 DEF IngestFound, vars, mailVars, Ingest
  <2>. QED
    BY <1>22, <1>x, <1>k, <2>1 DEF IngestFound, serverVars, ChatInv, ReplyNotLost
<1>23. ASSUME HydrateFound
      PROVE  ChatInv'
  <2>1. UNCHANGED route
    BY <1>23 DEF HydrateFound, vars, mailVars, Hydrate
  <2>. QED
    BY <1>23, <1>x, <1>k, <2>1 DEF HydrateFound, serverVars, ChatInv, ReplyNotLost
<1>24. ASSUME Claim
      PROVE  ChatInv'
  <2>1. /\ \A e \in Emails : e # cmd.reply => route'[e] = route[e]
        /\ route[cmd.reply] = NoRoute
        /\ route'[cmd.reply].kind = "wait" /\ route'[cmd.reply].state = "claimed"
    BY <1>24, <1>k DEF Claim, ClaimForWait, WellFormed, StoreInv, TypeOK
  <2>. QED
    BY <1>24, <1>x, <1>k, <2>1 DEF Claim, serverVars, ChatInv, ReplyNotLost, NoRoute
<1>25. ASSUME ClaimAgain
      PROVE  ChatInv'
  <2>1. UNCHANGED route
    BY <1>25 DEF ClaimAgain, vars, mailVars
  <2>. QED
    BY <1>25, <1>x, <1>k, <2>1 DEF ClaimAgain, serverVars, ChatInv, ReplyNotLost
<1>26. ASSUME FollowReply
      PROVE  ChatInv'
  <2>1. UNCHANGED route
    BY <1>26 DEF FollowReply, vars, mailVars, Follow
  <2>. QED
    BY <1>26, <1>x, <1>k, <2>1 DEF FollowReply, serverVars, ChatInv, ReplyNotLost
<1>27. ASSUME Keep
      PROVE  ChatInv'
  <2>1. UNCHANGED route
    BY <1>27 DEF Keep, vars, mailVars
  <2>. QED
    BY <1>27, <1>x, <1>k, <2>1 DEF Keep, serverVars, ChatInv, ReplyNotLost
<1>28. ASSUME Observe
      PROVE  ChatInv'
  <2>1. /\ \A e \in Emails : e # cmd.reply => route'[e] = route[e]
        /\ route'[cmd.reply].kind = "wait"
    BY <1>28, <1>k DEF Observe, MarkWaitObserved, WellFormed, StoreInv, TypeOK,
       Routes, NoRoute
  <2>. QED
    BY <1>28, <1>x, <1>k, <2>1 DEF Observe, serverVars, ChatInv, ReplyNotLost
<1>29. ASSUME Finish
      PROVE  ChatInv'
  <2>1. UNCHANGED route
    BY <1>29 DEF Finish, vars, mailVars, FinishWait
  <2>. QED
    BY <1>29, <1>x, <1>k, <2>1 DEF Finish, serverVars, ChatInv, ReplyNotLost
<1>38. ASSUME NEW saved \in BOOLEAN, Complete(saved)
      PROVE  ChatInv'
  <2>1. UNCHANGED route
    BY <1>38 DEF Complete, vars, mailVars
  <2>. QED
    BY <1>38, <1>x, <1>k, <2>1 DEF Complete, serverVars, ChatInv, ReplyNotLost
<1>30. ASSUME Report
      PROVE  ChatInv'
  <2>1. UNCHANGED route
    BY <1>30 DEF Report, vars, mailVars
  <2>. QED
    BY <1>30, <1>x, <1>k, <2>1 DEF Report, serverVars, ChatInv, ReplyNotLost
<1>31. ASSUME Close
      PROVE  ChatInv'
  <2>1. UNCHANGED route
    BY <1>31 DEF Close, vars, mailVars, ReleaseWaiter
  <2>. QED
    BY <1>31, <1>x, <1>k, <2>1 DEF Close, serverVars, ChatInv, ReplyNotLost
<1>32. ASSUME Fail
      PROVE  ChatInv'
  <2>1. UNCHANGED route
    BY <1>32 DEF Fail, vars, mailVars
  <2>. QED
    BY <1>32, <1>x, <1>k, <2>1 DEF Fail, serverVars, ChatInv, ReplyNotLost
<1>33. ASSUME FailOpening
      PROVE  ChatInv'
  <2>1. UNCHANGED route
    BY <1>33 DEF FailOpening, vars, mailVars
  <2>. QED
    BY <1>33, <1>x, <1>k, <2>1 DEF FailOpening, serverVars, ChatInv, ReplyNotLost
<1>34. ASSUME Die
      PROVE  ChatInv'
  <2>1. UNCHANGED route
    BY <1>34 DEF Die, vars, mailVars
  <2>. QED
    BY <1>34, <1>x, <1>k, <2>1 DEF Die, serverVars, ChatInv, ReplyNotLost
<1>35. QED
  BY <1>1, <1>2, <1>3, <1>4, <1>5, <1>6, <1>7, <1>8, <1>9, <1>10, <1>11, <1>12,
     <1>13, <1>14, <1>15, <1>16, <1>17, <1>18, <1>19, <1>20, <1>21, <1>22,
     <1>23, <1>24, <1>25, <1>26, <1>27, <1>28, <1>29, <1>30, <1>31, <1>32,
     <1>33, <1>34, <1>36, <1>37, <1>38 DEF ChatNext

-----------------------------------------------------------------------------
LEMMA InitReadersInv == ReadersInit => ReadersInv
<1> SUFFICES ASSUME ReadersInit PROVE ReadersInv
  OBVIOUS
<1> USE NoneAssumption DEF ReadersInit, ServerInit, ChatInit, NotifyInit
<1>1. StoreInv
  BY InitStoreInv
<1>2. ReadersTypeOK
  BY DEF ReadersTypeOK, OrNone, Idle, NoReceipt, NoUpdate, NoRoute, Steps,
     Stages, ReceiptStates
<1>3. Known
  BY DEF Known, ListenerKnows, Idle, NoReceipt, Init
<1>4. ChatInv
  BY DEF ChatInv, ReplyNotLost, Idle, NoReceipt, Init, NoRoute
<1>5. TurnInv
  BY DEF TurnInv, SessionInv, EmailInv, AtEmail, Interrupted, Dispatched, In,
     Init, NoRoute, NoUpdate
<1>. QED
  BY <1>1, <1>2, <1>3, <1>4, <1>5 DEF ReadersInv, WellFormed

\* Every step of the readers is a transaction of the store, or none, and keeps
\* the invariant.
LEMMA NextReadersInv ==
    ASSUME ReadersInv, [ReadersNext]_readersVars
    PROVE  ReadersInv' /\ [Next]_vars
<1> USE DEF ReadersInv
<1>1. CASE ServerNext /\ UNCHANGED <<chatVars, notifyVars>>
  <2>1. [Next]_vars /\ WellFormed'
    BY <1>1, ServerStep, NextStoreInv DEF WellFormed
  <2>2. ByChat /\ ByNotify
    BY <1>1, ServerRoutes DEF ByChat, ByNotify
  <2>. QED
    BY <1>1, <2>1, <2>2, OthersKeepTurns, OthersKeepChat
<1>2. CASE ChatNext /\ UNCHANGED notifyVars
  <2>1. [Next]_vars /\ WellFormed'
    BY <1>2, ChatStep, NextStoreInv DEF WellFormed
  <2>. QED
    BY <1>2, <2>1, ChatRoutes, OthersKeepTurns, ChatKeeps
<1>3. CASE NotifyNext /\ UNCHANGED chatVars
  <2>1. [Next]_vars /\ WellFormed'
    BY <1>3, NotifyStep, NextStoreInv DEF WellFormed
  <2>. QED
    BY <1>3, <2>1, NotifyKeeps, OthersKeepChat
<1>4. CASE UNCHANGED readersVars
  <2>1. UNCHANGED <<vars, serverVars, chatVars, notifyVars>>
    BY <1>4 DEF readersVars
  <2>2. [Next]_vars
    BY <2>1
  <2>3. StoreInv'
    BY <2>2, NextStoreInv DEF WellFormed
  <2>4. ReadersTypeOK' /\ Known'
    BY <2>1 DEF WellFormed, ReadersTypeOK, Known, ListenerKnows, vars,
       serverVars, chatVars, notifyVars
  <2>5. ByChat /\ ByNotify
    BY <2>1 DEF vars, ByChat, ByNotify
  <2>. QED
    BY <2>1, <2>2, <2>3, <2>4, <2>5, OthersKeepTurns, OthersKeepChat DEF WellFormed
<1>. QED
  BY <1>1, <1>2, <1>3, <1>4 DEF ReadersNext

LEMMA ReadersInvHolds == ReadersSpec => []ReadersInv
<1>1. ReadersInv /\ [ReadersNext]_readersVars => ReadersInv'
  BY NextReadersInv
<1>. QED
  BY <1>1, InitReadersInv, PTL DEF ReadersSpec

\* A chat command and the listeners use the store only through its operations:
\* everything proved of the store with any callers holds with these.
THEOREM ReadersUseTheStore == ReadersSpec => Spec
<1>1. ReadersInit => Init
  BY DEF ReadersInit
<1>2. ReadersInv /\ [ReadersNext]_readersVars => [Next]_vars
  BY NextReadersInv
<1>. QED
  BY <1>1, <1>2, ReadersInvHolds, PTL DEF ReadersSpec, Spec

\* The states of the command, the listeners and their files have their shapes.
THEOREM ReadersTypeCorrect == ReadersSpec => []ReadersTypeOK
<1>1. ReadersInv => ReadersTypeOK
  BY DEF ReadersInv, WellFormed
<1>. QED
  BY <1>1, ReadersInvHolds, PTL

\* A send is posted at most once, whatever fails and however often it is run
\* again: an attempt is on disk before the request, and is never repeated.
THEOREM PostedOnce == ReadersSpec => []SentOnce
<1>1. ReadersInv => SentOnce
  BY DEF ReadersInv, ChatInv, SentOnce
<1>. QED
  BY <1>1, ReadersInvHolds, PTL

\* A reply the store calls observed was shown or is in the unfinished receipt.
THEOREM RepliesAreKept == ReadersSpec => []ReplyNotLost
<1>1. ReadersInv => ReplyNotLost
  BY DEF ReadersInv, ChatInv
<1>. QED
  BY <1>1, ReadersInvHolds, PTL

\* At most one turn is started for an email, and none for one a chat showed.
THEOREM OneReaderShows == ReadersSpec => []ShownByOneReader
<1>1. ReadersInv => ShownByOneReader
  <2> SUFFICES ASSUME ReadersInv, NEW e \in Emails
               PROVE  turns[e] + (IF e \in reported THEN 1 ELSE 0) <= 1
    BY DEF ShownByOneReader
  <2>1. turns[e] \in Nat /\ turns[e] <= 1
    BY DEF ReadersInv, WellFormed, ReadersTypeOK, TurnInv, EmailInv
  <2>2. CASE e \in reported
    <3>1. ~(turns[e] > 0)
      BY <2>2 DEF ReadersInv, ChatInv, TurnInv, SessionInv, EmailInv, Own
    <3>. QED
      BY <2>1, <3>1
  <2>. QED
    BY <2>1, <2>2
<1>. QED
  BY <1>1, ReadersInvHolds, PTL

\* The store's word on an email agrees with the turns that were started.
THEOREM RoutesTellTurns == ReadersSpec => []RouteTellsTurn
<1>1. ReadersInv => RouteTellsTurn
  BY DEF ReadersInv, TurnInv, SessionInv, EmailInv, Own, RouteTellsTurn
<1>. QED
  BY <1>1, ReadersInvHolds, PTL

\* An interrupted receipt update can be finished, and leaves no index entry
\* without its receipt.
THEOREM InterruptedUpdatesFinish == ReadersSpec => []ReceiptsRecover
<1>1. ReadersInv => ReceiptsRecover
  <2> SUFFICES ASSUME ReadersInv, NEW k \in Sessions
               PROVE  /\ pending[k] = NoUpdate => index[k] = {e \in Emails : receipts[k][e] # "none"}
                      /\ pending[k] # NoUpdate => In(k, "off") /\ Coherent(k, pending[k])
    BY DEF ReceiptsRecover
  <2>1. index[k] \subseteq Emails /\ SessionInv(k)
    BY DEF ReadersInv, WellFormed, ReadersTypeOK, TurnInv
  <2>2. pending[k] = NoUpdate => index[k] = {e \in Emails : receipts[k][e] # "none"}
    BY <2>1, NoneAssumption DEF SessionInv, NoUpdate
  <2>. QED
    BY <2>1, <2>2 DEF SessionInv, Interrupted
<1>. QED
  BY <1>1, ReadersInvHolds, PTL

-----------------------------------------------------------------------------
(* The command reads first.                                                *)

\* The steps between a command's registration and the end of its wait.
Attending == {"openBind", "ready", "cancel", "ask", "lookup", "rejected", "attempt", "mark", "post",
              "answer", "bind", "await", "ingest", "hydrate", "claim", "follow", "keep"}

\* What the service made of the sends, what the store was told of the mail, and
\* which processes are known to have ended.
ServiceInv ==
    /\ \A key \in Requests : outcome[key] # "none" => posts[key] > 0
    /\ \A key \in Requests : sentAs[key] # None => outcome[key] = "accepted"
    /\ \A e \in Emails : details[e] # NoDetails =>
          /\ mail[e] # NoDetails
          /\ details[e].peer = mail[e].peer /\ details[e].parent = mail[e].parent
    /\ gone \subseteq used
    /\ cmd.step # "idle" => cmd.token \in used \ gone
    /\ receipt.sent # None =>
          receipt.key # None /\ outcome[receipt.key] = "accepted" /\ sentAs[receipt.key] = receipt.sent
    /\ receipt.refused => receipt.key # None /\ outcome[receipt.key] = "refused"

\* A send that may have gone out keeps its wait uncertain until its outcome is
\* in the receipt, whether a command runs or not.
IntentInv ==
    receipt.sent = None /\ receipt.key # None /\ outcome[receipt.key] \in {"posted", "accepted"} =>
        waits[receipt.key].status = "uncertain" /\ waits[receipt.key].peer = ChatPeer

\* The wait a running command attends to, with its token in it.
AttendsInv ==
    /\ cmd.step \in {"open", "openBind"} => cmd.wait = receipt.key
    /\ cmd.step = "openBind" => receipt.sent # None
    /\ cmd.step \in {"ask", "lookup", "rejected"} => receipt.sent = None
    /\ cmd.step = "rejected" => receipt.refused
    /\ cmd.step = "cancel" => ~receipt.attempted
    /\ cmd.step \in Attending =>
          waits[cmd.wait].peer = ChatPeer
             /\ (waits[cmd.wait].tracked => cmd.token \in waits[cmd.wait].waiters)
    /\ cmd.step \in Attending /\ receipt.sent = None => cmd.wait = receipt.key
    /\ cmd.step = "post" => waits[cmd.wait].status = "uncertain"
    /\ cmd.step \in {"ready", "bind", "await", "ingest", "hydrate", "claim", "follow", "keep"}
       /\ receipt.sent # None /\ receipt.reply = None =>
          \/ waits[cmd.wait].status = "bound" /\ waits[cmd.wait].sent = receipt.sent
          \/ cmd.step = "bind" /\ waits[cmd.wait].status = "uncertain"

FirstInv == ReadersInv /\ ServiceInv /\ IntentInv /\ AttendsInv

\* What adding waiters leaves of a wait.
LEMMA AddingWaiters ==
    ASSUME NEW w \in Waits, NEW owners \in SUBSET Waiters
    PROVE  LET n == AddWaiters(w, owners)
           IN  /\ n.status = w.status /\ n.peer = w.peer /\ n.sent = w.sent
               /\ n.tracked = w.tracked
               /\ n.tracked => owners \subseteq n.waiters
BY DEF AddWaiters, Waits

\* A wait that gets another waiter.
Joined(r, token) ==
    /\ waits'[r].status = waits[r].status /\ waits'[r].peer = waits[r].peer
    /\ waits'[r].sent = waits[r].sent
    /\ waits'[r].tracked => token \in waits'[r].waiters
    /\ \A q \in Requests \ {r} : waits'[q] = waits[q]

LEMMA JoiningJoins ==
    ASSUME TypeOK, NEW r \in Requests, NEW token \in Waiters, JoinWait(r, token)
    PROVE  Joined(r, token) /\ UNCHANGED <<details, gone>>
<1>1. waits[r] \in Waits
  BY DEF TypeOK, JoinWait, NoWait
<1>2. waits' = [waits EXCEPT ![r] = AddWaiters(waits[r], {token})]
  BY DEF JoinWait
<1>. QED
  BY <1>1, <1>2, AddingWaiters DEF TypeOK, Joined, JoinWait, mailVars, restVars

LEMMA RegisteringJoins ==
    ASSUME TypeOK, NEW r \in Requests, NEW token \in Waiters,
           \/ RegisterNew(r, ChatPeer, ChatSession, None, token)
           \/ RegisterAgain(r, ChatPeer, ChatSession, None, token)
    PROVE  /\ waits'[r].peer = ChatPeer /\ (waits'[r].tracked => token \in waits'[r].waiters)
           /\ waits[r].status = "uncertain" => waits'[r].status = "uncertain"
           /\ \A q \in Requests \ {r} : waits'[q] = waits[q]
           /\ UNCHANGED <<details, gone>>
<1>1. CASE RegisterNew(r, ChatPeer, ChatSession, None, token)
  <2>1. waits'[r] = [status |-> "unbound", peer |-> ChatPeer, session |-> ChatSession,
                     contact |-> None, sent |-> None, tracked |-> token # None,
                     waiters |-> {token} \ {None}]
    BY <1>1 DEF RegisterNew, TypeOK
  <2>2. waits'[r].peer = ChatPeer /\ token \in waits'[r].waiters
    BY <2>1, NoneAssumption
  <2>3. waits[r].status = "absent" /\ \A q \in Requests \ {r} : waits'[q] = waits[q]
    BY <1>1 DEF RegisterNew, TypeOK, Exists
  <2>. QED
    BY <1>1, <2>2, <2>3 DEF RegisterNew, mailVars, restVars
<1>2. CASE RegisterAgain(r, ChatPeer, ChatSession, None, token)
  <2>1. waits[r] \in Waits /\ waits[r].peer = ChatPeer /\ {token} \ {None} = {token}
    BY <1>2, NoneAssumption DEF TypeOK, RegisterAgain, Exists, NoWait
  <2>2. waits' = [waits EXCEPT ![r] = AddWaiters(waits[r], {token})]
    BY <1>2, <2>1 DEF RegisterAgain
  <2>. QED
    BY <1>2, <2>1, <2>2, AddingWaiters DEF TypeOK, RegisterAgain, mailVars, restVars
<1>. QED
  BY <1>1, <1>2

\* A wait of which only the status, or the send with it, changes.
Moves(r, status) ==
    /\ waits'[r].status = status /\ waits'[r].peer = waits[r].peer
    /\ waits'[r].tracked = waits[r].tracked /\ waits'[r].waiters = waits[r].waiters
    /\ \A q \in Requests \ {r} : waits'[q] = waits[q]

LEMMA BindingMoves ==
    ASSUME TypeOK, NEW r \in Requests, NEW sent \in Sends, BindOwn(r, sent)
    PROVE  Moves(r, "bound") /\ waits'[r].sent = sent /\ UNCHANGED <<details, gone>>
<1>1. waits[r] \in Waits
  BY DEF TypeOK, BindOwn, NoWait
<1>2. PICK session : waits' = [waits EXCEPT ![r] =
        [waits[r] EXCEPT !.status = "bound", !.sent = sent, !.session = session]]
  BY DEF BindOwn
<1>3. waits'[r] = [waits[r] EXCEPT !.status = "bound", !.sent = sent, !.session = session]
  BY <1>2 DEF TypeOK
<1>4. /\ waits'[r].status = "bound" /\ waits'[r].sent = sent /\ waits'[r].peer = waits[r].peer
      /\ waits'[r].tracked = waits[r].tracked /\ waits'[r].waiters = waits[r].waiters
  BY <1>1, <1>3 DEF Waits
<1>. QED
  BY <1>2, <1>4 DEF Moves, TypeOK, BindOwn, mailVars, restVars

LEMMA SettlingMoves ==
    ASSUME TypeOK, NEW r \in Requests, NEW status,
           waits' = [waits EXCEPT ![r].status = status], Exists(r)
    PROVE  Moves(r, status)
<1>1. waits[r] \in Waits
  BY DEF TypeOK, Exists, NoWait
<1>2. waits'[r] = [waits[r] EXCEPT !.status = status]
  BY DEF TypeOK
<1>. QED
  BY <1>1, <1>2 DEF Moves, Waits, TypeOK

LEMMA ReleasingKeeps ==
    ASSUME TypeOK, NEW r \in Requests, NEW owner, ReleaseWaiter(r, owner)
    PROVE  /\ \A q \in Requests : waits'[q].status = waits[q].status /\ waits'[q].peer = waits[q].peer
           /\ UNCHANGED <<details, gone>>
<1>1. ASSUME NEW q \in Requests
      PROVE  waits'[q].status = waits[q].status /\ waits'[q].peer = waits[q].peer
  <2>1. waits'[q] \in {waits[q], [waits[q] EXCEPT !.waiters = @ \ {owner}]}
    BY DEF ReleaseWaiter
  <2>2. waits[q] \in Waits \union {NoWait}
    BY DEF TypeOK
  <2>. QED
    BY <2>1, <2>2 DEF Waits, NoWait
<1>. QED
  BY <1>1 DEF ReleaseWaiter, mailVars, restVars

\* What the store is told of an email is what arrived.
LEMMA HydratingTells ==
    ASSUME WellFormed, ServiceInv, NEW e \in Emails, mail[e] \in Details,
           Hydrate(e, mail[e]), UNCHANGED mail
    PROVE  \A x \in Emails : details'[x] # NoDetails =>
              /\ mail'[x] # NoDetails
              /\ details'[x].peer = mail'[x].peer /\ details'[x].parent = mail'[x].parent
<1>1. details'[e] = Verified(e, mail[e]) /\ \A x \in Emails \ {e} : details'[x] = details[x]
  BY DEF Hydrate, WellFormed, StoreInv, TypeOK
<1>2. Verified(e, mail[e]).peer = mail[e].peer /\ Verified(e, mail[e]).parent = mail[e].parent
  BY DEF Verified, Details
<1>3. mail[e] # NoDetails
  BY NoneAssumption DEF Details, NoDetails
<1>. QED
  BY <1>1, <1>2, <1>3 DEF ServiceInv

\* A step that changes none of what the first reader's invariant is about.
LEMMA ServiceQuiet ==
    ASSUME ServiceInv, UNCHANGED <<outcome, sentAs, mail, posts, details, gone, used>>,
           receipt'.key = receipt.key, receipt'.sent = receipt.sent,
           receipt'.refused = receipt.refused,
           cmd'.step # "idle" => cmd.step # "idle" /\ cmd'.token = cmd.token
    PROVE  ServiceInv'
BY DEF ServiceInv

LEMMA IntentQuiet ==
    ASSUME IntentInv, receipt.key # None => receipt.key \in Requests, UNCHANGED outcome,
           receipt'.key = receipt.key, receipt'.sent = receipt.sent \/ receipt'.sent # None,
           \A q \in Requests : waits[q].status = "uncertain" =>
              waits'[q].status = "uncertain" /\ waits'[q].peer = waits[q].peer
    PROVE  IntentInv'
BY DEF IntentInv

\* The steps of the command: what it knows of its send and its wait stays true.
LEMMA ChatReadsFirst ==
    ASSUME WellFormed, ChatInv, ServiceInv, IntentInv, AttendsInv, ChatNext
    PROVE  ServiceInv' /\ IntentInv' /\ AttendsInv'
<1> USE DEF At, Go, Idle, NoSave, NoStore
<1>k. /\ cmd.step # "idle" => cmd.token \in Waiters /\ cmd.wait \in Requests /\ receipt.key \in Requests
      /\ cmd \in [step : Steps, token : OrNone(Waiters), wait : OrNone(Requests),
                  fresh : BOOLEAN, reply : OrNone(Emails)]
      /\ receipt \in [key : OrNone(Requests), attempted : BOOLEAN, sent : OrNone(Sends),
                      refused : BOOLEAN, reply : OrNone(Emails), by : OrNone(Requests), done : BOOLEAN]
      /\ receipt.reply # None => receipt.by \in Requests
      /\ receipt.sent # None => receipt.sent \in Sends
      /\ receipt.key # None => receipt.key \in Requests
      /\ receipt.reply # None => receipt.sent # None
      /\ posts \in [Requests -> Nat] /\ None \notin Requests
      /\ outcome \in [Requests -> {"none", "posted", "accepted", "refused"}]
      /\ \A key \in Requests : outcome[key] = "accepted" => sentAs[key] # None
      /\ TypeOK
  BY NoneAssumption DEF WellFormed, StoreInv, ReadersTypeOK, Known, OrNone, ChatInv
<1>1. ASSUME NEW token \in Waiters, Begin(token) PROVE ServiceInv' /\ IntentInv' /\ AttendsInv'
  <2>1. /\ UNCHANGED <<waits, details, gone, serverVars, posts>> /\ token \notin used
        /\ used' = used \union {token} /\ cmd'.step = "open" /\ cmd'.token = token
        /\ cmd'.wait = receipt'.key /\ cmd.step = "idle"
    BY <1>1, <1>k DEF Begin, vars
  <2>2. CASE UNCHANGED receipt
    <3>1. ServiceInv'
      BY <2>1, <2>2 DEF ServiceInv, serverVars
    <3>2. IntentInv'
      BY <1>k, <2>1, <2>2, IntentQuiet DEF serverVars
    <3>. QED
      BY <2>1, <3>1, <3>2 DEF AttendsInv, Attending
  <2>3. ASSUME NEW key \in Requests, ~Exists(key),
               receipt' = [NoReceipt EXCEPT !.key = key, !.done = FALSE]
        PROVE  ServiceInv' /\ IntentInv' /\ AttendsInv'
    <3>1. receipt'.key = key /\ receipt'.sent = None /\ ~receipt'.refused
      BY <2>3 DEF NoReceipt
    <3>2. outcome[key] = "none"
      BY <1>k, <2>3 DEF ChatInv, ServiceInv
    <3>. QED
      BY <2>1, <3>1, <3>2 DEF ServiceInv, IntentInv, AttendsInv, Attending, serverVars
  <2>. QED
    BY <1>1, <2>2, <2>3 DEF Begin
<1>2. ASSUME NEW token \in Waiters, CommandGone(token) PROVE ServiceInv' /\ IntentInv' /\ AttendsInv'
  <2>1. /\ UNCHANGED <<waits, details, serverVars, chatVars>>
        /\ gone' = gone \union {token} /\ token \in used /\ token # cmd.token
    BY <1>2 DEF CommandGone, WaiterGone, mailVars, waitVars
  <2>. QED
    BY <2>1 DEF ServiceInv, IntentInv, AttendsInv, Attending, chatVars, serverVars
<1>3. ASSUME NEW next \in {"ready", "giveUp"}, OpenReply(next) PROVE ServiceInv' /\ IntentInv' /\ AttendsInv'
  <2>1. Joined(receipt.by, cmd.token) /\ UNCHANGED <<details, gone>> /\ receipt.by \in Requests
    BY <1>3, <1>k, JoiningJoins DEF OpenReply
  <2>2. ServiceInv'
    BY <1>3, <1>k, <2>1, ServiceQuiet DEF OpenReply, serverVars
  <2>3. IntentInv'
    BY <1>3, <1>k, <2>1, IntentQuiet DEF OpenReply, serverVars, Joined
  <2>4. AttendsInv'
    BY <1>3, <1>k, <2>1 DEF OpenReply, Joined, Mine, AttendsInv, Attending
  <2>. QED
    BY <2>2, <2>3, <2>4
<1>4. ASSUME NEW next \in {"ready", "giveUp"}, OpenBound(next) PROVE ServiceInv' /\ IntentInv' /\ AttendsInv'
  <2> DEFINE r == parents[receipt.sent]
  <2>0. r \in Requests /\ waits[r].sent = receipt.sent /\ waits[r].status = "bound"
    BY <1>4, <1>k DEF OpenBound, BoundBefore, WellFormed, StoreInv, ParentIndexExact, TypeOK, OrNone
  <2>1. Joined(r, cmd.token) /\ UNCHANGED <<details, gone>>
    BY <1>4, <1>k, <2>0, JoiningJoins DEF OpenBound
  <2>2. /\ waits[r].peer = ChatPeer /\ cmd' = [cmd EXCEPT !.step = next, !.wait = r]
        /\ UNCHANGED <<receipt, used, posts, serverVars>> /\ cmd.step = "open"
        /\ receipt.sent # None
    BY <1>4 DEF OpenBound, Mine
  <2> HIDE DEF r
  <2>3. ServiceInv'
    BY <1>k, <2>1, <2>2, ServiceQuiet DEF serverVars
  <2>4. IntentInv'
    BY <1>k, <2>1, <2>2, IntentQuiet DEF serverVars, Joined
  <2>5. AttendsInv'
    BY <1>k, <2>0, <2>1, <2>2 DEF Joined, AttendsInv, Attending
  <2>. QED
    BY <2>3, <2>4, <2>5
<1>5. ASSUME NEW next \in {"ready", "giveUp"}, OpenOwn(next) PROVE ServiceInv' /\ IntentInv' /\ AttendsInv'
  <2>1. /\ waits'[receipt.key].peer = ChatPeer
        /\ waits'[receipt.key].tracked => cmd.token \in waits'[receipt.key].waiters
        /\ waits[receipt.key].status = "uncertain" => waits'[receipt.key].status = "uncertain"
        /\ \A q \in Requests \ {receipt.key} : waits'[q] = waits[q]
        /\ UNCHANGED <<details, gone>>
    BY <1>5, <1>k, RegisteringJoins DEF OpenOwn
  <2>2. ServiceInv'
    BY <1>5, <1>k, <2>1, ServiceQuiet DEF OpenOwn, serverVars
  <2>3. IntentInv'
    BY <1>5, <2>1 DEF OpenOwn, serverVars, IntentInv
  <2>4. cmd.wait = receipt.key
    BY <1>5 DEF OpenOwn, AttendsInv
  <2>5. AttendsInv'
    BY <1>5, <1>k, <2>1, <2>4 DEF OpenOwn, AttendsInv, Attending
  <2>. QED
    BY <2>2, <2>3, <2>5
<1>6. ASSUME OpenBind PROVE ServiceInv' /\ IntentInv' /\ AttendsInv'
  <2>0. cmd.step = "openBind" /\ receipt.sent # None /\ cmd.wait \in Requests
    BY <1>6, <1>k DEF OpenBind, AttendsInv
  <2>1. /\ Moves(cmd.wait, "bound") /\ waits'[cmd.wait].sent = receipt.sent
        /\ UNCHANGED <<details, gone>>
    BY <1>6, <1>k, <2>0, BindingMoves DEF OpenBind
  <2>2. ServiceInv'
    BY <1>6, <1>k, <2>1, ServiceQuiet DEF OpenBind, serverVars
  <2>3. IntentInv'
    BY <1>6, <2>0 DEF OpenBind, IntentInv
  <2>4. AttendsInv'
    BY <1>6, <1>k, <2>0, <2>1 DEF OpenBind, AttendsInv, Attending, Moves
  <2>. QED
    BY <2>2, <2>3, <2>4
<1>7. ASSUME GiveUp PROVE ServiceInv' /\ IntentInv' /\ AttendsInv'
  <2>1. /\ \A q \in Requests : waits'[q].status = waits[q].status /\ waits'[q].peer = waits[q].peer
        /\ UNCHANGED <<details, gone>>
    BY <1>7, <1>k, ReleasingKeeps DEF GiveUp
  <2>2. ServiceInv'
    BY <1>7, <1>k, <2>1, ServiceQuiet DEF GiveUp, serverVars
  <2>3. IntentInv'
    BY <1>7, <1>k, <2>1, IntentQuiet DEF GiveUp, serverVars
  <2>4. AttendsInv'
    BY <1>7, <1>k DEF GiveUp, AttendsInv, Attending
  <2>. QED
    BY <2>2, <2>3, <2>4
<1>8. ASSUME Close PROVE ServiceInv' /\ IntentInv' /\ AttendsInv'
  <2>1. /\ \A q \in Requests : waits'[q].status = waits[q].status /\ waits'[q].peer = waits[q].peer
        /\ UNCHANGED <<details, gone>>
    BY <1>8, <1>k, ReleasingKeeps DEF Close
  <2>2. ServiceInv'
    BY <1>8, <1>k, <2>1, ServiceQuiet DEF Close, serverVars
  <2>3. IntentInv'
    BY <1>8, <1>k, <2>1, IntentQuiet DEF Close, serverVars
  <2>4. AttendsInv'
    BY <1>8, <1>k DEF Close, AttendsInv, Attending
  <2>. QED
    BY <2>2, <2>3, <2>4
<1>9. ASSUME GiveUpCancel PROVE ServiceInv' /\ IntentInv' /\ AttendsInv'
  <2>1. /\ waits' = [waits EXCEPT ![cmd.wait].status = "cancelled"]
        /\ waits[cmd.wait].status # "uncertain" /\ UNCHANGED <<details, gone>>
    BY <1>9 DEF GiveUpCancel, CancelWaitBeforeSend, Cancel, mailVars, restVars
  <2>2. ServiceInv'
    BY <1>9, <1>k, <2>1, ServiceQuiet DEF GiveUpCancel, serverVars
  <2>3. \A q \in Requests : waits[q].status = "uncertain" => waits'[q] = waits[q]
    BY <1>k, <2>1 DEF TypeOK
  <2>4. IntentInv'
    BY <1>9, <1>k, <2>3, IntentQuiet DEF GiveUpCancel, serverVars
  <2>5. AttendsInv'
    BY <1>9, <1>k DEF GiveUpCancel, AttendsInv, Attending
  <2>. QED
    BY <2>2, <2>4, <2>5
<1>10. ASSUME CancelUnsent PROVE ServiceInv' /\ IntentInv' /\ AttendsInv'
  <2>1. /\ waits' = [waits EXCEPT ![cmd.wait].status = "cancelled"]
        /\ waits[cmd.wait].status # "uncertain" /\ UNCHANGED <<details, gone>>
    BY <1>10 DEF CancelUnsent, CancelWaitBeforeSend, Cancel, mailVars, restVars
  <2>2. ServiceInv'
    BY <1>10, <1>k, <2>1, ServiceQuiet DEF CancelUnsent, serverVars
  <2>3. \A q \in Requests : waits[q].status = "uncertain" => waits'[q] = waits[q]
    BY <1>k, <2>1 DEF TypeOK
  <2>4. IntentInv'
    BY <1>10, <1>k, <2>3, IntentQuiet DEF CancelUnsent, serverVars
  <2>5. AttendsInv'
    BY <1>10, <1>k DEF CancelUnsent, AttendsInv, Attending
  <2>. QED
    BY <2>2, <2>4, <2>5
<1>11. ASSUME Refused PROVE ServiceInv' /\ IntentInv' /\ AttendsInv'
  <2>1. /\ UNCHANGED <<details, gone>> /\ outcome[receipt.key] = "refused"
    BY <1>11 DEF Refused, CancelRejectedSend, Cancel, mailVars, restVars
  <2>2. ServiceInv'
    BY <1>11, <1>k, <2>1, ServiceQuiet DEF Refused, serverVars
  <2>3. IntentInv'
    BY <1>11, <2>1 DEF Refused, IntentInv, serverVars
  <2>4. AttendsInv'
    BY <1>11, <1>k DEF Refused, AttendsInv, Attending
  <2>. QED
    BY <2>2, <2>3, <2>4
<1>36. ASSUME LookupRefused PROVE ServiceInv' /\ IntentInv' /\ AttendsInv'
  <2>1. /\ UNCHANGED <<waits, details, gone, used, serverVars, posts>>
        /\ receipt'.key = receipt.key /\ receipt'.sent = receipt.sent
        /\ receipt'.reply = receipt.reply /\ receipt.key \in Requests /\ receipt'.refused
        /\ receipt'.attempted = receipt.attempted
        /\ cmd' = [cmd EXCEPT !.step = "rejected"] /\ cmd.step = "lookup"
        /\ outcome[receipt.key] = "refused" /\ receipt.sent = None /\ cmd.wait = receipt.key
    BY <1>36, <1>k DEF LookupRefused, vars, AttendsInv, Attending, ChatInv
  <2>2. ServiceInv'
    BY <1>k, <2>1 DEF ServiceInv, serverVars
  <2>3. IntentInv'
    BY <1>k, <2>1, IntentQuiet DEF serverVars
  <2>4. AttendsInv'
    BY <1>k, <2>1 DEF AttendsInv, Attending
  <2>. QED
    BY <2>2, <2>3, <2>4
<1>37. ASSUME Rejected PROVE ServiceInv' /\ IntentInv' /\ AttendsInv'
  <2>1. /\ UNCHANGED <<details, gone>> /\ outcome[receipt.key] = "refused"
    BY <1>37 DEF Rejected, CancelRejectedSend, Cancel, mailVars, restVars, AttendsInv, ServiceInv
  <2>2. ServiceInv'
    BY <1>37, <1>k, <2>1, ServiceQuiet DEF Rejected, serverVars
  <2>3. IntentInv'
    BY <1>37, <2>1 DEF Rejected, IntentInv, serverVars
  <2>4. AttendsInv'
    BY <1>37, <1>k DEF Rejected, AttendsInv, Attending
  <2>. QED
    BY <2>2, <2>3, <2>4
<1>12. ASSUME Ask PROVE ServiceInv' /\ IntentInv' /\ AttendsInv'
  <2>1. Moves(cmd.wait, "uncertain") /\ UNCHANGED <<details, gone>> /\ cmd.wait \in Requests
    BY <1>12, <1>k, SettlingMoves DEF Ask, MarkWaitUncertain, Unresolved, Exists, mailVars, restVars
  <2>2. ServiceInv'
    BY <1>12, <1>k, <2>1, ServiceQuiet DEF Ask, serverVars
  <2>3. IntentInv'
    BY <1>12, <1>k, <2>1, IntentQuiet DEF Ask, serverVars, Moves
  <2>4. AttendsInv'
    BY <1>12, <1>k, <2>1 DEF Ask, AttendsInv, Attending, Moves, ChatInv
  <2>. QED
    BY <2>2, <2>3, <2>4
<1>13. ASSUME Mark PROVE ServiceInv' /\ IntentInv' /\ AttendsInv'
  <2>1. Moves(cmd.wait, "uncertain") /\ UNCHANGED <<details, gone>> /\ cmd.wait \in Requests
    BY <1>13, <1>k, SettlingMoves DEF Mark, MarkWaitUncertain, Unresolved, Exists, mailVars, restVars
  <2>2. ServiceInv'
    BY <1>13, <1>k, <2>1, ServiceQuiet DEF Mark, serverVars
  <2>3. IntentInv'
    BY <1>13, <1>k, <2>1, IntentQuiet DEF Mark, serverVars, Moves
  <2>4. AttendsInv'
    BY <1>13, <1>k, <2>1 DEF Mark, AttendsInv, Attending, Moves, ChatInv
  <2>. QED
    BY <2>2, <2>3, <2>4
<1>14. ASSUME Finish PROVE ServiceInv' /\ IntentInv' /\ AttendsInv'
  <2>1. /\ \A q \in Requests : waits[q].status = "uncertain" => waits'[q] = waits[q]
        /\ UNCHANGED <<details, gone>>
    BY <1>14, <1>k DEF Finish, FinishWait, TypeOK, vars, mailVars, restVars
  <2>2. ServiceInv'
    BY <1>14, <1>k, <2>1, ServiceQuiet DEF Finish, serverVars
  <2>3. IntentInv'
    BY <1>14, <1>k, <2>1, IntentQuiet DEF Finish, serverVars
  <2>4. AttendsInv'
    BY <1>14, <1>k DEF Finish, AttendsInv, Attending
  <2>. QED
    BY <2>2, <2>3, <2>4
<1>15. ASSUME Lookup PROVE ServiceInv' /\ IntentInv' /\ AttendsInv'
  <2>1. /\ UNCHANGED <<waits, details, gone, used, serverVars, posts>>
        /\ receipt'.key = receipt.key /\ receipt'.sent = sentAs[receipt.key]
        /\ receipt'.reply = receipt.reply /\ receipt.key \in Requests
        /\ receipt'.refused = receipt.refused
        /\ cmd' = [cmd EXCEPT !.step = "bind"] /\ cmd.step # "idle" /\ outcome[receipt.key] = "accepted"
        /\ sentAs[receipt.key] # None /\ receipt.sent = None /\ cmd.wait = receipt.key
    BY <1>15, <1>k DEF Lookup, vars, AttendsInv, Attending, ChatInv
  <2>2. ServiceInv'
    BY <1>k, <2>1 DEF ServiceInv, serverVars
  <2>3. IntentInv'
    BY <1>k, <2>1, IntentQuiet DEF serverVars
  <2>4. waits[cmd.wait].status = "uncertain" /\ waits[cmd.wait].peer = ChatPeer
    BY <1>k, <2>1 DEF IntentInv
  <2>5. AttendsInv'
    BY <1>15, <1>k, <2>1, <2>4 DEF Lookup, AttendsInv, Attending
  <2>. QED
    BY <2>2, <2>3, <2>5
<1>16. ASSUME Answered PROVE ServiceInv' /\ IntentInv' /\ AttendsInv'
  <2>1. /\ UNCHANGED <<waits, details, gone, used, serverVars, posts>>
        /\ receipt'.key = receipt.key /\ receipt'.sent = sentAs[receipt.key]
        /\ receipt'.reply = receipt.reply /\ receipt.key \in Requests
        /\ receipt'.refused = receipt.refused
        /\ cmd' = [cmd EXCEPT !.step = "bind"] /\ cmd.step # "idle" /\ outcome[receipt.key] = "accepted"
        /\ sentAs[receipt.key] # None /\ receipt.sent = None /\ cmd.wait = receipt.key
    BY <1>16, <1>k DEF Answered, vars, AttendsInv, Attending, ChatInv
  <2>2. ServiceInv'
    BY <1>k, <2>1 DEF ServiceInv, serverVars
  <2>3. IntentInv'
    BY <1>k, <2>1, IntentQuiet DEF serverVars
  <2>4. waits[cmd.wait].status = "uncertain" /\ waits[cmd.wait].peer = ChatPeer
    BY <1>k, <2>1 DEF IntentInv
  <2>5. AttendsInv'
    BY <1>16, <1>k, <2>1, <2>4 DEF Answered, AttendsInv, Attending
  <2>. QED
    BY <2>2, <2>3, <2>5
<1>17. ASSUME Post PROVE ServiceInv' /\ IntentInv' /\ AttendsInv'
  <2>1. /\ UNCHANGED <<waits, details, gone, used, receipt, sentAs, mail>>
        /\ cmd' = [cmd EXCEPT !.step = "answer"] /\ cmd.step = "post"
        /\ receipt.sent = None /\ cmd.wait = receipt.key /\ receipt.key \in Requests
    BY <1>17, <1>k DEF Post, Take, vars, AttendsInv, Attending, ChatInv
  <2>2. /\ \A key \in Requests \ {receipt.key} : outcome'[key] = outcome[key] /\ posts'[key] = posts[key]
        /\ posts'[receipt.key] > 0
        /\ \A key \in Requests : outcome[key] \in {"accepted", "refused"} => outcome'[key] = outcome[key]
    BY <1>17, <1>k DEF Post, Take
  <2>3. ServiceInv'
    BY <1>k, <2>1, <2>2 DEF ServiceInv
  <2>4. IntentInv' /\ AttendsInv'
    BY <1>k, <2>1 DEF IntentInv, AttendsInv, Attending
  <2>. QED
    BY <2>3, <2>4
<1>18. ASSUME Bind PROVE ServiceInv' /\ IntentInv' /\ AttendsInv'
  <2>0. cmd.step = "bind" /\ receipt.sent # None /\ cmd.wait \in Requests /\ receipt.sent \in Sends
    BY <1>18, <1>k DEF Bind, ChatInv
  <2>1. CASE receipt.reply # None
    <3>1. UNCHANGED <<waits, details, gone>>
      BY <1>18, <2>1 DEF Bind, vars
    <3>2. ServiceInv'
      BY <1>18, <1>k, <3>1, ServiceQuiet DEF Bind, serverVars
    <3>3. IntentInv'
      BY <1>18, <2>0 DEF Bind, IntentInv
    <3>4. AttendsInv'
      BY <1>18, <1>k, <2>0, <2>1, <3>1 DEF Bind, AttendsInv, Attending
    <3>. QED
      BY <3>2, <3>3, <3>4
  <2>2. CASE receipt.reply = None
    <3>1. /\ Moves(cmd.wait, "bound") /\ waits'[cmd.wait].sent = receipt.sent
          /\ UNCHANGED <<details, gone>>
      BY <1>18, <1>k, <2>0, <2>2, BindingMoves DEF Bind
    <3>2. ServiceInv'
      BY <1>18, <1>k, <3>1, ServiceQuiet DEF Bind, serverVars
    <3>3. IntentInv'
      BY <1>18, <2>0 DEF Bind, IntentInv
    <3>4. AttendsInv'
      BY <1>18, <1>k, <2>0, <3>1 DEF Bind, AttendsInv, Attending, Moves
    <3>. QED
      BY <3>2, <3>3, <3>4
  <2>. QED
    BY <2>1, <2>2
<1>19. ASSUME HydrateFound PROVE ServiceInv' /\ IntentInv' /\ AttendsInv'
  <2>1. UNCHANGED <<waits, gone, used, serverVars, posts, receipt>>
    BY <1>19 DEF HydrateFound, Hydrate, waitVars, restVars
  <2>2. cmd.reply \in Emails /\ mail[cmd.reply] \in Details
    BY <1>19 DEF HydrateFound, WellFormed, Known
  <2>3. cmd' = [cmd EXCEPT !.step = "claim"] /\ cmd.step = "hydrate"
    BY <1>19 DEF HydrateFound
  <2>4. ServiceInv'
    <3>1. \A x \in Emails : details'[x] # NoDetails =>
            /\ mail'[x] # NoDetails
            /\ details'[x].peer = mail'[x].peer /\ details'[x].parent = mail'[x].parent
      BY <1>19, <2>1, <2>2, HydratingTells DEF HydrateFound, serverVars
    <3>. QED
      BY <1>k, <2>1, <2>3, <3>1 DEF ServiceInv, serverVars
  <2>5. IntentInv'
    BY <1>k, <2>1, IntentQuiet DEF serverVars
  <2>6. AttendsInv'
    BY <1>k, <2>1, <2>3 DEF AttendsInv, Attending
  <2>. QED
    BY <2>4, <2>5, <2>6
<1>20. ASSUME Ready PROVE ServiceInv' /\ IntentInv' /\ AttendsInv'
  <2>1. UNCHANGED <<waits, details, gone, used, serverVars, posts>>
    BY <1>20 DEF Ready, vars, mailVars, waitVars, restVars
  <2>2. ServiceInv'
    BY <1>20, <1>k, <2>1, ServiceQuiet DEF Ready, serverVars
  <2>3. IntentInv'
    BY <1>20, <1>k, <2>1, IntentQuiet DEF Ready, serverVars
  <2>4. AttendsInv'
    BY <1>20, <1>k, <2>1 DEF Ready, AttendsInv, Attending, ChatInv
  <2>. QED
    BY <2>2, <2>3, <2>4
<1>21. ASSUME NotReady PROVE ServiceInv' /\ IntentInv' /\ AttendsInv'
  <2>1. UNCHANGED <<waits, details, gone, used, serverVars, posts>>
    BY <1>21 DEF NotReady, vars, mailVars, waitVars, restVars
  <2>2. ServiceInv'
    BY <1>21, <1>k, <2>1, ServiceQuiet DEF NotReady, serverVars
  <2>3. IntentInv'
    BY <1>21, <1>k, <2>1, IntentQuiet DEF NotReady, serverVars
  <2>4. AttendsInv'
    BY <1>21, <1>k, <2>1 DEF NotReady, AttendsInv, Attending, ChatInv
  <2>. QED
    BY <2>2, <2>3, <2>4
<1>22. ASSUME Settle PROVE ServiceInv' /\ IntentInv' /\ AttendsInv'
  <2>1. UNCHANGED <<waits, details, gone, used, serverVars, posts>>
    BY <1>22 DEF Settle, vars, mailVars, waitVars, restVars
  <2>2. ServiceInv'
    BY <1>22, <1>k, <2>1, ServiceQuiet DEF Settle, serverVars
  <2>3. IntentInv'
    BY <1>22, <1>k, <2>1, IntentQuiet DEF Settle, serverVars
  <2>4. AttendsInv'
    BY <1>22, <1>k, <2>1 DEF Settle, AttendsInv, Attending, ChatInv
  <2>. QED
    BY <2>2, <2>3, <2>4
<1>23. ASSUME Attempt PROVE ServiceInv' /\ IntentInv' /\ AttendsInv'
  <2>1. UNCHANGED <<waits, details, gone, used, serverVars, posts>>
    BY <1>23 DEF Attempt, vars, mailVars, waitVars, restVars
  <2>2. ServiceInv'
    BY <1>23, <1>k, <2>1, ServiceQuiet DEF Attempt, serverVars
  <2>3. IntentInv'
    BY <1>23, <1>k, <2>1, IntentQuiet DEF Attempt, serverVars
  <2>4. AttendsInv'
    BY <1>23, <1>k, <2>1 DEF Attempt, AttendsInv, Attending, ChatInv
  <2>. QED
    BY <2>2, <2>3, <2>4
<1>24. ASSUME NEW e \in Emails, Found(e) PROVE ServiceInv' /\ IntentInv' /\ AttendsInv'
  <2>1. UNCHANGED <<waits, details, gone, used, serverVars, posts>>
    BY <1>24 DEF Found, vars, mailVars, waitVars, restVars
  <2>2. ServiceInv'
    BY <1>24, <1>k, <2>1, ServiceQuiet DEF Found, serverVars
  <2>3. IntentInv'
    BY <1>24, <1>k, <2>1, IntentQuiet DEF Found, serverVars
  <2>4. AttendsInv'
    BY <1>24, <1>k, <2>1 DEF Found, AttendsInv, Attending, ChatInv
  <2>. QED
    BY <2>2, <2>3, <2>4
<1>25. ASSUME IngestFound PROVE ServiceInv' /\ IntentInv' /\ AttendsInv'
  <2>1. UNCHANGED <<waits, details, gone, used, serverVars, posts>>
    BY <1>25 DEF IngestFound, vars, mailVars, waitVars, restVars, Ingest
  <2>2. ServiceInv'
    BY <1>25, <1>k, <2>1, ServiceQuiet DEF IngestFound, serverVars
  <2>3. IntentInv'
    BY <1>25, <1>k, <2>1, IntentQuiet DEF IngestFound, serverVars
  <2>4. AttendsInv'
    BY <1>25, <1>k, <2>1 DEF IngestFound, AttendsInv, Attending, ChatInv
  <2>. QED
    BY <2>2, <2>3, <2>4
<1>26. ASSUME Claim PROVE ServiceInv' /\ IntentInv' /\ AttendsInv'
  <2>1. UNCHANGED <<waits, details, gone, used, serverVars, posts>>
    BY <1>26 DEF Claim, vars, mailVars, waitVars, restVars, ClaimForWait
  <2>2. ServiceInv'
    BY <1>26, <1>k, <2>1, ServiceQuiet DEF Claim, serverVars
  <2>3. IntentInv'
    BY <1>26, <1>k, <2>1, IntentQuiet DEF Claim, serverVars
  <2>4. AttendsInv'
    BY <1>26, <1>k, <2>1 DEF Claim, AttendsInv, Attending, ChatInv
  <2>. QED
    BY <2>2, <2>3, <2>4
<1>27. ASSUME ClaimAgain PROVE ServiceInv' /\ IntentInv' /\ AttendsInv'
  <2>1. UNCHANGED <<waits, details, gone, used, serverVars, posts>>
    BY <1>27 DEF ClaimAgain, vars, mailVars, waitVars, restVars
  <2>2. ServiceInv'
    BY <1>27, <1>k, <2>1, ServiceQuiet DEF ClaimAgain, serverVars
  <2>3. IntentInv'
    BY <1>27, <1>k, <2>1, IntentQuiet DEF ClaimAgain, serverVars
  <2>4. AttendsInv'
    BY <1>27, <1>k, <2>1 DEF ClaimAgain, AttendsInv, Attending, ChatInv
  <2>. QED
    BY <2>2, <2>3, <2>4
<1>28. ASSUME FollowReply PROVE ServiceInv' /\ IntentInv' /\ AttendsInv'
  <2>1. UNCHANGED <<waits, details, gone, used, serverVars, posts>>
    BY <1>28 DEF FollowReply, vars, mailVars, waitVars, restVars, Follow
  <2>2. ServiceInv'
    BY <1>28, <1>k, <2>1, ServiceQuiet DEF FollowReply, serverVars
  <2>3. IntentInv'
    BY <1>28, <1>k, <2>1, IntentQuiet DEF FollowReply, serverVars
  <2>4. AttendsInv'
    BY <1>28, <1>k, <2>1 DEF FollowReply, AttendsInv, Attending, ChatInv
  <2>. QED
    BY <2>2, <2>3, <2>4
<1>29. ASSUME Keep PROVE ServiceInv' /\ IntentInv' /\ AttendsInv'
  <2>1. UNCHANGED <<waits, details, gone, used, serverVars, posts>>
    BY <1>29 DEF Keep, vars, mailVars, waitVars, restVars
  <2>2. ServiceInv'
    BY <1>29, <1>k, <2>1, ServiceQuiet DEF Keep, serverVars
  <2>3. IntentInv'
    BY <1>29, <1>k, <2>1, IntentQuiet DEF Keep, serverVars
  <2>4. AttendsInv'
    BY <1>29, <1>k, <2>1 DEF Keep, AttendsInv, Attending, ChatInv
  <2>. QED
    BY <2>2, <2>3, <2>4
<1>30. ASSUME Observe PROVE ServiceInv' /\ IntentInv' /\ AttendsInv'
  <2>1. UNCHANGED <<waits, details, gone, used, serverVars, posts>>
    BY <1>30 DEF Observe, vars, mailVars, waitVars, restVars, MarkWaitObserved
  <2>2. ServiceInv'
    BY <1>30, <1>k, <2>1, ServiceQuiet DEF Observe, serverVars
  <2>3. IntentInv'
    BY <1>30, <1>k, <2>1, IntentQuiet DEF Observe, serverVars
  <2>4. AttendsInv'
    BY <1>30, <1>k, <2>1 DEF Observe, AttendsInv, Attending, ChatInv
  <2>. QED
    BY <2>2, <2>3, <2>4
<1>38. ASSUME NEW saved \in BOOLEAN, Complete(saved) PROVE ServiceInv' /\ IntentInv' /\ AttendsInv'
  <2>1. UNCHANGED <<waits, details, gone, used, serverVars, posts>>
    BY <1>38 DEF Complete, vars, mailVars, waitVars, restVars
  <2>2. ServiceInv'
    BY <1>38, <1>k, <2>1, ServiceQuiet DEF Complete, serverVars
  <2>3. IntentInv'
    BY <1>38, <1>k, <2>1, IntentQuiet DEF Complete, serverVars
  <2>4. AttendsInv'
    BY <1>38, <1>k, <2>1 DEF Complete, AttendsInv, Attending, ChatInv
  <2>. QED
    BY <2>2, <2>3, <2>4
<1>31. ASSUME Report PROVE ServiceInv' /\ IntentInv' /\ AttendsInv'
  <2>1. UNCHANGED <<waits, details, gone, used, serverVars, posts, receipt>> /\ cmd.step = "report"
    BY <1>31 DEF Report, vars
  <2>2. ServiceInv'
    BY <1>31, <1>k, <2>1, ServiceQuiet DEF Report, serverVars
  <2>3. IntentInv'
    BY <1>k, <2>1, IntentQuiet DEF serverVars
  <2>4. AttendsInv'
    BY <1>31, <1>k, <2>1 DEF Report, AttendsInv, Attending
  <2>. QED
    BY <2>2, <2>3, <2>4
<1>32. ASSUME Fail PROVE ServiceInv' /\ IntentInv' /\ AttendsInv'
  <2>1. UNCHANGED <<waits, details, gone, used, serverVars, posts>>
    BY <1>32 DEF Fail, vars, mailVars, waitVars, restVars
  <2>2. ServiceInv'
    BY <1>32, <1>k, <2>1, ServiceQuiet DEF Fail, serverVars
  <2>3. IntentInv'
    BY <1>32, <1>k, <2>1, IntentQuiet DEF Fail, serverVars
  <2>4. AttendsInv'
    BY <1>32, <1>k, <2>1 DEF Fail, AttendsInv, Attending, ChatInv
  <2>. QED
    BY <2>2, <2>3, <2>4
<1>33. ASSUME FailOpening PROVE ServiceInv' /\ IntentInv' /\ AttendsInv'
  <2>1. UNCHANGED <<waits, details, gone, used, serverVars, posts>>
    BY <1>33 DEF FailOpening, vars, mailVars, waitVars, restVars
  <2>2. ServiceInv'
    BY <1>33, <1>k, <2>1, ServiceQuiet DEF FailOpening, serverVars
  <2>3. IntentInv'
    BY <1>33, <1>k, <2>1, IntentQuiet DEF FailOpening, serverVars
  <2>4. AttendsInv'
    BY <1>33, <1>k, <2>1 DEF FailOpening, AttendsInv, Attending, ChatInv
  <2>. QED
    BY <2>2, <2>3, <2>4
<1>34. ASSUME Die PROVE ServiceInv' /\ IntentInv' /\ AttendsInv'
  <2>1. UNCHANGED <<waits, details, gone, used, serverVars, posts>>
    BY <1>34 DEF Die, vars, mailVars, waitVars, restVars
  <2>2. ServiceInv'
    BY <1>34, <1>k, <2>1, ServiceQuiet DEF Die, serverVars
  <2>3. IntentInv'
    BY <1>34, <1>k, <2>1, IntentQuiet DEF Die, serverVars
  <2>4. AttendsInv'
    BY <1>34, <1>k, <2>1 DEF Die, AttendsInv, Attending, ChatInv
  <2>. QED
    BY <2>2, <2>3, <2>4
<1>. QED
  BY <1>1, <1>2, <1>3, <1>4, <1>5, <1>6, <1>7, <1>8, <1>9, <1>10, <1>11, <1>12,
     <1>13, <1>14, <1>15, <1>16, <1>17, <1>18, <1>19, <1>20, <1>21, <1>22,
     <1>23, <1>24, <1>25, <1>26, <1>27, <1>28, <1>29, <1>30, <1>31, <1>32,
     <1>33, <1>34, <1>36, <1>37, <1>38 DEF ChatNext

LEMMA ServerReadsFirst ==
    ASSUME WellFormed, ServiceInv, IntentInv, AttendsInv, ServerNext, UNCHANGED chatVars
    PROVE  ServiceInv' /\ IntentInv' /\ AttendsInv'
<1>k. /\ sentAs \in [Requests -> OrNone(Sends)]
      /\ outcome \in [Requests -> {"none", "posted", "accepted", "refused"}]
      /\ receipt.key # None => receipt.key \in Requests
  BY DEF WellFormed, ReadersTypeOK, OrNone
<1>1. UNCHANGED <<waits, details, gone, cmd, receipt, used, posts>>
  BY DEF ServerNext, Accept, Refuse, Arrive, Receive, Ingest, vars, chatVars, waitVars, restVars
<1>2. AttendsInv'
  BY <1>1 DEF AttendsInv, Attending
<1>3. ASSUME NEW key \in Requests, Accept(key) PROVE ServiceInv' /\ IntentInv'
  <2>1. /\ outcome[key] = "posted" /\ UNCHANGED mail
        /\ outcome'[key] = "accepted" /\ \A r \in Requests \ {key} : outcome'[r] = outcome[r]
        /\ \A r \in Requests \ {key} : sentAs'[r] = sentAs[r]
    BY <1>3, <1>k DEF Accept
  <2>. QED
    BY <1>k, <1>1, <2>1 DEF ServiceInv, IntentInv
<1>4. ASSUME NEW key \in Requests, Refuse(key) PROVE ServiceInv' /\ IntentInv'
  <2>1. /\ outcome[key] = "posted" /\ UNCHANGED <<sentAs, mail>>
        /\ outcome'[key] = "refused" /\ \A r \in Requests \ {key} : outcome'[r] = outcome[r]
    BY <1>4, <1>k DEF Refuse
  <2>. QED
    BY <1>k, <1>1, <2>1 DEF ServiceInv, IntentInv
<1>5. ASSUME NEW e \in Emails, Arrive(e) PROVE ServiceInv' /\ IntentInv'
  <2>1. /\ mail[e] = NoDetails /\ UNCHANGED <<outcome, sentAs>>
        /\ \A x \in Emails \ {e} : mail'[x] = mail[x]
    BY <1>5 DEF Arrive, WellFormed, ReadersTypeOK
  <2>. QED
    BY <1>1, <2>1 DEF ServiceInv, IntentInv
<1>6. ASSUME NEW e \in Emails, Receive(e) PROVE ServiceInv' /\ IntentInv'
  <2>1. UNCHANGED <<outcome, sentAs, mail>>
    BY <1>6 DEF Receive, serverVars
  <2>. QED
    BY <1>1, <2>1 DEF ServiceInv, IntentInv
<1>. QED
  BY <1>2, <1>3, <1>4, <1>5, <1>6 DEF ServerNext

\* A listener tells the store what arrived and touches neither sends nor waits.
LEMMA NotifyReadsFirst ==
    ASSUME WellFormed, ServiceInv, IntentInv, AttendsInv, NotifyNext, UNCHANGED chatVars
    PROVE  ServiceInv' /\ IntentInv' /\ AttendsInv'
<1> USE DEF NoCall, Rest
<1> PICK k \in Sessions :
      \/ StartListener(k) \/ StopListener(k)
      \/ \E e \in Emails : List(k, e)
      \/ Settled(k) \/ Resume(k)
      \/ \E verdict \in {"scan", "ignored", "hydrate"} : Judge(k, verdict)
      \/ Ignored(k) \/ HydrateMail(k) \/ ClaimMail(k) \/ NotClaimed(k)
      \/ Skip(k) \/ FollowThread(k) \/ Prepare(k)
      \/ Suppress(k) \/ Submit(k) \/ Turn(k) \/ Record(k) \/ Defer(k)
      \/ Reconcile(k) \/ MarkOutcome(k)
  BY DEF NotifyNext
<1>1. ASSUME UNCHANGED <<waits, gone, serverVars>>,
             \A x \in Emails : details'[x] # NoDetails =>
                /\ mail'[x] # NoDetails
                /\ details'[x].peer = mail'[x].peer /\ details'[x].parent = mail'[x].parent
      PROVE  ServiceInv' /\ IntentInv' /\ AttendsInv'
  BY <1>1 DEF ServiceInv, IntentInv, AttendsInv, Attending, serverVars, chatVars
<1>2. ASSUME UNCHANGED <<waits, gone, serverVars, details>>
      PROVE  ServiceInv' /\ IntentInv' /\ AttendsInv'
  BY <1>1, <1>2 DEF ServiceInv, serverVars
<1>3. CASE HydrateMail(k)
  <2>1. UNCHANGED <<waits, gone, serverVars>> /\ In(k, "hydrate") /\ Hydrate(Mail(k), mail[Mail(k)])
    BY <1>3 DEF HydrateMail, Hydrate, waitVars, restVars
  <2>2. Mail(k) \in Emails /\ mail[Mail(k)] \in Details
    BY <2>1 DEF WellFormed, Known, ListenerKnows, In, Mail
  <2>. QED
    BY <1>1, <2>1, <2>2, HydratingTells DEF serverVars
<1> USE DEF vars, mailVars, waitVars, restVars
<1>4. CASE \/ StartListener(k) \/ StopListener(k) \/ (\E e \in Emails : List(k, e))
           \/ Settled(k) \/ Resume(k)
           \/ (\E verdict \in {"scan", "ignored", "hydrate"} : Judge(k, verdict))
  BY <1>2, <1>4 DEF StartListener, StopListener, List, Settled, Resume, Judge
<1>5. CASE Ignored(k) \/ Skip(k) \/ Suppress(k) \/ Defer(k)
  BY <1>2, <1>5 DEF Ignored, Skip, Suppress, Defer, SkipNotification, ReleaseNotification
<1>6. CASE ClaimMail(k) \/ NotClaimed(k) \/ Prepare(k) \/ Turn(k)
  BY <1>2, <1>6 DEF ClaimMail, NotClaimed, Prepare, Turn, ClaimForNotification
<1>7. CASE FollowThread(k)
  BY <1>2, <1>7 DEF FollowThread, Follow
<1>8. CASE Submit(k) \/ Record(k)
  BY <1>2, <1>8 DEF Submit, Record, SaveReceipt
<1>9. CASE Reconcile(k) \/ MarkOutcome(k)
  BY <1>2, <1>9 DEF Reconcile, MarkOutcome, MarkNotification
<1>. QED
  BY <1>3, <1>4, <1>5, <1>6, <1>7, <1>8, <1>9

LEMMA InitFirstInv == ReadersInit => FirstInv
<1> SUFFICES ASSUME ReadersInit PROVE FirstInv
  OBVIOUS
<1> USE DEF ReadersInit, Init, ServerInit, ChatInit
<1>1. ServiceInv
  BY DEF ServiceInv, Idle, NoReceipt
<1>2. IntentInv /\ AttendsInv
  BY DEF IntentInv, AttendsInv, Attending, Idle, NoReceipt
<1>. QED
  BY <1>1, <1>2, InitReadersInv DEF FirstInv

LEMMA NextFirstInv ==
    ASSUME FirstInv, [ReadersNext]_readersVars PROVE FirstInv'
<1> USE DEF FirstInv, ReadersInv
<1>1. ReadersInv'
  BY NextReadersInv
<1>2. CASE ServerNext /\ UNCHANGED <<chatVars, notifyVars>>
  BY <1>1, <1>2, ServerReadsFirst
<1>3. CASE ChatNext /\ UNCHANGED notifyVars
  BY <1>1, <1>3, ChatReadsFirst
<1>4. CASE NotifyNext /\ UNCHANGED chatVars
  BY <1>1, <1>4, NotifyReadsFirst
<1>5. CASE UNCHANGED readersVars
  <2>1. ServiceInv' /\ IntentInv' /\ AttendsInv'
    BY <1>5 DEF readersVars, vars, serverVars, chatVars, ServiceInv, IntentInv, AttendsInv, Attending
  <2>. QED
    BY <1>1, <2>1
<1>. QED
  BY <1>2, <1>3, <1>4, <1>5 DEF ReadersNext

FirstStep ==
    \A e \in Emails :
       /\ route[e] = NoRoute /\ route'[e].kind = "notification"
       /\ mail[e].parent # None /\ receipt.key # None
       /\ sentAs[receipt.key] = mail[e].parent /\ mail[e].peer = ChatPeer
       => /\ receipt.sent = mail[e].parent
          /\ cmd.step \in Reading => receipt.reply # None

\* A reply that goes native was claimed at a moment when no send to its sender
\* was unresolved and nobody attended to the wait of its parent.
LEMMA ClaimComesSecond ==
    ASSUME FirstInv, [ReadersNext]_readersVars PROVE [FirstStep]_readersVars
<1> SUFFICES ASSUME NEW e \in Emails,
                    route[e] = NoRoute, route'[e].kind = "notification",
                    mail[e].parent # None, receipt.key # None,
                    sentAs[receipt.key] = mail[e].parent, mail[e].peer = ChatPeer
             PROVE  /\ receipt.sent = mail[e].parent
                    /\ cmd.step \in Reading => receipt.reply # None
  BY DEF FirstStep
<1>0. StoreInv /\ ReadersTypeOK /\ Known /\ ChatInv /\ ServiceInv /\ IntentInv /\ AttendsInv
  BY DEF FirstInv, ReadersInv, WellFormed
<1>1. /\ NativeStep
      /\ \E k \in Sessions : ClaimForNotification(e, k)
  <2>1. route' # route
    BY DEF NoRoute
  <2>2. Next
    BY <2>1, NextReadersInv DEF FirstInv, vars
  <2>3. NativeStep
    BY <1>0, <2>2, NativeClaimSeesEveryWait
  <2>4. PICK x \in Emails, k \in Sessions : ClaimForNotification(x, k)
    BY <1>0, <2>2, OnlyClaimsMakeNative
  <2>5. x = e
    BY <1>0, <2>4 DEF ClaimForNotification, NoRoute, StoreInv, TypeOK
  <2>6. QED
    BY <2>3, <2>4, <2>5
<1>2. details[e].peer = ChatPeer /\ details[e].parent = mail[e].parent
  BY <1>0, <1>1 DEF ClaimForNotification, Trusted, ServiceInv
<1>3. \A req \in Requests : waits[req].peer = ChatPeer =>
        /\ waits[req].status \notin Unresolved
        /\ waits[req].status = "bound" /\ waits[req].sent = mail[e].parent =>
              waits[req].tracked /\ waits[req].waiters \subseteq gone
  BY <1>1, <1>2 DEF NativeStep
<1>4. receipt.key \in Requests /\ outcome[receipt.key] = "accepted"
  BY <1>0 DEF ReadersTypeOK, OrNone, ServiceInv
<1>5. receipt.sent = mail[e].parent
  <2>1. receipt.sent # None
    BY <1>0, <1>3, <1>4 DEF IntentInv, Unresolved
  <2>. QED
    BY <1>0, <2>1 DEF ServiceInv
<1>6. ASSUME cmd.step \in Reading, receipt.reply = None PROVE FALSE
  <2>1. cmd.step # "idle" /\ cmd.wait \in Requests /\ cmd.token \notin gone
    BY <1>0, <1>6 DEF Known, ServiceInv, Reading
  <2>2. cmd.step \notin {"observe", "finish", "complete", "report"}
    BY <1>0, <1>6, NoneAssumption DEF ChatInv, Known
  <2>3. cmd.step \in {"ready", "bind", "await", "ingest", "hydrate", "claim", "follow", "keep"}
    BY <1>0, <1>5, <1>6, <2>2 DEF Reading, Steps, ChatInv, AttendsInv
  <2>4. /\ waits[cmd.wait].peer = ChatPeer
        /\ waits[cmd.wait].tracked => cmd.token \in waits[cmd.wait].waiters
        /\ \/ waits[cmd.wait].status = "bound" /\ waits[cmd.wait].sent = receipt.sent
           \/ waits[cmd.wait].status = "uncertain"
    BY <1>0, <1>5, <1>6, <2>3 DEF AttendsInv, Attending
  <2>. QED
    BY <1>3, <1>5, <2>1, <2>4 DEF Unresolved
<1>. QED
  BY <1>5, <1>6

\* A reply to the conversation's send becomes a native turn only when the send
\* is resolved in the receipt and no command with an open wait still reads.
THEOREM CommandsReadFirst == ReadersSpec => CommandReadsFirst
<1>1. FirstInv /\ [ReadersNext]_readersVars => FirstInv'
  BY NextFirstInv
<1>2. FirstInv /\ [ReadersNext]_readersVars => [FirstStep]_readersVars
  BY ClaimComesSecond
<1>3. ReadersSpec => [][FirstStep]_readersVars
  BY <1>1, <1>2, InitFirstInv, PTL DEF ReadersSpec
<1>. QED
  BY <1>3 DEF FirstStep, CommandReadsFirst

-----------------------------------------------------------------------------
(* What readers and store promise together.                                  *)

\* The reader of one email changes, and of no other.
LEMMA ReaderMoves ==
    ASSUME StoreInv, NEW e \in Emails, NEW r \in Routes \union {NoRoute},
           route' = [route EXCEPT ![e] = r]
    PROVE  /\ Reader' = [Reader EXCEPT ![e] = [kind |-> r.kind, to |-> r.to]]
           /\ Skipped' = IF r.state = "skipped" THEN Skipped \union {e} ELSE Skipped \ {e}
<1>1. route'[e] = r /\ \A x \in Emails \ {e} : route'[x] = route[x]
  BY DEF StoreInv, TypeOK
<1>2. Reader' = [Reader EXCEPT ![e] = [kind |-> r.kind, to |-> r.to]]
  BY <1>1 DEF Reader
<1>3. Skipped' = IF r.state = "skipped" THEN Skipped \union {e} ELSE Skipped \ {e}
  BY <1>1 DEF Skipped
<1>. QED
  BY <1>2, <1>3

\* A transaction of the store gives one email to a reader, takes back what the
\* reader has not seen, skips it, or is about something else.
LEMMA RoutesImplement ==
    ASSUME StoreInv, [Next]_vars, turns \in [Emails -> Nat], RouteTellsTurn',
           UNCHANGED <<reported, turns, posts>>
    PROVE  [Mailbox!Next]_<<Reader, Skipped, reported, turns, posts>>
<1>1. CASE route' = route
  BY <1>1 DEF Reader, Skipped
<1>2. ASSUME NEW e \in Emails, NEW req \in Requests, NEW token \in Waiters,
             ClaimForWait(e, req, token)
      PROVE  Mailbox!Next
  <2> DEFINE r == [kind |-> "wait", to |-> req, state |-> "claimed"]
             owner == [kind |-> "wait", to |-> req]
  <2>1. r \in Routes /\ route' = [route EXCEPT ![e] = r] /\ route[e] = NoRoute
    BY <1>2 DEF ClaimForWait, Routes
  <2>2. /\ Reader' = [Reader EXCEPT ![e] = [kind |-> r.kind, to |-> r.to]]
        /\ Skipped' = IF r.state = "skipped" THEN Skipped \union {e} ELSE Skipped \ {e}
    <3> HIDE DEF r
    <3>. QED BY <2>1, ReaderMoves
  <2>2a. Reader' = [Reader EXCEPT ![e] = owner]
    BY <2>2
  <2>2b. Skipped' = Skipped
    BY <2>1, <2>2 DEF Skipped, NoRoute
  <2>3. Mailbox!Give(e, owner)
    BY <2>1, <2>2a, <2>2b DEF Mailbox!Give, Mailbox!Nobody, Reader, NoRoute
  <2>4. owner \in Mailbox!Readers
    BY DEF Mailbox!Readers
  <2>. QED
    BY <2>3, <2>4 DEF Mailbox!Next
<1>3. ASSUME NEW e \in Emails, NEW session \in Sessions, ClaimForNotification(e, session)
      PROVE  Mailbox!Next
  <2> DEFINE r == [kind |-> "notification", to |-> session, state |-> "selected"]
             owner == [kind |-> "notification", to |-> session]
  <2>1. r \in Routes /\ route' = [route EXCEPT ![e] = r] /\ route[e] = NoRoute
    BY <1>3 DEF ClaimForNotification, Routes
  <2>2. /\ Reader' = [Reader EXCEPT ![e] = [kind |-> r.kind, to |-> r.to]]
        /\ Skipped' = IF r.state = "skipped" THEN Skipped \union {e} ELSE Skipped \ {e}
    <3> HIDE DEF r
    <3>. QED BY <2>1, ReaderMoves
  <2>2a. Reader' = [Reader EXCEPT ![e] = owner]
    BY <2>2
  <2>2b. Skipped' = Skipped
    BY <2>1, <2>2 DEF Skipped, NoRoute
  <2>3. Mailbox!Give(e, owner)
    BY <2>1, <2>2a, <2>2b DEF Mailbox!Give, Mailbox!Nobody, Reader, NoRoute
  <2>4. owner \in Mailbox!Readers
    BY DEF Mailbox!Readers
  <2>. QED
    BY <2>3, <2>4 DEF Mailbox!Next
<1>4. ASSUME NEW e \in Emails, route[e].kind = "notification",
             route'[e].kind # "notification" \/ route'[e].state = "skipped"
      PROVE  turns[e] = 0
  <2>1. ~(turns'[e] > 0)
    BY <1>4 DEF RouteTellsTurn
  <2>. QED
    BY <2>1
<1>5. ASSUME NEW e \in Emails, NEW session \in Sessions, ReleaseNotification(e, session)
      PROVE  Mailbox!Next
  <2>1. /\ route' = [route EXCEPT ![e] = NoRoute]
        /\ route[e].kind = "notification" /\ route[e].state = "selected"
    BY <1>5 DEF ReleaseNotification, Notified
  <2>2. /\ Reader' = [Reader EXCEPT ![e] = [kind |-> NoRoute.kind, to |-> NoRoute.to]]
        /\ Skipped' = IF NoRoute.state = "skipped" THEN Skipped \union {e} ELSE Skipped \ {e}
    BY <2>1, ReaderMoves
  <2>2a. Reader' = [Reader EXCEPT ![e] = Mailbox!Nobody]
    BY <2>2 DEF NoRoute, Mailbox!Nobody
  <2>2b. Skipped' = Skipped
    BY <2>1, <2>2 DEF Skipped, NoRoute
  <2>3. turns[e] = 0
    BY <1>4, <2>1 DEF StoreInv, TypeOK, NoRoute
  <2>4. Mailbox!GiveBack(e)
    BY <2>1, <2>2a, <2>2b, <2>3 DEF Mailbox!GiveBack, Reader, Skipped
  <2>. QED
    BY <2>4 DEF Mailbox!Next
<1>6. ASSUME NEW e \in Emails, NEW session \in Sessions, SkipNotification(e, session)
      PROVE  Mailbox!Next
  <2> DEFINE r == [route[e] EXCEPT !.state = "skipped"]
  <2>1. route' = [route EXCEPT ![e] = r] /\ route[e].kind = "notification" /\ route[e] \in Routes
    BY <1>6 DEF SkipNotification, Notified, StoreInv, TypeOK, NoRoute
  <2>2. r \in Routes /\ r.kind = route[e].kind /\ r.to = route[e].to /\ r.state = "skipped"
    BY <2>1 DEF Routes
  <2>3. /\ Reader' = [Reader EXCEPT ![e] = [kind |-> r.kind, to |-> r.to]]
        /\ Skipped' = IF r.state = "skipped" THEN Skipped \union {e} ELSE Skipped \ {e}
    <3> HIDE DEF r
    <3>. QED BY <2>1, <2>2, ReaderMoves
  <2>3a. Reader' = Reader
    BY <2>2, <2>3 DEF Reader
  <2>3b. Skipped' = Skipped \union {e}
    BY <2>2, <2>3
  <2>4. turns[e] = 0
    BY <1>4, <2>1, <2>2 DEF StoreInv, TypeOK
  <2>5. Mailbox!Skip(e)
    BY <2>1, <2>3a, <2>3b, <2>4 DEF Mailbox!Skip, Reader
  <2>. QED
    BY <2>5 DEF Mailbox!Next
<1>7. ASSUME NEW e \in Emails, NEW state, state # "skipped", route[e] \in Routes,
             route[e].state # "skipped", route' = [route EXCEPT ![e].state = state],
             [route[e] EXCEPT !.state = state] \in Routes
      PROVE  Reader' = Reader /\ Skipped' = Skipped
  <2> DEFINE r == [route[e] EXCEPT !.state = state]
  <2>1. r.kind = route[e].kind /\ r.to = route[e].to /\ r.state = state
    BY <1>7 DEF Routes
  <2>2. route' = [route EXCEPT ![e] = r]
    BY <1>7
  <2>. QED
    BY <1>7, <2>1, <2>2, ReaderMoves DEF Reader, Skipped
<1>8. ASSUME NEW e \in Emails, NEW req \in Requests, MarkWaitObserved(e, req)
      PROVE  Reader' = Reader /\ Skipped' = Skipped
  <2>1. route[e] \in Routes /\ route[e].state # "skipped" /\ [route[e] EXCEPT !.state = "observed"] \in Routes
    BY <1>8 DEF MarkWaitObserved, StoreInv, TypeOK, Routes, NoRoute
  <2>. QED
    BY <1>7, <1>8, <2>1 DEF MarkWaitObserved
<1>9. ASSUME NEW e \in Emails, NEW state \in {"submitting", "accepted", "unknown"},
             MarkNotification(e, state)
      PROVE  Reader' = Reader /\ Skipped' = Skipped
  <2>1. route[e] \in Routes /\ route[e].state # "skipped" /\ [route[e] EXCEPT !.state = state] \in Routes
    BY <1>9 DEF MarkNotification, StoreInv, TypeOK, Routes, NoRoute
  <2>. QED
    BY <1>7, <1>9, <2>1 DEF MarkNotification
<1>10. CASE UNCHANGED vars
  BY <1>1, <1>10 DEF vars, mailVars
<1>. QED
  BY <1>1, <1>2, <1>3, <1>5, <1>6, <1>8, <1>9, <1>10, RouteWriters

\* A command posts and shows nothing but in its own two steps.
LEMMA ChatShows ==
    ASSUME ReadersInv, ChatNext, UNCHANGED notifyVars
    PROVE  \/ UNCHANGED <<reported, turns, posts>>
           \/ UNCHANGED vars /\ [Mailbox!Next]_<<Reader, Skipped, reported, turns, posts>>
<1> USE DEF notifyVars, NoStore, NoSave
<1>1. CASE Post
  <2>1. receipt.key \in Requests /\ posts[receipt.key] = 0 /\ posts \in [Requests -> Nat]
    BY <1>1 DEF Post, At, ReadersInv, ChatInv, WellFormed, Known, ReadersTypeOK
  <2>2. Mailbox!Post(receipt.key) /\ UNCHANGED vars
    BY <1>1, <2>1 DEF Post, Mailbox!Post, Reader, Skipped, vars, mailVars
  <2>. QED
    BY <2>1, <2>2 DEF Mailbox!Next
<1>2. CASE Report
  <2>1. cmd.reply \in Emails /\ route[cmd.reply].kind = "wait"
    BY <1>2 DEF Report, At, ReadersInv, ChatInv, WellFormed, Known
  <2>2. Mailbox!Show(cmd.reply) /\ UNCHANGED vars
    BY <1>2, <2>1 DEF Report, Mailbox!Show, Reader, Skipped, vars, mailVars
  <2>. QED
    BY <2>1, <2>2 DEF Mailbox!Next
<1>3. CASE ~Post /\ ~Report
  <2>1. ASSUME NEW token \in Waiters, Begin(token) \/ CommandGone(token)
        PROVE  UNCHANGED <<reported, posts>>
    BY <2>1 DEF Begin, CommandGone, chatVars
  <2>2. ASSUME NEW next \in {"ready", "giveUp"}, OpenReply(next) \/ OpenBound(next) \/ OpenOwn(next)
        PROVE  UNCHANGED <<reported, posts>>
    BY <2>2 DEF OpenReply, OpenBound, OpenOwn
  <2>3. ASSUME OpenBind \/ GiveUp \/ GiveUpCancel \/ Ready \/ NotReady \/ CancelUnsent
               \/ Settle \/ Ask \/ Lookup \/ LookupRefused \/ Rejected \/ Attempt \/ Mark
        PROVE  UNCHANGED <<reported, posts>>
    BY <2>3 DEF OpenBind, GiveUp, GiveUpCancel, Ready, NotReady, CancelUnsent, Settle, Ask, Lookup,
                LookupRefused, Rejected, Attempt, Mark
  <2>4. ASSUME Answered \/ Refused \/ Bind \/ (\E e \in Emails : Found(e)) \/ IngestFound
               \/ HydrateFound \/ Claim \/ ClaimAgain \/ FollowReply \/ Keep \/ Observe \/ Finish
        PROVE  UNCHANGED <<reported, posts>>
    BY <2>4 DEF Answered, Refused, Bind, Found, IngestFound, HydrateFound, Claim, ClaimAgain,
                FollowReply, Keep, Observe, Finish
  <2>5. ASSUME (\E saved \in BOOLEAN : Complete(saved)) \/ Close \/ Fail \/ FailOpening \/ Die
        PROVE  UNCHANGED <<reported, posts>>
    BY <2>5 DEF Complete, Close, Fail, FailOpening, Die
  <2>. QED
    BY <1>3, <2>1, <2>2, <2>3, <2>4, <2>5 DEF ChatNext
<1>. QED
  BY <1>1, <1>2, <1>3

\* A listener starts a turn only as the reader of the email, and once.
LEMMA NotifyShows ==
    ASSUME ReadersInv, NotifyNext, UNCHANGED chatVars
    PROVE  \/ UNCHANGED <<reported, turns, posts>>
           \/ UNCHANGED vars /\ [Mailbox!Next]_<<Reader, Skipped, reported, turns, posts>>
<1> USE DEF chatVars, Rest
<1>1. ASSUME NEW k \in Sessions, Turn(k)
      PROVE  UNCHANGED vars /\ [Mailbox!Next]_<<Reader, Skipped, reported, turns, posts>>
  <2>1. /\ Mail(k) \in Emails /\ turns[Mail(k)] = 0 /\ turns \in [Emails -> Nat]
        /\ route[Mail(k)].kind = "notification" /\ route[Mail(k)].state = "selected"
    BY <1>1 DEF Turn, In, Mail, ReadersInv, WellFormed, ReadersTypeOK, Known, ListenerKnows, TurnInv,
                SessionInv, AtEmail, Own
  <2>2. UNCHANGED vars /\ UNCHANGED <<Reader, Skipped, reported, posts>>
    BY <1>1 DEF Turn, NoCall, vars, mailVars, Reader, Skipped
  <2>3. turns' = turns \/ turns' = [turns EXCEPT ![Mail(k)] = 1]
    BY <1>1, <2>1 DEF Turn
  <2>4. CASE turns' = [turns EXCEPT ![Mail(k)] = 1]
    <3>1. Mailbox!StartTurn(Mail(k))
      BY <2>1, <2>2, <2>4 DEF Mailbox!StartTurn, Reader, Skipped
    <3>. QED
      BY <2>1, <2>2, <3>1 DEF Mailbox!Next
  <2>. QED
    BY <2>2, <2>3, <2>4
<1>2. ASSUME NEW k \in Sessions,
             \/ StartListener(k) \/ StopListener(k) \/ (\E e \in Emails : List(k, e))
             \/ Settled(k) \/ Resume(k) \/ \E verdict \in {"scan", "ignored", "hydrate"} : Judge(k, verdict)
      PROVE  UNCHANGED turns
  BY <1>2 DEF StartListener, StopListener, List, Settled, Resume, Judge
<1>3. ASSUME NEW k \in Sessions,
             \/ Ignored(k) \/ HydrateMail(k) \/ ClaimMail(k) \/ NotClaimed(k)
             \/ Skip(k) \/ FollowThread(k) \/ Prepare(k)
      PROVE  UNCHANGED turns
  BY <1>3 DEF Ignored, HydrateMail, ClaimMail, NotClaimed, Skip, FollowThread, Prepare
<1>4. ASSUME NEW k \in Sessions,
             Suppress(k) \/ Submit(k) \/ Record(k) \/ Defer(k) \/ Reconcile(k) \/ MarkOutcome(k)
      PROVE  UNCHANGED turns
  BY <1>4 DEF Suppress, Submit, Record, SaveReceipt, Defer, Reconcile, MarkOutcome
<1>. QED
  BY <1>1, <1>2, <1>3, <1>4 DEF NotifyNext

LEMMA StepImplementsMailbox ==
    ASSUME ReadersInv, ReadersInv', RouteTellsTurn', [ReadersNext]_readersVars
    PROVE  [Mailbox!Next]_<<Reader, Skipped, reported, turns, posts>>
<1>1. StoreInv /\ [Next]_vars /\ turns \in [Emails -> Nat]
  BY NextReadersInv DEF ReadersInv, WellFormed, ReadersTypeOK
<1>2. CASE UNCHANGED <<reported, turns, posts>>
  BY <1>1, <1>2, RoutesImplement
<1>3. CASE ServerNext /\ UNCHANGED <<chatVars, notifyVars>>
  BY <1>2, <1>3 DEF chatVars, notifyVars
<1>4. CASE ChatNext /\ UNCHANGED notifyVars
  BY <1>2, <1>4, ChatShows
<1>5. CASE NotifyNext /\ UNCHANGED chatVars
  BY <1>2, <1>5, NotifyShows
<1>6. CASE UNCHANGED readersVars
  BY <1>2, <1>6 DEF readersVars, chatVars, notifyVars
<1>. QED
  BY <1>3, <1>4, <1>5, <1>6 DEF ReadersNext

\* "Show each email to the session at most once" (receiver-contract.md:33), and
\* more: store, command and listeners implement a mailbox in which an email has
\* one reader at a time, only the reader shows it, what was shown or skipped
\* keeps its reader, and a send is posted once, with any crash in between.
THEOREM ReadersImplementMailbox == ReadersSpec => ImplementsMailbox
<1>1. ReadersInit => Mailbox!Init
  BY DEF ReadersInit, Init, ChatInit, NotifyInit, Mailbox!Init, Mailbox!Nobody, Reader, Skipped, NoRoute
<1>2. /\ ReadersInv /\ ReadersInv' /\ RouteTellsTurn' /\ [ReadersNext]_readersVars
      => [Mailbox!Next]_<<Reader, Skipped, reported, turns, posts>>
  BY StepImplementsMailbox
<1>. QED
  BY <1>1, <1>2, ReadersInvHolds, RoutesTellTurns, PTL
     DEF ReadersSpec, ImplementsMailbox, Mailbox!Spec, Mailbox!vars
=============================================================================
