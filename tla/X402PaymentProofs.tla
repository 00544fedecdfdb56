------------------------- MODULE X402PaymentProofs -------------------------
(* Theorems about X402Payment, for any orders, payers, lifetimes and clocks*)
(* within the named assumptions.                                           *)
EXTENDS X402Payment, TLAPS

-----------------------------------------------------------------------------
(* The window.                                                             *)

\* What Pay computes for a challenge that has not expired by the payer's clock.
LEMMA DefaultWindow ==
    ASSUME NEW expires \in Int, NEW clock \in Int, expires > clock
    PROVE  LET w == ComputePaymentValidityWindow(expires, clock, NoPins)
           IN  /\ w.after \in Int /\ w.before \in Int
               /\ w.after = clock - Skew
               /\ w.before <= expires + Margin /\ w.before <= w.after + MaxWindow
               /\ w.before = expires + Margin \/ w.before = w.after + MaxWindow
<1>1. NoPins.after = None /\ NoPins.before = None /\ NoPins.clamp
  BY DEF NoPins
<1>2. ~(expires + Margin < clock + MinHeadroom)
  BY WindowAssumption
<1>3. CASE expires + Margin > clock - Skew + MaxWindow
  <2>1. ComputePaymentValidityWindow(expires, clock, NoPins)
          = [after |-> clock - Skew, before |-> clock - Skew + MaxWindow]
    BY <1>1, <1>2, <1>3, WindowAssumption DEF ComputePaymentValidityWindow
  <2> QED BY <2>1, <1>3, WindowAssumption
<1>4. CASE ~(expires + Margin > clock - Skew + MaxWindow)
  <2>1. ComputePaymentValidityWindow(expires, clock, NoPins)
          = [after |-> clock - Skew, before |-> expires + Margin]
    BY <1>1, <1>2, <1>4, WindowAssumption DEF ComputePaymentValidityWindow
  <2> QED BY <2>1, <1>4, WindowAssumption
<1> QED BY <1>3, <1>4

\* Any window is made of integers.
LEMMA WindowTypes ==
    ASSUME NEW expires \in Int, NEW clock \in Int, NEW pins \in Pins,
           ComputePaymentValidityWindow(expires, clock, pins) # NoWindow
    PROVE  /\ ComputePaymentValidityWindow(expires, clock, pins).after \in Int
           /\ ComputePaymentValidityWindow(expires, clock, pins).before \in Int
<1>1. pins.after \in Int \union {None} /\ pins.before \in Int \union {None}
  BY DEF Pins
<1> QED BY <1>1, WindowAssumption DEF ComputePaymentValidityWindow, NoWindow

\* A bound pinned without clamping comes back as it was, inside the band.
LEMMA PinnedWindow ==
    ASSUME NEW expires \in Int, NEW clock \in Int, NEW pins \in Pins,
           ~pins.clamp, pins.before # None,
           ComputePaymentValidityWindow(expires, clock, pins) # NoWindow
    PROVE  LET w == ComputePaymentValidityWindow(expires, clock, pins)
           IN  /\ w.before = pins.before
               /\ clock + MinHeadroom <= w.before
               /\ w.before - w.after <= MaxWindow
<1> DEFINE after == IF pins.after = None THEN clock - Skew ELSE pins.after
<1>1. after \in Int /\ pins.before \in Int
  BY WindowAssumption DEF Pins
<1>2. ~(pins.before < clock + MinHeadroom \/ pins.before > after + MaxWindow)
  BY DEF ComputePaymentValidityWindow
<1>3. ComputePaymentValidityWindow(expires, clock, pins)
        = [after |-> after, before |-> pins.before]
  BY <1>2 DEF ComputePaymentValidityWindow
<1>4. clock + MinHeadroom <= pins.before /\ pins.before - after <= MaxWindow
  BY <1>1, <1>2, WindowAssumption
<1> QED BY <1>3, <1>4

-----------------------------------------------------------------------------
(* The inductive invariant.                                                *)

\* Copies are copies of something the platform issued.
HandedExist == \A x \in handed : Exists(x[1])

\* A keyed order has one challenge.
KeyedOnce ==
    \A c, d \in Challenges :
        Exists(c) /\ Exists(d) /\ issued[c].order = issued[d].order /\ issued[c].order \in Keyed
          => c = d

\* What is signed carries the nonce the platform recomputes.
SignedBound == \A a \in signed : Exists(a.challenge) /\ a.nonce = BoundNonce(a.challenge)

\* What moved money was signed, and no nonce of a payer moved money twice.
SettledBound ==
    /\ \A t \in settled : Exists(t.challenge) /\ t.nonce = BoundNonce(t.challenge)
    /\ \A t, u \in settled : t.from = u.from /\ t.nonce = u.nonce => t = u

\* The windows Pay signs.
DefaultSigned ==
    \A a \in signed : a.pins = NoPins =>
        /\ a.after < a.at /\ a.at + MinHeadroom <= a.before /\ a.before - a.after <= MaxWindow
        /\ a.before <= issued[a.challenge].expires + Margin

IInv ==
    /\ TypeOK /\ HandedExist /\ KeyedOnce /\ SignedBound /\ SettledBound
    /\ DefaultSigned /\ NothingSettlesLate /\ PinnedAsAsked

LEMMA IssuedTypes ==
    ASSUME TypeOK, NEW c \in Challenges, Exists(c)
    PROVE  issued[c].order \in Orders /\ issued[c].expires \in Nat
BY DEF TypeOK, Exists

LEMMA InitIInv == Init => IInv
<1> SUFFICES ASSUME Init PROVE IInv
  OBVIOUS
<1>1. \A c \in Challenges : ~Exists(c)
  BY DEF Init, Exists
<1> QED
  BY <1>1, BoundAssumption DEF Init, IInv, TypeOK, HandedExist, KeyedOnce, SignedBound,
     SettledBound, DefaultSigned, NothingSettlesLate, PinnedAsAsked

-----------------------------------------------------------------------------
(* Steps of the payee.                                                     *)

\* Charges leave what was issued as it was and add at most one challenge.
LEMMA IssuedGrows ==
    ASSUME TypeOK, KeyedOnce, NEW o \in Orders, NEW c \in Challenges, Issued(o, c, o \in Keyed)
    PROVE  /\ issued' \in [Challenges -> [order : Orders, expires : Nat] \union {NoChallenge}]
           /\ \A d \in Challenges : Exists(d) => Exists(d)' /\ issued'[d] = issued[d]
           /\ Exists(c)'
           /\ KeyedOnce'
<1>1. CASE o \in Keyed /\ \E d \in Challenges : issued[d].order = o
  <2>1. issued[c].order = o /\ issued' = issued
    BY <1>1 DEF Issued
  <2>2. o # None
    BY NoneAssumption
  <2>3. Exists(c)
    BY <2>1, <2>2 DEF Exists, NoChallenge
  <2> QED BY <2>1, <2>3 DEF TypeOK, KeyedOnce, Exists
<1>2. CASE ~(o \in Keyed /\ \E d \in Challenges : issued[d].order = o)
  <2>1. PICK life \in Lifetimes :
          issued' = [issued EXCEPT ![c] = [order |-> o, expires |-> now + life]]
    BY <1>2 DEF Issued
  <2>2. ~Exists(c)
    BY <1>2 DEF Issued
  <2>3. now + life \in Nat
    BY OptionAssumption, BoundAssumption DEF TypeOK
  <2>4. issued' \in [Challenges -> [order : Orders, expires : Nat] \union {NoChallenge}]
    BY <2>1, <2>3 DEF TypeOK
  <2>5. issued'[c] = [order |-> o, expires |-> now + life]
        /\ \A d \in Challenges \ {c} : issued'[d] = issued[d]
    BY <2>1 DEF TypeOK
  <2>6. Exists(c)'
    <3>1. issued'[c].order = o /\ o # None
      BY <2>5, NoneAssumption
    <3> QED BY <3>1 DEF Exists, NoChallenge
  <2>7. \A d \in Challenges : Exists(d) => Exists(d)' /\ issued'[d] = issued[d]
    BY <2>2, <2>5 DEF Exists
  <2>8. KeyedOnce'
    <3> SUFFICES ASSUME NEW d \in Challenges, NEW e \in Challenges, Exists(d)', Exists(e)',
                        issued'[d].order = issued'[e].order, issued'[d].order \in Keyed
                 PROVE  d = e
      BY DEF KeyedOnce
    <3>1. CASE d # c /\ e # c
      BY <3>1, <2>5 DEF KeyedOnce, Exists
    <3>2. CASE d = c /\ e # c
      <4>1. issued'[d].order = o /\ issued[e].order = o
        BY <3>2, <2>5
      <4> QED BY <4>1, <1>2
    <3>3. CASE d # c /\ e = c
      <4>1. issued'[e].order = o /\ issued[d].order = o
        BY <3>3, <2>5
      <4> QED BY <4>1, <1>2
    <3> QED BY <3>1, <3>2, <3>3
  <2> QED BY <2>4, <2>6, <2>7, <2>8
<1> QED BY <1>1, <1>2

LEMMA ChargeStep ==
    ASSUME IInv, NEW o \in Orders, NEW c \in Challenges,
           Charge(o, c) \/ CreateEmailChallenge(o, c)
    PROVE  IInv'
<1>1. Issued(o, c, o \in Keyed) /\ Answered(c) /\ UNCHANGED <<now, signed, settled>>
  BY DEF Charge, CreateEmailChallenge
<1>2. /\ issued' \in [Challenges -> [order : Orders, expires : Nat] \union {NoChallenge}]
      /\ \A d \in Challenges : Exists(d) => Exists(d)' /\ issued'[d] = issued[d]
      /\ Exists(c)'
      /\ KeyedOnce'
  BY <1>1, IssuedGrows DEF IInv
<1>3. handed' \subseteq Challenges \X Copies /\ HandedExist'
  BY <1>1, <1>2 DEF Answered, IInv, TypeOK, HandedExist, Copies
<1>4. TypeOK'
  BY <1>1, <1>2, <1>3 DEF IInv, TypeOK
<1>5. \A a \in signed : a.challenge \in Challenges
  BY DEF IInv, TypeOK
<1>6. \A t \in settled : t.challenge \in Challenges
  BY DEF IInv, TypeOK
<1>7. SignedBound'
  BY <1>1, <1>2, <1>5 DEF IInv, SignedBound, BoundNonce
<1>8. SettledBound'
  BY <1>1, <1>2, <1>6 DEF IInv, SettledBound, BoundNonce
<1>9. DefaultSigned'
  BY <1>1, <1>2, <1>5 DEF IInv, DefaultSigned, SignedBound
<1>10. NothingSettlesLate'
  BY <1>1, <1>2, <1>6 DEF IInv, NothingSettlesLate, SettledBound
<1>11. PinnedAsAsked'
  BY <1>1 DEF IInv, PinnedAsAsked
<1> QED BY <1>2, <1>3, <1>4, <1>7, <1>8, <1>9, <1>10, <1>11 DEF IInv

LEMMA ExtractStep ==
    ASSUME IInv, NEW c \in Challenges, ExtractEmailChallenge(c)
    PROVE  IInv'
<1>1. UNCHANGED <<now, issued, signed, settled>> /\ handed' = handed \union {<<c, "part">>}
      /\ Exists(c)
  BY DEF ExtractEmailChallenge
<1>2. HandedExist' /\ handed' \subseteq Challenges \X Copies
  BY <1>1 DEF IInv, HandedExist, TypeOK, Copies, Exists
<1> QED
  BY <1>1, <1>2 DEF IInv, TypeOK, KeyedOnce, SignedBound, SettledBound, DefaultSigned,
     NothingSettlesLate, PinnedAsAsked, Exists, BoundNonce

-----------------------------------------------------------------------------
(* Steps of the payer.                                                     *)

\* Whatever the copy and the window, the nonce is the one of the challenge.
LEMMA NonceIsBound ==
    ASSUME NEW c \in Challenges, NEW copy \in Copies
    PROVE  DeriveEIP3009Nonce(NonceBinding(c, copy)) = BoundNonce(c)
BY DEF DeriveEIP3009Nonce, NonceBinding, BoundNonce

\* Signing keeps the invariant when the window is right for who asked for it.
LEMMA SignStep ==
    ASSUME IInv, NEW p \in Payers, NEW c \in Challenges, NEW copy \in Copies, NEW pins \in Pins,
           Exists(c), pins = NoPins => NotExpired(p, c), Sign(p, c, copy, pins)
    PROVE  IInv'
<1> DEFINE clock == now + Drift[p]
           window == ComputePaymentValidityWindow(issued[c].expires, clock, pins)
           new == Authorization(p, c, copy, pins, window)
<1>1. /\ window # NoWindow
      /\ signed' = signed \union {new}
      /\ UNCHANGED <<now, issued, handed, settled>>
  BY DEF Sign
<1>2. /\ issued[c].order \in Orders /\ issued[c].expires \in Nat
      /\ now \in Nat /\ Drift[p] \in Int /\ clock \in Int
      /\ Drift[p] < Skew /\ -Drift[p] <= Margin - MinHeadroom
  BY IssuedTypes, DriftAssumption, BoundAssumption DEF IInv, TypeOK
<1>3. window.after \in Int /\ window.before \in Int
  BY <1>1, <1>2, WindowTypes
<1>4. /\ new.from = p /\ new.challenge = c /\ new.nonce = BoundNonce(c)
      /\ new.after = window.after /\ new.before = window.before
      /\ new.at = now /\ new.clock = clock /\ new.pins = pins
  BY NonceIsBound DEF Authorization
<1>5. new \in [from : Payers, challenge : Challenges, nonce : Nonces,
               after : Int, before : Int, at : Nat, clock : Int, pins : Pins]
  <2>1. BoundNonce(c) \in Nonces
    BY <1>2 DEF BoundNonce, Nonces
  <2> QED BY <2>1, <1>2, <1>3, NonceIsBound DEF Authorization
<1> HIDE DEF new, window
<1>6. TypeOK'
  BY <1>1, <1>5 DEF IInv, TypeOK
<1>7. SignedBound'
  BY <1>1, <1>4 DEF IInv, SignedBound, BoundNonce, Exists
<1>8. DefaultSigned'
  <2>1. CASE pins = NoPins
    <3>1. issued[c].expires > clock
      BY <2>1 DEF NotExpired
    <3>2. /\ window.after = clock - Skew
          /\ window.before <= issued[c].expires + Margin
          /\ window.before <= window.after + MaxWindow
          /\ window.before = issued[c].expires + Margin \/ window.before = window.after + MaxWindow
      BY <2>1, <3>1, <1>2, DefaultWindow DEF window
    <3>3. /\ window.after < now /\ now + MinHeadroom <= window.before
          /\ window.before - window.after <= MaxWindow
      BY <3>1, <3>2, <1>2, <1>3, WindowAssumption
    <3> QED BY <1>1, <1>4, <3>2, <3>3 DEF IInv, DefaultSigned
  <2>2. CASE pins # NoPins
    BY <2>2, <1>1, <1>4 DEF IInv, DefaultSigned
  <2> QED BY <2>1, <2>2
<1>9. PinnedAsAsked'
  <2>1. CASE ~pins.clamp /\ pins.before # None
    <3>1. /\ window.before = pins.before
          /\ clock + MinHeadroom <= window.before
          /\ window.before - window.after <= MaxWindow
      BY <2>1, <1>1, <1>2, PinnedWindow DEF window
    <3> QED BY <3>1, <1>1, <1>4 DEF IInv, PinnedAsAsked
  <2>2. CASE ~(~pins.clamp /\ pins.before # None)
    BY <2>2, <1>1, <1>4 DEF IInv, PinnedAsAsked
  <2> QED BY <2>1, <2>2
<1> QED
  BY <1>1, <1>6, <1>7, <1>8, <1>9 DEF IInv, HandedExist, KeyedOnce, SettledBound,
     NothingSettlesLate, Exists, BoundNonce

-----------------------------------------------------------------------------
(* Steps of the platform, and the theorems.                                *)

LEMMA SettleStep ==
    ASSUME IInv, NEW a \in signed, Settle(a)
    PROVE  IInv'
<1> DEFINE new == [from |-> a.from, challenge |-> a.challenge, nonce |-> a.nonce,
                   pins |-> a.pins, at |-> now]
<1>1. /\ settled' = settled \union {new}
      /\ UNCHANGED <<now, issued, handed, signed>>
      /\ now < a.before
      /\ \A t \in settled : t.from = a.from => t.nonce # a.nonce
  BY DEF Settle
<1>2. /\ a.from \in Payers /\ a.challenge \in Challenges /\ a.nonce \in Nonces
      /\ a.before \in Int /\ a.pins \in Pins /\ now \in Nat
      /\ Exists(a.challenge) /\ a.nonce = BoundNonce(a.challenge)
  BY BoundAssumption DEF IInv, TypeOK, SignedBound
<1>3. TypeOK'
  BY <1>1, <1>2 DEF IInv, TypeOK
<1>4. SettledBound'
  <2>1. \A t \in settled' : Exists(t.challenge)' /\ t.nonce = BoundNonce(t.challenge)'
    BY <1>1, <1>2 DEF IInv, SettledBound, Exists, BoundNonce
  <2>2. \A t, u \in settled' : t.from = u.from /\ t.nonce = u.nonce => t = u
    BY <1>1 DEF IInv, SettledBound
  <2> QED BY <2>1, <2>2 DEF SettledBound
<1>5. NothingSettlesLate'
  <2>1. a.pins = NoPins => now < issued[a.challenge].expires + Margin
    <3>1. a.pins = NoPins => a.before <= issued[a.challenge].expires + Margin
      BY DEF IInv, DefaultSigned
    <3>2. issued[a.challenge].expires \in Nat
      BY <1>2, IssuedTypes DEF IInv
    <3> QED BY <3>1, <3>2, <1>1, <1>2, WindowAssumption
  <2> QED BY <2>1, <1>1 DEF IInv, NothingSettlesLate
<1> QED
  BY <1>1, <1>3, <1>4, <1>5 DEF IInv, HandedExist, KeyedOnce, SignedBound, DefaultSigned,
     PinnedAsAsked, Exists, BoundNonce

LEMMA TickStep == ASSUME IInv, Tick PROVE IInv'
<1>1. now' \in 0..Horizon /\ UNCHANGED <<issued, handed, signed, settled>>
  BY BoundAssumption DEF Tick, IInv, TypeOK
<1> QED
  BY <1>1 DEF IInv, TypeOK, HandedExist, KeyedOnce, SignedBound, SettledBound, DefaultSigned,
     NothingSettlesLate, PinnedAsAsked, Exists, BoundNonce

LEMMA NextIInv == IInv /\ [Next]_vars => IInv'
<1> SUFFICES ASSUME IInv, [Next]_vars PROVE IInv'
  OBVIOUS
<1>0. NoPins \in Pins /\ Overrides \subseteq Pins \ {NoPins}
  BY OptionAssumption DEF NoPins, Pins
<1>1. ASSUME NEW o \in Orders, NEW c \in Challenges, Charge(o, c) \/ CreateEmailChallenge(o, c)
      PROVE  IInv'
  BY <1>1, ChargeStep
<1>2. ASSUME NEW c \in Challenges, ExtractEmailChallenge(c) PROVE IInv'
  BY <1>2, ExtractStep
<1>3. ASSUME NEW p \in Payers, NEW c \in Challenges, Pay(p, c) PROVE IInv'
  <2>1. /\ Exists(c) /\ NotExpired(p, c) /\ Sign(p, c, "answer", NoPins)
        /\ "answer" \in Copies
    BY <1>3 DEF Pay, Copies
  <2> QED BY <2>1, <1>0, SignStep
<1>4. ASSUME NEW p \in Payers, NEW c \in Challenges, NEW copy \in Copies,
             PayEmailChallenge(p, c, copy)
      PROVE  IInv'
  BY <1>4, <1>0, SignStep DEF PayEmailChallenge
<1>5. ASSUME NEW p \in Payers, NEW c \in Challenges, NEW copy \in Copies, NEW pins \in Overrides,
             SignInteractionPayment(p, c, copy, pins)
      PROVE  IInv'
  BY <1>5, <1>0, SignStep DEF SignInteractionPayment
<1>6. ASSUME NEW a \in signed, Settle(a) PROVE IInv'
  BY <1>6, SettleStep
<1>7. CASE Tick
  BY <1>7, TickStep
<1>8. CASE UNCHANGED vars
  BY <1>8 DEF vars, IInv, TypeOK, HandedExist, KeyedOnce, SignedBound, SettledBound,
     DefaultSigned, NothingSettlesLate, PinnedAsAsked, Exists, BoundNonce
<1> QED BY <1>1, <1>2, <1>3, <1>4, <1>5, <1>6, <1>7, <1>8 DEF Next

\* The inductive invariant.
LEMMA Inductive == Spec => []IInv
BY InitIInv, NextIInv, PTL DEF Spec

\* What a keyed order costs a payer at most.
LEMMA PaidOnceFromIInv == IInv => OrderPaidOnce
<1> SUFFICES ASSUME IInv, NEW t \in settled, NEW u \in settled, t.from = u.from,
                    issued[t.challenge].order = issued[u.challenge].order,
                    issued[t.challenge].order \in Keyed
             PROVE  t = u
  BY DEF OrderPaidOnce
<1>1. t.challenge \in Challenges /\ u.challenge \in Challenges
  BY DEF IInv, TypeOK
<1>2. t.challenge = u.challenge
  BY <1>1 DEF IInv, KeyedOnce, SettledBound
<1> QED BY <1>2 DEF IInv, SettledBound

LEMMA OneNonceFromIInv == IInv => OneNoncePerChallenge
<1> SUFFICES ASSUME IInv, NEW a \in signed, NEW b \in signed
             PROVE  a.nonce = b.nonce <=> a.challenge = b.challenge
  BY DEF OneNoncePerChallenge
<1>1. a.nonce = BoundNonce(a.challenge) /\ b.nonce = BoundNonce(b.challenge)
  BY DEF IInv, SignedBound
<1>2. a.nonce.step = a.challenge /\ b.nonce.step = b.challenge
  BY <1>1 DEF BoundNonce
<1> QED BY <1>1, <1>2

\* Types of the payment's state.
THEOREM TypeCorrect == Spec => []TypeOK
BY Inductive, PTL DEF IInv

\* An order charged with a key takes a payer's money at most once, whatever is
\* lost, repeated or late (Charge, Pay, PayEmailChallenge).
THEOREM PaidOnce == Spec => []OrderPaidOnce
BY Inductive, PaidOnceFromIInv, PTL

\* All signatures for a challenge share the nonce of DeriveEIP3009Nonce, and no
\* two challenges do.
THEOREM NonceNamesChallenge == Spec => []OneNoncePerChallenge
BY Inductive, OneNonceFromIInv, PTL

\* No transfer comes after expires_at and the margin, for every clock within
\* DriftAssumption.
THEOREM NeverLate == Spec => []NothingSettlesLate
BY Inductive, PTL DEF IInv

\* Pay's windows can be settled at once and respect the cap.
THEOREM WindowsCanSettle == Spec => []SignedCanSettle
<1>1. IInv => SignedCanSettle
  BY DEF IInv, DefaultSigned, SignedCanSettle
<1> QED BY <1>1, Inductive, PTL

\* Pinned bounds are signed as asked or refused (ComputePaymentValidityWindow).
THEOREM PinnedNotMoved == Spec => []PinnedAsAsked
BY Inductive, PTL DEF IInv
=============================================================================
