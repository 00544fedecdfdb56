---------------------------- MODULE X402Payment ----------------------------
(* Agent-to-agent payments of the Go SDK (sdk-go/x402.go).  A payee charges   *)
(* an order, a payer signs an EIP-3009 authorization with its own key, and    *)
(* the platform settles it on chain.                                         *)
(*                                                                           *)
(* The client keeps no state: every call may be made again at any time,       *)
(* whatever the last answer was or whether it came.  So an answer that is     *)
(* lost is a handover that does not happen, a signed authorization may reach  *)
(* the platform at any later time, several times or never, and a slow signer  *)
(* is a slow network.  A call the client refuses does nothing.                *)
(* Platform, token contract and clocks are external.                         *)
EXTENDS Integers, FiniteSets

CONSTANTS
    Orders,      \* what payees ask money for
    Keyed,       \* the orders charged with an idempotency key
    Mailed,      \* the orders charged over an email thread
    Challenges,  \* identifiers the platform may give
    Payers,      \* the signing keys
    Drift,       \* how far the clock of a payer is ahead
    Lifetimes,   \* expires_in, in seconds
    Overrides,   \* windows that callers of the signing functions ask for
    Skew, Margin, MaxWindow, MinHeadroom,
    Horizon,     \* bound: the clock stops here
    MaxSigned,   \* bound: how often the payers sign
    None

Pins == [after : Int \union {None}, before : Int \union {None}, clamp : BOOLEAN]
NoPins == [after |-> None, before |-> None, clamp |-> TRUE]

ASSUME OrderAssumption == Keyed \subseteq Orders /\ Mailed \subseteq Orders
ASSUME NoneAssumption == None \notin Int \union Orders
ASSUME BoundAssumption == Horizon \in Nat /\ MaxSigned \in Nat
ASSUME OptionAssumption == Lifetimes \subseteq Nat /\ Overrides \subseteq Pins \ {NoPins}

\* The constants of the code: 300, 300, 86400 and 60 seconds.
ASSUME WindowAssumption ==
    /\ Skew \in Nat /\ Margin \in Nat /\ MaxWindow \in Nat /\ MinHeadroom \in Nat \ {0}
    /\ MinHeadroom <= Margin /\ Skew + Margin <= MaxWindow

\* The clocks the default window is made for.
ASSUME DriftAssumption ==
    Drift \in [Payers -> {d \in Int : d < Skew /\ -d <= Margin - MinHeadroom}]

VARIABLES
    now,      \* true time
    issued,   \* the platform's challenges
    handed,   \* the copies of them that payers can get at
    signed,   \* the authorizations payers have signed
    settled   \* the transfers on chain

vars == <<now, issued, handed, signed, settled>>

\* A challenge is answered to the payee's call, mailed to the payer, or both;
\* identifiers in the two may differ in letter case.
Copies == {"answer", "part"}

NoChallenge == [order |-> None, expires |-> None]
Exists(c) == issued[c] # NoChallenge

-----------------------------------------------------------------------------
(* Signing.                                                                  *)

\* NonceBinding: the interaction, the challenge step and the challenge's own
\* random value, as a copy spells them.
NonceBinding(c, copy) ==
    [interaction |-> issued[c].order, step |-> c, random |-> c, spelling |-> copy]

\* With a bug: identifiers are hashed as they are spelled.
DeriveAsSpelled(binding) == binding

\* DeriveEIP3009Nonce: a hash of the lowercased identifiers and the random value.
DeriveEIP3009Nonce(binding) ==
    [interaction |-> binding.interaction, step |-> binding.step, random |-> binding.random]

NoWindow == [after |-> None, before |-> None]

\* With a bug: the cap is counted from now, as if the window began there.
WindowCappedFromNow(expires, clock, pins) ==
    LET after == clock - Skew
        raw == expires + Margin
    IN [after |-> after,
        before |-> IF raw > clock + MaxWindow THEN clock + MaxWindow ELSE raw]

\* ComputePaymentValidityWindow: expiry plus margin, moved into the band from
\* `floor` to `ceiling`, or no window.
ComputePaymentValidityWindow(expires, clock, pins) ==
    LET after == IF pins.after = None THEN clock - Skew ELSE pins.after
        raw == IF pins.before = None THEN expires + Margin ELSE pins.before
        floor == clock + MinHeadroom
        ceiling == after + MaxWindow
        outside == raw < floor \/ raw > ceiling
        before == IF raw < floor THEN floor ELSE IF raw > ceiling THEN ceiling ELSE raw
    IN  IF (~pins.clamp /\ pins.before # None /\ outside) \/ before <= after
          THEN NoWindow
          ELSE [after |-> after, before |-> before]

\* SignInteractionPayment and the payload around it; `at`, `clock` and `pins`
\* are history.
Authorization(p, c, copy, pins, window) ==
    [from |-> p, challenge |-> c, nonce |-> DeriveEIP3009Nonce(NonceBinding(c, copy)),
     after |-> window.after, before |-> window.before,
     at |-> now, clock |-> now + Drift[p], pins |-> pins]

Sign(p, c, copy, pins) ==
    LET window == ComputePaymentValidityWindow(issued[c].expires, now + Drift[p], pins)
    IN  /\ <<c, copy>> \in handed
        /\ Cardinality(signed) < MaxSigned
        /\ window # NoWindow
        /\ signed' = signed \union {Authorization(p, c, copy, pins, window)}
        /\ UNCHANGED <<now, issued, handed, settled>>

-----------------------------------------------------------------------------
(* The payee.                                                                *)

Init ==
    /\ now = 0
    /\ issued = [c \in Challenges |-> NoChallenge]
    /\ handed = {}
    /\ signed = {}
    /\ settled = {}

\* The platform gives a new challenge; one it gave for the same key before
\* comes back instead.
Issued(o, c, keyed) ==
    IF keyed /\ \E d \in Challenges : issued[d].order = o
      THEN issued[c].order = o /\ UNCHANGED issued
      ELSE /\ ~Exists(c)
           /\ \E life \in Lifetimes :
                 issued' = [issued EXCEPT ![c] = [order |-> o, expires |-> now + life]]

\* The answer reaches the payee, who hands it to payers, or it is lost.
Answered(c) == handed' = handed \/ handed' = handed \union {<<c, "answer">>}

\* With a bug: the key of the order is not sent.
ChargeWithoutKey(o, c) ==
    /\ o \notin Mailed
    /\ Issued(o, c, FALSE) /\ Answered(c)
    /\ UNCHANGED <<now, signed, settled>>

\* Charge, called for the first time or again.
Charge(o, c) ==
    /\ o \notin Mailed
    /\ Issued(o, c, o \in Keyed) /\ Answered(c)
    /\ UNCHANGED <<now, signed, settled>>

\* CreateEmailChallenge: the platform also mails what it issued, which is
\* another way to the payer.
CreateEmailChallenge(o, c) ==
    /\ o \in Mailed
    /\ Issued(o, c, o \in Keyed) /\ Answered(c)
    /\ UNCHANGED <<now, signed, settled>>

\* The mail arrives, and ExtractEmailChallenge finds the challenge in it.
ExtractEmailChallenge(c) ==
    /\ Exists(c) /\ issued[c].order \in Mailed
    /\ handed' = handed \union {<<c, "part">>}
    /\ UNCHANGED <<now, issued, signed, settled>>

-----------------------------------------------------------------------------
(* The payer.                                                                *)

\* With a bug: the end of the window, margin included, is taken for expires_at.
StillValid(p, c) == issued[c].expires + Margin > now + Drift[p]

\* Pay and PayEmailChallenge refuse a challenge past its expires_at.
NotExpired(p, c) == issued[c].expires > now + Drift[p]

\* Pay: a challenge that came as the answer to Charge.
Pay(p, c) ==
    /\ Exists(c) /\ issued[c].order \notin Mailed
    /\ NotExpired(p, c)
    /\ Sign(p, c, "answer", NoPins)

\* PayEmailChallenge, on either copy of a mailed challenge.
PayEmailChallenge(p, c, copy) ==
    /\ Exists(c) /\ issued[c].order \in Mailed
    /\ NotExpired(p, c)
    /\ Sign(p, c, copy, NoPins)

\* A caller of the signing functions asks for a window of its own.
SignInteractionPayment(p, c, copy, pins) ==
    /\ Exists(c)
    /\ Sign(p, c, copy, pins)

-----------------------------------------------------------------------------
(* The platform and the token contract.                                      *)

\* What the platform recomputes from its own record.
BoundNonce(c) == [interaction |-> issued[c].order, step |-> c, random |-> c]

\* The contract moves the money inside the window, once for a payer's nonce.
\* That the platform also looks at the state of a challenge is not needed.
Settle(a) ==
    /\ a \in signed
    /\ a.nonce = BoundNonce(a.challenge)
    /\ a.after < now /\ now < a.before
    /\ \A t \in settled : t.from = a.from => t.nonce # a.nonce
    /\ settled' = settled \union
                    {[from |-> a.from, challenge |-> a.challenge, nonce |-> a.nonce,
                      pins |-> a.pins, at |-> now]}
    /\ UNCHANGED <<now, issued, handed, signed>>

Tick ==
    /\ now < Horizon
    /\ now' = now + 1
    /\ UNCHANGED <<issued, handed, signed, settled>>

Next ==
    \/ \E o \in Orders, c \in Challenges : Charge(o, c) \/ CreateEmailChallenge(o, c)
    \/ \E c \in Challenges : ExtractEmailChallenge(c)
    \/ \E p \in Payers, c \in Challenges : Pay(p, c)
    \/ \E p \in Payers, c \in Challenges, copy \in Copies :
         \/ PayEmailChallenge(p, c, copy)
         \/ \E pins \in Overrides : SignInteractionPayment(p, c, copy, pins)
    \/ \E a \in signed : Settle(a)
    \/ Tick

Spec == Init /\ [][Next]_vars

-----------------------------------------------------------------------------
Nonces == [interaction : Orders, step : Challenges, random : Challenges]

TypeOK ==
    /\ now \in 0..Horizon
    /\ issued \in [Challenges -> [order : Orders, expires : Nat] \union {NoChallenge}]
    /\ handed \subseteq Challenges \X Copies
    /\ signed \subseteq [from : Payers, challenge : Challenges, nonce : Nonces,
                         after : Int, before : Int, at : Nat, clock : Int, pins : Pins]
    /\ settled \subseteq [from : Payers, challenge : Challenges, nonce : Nonces,
                          pins : Pins, at : Nat]

\* An order charged with an idempotency key takes a payer's money once, however
\* often its charge and its payment are repeated after answers that were lost,
\* and whichever of its authorizations arrive: "retrying with the same key
\* returns the original challenge instead of creating a duplicate"
\* (x402.go:1095-1097) and the bound nonce, together.
OrderPaidOnce ==
    \A t, u \in settled :
        t.from = u.from /\ issued[t.challenge].order = issued[u.challenge].order
            /\ issued[t.challenge].order \in Keyed
          => t = u

\* All a payer signs for one challenge, from either copy and at any time, has
\* one nonce, so that at most one of it can ever move money; what is signed for
\* two challenges never shares one (x402.go:115-126).
OneNoncePerChallenge ==
    \A a, b \in signed : a.nonce = b.nonce <=> a.challenge = b.challenge

\* A payer that left the window to the SDK is not charged after the challenge's
\* expires_at and the settlement margin, however late the authorization is
\* delivered and whatever its clock says: the check looks at expires_at "itself,
\* NOT validBefore" (x402.go:1468-1470).
NothingSettlesLate ==
    \A t \in settled : t.pins = NoPins => t.at < issued[t.challenge].expires + Margin

\* What Pay signs can be settled when it is signed, by the contract's clock and
\* not only by the payer's, and is at no time open for longer than the cap:
\* "a caller who does not override always gets a signable window"
\* (x402.go:405-406), the cap of x402.go:355-361.
SignedCanSettle ==
    \A a \in signed : a.pins = NoPins =>
        a.after < a.at /\ a.at + MinHeadroom <= a.before /\ a.before - a.after <= MaxWindow

\* Without clamping, a pinned bound is signed as it was pinned or not at all,
\* and only inside the band: "it never silently signs a window other than the
\* one requested" (x402.go:458-459).
PinnedAsAsked ==
    \A a \in signed : ~a.pins.clamp /\ a.pins.before # None =>
        /\ a.before = a.pins.before
        /\ a.clock + MinHeadroom <= a.before
        /\ a.before - a.after <= MaxWindow
=============================================================================
