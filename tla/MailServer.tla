----------------------------- MODULE MailServer -----------------------------
(* The mail service as src/cli-node uses it: it takes sends under a key,     *)
(* delivers replies, and hands received emails to the shared receiver, which *)
(* puts them into the store.  Only mail that passes authentication is        *)
(* modelled, since both readers of the store drop anything else.             *)
EXTENDS SharedMailStore

VARIABLES
    outcome,  \* what became of the send with this key
    sentAs,   \* the email it was accepted as
    mail      \* the emails that have arrived, with their true details

serverVars == <<outcome, sentAs, mail>>

ServerInit ==
    /\ outcome = [r \in Requests |-> "none"]
    /\ sentAs = [r \in Requests |-> None]
    /\ mail = [e \in Emails |-> NoDetails]

\* A send under a key the service knows is the same send (Idempotency-Key).
Take(key) ==
    /\ outcome' = [outcome EXCEPT ![key] = IF @ = "none" THEN "posted" ELSE @]
    /\ UNCHANGED <<sentAs, mail>>

Accept(key) ==
    /\ outcome[key] = "posted"
    /\ \E s \in Sends \ {sentAs[r] : r \in Requests} : sentAs' = [sentAs EXCEPT ![key] = s]
    /\ outcome' = [outcome EXCEPT ![key] = "accepted"]
    /\ UNCHANGED <<mail, vars>>

Refuse(key) ==
    /\ outcome[key] = "posted"
    /\ outcome' = [outcome EXCEPT ![key] = "refused"]
    /\ UNCHANGED <<sentAs, mail, vars>>

\* An email arrives, of its own accord or in reply to a send that went out.
Arrive(e) ==
    /\ mail[e] = NoDetails
    /\ \E peer \in Peers, thread \in OrNone(Threads), parent \in OrNone({sentAs[r] : r \in Requests}) :
         mail' = [mail EXCEPT ![e] =
             [peer |-> peer, parent |-> parent, thread |-> thread, auth |-> "trusted"]]
    /\ UNCHANGED <<outcome, sentAs, vars>>

\* The shared receiver ingests an email of the subscription.
Receive(e) ==
    /\ mail[e] # NoDetails
    /\ \E v \in Events : Ingest(v, e)
    /\ UNCHANGED serverVars

ServerNext ==
    \/ \E key \in Requests : Accept(key) \/ Refuse(key)
    \/ \E e \in Emails : Arrive(e) \/ Receive(e)
=============================================================================
