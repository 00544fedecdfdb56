---------------------------- MODULE MailDelivery ----------------------------
(* What the mail store, the chat command and the listeners of the sessions  *)
(* promise together: an email has one reader at a time, and keeps the one   *)
(* that showed it; a command shows an email only while it is the command's, *)
(* a session gets at most one turn for it; and a send is posted once.       *)
CONSTANTS
    Emails,
    Requests,  \* the sends' keys, which also name the waits of the commands
    Sessions,
    None

VARIABLES
    reader,   \* who each email is given to
    skipped,  \* the emails that a session got and will not be told of
    shown,    \* the replies that a command showed
    turns,    \* the turns started for each email
    posts     \* how often each send was posted

vars == <<reader, skipped, shown, turns, posts>>

Readers ==
    [kind : {"wait"}, to : Requests] \union [kind : {"notification"}, to : Sessions]
Nobody == [kind |-> "none", to |-> None]

Init ==
    /\ reader = [e \in Emails |-> Nobody]
    /\ skipped = {} /\ shown = {}
    /\ turns = [e \in Emails |-> 0]
    /\ posts = [r \in Requests |-> 0]

Give(e, r) ==
    /\ reader[e] = Nobody
    /\ reader' = [reader EXCEPT ![e] = r]
    /\ UNCHANGED <<skipped, shown, turns, posts>>

\* Only a session gives an email back, and none that it may have seen.
GiveBack(e) ==
    /\ reader[e].kind = "notification" /\ e \notin skipped /\ turns[e] = 0
    /\ reader' = [reader EXCEPT ![e] = Nobody]
    /\ UNCHANGED <<skipped, shown, turns, posts>>

Skip(e) ==
    /\ reader[e].kind = "notification" /\ turns[e] = 0
    /\ skipped' = skipped \union {e}
    /\ UNCHANGED <<reader, shown, turns, posts>>

StartTurn(e) ==
    /\ reader[e].kind = "notification" /\ e \notin skipped /\ turns[e] = 0
    /\ turns' = [turns EXCEPT ![e] = 1]
    /\ UNCHANGED <<reader, skipped, shown, posts>>

Show(e) ==
    /\ reader[e].kind = "wait"
    /\ shown' = shown \union {e}
    /\ UNCHANGED <<reader, skipped, turns, posts>>

Post(r) ==
    /\ posts[r] = 0
    /\ posts' = [posts EXCEPT ![r] = 1]
    /\ UNCHANGED <<reader, skipped, shown, turns>>

Next ==
    \/ \E e \in Emails :
         \/ \E r \in Readers : Give(e, r)
         \/ GiveBack(e) \/ Skip(e) \/ StartTurn(e) \/ Show(e)
    \/ \E r \in Requests : Post(r)

Spec == Init /\ [][Next]_vars
=============================================================================
