----------------------------- MODULE EventRelay -----------------------------
(***************************************************************************)
(* What the transactional outbox promises: an event the database has       *)
(* committed is owed to the broker until it has been relayed, copies of it *)
(* may reach the broker more than once, and it counts as relayed only when *)
(* one of them did.  An event that was never committed is never sent.      *)
(***************************************************************************)
EXTENDS Naturals

CONSTANT Events

VARIABLES
    state,   \* state[e]: "absent", "owed" or "relayed"
    copies   \* copies[e]: how often the broker took the event, 2 for several

relayVars == <<state, copies>>

Init ==
    /\ state = [e \in Events |-> "absent"]
    /\ copies = [e \in Events |-> 0]

\* The transaction that produced the event commits.
Commit(e) ==
    /\ state[e] = "absent"
    /\ state' = [state EXCEPT ![e] = "owed"]
    /\ UNCHANGED copies

\* At-least-once delivery: the broker may take another copy at any time.
Deliver(e) ==
    /\ state[e] # "absent"
    /\ copies' = [copies EXCEPT ![e] = IF @ = 2 THEN 2 ELSE @ + 1]
    /\ UNCHANGED state

Settle(e) ==
    /\ state[e] = "owed"
    /\ copies[e] > 0
    /\ state' = [state EXCEPT ![e] = "relayed"]
    /\ UNCHANGED copies

\* A dispatcher whose claim was taken over puts an event back that another one
\* has relayed.
Reopen(e) ==
    /\ state[e] = "relayed"
    /\ state' = [state EXCEPT ![e] = "owed"]
    /\ UNCHANGED copies

Next == \E e \in Events : Commit(e) \/ Deliver(e) \/ Settle(e) \/ Reopen(e)

Spec == Init /\ [][Next]_relayVars
=============================================================================
