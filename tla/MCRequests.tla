----------------------------- MODULE MCRequests -----------------------------
(***************************************************************************)
(* What must end, on small instances: the requests that a chat makes, and  *)
(* the publishes that wait for a connection to RabbitMQ.  They share no    *)
(* state here, so that checking them together means checking each by       *)
(* itself: a behaviour is one of the part that its initial state names,    *)
(* the other at rest.                                                      *)
(***************************************************************************)
EXTENDS MCChatIntake, RabbitConnection

VARIABLE part

requestVars == <<part, vars, rabbitVars>>

RequestsInit ==
    /\ part \in {"chat", "connection"}
    /\ Init
    /\ part = "connection" => mode.tx /\ kind[m2] = "text"
    /\ \/ part = "connection" /\ RabbitInit
       \/ part = "chat" /\ Unconnected /\ attempt = "none"

RequestsNext ==
    \/ part = "chat" /\ Next /\ UNCHANGED <<part, rabbitVars>>
    \/ part = "connection" /\ RabbitNext /\ UNCHANGED <<part, vars>>

\* The connection at rest has no step to be fair to.
RequestsSpec ==
    /\ RequestsInit
    /\ [][RequestsNext]_requestVars
    /\ part = "chat" => Fairness
    /\ RabbitFairness
=============================================================================
