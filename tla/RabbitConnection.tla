-------------------------- MODULE RabbitConnection --------------------------
(***************************************************************************)
(* RabbitService in one process: the fields conn and ch, the attempt to    *)
(* connect that all callers share, the recorded subscriptions, which a new *)
(* connection applies again, and the callers of publish and subscribe.     *)
(* Every await lets the other callers and the close events in.             *)
(*                                                                         *)
(* Source: infra/rabbit/rabbit.service.ts.  amqplib and the broker are     *)
(* what that file sees of them.                                            *)
(*                                                                         *)
(* A connection has one channel, and both have one number here.  What sets *)
(* up a queue (its exchange, dead letters and binding) is one call.        *)
(***************************************************************************)
EXTENDS Naturals, FiniteSets

CONSTANTS
    Records,      \* subscriptions, each by one call of subscribe
    Publishes,    \* callers of publish, one call after another
    MaxFaults     \* bound: what the broker refuses or closes

ASSUME CallersAreDistinct == Records \cap Publishes = {}
ASSUME FaultsAssumption == MaxFaults \in Nat

None == 0                          \* undefined
Connections == 1..(MaxFaults + 1)  \* in the order of their opening
Channels == Connections
Attempt == "attempt"               \* connectWithRetry, as one that applies subscriptions
Appliers == Records \cup {Attempt}

ASSUME AttemptAssumption == Attempt \notin Records

VARIABLES
    conn,        \* this.conn
    ch,          \* this.ch
    opened,      \* connections so far
    open,        \* connections that are open
    channel,     \* channel[c]: "none", "open" or "closed"
    consumers,   \* at the broker: <<channel, record, who consumed>>
    recorded,    \* this.subscriptions
    tag,         \* tag[r]: rec.consumerTag, {} or one of the consumers
    started,     \* onModuleInit is over, on which the modules that use the service wait
    attempt,     \* where connectWithRetry is, see AttemptStage
    applied,     \* the records it has applied
    apply,       \* apply[a]: the applySubscription that a runs
    caller,      \* caller[x]: where a call of publish or subscribe is
    gaveUp,      \* an attempt was given up on a connection that was open (history)
    crossed,     \* records that two applied at once (history)
    faults

fieldVars == <<conn, ch, started>>
brokerVars == <<opened, open, channel, consumers>>
applyVars == <<tag, applied, apply, crossed>>
rabbitVars == <<fieldVars, brokerVars, recorded, applyVars, attempt, caller,
                gaveUp, faults>>

AttemptStage == {"none", "connect", "channel", "topology", "apply", "sleep"}
Call == {"idle", "wait", "assert", "confirm", "apply", "ok", "failed"}
Consumer == Channels \X Records \X Appliers

RabbitTypeOK ==
    /\ {conn, ch} \subseteq Connections \cup {None}
    /\ opened \in 0..(MaxFaults + 1)
    /\ open \subseteq 1..opened
    /\ channel \in [Channels -> {"none", "open", "closed"}]
    /\ consumers \subseteq Consumer
    /\ recorded \subseteq Records
    /\ tag \in [Records -> {{}} \cup {{c} : c \in Consumer}]
    /\ started \in BOOLEAN
    /\ attempt \in AttemptStage
    /\ applied \subseteq recorded
    /\ apply \in [Appliers -> [at : {"idle", "queue", "cancel", "consume"},
                               on : Channels \cup {None}, rec : SUBSET recorded]]
    /\ caller \in [Records \cup Publishes -> [at : Call, on : Channels \cup {None}]]
    /\ gaveUp \in BOOLEAN
    /\ crossed \subseteq Records
    /\ faults \in 0..MaxFaults

NotApplying == [at |-> "idle", on |-> None, rec |-> {}]

\* Nothing connected, nobody called.
Unconnected ==
    /\ conn = None
    /\ ch = None
    /\ opened = 0
    /\ open = {}
    /\ channel = [c \in Channels |-> "none"]
    /\ consumers = {}
    /\ recorded = {}
    /\ tag = [r \in Records |-> {}]
    /\ started = FALSE
    /\ applied = {}
    /\ apply = [a \in Appliers |-> NotApplying]
    /\ caller = [x \in Records \cup Publishes |-> [at |-> "idle", on |-> None]]
    /\ gaveUp = FALSE
    /\ crossed = {}
    /\ faults = 0

\* onModuleInit connects.
RabbitInit == Unconnected /\ attempt = "connect"

-----------------------------------------------------------------------------
(* Helpers *)

Connected == ch # None /\ conn # None
Usable(c) == c # None /\ channel[c] = "open"
CallAt(x, at, on) == caller' = [caller EXCEPT ![x] = [at |-> at, on |-> on]]

\* applySubscription(rec) begins, on the channel that this.ch is now.
StartApply(a, r) ==
    /\ apply' = [apply EXCEPT ![a] = [at |-> "queue", on |-> ch, rec |-> {r}]]
    /\ crossed' = IF \E b \in Appliers \ {a} : apply[b].rec = {r}
                  THEN crossed \cup {r} ELSE crossed

\* ensureConnected: the caller goes on, waits for the attempt, or starts one.
EnsureConnected(x, next) ==
    IF Connected THEN CallAt(x, next, IF next = "apply" THEN None ELSE ch) /\ UNCHANGED <<attempt, applied>>
    ELSE /\ CallAt(x, "wait", None)
         /\ IF attempt = "none"
            THEN attempt' = "connect" /\ applied' = {}
            ELSE UNCHANGED <<attempt, applied>>

\* The catch block of connectWithRetry: what was opened is not closed.
GiveUp ==
    /\ attempt' = "sleep"
    /\ gaveUp' = (gaveUp \/ opened \in open)

-----------------------------------------------------------------------------
(* publish and subscribe *)

Publish(p) ==
    /\ p \in Publishes
    /\ started
    /\ caller[p].at \in {"idle", "ok", "failed"}
    /\ EnsureConnected(p, "assert")
    /\ UNCHANGED <<fieldVars, brokerVars, recorded, tag, apply, crossed, gaveUp, faults>>

\* The record is kept, whatever comes of it.
Subscribe(r) ==
    /\ r \in Records
    /\ started
    /\ caller[r].at = "idle"
    /\ recorded' = recorded \cup {r}
    /\ EnsureConnected(r, "apply")
    /\ IF Connected THEN StartApply(r, r) ELSE UNCHANGED <<apply, crossed>>
    /\ UNCHANGED <<fieldVars, brokerVars, tag, gaveUp, faults>>

\* The attempt is over.  The caller takes this.ch, which may be gone again.
Wake(x) ==
    /\ caller[x].at = "wait"
    /\ attempt = "none"
    /\ \/ ch = None /\ CallAt(x, "failed", None) /\ UNCHANGED <<apply, crossed>>
       \/ ch # None /\ x \in Publishes /\ CallAt(x, "assert", ch)
          /\ UNCHANGED <<apply, crossed>>
       \/ ch # None /\ x \in Records /\ CallAt(x, "apply", None) /\ StartApply(x, x)
    /\ UNCHANGED <<fieldVars, brokerVars, recorded, tag, attempt, applied, gaveUp, faults>>

\* The exchange is asserted and the message written; then its confirm is awaited.
\* A channel that is closed throws.
Send(p) ==
    /\ caller[p].at = "assert"
    /\ IF Usable(caller[p].on) THEN CallAt(p, "confirm", caller[p].on)
                               ELSE CallAt(p, "failed", None)
    /\ UNCHANGED <<fieldVars, brokerVars, recorded, applyVars, attempt, gaveUp, faults>>

\* The confirm or its timeout.
Confirm(p) ==
    /\ caller[p].at = "confirm"
    /\ \/ Usable(caller[p].on) /\ CallAt(p, "ok", None)
       \/ CallAt(p, "failed", None)
    /\ UNCHANGED <<fieldVars, brokerVars, recorded, applyVars, attempt, gaveUp, faults>>

-----------------------------------------------------------------------------
(* connectWithRetry *)

Connect ==
    /\ attempt = "connect"
    /\ opened < MaxFaults + 1
    /\ opened' = opened + 1
    /\ open' = open \cup {opened + 1}
    /\ conn' = opened + 1
    /\ attempt' = "channel"
    /\ applied' = {}
    /\ UNCHANGED <<ch, started, channel, consumers, recorded, tag, apply, crossed, caller,
                   gaveUp, faults>>

CreateChannel ==
    /\ attempt = "channel"
    /\ IF opened \in open
       THEN /\ ch' = opened
            /\ channel' = [channel EXCEPT ![opened] = "open"]
            /\ attempt' = "topology"
            /\ UNCHANGED gaveUp
       ELSE GiveUp /\ UNCHANGED <<ch, channel>>
    /\ UNCHANGED <<conn, started, opened, open, consumers, recorded, applyVars, caller,
                   faults>>

\* Prefetch and the default exchanges, on this.ch.
AssertTopology ==
    /\ attempt = "topology"
    /\ IF Usable(ch) THEN attempt' = "apply" /\ UNCHANGED gaveUp ELSE GiveUp
    /\ UNCHANGED <<fieldVars, brokerVars, recorded, applyVars, caller, faults>>

\* The loop over the subscriptions, with those recorded meanwhile.
ApplyNext ==
    /\ attempt = "apply"
    /\ apply[Attempt].at = "idle"
    /\ \E r \in recorded \ applied :
         IF ch = None
         THEN GiveUp /\ UNCHANGED applyVars
         ELSE /\ StartApply(Attempt, r)
              /\ applied' = applied \cup {r}
              /\ UNCHANGED <<tag, attempt, gaveUp>>
    /\ UNCHANGED <<fieldVars, brokerVars, recorded, caller, faults>>

\* The callers that wait go on.
ConnectDone ==
    /\ attempt = "apply"
    /\ apply[Attempt].at = "idle"
    /\ applied = recorded
    /\ attempt' = "none"
    /\ started' = TRUE
    /\ UNCHANGED <<conn, ch, brokerVars, recorded, applyVars, caller, gaveUp, faults>>

\* Mutation of Retry: only what never had a connection is tried again.
RetryFirst ==
    /\ attempt = "sleep"
    /\ opened = 0
    /\ attempt' = "connect"
    /\ UNCHANGED <<fieldVars, brokerVars, recorded, applyVars, caller, gaveUp, faults>>

Retry ==
    /\ attempt = "sleep"
    /\ attempt' = "connect"
    /\ UNCHANGED <<fieldVars, brokerVars, recorded, applyVars, caller, gaveUp, faults>>

-----------------------------------------------------------------------------
(* applySubscription, for a call of subscribe or for the attempt *)

\* It ends, and so does what it was for.
EndApply(a, result) ==
    /\ apply' = [apply EXCEPT ![a] = NotApplying]
    /\ IF a = Attempt
       THEN /\ UNCHANGED caller
            /\ IF result = "ok" THEN UNCHANGED <<attempt, gaveUp>> ELSE GiveUp
       ELSE CallAt(a, result, None) /\ UNCHANGED <<attempt, gaveUp>>

\* The exchange and queue are set up; a consumer that the record has is cancelled.
PrepareQueue(a) ==
    /\ apply[a].at = "queue"
    /\ IF Usable(apply[a].on)
       THEN /\ \E r \in apply[a].rec :
                 apply' = [apply EXCEPT ![a].at = IF tag[r] = {} THEN "consume" ELSE "cancel"]
            /\ UNCHANGED <<attempt, caller, gaveUp>>
       ELSE EndApply(a, "failed")
    /\ UNCHANGED <<fieldVars, brokerVars, recorded, tag, applied, crossed, faults>>

\* Mutation of CancelOld: the consumer stays.
KeepOld(a) ==
    /\ apply[a].at = "cancel"
    /\ apply' = [apply EXCEPT ![a].at = "consume"]
    /\ UNCHANGED <<fieldVars, brokerVars, recorded, tag, applied, crossed, attempt, caller,
                   gaveUp, faults>>

\* A channel cancels its own consumers only; errors are ignored.
CancelOld(a) ==
    /\ apply[a].at = "cancel"
    /\ \E r \in apply[a].rec :
         consumers' = consumers \ {c \in tag[r] : c[1] = apply[a].on}
    /\ apply' = [apply EXCEPT ![a].at = "consume"]
    /\ UNCHANGED <<fieldVars, opened, open, channel, recorded, tag, applied, crossed,
                   attempt, caller, gaveUp, faults>>

\* Mutation of Consume: the tag of the old consumer is kept with the new one.
ConsumeBeside(a) ==
    /\ apply[a].at = "consume"
    /\ Usable(apply[a].on)
    /\ \E r \in apply[a].rec :
         /\ consumers' = consumers \cup {<<apply[a].on, r, a>>}
         /\ tag' = [tag EXCEPT ![r] = @ \cup {<<apply[a].on, r, a>>}]
    /\ EndApply(a, "ok")
    /\ UNCHANGED <<fieldVars, opened, open, channel, recorded, applied, crossed, faults>>

Consume(a) ==
    /\ apply[a].at = "consume"
    /\ IF Usable(apply[a].on)
       THEN /\ \E r \in apply[a].rec :
                 /\ consumers' = consumers \cup {<<apply[a].on, r, a>>}
                 /\ tag' = [tag EXCEPT ![r] = {<<apply[a].on, r, a>>}]
            /\ EndApply(a, "ok")
       ELSE EndApply(a, "failed") /\ UNCHANGED <<consumers, tag>>
    /\ UNCHANGED <<fieldVars, opened, open, channel, recorded, applied, crossed, faults>>

-----------------------------------------------------------------------------
(* The broker *)

ConnectFails ==
    /\ faults < MaxFaults
    /\ attempt = "connect"
    /\ attempt' = "sleep"
    /\ faults' = faults + 1
    /\ UNCHANGED <<fieldVars, brokerVars, recorded, applyVars, caller, gaveUp>>

\* The close event of a connection clears the fields, of whichever connection they are.
ConnectionCloses(c) ==
    /\ faults < MaxFaults
    /\ c \in open
    /\ open' = open \ {c}
    /\ channel' = [channel EXCEPT ![c] = IF @ = "open" THEN "closed" ELSE @]
    /\ consumers' = {x \in consumers : x[1] # c}
    /\ conn' = None
    /\ ch' = None
    /\ faults' = faults + 1
    /\ UNCHANGED <<started, opened, recorded, applyVars, attempt, caller, gaveUp>>

\* A queue that is not there, other arguments than it has, an acknowledgement that takes
\* too long: the broker closes the channel and leaves the connection.  The event is
\* logged, the fields stay.
ChannelCloses(c) ==
    /\ faults < MaxFaults
    /\ channel[c] = "open"
    /\ channel' = [channel EXCEPT ![c] = "closed"]
    /\ consumers' = {x \in consumers : x[1] # c}
    /\ faults' = faults + 1
    /\ UNCHANGED <<fieldVars, opened, open, recorded, applyVars, attempt, caller, gaveUp>>

-----------------------------------------------------------------------------
ApplyStep(a) == PrepareQueue(a) \/ CancelOld(a) \/ Consume(a)
AttemptStep == Connect \/ CreateChannel \/ AssertTopology \/ ApplyNext \/ ConnectDone \/ Retry
PublishStep(p) == Wake(p) \/ Send(p) \/ Confirm(p)

RabbitNext ==
    \/ \E p \in Publishes : Publish(p) \/ PublishStep(p)
    \/ \E r \in Records : Subscribe(r) \/ Wake(r)
    \/ AttemptStep
    \/ \E a \in Appliers : ApplyStep(a)
    \/ ConnectFails
    \/ \E c \in Connections : ConnectionCloses(c) \/ ChannelCloses(c)

RabbitSpec == RabbitInit /\ [][RabbitNext]_rabbitVars

\* Timers fire, and the broker answers whatever it does not refuse.
RabbitFairness ==
    /\ WF_rabbitVars(AttemptStep)
    /\ \A a \in Appliers : WF_rabbitVars(ApplyStep(a))
    /\ \A p \in Publishes : WF_rabbitVars(PublishStep(p))
    /\ \A r \in Records : WF_rabbitVars(Wake(r))

RabbitFairSpec == RabbitSpec /\ RabbitFairness

-----------------------------------------------------------------------------
(* Properties *)

ConsumersOf(r) == {c \in consumers : c[2] = r}
Applying(r) == caller[r].at = "wait" \/ \E a \in Appliers : apply[a].rec = {r}

\* A process that could publish also consumes: once no attempt is under way, every
\* recorded subscription has a consumer on the open channel.
OpenChannelConsumes ==
    Connected /\ Usable(ch) /\ attempt = "none" =>
        \A r \in recorded : Applying(r) \/ \E c \in ConsumersOf(r) : c[1] = ch

\* No message is handled twice by one process: a subscription has one consumer, unless
\* subscribe and an attempt applied it at once, or an attempt was given up while its
\* connection was open, which nothing closes.
OneConsumer ==
    \A r \in Records : Cardinality(ConsumersOf(r)) <= 1 \/ r \in crossed \/ gaveUp

\* Every subscription is served, and once.
SubscriptionsAreServed == OpenChannelConsumes /\ OneConsumer

\* Once the broker stays, every publish ends, the one that waits for a connection too.
EveryPublishEnds ==
    \A p \in Publishes : caller[p].at = "wait" ~> caller[p].at \in {"ok", "failed"}
=============================================================================
