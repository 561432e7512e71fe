------------------------------- MODULE Outbox -------------------------------
(***************************************************************************)
(* The transactional outbox: producers insert event documents, cron ticks  *)
(* of one or more dispatcher processes claim them one by one, publish them *)
(* to RabbitMQ with publisher confirms and mark them published or          *)
(* reschedule them with a backoff, and a cron reaper frees the documents   *)
(* that stay in "publishing" for too long.                                 *)
(*                                                                         *)
(* Sources: common/outbox/outbox.service.ts, outbox.dispatcher.ts,         *)
(* outbox.schema.ts, and RabbitService.publish as tick() calls it.         *)
(*                                                                         *)
(* A document is abstracted to the fields its handlers read: status,       *)
(* attempts, nextAttemptAt (kept as the time that is left until then) and  *)
(* lockedAt (kept as the age of the lock).  lockedBy is written and never  *)
(* read, so it is left out.                                                *)
(***************************************************************************)
EXTENDS Naturals, Sequences

CONSTANTS
    Events,       \* event documents, numbered in the order of their createdAt
    DedupeKey,    \* the dedupeKey of each event, NoKey where it has none
    NoKey,
    Ticks,        \* invocations of tick() that can be under way at one time
    MaxAttempts,  \* the literal 10 of claimBatch
    BatchLimit,   \* 200, the limit tick() passes to claimBatch
    BackoffBase,  \* BASE_BACKOFF_MS, in units of the clock
    BackoffCap,   \* 5 * MILLISECONDS_PER_MINUTE, in units of the clock
    StuckAfter,   \* the reaper's olderThanMs, in units of the clock
    MaxLosses     \* bound: how many ticks die before they end

ASSUME EventsAssumption == Events \subseteq Nat
ASSUME LimitsAssumption ==
    /\ MaxAttempts \in Nat \ {0}
    /\ BatchLimit \in Nat \ {0}
    /\ BackoffCap \in Nat
    /\ StuckAfter \in Nat
    /\ MaxLosses \in Nat

VARIABLES
    status,     \* status[e]: the document's status, "absent" before the insert
    attempts,   \* attempts[e]: the counter that $inc raises
    wait,       \* wait[e]: time left until nextAttemptAt
    lockAge,    \* lockAge[e]: time since lockedAt, while "publishing"
    stage,      \* stage[t]: where tick t stands
    batch,      \* batch[t]: what tick t has claimed and not finished
    late,       \* events with a frame on the wire that no tick waits for any more
    copies,     \* copies[e]: copies the broker has taken, 2 for several (history)
    recovered,  \* events the reaper has freed at least once (history)
    losses      \* ticks that died so far

docVars  == <<status, attempts, wait, lockAge>>
tickVars == <<stage, batch>>
wireVars == <<late, copies>>
vars == <<docVars, tickVars, wireVars, recovered, losses>>

Status == {"absent", "pending", "publishing", "published"}

\* "publishing": publish() is called for the head of the batch and the broker has
\* no copy yet; "accepted": the broker has it.
Stage == {"idle", "claiming", "publishing", "accepted"}

\* What claimBatch returns of a document: its id and the attempts it had then.
Claim == [event : Events, attempts : Nat]

TypeOK ==
    /\ status \in [Events -> Status]
    /\ attempts \in [Events -> Nat]
    /\ wait \in [Events -> 0..BackoffCap]
    /\ lockAge \in [Events -> 0..StuckAfter]
    /\ stage \in [Ticks -> Stage]
    /\ batch \in [Ticks -> Seq(Claim)]
    /\ late \in SUBSET Events
    /\ copies \in [Events -> 0..2]
    /\ recovered \in SUBSET Events
    /\ losses \in 0..MaxLosses

Init ==
    /\ status = [e \in Events |-> "absent"]
    /\ attempts = [e \in Events |-> 0]
    /\ wait = [e \in Events |-> 0]
    /\ lockAge = [e \in Events |-> 0]
    /\ stage = [t \in Ticks |-> "idle"]
    /\ batch = [t \in Ticks |-> << >>]
    /\ late = {}
    /\ copies = [e \in Events |-> 0]
    /\ recovered = {}
    /\ losses = 0

-----------------------------------------------------------------------------
(* Producers *)

\* The unique sparse index on dedupeKey refuses a second document with the key.
DedupeFree(e) ==
    \/ DedupeKey[e] = NoKey
    \/ \A f \in Events : status[f] # "absent" => DedupeKey[f] # DedupeKey[e]

\* addEventInTx and enqueueEvent, at the commit of the caller's transaction if
\* there is one.  A refused insert returns null and changes nothing.
Enqueue(e) ==
    /\ status[e] = "absent"
    /\ DedupeFree(e)
    /\ status' = [status EXCEPT ![e] = "pending"]
    /\ attempts' = [attempts EXCEPT ![e] = 0]
    /\ wait' = [wait EXCEPT ![e] = 0]
    /\ UNCHANGED <<lockAge, tickVars, wireVars, recovered, losses>>

-----------------------------------------------------------------------------
(* claimBatch *)

\* Mutations of Eligible: the status filter lets locked documents through; the
\* attempts filter is gone.
EligibleUnlocked(e) ==
    status[e] \in {"pending", "publishing"} /\ wait[e] = 0 /\ attempts[e] < MaxAttempts
EligibleForEver(e) == status[e] = "pending" /\ wait[e] = 0

Eligible(e) == status[e] = "pending" /\ wait[e] = 0 /\ attempts[e] < MaxAttempts

\* sort: { createdAt: 1 }
Oldest(e) == \A f \in Events : Eligible(f) => e <= f

StartTick(t) ==
    /\ stage[t] = "idle"
    /\ stage' = [stage EXCEPT ![t] = "claiming"]
    /\ UNCHANGED <<docVars, batch, wireVars, recovered, losses>>

\* One findOneAndUpdate of the loop; every one of them is atomic, the loop is not.
ClaimOne(t) ==
    /\ stage[t] = "claiming"
    /\ Len(batch[t]) < BatchLimit
    /\ \E e \in Events :
        /\ Eligible(e)
        /\ Oldest(e)
        /\ status' = [status EXCEPT ![e] = "publishing"]
        /\ lockAge' = [lockAge EXCEPT ![e] = 0]
        /\ batch' = [batch EXCEPT
                        ![t] = Append(@, [event |-> e, attempts |-> attempts[e]])]
    /\ UNCHANGED <<attempts, wait, stage, wireVars, recovered, losses>>

\* The loop ends: at its limit, or when nothing is due.
EndClaim(t) ==
    /\ stage[t] = "claiming"
    /\ Len(batch[t]) = BatchLimit \/ \A e \in Events : ~Eligible(e)
    /\ stage' = [stage EXCEPT ![t] = IF batch[t] = << >> THEN "idle" ELSE "publishing"]
    /\ UNCHANGED <<docVars, batch, wireVars, recovered, losses>>

-----------------------------------------------------------------------------
(* rabbit.publish for the head of the batch, then markPublished or reschedule *)

Current(t) == Head(batch[t]).event

\* Copies are counted up to two, which stands for "more than one".
OneMore(n) == IF n = 2 THEN 2 ELSE n + 1

BrokerAccepts(t) ==
    /\ stage[t] = "publishing"
    /\ stage' = [stage EXCEPT ![t] = "accepted"]
    /\ copies' = [copies EXCEPT ![Current(t)] = OneMore(@)]
    /\ UNCHANGED <<docVars, batch, late, recovered, losses>>

\* The for loop of tick() goes to the next event, or the tick ends.
NextOfBatch(t) ==
    /\ batch' = [batch EXCEPT ![t] = Tail(@)]
    /\ stage' = [stage EXCEPT ![t] = IF Len(batch[t]) = 1 THEN "idle" ELSE "publishing"]

\* Mutation of MarkPublished: publish() does not wait for the confirm.
MarkUnconfirmed(t) ==
    /\ stage[t] \in {"publishing", "accepted"}
    /\ status' = [status EXCEPT ![Current(t)] = "published"]
    /\ lockAge' = [lockAge EXCEPT ![Current(t)] = 0]
    /\ NextOfBatch(t)
    /\ UNCHANGED <<attempts, wait, wireVars, recovered, losses>>

\* waitForConfirms resolves in time and markPublished updates the document by _id
\* alone: whatever its status is by now.
MarkPublished(t) ==
    /\ stage[t] = "accepted"
    /\ status' = [status EXCEPT ![Current(t)] = "published"]
    /\ lockAge' = [lockAge EXCEPT ![Current(t)] = 0]
    /\ NextOfBatch(t)
    /\ UNCHANGED <<attempts, wait, wireVars, recovered, losses>>

\* Mutation of Backoff: the cap is forgotten.
UncappedBackoff(n) == 2^n * BackoffBase

\* min(5 min, 2^attempts * BASE_BACKOFF_MS)
Backoff(n) ==
    LET delay == 2^n * BackoffBase
    IN  IF delay \in 0..BackoffCap THEN delay ELSE BackoffCap

\* What a tick leaves behind when it stops waiting for the broker: the frame was
\* never written or is lost with the connection, or it arrives later.  Bound: one
\* such frame of an event is on the wire at a time.
Abandon(t) ==
    \/ late' = late
    \/ /\ stage[t] = "publishing"
       /\ Current(t) \notin late
       /\ late' = late \cup {Current(t)}

\* Mutation of Reschedule: the tick goes on with the event it gave back.
RescheduleAndKeep(t) ==
    /\ stage[t] \in {"publishing", "accepted"}
    /\ status' = [status EXCEPT ![Current(t)] = "pending"]
    /\ wait' = [wait EXCEPT ![Current(t)] = Backoff(Head(batch[t]).attempts)]
    /\ attempts' = [attempts EXCEPT ![Current(t)] = @ + 1]
    /\ lockAge' = [lockAge EXCEPT ![Current(t)] = 0]
    /\ stage' = [stage EXCEPT ![t] = "publishing"]
    /\ Abandon(t)
    /\ UNCHANGED <<batch, copies, recovered, losses>>

\* Mutation of Reschedule: the failure is swallowed and the event left as done.
SwallowFailure(t) ==
    /\ stage[t] \in {"publishing", "accepted"}
    /\ status' = [status EXCEPT ![Current(t)] = "published"]
    /\ lockAge' = [lockAge EXCEPT ![Current(t)] = 0]
    /\ Abandon(t)
    /\ NextOfBatch(t)
    /\ UNCHANGED <<attempts, wait, copies, recovered, losses>>

\* The catch block: publish() rejected (no connection, the channel closed, the 10 s
\* confirm timeout won the race), or markPublished did, whether or not the broker
\* has the copy.  The update is by _id alone; the delay comes from the attempts
\* that the claim returned, the counter from the document.
Reschedule(t) ==
    /\ stage[t] \in {"publishing", "accepted"}
    /\ status' = [status EXCEPT ![Current(t)] = "pending"]
    /\ wait' = [wait EXCEPT ![Current(t)] = Backoff(Head(batch[t]).attempts)]
    /\ attempts' = [attempts EXCEPT ![Current(t)] = @ + 1]
    /\ lockAge' = [lockAge EXCEPT ![Current(t)] = 0]
    /\ Abandon(t)
    /\ NextOfBatch(t)
    /\ UNCHANGED <<copies, recovered, losses>>

\* The process dies, or claimBatch or reschedule throws out of tick(): what the
\* tick claimed and did not finish stays "publishing".
LoseTick(t) ==
    /\ stage[t] # "idle"
    /\ losses < MaxLosses
    /\ losses' = losses + 1
    /\ stage' = [stage EXCEPT ![t] = "idle"]
    /\ batch' = [batch EXCEPT ![t] = << >>]
    /\ Abandon(t)
    /\ UNCHANGED <<docVars, copies, recovered>>

\* A frame that outlived its publish() call reaches the broker after all.
LateArrival(e) ==
    /\ e \in late
    /\ late' = late \ {e}
    /\ copies' = [copies EXCEPT ![e] = OneMore(@)]
    /\ UNCHANGED <<docVars, tickVars, recovered, losses>>

-----------------------------------------------------------------------------
(* The reaper and the clock *)

\* Mutation of Recover: a threshold no lock ever passes.
RecoverNever(e) ==
    /\ status[e] = "publishing"
    /\ lockAge[e] > StuckAfter
    /\ status' = [status EXCEPT ![e] = "pending"]
    /\ lockAge' = [lockAge EXCEPT ![e] = 0]
    /\ recovered' = recovered \cup {e}
    /\ UNCHANGED <<attempts, wait, tickVars, wireVars, losses>>

\* recoverStuckPublishing: updateMany changes one document at a time.
Recover(e) ==
    /\ status[e] = "publishing"
    /\ lockAge[e] = StuckAfter
    /\ status' = [status EXCEPT ![e] = "pending"]
    /\ lockAge' = [lockAge EXCEPT ![e] = 0]
    /\ recovered' = recovered \cup {e}
    /\ UNCHANGED <<attempts, wait, tickVars, wireVars, losses>>

\* One unit of time: backoffs run down, locks grow older (up to StuckAfter).
Elapse ==
    /\ wait' = [e \in Events |-> IF wait[e] = 0 THEN 0 ELSE wait[e] - 1]
    /\ lockAge' = [e \in Events |->
                      IF status[e] = "publishing" /\ lockAge[e] < StuckAfter
                      THEN lockAge[e] + 1
                      ELSE lockAge[e]]
    /\ <<wait, lockAge>>' # <<wait, lockAge>>
    /\ UNCHANGED <<status, attempts, tickVars, wireVars, recovered, losses>>

-----------------------------------------------------------------------------
\* The steps a tick takes by itself once cron has started it.
TickStep(t) ==
    \/ ClaimOne(t)
    \/ EndClaim(t)
    \/ BrokerAccepts(t)
    \/ MarkPublished(t)
    \/ Reschedule(t)

Next ==
    \/ \E e \in Events : Enqueue(e) \/ LateArrival(e) \/ Recover(e)
    \/ \E t \in Ticks : StartTick(t) \/ TickStep(t) \/ LoseTick(t)
    \/ Elapse

Spec == Init /\ [][Next]_vars

\* Cron starts ticks and the reaper for ever, every call a tick awaits returns or
\* rejects (publish has its timeout), and time passes.  Nothing says that an
\* event is enqueued, that a publish succeeds or that a tick survives.
Fairness ==
    /\ \A t \in Ticks : WF_vars(StartTick(t)) /\ WF_vars(TickStep(t))
    /\ \A e \in Events : WF_vars(Recover(e))
    /\ WF_vars(Elapse)

FairSpec == Spec /\ Fairness

-----------------------------------------------------------------------------
(* Properties *)

\* An event is "published" only if the broker took at least one copy of it: no
\* crash, timeout or second claimer may make the outbox forget an unsent event.
PublishedWasAccepted ==
    \A e \in Events : status[e] = "published" => copies[e] > 0

\* outbox.schema.ts calls lockedBy and lockedAt a soft lock against double claims:
\* until the reaper breaks it, one place of one tick's batch holds the event.
SingleHolder ==
    \A e \in Events \ recovered :
        \A t, u \in Ticks : \A i \in DOMAIN batch[t], j \in DOMAIN batch[u] :
            batch[t][i].event = e /\ batch[u][j].event = e => t = u /\ i = j

\* An event that no attempt failed for and that the reaper never freed reaches the
\* broker once: overlapping ticks and processes alone never send an event twice.
DuplicatesAccounted ==
    \A e \in Events :
        attempts[e] = 0 /\ e \notin recovered
            => copies[e] = 0 \/ (copies[e] = 1 /\ e \notin late)

\* attempts passes the limit of claimBatch only when the reaper gave the document
\* to a second tick while a first one still worked on it.
OverrunOnlyByRecovery ==
    \A e \in Events : attempts[e] > MaxAttempts => e \in recovered

\* Published, or left for good in "pending" with its attempts used up.
Settled(e) ==
    \/ status[e] = "published"
    \/ status[e] = "pending" /\ attempts[e] >= MaxAttempts

\* Every stored event settles in the end, and stays so: no lost tick, no
\* timeout and no race of two ticks leaves it in "publishing" or goes round
\* for ever.
EventuallySettled ==
    \A e \in Events : status[e] # "absent" ~> [](Settled(e))

\* outbox.schema.ts: "states: pending -> publishing -> published".
PublishedIsFinal ==
    [][\A e \in Events : status[e] = "published" => status'[e] = "published"]_vars

\* How far an event is, as its producers see it: owed to the broker until a tick
\* has marked it.
RelayState ==
    [e \in Events |-> IF status[e] \in {"pending", "publishing"} THEN "owed"
                     ELSE IF status[e] = "published" THEN "relayed"
                     ELSE "absent"]

Relay == INSTANCE EventRelay WITH state <- RelayState

\* The outbox implements the promise of EventRelay: at-least-once relaying of what
\* was committed, and of nothing else.
RelaySpec == Relay!Spec
=============================================================================
