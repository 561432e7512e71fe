---------------------------- MODULE OutboxProofs ----------------------------
(***************************************************************************)
(* Proofs about the outbox, for any number of events and ticks and any     *)
(* limits.                                                                 *)
(***************************************************************************)
EXTENDS Outbox, TLAPS

-----------------------------------------------------------------------------
(* Sequences: what a batch is after a claim and after an event is done. *)

LEMMA AppendElements ==
    ASSUME NEW S, NEW s \in Seq(S), NEW c \in S
    PROVE  /\ Append(s, c) \in Seq(S)
           /\ Append(s, c) # << >>
           /\ \A i \in DOMAIN Append(s, c) :
                 \/ i \in DOMAIN s /\ Append(s, c)[i] = s[i]
                 \/ i = Len(s) + 1 /\ Append(s, c)[i] = c
<1>1. Len(Append(s, c)) = Len(s) + 1 /\ Len(s) \in Nat
    OBVIOUS
<1>2. DOMAIN Append(s, c) = 1..(Len(s) + 1) /\ DOMAIN s = 1..Len(s)
    BY <1>1
<1>3. \A i \in 1..Len(s) : Append(s, c)[i] = s[i]
    OBVIOUS
<1>4. Append(s, c)[Len(s) + 1] = c
    OBVIOUS
<1> QED BY <1>1, <1>2, <1>3, <1>4

LEMMA TailElements ==
    ASSUME NEW S, NEW s \in Seq(S), s # << >>
    PROVE  /\ Tail(s) \in Seq(S)
           /\ Head(s) = s[1]
           /\ 1 \in DOMAIN s
           /\ Len(s) # 1 => Tail(s) # << >>
           /\ Len(s) = 1 => Tail(s) = << >>
           /\ \A i \in DOMAIN Tail(s) : /\ i \in Nat \ {0}
                                        /\ i + 1 \in DOMAIN s
                                        /\ Tail(s)[i] = s[i + 1]
<1>1. Tail(s) \in Seq(S) /\ Head(s) = s[1]
    OBVIOUS
<1>2. Len(s) \in Nat \ {0} /\ DOMAIN s = 1..Len(s)
    OBVIOUS
<1>3. Len(Tail(s)) = Len(s) - 1 /\ DOMAIN Tail(s) = 1..(Len(s) - 1)
    BY <1>1, <1>2
<1>4. \A i \in 1..(Len(s) - 1) : Tail(s)[i] = s[i + 1]
    BY <1>2
<1>5. Len(s) = 1 => Tail(s) = << >>
    BY <1>1, <1>3
<1>6. Len(s) # 1 => Tail(s) # << >>
  <2>1. Len(s) # 1 => Len(Tail(s)) # 0
    BY <1>2, <1>3
  <2> QED BY <2>1
<1> QED BY <1>1, <1>2, <1>3, <1>4, <1>5, <1>6

LEMMA ClaimInBatch ==
    ASSUME NEW s \in Seq(Claim), NEW i \in DOMAIN s
    PROVE  s[i] \in Claim /\ s[i].event \in Events
<1>1. s[i] \in Claim
    OBVIOUS
<1> QED BY <1>1 DEF Claim

LEMMA BackoffType == \A n : Backoff(n) \in 0..BackoffCap
    BY LimitsAssumption DEF Backoff

LEMMA OneMoreType == \A n \in 0..2 : OneMore(n) \in 0..2 /\ OneMore(n) > 0
    BY DEF OneMore

-----------------------------------------------------------------------------
(* The inductive invariant *)

\* A tick has work exactly while it is busy with it.
StageMatchesBatch ==
    \A t \in Ticks :
        /\ stage[t] = "idle" => batch[t] = << >>
        /\ stage[t] \in {"publishing", "accepted"} => batch[t] # << >>

\* Whatever is claimed, on the wire or at the broker has been stored.
OnlyStored ==
    /\ \A t \in Ticks : \A i \in DOMAIN batch[t] : status[batch[t][i].event] # "absent"
    /\ \A e \in Events : e \in late \/ copies[e] > 0 => status[e] # "absent"

\* The copy a tick waits to see confirmed is counted.
AcceptedCounted == \A t \in Ticks : stage[t] = "accepted" => copies[Current(t)] > 0

\* Until the reaper frees it, whoever holds an event holds its lock too, and the
\* attempt it makes is one the claim allowed.
HolderHasLock ==
    \A e \in Events \ recovered :
        /\ attempts[e] <= MaxAttempts
        /\ \A t \in Ticks : \A i \in DOMAIN batch[t] :
              batch[t][i].event = e
                  => status[e] = "publishing" /\ attempts[e] < MaxAttempts

\* Where the one copy of an event may be, as long as no attempt failed and the
\* reaper left it alone: nowhere before the claim, nowhere while the tick that
\* holds it has not sent it.
FirstCopyOf(e) ==
    /\ copies[e] = 0 \/ (copies[e] = 1 /\ e \notin late)
    /\ status[e] \in {"absent", "pending"} => copies[e] = 0 /\ e \notin late
    /\ \A t \in Ticks : \A i \in DOMAIN batch[t] :
          batch[t][i].event = e
              => /\ e \notin late
                 /\ copies[e] = 0 \/ (i = 1 /\ stage[t] = "accepted")

FirstCopy == \A e \in Events \ recovered : attempts[e] = 0 => FirstCopyOf(e)

Inv ==
    /\ TypeOK
    /\ StageMatchesBatch
    /\ OnlyStored
    /\ AcceptedCounted
    /\ PublishedWasAccepted
    /\ SingleHolder
    /\ HolderHasLock
    /\ FirstCopy
-----------------------------------------------------------------------------
(* Type correctness *)

LEMMA InitType == Init => TypeOK
    BY LimitsAssumption DEF Init, TypeOK, Status, Stage

LEMMA StepType == TypeOK /\ StageMatchesBatch /\ [Next]_vars => TypeOK'
<1> SUFFICES ASSUME TypeOK, StageMatchesBatch, [Next]_vars PROVE TypeOK'
    OBVIOUS
<1> USE LimitsAssumption DEF Status, Stage, TypeOK, docVars, tickVars, wireVars
<1>1. ASSUME NEW e \in Events, Enqueue(e) PROVE TypeOK'
    BY <1>1 DEF Enqueue
<1>2. ASSUME NEW e \in Events, LateArrival(e) PROVE TypeOK'
  <2>1. copies[e] \in 0..2 /\ OneMore(copies[e]) \in 0..2
    BY OneMoreType
  <2> QED BY <1>2, <2>1 DEF LateArrival
<1>3. ASSUME NEW e \in Events, Recover(e) PROVE TypeOK'
    BY <1>3 DEF Recover
<1>4. ASSUME NEW t \in Ticks, StartTick(t) PROVE TypeOK'
    BY <1>4 DEF StartTick
<1>5. ASSUME NEW t \in Ticks, ClaimOne(t) PROVE TypeOK'
  <2>1. PICK e \in Events :
            /\ status' = [status EXCEPT ![e] = "publishing"]
            /\ lockAge' = [lockAge EXCEPT ![e] = 0]
            /\ batch' = [batch EXCEPT
                            ![t] = Append(@, [event |-> e, attempts |-> attempts[e]])]
    BY <1>5 DEF ClaimOne
  <2>2. batch' \in [Ticks -> Seq(Claim)]
    BY <2>1, AppendElements DEF Claim
  <2> QED BY <1>5, <2>1, <2>2 DEF ClaimOne
<1>6. ASSUME NEW t \in Ticks, EndClaim(t) PROVE TypeOK'
    BY <1>6 DEF EndClaim
<1>7. ASSUME NEW t \in Ticks, stage[t] \in {"publishing", "accepted"}
      PROVE  Current(t) \in Events /\ batch[t] # << >>
    BY <1>7, TailElements, ClaimInBatch DEF StageMatchesBatch, Current
<1>8. ASSUME NEW t \in Ticks, NextOfBatch(t), batch[t] # << >>
      PROVE  batch' \in [Ticks -> Seq(Claim)] /\ stage' \in [Ticks -> Stage]
    BY <1>8, TailElements DEF NextOfBatch
<1>9. ASSUME NEW t \in Ticks, BrokerAccepts(t) PROVE TypeOK'
  <2>1. Current(t) \in Events
    BY <1>7, <1>9 DEF BrokerAccepts
  <2>2. OneMore(copies[Current(t)]) \in 0..2
    BY <2>1, OneMoreType
  <2> QED BY <1>9, <2>1, <2>2 DEF BrokerAccepts
<1>10. ASSUME NEW t \in Ticks, MarkPublished(t) PROVE TypeOK'
    BY <1>10, <1>7, <1>8 DEF MarkPublished
<1>11. ASSUME NEW t \in Ticks, Reschedule(t) PROVE TypeOK'
    BY SMTT(30), <1>11, <1>7, <1>8, BackoffType DEF Reschedule, Abandon
<1>12. ASSUME NEW t \in Ticks, LoseTick(t) PROVE TypeOK'
    BY <1>12, <1>7 DEF LoseTick, Abandon
<1>13. CASE Elapse
    BY SMTT(30), <1>13 DEF Elapse
<1>14. CASE UNCHANGED vars
    BY <1>14 DEF vars
<1> QED
    BY <1>1, <1>2, <1>3, <1>4, <1>5, <1>6, <1>9, <1>10, <1>11, <1>12, <1>13, <1>14
    DEF Next, TickStep

-----------------------------------------------------------------------------
(* How the batches change *)

LEMMA BusyTick ==
    ASSUME TypeOK, StageMatchesBatch,
           NEW t \in Ticks, stage[t] \in {"publishing", "accepted"}
    PROVE  /\ batch[t] \in Seq(Claim)
           /\ batch[t] # << >>
           /\ 1 \in DOMAIN batch[t]
           /\ Current(t) = batch[t][1].event
           /\ Current(t) \in Events
    BY TailElements, ClaimInBatch DEF TypeOK, StageMatchesBatch, Current

\* An entry of a batch after NextOfBatch(t) was there before, one place later if the
\* batch is t's own.
LEMMA NextOfBatchEntries ==
    ASSUME TypeOK, NEW t \in Ticks, batch[t] # << >>, NextOfBatch(t),
           NEW u \in Ticks, NEW i \in DOMAIN batch'[u]
    PROVE  \/ u # t /\ i \in DOMAIN batch[u] /\ batch'[u] = batch[u] /\ stage'[u] = stage[u]
           \/ /\ u = t /\ i \in Nat \ {0} /\ i + 1 \in DOMAIN batch[t]
              /\ batch'[t][i] = batch[t][i + 1]
    BY TailElements DEF NextOfBatch, TypeOK

\* NextOfBatch(t) keeps a tick's stage in step with its batch.
LEMMA NextOfBatchStages ==
    ASSUME TypeOK, StageMatchesBatch, NEW t \in Ticks, batch[t] # << >>, NextOfBatch(t)
    PROVE  /\ StageMatchesBatch'
           /\ \A u \in Ticks : stage'[u] = "accepted"
                 => u # t /\ stage[u] = "accepted" /\ batch'[u] = batch[u]
    BY TailElements DEF NextOfBatch, TypeOK, StageMatchesBatch, Stage

-----------------------------------------------------------------------------
(* The invariant is inductive *)

LEMMA InitInv == Init => Inv
    BY InitType, LimitsAssumption
    DEF Init, Inv, StageMatchesBatch, OnlyStored, AcceptedCounted, PublishedWasAccepted,
        SingleHolder, HolderHasLock, FirstCopy, FirstCopyOf

\* With SingleHolder: no entry that is left holds the event that is done, as long as
\* the reaper has not touched it.
LEMMA NextOfBatchForgets ==
    ASSUME TypeOK, StageMatchesBatch, SingleHolder,
           NEW t \in Ticks, stage[t] \in {"publishing", "accepted"}, NextOfBatch(t),
           NEW u \in Ticks, NEW i \in DOMAIN batch'[u],
           batch'[u][i].event \notin recovered
    PROVE  batch'[u][i].event # Current(t)
<1>1. /\ batch[t] # << >> /\ 1 \in DOMAIN batch[t]
      /\ Current(t) = batch[t][1].event /\ Current(t) \in Events
    BY BusyTick
<1>2. CASE u # t /\ i \in DOMAIN batch[u] /\ batch'[u] = batch[u]
    BY <1>1, <1>2 DEF SingleHolder
<1>3. CASE u = t /\ i \in Nat \ {0} /\ i + 1 \in DOMAIN batch[t]
           /\ batch'[t][i] = batch[t][i + 1]
    BY <1>1, <1>3 DEF SingleHolder
<1> QED BY <1>1, <1>2, <1>3, NextOfBatchEntries

LEMMA NextOfBatchSingle ==
    ASSUME TypeOK, StageMatchesBatch, SingleHolder,
           NEW t \in Ticks, batch[t] # << >>, NextOfBatch(t), UNCHANGED recovered
    PROVE  SingleHolder'
<1> SUFFICES ASSUME NEW e \in Events \ recovered, NEW u \in Ticks, NEW v \in Ticks,
                    NEW i \in DOMAIN batch'[u], NEW j \in DOMAIN batch'[v],
                    batch'[u][i].event = e, batch'[v][j].event = e
             PROVE  u = v /\ i = j
    BY DEF SingleHolder
<1> DEFINE Before(w, k) == IF w = t THEN k + 1 ELSE k
<1>1. /\ Before(u, i) \in DOMAIN batch[u] /\ batch[u][Before(u, i)].event = e
      /\ i \in Nat \/ u # t
    BY NextOfBatchEntries
<1>2. /\ Before(v, j) \in DOMAIN batch[v] /\ batch[v][Before(v, j)].event = e
      /\ j \in Nat \/ v # t
    BY NextOfBatchEntries
<1>3. u = v /\ Before(u, i) = Before(v, j)
    BY <1>1, <1>2 DEF SingleHolder
<1> QED BY <1>1, <1>2, <1>3

LEMMA StepInv == Inv /\ [Next]_vars => Inv'
<1> SUFFICES ASSUME Inv, [Next]_vars PROVE Inv'
    OBVIOUS
<1>0. TypeOK'
    BY StepType DEF Inv
<1> DEFINE Rest == /\ StageMatchesBatch
                   /\ OnlyStored
                   /\ AcceptedCounted
                   /\ PublishedWasAccepted
                   /\ SingleHolder
                   /\ HolderHasLock
                   /\ FirstCopy
<1> USE LimitsAssumption, <1>0 DEF Inv, docVars, tickVars, wireVars
<1>1. ASSUME NEW e \in Events, Enqueue(e) PROVE Rest'
    BY SMTT(30), <1>1, ClaimInBatch DEF Enqueue, StageMatchesBatch, OnlyStored, AcceptedCounted, TypeOK, Current,
        PublishedWasAccepted, SingleHolder, HolderHasLock, FirstCopy, FirstCopyOf
<1>2. ASSUME NEW e \in Events, LateArrival(e) PROVE Rest'
  <2> USE <1>2 DEF LateArrival
  <2>1. StageMatchesBatch' /\ SingleHolder' /\ HolderHasLock'
    BY DEF StageMatchesBatch, SingleHolder, HolderHasLock
  <2>2. \A f \in Events : /\ copies'[f] = IF f = e THEN OneMore(copies[e]) ELSE copies[f]
                          /\ f \in late' <=> f \in late /\ f # e
                          /\ copies[f] > 0 => copies'[f] > 0
                          /\ copies[f] \in 0..2 /\ copies[f] = 0 => OneMore(copies[f]) = 1
    BY OneMoreType DEF TypeOK, OneMore
  <2>3. OnlyStored' /\ PublishedWasAccepted'
    BY <2>2 DEF OnlyStored, PublishedWasAccepted
  <2>4. AcceptedCounted'
    BY <2>2, BusyTick DEF AcceptedCounted, Current
  <2>5. FirstCopy'
    BY <2>2 DEF FirstCopy, FirstCopyOf, TypeOK
  <2> QED BY <2>1, <2>3, <2>4, <2>5
<1>3. ASSUME NEW e \in Events, Recover(e) PROVE Rest'
    BY SMTT(30), <1>3 DEF Recover, StageMatchesBatch, OnlyStored, AcceptedCounted, TypeOK, Current,
        PublishedWasAccepted, SingleHolder, HolderHasLock, FirstCopy, FirstCopyOf
<1>4. ASSUME NEW t \in Ticks, StartTick(t) PROVE Rest'
    BY <1>4 DEF StartTick, StageMatchesBatch, OnlyStored, AcceptedCounted, TypeOK, Current,
        PublishedWasAccepted, SingleHolder, HolderHasLock, FirstCopy, FirstCopyOf
<1>5. ASSUME NEW t \in Ticks, ClaimOne(t) PROVE Rest'
  <2>1. PICK e \in Events :
            /\ Eligible(e)
            /\ status' = [status EXCEPT ![e] = "publishing"]
            /\ batch' = [batch EXCEPT
                            ![t] = Append(@, [event |-> e, attempts |-> attempts[e]])]
    BY <1>5 DEF ClaimOne
  <2> DEFINE c == [event |-> e, attempts |-> attempts[e]]
  <2>2. /\ stage[t] = "claiming" /\ UNCHANGED <<attempts, stage, late, copies, recovered>>
        /\ status[e] = "pending" /\ attempts[e] < MaxAttempts
    BY <1>5, <2>1 DEF ClaimOne, Eligible
  <2>3. \A f \in Events : status'[f] = IF f = e THEN "publishing" ELSE status[f]
    BY <2>1 DEF TypeOK
  <2>4. \A u \in Ticks : u # t => batch'[u] = batch[u]
    BY <2>1 DEF TypeOK
  <2>5. /\ batch'[t] # << >>
        /\ \A i \in DOMAIN batch'[t] :
              \/ i \in DOMAIN batch[t] /\ batch'[t][i] = batch[t][i]
              \/ i = Len(batch[t]) + 1 /\ batch'[t][i].event = e
    <3>1. batch[t] \in Seq(Claim) /\ c \in Claim /\ batch'[t] = Append(batch[t], c)
      BY <2>1 DEF TypeOK, Claim
    <3> QED BY <3>1, AppendElements
  <2>6. e \notin recovered => \A u \in Ticks : \A i \in DOMAIN batch[u] : batch[u][i].event # e
    BY <2>2 DEF HolderHasLock
  <2>7. StageMatchesBatch' /\ PublishedWasAccepted'
    BY <2>2, <2>3, <2>4 DEF StageMatchesBatch, PublishedWasAccepted
  <2>8. OnlyStored'
    <3>1. \A f \in Events : status[f] # "absent" => status'[f] # "absent"
      BY <2>3
    <3>2. ASSUME NEW u \in Ticks, NEW i \in DOMAIN batch'[u]
          PROVE  status'[batch'[u][i].event] # "absent"
      <4>1. CASE i \in DOMAIN batch[u] /\ batch'[u][i] = batch[u][i]
        <5>1. batch[u][i].event \in Events /\ status[batch[u][i].event] # "absent"
          BY <4>1, ClaimInBatch DEF OnlyStored, TypeOK
        <5> QED BY <3>1, <4>1, <5>1
      <4>2. CASE batch'[u][i].event = e
        BY <2>3, <4>2
      <4> QED BY <2>4, <2>5, <4>1, <4>2
    <3> QED BY <2>2, <3>1, <3>2 DEF OnlyStored
  <2>9. AcceptedCounted'
    BY <2>2, <2>4 DEF AcceptedCounted, Current
  <2>10. SingleHolder'
    BY <2>2, <2>4, <2>5, <2>6 DEF SingleHolder
  <2>11. HolderHasLock'
    BY <2>2, <2>3, <2>4, <2>5, <2>6 DEF HolderHasLock
  <2>12. FirstCopy'
    <3> SUFFICES ASSUME NEW f \in Events \ recovered, attempts[f] = 0
                 PROVE  FirstCopyOf(f)'
      BY <2>2 DEF FirstCopy
    <3>1. FirstCopyOf(f)
      BY DEF FirstCopy
    <3> QED BY <2>2, <2>3, <2>4, <2>5, <2>6, <3>1 DEF FirstCopyOf
  <2> QED BY <2>7, <2>8, <2>9, <2>10, <2>11, <2>12
<1>6. ASSUME NEW t \in Ticks, EndClaim(t) PROVE Rest'
    BY <1>6 DEF EndClaim, StageMatchesBatch, OnlyStored, AcceptedCounted, TypeOK, Current,
        PublishedWasAccepted, SingleHolder, HolderHasLock, FirstCopy, FirstCopyOf
<1>9. ASSUME NEW t \in Ticks, BrokerAccepts(t) PROVE Rest'
  <2> USE <1>9 DEF BrokerAccepts
  <2>0. /\ Current(t) \in Events /\ Current(t) = batch[t][1].event
        /\ 1 \in DOMAIN batch[t] /\ batch[t] # << >>
    BY BusyTick
  <2>1. StageMatchesBatch' /\ SingleHolder' /\ HolderHasLock'
    BY <2>0 DEF StageMatchesBatch, SingleHolder, HolderHasLock, TypeOK
  <2>2. \A f \in Events : /\ f # Current(t) => copies'[f] = copies[f]
                          /\ f = Current(t) => copies'[f] > 0
                          /\ copies[f] > 0 => copies'[f] > 0
                          /\ f = Current(t) /\ copies[f] = 0 => copies'[f] = 1
    BY <2>0, OneMoreType DEF TypeOK, OneMore
  <2>3. OnlyStored' /\ PublishedWasAccepted'
    BY <2>0, <2>2 DEF OnlyStored, PublishedWasAccepted
  <2>4. AcceptedCounted'
    BY <2>0, <2>2, BusyTick DEF AcceptedCounted, Current, TypeOK
  <2>5. FirstCopy'
    <3> SUFFICES ASSUME NEW f \in Events \ recovered, attempts[f] = 0
                 PROVE  FirstCopyOf(f)'
      BY DEF FirstCopy
    <3>1. FirstCopyOf(f)
      BY DEF FirstCopy
    <3>2. CASE f = Current(t)
      <4>1. f \notin late /\ copies[f] = 0 /\ status[f] = "publishing"
        BY <2>0, <3>1, <3>2 DEF FirstCopyOf, HolderHasLock
      <4>2. \A u \in Ticks : \A i \in DOMAIN batch[u] :
                batch[u][i].event = f => u = t /\ i = 1
        BY <2>0, <3>2 DEF SingleHolder
      <4> QED BY <2>0, <2>2, <3>2, <4>1, <4>2 DEF FirstCopyOf, TypeOK
    <3>3. CASE f # Current(t)
      BY <2>0, <2>2, <3>1, <3>3 DEF FirstCopyOf, TypeOK
    <3> QED BY <3>2, <3>3
  <2> QED BY <2>1, <2>3, <2>4, <2>5
<1>10. ASSUME NEW t \in Ticks, MarkPublished(t) PROVE Rest'
  <2> USE <1>10 DEF MarkPublished
  <2>0. /\ Current(t) \in Events /\ Current(t) = batch[t][1].event
        /\ 1 \in DOMAIN batch[t] /\ batch[t] # << >>
    BY BusyTick
  <2>1. \A f \in Events : status'[f] = IF f = Current(t) THEN "published" ELSE status[f]
    BY <2>0 DEF TypeOK
  <2>2. StageMatchesBatch' /\ SingleHolder'
    BY <2>0, NextOfBatchStages, NextOfBatchSingle
  <2>3. OnlyStored'
    BY SMTT(30), <2>0, <2>1, NextOfBatchEntries, ClaimInBatch DEF OnlyStored, TypeOK
  <2>4. AcceptedCounted'
    BY <2>0, NextOfBatchStages DEF AcceptedCounted, Current
  <2>5. PublishedWasAccepted'
    BY <2>0, <2>1 DEF PublishedWasAccepted, AcceptedCounted
  <2>6. \A f \in Events \ recovered : \A u \in Ticks : \A i \in DOMAIN batch'[u] :
            batch'[u][i].event = f => f # Current(t)
    BY NextOfBatchForgets
  <2>7. HolderHasLock'
    BY <2>0, <2>1, <2>6, NextOfBatchEntries DEF HolderHasLock
  <2>8. FirstCopy'
    <3> SUFFICES ASSUME NEW f \in Events \ recovered, attempts[f] = 0
                 PROVE  FirstCopyOf(f)'
      BY DEF FirstCopy
    <3>1. FirstCopyOf(f)
      BY DEF FirstCopy
    <3> QED BY <2>0, <2>1, <2>6, <3>1, NextOfBatchEntries DEF FirstCopyOf
  <2> QED BY <2>2, <2>3, <2>4, <2>5, <2>7, <2>8
<1>11. ASSUME NEW t \in Ticks, Reschedule(t) PROVE Rest'
  <2> USE <1>11 DEF Reschedule
  <2>0. /\ Current(t) \in Events /\ Current(t) = batch[t][1].event
        /\ 1 \in DOMAIN batch[t] /\ batch[t] # << >>
    BY BusyTick
  <2>1. \A f \in Events :
           /\ status'[f] = IF f = Current(t) THEN "pending" ELSE status[f]
           /\ attempts'[f] = IF f = Current(t) THEN attempts[f] + 1 ELSE attempts[f]
           /\ f # Current(t) => (f \in late' <=> f \in late)
    BY <2>0 DEF TypeOK, Abandon
  <2>2. StageMatchesBatch' /\ SingleHolder'
    BY <2>0, NextOfBatchStages, NextOfBatchSingle
  <2>3. OnlyStored'
    <3>1. \A f \in Events : status[f] # "absent" => status'[f] # "absent"
      BY <2>1
    <3>2. ASSUME NEW u \in Ticks, NEW i \in DOMAIN batch'[u]
          PROVE  status'[batch'[u][i].event] # "absent"
      <4>0. \/ i \in DOMAIN batch[u] /\ batch'[u] = batch[u]
            \/ i + 1 \in DOMAIN batch[u] /\ batch'[u][i] = batch[u][i + 1]
        BY <2>0, <3>2, NextOfBatchEntries
      <4>1. PICK j \in DOMAIN batch[u] : batch'[u][i].event = batch[u][j].event
        BY <4>0
      <4>2. batch[u][j].event \in Events /\ status[batch[u][j].event] # "absent"
        BY <4>1, ClaimInBatch DEF OnlyStored, TypeOK
      <4> QED BY <3>1, <4>1, <4>2
    <3>3. ASSUME NEW f \in Events, f \in late' \/ copies'[f] > 0
          PROVE  status'[f] # "absent"
      <4>1. CASE f = Current(t)
        BY <2>1, <4>1
      <4>2. CASE f # Current(t)
        BY <2>1, <3>3, <4>2 DEF OnlyStored
      <4> QED BY <4>1, <4>2
    <3> QED BY <3>2, <3>3 DEF OnlyStored
  <2>4. AcceptedCounted'
    BY <2>0, NextOfBatchStages DEF AcceptedCounted, Current
  <2>5. PublishedWasAccepted'
    BY <2>0, <2>1 DEF PublishedWasAccepted
  <2>6. \A f \in Events \ recovered : \A u \in Ticks : \A i \in DOMAIN batch'[u] :
            batch'[u][i].event = f => f # Current(t)
    BY NextOfBatchForgets
  <2>7. HolderHasLock'
    <3>1. \A f \in Events \ recovered : attempts'[f] <= MaxAttempts
      BY <2>0, <2>1 DEF HolderHasLock, TypeOK
    <3> QED BY <2>0, <2>1, <2>6, <3>1, NextOfBatchEntries DEF HolderHasLock
  <2>8. FirstCopy'
    <3> SUFFICES ASSUME NEW f \in Events \ recovered, attempts'[f] = 0
                 PROVE  FirstCopyOf(f)'
      BY DEF FirstCopy
    <3>1. f # Current(t) /\ attempts[f] = 0
      BY SMTT(30), <2>0, <2>1 DEF TypeOK
    <3>2. FirstCopyOf(f)
      BY <3>1 DEF FirstCopy
    <3> QED BY <2>0, <2>1, <2>6, <3>1, <3>2, NextOfBatchEntries DEF FirstCopyOf
  <2> QED BY <2>2, <2>3, <2>4, <2>5, <2>7, <2>8
<1>12. ASSUME NEW t \in Ticks, LoseTick(t) PROVE Rest'
  <2> USE <1>12 DEF LoseTick
  <2>1. \A u \in Ticks :
           /\ u # t => batch'[u] = batch[u] /\ stage'[u] = stage[u]
           /\ u = t => batch'[u] = << >> /\ stage'[u] = "idle"
    BY DEF TypeOK
  <2>2. stage[t] = "publishing" => /\ Current(t) \in Events /\ 1 \in DOMAIN batch[t]
                                   /\ Current(t) = batch[t][1].event
    BY BusyTick
  <2>3. StageMatchesBatch' /\ AcceptedCounted' /\ SingleHolder' /\ HolderHasLock'
        /\ PublishedWasAccepted'
    BY <2>1 DEF StageMatchesBatch, AcceptedCounted, Current, SingleHolder, HolderHasLock,
                PublishedWasAccepted
  <2>4. OnlyStored'
    BY <2>1, <2>2 DEF OnlyStored, Abandon
  <2>5. FirstCopy'
    <3> SUFFICES ASSUME NEW f \in Events \ recovered, attempts[f] = 0
                 PROVE  FirstCopyOf(f)'
      BY DEF FirstCopy
    <3>1. FirstCopyOf(f)
      BY DEF FirstCopy
    <3>2. CASE f \in late' /\ f \notin late
      <4>1. stage[t] = "publishing" /\ f = Current(t)
        BY <3>2 DEF Abandon
      <4>2. copies[f] = 0 /\ status[f] = "publishing"
        BY <2>2, <3>1, <4>1 DEF FirstCopyOf, HolderHasLock
      <4>3. \A u \in Ticks : \A i \in DOMAIN batch[u] : batch[u][i].event = f => u = t
        BY <2>2, <4>1 DEF SingleHolder
      <4> QED BY <2>1, <4>2, <4>3 DEF FirstCopyOf
    <3>3. CASE f \in late' <=> f \in late
      BY <2>1, <3>1, <3>3 DEF FirstCopyOf
    <3>4. f \in late => f \in late'
      BY DEF Abandon
    <3> QED BY <3>2, <3>3, <3>4
  <2> QED BY <2>3, <2>4, <2>5
<1>13. CASE Elapse
    BY <1>13 DEF Elapse, StageMatchesBatch, OnlyStored, AcceptedCounted, TypeOK, Current,
        PublishedWasAccepted, SingleHolder, HolderHasLock, FirstCopy, FirstCopyOf
<1>14. CASE UNCHANGED vars
    BY <1>14 DEF vars, StageMatchesBatch, OnlyStored, AcceptedCounted, TypeOK, Current,
        PublishedWasAccepted, SingleHolder, HolderHasLock, FirstCopy, FirstCopyOf
<1> QED
    BY <1>1, <1>2, <1>3, <1>4, <1>5, <1>6, <1>9, <1>10, <1>11, <1>12, <1>13, <1>14
    DEF Next, TickStep

THEOREM InvariantHolds == Spec => []Inv
<1>1. Init => Inv
    BY InitInv
<1>2. Inv /\ [Next]_vars => Inv'
    BY StepInv
<1> QED BY <1>1, <1>2, PTL DEF Spec

-----------------------------------------------------------------------------
(* Safety *)

\* Every reachable state of the outbox is well typed.
THEOREM TypeCorrect == Spec => []TypeOK
<1>1. Inv => TypeOK
    BY DEF Inv
<1> QED BY <1>1, InvariantHolds, PTL

\* markPublished is only ever called for an event the broker took: whatever crashes,
\* timeouts and takeovers happen, no event is marked published unsent.
THEOREM NothingIsLost == Spec => []PublishedWasAccepted
<1>1. Inv => PublishedWasAccepted
    BY DEF Inv
<1> QED BY <1>1, InvariantHolds, PTL

\* lockedBy and lockedAt are a lock: two ticks hold one event only after the reaper
\* freed it.
THEOREM LockIsExclusive == Spec => []SingleHolder
<1>1. Inv => SingleHolder
    BY DEF Inv
<1> QED BY <1>1, InvariantHolds, PTL

\* Duplicates come from retries and from the reaper, never from concurrency alone.
THEOREM DuplicatesHaveACause == Spec => []DuplicatesAccounted
<1>1. Inv => DuplicatesAccounted
    BY DEF Inv, FirstCopy, FirstCopyOf, DuplicatesAccounted, TypeOK
<1> QED BY <1>1, InvariantHolds, PTL

\* The limit of ten attempts holds for every event the reaper left alone.
THEOREM AttemptsAreLimited == Spec => []OverrunOnlyByRecovery
<1>1. Inv => OverrunOnlyByRecovery
    BY LimitsAssumption DEF Inv, HolderHasLock, OverrunOnlyByRecovery, TypeOK
<1> QED BY <1>1, InvariantHolds, PTL

-----------------------------------------------------------------------------
(* The outbox implements EventRelay *)

LEMMA InitRelay == Init => Relay!Init
    BY DEF Init, Relay!Init, RelayState

\* What a step does to the two variables of EventRelay.
LEMMA StepRelay == Inv /\ [Next]_vars => [Relay!Next]_(Relay!relayVars)
<1> SUFFICES ASSUME Inv, [Next]_vars PROVE [Relay!Next]_(Relay!relayVars)
    OBVIOUS
<1>0. TypeOK /\ TypeOK'
    BY StepType DEF Inv
<1> USE DEF docVars, tickVars, wireVars, Relay!relayVars, Relay!Next
<1>1. ASSUME NEW e \in Events, Enqueue(e) PROVE Relay!Commit(e)
    BY <1>0, <1>1 DEF Enqueue, Relay!Commit, RelayState, TypeOK
<1>2. ASSUME NEW e \in Events, copies' = [copies EXCEPT ![e] = OneMore(@)],
             status[e] # "absent", UNCHANGED status
      PROVE  Relay!Deliver(e)
    BY <1>0, <1>2 DEF Relay!Deliver, OneMore, TypeOK, RelayState, Status
<1>3. ASSUME UNCHANGED copies,
             \A e \in Events : \/ status'[e] = status[e]
                               \/ /\ status[e] \in {"pending", "publishing"}
                                  /\ status'[e] \in {"pending", "publishing"}
      PROVE  UNCHANGED Relay!relayVars
  <2> DEFINE Stands(s) == IF s \in {"pending", "publishing"} THEN "owed"
                          ELSE IF s = "published" THEN "relayed"
                          ELSE "absent"
  <2>1. \A e \in Events : Stands(status'[e]) = Stands(status[e])
    BY <1>3
  <2>2. /\ RelayState = [e \in Events |-> Stands(status[e])]
        /\ RelayState' = [e \in Events |-> Stands(status'[e])]
    BY DEF RelayState
  <2>3. RelayState' = RelayState
    <3> HIDE DEF Stands
    <3> QED BY <2>1, <2>2
  <2> QED BY <1>3, <2>3
<1>4. ASSUME NEW e \in Events, LateArrival(e) PROVE Relay!Deliver(e)
    BY <1>2, <1>4 DEF LateArrival, Inv, OnlyStored
<1>5. ASSUME NEW e \in Events, Recover(e) PROVE UNCHANGED Relay!relayVars
    BY <1>0, <1>3, <1>5 DEF Recover, TypeOK
<1>6. ASSUME NEW t \in Ticks, StartTick(t) \/ EndClaim(t) \/ LoseTick(t)
      PROVE  UNCHANGED Relay!relayVars
    BY <1>3, <1>6 DEF StartTick, EndClaim, LoseTick
<1>7. ASSUME NEW t \in Ticks, ClaimOne(t) PROVE UNCHANGED Relay!relayVars
    BY <1>0, <1>3, <1>7 DEF ClaimOne, Eligible, TypeOK
<1>8. ASSUME NEW t \in Ticks, stage[t] \in {"publishing", "accepted"}
      PROVE  Current(t) \in Events /\ status[Current(t)] # "absent"
    BY <1>0, <1>8, BusyTick DEF Inv, OnlyStored
<1>9. ASSUME NEW t \in Ticks, BrokerAccepts(t) PROVE Relay!Deliver(Current(t))
    BY <1>2, <1>8, <1>9 DEF BrokerAccepts
<1>10. ASSUME NEW t \in Ticks, MarkPublished(t)
       PROVE  Relay!Settle(Current(t)) \/ UNCHANGED Relay!relayVars
  <2>1. Current(t) \in Events /\ status[Current(t)] # "absent" /\ copies[Current(t)] > 0
    BY <1>8, <1>10 DEF MarkPublished, Inv, AcceptedCounted
  <2>2. UNCHANGED copies /\ status' = [status EXCEPT ![Current(t)] = "published"]
    BY <1>10 DEF MarkPublished
  <2>3. CASE status[Current(t)] = "published"
    BY <1>0, <1>3, <2>1, <2>2, <2>3 DEF TypeOK
  <2>4. CASE status[Current(t)] # "published"
    BY <1>0, <2>1, <2>2, <2>4 DEF Relay!Settle, RelayState, TypeOK, Status
  <2> QED BY <2>3, <2>4
<1>11. ASSUME NEW t \in Ticks, Reschedule(t)
       PROVE  Relay!Reopen(Current(t)) \/ UNCHANGED Relay!relayVars
  <2>1. Current(t) \in Events /\ status[Current(t)] # "absent"
    BY <1>8, <1>11 DEF Reschedule
  <2>2. UNCHANGED copies /\ status' = [status EXCEPT ![Current(t)] = "pending"]
    BY <1>11 DEF Reschedule
  <2>3. CASE status[Current(t)] = "published"
    BY <1>0, <2>1, <2>2, <2>3 DEF Relay!Reopen, RelayState, TypeOK, Status
  <2>4. CASE status[Current(t)] # "published"
    <3>1. \A e \in Events : status'[e] = IF e = Current(t) THEN "pending" ELSE status[e]
      BY <1>0, <2>1, <2>2 DEF TypeOK
    <3>2. status[Current(t)] \in {"pending", "publishing"}
      BY <1>0, <2>1, <2>4 DEF TypeOK, Status
    <3> QED BY <1>3, <2>2, <3>1, <3>2
  <2> QED BY <2>3, <2>4
<1>12. CASE Elapse
    BY <1>3, <1>12 DEF Elapse
<1>13. CASE UNCHANGED vars
    BY <1>3, <1>13 DEF vars
<1>14. ASSUME NEW t \in Ticks, TickStep(t) PROVE [Relay!Next]_(Relay!relayVars)
    BY <1>6, <1>7, <1>8, <1>9, <1>10, <1>11, <1>14
    DEF TickStep, BrokerAccepts, MarkPublished, Reschedule
<1> QED BY <1>1, <1>4, <1>5, <1>6, <1>12, <1>13, <1>14 DEF Next

\* For every number of events and ticks and for all limits, the outbox relays at
\* least once what was committed, and nothing else.
THEOREM ImplementsEventRelay == Spec => RelaySpec
<1>1. Init => Relay!Init
    BY InitRelay
<1>2. Inv /\ [Next]_vars => [Relay!Next]_(Relay!relayVars)
    BY StepRelay
<1> QED BY <1>1, <1>2, InvariantHolds, PTL DEF Spec, RelaySpec, Relay!Spec
=============================================================================
