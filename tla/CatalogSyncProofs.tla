------------------------- MODULE CatalogSyncProofs -------------------------
(***************************************************************************)
(* Proofs about the catalog synchronisation, for any number of processes,  *)
(* requests, direct calls and products and any time to live of the lock.   *)
(***************************************************************************)
EXTENDS CatalogSync, TLAPS

-----------------------------------------------------------------------------
(* The inductive invariant *)

\* No handler exists of a message that has not been published.
NoEarlyHandler == \A p \in Processes, m \in Messages \ sent : stage[<<p, m>>] = "none"

\* Who awaits an upsert has looked up the product.
UpsertHasItem == \A s \in Syncs : stage[s] = "upsert" => item[s] \in Products

\* Outside an overlap that began with an expired lock, who works holds the lock.
WorkerHoldsLock == \A h \in Handlers : stage[h] \in Critical => lock = h \/ overrun

\* While no two syncs have overlapped: one sync imports at a time, what a sync has
\* counted is in the store or about to be, and no two syncs count one product.
CountedOnce ==
    ~tainted =>
        /\ \A s, t \in Syncs :
              stage[s] \in Importing /\ stage[t] \in Importing => s = t
        /\ \A s \in Syncs : stage[s] # "lost" =>
              \A x \in imported[s] :
                  x \in store \/ (stage[s] = "upsert" /\ x = item[s])
        /\ \A s, t \in Syncs :
              s # t /\ stage[s] # "lost" /\ stage[t] # "lost"
                  => imported[s] \cap imported[t] = {}

\* A message that was published has been queued for some process.
DeliveredSomewhere ==
    \A m \in sent : \E p \in Processes : stage[<<p, m>>] # "none"

\* Who leaves the import, or the handler, has let the user hear of it.
EndedIsAnswered ==
    \A h \in Handlers :
        stage[h] \in {"release", "jammed", "done"} => outcome[h] # "none"

\* A handler that took a dedupe key, or failed to: it is not sent away as a twin.
Settling(h) == stage[h] \notin {"none", "queued"} /\ outcome[h] # "twin"

\* A twin has ended, and each twin, like a dedupe key that exists, comes from handlers
\* that settle.
TwinHasAnElder ==
    /\ \A h \in Handlers : outcome[h] = "twin" => stage[h] = "done" /\ ahead[h] # {}
    /\ msTaken => through # {}
    /\ \A g \in through : Settling(g)
    /\ \A h \in Handlers : \A g \in ahead[h] : Settling(g)

Answered ==
    /\ DeliveredSomewhere
    /\ EndedIsAnswered
    /\ TwinHasAnElder

Inv ==
    /\ TypeOK
    /\ NoEarlyHandler
    /\ UpsertHasItem
    /\ WorkerHoldsLock
    /\ LockHasAHolder
    /\ CountedOnce
    /\ Answered

-----------------------------------------------------------------------------
(* Type correctness *)

LEMMA InitInv == Init => Inv
<1> SUFFICES ASSUME Init PROVE Inv
    OBVIOUS
<1> USE DEF Init
<1>1. TypeOK
  <2>1. /\ stage \in [Syncs -> Stage] /\ outcome \in [Handlers -> Outcome]
        /\ left \in [Syncs -> SUBSET Products]
        /\ item \in [Syncs -> Products \cup {NoProduct}]
        /\ imported \in [Syncs -> SUBSET Products]
    BY DEF Stage, Outcome
  <2>2. lockLeft \in 0..LockTTL /\ failures \in 0..MaxFailures /\ crashes \in 0..MaxCrashes
    BY BoundsAssumption
  <2> QED BY <2>1, <2>2 DEF TypeOK
<1>2. NoEarlyHandler
    BY DEF NoEarlyHandler, Syncs, Handlers
<1>3. UpsertHasItem
    BY DEF UpsertHasItem
<1>4. WorkerHoldsLock
    BY DEF WorkerHoldsLock, Syncs, Critical, Importing
<1>5. LockHasAHolder
    BY DEF LockHasAHolder
<1>6. CountedOnce
    BY DEF CountedOnce, Importing
<1>7. Answered
    BY DEF Answered, DeliveredSomewhere, EndedIsAnswered, TwinHasAnElder, Syncs
<1> QED BY <1>1, <1>2, <1>3, <1>4, <1>5, <1>6, <1>7 DEF Inv

LEMMA StepType == TypeOK /\ UpsertHasItem /\ [Next]_vars => TypeOK'
<1> SUFFICES ASSUME TypeOK, UpsertHasItem, [Next]_vars PROVE TypeOK'
    OBVIOUS
<1> USE SyncsAssumption, BoundsAssumption
    DEF TypeOK, Syncs, Stage, Outcome, Answer, Critical, Importing, Fails, Leave,
        queueVars, keyVars, lockVars, importVars, historyVars, boundVars
<1>1. ASSUME NEW m \in Messages, Publish(m) PROVE TypeOK'
    BY <1>1 DEF Publish
<1>2. ASSUME NEW p \in Processes, Disconnect(p) PROVE TypeOK'
    BY <1>2 DEF Disconnect
<1>3. ASSUME NEW p \in Processes, Reconnect(p) PROVE TypeOK'
    BY <1>3 DEF Reconnect
<1>4. ASSUME NEW p \in Processes, Crash(p) PROVE TypeOK'
    BY <1>4 DEF Crash
<1>6. ASSUME NEW h \in Handlers, CheckNew(h) PROVE TypeOK'
    BY <1>6 DEF CheckNew
<1>7. ASSUME NEW h \in Handlers, TryLock(h) PROVE TypeOK'
    BY <1>7 DEF TryLock
<1>8. ASSUME NEW h \in Handlers, Refuse(h) PROVE TypeOK'
    BY <1>8 DEF Refuse
<1>9. ASSUME NEW h \in Handlers, Announce(h) PROVE TypeOK'
    BY <1>9 DEF Announce, StartImport
<1>10. ASSUME NEW h \in Handlers, Report(h) PROVE TypeOK'
    BY <1>10 DEF Report
<1>11. ASSUME NEW h \in Handlers, Apologise(h) PROVE TypeOK'
    BY <1>11 DEF Apologise
<1>12. ASSUME NEW h \in Handlers, Release(h) PROVE TypeOK'
    BY <1>12 DEF Release
<1>13. ASSUME NEW h \in Handlers, RedisFails(h) PROVE TypeOK'
  <2>1. stage' \in [Syncs -> Stage] /\ outcome' \in [Handlers -> Outcome]
    BY <1>13 DEF RedisFails
  <2>2. failures' \in 0..MaxFailures
    BY <1>13 DEF RedisFails
  <2>3. overrun' = overrun \/ overrun' = (overrun /\ Working \ {h} # {})
    BY <1>13, Zenon DEF RedisFails
  <2>4. overrun' \in BOOLEAN
    BY <2>3, Zenon
  <2>5. UNCHANGED <<online, sent, msTaken, through, ahead, lock, lockLeft, left, item,
                    imported, store, tainted, crashes>>
    BY <1>13 DEF RedisFails
  <2> QED BY <2>1, <2>2, <2>4, <2>5
<1>14. ASSUME NEW s \in Syncs, LookUp(s) PROVE TypeOK'
    BY <1>14 DEF LookUp
<1>15. ASSUME NEW s \in Syncs, Upsert(s) PROVE TypeOK'
  <2>1. item[s] \in Products
    BY <1>15 DEF Upsert, UpsertHasItem
  <2> QED BY <1>15, <2>1 DEF Upsert
<1>16. ASSUME NEW s \in Syncs, EndImport(s) PROVE TypeOK'
    BY <1>16 DEF EndImport
<1>17. ASSUME NEW s \in Syncs, SyncFails(s) PROVE TypeOK'
    BY <1>17 DEF SyncFails, ToCatch
<1>18. ASSUME NEW d \in Direct, StartDirect(d) PROVE TypeOK'
    BY <1>18 DEF StartDirect, StartImport
<1>19. CASE NextMillisecond
    BY <1>19 DEF NextMillisecond
<1>20. CASE Elapse
  <2>1. lockLeft' \in 0..LockTTL
    BY <1>20 DEF Elapse
  <2>2. lock' \in Handlers \cup {Free} /\ overrun' \in BOOLEAN
    BY <1>20, Zenon DEF Elapse
  <2> QED BY <1>20, <2>1, <2>2 DEF Elapse
<1>21. CASE UNCHANGED vars
    BY <1>21 DEF vars
<1> QED
    BY <1>1, <1>2, <1>3, <1>4, <1>6, <1>7, <1>8, <1>9, <1>10, <1>11, <1>12,
       <1>13, <1>14, <1>15, <1>16, <1>17, <1>18, <1>19, <1>20, <1>21
    DEF Next, HandlerStep, ImportStep

-----------------------------------------------------------------------------
(* What a step moves *)

LEMMA HandlersAreSyncs ==
    /\ Handlers \subseteq Syncs /\ Direct \subseteq Syncs /\ Handlers \cap Direct = {}
    /\ \A h \in Handlers : h[1] \in Processes /\ h[2] \in Messages /\ h = <<h[1], h[2]>>
    /\ \A p \in Processes, m \in Messages : <<p, m>> \in Handlers
    BY SyncsAssumption DEF Syncs, Handlers

\* A step of a sync, or the start of a direct call, moves that sync alone.
LEMMA OneSyncMoves ==
    ASSUME TypeOK, NEW s \in Syncs,
           \/ s \in Handlers /\ HandlerStep(s)
           \/ ImportStep(s)
           \/ s \in Direct /\ StartDirect(s)
    PROVE  /\ stage[s] # "none" \/ s \in Direct
           /\ stage[s] \notin {"done", "jammed", "lost"}
           /\ UNCHANGED <<online, sent>>
           /\ \E x \in Stage : stage' = [stage EXCEPT ![s] = x]
           /\ \A t \in Syncs \ {s} : stage'[t] = stage[t]
<1> USE DEF queueVars, Stage, Critical, Importing
<1>1. CASE s \in Handlers /\ HandlerStep(s)
  <2>1. CASE CheckNew(s) \/ TryLock(s) \/ Refuse(s)
      BY <2>1 DEF CheckNew, TryLock, Refuse, TypeOK
  <2>2. CASE Announce(s) \/ Report(s) \/ Apologise(s) \/ Release(s)
      BY <2>2 DEF Announce, StartImport, Report, Apologise, Release, TypeOK
  <2>3. CASE RedisFails(s)
      BY <2>3 DEF RedisFails, TypeOK
  <2> QED BY <1>1, <2>1, <2>2, <2>3 DEF HandlerStep
<1>2. CASE ImportStep(s)
    BY <1>2 DEF ImportStep, LookUp, Upsert, EndImport, SyncFails, ToCatch, TypeOK
<1>3. CASE s \in Direct /\ StartDirect(s)
    BY <1>3 DEF StartDirect, StartImport, TypeOK
<1> QED BY <1>1, <1>2, <1>3

\* What the other steps do to the stages: a publication queues handlers that did not
\* exist, the end of a connection or a process loses handlers, time does nothing.
LEMMA OtherMoves ==
    ASSUME TypeOK, NoEarlyHandler, NEW s \in Syncs,
           \/ \E m \in Messages : Publish(m)
           \/ \E p \in Processes : Disconnect(p) \/ Reconnect(p) \/ Crash(p)
           \/ NextMillisecond \/ Elapse
    PROVE  /\ UNCHANGED importVars
           /\ \/ stage'[s] = stage[s]
              \/ stage[s] = "none" /\ stage'[s] = "queued"
              \/ stage[s] \notin {"none", "done", "jammed"} /\ stage'[s] = "lost"
<1>1. ASSUME NEW m \in Messages, Publish(m)
      PROVE  /\ UNCHANGED importVars
             /\ stage'[s] = stage[s] \/ (stage[s] = "none" /\ stage'[s] = "queued")
  <2>1. s \in online \X {m} => stage[s] = "none"
    <3>1. ASSUME s \in online \X {m} PROVE stage[s] = "none"
      <4>1. s[1] \in Processes /\ s[2] = m /\ s = <<s[1], m>> /\ m \notin sent
          BY <1>1, <3>1 DEF Publish, TypeOK
      <4> QED BY <4>1 DEF NoEarlyHandler
    <3> QED BY <3>1
  <2> QED BY <1>1, <2>1 DEF Publish, TypeOK
<1>2. ASSUME NEW p \in Processes, Disconnect(p) \/ Reconnect(p) \/ Crash(p)
      PROVE  /\ UNCHANGED importVars
             /\ \/ stage'[s] = stage[s]
                \/ stage[s] \notin {"none", "done", "jammed"} /\ stage'[s] = "lost"
    BY <1>2 DEF Disconnect, Reconnect, Crash, TypeOK
<1>3. CASE NextMillisecond \/ Elapse
    BY <1>3 DEF NextMillisecond, Elapse
<1> QED BY <1>1, <1>2, <1>3

LEMMA StepEarly == TypeOK /\ NoEarlyHandler /\ [Next]_vars => NoEarlyHandler'
<1> SUFFICES ASSUME TypeOK, NoEarlyHandler, [Next]_vars,
                    NEW p \in Processes, NEW m \in Messages \ sent'
             PROVE  stage'[<<p, m>>] = "none"
    BY DEF NoEarlyHandler
<1>1. <<p, m>> \in Handlers /\ <<p, m>> \in Syncs /\ <<p, m>> \notin Direct
    BY HandlersAreSyncs
<1>2. ASSUME sent' = sent, NEW s \in Syncs, stage[s] # "none" \/ s \in Direct,
             \A t \in Syncs \ {s} : stage'[t] = stage[t]
      PROVE  stage'[<<p, m>>] = "none"
    BY <1>1, <1>2 DEF NoEarlyHandler
<1>3. ASSUME NEW s \in Syncs,
             \/ s \in Handlers /\ HandlerStep(s)
             \/ ImportStep(s)
             \/ s \in Direct /\ StartDirect(s)
      PROVE  stage'[<<p, m>>] = "none"
  <2>1. /\ sent' = sent
        /\ stage[s] # "none" \/ s \in Direct
        /\ \A t \in Syncs \ {s} : stage'[t] = stage[t]
    BY <1>3, OneSyncMoves
  <2> QED BY <2>1, <1>2
<1>4. ASSUME NEW n \in Messages, Publish(n) PROVE stage'[<<p, m>>] = "none"
    BY <1>4, <1>1 DEF Publish, NoEarlyHandler, TypeOK
<1>5. ASSUME NEW q \in Processes, Disconnect(q) \/ Reconnect(q) \/ Crash(q)
      PROVE  stage'[<<p, m>>] = "none"
    BY <1>5, <1>1 DEF Disconnect, Reconnect, Crash, NoEarlyHandler, TypeOK
<1>6. CASE NextMillisecond \/ Elapse \/ UNCHANGED vars
    BY <1>6 DEF NextMillisecond, Elapse, vars, queueVars, NoEarlyHandler
<1> QED
  <2>1. Handlers \subseteq Syncs /\ Direct \subseteq Syncs
    BY HandlersAreSyncs
  <2> QED BY <2>1, <1>3, <1>4, <1>5, <1>6 DEF Next

LEMMA StepItem ==
    TypeOK /\ NoEarlyHandler /\ UpsertHasItem /\ [Next]_vars => UpsertHasItem'
<1> SUFFICES ASSUME TypeOK, NoEarlyHandler, UpsertHasItem, [Next]_vars,
                    NEW t \in Syncs, stage'[t] = "upsert"
             PROVE  item'[t] \in Products
    BY DEF UpsertHasItem
<1> USE DEF importVars
<1>1. ASSUME NEW s \in Handlers, HandlerStep(s) PROVE item'[t] \in Products
  <2>1. s \in Syncs
    BY HandlersAreSyncs
  <2>2. UNCHANGED item
    BY <1>1 DEF HandlerStep, CheckNew, TryLock, Refuse, Announce, StartImport,
       Report, Apologise, Release, RedisFails
  <2>3. stage'[s] # "upsert"
    BY <1>1, <2>1 DEF HandlerStep, CheckNew, TryLock, Refuse, Announce,
       StartImport, Report, Apologise, Release, RedisFails, TypeOK
  <2>4. t # s /\ stage'[t] = stage[t]
    BY <1>1, <2>1, <2>3, OneSyncMoves
  <2> QED BY <2>2, <2>4 DEF UpsertHasItem
<1>2. ASSUME NEW s \in Syncs, ImportStep(s) PROVE item'[t] \in Products
    BY <1>2 DEF ImportStep, LookUp, Upsert, EndImport, SyncFails, ToCatch, TypeOK,
       UpsertHasItem
<1>3. ASSUME NEW d \in Direct, StartDirect(d) PROVE item'[t] \in Products
    BY <1>3, HandlersAreSyncs DEF StartDirect, StartImport, TypeOK, UpsertHasItem
<1>4. CASE UNCHANGED vars
    BY <1>4 DEF vars, UpsertHasItem
<1> QED
  <2>1. ASSUME \/ \E m \in Messages : Publish(m)
               \/ \E p \in Processes : Disconnect(p) \/ Reconnect(p) \/ Crash(p)
               \/ NextMillisecond \/ Elapse
        PROVE  item'[t] \in Products
    BY <2>1, OtherMoves DEF UpsertHasItem
  <2> QED BY <2>1, <1>1, <1>2, <1>3, <1>4 DEF Next

-----------------------------------------------------------------------------
(* The lock *)

\* Steps that touch neither the lock nor who is between tryLock and unlock.
LEMMA QuietStep ==
    ASSUME TypeOK, WorkerHoldsLock, LockHasAHolder,
           UNCHANGED <<lock, overrun>>,
           \A h \in Handlers :
               /\ stage'[h] \in Critical <=> stage[h] \in Critical
               /\ stage[h] \in {"jammed", "lost"} => stage'[h] = stage[h]
    PROVE  WorkerHoldsLock' /\ LockHasAHolder'
<1>1. WorkerHoldsLock'
    BY DEF WorkerHoldsLock
<1>2. LockHasAHolder'
    BY DEF LockHasAHolder, Working, TypeOK
<1> QED BY <1>1, <1>2

\* Handlers of a set G leave, and the lock stays theirs or is free: the others
\* still hold the lock, or are left of an overlap.
LEMMA LeavingStep ==
    ASSUME WorkerHoldsLock, NEW G \in SUBSET Handlers,
           overrun' = (overrun /\ Working \ G # {}),
           \A h \in Handlers : stage'[h] \in Critical => stage[h] \in Critical /\ h \notin G,
           \/ lock' = lock
           \/ \E g \in G : stage[g] \in Critical
    PROVE  WorkerHoldsLock'
<1> SUFFICES ASSUME NEW h \in Handlers, stage'[h] \in Critical
             PROVE  lock' = h \/ overrun'
    BY DEF WorkerHoldsLock
<1>1. stage[h] \in Critical /\ h \notin G /\ h \in Working \ G
    BY DEF Working
<1>2. CASE overrun
    BY <1>1, <1>2
<1>3. CASE ~overrun
  <2>1. lock = h
    BY <1>1, <1>3 DEF WorkerHoldsLock
  <2>2. ASSUME NEW g \in G, stage[g] \in Critical PROVE FALSE
    BY <2>1, <2>2, <1>1, <1>3 DEF WorkerHoldsLock
  <2> QED BY <2>1, <2>2
<1> QED BY <1>2, <1>3

LEMMA HandlerLock ==
    ASSUME TypeOK, WorkerHoldsLock, LockHasAHolder, NEW h \in Handlers, HandlerStep(h)
    PROVE  WorkerHoldsLock' /\ LockHasAHolder'
<1> USE DEF Critical, Importing, lockVars, historyVars
<1>0. h \in Syncs /\ Handlers \subseteq Syncs /\ Free \notin Handlers /\ h \notin Direct
    BY HandlersAreSyncs, SyncsAssumption
<1>1. CASE \/ CheckNew(h) \/ Refuse(h) \/ Announce(h) \/ Report(h)
           \/ Apologise(h)
  <2>1. UNCHANGED <<lock, overrun>>
    BY <1>1 DEF CheckNew, Refuse, Announce, Report, Apologise
  <2>2. ASSUME NEW g \in Handlers
        PROVE  /\ stage'[g] \in Critical <=> stage[g] \in Critical
               /\ stage[g] \in {"jammed", "lost"} => stage'[g] = stage[g]
    BY <1>0, <1>1 DEF CheckNew, Refuse, Announce, StartImport, Report,
       Apologise, TypeOK
  <2> QED BY <2>1, <2>2, QuietStep
<1>2. CASE TryLock(h)
  <2>1. CASE lock = Free
    <3>1. /\ lock' = h /\ overrun' = overrun /\ stage'[h] = "announce"
          /\ \A g \in Handlers \ {h} : stage'[g] = stage[g]
      BY <1>0, <1>2, <2>1 DEF TryLock, TypeOK
    <3>2. \A g \in Handlers : stage[g] \in Critical => overrun
      BY <1>0, <2>1 DEF WorkerHoldsLock
    <3>3. WorkerHoldsLock'
      BY <3>1, <3>2 DEF WorkerHoldsLock
    <3>4. LockHasAHolder'
      BY <3>1 DEF LockHasAHolder, Working
    <3> QED BY <3>3, <3>4
  <2>2. CASE lock # Free
    <3>1. ASSUME NEW g \in Handlers
          PROVE  /\ stage'[g] \in Critical <=> stage[g] \in Critical
                 /\ stage[g] \in {"jammed", "lost"} => stage'[g] = stage[g]
      BY <1>0, <1>2, <2>2 DEF TryLock, TypeOK
    <3>2. UNCHANGED <<lock, overrun>>
      BY <1>2, <2>2 DEF TryLock
    <3> QED BY <3>1, <3>2, QuietStep
  <2> QED BY <2>1, <2>2
<1>3. CASE Release(h)
  <2>1. /\ lock' = Free /\ stage[h] = "release" /\ stage'[h] = "done"
        /\ overrun' = (overrun /\ Working \ {h} # {})
        /\ \A g \in Handlers \ {h} : stage'[g] = stage[g]
    BY <1>0, <1>3 DEF Release, Leave, TypeOK
  <2>2. WorkerHoldsLock'
    BY ZenonT(30), <2>1, LeavingStep
  <2> QED BY <2>1, <2>2 DEF LockHasAHolder
<1>4. CASE RedisFails(h)
  <2>1. CASE stage[h] = "release"
    <3>1. /\ lock' = lock /\ stage'[h] = "jammed"
          /\ \A g \in Handlers \ {h} : stage'[g] = stage[g]
      BY <1>0, <1>4, <2>1 DEF RedisFails, TypeOK
    <3>2. overrun' = (overrun /\ Working \ {h} # {})
      BY <1>4, <2>1 DEF RedisFails, Leave
    <3>3. \A g \in Handlers : stage'[g] \in Critical => stage[g] \in Critical /\ g \notin {h}
      BY <3>1
    <3>4. WorkerHoldsLock'
      BY <3>1, <3>2, <3>3, LeavingStep, Zenon
    <3>5. LockHasAHolder'
      BY <3>1 DEF LockHasAHolder, Working, TypeOK
    <3> QED BY <3>4, <3>5
  <2>2. CASE stage[h] # "release"
    <3>1. ASSUME NEW g \in Handlers
          PROVE  /\ stage'[g] \in Critical <=> stage[g] \in Critical
                 /\ stage[g] \in {"jammed", "lost"} => stage'[g] = stage[g]
      BY <1>0, <1>4, <2>2 DEF RedisFails, TypeOK
    <3>2. UNCHANGED <<lock, overrun>>
      BY <1>4, <2>2 DEF RedisFails
    <3> QED BY <3>1, <3>2, QuietStep
  <2> QED BY <2>1, <2>2
<1> QED BY <1>1, <1>2, <1>3, <1>4 DEF HandlerStep

LEMMA StepLock ==
    /\ TypeOK /\ NoEarlyHandler /\ WorkerHoldsLock /\ LockHasAHolder /\ [Next]_vars
    => WorkerHoldsLock' /\ LockHasAHolder'
<1> SUFFICES ASSUME TypeOK, NoEarlyHandler, WorkerHoldsLock, LockHasAHolder, [Next]_vars
             PROVE  WorkerHoldsLock' /\ LockHasAHolder'
    OBVIOUS
<1> USE DEF Critical, Importing, lockVars, historyVars
<1>0. Handlers \subseteq Syncs /\ Handlers \cap Direct = {} /\ Free \notin Handlers
    BY HandlersAreSyncs, SyncsAssumption
<1>1. ASSUME NEW s \in Syncs, ImportStep(s) \/ (s \in Direct /\ StartDirect(s))
      PROVE  WorkerHoldsLock' /\ LockHasAHolder'
  <2>1. UNCHANGED <<lock, overrun>>
    BY <1>1 DEF ImportStep, LookUp, Upsert, EndImport, SyncFails, StartDirect
  <2>2. ASSUME NEW g \in Handlers
        PROVE  /\ stage'[g] \in Critical <=> stage[g] \in Critical
               /\ stage[g] \in {"jammed", "lost"} => stage'[g] = stage[g]
    BY <1>0, <1>1 DEF ImportStep, LookUp, Upsert, EndImport, SyncFails, ToCatch,
       StartDirect, StartImport, TypeOK
  <2> QED BY <2>1, <2>2, QuietStep
<1>2. ASSUME \/ \E m \in Messages : Publish(m)
             \/ \E p \in Processes : Disconnect(p) \/ Reconnect(p)
             \/ NextMillisecond
      PROVE  WorkerHoldsLock' /\ LockHasAHolder'
  <2>1. UNCHANGED <<lock, overrun>>
    BY <1>2 DEF Publish, Disconnect, Reconnect, NextMillisecond
  <2>2. ASSUME NEW g \in Handlers
        PROVE  /\ stage'[g] \in Critical <=> stage[g] \in Critical
               /\ stage[g] \in {"jammed", "lost"} => stage'[g] = stage[g]
    <3>1. \/ stage'[g] = stage[g]
          \/ stage[g] = "none" /\ stage'[g] = "queued"
          \/ stage[g] = "queued" /\ stage'[g] = "lost"
      <4>1. g \in Syncs
        BY <1>0
      <4>2. CASE \E p \in Processes : Disconnect(p)
        BY <4>1, <4>2 DEF Disconnect, TypeOK
      <4>3. CASE \E p \in Processes : Reconnect(p)
        BY <4>3 DEF Reconnect
      <4>4. CASE NextMillisecond
        BY <4>4 DEF NextMillisecond
      <4>5. ASSUME NEW m \in Messages, Publish(m)
            PROVE  stage'[g] = stage[g] \/ (stage[g] = "none" /\ stage'[g] = "queued")
        <5>1. stage'[g] = stage[g] \/ stage'[g] = "queued"
          BY <4>1, <4>5 DEF Publish, TypeOK
        <5>2. stage'[g] = "queued" => stage'[g] = stage[g] \/ stage[g] = "none"
          BY <4>1, <4>5, OtherMoves
        <5> QED BY <5>1, <5>2
      <4> QED BY <1>2, <4>2, <4>3, <4>4, <4>5
    <3> QED BY <3>1
  <2> QED BY <2>1, <2>2, QuietStep
<1>3. ASSUME NEW p \in Processes, Crash(p) PROVE WorkerHoldsLock' /\ LockHasAHolder'
  <2> DEFINE G == {h \in Handlers : h \in {p} \X Messages}
  <2>1. /\ lock' = lock
        /\ overrun' = (overrun /\ Working \ G # {})
    BY <1>3 DEF Crash, Working
  <2>2. ASSUME NEW h \in Handlers
        PROVE  /\ h \notin G => stage'[h] = stage[h]
               /\ h \in G /\ stage[h] \in Critical \cup {"lost"} => stage'[h] = "lost"
               /\ h \in G => stage'[h] \notin Critical
               /\ stage[h] = "jammed" => stage'[h] = "jammed"
    <3>1. h \in Syncs /\ stage \in [Syncs -> Stage]
      BY <1>0 DEF TypeOK
    <3>2. stage'[h] = IF h \in G /\ stage[h] \notin {"none", "done", "jammed"}
                      THEN "lost" ELSE stage[h]
      BY <1>3, <3>1 DEF Crash
    <3> QED BY <3>2
  <2>3. WorkerHoldsLock'
    BY <2>1, <2>2, LeavingStep
  <2>4. LockHasAHolder'
    BY <2>1, <2>2 DEF LockHasAHolder, Working, TypeOK
  <2> QED BY <2>3, <2>4
<1>4. CASE Elapse
  <2>1. stage' = stage
    BY <1>4 DEF Elapse
  <2>2. CASE lockLeft = 1
    <3>1. lock' = Free /\ (overrun' <=> overrun \/ lock \in Working)
      BY <1>4, <2>2 DEF Elapse, TypeOK
    <3>2. WorkerHoldsLock'
      BY <2>1, <3>1 DEF WorkerHoldsLock, Working
    <3> QED BY <3>1, <3>2 DEF LockHasAHolder
  <2>3. CASE lockLeft # 1
    BY <1>4, <2>1, <2>3, QuietStep DEF Elapse
  <2> QED BY <2>2, <2>3
<1>5. CASE UNCHANGED vars
    BY <1>5, QuietStep DEF vars
<1> QED
  <2>1. Direct \subseteq Syncs
    BY HandlersAreSyncs
  <2> QED BY <2>1, <1>1, <1>2, <1>3, <1>4, <1>5, HandlerLock DEF Next

-----------------------------------------------------------------------------
(* What syncs count as imported *)

\* The parts of CountedOnce.
OneImports ==
    \A s, t \in Syncs : stage[s] \in Importing /\ stage[t] \in Importing => s = t
CountedIsStored ==
    \A s \in Syncs : stage[s] # "lost" =>
        \A x \in imported[s] : x \in store \/ (stage[s] = "upsert" /\ x = item[s])
CountsAreDisjoint ==
    \A s, t \in Syncs :
        s # t /\ stage[s] # "lost" /\ stage[t] # "lost" => imported[s] \cap imported[t] = {}

LEMMA CountedOnceParts ==
    CountedOnce <=> (~tainted => OneImports /\ CountedIsStored /\ CountsAreDisjoint)
    BY DEF CountedOnce, OneImports, CountedIsStored, CountsAreDisjoint

\* Steps that neither look up nor store a product.
LEMMA QuietImport ==
    ASSUME CountedOnce, UNCHANGED importVars, tainted' = tainted,
           \A s \in Syncs :
               /\ stage'[s] \in Importing => stage'[s] = stage[s]
               /\ stage[s] = "lost" => stage'[s] = "lost"
               /\ stage[s] = "upsert" => stage'[s] \in {"upsert", "lost"}
    PROVE  CountedOnce'
<1> SUFFICES ASSUME ~tainted'
             PROVE  OneImports' /\ CountedIsStored' /\ CountsAreDisjoint'
    BY DEF CountedOnce, OneImports, CountedIsStored, CountsAreDisjoint
<1>1. OneImports /\ CountedIsStored /\ CountsAreDisjoint
    BY CountedOnceParts
<1> USE DEF importVars
<1>2. OneImports'
    BY <1>1 DEF OneImports
<1>3. CountedIsStored'
    BY <1>1 DEF CountedIsStored
<1>4. CountsAreDisjoint'
    BY <1>1 DEF CountsAreDisjoint
<1> QED BY <1>2, <1>3, <1>4

LEMMA StartKeepsCounts ==
    ASSUME TypeOK, CountedOnce, NEW s \in Syncs, stage[s] \notin Importing \cup {"lost"},
           StartImport(s)
    PROVE  CountedOnce'
<1> SUFFICES ASSUME ~tainted'
             PROVE  OneImports' /\ CountedIsStored' /\ CountsAreDisjoint'
    BY DEF CountedOnce, OneImports, CountedIsStored, CountsAreDisjoint
<1> USE DEF Importing
<1>1. ~tainted /\ \A t \in Syncs \ {s} : stage[t] \notin Importing
    BY DEF StartImport, TypeOK
<1>2. OneImports /\ CountedIsStored /\ CountsAreDisjoint
    BY <1>1, CountedOnceParts
<1>3. /\ stage'[s] = "lookup" /\ imported'[s] = {} /\ UNCHANGED <<item, store>>
      /\ \A t \in Syncs \ {s} : stage'[t] = stage[t] /\ imported'[t] = imported[t]
    BY DEF StartImport, TypeOK
<1>4. OneImports'
    BY <1>1, <1>3 DEF OneImports
<1>5. CountedIsStored'
    BY <1>2, <1>3 DEF CountedIsStored
<1>6. CountsAreDisjoint'
    BY <1>2, <1>3 DEF CountsAreDisjoint
<1> QED BY <1>4, <1>5, <1>6

LEMMA ImportKeepsCounts ==
    ASSUME TypeOK, UpsertHasItem, CountedOnce, NEW s \in Syncs, ImportStep(s)
    PROVE  CountedOnce'
<1> SUFFICES ASSUME ~tainted'
             PROVE  OneImports' /\ CountedIsStored' /\ CountsAreDisjoint'
    BY DEF CountedOnce, OneImports, CountedIsStored, CountsAreDisjoint
<1> USE DEF Importing, historyVars
<1>1. ~tainted
    BY DEF ImportStep, LookUp, Upsert, EndImport, SyncFails
<1>2. OneImports /\ CountedIsStored /\ CountsAreDisjoint
    BY <1>1, CountedOnceParts
<1>3. \A t \in Syncs \ {s} : stage'[t] = stage[t] /\ imported'[t] = imported[t]
                             /\ item'[t] = item[t]
    BY DEF ImportStep, LookUp, Upsert, EndImport, SyncFails, ToCatch, TypeOK, importVars
<1>4. OneImports'
  <2>1. stage'[s] \in Importing => stage[s] \in Importing
    BY DEF ImportStep, LookUp, Upsert, EndImport, SyncFails, ToCatch, TypeOK
  <2> QED BY <2>1, <1>2, <1>3 DEF OneImports
<1>5. CASE LookUp(s)
  <2>1. PICK p \in left[s] :
            /\ item' = [item EXCEPT ![s] = p]
            /\ imported' = [imported EXCEPT ![s] = @ \cup ({p} \ store)]
    BY <1>5 DEF LookUp
  <2>2. /\ stage[s] = "lookup" /\ stage'[s] = "upsert" /\ store' = store
        /\ item'[s] = p /\ imported'[s] = imported[s] \cup ({p} \ store)
    BY <1>5, <2>1 DEF LookUp, TypeOK
  <2>3. ASSUME NEW t \in Syncs \ {s}, stage[t] # "lost" PROVE imported[t] \subseteq store
    BY <1>2, <2>2, <2>3 DEF OneImports, CountedIsStored
  <2>4. CountedIsStored'
    BY <1>2, <1>3, <2>2 DEF CountedIsStored
  <2>5. CountsAreDisjoint'
    BY <1>2, <1>3, <2>2, <2>3 DEF CountsAreDisjoint
  <2> QED BY <1>4, <2>4, <2>5
<1>6. CASE Upsert(s)
  <2>1. /\ stage[s] = "upsert" /\ stage'[s] = "lookup" /\ store' = store \cup {item[s]}
        /\ imported' = imported
    BY <1>6 DEF Upsert, TypeOK
  <2>2. CountedIsStored'
    BY <1>2, <1>3, <2>1 DEF CountedIsStored
  <2>3. CountsAreDisjoint'
    BY <1>2, <1>3, <2>1 DEF CountsAreDisjoint
  <2> QED BY <1>4, <2>2, <2>3
<1>7. CASE EndImport(s)
  <2>1. stage[s] = "lookup" /\ stage'[s] \in {"done", "report"} /\ UNCHANGED importVars
    BY <1>7 DEF EndImport, TypeOK
  <2>2. CountedIsStored' /\ CountsAreDisjoint'
    BY <1>2, <1>3, <2>1 DEF CountedIsStored, CountsAreDisjoint, importVars
  <2> QED BY <1>4, <2>2
<1>8. CASE SyncFails(s)
  <2>1. store' = store /\ imported'[s] = {}
    BY <1>8 DEF SyncFails, ToCatch, TypeOK
  <2>2. CountedIsStored'
    BY <1>2, <1>3, <2>1 DEF CountedIsStored
  <2>3. CountsAreDisjoint'
    BY <1>2, <1>3, <2>1 DEF CountsAreDisjoint
  <2> QED BY <1>4, <2>2, <2>3
<1> QED BY <1>5, <1>6, <1>7, <1>8 DEF ImportStep

LEMMA StepCounts ==
    /\ TypeOK /\ NoEarlyHandler /\ UpsertHasItem /\ CountedOnce /\ [Next]_vars
    => CountedOnce'
<1> SUFFICES ASSUME TypeOK, NoEarlyHandler, UpsertHasItem, CountedOnce, [Next]_vars
             PROVE  CountedOnce'
    OBVIOUS
<1> USE DEF Importing, importVars, historyVars
<1>0. Handlers \subseteq Syncs /\ Direct \subseteq Syncs
    BY HandlersAreSyncs
<1>1. ASSUME NEW h \in Handlers, HandlerStep(h) PROVE CountedOnce'
  <2>1. CASE Announce(h)
    BY <1>0, <2>1, StartKeepsCounts DEF Announce
  <2>2. CASE CheckNew(h) \/ TryLock(h) \/ Refuse(h) \/ Report(h)
    <3>1. UNCHANGED importVars /\ tainted' = tainted
      BY <2>2 DEF CheckNew, TryLock, Refuse, Report
    <3>2. ASSUME NEW s \in Syncs
          PROVE  /\ stage'[s] \in Importing => stage'[s] = stage[s]
                 /\ stage[s] = "lost" => stage'[s] = "lost"
                 /\ stage[s] = "upsert" => stage'[s] \in {"upsert", "lost"}
      BY <2>2 DEF CheckNew, TryLock, Refuse, Report, TypeOK
    <3> QED BY <3>1, <3>2, QuietImport
  <2>3. CASE Apologise(h) \/ Release(h) \/ RedisFails(h)
    <3>1. UNCHANGED importVars /\ tainted' = tainted
      BY <2>3 DEF Apologise, Release, RedisFails
    <3>2. ASSUME NEW s \in Syncs
          PROVE  /\ stage'[s] \in Importing => stage'[s] = stage[s]
                 /\ stage[s] = "lost" => stage'[s] = "lost"
                 /\ stage[s] = "upsert" => stage'[s] \in {"upsert", "lost"}
      BY <2>3 DEF Apologise, Release, RedisFails, TypeOK
    <3> QED BY <3>1, <3>2, QuietImport
  <2> QED BY <1>1, <2>1, <2>2, <2>3 DEF HandlerStep
<1>2. ASSUME NEW d \in Direct, StartDirect(d) PROVE CountedOnce'
    BY <1>0, <1>2, StartKeepsCounts DEF StartDirect
<1>3. ASSUME \/ \E m \in Messages : Publish(m)
             \/ \E p \in Processes : Disconnect(p) \/ Reconnect(p) \/ Crash(p)
             \/ NextMillisecond \/ Elapse
      PROVE  CountedOnce'
  <2>1. tainted' = tainted
    BY <1>3 DEF Publish, Disconnect, Reconnect, Crash, NextMillisecond, Elapse
  <2>2. UNCHANGED importVars
    BY <1>3 DEF Publish, Disconnect, Reconnect, Crash, NextMillisecond, Elapse
  <2>3. ASSUME NEW s \in Syncs
        PROVE  /\ stage'[s] \in Importing => stage'[s] = stage[s]
               /\ stage[s] = "lost" => stage'[s] = "lost"
               /\ stage[s] = "upsert" => stage'[s] \in {"upsert", "lost"}
    BY <1>3, OtherMoves
  <2> QED BY <2>1, <2>2, <2>3, QuietImport
<1>4. CASE UNCHANGED vars
    BY <1>4, QuietImport DEF vars
<1> QED BY <1>1, <1>2, <1>3, <1>4, ImportKeepsCounts DEF Next

-----------------------------------------------------------------------------
(* What becomes of a delivery *)

\* The steps that move handler h, and what the user hears at each.
Course(h) ==
    \/ stage'[h] = stage[h] /\ outcome'[h] = outcome[h]
    \/ stage[h] = "none" /\ stage'[h] = "queued" /\ outcome'[h] = outcome[h]
    \/ /\ stage[h] \notin {"none", "done", "jammed"} /\ stage'[h] = "lost"
       /\ outcome'[h] = outcome[h]
    \/ /\ stage[h] = "queued" /\ stage'[h] = "done" /\ outcome'[h] = "twin"
       /\ msTaken /\ ahead'[h] = through
    \/ /\ stage[h] \in {"queued", "lock", "refuse"} /\ stage'[h] = "done"
       /\ outcome'[h] \in Answer \cup {"unheard"}
    \/ /\ stage[h] \notin {"none", "done", "jammed", "lost"}
       /\ stage'[h] \in {"lock", "refuse", "announce", "report", "apologise"} \cup Importing
       /\ outcome'[h] = outcome[h]
    \/ /\ stage[h] \in {"report", "apologise"} /\ stage'[h] = "release"
       /\ outcome'[h] \in Answer \cup {"unheard"}
    \/ /\ stage[h] = "release" /\ stage'[h] \in {"done", "jammed"}
       /\ outcome'[h] = outcome[h]

LEMMA Courses ==
    ASSUME TypeOK, NoEarlyHandler, [Next]_vars, NEW h \in Handlers
    PROVE  Course(h)
<1> USE DEF Course, Answer, Importing
<1>0. h \in Syncs /\ h \notin Direct /\ Handlers \subseteq Syncs
    BY HandlersAreSyncs
<1>1. ASSUME NEW g \in Handlers, HandlerStep(g) PROVE Course(h)
  <2>1. CASE g # h
    <3>1. stage'[h] = stage[h]
      BY <1>0, <1>1, <2>1, OneSyncMoves
    <3>2. outcome'[h] = outcome[h]
      BY <1>1, <2>1 DEF HandlerStep, CheckNew, TryLock, Refuse, Announce, Report,
         Apologise, Release, RedisFails, TypeOK
    <3> QED BY <3>1, <3>2
  <2>2. CASE g = h
    <3>1. CASE CheckNew(h) \/ TryLock(h) \/ Refuse(h)
      BY <1>0, <3>1 DEF CheckNew, TryLock, Refuse, TypeOK
    <3>2. CASE Announce(h) \/ Report(h) \/ Apologise(h)
      BY <1>0, <3>2 DEF Announce, StartImport, Report, Apologise, TypeOK
    <3>3. CASE Release(h) \/ RedisFails(h)
      BY <1>0, <3>3 DEF Release, RedisFails, TypeOK
    <3> QED BY <1>1, <2>2, <3>1, <3>2, <3>3 DEF HandlerStep
  <2> QED BY <2>1, <2>2
<1>2. ASSUME NEW s \in Syncs, ImportStep(s) PROVE Course(h)
    BY <1>0, <1>2 DEF ImportStep, LookUp, Upsert, EndImport, SyncFails, ToCatch, TypeOK
<1>3. ASSUME NEW d \in Direct, StartDirect(d) PROVE Course(h)
  <2>1. stage'[h] = stage[h]
    BY <1>0, <1>3, HandlersAreSyncs, OneSyncMoves
  <2> QED BY <1>3, <2>1 DEF StartDirect
<1>4. ASSUME \/ \E m \in Messages : Publish(m)
             \/ \E p \in Processes : Disconnect(p) \/ Reconnect(p) \/ Crash(p)
             \/ NextMillisecond \/ Elapse
      PROVE  Course(h)
  <2>1. outcome' = outcome
    BY <1>4 DEF Publish, Disconnect, Reconnect, Crash, NextMillisecond, Elapse
  <2>2. \/ stage'[h] = stage[h]
        \/ stage[h] = "none" /\ stage'[h] = "queued"
        \/ stage[h] \notin {"none", "done", "jammed"} /\ stage'[h] = "lost"
    BY <1>0, <1>4, OtherMoves
  <2> QED BY <2>1, <2>2
<1>5. CASE UNCHANGED vars
    BY <1>5 DEF vars
<1> QED BY <1>1, <1>2, <1>3, <1>4, <1>5 DEF Next

\* What a step does to the dedupe key and its history.
LEMMA KeyMoves ==
    ASSUME TypeOK, [Next]_vars
    PROVE  \/ /\ ahead' = ahead /\ through' \in {through, {}}
              /\ msTaken' => msTaken /\ through' = through
           \/ \E h \in Handlers : CheckNew(h)
    BY DEF Next, vars, keyVars, Publish, Disconnect, Reconnect, Crash, HandlerStep, TryLock,
       Refuse, Announce, Report, Apologise, Release, RedisFails, ImportStep, LookUp,
       Upsert, EndImport, SyncFails, StartDirect, NextMillisecond, Elapse

\* The dedupe key is set by a handler that goes on to the lock, and sends away any other.
LEMMA KeyIsChecked ==
    ASSUME TypeOK, NEW h \in Handlers, CheckNew(h)
    PROVE  /\ stage[h] = "queued" /\ \A g \in Handlers \ {h} : ahead'[g] = ahead[g]
           /\ \/ /\ msTaken /\ through' = through /\ ahead'[h] = through
                 /\ outcome'[h] = "twin" /\ stage'[h] = "done"
              \/ /\ ~msTaken /\ through' = through \cup {h} /\ ahead'[h] = ahead[h]
                 /\ stage'[h] = "lock" /\ outcome'[h] = outcome[h]
    BY HandlersAreSyncs DEF CheckNew, TypeOK

LEMMA StepAnswered ==
    TypeOK /\ NoEarlyHandler /\ Answered /\ [Next]_vars => Answered'
<1> SUFFICES ASSUME TypeOK, NoEarlyHandler, Answered, [Next]_vars PROVE Answered'
    OBVIOUS
<1> USE DEF Answer, Importing
<1>1. \A h \in Handlers : Course(h)
    BY Courses
<1>2. DeliveredSomewhere'
  <2>1. SUFFICES ASSUME NEW m \in sent' PROVE \E p \in Processes : stage'[<<p, m>>] # "none"
      BY DEF DeliveredSomewhere
  <2>2. ASSUME m \in sent PROVE \E p \in Processes : stage'[<<p, m>>] # "none"
    <3>1. PICK p \in Processes : stage[<<p, m>>] # "none"
      BY <2>2 DEF Answered, DeliveredSomewhere
    <3>2. <<p, m>> \in Handlers
      BY <2>2, HandlersAreSyncs DEF TypeOK
    <3> QED BY <1>1, <3>1, <3>2 DEF Course
  <2>3. ASSUME m \notin sent PROVE \E p \in Processes : stage'[<<p, m>>] # "none"
    <3>1. PICK n \in Messages : Publish(n)
      <4>1. sent' # sent
        BY <2>1, <2>3
      <4> QED BY <4>1 DEF Next, vars, queueVars, Disconnect, Reconnect, Crash, HandlerStep,
             CheckNew, TryLock, Refuse, Announce, Report, Apologise, Release,
             RedisFails, ImportStep, LookUp, Upsert, EndImport, SyncFails, StartDirect,
             NextMillisecond, Elapse
    <3>2. n = m /\ m \in Messages
      BY <2>1, <2>3, <3>1 DEF Publish
    <3>3. PICK p \in online : TRUE
      BY <3>1 DEF Publish
    <3>4. p \in Processes /\ <<p, m>> \in Syncs
      BY <3>2, HandlersAreSyncs DEF TypeOK
    <3>5. stage'[<<p, m>>] = "queued"
      BY <3>1, <3>2, <3>3, <3>4 DEF Publish
    <3> QED BY <3>4, <3>5
  <2> QED BY <2>2, <2>3
<1>3. EndedIsAnswered'
  <2>1. SUFFICES ASSUME NEW h \in Handlers,
                        stage'[h] \in {"release", "jammed", "done"}
                 PROVE  outcome'[h] # "none"
      BY DEF EndedIsAnswered
  <2>2. stage[h] \in {"release", "jammed", "done"} => outcome[h] # "none"
      BY <2>1 DEF Answered, EndedIsAnswered
  <2> QED BY <1>1, <2>1, <2>2 DEF Course
<1>4. TwinHasAnElder
    BY DEF Answered
<1>5. ASSUME NEW g \in Handlers, Settling(g) PROVE Settling(g)'
  <2>1. Course(g)
      BY <1>1
  <2> QED BY <1>5, <2>1 DEF Course, Settling
<1>6. through \subseteq Handlers /\ \A h \in Handlers : ahead[h] \subseteq Handlers
    BY DEF TypeOK
<1>7. ASSUME ahead' = ahead, through' \in {through, {}},
             msTaken' => msTaken /\ through' = through
      PROVE  TwinHasAnElder'
  <2>1. ASSUME NEW h \in Handlers, outcome'[h] = "twin" PROVE stage'[h] = "done" /\ ahead'[h] # {}
    BY <1>1, <1>4, <1>7, <2>1 DEF Course, TwinHasAnElder
  <2>2. msTaken' => through' # {}
    BY <1>4, <1>7 DEF TwinHasAnElder
  <2>3. ASSUME NEW g \in through' PROVE Settling(g)'
    BY <1>4, <1>5, <1>6, <1>7, <2>3 DEF TwinHasAnElder
  <2>4. ASSUME NEW h \in Handlers, NEW g \in ahead'[h] PROVE Settling(g)'
    BY <1>4, <1>5, <1>6, <1>7, <2>4 DEF TwinHasAnElder
  <2> QED BY <2>1, <2>2, <2>3, <2>4 DEF TwinHasAnElder
<1>8. ASSUME NEW h \in Handlers, CheckNew(h) PROVE TwinHasAnElder'
  <2>1. /\ stage[h] = "queued" /\ outcome[h] # "twin"
        /\ \A g \in Handlers \ {h} : ahead'[g] = ahead[g]
    BY <1>4, <1>8, KeyIsChecked DEF TwinHasAnElder
  <2>2. ASSUME NEW g \in Handlers \ {h}, outcome'[g] = "twin"
        PROVE  stage'[g] = "done" /\ ahead'[g] # {}
    <3>1. outcome[g] = "twin" /\ stage'[g] = stage[g]
      BY <1>8, <2>2, HandlersAreSyncs DEF CheckNew, TypeOK
    <3> QED BY <1>4, <2>1, <3>1 DEF TwinHasAnElder
  <2>3. CASE /\ msTaken /\ through' = through /\ ahead'[h] = through
             /\ outcome'[h] = "twin" /\ stage'[h] = "done"
    BY <1>4, <1>5, <1>6, <2>1, <2>2, <2>3 DEF TwinHasAnElder
  <2>4. CASE /\ ~msTaken /\ through' = through \cup {h} /\ ahead'[h] = ahead[h]
             /\ stage'[h] = "lock" /\ outcome'[h] = outcome[h]
    <3>1. Settling(h)'
      BY <2>1, <2>4 DEF Settling
    <3> QED BY <1>4, <1>5, <1>6, <2>1, <2>2, <2>4, <3>1 DEF TwinHasAnElder
  <2> QED BY <1>8, <2>3, <2>4, KeyIsChecked
<1>9. TwinHasAnElder'
    BY <1>7, <1>8, KeyMoves
<1> QED BY <1>2, <1>3, <1>9 DEF Answered

-----------------------------------------------------------------------------
(* Theorems *)

LEMMA InvStep == Inv /\ [Next]_vars => Inv'
    BY StepType, StepEarly, StepItem, StepLock, StepCounts, StepAnswered DEF Inv

\* The inductive invariant holds of every run.
THEOREM InvariantHolds == Spec => []Inv
<1> QED BY InitInv, InvStep, PTL DEF Spec

\* Every variable keeps its type.
THEOREM TypeCorrect == Spec => []TypeOK
<1>1. Inv => TypeOK
    BY DEF Inv
<1> QED BY <1>1, InvariantHolds, PTL

\* tryLock and unlock of RedisLockService keep two handlers of handleCatalogSyncMessage
\* from importing at one time, except in an overlap that an expired lock began.
THEOREM LockExcludes == Spec => []OneHandlerUnlessExpired
<1>1. Inv => OneHandlerUnlessExpired
    BY DEF Inv, WorkerHoldsLock, OneHandlerUnlessExpired, Working
<1> QED BY <1>1, InvariantHolds, PTL

\* A lock key that exists belongs to a handler at work, or to one that could not
\* delete it, however try, catch and finally are left.
THEOREM LockIsAccountedFor == Spec => []LockHasAHolder
<1>1. Inv => LockHasAHolder
    BY DEF Inv
<1> QED BY <1>1, InvariantHolds, PTL

\* As long as no two syncs have overlapped, no product is counted as imported by two
\* of them: the look-up and the upsert of upsertExternalProduct need no more.
THEOREM ImportsAreCountedOnce == Spec => []ImportedOnce
<1>1. Inv => ImportedOnce
    BY DEF Inv, CountedOnce, ImportedOnce
<1> QED BY <1>1, InvariantHolds, PTL

\* handleCatalogSyncMessage answers every request whose deliveries have ended, unless a
\* notification or Redis failed, or isNewMessage sent each of them away because in its
\* millisecond the handler of another request had the dedupe key, and that one goes on.
THEOREM RequestsAreAnswered == Spec => []RequestAnswered
<1>1. ASSUME Inv, NEW m \in sent,
             \A p \in Processes : stage[<<p, m>>] \in {"none", "done"},
             \A p \in Processes : ~Heard(<<p, m>>)
      PROVE  /\ \E p \in Processes : stage[<<p, m>>] = "done"
             /\ \A p \in Processes : stage[<<p, m>>] = "done" =>
                   \E g \in ahead[<<p, m>>] : g[2] # m /\ outcome[g] # "twin"
  <2>1. m \in Messages /\ \A p \in Processes : <<p, m>> \in Handlers
    BY <1>1, HandlersAreSyncs DEF Inv, TypeOK
  <2>2. \E p \in Processes : stage[<<p, m>>] = "done"
    BY <1>1 DEF Inv, Answered, DeliveredSomewhere
  <2>3. ASSUME NEW p \in Processes, stage[<<p, m>>] = "done" PROVE outcome[<<p, m>>] = "twin"
    <3>1. outcome[<<p, m>>] \in Outcome /\ outcome[<<p, m>>] # "none"
      BY <1>1, <2>1, <2>3 DEF Inv, TypeOK, Answered, EndedIsAnswered
    <3> QED BY <1>1, <3>1 DEF Heard, Outcome
  <2>4. ASSUME NEW p \in Processes, stage[<<p, m>>] = "done"
        PROVE  \E g \in ahead[<<p, m>>] : g[2] # m /\ outcome[g] # "twin"
    <3>1. PICK g \in ahead[<<p, m>>] : Settling(g)
      BY <1>1, <2>1, <2>3, <2>4 DEF Inv, Answered, TwinHasAnElder
    <3>2. g \in Handlers
      BY <1>1, <2>1, <3>1 DEF Inv, TypeOK
    <3>3. g[2] # m
      <4>1. SUFFICES ASSUME g[2] = m PROVE FALSE
        OBVIOUS
      <4>2. g[1] \in Processes /\ g = <<g[1], m>>
        BY <3>2, <4>1, HandlersAreSyncs
      <4>3. stage[g] = "done"
        BY <1>1, <3>1, <4>2 DEF Settling
      <4> QED BY <2>3, <3>1, <4>2, <4>3 DEF Settling
    <3> QED BY <3>1, <3>3 DEF Settling
  <2> QED BY <2>2, <2>4
<1>2. Inv => RequestAnswered
    BY <1>1 DEF RequestAnswered
<1> QED BY <1>2, InvariantHolds, PTL
=============================================================================
