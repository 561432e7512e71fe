---------------------------- MODULE CatalogSync ----------------------------
(***************************************************************************)
(* Catalog synchronisation of one merchant.  The outbox publishes requests *)
(* to the exchange catalog.sync; every process of the application has a    *)
(* temporary exclusive queue there (subscribe is called without a queue    *)
(* name), so every connected process gets a copy.  Its handler drops the   *)
(* request if its dedupe key is taken, takes a Redis lock with a time to   *)
(* live, tells the user, imports the products one by one, tells the user   *)
(* again and deletes the lock.  The switch of the product source may call  *)
(* syncForMerchant directly, without the lock.                             *)
(*                                                                         *)
(* Sources: modules/catalog/catalog.consumer.ts and catalog.service.ts,    *)
(* common/locks/redis-lock.service.ts, product-sync.service.ts, the        *)
(* consumer side of infra/rabbit/rabbit.service.ts.                        *)
(*                                                                         *)
(* A message carries neither headers.messageId nor id in its content, so   *)
(* the dedupe key is the merchant with the current millisecond: a second   *)
(* copy of a request is just another message.  Only the answer that ends a *)
(* handler is kept of its notifications.                                   *)
(***************************************************************************)
EXTENDS Naturals

CONSTANTS
    Processes,    \* application processes, each with a CatalogConsumer
    Messages,     \* requests, which the outbox publishes as { type, ..., payload }
    Direct,       \* calls of syncForMerchant by handleImmediateSync
    Products,     \* externalIds that the shop's API returns
    NoProduct,
    Free,         \* the lock key does not exist
    LockTTL,      \* 10 * ONE_MINUTE_MS, in units of the clock
    MaxFailures,  \* bound: how many calls of a sync fail
    MaxCrashes    \* bound: how many processes die or lose their connection

\* A handler is the delivery of one message to one process.
Handlers == Processes \X Messages
Syncs == Handlers \cup Direct

ASSUME SyncsAssumption ==
    /\ Handlers \cap Direct = {}
    /\ Free \notin Syncs
    /\ NoProduct \notin Products
ASSUME BoundsAssumption ==
    /\ LockTTL \in Nat \ {0}
    /\ MaxFailures \in Nat
    /\ MaxCrashes \in Nat

VARIABLES
    online,    \* processes with a channel, a temporary queue and a consumer
    sent,      \* messages published so far
    stage,     \* stage[s]: where handler or direct call s stands
    outcome,   \* outcome[h]: what the user heard of delivery h in the end
    msTaken,   \* the dedupe key of the current millisecond exists
    through,   \* handlers that isNewMessage let through in this millisecond (history)
    ahead,     \* ahead[h]: those it had let through when it sent h away (history)
    lock,      \* Free, or the handler that set the lock key (its value is "1")
    lockLeft,  \* time left until the lock key expires
    left,      \* left[s]: products the loop of s has not come to
    item,      \* item[s]: the product between findByExternal and the upsert
    imported,  \* imported[s]: products that s found missing
    store,     \* products in the database
    overrun,   \* a lock expired under a handler of the current overlap (history)
    tainted,   \* two syncs have imported at the same time (history)
    failures, crashes

queueVars   == <<online, sent>>
keyVars     == <<msTaken, through, ahead>>
lockVars    == <<lock, lockLeft>>
importVars  == <<left, item, imported, store>>
historyVars == <<overrun, tainted>>
boundVars   == <<failures, crashes>>
vars == <<queueVars, stage, outcome, keyVars, lockVars, importVars, historyVars,
          boundVars>>

\* "queued": in the process's queue; "lock": the message is new; "refuse": the lock
\* was taken; "announce" .. "release": between tryLock and unlock; "jammed": unlock
\* threw; "lost": the queue or the process is gone.
Importing == {"lookup", "upsert"}
Critical == {"announce", "report", "apologise", "release"} \cup Importing
Stage == {"none", "queued", "lock", "refuse", "done", "jammed", "lost"} \cup Critical
Answer == {"refused", "completed", "failed"}
Outcome == {"none", "twin", "unheard"} \cup Answer

TypeOK ==
    /\ online \in SUBSET Processes
    /\ sent \in SUBSET Messages
    /\ stage \in [Syncs -> Stage]
    /\ outcome \in [Handlers -> Outcome]
    /\ msTaken \in BOOLEAN
    /\ through \in SUBSET Handlers
    /\ ahead \in [Handlers -> SUBSET Handlers]
    /\ lock \in Handlers \cup {Free}
    /\ lockLeft \in 0..LockTTL
    /\ left \in [Syncs -> SUBSET Products]
    /\ item \in [Syncs -> Products \cup {NoProduct}]
    /\ imported \in [Syncs -> SUBSET Products]
    /\ store \in SUBSET Products
    /\ overrun \in BOOLEAN
    /\ tainted \in BOOLEAN
    /\ failures \in 0..MaxFailures
    /\ crashes \in 0..MaxCrashes

Init ==
    /\ online = Processes
    /\ sent = {}
    /\ stage = [s \in Syncs |-> "none"]
    /\ outcome = [h \in Handlers |-> "none"]
    /\ msTaken = FALSE
    /\ through = {}
    /\ ahead = [h \in Handlers |-> {}]
    /\ lock = Free
    /\ lockLeft = 0
    /\ left = [s \in Syncs |-> {}]
    /\ item = [s \in Syncs |-> NoProduct]
    /\ imported = [s \in Syncs |-> {}]
    /\ store = {}
    /\ overrun = FALSE
    /\ tainted = FALSE
    /\ failures = 0
    /\ crashes = 0

\* Handlers between tryLock and unlock.
Working == {h \in Handlers : stage[h] \in Critical}

-----------------------------------------------------------------------------
(* Publishing and the consumers' connections *)

\* publish() of some process, which ensureConnected has connected and subscribed
\* before: the exchange copies the message to the queue of every connected process.
Publish(m) ==
    /\ m \notin sent
    /\ online # {}
    /\ sent' = sent \cup {m}
    /\ stage' = [s \in Syncs |->
                    IF s \in online \X {m} THEN "queued" ELSE stage[s]]
    /\ UNCHANGED <<online, outcome, keyVars, lockVars, importVars, historyVars,
                   boundVars>>

\* The connection closes: the exclusive queue is deleted with what it holds;
\* handlers that run go on, their ack fails and changes nothing.
Disconnect(p) ==
    /\ p \in online
    /\ crashes < MaxCrashes
    /\ crashes' = crashes + 1
    /\ online' = online \ {p}
    /\ stage' = [s \in Syncs |->
                    IF s \in {p} \X Messages /\ stage[s] = "queued"
                    THEN "lost" ELSE stage[s]]
    /\ UNCHANGED <<sent, outcome, keyVars, lockVars, importVars, historyVars,
                   failures>>

\* The next publish or subscribe of the process connects it and subscribes again.
Reconnect(p) ==
    /\ p \notin online
    /\ online' = online \cup {p}
    /\ UNCHANGED <<sent, stage, outcome, keyVars, lockVars, importVars,
                   historyVars, boundVars>>

\* The process dies with its handlers; a lock one of them set stays until it expires.
Crash(p) ==
    /\ crashes < MaxCrashes
    /\ crashes' = crashes + 1
    /\ online' = online \ {p}
    /\ stage' = [s \in Syncs |->
                    IF s \in {p} \X Messages /\ stage[s] \notin {"none", "done", "jammed"}
                    THEN "lost" ELSE stage[s]]
    /\ overrun' = (overrun /\ Working \ ({p} \X Messages) # {})
    /\ UNCHANGED <<sent, outcome, keyVars, lockVars, importVars, tainted, failures>>

-----------------------------------------------------------------------------
(* handleCatalogSyncMessage *)

\* isNewMessage: SET idem:catalog-sync:<merchant>:<merchant>:<Date.now()> NX
CheckNew(h) ==
    /\ stage[h] = "queued"
    /\ IF msTaken
       THEN /\ stage' = [stage EXCEPT ![h] = "done"]
            /\ outcome' = [outcome EXCEPT ![h] = "twin"]
            /\ ahead' = [ahead EXCEPT ![h] = through]
            /\ UNCHANGED through
       ELSE /\ stage' = [stage EXCEPT ![h] = "lock"]
            /\ through' = through \cup {h}
            /\ UNCHANGED <<outcome, ahead>>
    /\ msTaken' = TRUE
    /\ UNCHANGED <<queueVars, lockVars, importVars, historyVars, boundVars>>

\* Mutation of NextMillisecond: the dedupe key is the merchant alone.
NextMillisecondSameKey ==
    /\ through # {}
    /\ through' = {}
    /\ UNCHANGED <<queueVars, stage, outcome, msTaken, ahead, lockVars, importVars,
                   historyVars, boundVars>>

\* Date.now() gives another dedupe key.
NextMillisecond ==
    /\ msTaken
    /\ msTaken' = FALSE
    /\ through' = {}
    /\ UNCHANGED <<queueVars, stage, outcome, ahead, lockVars, importVars, historyVars,
                   boundVars>>

\* Mutation of TryLock: a plain SET without NX.
TryLockWithoutNX(h) ==
    /\ stage[h] = "lock"
    /\ lock' = h
    /\ lockLeft' = LockTTL
    /\ stage' = [stage EXCEPT ![h] = "announce"]
    /\ UNCHANGED <<queueVars, outcome, keyVars, importVars, historyVars, boundVars>>

\* Mutation of TryLock: SET NX without PX.
TryLockForEver(h) ==
    /\ stage[h] = "lock"
    /\ IF lock = Free
       THEN /\ lock' = h
            /\ stage' = [stage EXCEPT ![h] = "announce"]
       ELSE /\ stage' = [stage EXCEPT ![h] = "refuse"]
            /\ UNCHANGED lock
    /\ UNCHANGED <<queueVars, outcome, keyVars, lockLeft, importVars, historyVars,
                   boundVars>>

\* tryLock: SET lock:catalog-sync:<merchant> "1" PX 600000 NX
TryLock(h) ==
    /\ stage[h] = "lock"
    /\ IF lock = Free
       THEN /\ lock' = h
            /\ lockLeft' = LockTTL
            /\ stage' = [stage EXCEPT ![h] = "announce"]
       ELSE /\ stage' = [stage EXCEPT ![h] = "refuse"]
            /\ UNCHANGED lockVars
    /\ UNCHANGED <<queueVars, outcome, keyVars, importVars, historyVars, boundVars>>

\* A call that a sync awaits may fail, at most MaxFailures times in a run.
Fails ==
    /\ failures < MaxFailures
    /\ failures' = failures + 1

\* notifySyncAlreadyRunning; if it throws, the message is nacked without requeue
\* and the temporary queue has no dead-letter exchange.
Refuse(h) ==
    /\ stage[h] = "refuse"
    /\ stage' = [stage EXCEPT ![h] = "done"]
    /\ \/ outcome' = [outcome EXCEPT ![h] = "refused"] /\ UNCHANGED failures
       \/ outcome' = [outcome EXCEPT ![h] = "unheard"] /\ Fails
    /\ UNCHANGED <<queueVars, keyVars, lockVars, importVars, historyVars, crashes>>

\* Mutation of StartImport: an entry of the shop without an id gets into the loop.
StartImportUnfiltered(s) ==
    /\ stage' = [stage EXCEPT ![s] = "lookup"]
    /\ left' = [left EXCEPT ![s] = Products \cup {NoProduct}]
    /\ imported' = [imported EXCEPT ![s] = {}]
    /\ tainted' = (tainted \/ \E t \in Syncs \ {s} : stage[t] \in Importing)
    /\ UNCHANGED <<item, store>>

\* A sync enters the import loop of syncForMerchant with the shop's products.
StartImport(s) ==
    /\ stage' = [stage EXCEPT ![s] = "lookup"]
    /\ left' = [left EXCEPT ![s] = Products]
    /\ imported' = [imported EXCEPT ![s] = {}]
    /\ tainted' = (tainted \/ \E t \in Syncs \ {s} : stage[t] \in Importing)
    /\ UNCHANGED <<item, store>>

\* The notification "started", then syncForMerchant reads the merchant and the shop.
Announce(h) ==
    /\ stage[h] = "announce"
    /\ StartImport(h)
    /\ UNCHANGED <<queueVars, outcome, keyVars, lockVars, overrun, boundVars>>

\* handleImmediateSync, of the switch of the product source: no lock, no dedupe key.
StartDirect(d) ==
    /\ stage[d] = "none"
    /\ StartImport(d)
    /\ UNCHANGED <<queueVars, outcome, keyVars, lockVars, overrun, boundVars>>

\* Mutation of LookUp: every product counts as imported.
LookUpBlindly(s) ==
    /\ stage[s] = "lookup"
    /\ \E p \in left[s] :
        /\ item' = [item EXCEPT ![s] = p]
        /\ imported' = [imported EXCEPT ![s] = @ \cup {p}]
    /\ stage' = [stage EXCEPT ![s] = "upsert"]
    /\ UNCHANGED <<queueVars, outcome, keyVars, lockVars, left, store, historyVars,
                   boundVars>>

\* findByExternal decides whether the product will count as created.
LookUp(s) ==
    /\ stage[s] = "lookup"
    /\ \E p \in left[s] :
        /\ item' = [item EXCEPT ![s] = p]
        /\ imported' = [imported EXCEPT ![s] = @ \cup ({p} \ store)]
    /\ stage' = [stage EXCEPT ![s] = "upsert"]
    /\ UNCHANGED <<queueVars, outcome, keyVars, lockVars, left, store, historyVars,
                   boundVars>>

\* upsertExternal; the index call that follows never throws.
Upsert(s) ==
    /\ stage[s] = "upsert"
    /\ store' = store \cup {item[s]}
    /\ left' = [left EXCEPT ![s] = @ \ {item[s]}]
    /\ item' = [item EXCEPT ![s] = NoProduct]
    /\ stage' = [stage EXCEPT ![s] = "lookup"]
    /\ UNCHANGED <<queueVars, outcome, keyVars, lockVars, imported, historyVars,
                   boundVars>>

EndImport(s) ==
    /\ stage[s] = "lookup"
    /\ left[s] = {}
    /\ stage' = [stage EXCEPT ![s] = IF s \in Direct THEN "done" ELSE "report"]
    /\ UNCHANGED <<queueVars, outcome, keyVars, lockVars, importVars, historyVars,
                   boundVars>>

\* The catch block is entered, the result of the sync is thrown away.
ToCatch(s) ==
    /\ Fails
    /\ stage' = [stage EXCEPT ![s] = IF s \in Direct THEN "done" ELSE "apologise"]
    /\ imported' = [imported EXCEPT ![s] = {}]
    /\ left' = [left EXCEPT ![s] = {}]
    /\ item' = [item EXCEPT ![s] = NoProduct]
    /\ UNCHANGED store

\* "started", the shop's API, the merchant, a product or "completed" throws.
SyncFails(s) ==
    /\ stage[s] \in {"announce", "report"} \cup Importing
    /\ ToCatch(s)
    /\ UNCHANGED <<queueVars, outcome, keyVars, lockVars, historyVars, crashes>>

\* The notification "completed".
Report(h) ==
    /\ stage[h] = "report"
    /\ stage' = [stage EXCEPT ![h] = "release"]
    /\ outcome' = [outcome EXCEPT ![h] = "completed"]
    /\ UNCHANGED <<queueVars, keyVars, lockVars, importVars, historyVars, boundVars>>

\* The notification "failed"; if it throws too, the finally block still runs.
Apologise(h) ==
    /\ stage[h] = "apologise"
    /\ stage' = [stage EXCEPT ![h] = "release"]
    /\ \/ outcome' = [outcome EXCEPT ![h] = "failed"] /\ UNCHANGED failures
       \/ outcome' = [outcome EXCEPT ![h] = "unheard"] /\ Fails
    /\ UNCHANGED <<queueVars, keyVars, lockVars, importVars, historyVars, crashes>>

\* The overlap that an expired lock began ends with its last handler.
Leave(h) == overrun' = (overrun /\ Working \ {h} # {})

\* Mutation of Release: no finally, the lock is left to expire.
ReleaseNothing(h) ==
    /\ stage[h] = "release"
    /\ stage' = [stage EXCEPT ![h] = "done"]
    /\ Leave(h)
    /\ UNCHANGED <<queueVars, outcome, keyVars, lockVars, importVars, tainted,
                   boundVars>>

\* unlock: DEL of the key, whoever set it.
Release(h) ==
    /\ stage[h] = "release"
    /\ lock' = Free
    /\ lockLeft' = 0
    /\ stage' = [stage EXCEPT ![h] = "done"]
    /\ Leave(h)
    /\ UNCHANGED <<queueVars, outcome, keyVars, importVars, tainted, boundVars>>

\* Redis refuses the dedupe key, the lock or the unlock: the handler throws and the
\* message is nacked without requeue.
RedisFails(h) ==
    /\ Fails
    /\ \/ /\ stage[h] \in {"queued", "lock"}
          /\ stage' = [stage EXCEPT ![h] = "done"]
          /\ outcome' = [outcome EXCEPT ![h] = "unheard"]
          /\ UNCHANGED overrun
       \/ /\ stage[h] = "release"
          /\ stage' = [stage EXCEPT ![h] = "jammed"]
          /\ Leave(h)
          /\ UNCHANGED outcome
    /\ UNCHANGED <<queueVars, keyVars, lockVars, importVars, tainted, crashes>>

\* One unit of time: the lock's time to live runs down, Redis deletes the key.
Elapse ==
    /\ lockLeft > 0
    /\ lockLeft' = lockLeft - 1
    /\ IF lockLeft = 1
       THEN /\ lock' = Free
            /\ overrun' = (overrun \/ lock \in Working)
       ELSE UNCHANGED <<lock, overrun>>
    /\ UNCHANGED <<queueVars, stage, outcome, keyVars, importVars, tainted, boundVars>>

-----------------------------------------------------------------------------
HandlerStep(h) ==
    \/ CheckNew(h) \/ TryLock(h) \/ Refuse(h)
    \/ Announce(h) \/ Report(h) \/ Apologise(h) \/ Release(h)
    \/ RedisFails(h)

ImportStep(s) == LookUp(s) \/ Upsert(s) \/ EndImport(s) \/ SyncFails(s)

Next ==
    \/ \E m \in Messages : Publish(m)
    \/ \E p \in Processes : Disconnect(p) \/ Reconnect(p) \/ Crash(p)
    \/ \E h \in Handlers : HandlerStep(h)
    \/ \E s \in Syncs : ImportStep(s)
    \/ \E d \in Direct : StartDirect(d)
    \/ NextMillisecond
    \/ Elapse

Spec == Init /\ [][Next]_vars

\* Every awaited call of a handler returns or throws, and time passes.
Fairness ==
    /\ \A h \in Handlers : WF_vars(HandlerStep(h) \/ ImportStep(h))
    /\ WF_vars(Elapse)

FairSpec == Spec /\ Fairness

-----------------------------------------------------------------------------
(* Properties *)

\* Two handlers import the merchant's catalog at one time only during an overlap
\* that began with a lock that expired under its holder; unlock deletes the key
\* whoever set it, so such an overlap may draw in more handlers, but the lock
\* works again as soon as the last of them has left.
OneHandlerUnlessExpired ==
    \A g, h \in Working : g # h => overrun

\* A lock key that exists was set by a handler that is still at work, or by one
\* that could not delete it (its process died, or unlock threw): no path through
\* try, catch and finally keeps the merchant locked out and refused with
\* "a sync is already running" for nothing.
LockHasAHolder ==
    lock # Free => lock \in Working \/ stage[lock] \in {"jammed", "lost"}

\* A product is reported as imported by two successful syncs only if syncs have
\* run at the same time: the look-up that decides "created" and the upsert are
\* two calls, and only the lock keeps them together.
ImportedOnce ==
    \A s, t \in Syncs :
        stage[s] = "done" /\ stage[t] = "done" /\ s # t
            => imported[s] \cap imported[t] = {} \/ tainted

\* Delivery h let the user hear something, or failed to.
Heard(h) == outcome[h] \in Answer \cup {"unheard"}

\* A request whose deliveries have all ended was answered to the user, unless a
\* notification or Redis failed, or every delivery that ended was sent away because in
\* its millisecond the handler of another request had taken the dedupe key, and that one
\* goes on.  Two deliveries of one request do not leave it unanswered between them.
RequestAnswered ==
    \A m \in sent :
        (\A p \in Processes : stage[<<p, m>>] \in {"none", "done"}) =>
            \/ \E p \in Processes : Heard(<<p, m>>)
            \/ /\ \E p \in Processes : stage[<<p, m>>] = "done"
               /\ \A p \in Processes : stage[<<p, m>>] = "done" =>
                     \E g \in ahead[<<p, m>>] : g[2] # m /\ outcome[g] # "twin"

\* A merchant is never locked out for good, whatever handlers crash.
LockComesBack == lock # Free ~> lock = Free
=============================================================================
