--------------------------- MODULE TwoLevelCache ----------------------------
(***************************************************************************)
(* CacheService for one key: a map in each process (L1) over Redis (L2).   *)
(* get() copies a Redis entry into the process, getOrSet() fills a missing *)
(* one, one filler at a time as long as a lock in Redis lasts, and         *)
(* invalidate(), which ProductCommandsService calls after it has changed   *)
(* what the key was made from, clears the process it runs in and Redis.    *)
(*                                                                         *)
(* Sources: common/cache/cache.service.ts and its callers in               *)
(* modules/products/services/product-commands.service.ts.                  *)
(*                                                                         *)
(* Time is what is left of a lifetime: Tick takes one unit off every entry *)
(* and off the lock.  An entry with nothing left is as good as none.       *)
(***************************************************************************)
EXTENDS Naturals

CONSTANTS
    Nodes,       \* processes, each with its own L1
    Readers,     \* callers of getOrSet
    Writers,     \* callers that change the data and invalidate
    NodeOf,      \* the process each of them runs in
    Free,        \* no reader
    TTL,         \* lifetime of an entry
    LockTTL,     \* lifetime of the fill lock
    MaxWrites    \* bound: changes of the data

Redis == "redis"

ASSUME NodesAssumption == NodeOf \in [Readers \cup Writers -> Nodes] /\ Redis \notin Nodes
ASSUME CallersAssumption == Readers \cap Writers = {} /\ Free \notin Readers
ASSUME LifetimesAssumption == TTL \in Nat \ {0} /\ LockTTL \in Nat \ {0} /\ MaxWrites \in Nat

VARIABLES
    truth,      \* the version of the data
    l1,         \* l1[n]: the entry in process n
    l2,         \* the entry in Redis
    lock,       \* lock:fill:<key> in Redis: the reader that set it, and what is left of it
    reader,     \* reader[r]: the call that reader r awaits, the entry it carries
    writer,     \* writer[w]: the call that writer w awaits, what its scan found
    calm,       \* since the last change no reader's call was under way, nor a deletion
                \* whose scan came before it (history)
    swept,      \* what was cleared since the last change, as long as it is calm (history)
    outlived    \* a lock expired before its holder was through (history)

cacheVars == <<truth, l1, l2, lock, reader, writer, calm, swept, outlived>>

Entry == [v : 0..MaxWrites, left : 0..TTL]
NoEntry == [v |-> 0, left |-> 0]
Valid(e) == e.left > 0

\* get(), for the first and for the second time, comes to "keep" with a Redis entry, and
\* to "drop" with one that has expired.
ReaderStage == {"idle", "l2", "keep", "drop", "lock", "wait", "again", "keepAgain",
                "dropAgain", "fill", "store", "share", "unlock", "fillAlone",
                "storeAlone", "shareAlone"}
WriterStage == {"idle", "clear", "scan", "delete"}

CacheTypeOK ==
    /\ truth \in 0..MaxWrites
    /\ l1 \in [Nodes -> Entry]
    /\ l2 \in Entry
    /\ lock \in [by : Readers \cup {Free}, left : 0..LockTTL]
    /\ reader \in [Readers -> [at : ReaderStage, entry : Entry]]
    /\ writer \in [Writers -> [at : WriterStage, found : BOOLEAN]]
    /\ calm \in BOOLEAN
    /\ swept \in SUBSET (Nodes \cup {Redis})
    /\ outlived \in BOOLEAN

CacheInit ==
    /\ truth = 0
    /\ l1 = [n \in Nodes |-> NoEntry]
    /\ l2 = NoEntry
    /\ lock = [by |-> Free, left |-> 0]
    /\ reader = [r \in Readers |-> [at |-> "idle", entry |-> NoEntry]]
    /\ writer = [w \in Writers |-> [at |-> "idle", found |-> FALSE]]
    /\ calm = TRUE
    /\ swept = {}
    /\ outlived = FALSE

-----------------------------------------------------------------------------
(* get and getOrSet *)

GoOn(r, at) == reader' = [reader EXCEPT ![r].at = at]
Carry(r, at, e) == reader' = [reader EXCEPT ![r] = [at |-> at, entry |-> e]]
Idle(r) == Carry(r, "idle", NoEntry)

\* A valid L1 entry answers at once.  A call that finds none goes to Redis; from here
\* on it may carry what a writer has already changed.
MissL1(r) ==
    /\ reader[r].at \in {"idle", "wait"}
    /\ ~Valid(l1[NodeOf[r]])
    /\ GoOn(r, IF reader[r].at = "idle" THEN "l2" ELSE "again")
    /\ calm' = (calm /\ \A w \in Writers : writer[w].at = "idle")
    /\ swept' = IF calm' THEN swept ELSE {}
    /\ UNCHANGED <<truth, l1, l2, lock, writer, outlived>>

\* The caller that waited finds what another has filled.
HitL1(r) ==
    /\ reader[r].at = "wait"
    /\ Valid(l1[NodeOf[r]])
    /\ Idle(r)
    /\ UNCHANGED <<truth, l1, l2, lock, writer, calm, swept, outlived>>

\* The first get() of getOrSet goes on to one stage, the second to another.
Onward(r, first, second) == IF reader[r].at \in {"l2", "keep", "drop"} THEN first ELSE second

ReadL2(r) ==
    /\ reader[r].at \in {"l2", "again"}
    /\ IF Valid(l2)
       THEN Carry(r, Onward(r, "keep", "keepAgain"), l2)
       ELSE GoOn(r, Onward(r, "lock", "fillAlone"))
    /\ UNCHANGED <<truth, l1, l2, lock, writer, calm, swept, outlived>>

\* The entry from Redis keeps its expiry.
KeepInL1(r) ==
    /\ reader[r].at \in {"keep", "keepAgain"}
    /\ Valid(reader[r].entry)
    /\ l1' = [l1 EXCEPT ![NodeOf[r]] = reader[r].entry]
    /\ Idle(r)
    /\ UNCHANGED <<truth, l2, lock, writer, calm, swept, outlived>>

\* One that has expired since is deleted, whatever Redis holds by now ...
DeleteExpired(r) ==
    /\ reader[r].at \in {"keep", "keepAgain"}
    /\ ~Valid(reader[r].entry)
    /\ l2' = NoEntry
    /\ GoOn(r, Onward(r, "drop", "dropAgain"))
    /\ UNCHANGED <<truth, l1, lock, writer, calm, swept, outlived>>

\* ... in the process, too, and counts as a miss.
ForgetExpired(r) ==
    /\ reader[r].at \in {"drop", "dropAgain"}
    /\ l1' = [l1 EXCEPT ![NodeOf[r]] = NoEntry]
    /\ Carry(r, Onward(r, "lock", "fillAlone"), NoEntry)
    /\ UNCHANGED <<truth, l2, lock, writer, calm, swept, outlived>>

\* Mutation of TryFillLock: SET without NX.
SetFillLock(r) ==
    /\ reader[r].at = "lock"
    /\ lock' = [by |-> r, left |-> LockTTL]
    /\ GoOn(r, "fill")
    /\ UNCHANGED <<truth, l1, l2, writer, calm, swept, outlived>>

\* SET NX EX; whoever does not get the lock waits once, then fills without it.
TryFillLock(r) ==
    /\ reader[r].at = "lock"
    /\ IF lock.left = 0
       THEN lock' = [by |-> r, left |-> LockTTL] /\ GoOn(r, "fill")
       ELSE lock' = lock /\ GoOn(r, "wait")
    /\ UNCHANGED <<truth, l1, l2, writer, calm, swept, outlived>>

\* fn() reads the data.
Fill(r) ==
    /\ reader[r].at \in {"fill", "fillAlone"}
    /\ Carry(r, IF reader[r].at = "fill" THEN "store" ELSE "storeAlone",
             [v |-> truth, left |-> TTL])
    /\ UNCHANGED <<truth, l1, l2, lock, writer, calm, swept, outlived>>

\* set() writes the process first; the lifetime starts here.
StoreL1(r) ==
    LET e == [reader[r].entry EXCEPT !.left = TTL]
    IN  /\ reader[r].at \in {"store", "storeAlone"}
        /\ l1' = [l1 EXCEPT ![NodeOf[r]] = e]
        /\ Carry(r, IF reader[r].at = "store" THEN "share" ELSE "shareAlone", e)
        /\ UNCHANGED <<truth, l2, lock, writer, calm, swept, outlived>>

ShareL2(r) ==
    /\ reader[r].at \in {"share", "shareAlone"}
    /\ l2' = reader[r].entry
    /\ IF reader[r].at = "share" THEN GoOn(r, "unlock") ELSE Idle(r)
    /\ UNCHANGED <<truth, l1, lock, writer, calm, swept, outlived>>

\* The finally block deletes the lock, whosever it is by now.
Unlock(r) ==
    /\ reader[r].at = "unlock"
    /\ lock' = [by |-> Free, left |-> 0]
    /\ Idle(r)
    /\ UNCHANGED <<truth, l1, l2, writer, calm, swept, outlived>>

\* Redis does not answer or fn() throws.  A failed read counts as a miss, a failed
\* deletion is only logged; a failed write ends the call, by way of the finally block
\* where the lock is held.
CallFails(r) ==
    /\ \/ reader[r].at \in {"l2", "again"} /\ GoOn(r, Onward(r, "lock", "fillAlone"))
       \/ /\ reader[r].at \in {"keep", "keepAgain"} /\ ~Valid(reader[r].entry)
          /\ GoOn(r, Onward(r, "drop", "dropAgain"))
       \/ reader[r].at = "lock" /\ Idle(r)
       \/ reader[r].at \in {"fill", "share"} /\ GoOn(r, "unlock")
       \/ reader[r].at \in {"fillAlone", "shareAlone", "unlock"} /\ Idle(r)
    /\ UNCHANGED <<truth, l1, l2, lock, writer, calm, swept, outlived>>

-----------------------------------------------------------------------------
(* invalidate *)

AnyReader == \E r \in Readers : reader[r].at # "idle"

\* The data changes.
Change(w) ==
    /\ writer[w].at = "idle"
    /\ truth < MaxWrites
    /\ truth' = truth + 1
    /\ writer' = [writer EXCEPT ![w].at = "clear"]
    /\ calm' = (~AnyReader /\ \A x \in Writers : writer[x].at # "delete")
    /\ swept' = {}
    /\ UNCHANGED <<l1, l2, lock, reader, outlived>>

\* Only the process the writer runs in is cleared.
ClearL1(w) ==
    /\ writer[w].at = "clear"
    /\ l1' = [l1 EXCEPT ![NodeOf[w]] = NoEntry]
    /\ writer' = [writer EXCEPT ![w].at = "scan"]
    /\ swept' = IF ~calm THEN swept ELSE swept \cup {NodeOf[w]}
    /\ UNCHANGED <<truth, l2, lock, reader, calm, outlived>>

Scan(w) ==
    /\ writer[w].at = "scan"
    /\ writer' = [writer EXCEPT ![w] = [at |-> "delete", found |-> Valid(l2)]]
    /\ UNCHANGED <<truth, l1, l2, lock, reader, calm, swept, outlived>>

\* The keys that the scan found are deleted.
DeleteL2(w) ==
    /\ writer[w].at = "delete"
    /\ l2' = IF writer[w].found THEN NoEntry ELSE l2
    /\ writer' = [writer EXCEPT ![w] = [at |-> "idle", found |-> FALSE]]
    /\ swept' = IF ~calm THEN swept ELSE swept \cup {Redis}
    /\ UNCHANGED <<truth, l1, lock, reader, calm, outlived>>

\* Redis does not answer; invalidate() throws.
SweepFails(w) ==
    /\ writer[w].at \in {"scan", "delete"}
    /\ writer' = [writer EXCEPT ![w] = [at |-> "idle", found |-> FALSE]]
    /\ swept' = {}
    /\ UNCHANGED <<truth, l1, l2, lock, reader, calm, outlived>>

-----------------------------------------------------------------------------
Older(e) == [e EXCEPT !.left = IF @ = 0 THEN 0 ELSE @ - 1]
Live == {lock.left, l2.left} \cup {l1[n].left : n \in Nodes}
                             \cup {reader[r].entry.left : r \in Readers}

\* Mutation of Tick: entries in a process have no expiry.
TickRedis ==
    /\ Live # {0}
    /\ l2' = Older(l2)
    /\ lock' = IF lock.left <= 1 THEN [by |-> Free, left |-> 0] ELSE Older(lock)
    /\ reader' = [r \in Readers |-> [reader[r] EXCEPT !.entry = Older(@)]]
    /\ outlived' = (outlived \/ lock.left = 1)
    /\ UNCHANGED <<truth, l1, writer, calm, swept>>

\* Time passes.  Redis forgets the lock when its time is up.
Tick ==
    /\ Live # {0}
    /\ l1' = [n \in Nodes |-> Older(l1[n])]
    /\ l2' = Older(l2)
    /\ lock' = IF lock.left <= 1 THEN [by |-> Free, left |-> 0] ELSE Older(lock)
    /\ reader' = [r \in Readers |-> [reader[r] EXCEPT !.entry = Older(@)]]
    /\ outlived' = (outlived \/ lock.left = 1)
    /\ UNCHANGED <<truth, writer, calm, swept>>

ReaderStep(r) ==
    \/ MissL1(r) /\ reader[r].at # "idle"
    \/ HitL1(r) \/ ReadL2(r) \/ KeepInL1(r) \/ DeleteExpired(r) \/ ForgetExpired(r)
    \/ TryFillLock(r) \/ Fill(r) \/ StoreL1(r) \/ ShareL2(r) \/ Unlock(r)

WriterStep(w) == ClearL1(w) \/ Scan(w) \/ DeleteL2(w)

CacheNext ==
    \/ \E r \in Readers : ReaderStep(r) \/ MissL1(r) \/ CallFails(r)
    \/ \E w \in Writers : Change(w) \/ WriterStep(w) \/ SweepFails(w)
    \/ Tick

CacheSpec == CacheInit /\ [][CacheNext]_cacheVars

\* Awaited calls answer and time passes.
CacheFairness ==
    /\ \A r \in Readers : WF_cacheVars(ReaderStep(r))
    /\ \A w \in Writers : WF_cacheVars(WriterStep(w))
    /\ WF_cacheVars(Tick)

CacheFairSpec == CacheSpec /\ CacheFairness

-----------------------------------------------------------------------------
(* Properties *)

Outdated(e) == Valid(e) /\ e.v # truth

\* An invalidation reaches its own process and Redis: unless a reader's call or an
\* earlier invalidation's deletion was under way, neither gives the old data once it
\* has been cleared.  Other processes may.
InvalidationReaches ==
    /\ \A n \in swept \cap Nodes : ~Outdated(l1[n])
    /\ Redis \in swept => ~Outdated(l2)

\* Two callers fill under the lock at once only after a fill outlived a lock.
FillsAlternate ==
    ~outlived => \A r, s \in Readers :
        /\ reader[r].at \in {"fill", "store", "share"}
        /\ reader[s].at \in {"fill", "store", "share"}
        => r = s

\* The cache keeps to both.
CacheIsSound == InvalidationReaches /\ FillsAlternate

\* Once the data has come to rest, no process and not Redis goes on answering with
\* old data, whichever invalidation failed, was overtaken or never reached it.
StalenessEnds == <>[](~Outdated(l2) /\ \A n \in Nodes : ~Outdated(l1[n]))
=============================================================================
