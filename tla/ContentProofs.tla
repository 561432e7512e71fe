--------------------------- MODULE ContentProofs ----------------------------
(***************************************************************************)
(* Proofs about what is derived from stored data: the two-level cache, the *)
(* support bot's answers and the merchants' search index, and about the    *)
(* specification they are checked under together.                          *)
(***************************************************************************)
EXTENDS MCContent, TLAPS

-----------------------------------------------------------------------------
(* The cache: the inductive invariant *)

\* A caller at rest carries no entry.
HandsEmpty == \A r \in Readers : reader[r].at = "idle" => ~Valid(reader[r].entry)

\* While it is calm, readers and an invalidation do not overlap, and an invalidation
\* that is about to delete has found whatever Redis holds.
CalmWriters == calm => \A w \in Writers : writer[w].at # "idle" => ~AnyReader
ScanHolds ==
    calm => \A w \in Writers :
        writer[w].at = "delete" /\ ~writer[w].found => ~Valid(l2)

\* What was cleared counts only while it is calm; Redis comes last.
SweptCalm ==
    swept # {} => calm /\ (Redis \in swept \/ \E w \in Writers : writer[w].at # "idle")

\* From then on no reader carries the old data.
ReadersCurrent ==
    swept # {} => \A r \in Readers :
        /\ ~Outdated(reader[r].entry)
        /\ reader[r].at \in {"store", "storeAlone"} => reader[r].entry.v = truth

\* As long as no lock expired early, who fills under the lock holds it.
HoldersHold ==
    ~outlived => \A r \in Readers :
        reader[r].at \in {"fill", "store", "share", "unlock"} =>
            lock.by = r /\ lock.left > 0

CacheInv ==
    /\ CacheTypeOK
    /\ HandsEmpty
    /\ CalmWriters
    /\ ScanHolds
    /\ SweptCalm
    /\ ReadersCurrent
    /\ InvalidationReaches
    /\ HoldersHold

LEMMA EntriesAre ==
    /\ NoEntry \in Entry /\ ~Valid(NoEntry)
    /\ \A v \in 0..MaxWrites : [v |-> v, left |-> TTL] \in Entry
    /\ \A e \in Entry : [e EXCEPT !.left = TTL] = [v |-> e.v, left |-> TTL]
    /\ \A e \in Entry : e.v \in 0..MaxWrites /\ e.left \in 0..TTL
BY LifetimesAssumption DEF Entry, NoEntry, Valid

LEMMA CacheInitially == CacheInit => CacheInv
<1> SUFFICES ASSUME CacheInit PROVE CacheInv
  OBVIOUS
<1> USE LifetimesAssumption
<1>1. CacheTypeOK
  <2>1. 0 \in 0..MaxWrites /\ 0 \in 0..LockTTL
    OBVIOUS
  <2> QED
    BY <2>1, EntriesAre DEF CacheInit, CacheTypeOK, ReaderStage, WriterStage
<1>2. HandsEmpty
  BY DEF CacheInit, HandsEmpty, NoEntry, Valid
<1>3. CalmWriters /\ ScanHolds
  BY DEF CacheInit, CalmWriters, ScanHolds, AnyReader
<1>4. SweptCalm /\ ReadersCurrent /\ InvalidationReaches
  BY DEF CacheInit, SweptCalm, ReadersCurrent, InvalidationReaches
<1>5. HoldersHold
  BY DEF CacheInit, HoldersHold
<1> QED
  BY <1>1, <1>2, <1>3, <1>4, <1>5 DEF CacheInv

\* Every step keeps the types: first the readers' ...
LEMMA ReaderTypes ==
    ASSUME CacheTypeOK, NEW r \in Readers, ReaderStep(r) \/ MissL1(r) \/ CallFails(r)
    PROVE  CacheTypeOK'
<1> USE NodesAssumption, EntriesAre DEF CacheTypeOK
<1>a. ASSUME NEW at \in ReaderStage, GoOn(r, at)
      PROVE  reader' \in [Readers -> [at : ReaderStage, entry : Entry]]
  BY <1>a DEF GoOn
<1>b. ASSUME NEW at \in ReaderStage, NEW e \in Entry, Carry(r, at, e)
      PROVE  reader' \in [Readers -> [at : ReaderStage, entry : Entry]]
  BY <1>b DEF Carry
<1>c. Idle(r) => reader' \in [Readers -> [at : ReaderStage, entry : Entry]]
  BY <1>b DEF Idle, ReaderStage
<1>1. CASE MissL1(r)
  <2>1. reader' \in [Readers -> [at : ReaderStage, entry : Entry]]
    BY <1>1, <1>a DEF MissL1, ReaderStage
  <2>2. swept' \in SUBSET (Nodes \cup {Redis}) /\ calm' \in BOOLEAN
    BY <1>1 DEF MissL1
  <2> QED
    BY <1>1, <2>1, <2>2 DEF MissL1
<1>2. CASE HitL1(r)
  BY <1>2, <1>c DEF HitL1
<1>3. CASE ReadL2(r)
  <2>1. reader' \in [Readers -> [at : ReaderStage, entry : Entry]]
    BY <1>3, <1>a, <1>b DEF ReadL2, Onward, ReaderStage
  <2> QED
    BY <1>3, <2>1 DEF ReadL2
<1>4. CASE KeepInL1(r)
  BY <1>4, <1>c DEF KeepInL1
<1>5. CASE DeleteExpired(r)
  <2>1. reader' \in [Readers -> [at : ReaderStage, entry : Entry]]
    BY <1>5, <1>a DEF DeleteExpired, Onward, ReaderStage
  <2> QED
    BY <1>5, <2>1 DEF DeleteExpired
<1>6. CASE ForgetExpired(r)
  <2>1. reader' \in [Readers -> [at : ReaderStage, entry : Entry]]
    BY <1>6, <1>b DEF ForgetExpired, Onward, ReaderStage
  <2> QED
    BY <1>6, <2>1 DEF ForgetExpired
<1>7. CASE TryFillLock(r)
  <2>1. reader' \in [Readers -> [at : ReaderStage, entry : Entry]]
    BY <1>7, <1>a DEF TryFillLock, ReaderStage
  <2>2. lock' \in [by : Readers \cup {Free}, left : 0..LockTTL]
    BY <1>7, LifetimesAssumption DEF TryFillLock
  <2> QED
    BY <1>7, <2>1, <2>2 DEF TryFillLock
<1>8. CASE Fill(r)
  BY <1>8, <1>b DEF Fill, ReaderStage
<1>9. CASE StoreL1(r)
  <2>1. [reader[r].entry EXCEPT !.left = TTL] \in Entry
    <3>1. reader[r].entry \in Entry
      OBVIOUS
    <3>2. [reader[r].entry EXCEPT !.left = TTL] = [v |-> reader[r].entry.v, left |-> TTL]
      BY <3>1
    <3>3. reader[r].entry.v \in 0..MaxWrites
      BY <3>1
    <3> QED
      BY <3>2, <3>3
  <2>2. reader' \in [Readers -> [at : ReaderStage, entry : Entry]]
    BY <1>9, <2>1, <1>b DEF StoreL1, ReaderStage
  <2> QED
    BY <1>9, <2>1, <2>2 DEF StoreL1
<1>10. CASE ShareL2(r)
  <2>1. reader' \in [Readers -> [at : ReaderStage, entry : Entry]]
    BY <1>10, <1>a, <1>c DEF ShareL2, ReaderStage
  <2> QED
    BY <1>10, <2>1 DEF ShareL2
<1>11. CASE Unlock(r)
  BY <1>11, <1>c, LifetimesAssumption DEF Unlock
<1>12. CASE CallFails(r)
  <2>1. reader' \in [Readers -> [at : ReaderStage, entry : Entry]]
    BY <1>12, <1>a, <1>c DEF CallFails, Onward, ReaderStage
  <2> QED
    BY <1>12, <2>1 DEF CallFails
<1> QED
  BY <1>1, <1>2, <1>3, <1>4, <1>5, <1>6, <1>7, <1>8, <1>9, <1>10, <1>11, <1>12
  DEF ReaderStep

\* ... then the writers' and the clock's.
LEMMA WriterTypes ==
    ASSUME CacheTypeOK, NEW w \in Writers, Change(w) \/ WriterStep(w) \/ SweepFails(w)
    PROVE  CacheTypeOK'
<1> USE NodesAssumption, EntriesAre DEF CacheTypeOK, WriterStage
<1>1. CASE Change(w)
  <2>1. truth' \in 0..MaxWrites
    BY <1>1, LifetimesAssumption DEF Change
  <2>2. calm' \in BOOLEAN
    BY <1>1 DEF Change
  <2>3. writer' \in [Writers -> [at : WriterStage, found : BOOLEAN]]
    BY <1>1 DEF Change
  <2> QED
    BY <1>1, <2>1, <2>2, <2>3 DEF Change
<1>2. CASE ClearL1(w)
  <2>1. l1' \in [Nodes -> Entry]
    BY <1>2 DEF ClearL1
  <2>2. swept' \in SUBSET (Nodes \cup {Redis})
    BY <1>2 DEF ClearL1
  <2>3. writer' \in [Writers -> [at : WriterStage, found : BOOLEAN]]
    BY ZenonT(60), <1>2 DEF ClearL1
  <2> QED
    BY <1>2, <2>1, <2>2, <2>3 DEF ClearL1
<1>3. CASE Scan(w)
  BY <1>3 DEF Scan, Valid
<1>4. CASE DeleteL2(w)
  BY <1>4 DEF DeleteL2, NoEntry
<1>5. CASE SweepFails(w)
  BY <1>5 DEF SweepFails
<1> QED
  BY <1>1, <1>2, <1>3, <1>4, <1>5 DEF WriterStep

LEMMA OlderIs ==
    ASSUME NEW e \in Entry
    PROVE  /\ Older(e) \in Entry
           /\ Older(e).v = e.v
           /\ Valid(Older(e)) => Valid(e)
BY LifetimesAssumption DEF Older, Entry, Valid

LEMMA TickTypes == CacheTypeOK /\ Tick => CacheTypeOK'
<1> SUFFICES ASSUME CacheTypeOK, Tick PROVE CacheTypeOK'
  OBVIOUS
<1>1. l1' \in [Nodes -> Entry] /\ l2' \in Entry
  BY OlderIs DEF CacheTypeOK, Tick
<1>2. reader' \in [Readers -> [at : ReaderStage, entry : Entry]]
  <2>1. ASSUME NEW r \in Readers
        PROVE  [reader[r] EXCEPT !.entry = Older(@)] \in [at : ReaderStage, entry : Entry]
    <3>1. reader[r] \in [at : ReaderStage, entry : Entry]
      BY DEF CacheTypeOK
    <3>2. Older(reader[r].entry) \in Entry
      BY <3>1, OlderIs
    <3> QED
      BY <3>1, <3>2
  <2> QED
    BY <2>1 DEF Tick
<1>3. lock' \in [by : Readers \cup {Free}, left : 0..LockTTL]
  BY LifetimesAssumption DEF CacheTypeOK, Tick, Older
<1> QED
  BY <1>1, <1>2, <1>3 DEF CacheTypeOK, Tick

-----------------------------------------------------------------------------
(* The cache: no step breaks the invariant *)

LEMMA GoingOnIs ==
    ASSUME CacheTypeOK, NEW r \in Readers, NEW s, GoOn(r, s)
    PROVE  reader' = [reader EXCEPT ![r] = [at |-> s, entry |-> reader[r].entry]]
<1>1. reader[r] = [at |-> reader[r].at, entry |-> reader[r].entry]
  BY DEF CacheTypeOK
<1>2. [reader[r] EXCEPT !.at = s] = [at |-> s, entry |-> reader[r].entry]
  BY <1>1
<1>3. reader' = [reader EXCEPT ![r] = [reader[r] EXCEPT !.at = s]]
  BY DEF GoOn
<1> QED
  BY <1>2, <1>3

\* What a reader's step has to keep, given what the reader carries on with.
LEMMA ReaderMoves ==
    ASSUME CacheInv, CacheTypeOK', HoldersHold',
           NEW r \in Readers, reader[r].at # "idle", NEW s, NEW e,
           reader' = [reader EXCEPT ![r] = [at |-> s, entry |-> e]],
           UNCHANGED <<truth, writer, calm, swept>>,
           s = "idle" => ~Valid(e),
           swept # {} => /\ ~Outdated(e)
                         /\ s \in {"store", "storeAlone"} => e.v = truth,
           \A n \in Nodes : l1'[n] = l1[n] \/ (swept # {} => ~Outdated(l1'[n])),
           l2' = l2 \/ (swept # {} => ~Outdated(l2'))
    PROVE  CacheInv'
<1> USE DEF CacheInv
<1>1. \A q \in Readers : reader'[q] = IF q = r THEN [at |-> s, entry |-> e] ELSE reader[q]
  BY DEF CacheTypeOK
<1>2. calm => \A w \in Writers : writer[w].at = "idle"
  BY DEF CalmWriters, AnyReader
<1>3. HandsEmpty'
  BY <1>1 DEF HandsEmpty, Valid
<1>4. CalmWriters' /\ ScanHolds'
  BY <1>2 DEF CalmWriters, ScanHolds
<1>5. SweptCalm'
  BY DEF SweptCalm
<1>6. ReadersCurrent'
  BY <1>1 DEF ReadersCurrent, Outdated, Valid
<1>7. InvalidationReaches'
  BY DEF InvalidationReaches, Outdated, Valid
<1> QED
  BY <1>3, <1>4, <1>5, <1>6, <1>7

\* Who holds the lock goes on holding it: the lock is as it was, and nobody else
\* comes to fill under it.
LEMMA HoldersGoOn ==
    ASSUME CacheTypeOK, HoldersHold, NEW r \in Readers, NEW s, NEW e,
           reader' = [reader EXCEPT ![r] = [at |-> s, entry |-> e]], UNCHANGED <<lock, outlived>>,
           s \in {"fill", "store", "share", "unlock"} =>
               reader[r].at \in {"fill", "store", "share", "unlock"}
    PROVE  HoldersHold'
BY DEF CacheTypeOK, HoldersHold

LEMMA CallersStep ==
    ASSUME CacheInv, NEW r \in Readers,
           \/ HitL1(r) \/ ReadL2(r) \/ KeepInL1(r) \/ DeleteExpired(r) \/ ForgetExpired(r)
           \/ Fill(r) \/ StoreL1(r) \/ ShareL2(r) \/ CallFails(r)
    PROVE  CacheInv'
<1>0. CacheTypeOK'
  BY ReaderTypes DEF CacheInv, ReaderStep
<1>t. /\ CacheTypeOK /\ HoldersHold
      /\ reader[r] \in [at : ReaderStage, entry : Entry]
  BY DEF CacheInv, CacheTypeOK
<1>n. ~Valid(NoEntry) /\ ~Outdated(NoEntry)
  BY EntriesAre DEF Outdated
<1>c. swept # {} => ~Outdated(reader[r].entry)
  BY DEF CacheInv, ReadersCurrent
<1>l. swept # {} /\ reader[r].at # "idle" => ~Outdated(l2)
  BY DEF CacheInv, SweptCalm, CalmWriters, AnyReader, InvalidationReaches
<1>1. CASE HitL1(r)
  <2>1. /\ reader' = [reader EXCEPT ![r] = [at |-> "idle", entry |-> NoEntry]]
        /\ reader[r].at # "idle"
        /\ UNCHANGED <<truth, l1, l2, lock, writer, calm, swept, outlived>>
    BY <1>1 DEF HitL1, Idle, Carry
  <2>2. HoldersHold'
    BY <1>t, <2>1, HoldersGoOn
  <2> QED
    BY <1>0, <1>n, <2>1, <2>2, ReaderMoves
<1>2. CASE ReadL2(r)
  <2>1. /\ reader[r].at \in {"l2", "again"}
        /\ UNCHANGED <<truth, l1, l2, lock, writer, calm, swept, outlived>>
    BY <1>2 DEF ReadL2
  <2>2. PICK s, e : /\ reader' = [reader EXCEPT ![r] = [at |-> s, entry |-> e]]
                    /\ s \in {"keep", "keepAgain", "lock", "fillAlone"}
                    /\ e \in {l2, reader[r].entry}
    <3>1. CASE Valid(l2)
      BY <1>2, <3>1 DEF ReadL2, Carry, Onward
    <3>2. CASE ~Valid(l2)
      <4> DEFINE x == Onward(r, "lock", "fillAlone")
      <4>1. reader' = [reader EXCEPT ![r] = [at |-> x, entry |-> reader[r].entry]]
        BY <1>2, <1>t, <3>2 DEF ReadL2, GoOn, CacheTypeOK
      <4> QED
        BY <4>1 DEF Onward
    <3> QED
      BY <3>1, <3>2
  <2>3. HoldersHold'
    BY <1>t, <2>1, <2>2, HoldersGoOn
  <2> QED
    BY <1>0, <1>c, <1>l, <2>1, <2>2, <2>3, ReaderMoves
<1>3. CASE KeepInL1(r)
  <2>1. /\ reader' = [reader EXCEPT ![r] = [at |-> "idle", entry |-> NoEntry]]
        /\ reader[r].at # "idle"
        /\ UNCHANGED <<truth, l2, lock, writer, calm, swept, outlived>>
    BY <1>3 DEF KeepInL1, Idle, Carry
  <2>2. HoldersHold'
    BY <1>t, <2>1, HoldersGoOn
  <2>3. \A n \in Nodes : l1'[n] = l1[n] \/ (swept # {} => ~Outdated(l1'[n]))
    <3>1. \A n \in Nodes : l1'[n] \in {l1[n], reader[r].entry}
      BY <1>3, <1>t DEF KeepInL1, CacheTypeOK
    <3> QED
      BY <1>c, <2>1, <3>1 DEF Outdated
  <2> QED
    BY <1>0, <1>n, <2>1, <2>2, <2>3, ReaderMoves
<1>4. CASE DeleteExpired(r)
  <2>1. PICK s \in {"drop", "dropAgain"} :
            reader' = [reader EXCEPT ![r] = [at |-> s, entry |-> reader[r].entry]]
    <3>1. ASSUME NEW x \in {"drop", "dropAgain"}, GoOn(r, x)
          PROVE  reader' = [reader EXCEPT ![r] = [at |-> x, entry |-> reader[r].entry]]
      BY <1>t, <3>1, GoingOnIs
    <3> QED
      BY <1>4, <3>1 DEF DeleteExpired, Onward
  <2>2. /\ reader[r].at # "idle" /\ l2' = NoEntry
        /\ UNCHANGED <<truth, l1, lock, writer, calm, swept, outlived>>
    BY <1>4 DEF DeleteExpired
  <2>3. ~Outdated(l2')
    BY <2>2 DEF Outdated, NoEntry, Valid
  <2>4. HoldersHold'
    BY <1>t, <2>1, <2>2, HoldersGoOn
  <2> QED
    BY <1>0, <1>c, <2>1, <2>2, <2>3, <2>4, ReaderMoves
<1>5. CASE ForgetExpired(r)
  <2>1. PICK s \in {"lock", "fillAlone"} :
            reader' = [reader EXCEPT ![r] = [at |-> s, entry |-> NoEntry]]
    BY <1>5 DEF ForgetExpired, Onward, Carry
  <2>2. /\ reader[r].at # "idle" /\ l1' = [l1 EXCEPT ![NodeOf[r]] = NoEntry]
        /\ UNCHANGED <<truth, l2, lock, writer, calm, swept, outlived>>
    BY <1>5 DEF ForgetExpired
  <2>3. \A n \in Nodes : l1'[n] = l1[n] \/ ~Outdated(l1'[n])
    BY <1>t, <2>2 DEF CacheTypeOK, Outdated, NoEntry, Valid
  <2>4. HoldersHold'
    BY <1>t, <2>1, <2>2, HoldersGoOn
  <2>5. ~Outdated(NoEntry)
    BY <1>n
  <2> QED
    BY <1>0, <2>1, <2>2, <2>3, <2>4, <2>5, ReaderMoves
<1>6. CASE Fill(r)
  <2> DEFINE e == [v |-> truth, left |-> TTL]
             s == IF reader[r].at = "fill" THEN "store" ELSE "storeAlone"
  <2>1. reader' = [reader EXCEPT ![r] = [at |-> s, entry |-> e]]
    BY <1>6 DEF Fill, Carry
  <2>2. s \in {"store", "storeAlone"} /\ (s = "store" => reader[r].at = "fill")
    OBVIOUS
  <2>3. /\ reader[r].at \in {"fill", "fillAlone"}
        /\ UNCHANGED <<truth, l1, l2, lock, writer, calm, swept, outlived>>
    BY <1>6 DEF Fill
  <2>4. e.v = truth
    OBVIOUS
  <2> HIDE DEF s, e
  <2>5. HoldersHold'
    BY <1>t, <2>1, <2>2, <2>3, HoldersGoOn
  <2> QED
    BY <1>0, <2>1, <2>2, <2>3, <2>4, <2>5, ReaderMoves DEF Outdated
<1>7. CASE StoreL1(r)
  <2> DEFINE e == [v |-> reader[r].entry.v, left |-> TTL]
             s == IF reader[r].at = "store" THEN "share" ELSE "shareAlone"
  <2>1. /\ l1' = [l1 EXCEPT ![NodeOf[r]] = e]
        /\ reader' = [reader EXCEPT ![r] = [at |-> s, entry |-> e]]
    BY <1>7, <1>t, EntriesAre DEF StoreL1, Carry
  <2>2. s \in {"share", "shareAlone"} /\ (s = "share" => reader[r].at = "store")
    OBVIOUS
  <2>3. /\ reader[r].at \in {"store", "storeAlone"}
        /\ UNCHANGED <<truth, l2, lock, writer, calm, swept, outlived>>
    BY <1>7 DEF StoreL1
  <2>4. HoldersHold'
    <3> HIDE DEF s, e
    <3> QED
      BY <1>t, <2>1, <2>2, <2>3, HoldersGoOn
  <2>5. swept # {} => e.v = truth
    BY <2>3 DEF CacheInv, ReadersCurrent
  <2>6. \A n \in Nodes : l1'[n] = l1[n] \/ (swept # {} => ~Outdated(l1'[n]))
    <3>1. \A n \in Nodes : l1'[n] \in {l1[n], e}
      BY <1>t, <2>1 DEF CacheTypeOK
    <3> QED
      BY <2>3, <2>5, <3>1 DEF Outdated
  <2> QED
    BY <1>0, <2>1, <2>2, <2>3, <2>4, <2>5, <2>6, ReaderMoves DEF Outdated
<1>8. CASE ShareL2(r)
  <2>1. /\ reader[r].at \in {"share", "shareAlone"}
        /\ l2' = reader[r].entry
        /\ UNCHANGED <<truth, l1, lock, writer, calm, swept, outlived>>
    BY <1>8 DEF ShareL2
  <2>2. PICK s, e : /\ reader' = [reader EXCEPT ![r] = [at |-> s, entry |-> e]]
                    /\ \/ s = "unlock" /\ reader[r].at = "share"
                          /\ e = reader[r].entry
                       \/ s = "idle" /\ e = NoEntry
    <3>1. CASE reader[r].at = "share"
      <4>1. reader' = [reader EXCEPT ![r] = [at |-> "unlock", entry |-> reader[r].entry]]
        BY <1>8, <1>t, <3>1 DEF ShareL2, GoOn, CacheTypeOK
      <4> QED
        BY <3>1, <4>1
    <3>2. CASE reader[r].at # "share"
      BY <1>8, <3>2 DEF ShareL2, Idle, Carry
    <3> QED
      BY <3>1, <3>2
  <2>3. HoldersHold'
    BY <1>t, <2>1, <2>2, HoldersGoOn
  <2>4. swept # {} => ~Outdated(l2')
    BY <1>c, <2>1 DEF Outdated
  <2> QED
    BY <1>0, <1>c, <1>n, <2>1, <2>2, <2>3, <2>4, ReaderMoves
<1>9. CASE CallFails(r)
  <2>1. /\ reader[r].at # "idle"
        /\ UNCHANGED <<truth, l1, l2, lock, writer, calm, swept, outlived>>
    BY <1>9 DEF CallFails
  <2>2. PICK s, e : /\ reader' = [reader EXCEPT ![r] = [at |-> s, entry |-> e]]
                    /\ \/ /\ s \in {"lock", "fillAlone", "drop", "dropAgain", "unlock"}
                          /\ s = "unlock" => reader[r].at \in {"fill", "share"}
                          /\ e = reader[r].entry
                       \/ s = "idle" /\ e = NoEntry
    <3>1. ASSUME NEW x, GoOn(r, x)
          PROVE  reader' = [reader EXCEPT ![r] = [at |-> x, entry |-> reader[r].entry]]
      BY <1>t, <3>1, GoingOnIs
    <3>2. Idle(r) => reader' = [reader EXCEPT ![r] = [at |-> "idle", entry |-> NoEntry]]
      BY DEF Idle, Carry
    <3>3. CASE GoOn(r, Onward(r, "lock", "fillAlone"))
      BY <3>1, <3>3 DEF Onward
    <3>4. CASE GoOn(r, Onward(r, "drop", "dropAgain"))
      BY <3>1, <3>4 DEF Onward
    <3>5. CASE reader[r].at \in {"fill", "share"} /\ GoOn(r, "unlock")
      BY <3>1, <3>5 DEF ReaderStage
    <3>6. CASE Idle(r)
      BY <3>2, <3>6
    <3> QED
      BY <1>9, <3>3, <3>4, <3>5, <3>6 DEF CallFails
  <2>3. HoldersHold'
    BY <1>t, <2>1, <2>2, HoldersGoOn
  <2> QED
    BY <1>0, <1>c, <1>n, <2>1, <2>2, <2>3, ReaderMoves
<1> QED
  BY <1>1, <1>2, <1>3, <1>6, <1>7, <1>8, <1>9, <1>4, <1>5

LEMMA MissStep == ASSUME CacheInv, NEW r \in Readers, MissL1(r) PROVE CacheInv'
<1> USE DEF CacheInv
<1>0. CacheTypeOK'
  BY ReaderTypes
<1>1. PICK s \in {"l2", "again"} :
          reader' = [reader EXCEPT ![r] = [at |-> s, entry |-> reader[r].entry]]
  <2>1. ASSUME NEW x \in {"l2", "again"}, GoOn(r, x)
        PROVE  reader' = [reader EXCEPT ![r] = [at |-> x, entry |-> reader[r].entry]]
    BY <2>1, GoingOnIs
  <2>2. CASE reader[r].at = "idle"
    BY <2>1, <2>2 DEF MissL1
  <2>3. CASE reader[r].at # "idle"
    BY <2>1, <2>3 DEF MissL1
  <2> QED
    BY <2>2, <2>3
<1>2. /\ UNCHANGED <<truth, l1, l2, lock, writer, outlived>>
      /\ calm' = (calm /\ \A w \in Writers : writer[w].at = "idle")
      /\ swept' = IF calm' THEN swept ELSE {}
  BY DEF MissL1
<1>3. \A q \in Readers :
          reader'[q] = IF q = r THEN [at |-> s, entry |-> reader[r].entry] ELSE reader[q]
  BY <1>1 DEF CacheTypeOK
<1>4. HandsEmpty'
  BY <1>3 DEF HandsEmpty, Valid
<1>5. CalmWriters' /\ ScanHolds'
  BY <1>2 DEF CalmWriters, ScanHolds
<1>6. SweptCalm'
  BY <1>2 DEF SweptCalm
<1>7. ReadersCurrent'
  BY <1>2, <1>3 DEF ReadersCurrent, Outdated, Valid
<1>8. InvalidationReaches'
  BY <1>2 DEF InvalidationReaches, Outdated, Valid
<1>9. HoldersHold'
  <2>1. s \notin {"fill", "store", "share", "unlock"}
    OBVIOUS
  <2> QED
    BY <1>1, <1>2, <2>1, HoldersGoOn
<1> QED
  BY <1>0, <1>4, <1>5, <1>6, <1>7, <1>8, <1>9

\* Taking the lock and giving it up.
LEMMA LockStep ==
    ASSUME CacheInv, NEW r \in Readers, TryFillLock(r) \/ Unlock(r)
    PROVE  CacheInv'
<1>0. CacheTypeOK'
  BY ReaderTypes DEF CacheInv, ReaderStep
<1>t. /\ CacheTypeOK /\ HoldersHold
      /\ reader[r] \in [at : ReaderStage, entry : Entry]
  BY DEF CacheInv, CacheTypeOK
<1>n. ~Valid(NoEntry) /\ ~Outdated(NoEntry)
  BY EntriesAre DEF Outdated
<1>c. swept # {} => ~Outdated(reader[r].entry)
  BY DEF CacheInv, ReadersCurrent
<1>1. CASE TryFillLock(r)
  <2>1. /\ reader[r].at = "lock"
        /\ UNCHANGED <<truth, l1, l2, writer, calm, swept, outlived>>
    BY <1>1 DEF TryFillLock
  <2>2. CASE lock.left = 0
    <3>1. reader' = [reader EXCEPT ![r] = [at |-> "fill", entry |-> reader[r].entry]]
      BY <1>1, <1>t, <2>2 DEF TryFillLock, GoOn, CacheTypeOK
    <3>2. lock'.by = r /\ lock'.left > 0
      BY <1>1, <2>2, LifetimesAssumption DEF TryFillLock
    <3>3. HoldersHold'
      BY <1>t, <2>1, <2>2, <3>1, <3>2 DEF HoldersHold, CacheTypeOK
    <3>4. l2' = l2 /\ (\A n \in Nodes : l1'[n] = l1[n]) /\ reader[r].at # "idle"
      BY <2>1
    <3>5. "fill" \notin {"idle", "store", "storeAlone"}
      OBVIOUS
    <3> QED
      BY <1>0, <1>c, <2>1, <3>1, <3>3, <3>4, <3>5, ReaderMoves
  <2>3. CASE lock.left # 0
    <3>1. reader' = [reader EXCEPT ![r] = [at |-> "wait", entry |-> reader[r].entry]]
      BY <1>1, <1>t, <2>3 DEF TryFillLock, GoOn, CacheTypeOK
    <3>2. lock' = lock
      BY <1>1, <2>3 DEF TryFillLock
    <3>3. HoldersHold'
      BY <1>t, <2>1, <3>1, <3>2, HoldersGoOn
    <3>4. l2' = l2 /\ (\A n \in Nodes : l1'[n] = l1[n]) /\ reader[r].at # "idle"
      BY <2>1
    <3>5. "wait" \notin {"idle", "store", "storeAlone"}
      OBVIOUS
    <3> QED
      BY <1>0, <1>c, <2>1, <3>1, <3>3, <3>4, <3>5, ReaderMoves
  <2> QED
    BY <2>2, <2>3
<1>2. CASE Unlock(r)
  <2>1. /\ reader[r].at = "unlock"
        /\ reader' = [reader EXCEPT ![r] = [at |-> "idle", entry |-> NoEntry]]
        /\ UNCHANGED <<truth, l1, l2, writer, calm, swept, outlived>>
    BY <1>2 DEF Unlock, Idle, Carry
  <2>2. HoldersHold'
    BY <1>t, <2>1 DEF HoldersHold, CacheTypeOK
  <2> QED
    BY <1>0, <1>n, <2>1, <2>2, ReaderMoves
<1> QED
  BY <1>1, <1>2

LEMMA WritersStep ==
    ASSUME CacheInv, NEW w \in Writers, Change(w) \/ WriterStep(w) \/ SweepFails(w)
    PROVE  CacheInv'
<1>0. CacheTypeOK'
  BY WriterTypes DEF CacheInv
<1>t. CacheTypeOK
  BY DEF CacheInv
<1>r. /\ reader' = reader
      /\ HandsEmpty' /\ HoldersHold'
  BY DEF CacheInv, Change, WriterStep, ClearL1, Scan, DeleteL2, SweepFails, HandsEmpty, Valid,
         HoldersHold
<1>1. CASE Change(w)
  <2>1. /\ swept' = {} /\ l2' = l2
        /\ calm' = (~AnyReader /\ \A x \in Writers : writer[x].at # "delete")
        /\ \A x \in Writers : writer'[x].at = IF x = w THEN "clear" ELSE writer[x].at
    BY <1>1, <1>t DEF Change, CacheTypeOK
  <2>2. CalmWriters' /\ ScanHolds'
    BY <1>r, <2>1 DEF CalmWriters, ScanHolds, AnyReader
  <2>3. SweptCalm' /\ ReadersCurrent' /\ InvalidationReaches'
    BY <2>1 DEF SweptCalm, ReadersCurrent, InvalidationReaches
  <2> QED
    BY <1>0, <1>r, <2>2, <2>3 DEF CacheInv
<1>q. ASSUME calm, writer[w].at # "idle"
      PROVE  \A r \in Readers : reader[r].at = "idle" /\ ~Outdated(reader[r].entry)
  BY <1>q DEF CacheInv, CalmWriters, AnyReader, HandsEmpty, Outdated
<1>2. CASE ClearL1(w)
  <2>1. /\ writer[w].at = "clear"
        /\ UNCHANGED <<truth, l2, calm>>
        /\ \A x \in Writers : writer'[x].at = IF x = w THEN "scan" ELSE writer[x].at
        /\ \A x \in Writers : writer'[x].found = writer[x].found
        /\ swept' = IF ~calm THEN swept ELSE swept \cup {NodeOf[w]}
        /\ l1' = [l1 EXCEPT ![NodeOf[w]] = NoEntry]
    BY <1>2, <1>t DEF ClearL1, CacheTypeOK
  <2>2. CalmWriters' /\ ScanHolds'
    BY <1>r, <2>1 DEF CacheInv, CalmWriters, ScanHolds, AnyReader
  <2>3. SweptCalm'
    BY <2>1 DEF CacheInv, SweptCalm
  <2>4. ReadersCurrent'
    <3>1. CASE calm
      BY <1>q, <1>r, <2>1, <3>1 DEF ReadersCurrent, Outdated
    <3>2. CASE ~calm
      BY <2>1, <3>2 DEF CacheInv, SweptCalm, ReadersCurrent
    <3> QED
      BY <3>1, <3>2
  <2>5. InvalidationReaches'
    <3>1. CASE calm
      <4>1. NodeOf[w] \in Nodes /\ NodeOf[w] # Redis
        BY NodesAssumption
      <4>2. ~Outdated(l1[NodeOf[w]])'
        BY <1>t, <2>1, <4>1, EntriesAre DEF Outdated, CacheTypeOK
      <4>3. \A n \in Nodes \ {NodeOf[w]} : l1'[n] = l1[n]
        BY <1>t, <2>1 DEF CacheTypeOK
      <4>4. \A n \in (swept' \cap Nodes) \ {NodeOf[w]} : ~Outdated(l1[n])'
        BY <2>1, <3>1, <4>3 DEF CacheInv, InvalidationReaches, Outdated
      <4>5. Redis \in swept' => ~Outdated(l2)'
        BY <2>1, <4>1 DEF CacheInv, InvalidationReaches, Outdated
      <4> QED
        BY <4>1, <4>2, <4>4, <4>5 DEF InvalidationReaches
    <3>2. CASE ~calm
      BY <2>1, <3>2 DEF CacheInv, SweptCalm, InvalidationReaches
    <3> QED
      BY <3>1, <3>2
  <2> QED
    BY <1>0, <1>r, <2>2, <2>3, <2>4, <2>5 DEF CacheInv
<1>3. CASE Scan(w)
  <2>1. /\ writer[w].at = "scan"
        /\ UNCHANGED <<truth, l1, l2, calm, swept>>
        /\ \A x \in Writers : x # w => writer'[x] = writer[x]
        /\ writer'[w].at = "delete"
        /\ writer'[w].found <=> Valid(l2)
    BY <1>3, <1>t DEF Scan, CacheTypeOK
  <2>2. CalmWriters' /\ ScanHolds'
    BY <1>r, <2>1 DEF CacheInv, CalmWriters, ScanHolds, AnyReader
  <2>3. SweptCalm'
    BY <2>1 DEF CacheInv, SweptCalm
  <2>4. ReadersCurrent' /\ InvalidationReaches'
    BY <1>r, <2>1 DEF CacheInv, ReadersCurrent, InvalidationReaches, Outdated
  <2> QED
    BY <1>0, <1>r, <2>2, <2>3, <2>4 DEF CacheInv
<1>4. CASE DeleteL2(w)
  <2>1. /\ writer[w].at = "delete"
        /\ UNCHANGED <<truth, l1, calm>>
        /\ \A x \in Writers : x # w => writer'[x] = writer[x]
        /\ writer'[w].at = "idle"
        /\ l2' = IF writer[w].found THEN NoEntry ELSE l2
        /\ swept' = IF ~calm THEN swept ELSE swept \cup {Redis}
    BY <1>4, <1>t DEF DeleteL2, CacheTypeOK
  <2>2. /\ ~Valid(l2) => ~Valid(l2)'
        /\ ~Outdated(l2) => ~Outdated(l2)'
        /\ calm => ~Outdated(l2)'
    BY <2>1, EntriesAre DEF CacheInv, ScanHolds, Outdated, Valid
  <2>3. CalmWriters' /\ ScanHolds'
    BY <1>r, <2>1, <2>2 DEF CacheInv, CalmWriters, ScanHolds, AnyReader
  <2>4. SweptCalm'
    BY <2>1 DEF CacheInv, SweptCalm
  <2>5. ReadersCurrent'
    <3>1. CASE calm
      BY <1>q, <1>r, <2>1, <3>1 DEF ReadersCurrent, Outdated
    <3>2. CASE ~calm
      BY <2>1, <3>2 DEF CacheInv, SweptCalm, ReadersCurrent
    <3> QED
      BY <3>1, <3>2
  <2>6. InvalidationReaches'
    BY <2>1, <2>2, NodesAssumption DEF CacheInv, InvalidationReaches, Outdated
  <2> QED
    BY <1>0, <1>r, <2>3, <2>4, <2>5, <2>6 DEF CacheInv
<1>5. CASE SweepFails(w)
  <2>1. /\ swept' = {} /\ UNCHANGED <<l2, calm>>
        /\ \A x \in Writers : x # w => writer'[x] = writer[x]
        /\ writer'[w].at = "idle"
    BY <1>5, <1>t DEF SweepFails, CacheTypeOK
  <2>2. CalmWriters' /\ ScanHolds'
    BY <1>r, <2>1 DEF CacheInv, CalmWriters, ScanHolds, AnyReader, Valid
  <2>3. SweptCalm' /\ ReadersCurrent' /\ InvalidationReaches'
    BY <2>1 DEF SweptCalm, ReadersCurrent, InvalidationReaches
  <2> QED
    BY <1>0, <1>r, <2>2, <2>3 DEF CacheInv
<1> QED
  BY <1>1, <1>2, <1>3, <1>4, <1>5 DEF WriterStep

\* What is older is no more valid than it was.
LEMMA TickStep == CacheInv /\ Tick => CacheInv'
<1> SUFFICES ASSUME CacheInv, Tick PROVE CacheInv'
  OBVIOUS
<1>0. CacheTypeOK /\ CacheTypeOK'
  BY TickTypes DEF CacheInv
<1>1. UNCHANGED <<truth, writer, calm, swept>>
  BY DEF Tick
<1>2. \A e \in Entry : Outdated(Older(e)) => Outdated(e)
  BY OlderIs DEF Outdated
<1>3. \A r \in Readers : /\ reader[r].entry \in Entry
                         /\ reader'[r].at = reader[r].at
                         /\ reader'[r].entry = Older(reader[r].entry)
  BY <1>0 DEF CacheTypeOK, Tick
<1>4. /\ l2 \in Entry /\ l2' = Older(l2)
      /\ \A n \in Nodes : l1[n] \in Entry /\ l1'[n] = Older(l1[n])
  BY <1>0 DEF CacheTypeOK, Tick
<1>5. HandsEmpty'
  BY <1>3, OlderIs DEF CacheInv, HandsEmpty, Valid
<1>6. CalmWriters'
  BY <1>1, <1>3 DEF CacheInv, CalmWriters, AnyReader
<1>7. ScanHolds'
  <2>1. ~Valid(l2) => ~Valid(l2)'
    BY <1>4, OlderIs DEF Valid
  <2> QED
    BY <1>1, <2>1 DEF CacheInv, ScanHolds
<1>8. SweptCalm'
  BY <1>1 DEF CacheInv, SweptCalm
<1>9. ReadersCurrent'
  <2>1. \A r \in Readers : Outdated(reader[r].entry)' => Outdated(reader[r].entry)
    BY <1>1, <1>2, <1>3 DEF Outdated
  <2>2. \A r \in Readers : reader'[r].entry.v = reader[r].entry.v
    BY <1>3, OlderIs
  <2> QED
    BY <1>1, <1>3, <2>1, <2>2 DEF CacheInv, ReadersCurrent
<1>10. InvalidationReaches'
  <2>1. Outdated(l2)' => Outdated(l2)
    BY <1>1, <1>2, <1>4 DEF Outdated
  <2>2. \A n \in Nodes : Outdated(l1[n])' => Outdated(l1[n])
    BY <1>1, <1>2, <1>4 DEF Outdated
  <2> QED
    BY <1>1, <2>1, <2>2 DEF CacheInv, InvalidationReaches
<1>11. HoldersHold'
  <2>1. outlived' = (outlived \/ lock.left = 1)
    BY DEF Tick
  <2>2. lock.left \in Nat
    BY <1>0, LifetimesAssumption DEF CacheTypeOK
  <2>3. lock.left > 1 => lock'.by = lock.by /\ lock'.left > 0
    BY <1>0, <2>2 DEF CacheTypeOK, Tick, Older
  <2>4. CASE lock.left > 1
    BY <1>3, <2>1, <2>3, <2>4 DEF CacheInv, HoldersHold
  <2>5. CASE ~(lock.left > 1)
    <3>0. lock.left = 0 \/ lock.left = 1
      BY <2>2, <2>5
    <3>1. lock.left = 0 \/ outlived'
      BY <2>1, <3>0
    <3>2. lock.left = 0 /\ ~outlived => \A r \in Readers :
              reader[r].at \notin {"fill", "store", "share", "unlock"}
      BY DEF CacheInv, HoldersHold
    <3> QED
      BY <1>3, <2>1, <3>1, <3>2 DEF HoldersHold
  <2> QED
    BY <2>4, <2>5
<1> QED
  BY <1>0, <1>5, <1>6, <1>7, <1>8, <1>9, <1>10, <1>11 DEF CacheInv

LEMMA CacheSteps == CacheInv /\ [CacheNext]_cacheVars => CacheInv'
<1> SUFFICES ASSUME CacheInv, [CacheNext]_cacheVars PROVE CacheInv'
  OBVIOUS
<1>1. ASSUME NEW r \in Readers, ReaderStep(r) \/ MissL1(r) \/ CallFails(r)
      PROVE  CacheInv'
  BY <1>1, CallersStep, MissStep, LockStep DEF ReaderStep
<1>2. ASSUME NEW w \in Writers, Change(w) \/ WriterStep(w) \/ SweepFails(w)
      PROVE  CacheInv'
  BY <1>2, WritersStep
<1>3. CASE Tick
  BY <1>3, TickStep
<1>4. CASE UNCHANGED cacheVars
  BY <1>4 DEF cacheVars, CacheInv, CacheTypeOK, HandsEmpty, CalmWriters, ScanHolds, SweptCalm,
              ReadersCurrent, InvalidationReaches, HoldersHold, AnyReader, Outdated, Valid
<1> QED
  BY <1>1, <1>2, <1>3, <1>4 DEF CacheNext

\* The inductive invariant holds throughout.
THEOREM CacheInvariance == CacheSpec => []CacheInv
<1>1. CacheInit => CacheInv
  BY CacheInitially
<1>2. CacheInv /\ [CacheNext]_cacheVars => CacheInv'
  BY CacheSteps
<1> QED
  BY <1>1, <1>2, PTL DEF CacheSpec

\* CacheService.invalidate() and the fill lock, for any number of processes, readers and
\* writers and any lifetimes: what was cleared while no reader's call was under way does
\* not answer with the old data again, and no two callers fill under the lock at once
\* unless a fill outlived a lock.
THEOREM CacheSoundness == CacheSpec => []CacheIsSound
<1>1. CacheInv => CacheIsSound
  <2> SUFFICES ASSUME CacheInv PROVE CacheIsSound
    OBVIOUS
  <2>1. InvalidationReaches
    BY DEF CacheInv
  <2>2. FillsAlternate
    BY DEF CacheInv, HoldersHold, FillsAlternate
  <2> QED
    BY <2>1, <2>2 DEF CacheIsSound
<1> QED
  BY <1>1, CacheInvariance, PTL

-----------------------------------------------------------------------------
(* The support bot: the inductive invariant *)

InHand(a, i) == i \in admin[a].todo

\* Which calls await what.
StageFits(k) ==
    \/ k.op = "none" /\ k.at = "idle" /\ k.todo = {}
    \/ k.op = "create" /\ k.at \in {"embed", "mark", "fail"}
    \/ k.op = "edit" /\ k.at \in {"write", "embed", "mark", "again", "fail"}
    \/ k.op \in {"import", "reindex"} /\ k.at \in {"embed", "mark"}
    \/ k.op = "delete" /\ k.at = "unindex"

\* Entry i can be left as it is.
Rests(i) ==
    /\ faq[i].status = "active" /\ faq[i].vectorStatus = "ok" => vector[i] = faq[i].text
    /\ faq[i].status = "deleted" => vector[i] = Unsaid \/ i \in undeleted

\* What call k may rely on for entry i that it alone has in hand.
InWork(k, i) ==
    /\ k.at = "unindex" => faq[i].status = "deleted"
    /\ k.at # "unindex" => Rests(i)
    /\ k.at \in {"embed", "mark"} => k.texts[i] = faq[i].text
    /\ k.at \in {"embed", "mark", "again"} /\ faq[i].status = "deleted" => i \in undeleted
    /\ k.at \in {"mark", "again"} => vector[i] = faq[i].text

EntryHolds(i) ==
    /\ \A a, b \in Admins : InHand(a, i) /\ InHand(b, i) => a = b
    /\ \A a \in Admins : InHand(a, i) => InWork(admin[a], i)
    /\ ~HandedTo(i, Admins) => Rests(i)

BotInv ==
    /\ BotTypeOK
    /\ \A a \in Admins : StageFits(admin[a])
    /\ \A a \in Admins, i \in Faqs : InHand(a, i) => faq[i].status # "absent"
    /\ \A i \in Faqs \ meddled : EntryHolds(i)

LEMMA BotInitially == BotInit => BotInv
<1> SUFFICES ASSUME BotInit PROVE BotInv
  OBVIOUS
<1>1. BotTypeOK
  BY RefusalsAssumption DEF BotInit, BotTypeOK, Document, Task, NoTask
<1>2. \A a \in Admins : admin[a] = NoTask
  BY DEF BotInit
<1>3. \A a \in Admins : StageFits(admin[a]) /\ admin[a].todo = {}
  BY <1>2 DEF NoTask, StageFits
<1>4. \A i \in Faqs : Rests(i)
  BY DEF BotInit, Rests
<1> QED
  BY <1>1, <1>3, <1>4 DEF BotInv, EntryHolds, InHand

\* The step of one call, which goes on as k: a general argument for all of them.
LEMMA BotMoves ==
    ASSUME BotInv, BotTypeOK', NEW a \in Admins, NEW k,
           admin' = [admin EXCEPT ![a] = k],
           StageFits(k),
           \A i \in Faqs \ (admin[a].todo \cup k.todo) :
               /\ faq'[i] = faq[i] /\ vector'[i] = vector[i]
               /\ i \in undeleted => i \in undeleted'
               /\ i \notin meddled' => i \notin meddled,
           \A i \in Faqs : faq'[i].status = "absent" => faq[i].status = "absent",
           \A i \in k.todo : faq'[i].status # "absent",
           \A i \in Faqs \ meddled' :
               /\ i \in k.todo => InWork(k, i)' /\ ~HandedTo(i, Others(a))
               /\ i \notin k.todo /\ i \in admin[a].todo =>
                      ~HandedTo(i, Others(a)) /\ Rests(i)'
    PROVE  BotInv'
<1>1. \A b \in Admins : admin'[b] = IF b = a THEN k ELSE admin[b]
  BY DEF BotInv, BotTypeOK
<1>2. \A b \in Admins : StageFits(admin[b])'
  BY <1>1 DEF BotInv, StageFits
<1>3. \A b \in Admins, i \in Faqs : InHand(b, i)' => faq'[i].status # "absent"
  BY <1>1 DEF BotInv, InHand
<1>4. ASSUME NEW i \in Faqs, i \notin meddled' PROVE EntryHolds(i)'
  <2>1. CASE i \in k.todo
    <3>1. \A b \in Admins : i \in admin'[b].todo => b = a
      BY <1>1, <1>4, <2>1 DEF HandedTo, Others
    <3>2. InWork(k, i)'
      BY <1>4, <2>1
    <3>3. InWork(admin[a], i)'
      BY <1>1, <3>2 DEF InWork
    <3>4. HandedTo(i, Admins)'
      BY <1>1, <2>1 DEF HandedTo
    <3> QED
      BY <3>1, <3>3, <3>4 DEF EntryHolds, InHand
  <2>2. CASE i \notin k.todo /\ i \in admin[a].todo
    <3>1. \A b \in Admins : i \notin admin'[b].todo
      BY <1>1, <1>4, <2>2 DEF HandedTo, Others
    <3>2. Rests(i)'
      BY <1>4, <2>2
    <3> QED
      BY <3>1, <3>2 DEF EntryHolds, InHand
  <2>3. CASE i \notin k.todo /\ i \notin admin[a].todo
    <3>1. /\ faq'[i] = faq[i] /\ vector'[i] = vector[i]
          /\ i \in undeleted => i \in undeleted'
          /\ EntryHolds(i)
      BY <1>4, <2>3 DEF BotInv
    <3>2. \A b \in Admins : i \in admin'[b].todo => b # a /\ admin'[b] = admin[b]
      BY <1>1, <2>3
    <3>3. Rests(i) => Rests(i)'
      BY <3>1 DEF Rests
    <3>4. \A b \in Admins : i \in admin'[b].todo => InWork(admin[b], i)'
      BY <3>1, <3>2, <3>3 DEF EntryHolds, InWork, InHand
    <3>5. ~HandedTo(i, Admins)' => Rests(i)'
      BY <1>1, <2>3, <3>1, <3>3 DEF EntryHolds, HandedTo
    <3> QED
      BY <3>1, <3>2, <3>4, <3>5 DEF EntryHolds, InHand
  <2> QED
    BY <2>1, <2>2, <2>3
<1> QED
  BY <1>2, <1>3, <1>4 DEF BotInv

-----------------------------------------------------------------------------
(* The support bot: types *)

LEMMA TasksAre ==
    ASSUME BotTypeOK, NEW a \in Admins
    PROVE  /\ admin[a] \in Task
           /\ NoTask \in Task
           /\ \A at : TurnTo(a, at) =>
                  admin' = [admin EXCEPT ![a] = [op |-> admin[a].op, at |-> at,
                                                 todo |-> admin[a].todo,
                                                 texts |-> admin[a].texts]]
<1>1. admin[a] \in Task
  BY DEF BotTypeOK
<1>2. NoTask \in Task
  BY DEF NoTask, Task
<1>3. ASSUME NEW at, TurnTo(a, at)
      PROVE  admin' = [admin EXCEPT ![a] = [op |-> admin[a].op, at |-> at,
                                            todo |-> admin[a].todo,
                                            texts |-> admin[a].texts]]
  <2>1. admin[a] = [op |-> admin[a].op, at |-> admin[a].at, todo |-> admin[a].todo,
                    texts |-> admin[a].texts]
    BY <1>1 DEF Task
  <2>2. [admin[a] EXCEPT !.at = at] =
            [op |-> admin[a].op, at |-> at, todo |-> admin[a].todo, texts |-> admin[a].texts]
    BY <2>1
  <2>3. admin' = [admin EXCEPT ![a] = [admin[a] EXCEPT !.at = at]]
    BY <1>3 DEF TurnTo
  <2> QED
    BY <2>2, <2>3
<1> QED
  BY <1>1, <1>2, <1>3

LEMMA TaskTypes ==
    ASSUME BotTypeOK, NEW a \in Admins
    PROVE  /\ \A at \in {"embed", "mark", "again", "fail"} :
                  TurnTo(a, at) => admin' \in [Admins -> Task]
           /\ Answer(a) => admin' \in [Admins -> Task]
<1>1. ASSUME NEW at \in {"embed", "mark", "again", "fail"}, TurnTo(a, at)
      PROVE  admin' \in [Admins -> Task]
  <2>1. [op |-> admin[a].op, at |-> at, todo |-> admin[a].todo,
         texts |-> admin[a].texts] \in Task
    BY TasksAre DEF Task
  <2> QED
    BY <1>1, <2>1, TasksAre DEF BotTypeOK
<1>2. ASSUME Answer(a) PROVE admin' \in [Admins -> Task]
  BY <1>2, TasksAre DEF Answer, BotTypeOK
<1> QED
  BY <1>1, <1>2

LEMMA DocumentsAre ==
    ASSUME BotTypeOK
    PROVE  /\ \A S, s : s \in {"ok", "failed"} =>
                  WithVectorStatus(S, s) \in [Faqs -> Document]
           /\ \A S : \A t \in Sayings : New(S, t) \in [Faqs -> Document]
           /\ \A i \in Faqs : faq[i] \in Document
<1>1. \A i \in Faqs : faq[i] \in Document
  BY DEF BotTypeOK
<1>2. ASSUME NEW S, NEW s \in {"ok", "failed"}
      PROVE  WithVectorStatus(S, s) \in [Faqs -> Document]
  <2>1. ASSUME NEW i \in Faqs PROVE [faq[i] EXCEPT !.vectorStatus = s] \in Document
    BY <1>1 DEF Document
  <2> QED
    BY <1>1, <2>1 DEF WithVectorStatus
<1>3. ASSUME NEW S, NEW t \in Sayings PROVE New(S, t) \in [Faqs -> Document]
  <2>1. [status |-> "active", vectorStatus |-> "pending", text |-> t] \in Document
    BY DEF Document
  <2> QED
    BY <1>1, <2>1 DEF New
<1> QED
  BY <1>1, <1>2, <1>3

LEMMA BotTypes == BotTypeOK /\ [BotNext]_botVars => BotTypeOK'
<1> SUFFICES ASSUME BotTypeOK, BotNext PROVE BotTypeOK'
  BY DEF botVars, BotTypeOK
<1>1. PICK a \in Admins :
          \/ AdminStep(a) \/ Refused(a) \/ ReindexAll(a)
          \/ \E i \in Faqs : Delete(a, i) \/ \E t \in Sayings : Edit(a, i, t)
          \/ \E o \in {"create", "import"}, S \in SUBSET Faqs, t \in Sayings :
                 Store(a, o, S, t)
  BY DEF BotNext
<1>t. /\ faq \in [Faqs -> Document] /\ vector \in [Faqs -> Sayings \cup {Unsaid}]
      /\ admin \in [Admins -> Task] /\ meddled \subseteq Faqs /\ undeleted \subseteq Faqs
      /\ refusals \in 0..MaxRefusals
      /\ admin[a].todo \subseteq Faqs /\ admin[a].texts \in [Faqs -> Sayings \cup {Unsaid}]
  BY DEF BotTypeOK, Task
<1>u. ASSUME NEW S \in SUBSET Faqs,
             NEW o \in {"create", "edit", "import", "reindex", "delete"},
             NEW at \in {"write", "embed", "unindex"},
             NEW x \in [Faqs -> Sayings \cup {Unsaid}], TakeUp(a, o, at, S, x)
      PROVE  admin' \in [Admins -> Task]
  <2>1. [op |-> o, at |-> at, todo |-> S, texts |-> x] \in Task
    BY DEF Task
  <2> QED
    BY <1>u, <1>t, <2>1 DEF TakeUp
<1>r. Readings \in [Faqs -> Sayings \cup {Unsaid}]
  BY <1>t DEF Readings, Document
<1>e. Embedded(a) \in [Faqs -> Sayings \cup {Unsaid}]
  BY <1>t DEF Embedded
<1>2. CASE Write(a)
  <2>1. faq' \in [Faqs -> Document]
    <3>1. ASSUME NEW i \in admin[a].todo
          PROVE  [faq[i] EXCEPT !.text = admin[a].texts[i], !.vectorStatus = "pending"]
                     \in Document
      BY ZenonT(60), <1>t DEF Document
    <3> QED
      BY <1>2, <1>t, <3>1 DEF Write
  <2>2. admin' \in [Admins -> Task]
    BY <1>2, TaskTypes DEF Write
  <2>3. meddled' \subseteq Faqs /\ undeleted' \subseteq Faqs
    BY <1>2, <1>t DEF Write
  <2> QED
    BY <1>2, <1>t, <2>1, <2>2, <2>3 DEF Write, BotTypeOK
<1>3. CASE EmbedAndUpsert(a)
  <2>1. admin' \in [Admins -> Task]
    BY <1>3, TaskTypes DEF EmbedAndUpsert
  <2> QED
    BY <1>3, <1>t, <1>e, <2>1 DEF EmbedAndUpsert, BotTypeOK
<1>4. CASE MarkOk(a)
  <2>1. admin' \in [Admins -> Task]
    BY <1>4, TaskTypes DEF MarkOk
  <2> QED
    BY <1>4, <1>t, <2>1, DocumentsAre DEF MarkOk, BotTypeOK
<1>5. CASE MarkVectorFailed(a)
  <2>1. admin' \in [Admins -> Task]
    BY <1>5, TaskTypes DEF MarkVectorFailed
  <2> QED
    BY <1>5, <1>t, <2>1, DocumentsAre DEF MarkVectorFailed, BotTypeOK
<1>6. CASE DeletePoint(a)
  <2>1. admin' \in [Admins -> Task]
    BY <1>6, TaskTypes DEF DeletePoint
  <2>2. vector' \in [Faqs -> Sayings \cup {Unsaid}]
    BY <1>6, <1>t DEF DeletePoint
  <2> QED
    BY <1>6, <1>t, <2>1, <2>2 DEF DeletePoint, BotTypeOK
<1>7. CASE Refused(a)
  <2>1. admin' \in [Admins -> Task]
    BY <1>7, TaskTypes DEF Refused
  <2>2. vector' \in [Faqs -> Sayings \cup {Unsaid}]
    BY <1>7, <1>t, <1>e DEF Refused
  <2>3. undeleted' \subseteq Faqs
    BY <1>7, <1>t DEF Refused
  <2>4. refusals' \in 0..MaxRefusals
    BY <1>7, <1>t, RefusalsAssumption DEF Refused
  <2> QED
    BY <1>7, <1>t, <2>1, <2>2, <2>3, <2>4 DEF Refused, BotTypeOK
<1>8. CASE ReindexAll(a)
  <2>1. admin' \in [Admins -> Task]
    BY <1>8, <1>u, <1>r DEF ReindexAll
  <2>2. meddled' \subseteq Faqs
    BY <1>8, <1>t DEF ReindexAll, Met
  <2> QED
    BY <1>8, <1>t, <2>1, <2>2 DEF ReindexAll, BotTypeOK
<1>9. ASSUME NEW i \in Faqs, Delete(a, i) PROVE BotTypeOK'
  <2>1. admin' \in [Admins -> Task]
    BY <1>9, <1>u, <1>r DEF Delete
  <2>2. faq' \in [Faqs -> Document]
    <3>1. [faq[i] EXCEPT !.status = "deleted"] \in Document
      BY <1>t DEF Document
    <3> QED
      BY <1>9, <1>t, <3>1 DEF Delete
  <2>3. meddled' \subseteq Faqs /\ undeleted' \subseteq Faqs
    BY <1>9, <1>t DEF Delete
  <2> QED
    BY <1>9, <1>t, <2>1, <2>2, <2>3 DEF Delete, BotTypeOK
<1>10. ASSUME NEW i \in Faqs, NEW t \in Sayings, Edit(a, i, t) PROVE BotTypeOK'
  <2>1. [j \in Faqs |-> IF j = i THEN t ELSE Unsaid] \in [Faqs -> Sayings \cup {Unsaid}]
    OBVIOUS
  <2>2. admin' \in [Admins -> Task]
    BY <1>10, <1>u, <2>1 DEF Edit
  <2>3. meddled' \subseteq Faqs
    BY <1>10, <1>t DEF Edit, Met
  <2> QED
    BY <1>10, <1>t, <2>2, <2>3 DEF Edit, BotTypeOK
<1>11. ASSUME NEW o \in {"create", "import"}, NEW S \in SUBSET Faqs, NEW t \in Sayings,
              Store(a, o, S, t)
       PROVE  BotTypeOK'
  <2>1. [i \in Faqs |-> IF i \in S THEN t ELSE Unsaid] \in [Faqs -> Sayings \cup {Unsaid}]
    OBVIOUS
  <2>2. admin' \in [Admins -> Task]
    BY <1>11, <1>u, <2>1 DEF Store
  <2> QED
    BY <1>11, <1>t, <2>2, DocumentsAre DEF Store, BotTypeOK
<1> QED
  BY <1>1, <1>2, <1>3, <1>4, <1>5, <1>6, <1>7, <1>8, <1>9, <1>10, <1>11 DEF AdminStep

-----------------------------------------------------------------------------
(* The support bot: no step breaks the invariant *)

\* A call that takes up S: what nobody had in hand was at rest.
LEMMA TakenUp ==
    ASSUME BotInv, NEW a \in Admins, AdminAt(a, "idle"), NEW S, meddled' = Met(S)
    PROVE  /\ admin[a].todo = {}
           /\ \A i \in Faqs : i \notin S /\ i \notin meddled' => i \notin meddled
           /\ \A i \in (Faqs \ meddled') \cap S : ~HandedTo(i, Others(a)) /\ Rests(i)
BY DEF BotInv, AdminAt, StageFits, Met, HandedTo, Others, EntryHolds

\* A call goes on with what it has in hand.
LEMMA HeldAlone ==
    ASSUME BotInv, NEW a \in Admins
    PROVE  /\ StageFits(admin[a])
           /\ \A i \in admin[a].todo : i \in Faqs /\ faq[i].status # "absent"
           /\ \A i \in admin[a].todo : i \notin meddled =>
                  InWork(admin[a], i) /\ ~HandedTo(i, Others(a))
<1>1. admin[a].todo \subseteq Faqs
  BY DEF BotInv, BotTypeOK, Task
<1> QED
  BY <1>1 DEF BotInv, EntryHolds, InHand, HandedTo, Others

LEMMA WriteStep == ASSUME BotInv, NEW a \in Admins, Write(a) PROVE BotInv'
<1>k. PICK k : k = [op |-> admin[a].op, at |-> "embed", todo |-> admin[a].todo,
                    texts |-> admin[a].texts]
  OBVIOUS
<1>0. BotTypeOK /\ BotTypeOK'
  BY BotTypes DEF BotInv, BotNext, AdminStep
<1>1. admin' = [admin EXCEPT ![a] = k]
  BY <1>k, <1>0, TasksAre DEF Write
<1>2. StageFits(k)
  BY <1>k, HeldAlone DEF Write, AdminAt, StageFits
<1>3. /\ \A i \in Faqs \ admin[a].todo : faq'[i] = faq[i] /\ vector'[i] = vector[i]
      /\ \A i \in Faqs \ admin[a].todo : i \in undeleted => i \in undeleted'
      /\ \A i \in Faqs \ admin[a].todo : i \notin meddled' => i \notin meddled
  BY <1>0 DEF Write, BotTypeOK
<1>4. \A i \in admin[a].todo : /\ faq'[i].status = faq[i].status
                               /\ faq'[i].vectorStatus = "pending"
                               /\ faq'[i].text = admin[a].texts[i]
                               /\ faq[i].status = "deleted" => i \in undeleted'
  <2> SUFFICES ASSUME NEW i \in admin[a].todo
               PROVE  /\ faq'[i].status = faq[i].status
                      /\ faq'[i].vectorStatus = "pending"
                      /\ faq'[i].text = admin[a].texts[i]
                      /\ faq[i].status = "deleted" => i \in undeleted'
    OBVIOUS
  <2>1. i \in Faqs /\ faq[i] \in Document
    BY <1>0, HeldAlone DEF BotTypeOK
  <2>2. faq'[i] = [faq[i] EXCEPT !.text = admin[a].texts[i], !.vectorStatus = "pending"]
    BY <2>1 DEF Write
  <2>3. faq[i] = [status |-> faq[i].status, vectorStatus |-> faq[i].vectorStatus,
                  text |-> faq[i].text]
    BY <2>1 DEF Document
  <2>4. faq'[i] = [status |-> faq[i].status, vectorStatus |-> "pending",
                   text |-> admin[a].texts[i]]
    BY <2>2, <2>3
  <2>5. faq[i].status = "deleted" => i \in undeleted'
    BY DEF Write
  <2> QED
    BY <2>4, <2>5
<1>5. \A i \in admin[a].todo : i \notin meddled' => ~HandedTo(i, Others(a))
  BY HeldAlone DEF Write
<1>6. \A i \in admin[a].todo : InWork(k, i)'
  BY <1>k, <1>4 DEF InWork, Rests
<1>7. \A i \in Faqs : faq'[i].status = "absent" => faq[i].status = "absent"
  BY <1>3, <1>4
<1>8. \A i \in k.todo : faq'[i].status # "absent"
  BY <1>k, <1>4, HeldAlone
<1>9. k.todo = admin[a].todo
  BY <1>k
<1> QED
  BY <1>0, <1>1, <1>2, <1>3, <1>5, <1>6, <1>7, <1>8, <1>9, BotMoves

LEMMA EmbedStep == ASSUME BotInv, NEW a \in Admins, EmbedAndUpsert(a) PROVE BotInv'
<1>k. PICK k : k = [op |-> admin[a].op, at |-> "mark", todo |-> admin[a].todo,
                    texts |-> admin[a].texts]
  OBVIOUS
<1>0. BotTypeOK /\ BotTypeOK'
  BY BotTypes DEF BotInv, BotNext, AdminStep
<1>1. admin' = [admin EXCEPT ![a] = k]
  BY <1>k, <1>0, TasksAre DEF EmbedAndUpsert
<1>2. StageFits(k)
  BY <1>k, HeldAlone DEF EmbedAndUpsert, AdminAt, StageFits
<1>3. UNCHANGED <<faq, meddled, undeleted>> /\ admin[a].at = "embed"
  BY DEF EmbedAndUpsert, AdminAt
<1>4. /\ \A i \in Faqs \ admin[a].todo : vector'[i] = vector[i]
      /\ \A i \in admin[a].todo : vector'[i] = admin[a].texts[i]
  BY <1>0, HeldAlone DEF EmbedAndUpsert, Embedded, BotTypeOK
<1>5. \A i \in admin[a].todo : i \notin meddled =>
          InWork(k, i)' /\ ~HandedTo(i, Others(a))
  BY <1>k, <1>3, <1>4, HeldAlone DEF InWork, Rests
<1>6. k.todo = admin[a].todo
  BY <1>k
<1> QED
  BY <1>0, <1>1, <1>2, <1>3, <1>4, <1>5, <1>6, HeldAlone, BotMoves

\* "ok" or "failed" is right for what the call has in hand.
LEMMA MarkStep ==
    ASSUME BotInv, NEW a \in Admins, MarkOk(a) \/ MarkVectorFailed(a)
    PROVE  BotInv'
<1>0. BotTypeOK /\ BotTypeOK'
  BY BotTypes DEF BotInv, BotNext, AdminStep
<1>1. UNCHANGED <<vector, meddled, undeleted>>
  BY DEF MarkOk, MarkVectorFailed
<1>2. PICK s \in {"ok", "failed"} :
          /\ faq' = WithVectorStatus(admin[a].todo, s)
          /\ s = "ok" => admin[a].at \in {"mark", "again"}
          /\ s = "failed" => admin[a].at = "fail"
  BY DEF MarkOk, MarkVectorFailed, AdminAt
<1>3. /\ \A i \in Faqs \ admin[a].todo : faq'[i] = faq[i]
      /\ \A i \in admin[a].todo : /\ faq'[i].status = faq[i].status
                                  /\ faq'[i].text = faq[i].text
                                  /\ faq'[i].vectorStatus = s
  BY <1>0, <1>2, HeldAlone DEF WithVectorStatus, BotTypeOK, Document
<1>4. \A i \in admin[a].todo : i \notin meddled =>
          Rests(i)' /\ ~HandedTo(i, Others(a))
  BY <1>1, <1>2, <1>3, HeldAlone DEF InWork, Rests
<1>5. /\ \A i \in Faqs : faq'[i].status = "absent" => faq[i].status = "absent"
      /\ \A i \in admin[a].todo : faq'[i].status # "absent"
  BY <1>3, HeldAlone
<1>6. CASE Answer(a)
  <2>1. admin' = [admin EXCEPT ![a] = NoTask]
    BY <1>6 DEF Answer
  <2>2. StageFits(NoTask) /\ NoTask.todo = {}
    BY DEF StageFits, NoTask
  <2> QED
    BY <1>0, <1>1, <1>3, <1>4, <1>5, <2>1, <2>2, BotMoves
<1>7. CASE TurnTo(a, "again") /\ AdminAt(a, "mark") /\ admin[a].op = "edit"
  <2>k. PICK k : k = [op |-> admin[a].op, at |-> "again", todo |-> admin[a].todo,
                      texts |-> admin[a].texts]
    OBVIOUS
  <2>1. admin' = [admin EXCEPT ![a] = k]
    BY <2>k, <1>0, <1>7, TasksAre
  <2>2. StageFits(k)
    BY <2>k, <1>7 DEF StageFits
  <2>3. \A i \in admin[a].todo : i \notin meddled => InWork(k, i)'
    BY <2>k, <1>1, <1>3, <1>4, <1>7, HeldAlone DEF InWork, AdminAt
  <2>4. k.todo = admin[a].todo
    BY <2>k
  <2> QED
    BY <1>0, <1>1, <1>3, <1>4, <1>5, <2>1, <2>2, <2>3, <2>4, BotMoves
<1> QED
  BY <1>6, <1>7 DEF MarkOk, MarkVectorFailed

LEMMA DeletePointStep == ASSUME BotInv, NEW a \in Admins, DeletePoint(a) PROVE BotInv'
<1>0. BotTypeOK /\ BotTypeOK'
  BY BotTypes DEF BotInv, BotNext, AdminStep
<1>1. /\ UNCHANGED <<faq, meddled, undeleted>> /\ admin[a].at = "unindex"
      /\ admin' = [admin EXCEPT ![a] = NoTask]
  BY DEF DeletePoint, AdminAt, Answer
<1>2. /\ \A i \in Faqs \ admin[a].todo : vector'[i] = vector[i]
      /\ \A i \in admin[a].todo : vector'[i] = Unsaid
  BY <1>0, HeldAlone DEF DeletePoint, BotTypeOK
<1>3. \A i \in admin[a].todo : i \notin meddled =>
          Rests(i)' /\ ~HandedTo(i, Others(a))
  BY <1>1, <1>2, HeldAlone DEF InWork, Rests
<1>4. StageFits(NoTask) /\ NoTask.todo = {}
  BY DEF StageFits, NoTask
<1> QED
  BY <1>0, <1>1, <1>2, <1>3, <1>4, BotMoves

LEMMA RefusedStep == ASSUME BotInv, NEW a \in Admins, Refused(a) PROVE BotInv'
<1>0. BotTypeOK /\ BotTypeOK'
  BY BotTypes DEF BotInv, BotNext
<1>1. /\ UNCHANGED <<faq, meddled>>
      /\ vector' = vector \/ (admin[a].at = "embed" /\ vector' = Embedded(a))
      /\ undeleted \subseteq undeleted'
      /\ admin[a].at = "unindex" => admin[a].todo \subseteq undeleted'
  BY DEF Refused, AdminAt
<1>2. \A i \in Faqs \ admin[a].todo : vector'[i] = vector[i]
  BY <1>0, <1>1 DEF Embedded, BotTypeOK
<1>3. \A i \in admin[a].todo :
          \/ vector'[i] = vector[i]
          \/ admin[a].at = "embed" /\ vector'[i] = admin[a].texts[i]
  BY <1>1, HeldAlone DEF Embedded
<1>4. \A i \in admin[a].todo : i \notin meddled =>
          Rests(i)' /\ ~HandedTo(i, Others(a))
  BY <1>1, <1>3, HeldAlone DEF InWork, Rests
<1>5. CASE Answer(a)
  <2>1. admin' = [admin EXCEPT ![a] = NoTask]
    BY <1>5 DEF Answer
  <2>2. StageFits(NoTask) /\ NoTask.todo = {}
    BY DEF StageFits, NoTask
  <2> QED
    BY <1>0, <1>1, <1>2, <1>4, <2>1, <2>2, BotMoves
<1>6. CASE TurnTo(a, "fail") /\ admin[a].op \in {"create", "edit"}
  <2>k. PICK k : k = [op |-> admin[a].op, at |-> "fail", todo |-> admin[a].todo,
                      texts |-> admin[a].texts]
    OBVIOUS
  <2>1. admin' = [admin EXCEPT ![a] = k]
    BY <2>k, <1>0, <1>6, TasksAre
  <2>2. StageFits(k)
    BY <2>k, <1>6 DEF StageFits
  <2>3. \A i \in admin[a].todo : i \notin meddled => InWork(k, i)'
    BY <2>k, <1>4 DEF InWork
  <2>4. k.todo = admin[a].todo
    BY <2>k
  <2> QED
    BY <1>0, <1>1, <1>2, <1>4, <2>1, <2>2, <2>3, <2>4, HeldAlone, BotMoves
<1> QED
  BY <1>5, <1>6 DEF Refused

LEMMA ReindexStep == ASSUME BotInv, NEW a \in Admins, ReindexAll(a) PROVE BotInv'
<1>0. BotTypeOK /\ BotTypeOK'
  BY BotTypes DEF BotInv, BotNext
<1>1. PICK S \in SUBSET Faqs :
          /\ \A i \in S : faq[i].status = "active"
          /\ TakeUp(a, "reindex", "embed", S, Readings)
          /\ meddled' = Met(S)
          /\ UNCHANGED <<faq, vector, undeleted>>
  BY DEF ReindexAll
<1>k. PICK k : k = [op |-> "reindex", at |-> "embed", todo |-> S, texts |-> Readings]
  OBVIOUS
<1>2. admin' = [admin EXCEPT ![a] = k] /\ AdminAt(a, "idle")
  BY <1>k, <1>1 DEF TakeUp
<1>3. StageFits(k)
  BY <1>k DEF StageFits
<1>4. /\ admin[a].todo = {}
      /\ \A i \in Faqs : i \notin S /\ i \notin meddled' => i \notin meddled
      /\ \A i \in (Faqs \ meddled') \cap S : ~HandedTo(i, Others(a)) /\ Rests(i)
  BY <1>1, <1>2, TakenUp
<1>5. \A i \in S : i \notin meddled' => InWork(k, i)'
  BY <1>k, <1>1, <1>4 DEF InWork, Rests, Readings
<1>6. k.todo = S
  BY <1>k
<1> QED
  BY <1>0, <1>1, <1>2, <1>3, <1>4, <1>5, <1>6, BotMoves

LEMMA EditStep ==
    ASSUME BotInv, NEW a \in Admins, NEW e \in Faqs, NEW t \in Sayings, Edit(a, e, t)
    PROVE  BotInv'
<1> DEFINE k == [op |-> "edit", at |-> "write", todo |-> {e},
                 texts |-> [j \in Faqs |-> IF j = e THEN t ELSE Unsaid]]
<1>0. BotTypeOK /\ BotTypeOK'
  BY BotTypes DEF BotInv, BotNext
<1>1. /\ admin' = [admin EXCEPT ![a] = k] /\ AdminAt(a, "idle")
      /\ faq[e].status # "absent"
      /\ meddled' = Met({e})
      /\ UNCHANGED <<faq, vector, undeleted>>
  BY DEF Edit, TakeUp
<1>2. StageFits(k) /\ k.todo = {e} /\ k.at = "write"
  BY DEF StageFits
<1> HIDE DEF k
<1>3. /\ admin[a].todo = {}
      /\ \A i \in Faqs : i # e /\ i \notin meddled' => i \notin meddled
      /\ e \notin meddled' => ~HandedTo(e, Others(a)) /\ Rests(e)
  BY <1>1, TakenUp
<1>4. e \notin meddled' => InWork(k, e)'
  BY <1>1, <1>2, <1>3 DEF InWork, Rests
<1> QED
  BY <1>0, <1>1, <1>2, <1>3, <1>4, BotMoves

LEMMA DeleteStep ==
    ASSUME BotInv, NEW a \in Admins, NEW e \in Faqs, Delete(a, e)
    PROVE  BotInv'
<1>k. PICK k : k = [op |-> "delete", at |-> "unindex", todo |-> {e}, texts |-> Readings]
  OBVIOUS
<1>0. BotTypeOK /\ BotTypeOK'
  BY BotTypes DEF BotInv, BotNext
<1>1. /\ admin' = [admin EXCEPT ![a] = k] /\ AdminAt(a, "idle")
      /\ vector' = vector
      /\ undeleted' = undeleted \ {e}
      /\ meddled' = IF HandedTo(e, Admins) THEN meddled \cup {e} ELSE meddled \ {e}
  BY <1>k DEF Delete, TakeUp
<1>2. StageFits(k) /\ k.todo = {e} /\ k.at = "unindex"
  BY <1>k DEF StageFits
<1>3. admin[a].todo = {}
  BY <1>1 DEF BotInv, StageFits, AdminAt
<1>4. faq'[e].status = "deleted" /\ \A i \in Faqs \ {e} : faq'[i] = faq[i]
  BY <1>0 DEF Delete, BotTypeOK, Document
<1>5. e \notin meddled' => InWork(k, e)' /\ ~HandedTo(e, Others(a))
  BY <1>k, <1>1, <1>2, <1>4 DEF InWork, HandedTo, Others
<1>6. \A i \in Faqs \ {e} : /\ i \in undeleted => i \in undeleted'
                            /\ i \notin meddled' => i \notin meddled
  BY <1>1
<1>7. /\ \A i \in Faqs : faq'[i].status = "absent" => faq[i].status = "absent"
      /\ \A i \in k.todo : faq'[i].status # "absent"
  BY <1>2, <1>4
<1>8. \A i \in Faqs \ (admin[a].todo \cup k.todo) :
          /\ faq'[i] = faq[i] /\ vector'[i] = vector[i]
          /\ i \in undeleted => i \in undeleted'
          /\ i \notin meddled' => i \notin meddled
  BY <1>1, <1>2, <1>4, <1>6
<1>9. \A i \in Faqs \ meddled' :
          /\ i \in k.todo => InWork(k, i)' /\ ~HandedTo(i, Others(a))
          /\ i \notin k.todo /\ i \in admin[a].todo =>
                 ~HandedTo(i, Others(a)) /\ Rests(i)'
  BY <1>2, <1>3, <1>5
<1> QED
  BY <1>0, <1>1, <1>2, <1>7, <1>8, <1>9, BotMoves

LEMMA StoreStep ==
    ASSUME BotInv, NEW a \in Admins, NEW o \in {"create", "import"},
           NEW S \in SUBSET Faqs, NEW t \in Sayings, Store(a, o, S, t)
    PROVE  BotInv'
<1> DEFINE x == [i \in Faqs |-> IF i \in S THEN t ELSE Unsaid]
           k == [op |-> o, at |-> "embed", todo |-> S, texts |-> x]
<1>0. BotTypeOK /\ BotTypeOK'
  BY BotTypes DEF BotInv, BotNext
<1>1. /\ admin' = [admin EXCEPT ![a] = k] /\ AdminAt(a, "idle")
      /\ \A i \in S : faq[i].status = "absent"
      /\ faq' = New(S, t)
      /\ UNCHANGED <<vector, meddled, undeleted>>
  BY DEF Store, TakeUp
<1>2. StageFits(k)
  BY DEF StageFits
<1>3. admin[a].todo = {}
  BY <1>1 DEF BotInv, StageFits, AdminAt
<1>4. /\ \A i \in Faqs \ S : faq'[i] = faq[i]
      /\ \A i \in S : faq'[i] = [status |-> "active", vectorStatus |-> "pending", text |-> t]
  BY <1>0, <1>1 DEF New, BotTypeOK
<1>5. \A i \in S : ~HandedTo(i, Others(a))
  BY <1>1 DEF BotInv, InHand, HandedTo, Others
<1>6. \A i \in S : InWork(k, i)'
  BY <1>4 DEF InWork, Rests
<1>7. /\ \A i \in Faqs : faq'[i].status = "absent" => faq[i].status = "absent"
      /\ \A i \in S : faq'[i].status # "absent"
  BY <1>4
<1>8. k.todo = S
  OBVIOUS
<1> HIDE DEF k
<1> QED
  BY <1>0, <1>1, <1>2, <1>3, <1>4, <1>5, <1>6, <1>7, <1>8, BotMoves

LEMMA BotSteps == BotInv /\ [BotNext]_botVars => BotInv'
<1> SUFFICES ASSUME BotInv, [BotNext]_botVars PROVE BotInv'
  OBVIOUS
<1>1. CASE BotNext
  BY <1>1, WriteStep, EmbedStep, MarkStep, DeletePointStep, RefusedStep, ReindexStep,
     EditStep, DeleteStep, StoreStep DEF BotNext, AdminStep
<1>2. CASE UNCHANGED botVars
  BY <1>2 DEF botVars, BotInv, BotTypeOK, StageFits, InHand, EntryHolds, InWork, Rests, HandedTo
<1> QED
  BY <1>1, <1>2

\* The inductive invariant holds throughout.
THEOREM BotInvariance == BotSpec => []BotInv
<1>1. BotInit => BotInv
  BY BotInitially
<1>2. BotInv /\ [BotNext]_botVars => BotInv'
  BY BotSteps
<1> QED
  BY <1>1, <1>2, PTL DEF BotSpec

\* BotFaqService, for any number of entries, texts and admins at work at once: an entry
\* called "ok" is found as it reads, and a deleted one is not, unless calls met on it, it
\* was edited after its deletion or the deletion of its vector failed.
THEOREM BotCurrency == BotSpec => []BotAnswersAreCurrent
<1>1. BotInv => BotAnswersAreCurrent
  BY DEF BotInv, EntryHolds, Rests, BotAnswersAreCurrent
<1> QED
  BY <1>1, BotInvariance, PTL

-----------------------------------------------------------------------------
(* The search index: the inductive invariant *)

\* What becomes of an item of each kind.
StatusFits(i) ==
    /\ library[i] = "faq" =>
           status[i] \in {"absent", "pending", "completed", "failed", "deleted", "gone"}
    /\ library[i] = "url" => status[i] \in {"absent", "pending", "completed", "failed"}
    /\ library[i] = "document" =>
           status[i] \in {"absent", "pending", "processing", "completed", "failed", "gone"}
    /\ library[i] = "product" => status[i] \in {"absent", "active", "gone"}

\* The kind of item that an operation is for, and its steps.
Serves(o) ==
    IF o \in {"train", "edit", "erase"} THEN "faq"
    ELSE IF o = "crawl" THEN "url"
    ELSE IF o \in {"upload", "process", "discard"} THEN "document" ELSE "product"

StepFits(r) ==
    \/ /\ r.op \in {"train", "crawl"}
       /\ r.at \in {"announce", "pick", "upsert", "mark", "tell", "fail", "apologise"}
    \/ /\ r.op = "edit"
       /\ r.at \in {"write", "upsert", "mark", "tell", "fail", "apologise"}
    \/ r.op = "erase" /\ r.at \in {"erase", "remove"}
    \/ r.op = "upload" /\ r.at \in {"record", "enqueue"}
    \/ r.op = "process" /\ r.at \in {"fetch", "download", "upsert", "mark", "fail"}
    \/ r.op = "discard" /\ r.at \in {"unstore", "remove"}
    \/ r.op = "index" /\ r.at \in {"category", "clear", "upsert"}
    \/ r.op = "reindex" /\ r.at \in {"event", "category", "clear", "upsert"}
    \/ r.op = "withdraw" /\ r.at \in {"delete", "unindex"}

\* Only a batch has several items in hand, and only at its start none of them is the one.
WorkFits(r) ==
    \/ r.at \in {"idle", "done"} /\ r.todo = {}
    \/ /\ StepFits(r)
       /\ r.at \notin {"announce", "pick"} => r.item \in r.todo
       /\ r.op \notin {"train", "crawl"} => r.todo = {r.item}
       /\ \A i \in r.todo : library[i] = Serves(r.op)

\* The stores agree on item i.
Agrees(i) ==
    /\ status[i] = "completed" /\ <<"erase", i>> \notin apart => point[i] = text[i]
    /\ status[i] = "active" /\ (\A o \in Operation : <<o, i>> \notin apart) =>
           point[i] = text[i]
    /\ status[i] = "gone" /\ library[i] # "document" =>
           point[i] = NoText \/ <<"withdraw", i>> \in apart

\* Between its two stores work r has item i on its mind.
Between(r) ==
    r.op \in {"index", "reindex"} \/ r.at = "unindex" \/ (r.op = "erase" /\ r.at = "remove")

\* What work r may rely on for item i that it alone has in hand.
ItemFits(r, i) ==
    /\ r.op \in {"train", "crawl"} => status[i] \in {"pending", "completed", "failed"}
    /\ r.op = "process" => status[i] \in {"absent", "processing", "gone"}
    /\ r.op \in {"edit", "erase", "discard"} \/ r.at = "delete" => Exists(i)
    /\ r.at = "unindex" => status[i] = "gone"
    /\ r.at = "record" => status[i] = "absent"
    /\ r.at = "enqueue" => status[i] = "pending"
    /\ r.op \in {"index", "reindex"} => status[i] = "active"
    /\ r.op \in {"index", "reindex", "crawl"} => text[i] = r.got
    /\ r.at = "upsert" /\ r.item = i => text[i] = r.got
    /\ r.at = "mark" /\ r.item = i => point[i] = text[i]
    /\ r.op = "erase" /\ r.at = "remove" => point[i] = NoText
    /\ Between(r) \/ Agrees(i)

OnlyHere(a, i) == \A b \in Actors : i \in work[b].todo => b = a

ItemHolds(i) ==
    /\ \A a \in Actors : i \in work[a].todo => ItemFits(work[a], i) /\ OnlyHere(a, i)
    /\ ~Busy(i) => Agrees(i)

IndexInv ==
    /\ IndexTypeOK
    /\ \A i \in Items : StatusFits(i)
    /\ \A i \in queued : library[i] = "document"
    /\ \A a \in Actors : WorkFits(work[a])
    /\ \A a \in Workers : work[a].todo # {} => work[a].op = "process"
    /\ \A i \in Items \ raced : ItemHolds(i)

LEMMA IndexInitially == IndexInit => IndexInv
<1> SUFFICES ASSUME IndexInit PROVE IndexInv
  OBVIOUS
<1>1. PICK S \in {{}, Items}, t \in Texts :
          /\ status = [i \in Items |-> IF i \in S THEN Settled(library[i]) ELSE "absent"]
          /\ text = [i \in Items |-> IF i \in S THEN t ELSE NoText]
          /\ file = {i \in S : library[i] = "document"}
          /\ point = text
  BY DEF IndexInit
<1>2. library \in [Items -> Kind]
  BY LibrariesAssumption DEF IndexInit
<1>3. \A a \in Actors : work[a] = [op |-> "none", at |-> "idle", todo |-> {},
                                   item |-> NoItem, got |-> NoText]
  BY DEF IndexInit
<1>4. IndexTypeOK
  <2>1. status \in [Items -> Status]
    BY <1>1 DEF Settled, Status
  <2>2. text \in [Items -> Texts \cup {NoText}] /\ point = text /\ file \subseteq Items
    BY <1>1
  <2>3. work \in [Actors -> Work]
    <3>1. [op |-> "none", at |-> "idle", todo |-> {}, item |-> NoItem, got |-> NoText] \in Work
      BY DEF Work, Operation, Step
    <3> QED
      BY <3>1 DEF IndexInit
  <2>4. queued = {} /\ raced = {} /\ apart = {} /\ troubles \in 0..MaxMishaps
    BY IndexBoundAssumption DEF IndexInit
  <2> QED
    BY <2>1, <2>2, <2>3, <2>4 DEF IndexInit, IndexTypeOK
<1>5. \A i \in Items : StatusFits(i)
  BY <1>1, <1>2 DEF StatusFits, Settled, Kind
<1>6. \A a \in Actors : WorkFits(work[a]) /\ work[a].todo = {}
  BY <1>3 DEF WorkFits
<1>7. \A i \in Items : status[i] # "gone" /\ point[i] = text[i]
  BY <1>1 DEF Settled
<1>8. \A i \in Items : ItemHolds(i)
  BY <1>6, <1>7 DEF ItemHolds, Agrees
<1>9. queued = {} /\ Workers \subseteq Actors
  BY DEF IndexInit, Actors
<1> QED
  BY <1>4, <1>5, <1>6, <1>8, <1>9 DEF IndexInv

-----------------------------------------------------------------------------
(* The search index: types *)

Going(a, at) ==
    [op |-> work[a].op, at |-> at, todo |-> work[a].todo, item |-> work[a].item,
     got |-> work[a].got]
Finished(a) ==
    [op |-> work[a].op, at |-> Rest(a), todo |-> {}, item |-> work[a].item,
     got |-> work[a].got]

\* What the changes of a record of work come to.
LEMMA WorkChanges ==
    ASSUME NEW w \in Work, NEW x, NEW y
    PROVE  /\ [w EXCEPT !.at = x, !.todo = y] =
                  [op |-> w.op, at |-> x, todo |-> y, item |-> w.item, got |-> w.got]
           /\ [w EXCEPT !.todo = y, !.at = x] =
                  [op |-> w.op, at |-> x, todo |-> y, item |-> w.item, got |-> w.got]
<1>1. w = [op |-> w.op, at |-> w.at, todo |-> w.todo, item |-> w.item, got |-> w.got]
  BY DEF Work
<1>2. PICK u : u = [w EXCEPT !.at = x]
  OBVIOUS
<1>3. u = [op |-> w.op, at |-> x, todo |-> w.todo, item |-> w.item, got |-> w.got]
  BY <1>1, <1>2
<1>4. PICK v : v = [w EXCEPT !.todo = y]
  OBVIOUS
<1>5. v = [op |-> w.op, at |-> w.at, todo |-> y, item |-> w.item, got |-> w.got]
  BY <1>1, <1>4
<1>6. [u EXCEPT !.todo = y] =
          [op |-> w.op, at |-> x, todo |-> y, item |-> w.item, got |-> w.got]
  BY <1>3
<1>7. [v EXCEPT !.at = x] =
          [op |-> w.op, at |-> x, todo |-> y, item |-> w.item, got |-> w.got]
  BY <1>5
<1> QED
  BY <1>2, <1>4, <1>6, <1>7, Zenon

LEMMA WorkReads ==
    ASSUME NEW w \in Work, NEW x, NEW g
    PROVE  [w EXCEPT !.at = x, !.got = g] =
               [op |-> w.op, at |-> x, todo |-> w.todo, item |-> w.item, got |-> g]
<1>1. w = [op |-> w.op, at |-> w.at, todo |-> w.todo, item |-> w.item, got |-> w.got]
  BY DEF Work
<1>2. PICK u : u = [w EXCEPT !.at = x]
  OBVIOUS
<1>3. u = [op |-> w.op, at |-> x, todo |-> w.todo, item |-> w.item, got |-> w.got]
  BY <1>1, <1>2
<1>4. [u EXCEPT !.got = g] =
          [op |-> w.op, at |-> x, todo |-> w.todo, item |-> w.item, got |-> g]
  BY <1>3
<1> QED
  BY <1>2, <1>4, Zenon

LEMMA WorkTurns ==
    ASSUME NEW w \in Work, NEW i, NEW x, NEW g
    PROVE  [w EXCEPT !.item = i, !.at = x, !.got = g] =
               [op |-> w.op, at |-> x, todo |-> w.todo, item |-> i, got |-> g]
<1>1. w = [op |-> w.op, at |-> w.at, todo |-> w.todo, item |-> w.item, got |-> w.got]
  BY DEF Work
<1>2. PICK u : u = [w EXCEPT !.item = i]
  OBVIOUS
<1>3. u = [op |-> w.op, at |-> w.at, todo |-> w.todo, item |-> i, got |-> w.got]
  BY <1>1, <1>2
<1>4. [u EXCEPT !.at = x, !.got = g] =
          [op |-> u.op, at |-> x, todo |-> u.todo, item |-> u.item, got |-> g]
  <2>1. PICK v : v = [u EXCEPT !.at = x]
    OBVIOUS
  <2>2. v = [op |-> w.op, at |-> x, todo |-> w.todo, item |-> i, got |-> w.got]
    BY <1>3, <2>1
  <2>3. [v EXCEPT !.got = g] =
            [op |-> u.op, at |-> x, todo |-> u.todo, item |-> u.item, got |-> g]
    BY <1>3, <2>2
  <2> QED
    BY <2>1, <2>3, Zenon
<1>5. u.op = w.op /\ u.todo = w.todo /\ u.item = i
  BY <1>3
<1> QED
  BY <1>2, <1>4, <1>5, Zenon

LEMMA WorkIs ==
    ASSUME IndexTypeOK, NEW a \in Actors
    PROVE  /\ work[a] \in Work
           /\ work[a] = [op |-> work[a].op, at |-> work[a].at, todo |-> work[a].todo,
                         item |-> work[a].item, got |-> work[a].got]
           /\ \A at : Goto(a, at) => work' = [work EXCEPT ![a] = Going(a, at)]
           /\ Finish(a) => work' = [work EXCEPT ![a] = Finished(a)]
<1>1. work[a] \in Work
  BY DEF IndexTypeOK
<1>2. work[a] = [op |-> work[a].op, at |-> work[a].at, todo |-> work[a].todo,
                 item |-> work[a].item, got |-> work[a].got]
  BY <1>1 DEF Work
<1>3. ASSUME NEW at, Goto(a, at) PROVE work' = [work EXCEPT ![a] = Going(a, at)]
  <2>1. [work[a] EXCEPT !.at = at] = Going(a, at)
    BY <1>2 DEF Going
  <2>2. work' = [work EXCEPT ![a] = [work[a] EXCEPT !.at = at]]
    BY <1>3 DEF Goto
  <2> QED
    BY <2>1, <2>2
<1>4. ASSUME Finish(a) PROVE work' = [work EXCEPT ![a] = Finished(a)]
  <2>1. [work[a] EXCEPT !.at = Rest(a), !.todo = {}] = Finished(a)
    BY <1>1, WorkChanges DEF Finished
  <2>2. work' = [work EXCEPT ![a] = [work[a] EXCEPT !.at = Rest(a), !.todo = {}]]
    BY <1>4 DEF Finish
  <2> QED
    BY <2>1, <2>2
<1> QED
  BY <1>1, <1>2, <1>3, <1>4

LEMMA WorkTypes ==
    ASSUME IndexTypeOK, NEW a \in Actors
    PROVE  /\ \A at \in Step : Goto(a, at) => work' \in [Actors -> Work]
           /\ Finish(a) => work' \in [Actors -> Work]
<1>1. \A at \in Step : Going(a, at) \in Work
  BY WorkIs DEF Going, Work
<1>2. Finished(a) \in Work
  BY WorkIs DEF Finished, Work, Rest, Step
<1>3. ASSUME NEW at \in Step, Goto(a, at) PROVE work' \in [Actors -> Work]
  BY <1>1, <1>3, WorkIs DEF IndexTypeOK
<1>4. ASSUME Finish(a) PROVE work' \in [Actors -> Work]
  BY <1>2, <1>4, WorkIs DEF IndexTypeOK
<1> QED
  BY <1>3, <1>4

\* What an actor at work has in hand.
LEMMA AtHand ==
    ASSUME IndexInv, NEW a \in Actors
    PROVE  /\ IndexTypeOK
           /\ WorkFits(work[a])
           /\ work[a].todo \subseteq Items
           /\ work[a].op \in Operation
           /\ work[a].got \in Texts \cup {NoText}
           /\ a \in Workers /\ work[a].todo # {} => work[a].op = "process"
           /\ work[a].at \notin {"idle", "done"} => StepFits(work[a])
           /\ work[a].at \notin {"idle", "done", "announce", "pick"} =>
                  work[a].item \in work[a].todo
           /\ \A i \in work[a].todo :
                  /\ StatusFits(i) /\ library[i] = Serves(work[a].op)
                  /\ StepFits(work[a])
                  /\ i \notin raced => ItemFits(work[a], i) /\ OnlyHere(a, i)
           /\ \A i \in work[a].todo :
                  work[a].op \notin {"train", "crawl"} => work[a].todo = {i} /\ work[a].item = i
<1>1. work[a] \in Work /\ IndexTypeOK
  BY WorkIs DEF IndexInv
<1>2. work[a].todo \subseteq Items /\ work[a].op \in Operation /\ work[a].got \in Texts \cup {NoText}
  BY <1>1 DEF Work
<1>3. WorkFits(work[a]) /\ (a \in Workers /\ work[a].todo # {} => work[a].op = "process")
  BY DEF IndexInv
<1> QED
  BY <1>1, <1>2, <1>3 DEF IndexInv, WorkFits, ItemHolds

LEMMA BeginTypes ==
    ASSUME IndexTypeOK, NEW a \in Actors, NEW o \in Operation, NEW at \in Step,
           NEW S \in SUBSET Items, NEW i \in Items \cup {NoItem},
           NEW t \in Texts \cup {NoText}, Begin(a, o, at, S, i, t)
    PROVE  work' \in [Actors -> Work] /\ raced' \subseteq Items
<1>1. [op |-> o, at |-> at, todo |-> S, item |-> i, got |-> t] \in Work
  BY DEF Work
<1> QED
  BY <1>1 DEF Begin, IndexTypeOK

\* The steps of what has begun.
LEMMA StepTypes ==
    ASSUME IndexInv, NEW a \in Actors,
           IndexStep(a) \/ Catch(a) \/ ClearFails(a) \/ Throw(a)
    PROVE  IndexTypeOK'
<1>t. /\ IndexTypeOK /\ library \in Libraries /\ status \in [Items -> Status]
      /\ text \in [Items -> Texts \cup {NoText}] /\ file \subseteq Items
      /\ point \in [Items -> Texts \cup {NoText}] /\ queued \subseteq Items
      /\ work \in [Actors -> Work] /\ raced \subseteq Items
      /\ apart \subseteq Operation \X Items /\ troubles \in 0..MaxMishaps
      /\ work[a].got \in Texts \cup {NoText} /\ work[a].todo \subseteq Items
      /\ work[a].op \in Operation
      /\ work[a].at \notin {"idle", "done", "announce", "pick"} => work[a].item \in Items
  BY AtHand DEF IndexTypeOK
<1>w. /\ \A at \in Step : Goto(a, at) => work' \in [Actors -> Work]
      /\ Finish(a) => work' \in [Actors -> Work]
  BY <1>t, WorkTypes
<1>s. \A i, s : s \in Status /\ SetStatus(i, s) => status' \in [Items -> Status]
  BY <1>t DEF SetStatus
<1>p. \A i, t : t \in Texts \cup {NoText} /\ point' = [point EXCEPT ![i] = t] =>
          point' \in [Items -> Texts \cup {NoText}]
  BY <1>t
<1>m. troubles < MaxMishaps /\ troubles' = troubles + 1 => troubles' \in 0..MaxMishaps
  BY <1>t, IndexBoundAssumption
<1>r. Rest(a) \in Step
  BY DEF Rest, Step
<1>1. CASE Announce(a)
  BY <1>1, <1>t, <1>w DEF Announce, storeVars, Step, IndexTypeOK
<1>2. CASE Pick(a)
  <2>1. PICK i \in work[a].todo :
          IF work[a].op = "train" /\ ~Exists(i)
          THEN LET rest == work[a].todo \ {i}
               IN  work' = [work EXCEPT ![a] =
                              [@ EXCEPT !.todo = rest,
                                        !.at = IF rest = {} THEN Rest(a) ELSE "pick"]]
          ELSE work' = [work EXCEPT ![a] =
                          [@ EXCEPT !.item = i, !.at = "upsert",
                                    !.got = IF work[a].op = "train" THEN text[i]
                                            ELSE work[a].got]]
    BY <1>2 DEF Pick
  <2>2. work[a] \in Work
    BY <1>t
  <2>3. CASE work[a].op = "train" /\ ~Exists(i)
    <3> DEFINE rest == work[a].todo \ {i}
               x == IF rest = {} THEN Rest(a) ELSE "pick"
    <3>1. [work[a] EXCEPT !.todo = rest, !.at = x] =
              [op |-> work[a].op, at |-> x, todo |-> rest, item |-> work[a].item,
               got |-> work[a].got]
      BY <2>2, WorkChanges
    <3>2. x \in Step /\ rest \subseteq Items
      BY <1>r, <1>t DEF Step
    <3>3. [op |-> work[a].op, at |-> x, todo |-> rest, item |-> work[a].item,
           got |-> work[a].got] \in Work
      BY <2>2, <3>2 DEF Work
    <3>4. work' = [work EXCEPT ![a] = [work[a] EXCEPT !.todo = rest, !.at = x]]
      BY <2>1, <2>3
    <3>5. work' \in [Actors -> Work]
      BY <1>t, <3>1, <3>3, <3>4
    <3> QED
      BY <1>2, <1>t, <3>5 DEF Pick, storeVars, IndexTypeOK
  <2>4. CASE ~(work[a].op = "train" /\ ~Exists(i))
    <3>0. PICK g : g = IF work[a].op = "train" THEN text[i] ELSE work[a].got
      OBVIOUS
    <3>1. [work[a] EXCEPT !.item = i, !.at = "upsert", !.got = g] =
              [op |-> work[a].op, at |-> "upsert", todo |-> work[a].todo, item |-> i,
               got |-> g]
      BY <2>2, WorkTurns, Zenon
    <3>2. g \in Texts \cup {NoText} /\ i \in Items
      BY <1>t, <3>0
    <3>3. [op |-> work[a].op, at |-> "upsert", todo |-> work[a].todo, item |-> i,
           got |-> g] \in Work
      BY <2>2, <3>2 DEF Work, Step
    <3>4. work' = [work EXCEPT ![a] = [work[a] EXCEPT !.item = i, !.at = "upsert", !.got = g]]
      BY <2>1, <2>4, <3>0, Zenon
    <3>5. work' \in [Actors -> Work]
      BY <1>t, <3>1, <3>3, <3>4
    <3> QED
      BY <1>2, <1>t, <3>5 DEF Pick, storeVars, IndexTypeOK
  <2> QED
    BY <2>3, <2>4
<1>3. CASE Upsert(a)
  <2>1. work' \in [Actors -> Work]
    BY <1>3, <1>w DEF Upsert, Step
  <2>2. apart' \subseteq Operation \X Items
    BY <1>3, <1>t DEF Upsert
  <2>3. point' \in [Items -> Texts \cup {NoText}]
    BY <1>3, <1>t, <1>p DEF Upsert
  <2> QED
    BY <1>3, <1>t, <2>1, <2>2, <2>3 DEF Upsert, storeVars, IndexTypeOK
<1>4. CASE MarkCompleted(a)
  <2>1. work' \in [Actors -> Work]
    BY <1>4, <1>w DEF MarkCompleted, Step
  <2>2. status' \in [Items -> Status]
    BY <1>4, <1>s DEF MarkCompleted, Status
  <2> QED
    BY <1>4, <1>t, <2>1, <2>2 DEF MarkCompleted, IndexTypeOK
<1>5. CASE Tell(a)
  <2> DEFINE rest == work[a].todo \ {work[a].item}
             x == IF rest = {} THEN Rest(a) ELSE "pick"
  <2>1. [work[a] EXCEPT !.at = x, !.todo = rest] =
            [op |-> work[a].op, at |-> x, todo |-> rest, item |-> work[a].item,
             got |-> work[a].got]
    BY <1>t, WorkChanges
  <2>2. x \in Step /\ rest \subseteq Items
    BY <1>r, <1>t DEF Step
  <2>3. [op |-> work[a].op, at |-> x, todo |-> rest, item |-> work[a].item,
         got |-> work[a].got] \in Work
    BY <1>t, <2>2 DEF Work
  <2>4. work' = [work EXCEPT ![a] = [work[a] EXCEPT !.at = x, !.todo = rest]]
    BY <1>5 DEF Tell, NextItem
  <2>5. work' \in [Actors -> Work]
    BY <1>t, <2>1, <2>3, <2>4
  <2> QED
    BY <1>5, <1>t, <2>5 DEF Tell, storeVars, IndexTypeOK
<1>6. CASE MarkFailed(a)
  <2>1. work' \in [Actors -> Work]
    BY <1>6, <1>w DEF MarkFailed, Step
  <2>2. status' \in [Items -> Status]
    BY <1>6, <1>s DEF MarkFailed, Status
  <2> QED
    BY <1>6, <1>t, <2>1, <2>2 DEF MarkFailed, IndexTypeOK
<1>7. CASE WriteFaq(a)
  <2>1. work' \in [Actors -> Work]
    BY <1>7, <1>w DEF WriteFaq, Step
  <2>2. status' \in [Items -> Status]
    BY <1>7, <1>s DEF WriteFaq, Status
  <2>3. text' \in [Items -> Texts \cup {NoText}]
    BY <1>7, <1>t DEF WriteFaq
  <2> QED
    BY <1>7, <1>t, <2>1, <2>2, <2>3 DEF WriteFaq, IndexTypeOK
<1>8. CASE ErasePoint(a)
  <2>1. work' \in [Actors -> Work]
    BY <1>8, <1>w DEF ErasePoint, Step
  <2>2. point' \in [Items -> Texts \cup {NoText}]
    BY <1>8, <1>p DEF ErasePoint
  <2> QED
    BY <1>8, <1>t, <2>1, <2>2 DEF ErasePoint, storeVars, IndexTypeOK
<1>9. CASE Remove(a)
  <2>1. work' \in [Actors -> Work]
    BY <1>9, <1>w DEF Remove
  <2>2. status' \in [Items -> Status]
    BY <1>9, <1>s DEF Remove, Status
  <2> QED
    BY <1>9, <1>t, <2>1, <2>2 DEF Remove, IndexTypeOK
<1>10. CASE Record(a)
  <2>1. work' \in [Actors -> Work]
    BY <1>10, <1>w DEF Record, Step
  <2>2. status' \in [Items -> Status] /\ text' \in [Items -> Texts \cup {NoText}]
    BY <1>10, <1>t DEF Record, Status
  <2> QED
    BY <1>10, <1>t, <2>1, <2>2 DEF Record, IndexTypeOK
<1>11. CASE EnqueueJob(a)
  <2>1. work' \in [Actors -> Work]
    BY <1>11, <1>w DEF EnqueueJob
  <2>2. queued' \subseteq Items
    BY <1>11, <1>t DEF EnqueueJob
  <2> QED
    BY <1>11, <1>t, <2>1, <2>2 DEF EnqueueJob, storeVars, IndexTypeOK
<1>12. CASE Fetch(a)
  <2>1. work' \in [Actors -> Work]
    BY <1>12, <1>w DEF Fetch, Step
  <2> QED
    BY <1>12, <1>t, <2>1 DEF Fetch, storeVars, IndexTypeOK
<1>13. CASE Download(a)
  <2>0. PICK x, g :
            /\ x = IF work[a].item \in file THEN "upsert" ELSE "fail"
            /\ g = IF work[a].item \in file THEN text[work[a].item] ELSE work[a].got
    OBVIOUS
  <2>1. [work[a] EXCEPT !.at = x, !.got = g] =
            [op |-> work[a].op, at |-> x, todo |-> work[a].todo, item |-> work[a].item,
             got |-> g]
    BY <1>t, WorkReads
  <2>2. x \in Step /\ g \in Texts \cup {NoText}
    BY <1>13, <1>t, <2>0 DEF Download, Step
  <2>3. [op |-> work[a].op, at |-> x, todo |-> work[a].todo, item |-> work[a].item,
         got |-> g] \in Work
    BY <1>t, <2>2 DEF Work
  <2>4. work' = [work EXCEPT ![a] = [work[a] EXCEPT !.at = x, !.got = g]]
    BY <1>13, <2>0, Zenon DEF Download
  <2>5. work' \in [Actors -> Work]
    BY <1>t, <2>1, <2>3, <2>4
  <2> QED
    BY <1>13, <1>t, <2>5 DEF Download, storeVars, IndexTypeOK
<1>14. CASE Unstore(a)
  <2>1. work' \in [Actors -> Work]
    BY <1>14, <1>w DEF Unstore, Step
  <2> QED
    BY <1>14, <1>t, <2>1 DEF Unstore, IndexTypeOK
<1>15. CASE StoreEvent(a) \/ ReadCategory(a)
  <2>1. work' \in [Actors -> Work]
    BY <1>15, <1>w DEF StoreEvent, ReadCategory, Step
  <2> QED
    BY <1>15, <1>t, <2>1 DEF StoreEvent, ReadCategory, storeVars, IndexTypeOK
<1>16. CASE ClearPoint(a)
  <2>1. work' \in [Actors -> Work]
    BY <1>16, <1>w DEF ClearPoint, Step
  <2>2. point' \in [Items -> Texts \cup {NoText}]
    BY <1>16, <1>p DEF ClearPoint
  <2> QED
    BY <1>16, <1>t, <2>1, <2>2 DEF ClearPoint, storeVars, IndexTypeOK
<1>17. CASE DeleteProduct(a)
  <2>1. work' \in [Actors -> Work]
    BY <1>17, <1>w DEF DeleteProduct, Step
  <2>2. status' \in [Items -> Status]
    BY <1>17, <1>s DEF DeleteProduct, Status
  <2> QED
    BY <1>17, <1>t, <2>1, <2>2 DEF DeleteProduct, IndexTypeOK
<1>18. CASE Unindex(a)
  <2>1. work' \in [Actors -> Work]
    BY <1>18, <1>w DEF Unindex
  <2>2. point' \in [Items -> Texts \cup {NoText}]
    BY <1>18, <1>p DEF Unindex
  <2> QED
    BY <1>18, <1>t, <2>1, <2>2 DEF Unindex, storeVars, IndexTypeOK
<1>19. CASE Catch(a) \/ ClearFails(a)
  <2>1. work' \in [Actors -> Work]
    BY <1>19, <1>w DEF Catch, ClearFails, Step
  <2>2. troubles' \in 0..MaxMishaps
    BY <1>19, <1>m DEF Catch, ClearFails
  <2> QED
    BY <1>19, <1>t, <2>1, <2>2 DEF Catch, ClearFails, storeVars, IndexTypeOK
<1>20. CASE Throw(a)
  <2>1. work' \in [Actors -> Work]
    BY <1>20, <1>w DEF Throw
  <2>2. troubles' \in 0..MaxMishaps
    BY <1>20, <1>m DEF Throw
  <2>3. Undone(a) \subseteq Items
    BY <1>t DEF Undone
  <2>4. apart' \subseteq Operation \X Items
    BY <1>20, <1>t, <2>3 DEF Throw
  <2> QED
    BY <1>20, <1>t, <2>1, <2>2, <2>4 DEF Throw, storeVars, IndexTypeOK
<1> QED
  BY <1>1, <1>2, <1>3, <1>4, <1>5, <1>6, <1>7, <1>8, <1>9, <1>10, <1>11, <1>12, <1>13, <1>14,
     <1>15, <1>16, <1>17, <1>18, <1>19, <1>20 DEF IndexStep

\* Requests, jobs, and what happens at a stroke.
LEMMA ArrivalTypes ==
    ASSUME IndexInv,
           \/ \E a \in Requests : IndexRequest(a)
           \/ \E a \in Workers, i \in Items : TakeJob(a, i)
           \/ \E S \in SUBSET Items : SoftDelete(S)
           \/ \E i \in Items, t \in Texts : SetAvailability(i, t)
           \/ Restart
    PROVE  IndexTypeOK'
<1>t. /\ IndexTypeOK /\ library \in Libraries /\ status \in [Items -> Status]
      /\ text \in [Items -> Texts \cup {NoText}] /\ file \subseteq Items
      /\ point \in [Items -> Texts \cup {NoText}] /\ queued \subseteq Items
      /\ work \in [Actors -> Work] /\ raced \subseteq Items
      /\ apart \subseteq Operation \X Items /\ troubles \in 0..MaxMishaps
      /\ Requests \subseteq Actors /\ Workers \subseteq Actors
  BY DEF IndexInv, IndexTypeOK, Actors
<1>1. ASSUME NEW a \in Requests, NEW k \in Kind, NEW t \in Texts, Insert(a, k, t)
      PROVE  IndexTypeOK'
  <2>1. PICK S \in SUBSET Items :
          /\ Begin(a, IF k = "faq" THEN "train" ELSE "crawl", "announce", S, NoItem, t)
          /\ status' = [i \in Items |-> IF i \in S THEN "pending" ELSE status[i]]
          /\ text' = [i \in Items |-> IF i \in S THEN t ELSE text[i]]
    BY <1>1 DEF Insert, OfKind
  <2>2. work' \in [Actors -> Work] /\ raced' \subseteq Items
    BY <1>t, <2>1, BeginTypes DEF Operation, Step
  <2>3. status' \in [Items -> Status] /\ text' \in [Items -> Texts \cup {NoText}]
    BY <1>t, <2>1 DEF Status
  <2> QED
    BY <1>1, <1>t, <2>2, <2>3 DEF Insert, IndexTypeOK
<1>2. ASSUME NEW a \in Requests, NEW i \in Items,
             EraseFaq(a, i) \/ DiscardDocument(a, i) \/ WithdrawProduct(a, i)
      PROVE  IndexTypeOK'
  <2>1. PICK o \in Operation, at \in Step : Begin(a, o, at, {i}, i, NoText)
    BY <1>2 DEF EraseFaq, DiscardDocument, WithdrawProduct, Operation, Step
  <2>2. work' \in [Actors -> Work] /\ raced' \subseteq Items
    BY <1>t, <2>1, BeginTypes
  <2> QED
    BY <1>2, <1>t, <2>2 DEF EraseFaq, DiscardDocument, WithdrawProduct, storeVars, IndexTypeOK
<1>3. ASSUME NEW a \in Requests, NEW i \in Items, NEW t \in Texts,
             \/ EditFaq(a, i, t) \/ Upload(a, i, t)
             \/ CreateProduct(a, i, t) \/ UpdateProduct(a, i, t)
      PROVE  IndexTypeOK'
  <2>0. PICK o \in Operation, at \in Step : Begin(a, o, at, {i}, i, t)
    BY <1>3 DEF EditFaq, Upload, CreateProduct, UpdateProduct, Operation, Step
  <2>1. work' \in [Actors -> Work] /\ raced' \subseteq Items
    BY <1>t, <2>0, BeginTypes
  <2>2. status' \in [Items -> Status]
    BY <1>3, <1>t DEF EditFaq, Upload, CreateProduct, UpdateProduct, storeVars, Status
  <2>3. text' \in [Items -> Texts \cup {NoText}]
    BY <1>3, <1>t DEF EditFaq, Upload, CreateProduct, UpdateProduct, storeVars
  <2>4. file' \subseteq Items
    BY <1>3, <1>t DEF EditFaq, Upload, CreateProduct, UpdateProduct, storeVars
  <2>5. UNCHANGED <<library, point, queued, apart, troubles>>
    BY <1>3 DEF EditFaq, Upload, CreateProduct, UpdateProduct
  <2> QED
    BY <1>t, <2>1, <2>2, <2>3, <2>4, <2>5 DEF IndexTypeOK
<1>4. ASSUME NEW a \in Workers, NEW i \in Items, TakeJob(a, i) PROVE IndexTypeOK'
  <2>0. PICK o \in Operation, at \in Step : Begin(a, o, at, {i}, i, NoText)
    BY <1>4 DEF TakeJob, Operation, Step
  <2>1. work' \in [Actors -> Work] /\ raced' \subseteq Items
    BY <1>t, <2>0, BeginTypes
  <2>2. status' \in [Items -> Status]
    BY <1>4, <1>t DEF TakeJob, SetStatus, Status
  <2> QED
    BY <1>4, <1>t, <2>1, <2>2 DEF TakeJob, IndexTypeOK
<1>5. ASSUME NEW S \in SUBSET Items, SoftDelete(S) PROVE IndexTypeOK'
  <2>1. status' \in [Items -> Status]
    BY <1>5, <1>t DEF SoftDelete, Status
  <2> QED
    BY <1>5, <1>t, <2>1 DEF SoftDelete, IndexTypeOK
<1>6. ASSUME NEW i \in Items, NEW t \in Texts, SetAvailability(i, t) PROVE IndexTypeOK'
  <2>1. apart' \subseteq Operation \X Items
    BY <1>6, <1>t DEF SetAvailability, Operation
  <2>2. text' \in [Items -> Texts \cup {NoText}]
    BY <1>6, <1>t DEF SetAvailability
  <2>3. raced' \subseteq Items
    BY <1>6, <1>t DEF SetAvailability
  <2> QED
    BY <1>6, <1>t, <2>1, <2>2, <2>3 DEF SetAvailability, IndexTypeOK
<1>7. CASE Restart
  <2>1. \A a \in Actors : /\ work[a].todo \subseteq Items /\ work[a].op \in Operation
                          /\ Undone(a) \subseteq Items
    BY AtHand DEF Undone
  <2>2. queued' \subseteq Items
    <3>1. ASSUME NEW i \in queued' PROVE i \in queued \/ \E a \in Workers : i \in work[a].todo
      BY ZenonT(60), <1>7, <3>1 DEF Restart
    <3> QED
      BY <1>t, <2>1, <3>1
  <2>3. apart' \subseteq Operation \X Items
    <3>1. ASSUME NEW x \in apart'
          PROVE  x \in apart \/ \E a \in Requests : x \in {work[a].op} \X Undone(a)
      BY <1>7, <3>1 DEF Restart
    <3> QED
      BY <1>t, <2>1, <3>1
  <2>4. work' \in [Actors -> Work]
    <3>1. ASSUME NEW a \in Actors
          PROVE  [work[a] EXCEPT !.at = Rest(a), !.todo = {}] \in Work
      <4>1. [work[a] EXCEPT !.at = Rest(a), !.todo = {}] = Finished(a)
        BY <1>t, WorkChanges DEF Finished
      <4> QED
        BY <1>t, <4>1, WorkIs DEF Finished, Work, Rest, Step
    <3> QED
      BY <1>7, <1>t, <3>1 DEF Restart
  <2>5. troubles' \in 0..MaxMishaps
    <3>1. troubles < MaxMishaps /\ troubles' = troubles + 1
      BY <1>7 DEF Restart
    <3> QED
      BY <1>t, <3>1, IndexBoundAssumption
  <2> QED
    BY <1>7, <1>t, <2>2, <2>3, <2>4, <2>5 DEF Restart, storeVars, IndexTypeOK
<1> QED
  BY <1>1, <1>2, <1>3, <1>4, <1>5, <1>6, <1>7 DEF IndexRequest

LEMMA IndexTypes == IndexInv /\ IndexNext => IndexTypeOK'
BY StepTypes, ArrivalTypes DEF IndexNext

-----------------------------------------------------------------------------
(* The search index: no step of an actor breaks the invariant *)

\* Item i is as it was, for whoever does not have it in hand.
Untouched(i) ==
    /\ status'[i] = status[i] /\ text'[i] = text[i] /\ point'[i] = point[i]
    /\ \A o \in Operation : <<o, i>> \in apart => <<o, i>> \in apart'

LEMMA UntouchedKeeps ==
    ASSUME NEW i \in Items, Untouched(i), library' = library
    PROVE  /\ Agrees(i) => Agrees(i)'
           /\ \A a : ItemFits(work[a], i) /\ work'[a] = work[a] => ItemFits(work[a], i)'
<1>1. "erase" \in Operation /\ "withdraw" \in Operation
  BY DEF Operation
<1>2. Agrees(i) => Agrees(i)'
  BY <1>1 DEF Untouched, Agrees
<1>3. Exists(i)' <=> Exists(i)
  BY DEF Untouched, Exists
<1>4. \A a : ItemFits(work[a], i) /\ work'[a] = work[a] => ItemFits(work[a], i)'
  BY <1>2, <1>3 DEF Untouched, ItemFits, Between
<1> QED
  BY <1>2, <1>4

\* One actor's step, after which its work is r: a general argument for all of them.
LEMMA ActorMoves ==
    ASSUME IndexInv, IndexTypeOK', NEW a \in Actors, NEW r,
           work' = [work EXCEPT ![a] = r],
           library' = library,
           WorkFits(r),
           a \in Workers /\ r.todo # {} => r.op = "process",
           \A i \in Items : StatusFits(i)',
           \A i \in queued' : library[i] = "document",
           \A i \in Items \ raced' : i \notin work[a].todo /\ i \notin r.todo =>
               Untouched(i) /\ i \notin raced,
           \A i \in Items \ raced' : i \in r.todo => ItemFits(r, i)' /\ OnlyHere(a, i),
           \A i \in Items \ raced' : i \in work[a].todo /\ i \notin r.todo =>
               Agrees(i)' /\ OnlyHere(a, i)
    PROVE  IndexInv'
<1>1. \A b \in Actors : work'[b] = IF b = a THEN r ELSE work[b]
  BY DEF IndexInv, IndexTypeOK
<1>2. \A b \in Actors : WorkFits(work[b])'
  BY <1>1 DEF IndexInv, WorkFits
<1>3. \A b \in Workers : work'[b].todo # {} => work'[b].op = "process"
  BY <1>1 DEF IndexInv, Actors
<1>4. ASSUME NEW i \in Items, i \notin raced' PROVE ItemHolds(i)'
  <2>1. CASE i \in r.todo
    <3>1. OnlyHere(a, i)'
      BY <1>1, <1>4, <2>1 DEF OnlyHere
    <3>2. ItemFits(r, i)'
      BY <1>4, <2>1
    <3>3. ItemFits(work[a], i)'
      BY <1>1, <3>2 DEF ItemFits, Between
    <3>4. Busy(i)'
      BY <1>1, <2>1 DEF Busy
    <3>5. \A b \in Actors : i \in work'[b].todo => b = a
      BY <3>1 DEF OnlyHere
    <3> QED
      BY <3>1, <3>3, <3>4, <3>5 DEF ItemHolds
  <2>2. CASE i \notin r.todo /\ i \in work[a].todo
    <3>1. \A b \in Actors : i \notin work'[b].todo
      BY <1>1, <1>4, <2>2 DEF OnlyHere
    <3>2. Agrees(i)'
      BY <1>4, <2>2
    <3> QED
      BY <3>1, <3>2 DEF ItemHolds
  <2>3. CASE i \notin r.todo /\ i \notin work[a].todo
    <3>1. Untouched(i) /\ ItemHolds(i)
      BY <1>4, <2>3 DEF IndexInv
    <3>2. \A b \in Actors : i \in work'[b].todo => b # a /\ work'[b] = work[b]
      BY <1>1, <2>3
    <3>3. \A b \in Actors : i \in work'[b].todo => ItemFits(work[b], i)'
      BY <3>1, <3>2, UntouchedKeeps DEF ItemHolds
    <3>4. \A b \in Actors : i \in work'[b].todo => OnlyHere(b, i)'
      BY <3>1, <3>2 DEF ItemHolds, OnlyHere
    <3>5. Busy(i) => Busy(i)'
      BY <1>1, <2>3 DEF Busy
    <3>6. ~Busy(i)' => Agrees(i)'
      BY <3>1, <3>5, UntouchedKeeps DEF ItemHolds
    <3> QED
      BY <3>3, <3>4, <3>6 DEF ItemHolds
  <2> QED
    BY <2>1, <2>2, <2>3
<1> QED
  BY <1>2, <1>3, <1>4 DEF IndexInv

\* An actor goes on to the next call with what it has in hand ...
LEMMA GoingMoves ==
    ASSUME IndexInv, IndexTypeOK', NEW a \in Actors, NEW at, Goto(a, at),
           UNCHANGED <<library, raced>>,
           NEW r, r = Going(a, at), StepFits(r), at # "announce",
           work[a].at \notin {"idle", "done"},
           work[a].at \notin {"announce", "pick"} \/ at = "pick",
           \A i \in Items : StatusFits(i)',
           \A i \in queued' : library[i] = "document",
           \A i \in Items \ work[a].todo : Untouched(i),
           \A i \in work[a].todo \ raced : ItemFits(r, i)'
    PROVE  IndexInv'
<1>1. work' = [work EXCEPT ![a] = r]
  BY ZenonT(60), AtHand, WorkIs
<1>2. r.op = work[a].op /\ r.at = at /\ r.todo = work[a].todo /\ r.item = work[a].item
  BY DEF Going
<1>3. WorkFits(r)
  <2>1. r.at \notin {"announce", "pick"} => r.item \in r.todo
    BY <1>2, AtHand
  <2>2. r.op \notin {"train", "crawl"} => r.todo = {r.item}
    <3>1. r.at = "pick" => r.op \in {"train", "crawl"}
      BY DEF StepFits
    <3> QED
      BY <1>2, <2>1, <3>1, AtHand
  <2>3. \A i \in r.todo : library[i] = Serves(r.op)
    BY <1>2, AtHand
  <2> QED
    BY <2>1, <2>2, <2>3 DEF WorkFits
<1>4. a \in Workers /\ r.todo # {} => r.op = "process"
  BY <1>2, AtHand
<1>5. \A i \in work[a].todo \ raced : OnlyHere(a, i)
  BY AtHand
<1> QED
  BY <1>1, <1>2, <1>3, <1>4, <1>5, ActorMoves

\* ... or is through with it.
LEMMA FinishMoves ==
    ASSUME IndexInv, IndexTypeOK', NEW a \in Actors, Finish(a),
           UNCHANGED <<library, raced>>,
           \A i \in Items : StatusFits(i)',
           \A i \in queued' : library[i] = "document",
           \A i \in Items \ work[a].todo : Untouched(i),
           \A i \in work[a].todo \ raced : Agrees(i)'
    PROVE  IndexInv'
<1>0. PICK r : r = Finished(a)
  OBVIOUS
<1>1. work' = [work EXCEPT ![a] = r]
  BY <1>0, AtHand, WorkIs
<1>2. r.at \in {"idle", "done"} /\ r.todo = {}
  BY <1>0 DEF Finished, Rest
<1>3. WorkFits(r)
  BY <1>2 DEF WorkFits
<1>4. \A i \in work[a].todo \ raced : OnlyHere(a, i)
  BY AtHand
<1> QED
  BY <1>1, <1>2, <1>3, <1>4, ActorMoves

\* An actor begins an operation.
LEMMA BeginMoves ==
    ASSUME IndexInv, IndexTypeOK', NEW a \in Actors, NEW o, NEW at, NEW S \in SUBSET Items,
           NEW i, NEW t, Begin(a, o, at, S, i, t), library' = library,
           NEW r, r = [op |-> o, at |-> at, todo |-> S, item |-> i, got |-> t],
           WorkFits(r),
           a \in Workers => o = "process",
           \A j \in Items : StatusFits(j)',
           \A j \in queued' : library[j] = "document",
           \A j \in Items \ S : Untouched(j),
           \A j \in S : Agrees(j) => ItemFits(r, j)'
    PROVE  IndexInv'
<1>1. work[a].at = "idle" /\ work' = [work EXCEPT ![a] = r] /\ raced' = raced \cup {j \in S : Busy(j)}
  BY DEF Begin
<1>2. r.todo = S /\ r.op = o
  OBVIOUS
<1>3. work[a].todo = {}
  BY <1>1, AtHand DEF WorkFits, StepFits
<1>4. ASSUME NEW j \in Items \ raced', j \in S PROVE ItemFits(r, j)' /\ OnlyHere(a, j)
  <2>1. j \notin raced /\ ~Busy(j)
    BY <1>1, <1>4
  <2>2. Agrees(j)
    BY <2>1 DEF IndexInv, ItemHolds
  <2> QED
    BY <1>4, <2>1, <2>2 DEF Busy, OnlyHere
<1>5. \A j \in Items \ raced' : j \notin S => Untouched(j) /\ j \notin raced
  BY <1>1
<1>6. a \in Workers /\ r.todo # {} => r.op = "process"
  BY <1>2
<1> QED
  BY <1>1, <1>2, <1>3, <1>4, <1>5, <1>6, ActorMoves

\* Nothing an item says or is changes: StatusFits(i) and Untouched(i) are free.
LEMMA StandsStill ==
    ASSUME IndexInv, UNCHANGED <<library, status, text, point>>,
           \A o \in Operation, i \in Items : <<o, i>> \in apart => <<o, i>> \in apart'
    PROVE  /\ \A i \in Items : StatusFits(i)' /\ Untouched(i)
           /\ \A i \in Items : Agrees(i) => Agrees(i)'
<1>1. \A i \in Items : StatusFits(i) /\ Untouched(i)
  BY DEF IndexInv, Untouched
<1>2. \A i \in Items : StatusFits(i)'
  BY <1>1 DEF StatusFits
<1> QED
  BY <1>1, <1>2, UntouchedKeeps

\* An item's status may become s, where its kind knows s.
LEMMA StatusSet ==
    ASSUME IndexInv, NEW i \in Items, NEW s, SetStatus(i, s), library' = library,
           \/ s \in {"completed", "failed"} /\ library[i] \in {"faq", "url", "document"}
           \/ s = "gone" /\ library[i] \in {"faq", "document", "product"}
           \/ s = "pending" /\ library[i] \in {"faq", "url", "document"}
           \/ s = "processing" /\ library[i] = "document"
    PROVE  /\ \A j \in Items : StatusFits(j)'
           /\ status'[i] = IF Exists(i) THEN s ELSE status[i]
           /\ \A j \in Items \ {i} : status'[j] = status[j]
<1>1. status \in [Items -> Status]
  BY DEF IndexInv, IndexTypeOK
<1>2. /\ status'[i] = IF Exists(i) THEN s ELSE status[i]
      /\ \A j \in Items \ {i} : status'[j] = status[j]
  BY <1>1 DEF SetStatus
<1>3. ASSUME NEW j \in Items PROVE StatusFits(j)'
  <2>1. StatusFits(j)
    BY DEF IndexInv
  <2>2. CASE j # i \/ ~Exists(i)
    BY <1>2, <2>1, <2>2 DEF StatusFits
  <2>3. CASE j = i /\ Exists(i)
    BY <1>2, <2>3 DEF StatusFits
  <2> QED
    BY <2>2, <2>3
<1> QED
  BY <1>2, <1>3

\* The steps that only lead to the next call.
LEMMA StageMoves ==
    ASSUME IndexInv, IndexTypeOK', NEW a \in Actors, NEW at, Goto(a, at),
           UNCHANGED <<library, status, text, point, apart, raced>>,
           NEW r, r = Going(a, at), StepFits(r), at # "announce",
           work[a].at \notin {"idle", "done"},
           work[a].at \notin {"announce", "pick"} \/ at = "pick",
           \A i \in queued' : library[i] = "document",
           \A i \in work[a].todo : ItemFits(work[a], i) => ItemFits(r, i)
    PROVE  IndexInv'
<1>1. \A i \in Items : StatusFits(i)' /\ Untouched(i)
  BY StandsStill
<1>2. ASSUME NEW i \in work[a].todo \ raced PROVE ItemFits(r, i)'
  <2>1. ItemFits(r, i)
    BY AtHand
  <2> QED
    BY <2>1 DEF ItemFits, Exists, Agrees, Between
<1> QED
  BY <1>1, <1>2, GoingMoves

LEMMA StagesHold ==
    ASSUME IndexInv, IndexTypeOK', NEW a \in Actors,
           \/ Announce(a) \/ Fetch(a) \/ Unstore(a) \/ StoreEvent(a) \/ ReadCategory(a)
           \/ Catch(a) \/ ClearFails(a)
    PROVE  IndexInv'
<1>u. /\ UNCHANGED <<library, status, text, point, apart, raced>>
      /\ \A i \in queued' : library[i] = "document"
  BY DEF Announce, Fetch, Unstore, StoreEvent, ReadCategory, Catch, ClearFails, storeVars,
         IndexInv
<1>1. PICK at :
        /\ Goto(a, at)
        /\ \/ work[a].at = "announce" /\ at = "pick"
           \/ work[a].at = "fetch" /\ at \in {"download", "fail"}
           \/ work[a].at = "unstore" /\ at = "remove"
           \/ work[a].at = "event" /\ at = "category"
           \/ work[a].at = "category" /\ at = "clear"
           \/ work[a].at \in {"mark", "tell", "fetch", "download"} /\ at = "fail"
           \/ /\ work[a].at = "upsert" /\ at = "fail"
              /\ work[a].op \notin {"index", "reindex"}
           \/ work[a].at = "clear" /\ at = "upsert"
  <2>1. CASE Announce(a)
    BY <2>1 DEF Announce
  <2>2. CASE Fetch(a)
    BY <2>2 DEF Fetch
  <2>3. CASE Unstore(a) \/ StoreEvent(a) \/ ReadCategory(a)
    BY <2>3 DEF Unstore, StoreEvent, ReadCategory
  <2>4. CASE Catch(a)
    BY <2>4 DEF Catch
  <2>5. CASE ClearFails(a)
    BY <2>5 DEF ClearFails
  <2> QED
    BY <2>1, <2>2, <2>3, <2>4, <2>5
<1>2. StepFits(work[a])
  BY <1>1, AtHand
<1>3. PICK r : r = Going(a, at)
  OBVIOUS
<1>4. /\ r.op = work[a].op /\ r.at = at /\ r.todo = work[a].todo
      /\ r.item = work[a].item /\ r.got = work[a].got
  BY <1>3 DEF Going
<1>5. StepFits(r)
  BY <1>1, <1>2, <1>4 DEF StepFits
<1>6. ASSUME NEW i \in work[a].todo, ItemFits(work[a], i) PROVE ItemFits(r, i)
  <2>1. Between(work[a]) => Between(r)
    BY <1>1, <1>2, <1>4 DEF Between, StepFits
  <2> QED
    BY <1>1, <1>2, <1>4, <1>6, <2>1 DEF ItemFits, StepFits
<1> QED
  BY <1>u, <1>1, <1>3, <1>5, <1>6, StageMoves

\* An actor sets the item at hand, and turns to the next one or to none.
LEMMA TurnsHold ==
    ASSUME IndexInv, IndexTypeOK', NEW a \in Actors, Pick(a) \/ Tell(a) PROVE IndexInv'
<1>u. /\ UNCHANGED <<library, status, text, point, queued, apart, raced>>
      /\ \A i \in Items : StatusFits(i)' /\ Untouched(i)
      /\ \A i \in Items : Agrees(i) => Agrees(i)'
      /\ \A i \in queued' : library[i] = "document"
  <2>1. UNCHANGED <<library, status, text, point, queued, apart, raced>>
    BY DEF Pick, Tell, storeVars
  <2> QED
    BY <2>1, StandsStill DEF IndexInv
<1>w. /\ work[a] \in Work /\ StepFits(work[a]) /\ work[a].todo \subseteq Items
      /\ work[a].op \in {"train", "crawl", "edit"}
      /\ \A i \in work[a].todo \ raced : ItemFits(work[a], i) /\ OnlyHere(a, i)
      /\ \A i \in work[a].todo : library[i] = Serves(work[a].op)
      /\ a \notin Workers \/ work[a].todo = {}
  <2>1. work[a].at \in {"pick", "tell", "apologise"}
    BY DEF Pick, Tell
  <2>2. StepFits(work[a])
    BY <2>1, AtHand
  <2>3. work[a].op \in {"train", "crawl", "edit"}
    BY <2>1, <2>2 DEF StepFits
  <2> QED
    BY <2>2, <2>3, AtHand, WorkIs
<1>1. ASSUME NEW i \in work[a].todo, NEW r, work' = [work EXCEPT ![a] = r],
             r.op = work[a].op, r.got = work[a].got, r.todo = work[a].todo \ {i},
             r.at = IF r.todo = {} THEN Rest(a) ELSE "pick",
             work[a].todo = {i} \/ work[a].op \in {"train", "crawl"},
             i \notin raced => Agrees(i)
      PROVE  IndexInv'
  <2>1. WorkFits(r)
    <3>1. CASE r.todo = {}
      BY <1>1, <3>1 DEF WorkFits, Rest
    <3>2. CASE r.todo # {}
      BY <1>1, <1>w, <3>2 DEF WorkFits, StepFits
    <3> QED
      BY <3>1, <3>2
  <2>2. ASSUME NEW j \in r.todo, j \notin raced PROVE ItemFits(r, j)' /\ OnlyHere(a, j)
    <3>1. ItemFits(work[a], j) /\ OnlyHere(a, j) /\ r.at = "pick" /\ j \in Items
      BY <1>1, <1>w, <2>2
    <3>2. ~Between(work[a]) /\ ~Between(r)
      BY <1>1, <1>w, <3>1 DEF Between, StepFits
    <3>3. Agrees(j)'
      BY <1>u, <3>1, <3>2 DEF ItemFits
    <3> QED
      BY <1>1, <1>u, <1>w, <3>1, <3>3 DEF ItemFits, Exists
  <2>3. \A j \in Items \ raced' : j \in work[a].todo /\ j \notin r.todo =>
            Agrees(j)' /\ OnlyHere(a, j)
    BY <1>1, <1>u, <1>w
  <2>4. a \in Workers /\ r.todo # {} => r.op = "process"
    BY <1>1, <1>w
  <2> QED
    BY <1>1, <1>u, <2>1, <2>2, <2>3, <2>4, ActorMoves
<1>2. CASE Pick(a)
  <2>0. work[a].at = "pick" /\ work[a].op \in {"train", "crawl"}
    BY <1>2, <1>w DEF Pick, StepFits
  <2>1. PICK i \in work[a].todo :
          IF work[a].op = "train" /\ ~Exists(i)
          THEN LET rest == work[a].todo \ {i}
               IN  work' = [work EXCEPT ![a] =
                              [@ EXCEPT !.todo = rest,
                                        !.at = IF rest = {} THEN Rest(a) ELSE "pick"]]
          ELSE work' = [work EXCEPT ![a] =
                          [@ EXCEPT !.item = i, !.at = "upsert",
                                    !.got = IF work[a].op = "train" THEN text[i]
                                            ELSE work[a].got]]
    BY <1>2 DEF Pick
  <2>2. CASE work[a].op = "train" /\ ~Exists(i)
    <3> DEFINE rest == work[a].todo \ {i}
               x == IF rest = {} THEN Rest(a) ELSE "pick"
    <3>1. [work[a] EXCEPT !.todo = rest, !.at = x] =
              [op |-> work[a].op, at |-> x, todo |-> rest, item |-> work[a].item,
               got |-> work[a].got]
      BY <1>w, WorkChanges
    <3>2. PICK r : r = [op |-> work[a].op, at |-> x, todo |-> rest, item |-> work[a].item,
                        got |-> work[a].got]
      OBVIOUS
    <3>3. work' = [work EXCEPT ![a] = [work[a] EXCEPT !.todo = rest, !.at = x]]
      BY <2>1, <2>2
    <3>4. work' = [work EXCEPT ![a] = r]
      BY <3>1, <3>2, <3>3
    <3>5. i \in raced
      BY <1>w, <2>2 DEF ItemFits, Exists
    <3>6. /\ r.op = work[a].op /\ r.got = work[a].got /\ r.todo = work[a].todo \ {i}
          /\ r.at = IF r.todo = {} THEN Rest(a) ELSE "pick"
      BY <3>2
    <3> QED
      BY <1>1, <2>0, <3>4, <3>5, <3>6
  <2>3. CASE ~(work[a].op = "train" /\ ~Exists(i))
    <3>0. PICK g : g = IF work[a].op = "train" THEN text[i] ELSE work[a].got
      OBVIOUS
    <3>1. [work[a] EXCEPT !.item = i, !.at = "upsert", !.got = g] =
              [op |-> work[a].op, at |-> "upsert", todo |-> work[a].todo, item |-> i,
               got |-> g]
      <4>1. work[a] \in Work
        BY <1>w
      <4> QED
        BY <4>1, WorkTurns, Zenon
    <3>2. PICK r : r = [op |-> work[a].op, at |-> "upsert", todo |-> work[a].todo, item |-> i,
                        got |-> g]
      OBVIOUS
    <3>3. work' = [work EXCEPT ![a] = [work[a] EXCEPT !.item = i, !.at = "upsert", !.got = g]]
      BY <2>1, <2>3, <3>0, Zenon
    <3>4. work' = [work EXCEPT ![a] = r]
      BY <3>1, <3>2, <3>3
    <3>5. r.op = work[a].op /\ r.at = "upsert" /\ r.todo = work[a].todo /\ r.item = i /\ r.got = g
      BY <3>2
    <3>6. WorkFits(r)
      BY <1>w, <2>0, <3>5 DEF WorkFits, StepFits
    <3>7. ASSUME NEW j \in r.todo, j \notin raced PROVE ItemFits(r, j)' /\ OnlyHere(a, j)
      <4>1. ItemFits(work[a], j) /\ OnlyHere(a, j) /\ j \in Items
        BY <1>w, <3>5, <3>7
      <4>2. ~Between(work[a]) /\ ~Between(r)
        BY <2>0, <3>5 DEF Between
      <4>3. Agrees(j)'
        BY <1>u, <4>1, <4>2 DEF ItemFits
      <4>4. text'[i] = text[i] /\ (work[a].op = "crawl" => g = work[a].got)
        BY <1>u, <3>0
      <4>5. r.item = j => text'[j] = g
        BY <2>0, <3>0, <3>5, <4>1, <4>4 DEF ItemFits
      <4> QED
        BY <1>u, <2>0, <3>5, <4>1, <4>3, <4>4, <4>5 DEF ItemFits, Exists
    <3>8. a \in Workers /\ r.todo # {} => r.op = "process"
      BY <1>w, <3>5
    <3> QED
      BY <1>u, <3>4, <3>5, <3>6, <3>7, <3>8, ActorMoves
  <2> QED
    BY <2>2, <2>3
<1>3. CASE Tell(a)
  <2> DEFINE i == work[a].item
             rest == work[a].todo \ {i}
             x == IF rest = {} THEN Rest(a) ELSE "pick"
  <2>0. work[a].at \in {"tell", "apologise"} /\ i \in work[a].todo
    BY <1>3, AtHand DEF Tell
  <2>1. [work[a] EXCEPT !.at = x, !.todo = rest] =
            [op |-> work[a].op, at |-> x, todo |-> rest, item |-> i, got |-> work[a].got]
    BY <1>w, WorkChanges
  <2>2. PICK r : r = [op |-> work[a].op, at |-> x, todo |-> rest, item |-> i,
                      got |-> work[a].got]
    OBVIOUS
  <2>3. work' = [work EXCEPT ![a] = [work[a] EXCEPT !.at = x, !.todo = rest]]
    BY <1>3 DEF Tell, NextItem
  <2>4. work' = [work EXCEPT ![a] = r]
    BY <2>1, <2>2, <2>3
  <2>5. /\ r.op = work[a].op /\ r.got = work[a].got /\ r.todo = work[a].todo \ {i}
        /\ r.at = IF r.todo = {} THEN Rest(a) ELSE "pick"
    BY <2>2
  <2>6. i \notin raced => Agrees(i)
    BY <1>w, <2>0 DEF ItemFits, Between
  <2>7. work[a].todo = {i} \/ work[a].op \in {"train", "crawl"}
    BY <2>0, AtHand
  <2> QED
    BY <1>1, <2>0, <2>4, <2>5, <2>6, <2>7
<1> QED
  BY <1>2, <1>3

\* The vector of the item at hand is written.
LEMMA UpsertHolds ==
    ASSUME IndexInv, IndexTypeOK', NEW a \in Actors, Upsert(a) PROVE IndexInv'
<1>w. /\ StepFits(work[a]) /\ work[a].item \in work[a].todo /\ work[a].todo \subseteq Items
      /\ work[a].at = "upsert"
      /\ \A i \in work[a].todo \ raced : ItemFits(work[a], i)
      /\ \A i \in work[a].todo : library[i] = Serves(work[a].op) /\ StatusFits(i)
      /\ work[a].op \notin {"train", "crawl"} => work[a].todo = {work[a].item}
  BY AtHand DEF Upsert
<1>i. PICK i : i = work[a].item
  OBVIOUS
<1>u. /\ UNCHANGED <<library, status, text, queued, raced>>
      /\ point' = [point EXCEPT ![i] = work[a].got]
      /\ point \in [Items -> Texts \cup {NoText}]
      /\ \A j \in queued' : library[j] = "document"
  BY <1>i DEF Upsert, storeVars, IndexInv, IndexTypeOK
<1>f. \A j \in Items : StatusFits(j)'
  BY <1>u DEF StatusFits, IndexInv
<1>p. point'[i] = work[a].got /\ \A j \in Items \ {i} : point'[j] = point[j]
  BY <1>u, <1>i, <1>w
<1>k. \A j \in Items \ {i}, o \in Operation : <<o, j>> \in apart => <<o, j>> \in apart'
  BY <1>i DEF Upsert
<1>n. \A j \in Items \ {i} : Untouched(j)
  BY <1>u, <1>p, <1>k DEF Untouched
<1>1. CASE work[a].op \in {"index", "reindex"}
  <2>1. Finish(a)
    BY <1>1 DEF Upsert
  <2>2. i \notin raced => Agrees(i)'
    <3>1. i \notin raced => status[i] = "active" /\ text[i] = work[a].got
      BY <1>1, <1>i, <1>w DEF ItemFits
    <3> QED
      BY <1>u, <1>p, <3>1 DEF Agrees
  <2>3. work[a].todo = {i}
    BY <1>1, <1>i, <1>w
  <2> QED
    BY <1>u, <1>f, <1>n, <2>1, <2>2, <2>3, FinishMoves
<1>2. CASE work[a].op \notin {"index", "reindex"}
  <2>1. Goto(a, "mark") /\ apart' = apart
    BY <1>2 DEF Upsert
  <2>2. PICK r : r = Going(a, "mark")
    OBVIOUS
  <2>3. /\ r.op = work[a].op /\ r.at = "mark" /\ r.todo = work[a].todo
        /\ r.item = i /\ r.got = work[a].got
    BY <1>i, <2>2 DEF Going
  <2>4. StepFits(r)
    BY <1>2, <1>i, <1>w, <2>3 DEF StepFits
  <2>5. r.op \in {"train", "crawl", "edit", "process"} /\ ~Between(r) /\ ~Between(work[a])
    BY <1>2, <1>i, <1>w, <2>3, <2>4 DEF StepFits, Between
  <2>6. ASSUME NEW j \in work[a].todo, j \notin raced PROVE ItemFits(r, j)'
    <3>1. ItemFits(work[a], j) /\ j \in Items /\ library[j] = Serves(r.op)
      BY <1>i, <1>w, <2>3, <2>6
    <3>2. CASE j = i
      <4>1. point'[i] = text'[i] /\ text'[i] = text[i] /\ status'[i] = status[i]
        BY <1>u, <1>p, <1>i, <1>w, <3>1, <3>2 DEF ItemFits
      <4>2. Agrees(i)'
        <5>1. r.op = "process" => library[i] = "document"
          BY <3>1, <3>2 DEF Serves
        <5>2. r.op # "process" => status[i] # "gone"
          BY <2>3, <2>5, <3>1, <3>2 DEF ItemFits, Exists
        <5> QED
          BY <1>u, <4>1, <5>1, <5>2 DEF Agrees
      <4> QED
        BY <1>u, <2>3, <2>5, <3>1, <3>2, <4>1, <4>2 DEF ItemFits, Exists
    <3>3. CASE j # i
      <4>1. Untouched(j) /\ Agrees(j)'
        BY <1>n, <1>u, <2>5, <3>1, <3>3, UntouchedKeeps DEF ItemFits
      <4> QED
        BY <1>u, <2>3, <2>5, <3>1, <3>3, <4>1 DEF ItemFits, Exists, Untouched
    <3> QED
      BY <3>2, <3>3
  <2>7. work[a].at \notin {"idle", "done", "announce", "pick"}
    BY <1>i, <1>w
  <2>8. \A j \in Items \ work[a].todo : Untouched(j)
    BY <1>n, <1>i, <1>w
  <2> QED
    BY <1>u, <1>f, <2>1, <2>2, <2>4, <2>6, <2>7, <2>8, GoingMoves
<1> QED
  BY <1>1, <1>2

\* The status of the item at hand is set.
LEMMA MarksHold ==
    ASSUME IndexInv, IndexTypeOK', NEW a \in Actors, MarkCompleted(a) \/ MarkFailed(a)
    PROVE  IndexInv'
<1>w. /\ StepFits(work[a]) /\ work[a].item \in work[a].todo /\ work[a].todo \subseteq Items
      /\ work[a].at \in {"mark", "fail"}
      /\ \A i \in work[a].todo \ raced : ItemFits(work[a], i)
      /\ \A i \in work[a].todo : library[i] = Serves(work[a].op) /\ StatusFits(i)
      /\ work[a].op \notin {"train", "crawl"} => work[a].todo = {work[a].item}
  BY AtHand DEF MarkCompleted, MarkFailed
<1>i. PICK i : i = work[a].item
  OBVIOUS
<1>o. work[a].op \in {"train", "crawl", "edit", "process"}
  BY <1>i, <1>w DEF StepFits
<1>u. /\ UNCHANGED <<library, text, point, queued, apart, raced>>
      /\ \A j \in queued' : library[j] = "document"
  BY DEF MarkCompleted, MarkFailed, IndexInv
<1>s. PICK s : /\ SetStatus(i, s)
               /\ \/ s = "completed" /\ work[a].at = "mark"
                  \/ s = "failed" /\ work[a].at = "fail"
  BY <1>i DEF MarkCompleted, MarkFailed
<1>f. /\ \A j \in Items : StatusFits(j)'
      /\ status'[i] = IF Exists(i) THEN s ELSE status[i]
      /\ \A j \in Items \ {i} : status'[j] = status[j]
  <2>1. i \in Items /\ library[i] \in {"faq", "url", "document"}
    BY <1>o, <1>i, <1>w DEF Serves
  <2>2. s \in {"completed", "failed"}
    BY <1>s
  <2> QED
    BY <1>s, <1>u, <2>1, <2>2, StatusSet
<1>n. \A j \in Items \ {i} : Untouched(j)
  BY <1>u, <1>f DEF Untouched
<1>h. i \notin raced => Agrees(i)'
  <2>1. i \notin raced => Agrees(i) /\ (s = "completed" => point[i] = text[i])
    <3>1. ~Between(work[a])
      BY <1>o, <1>i, <1>w DEF Between
    <3> QED
      BY <1>s, <1>i, <1>w, <3>1 DEF ItemFits
  <2>2. CASE Exists(i)
    <3>1. i \notin raced => status'[i] = s /\ (s = "completed" => point'[i] = text'[i])
      BY <1>u, <1>f, <2>1, <2>2
    <3>2. s \notin {"active", "gone"}
      BY <1>s
    <3> QED
      BY <3>1, <3>2 DEF Agrees
  <2>3. CASE ~Exists(i)
    BY <1>u, <1>f, <2>1, <2>3 DEF Agrees
  <2> QED
    BY <2>2, <2>3
<1>1. CASE work[a].op = "process"
  <2>1. Finish(a)
    BY <1>1 DEF MarkCompleted, MarkFailed
  <2>2. work[a].todo = {i}
    BY <1>1, <1>i, <1>w
  <2> QED
    BY <1>u, <1>f, <1>n, <1>h, <2>1, <2>2, FinishMoves
<1>2. CASE work[a].op # "process"
  <2>1. PICK at \in {"tell", "apologise"} : Goto(a, at)
    BY <1>2 DEF MarkCompleted, MarkFailed
  <2>2. PICK r : r = Going(a, at)
    OBVIOUS
  <2>3. /\ r.op = work[a].op /\ r.at = at /\ r.todo = work[a].todo
        /\ r.item = i /\ r.got = work[a].got
    BY <1>i, <2>2 DEF Going
  <2>4. StepFits(r)
    BY <1>2, <1>o, <2>1, <2>3 DEF StepFits
  <2>5. r.op \in {"train", "crawl", "edit"} /\ ~Between(r) /\ ~Between(work[a])
    BY <1>2, <1>o, <1>i, <1>w, <2>1, <2>3 DEF Between
  <2>6. ASSUME NEW j \in work[a].todo, j \notin raced PROVE ItemFits(r, j)'
    <3>1. ItemFits(work[a], j) /\ j \in Items
      BY <1>i, <1>w, <2>6
    <3>2. Agrees(j)'
      <4>1. CASE j = i
        BY <1>h, <2>6, <4>1
      <4>2. CASE j # i
        BY <1>n, <1>u, <2>5, <3>1, <4>2, UntouchedKeeps DEF ItemFits
      <4> QED
        BY <4>1, <4>2
    <3>3. status[j] \in {"pending", "completed", "failed"} =>
              status'[j] \in {"pending", "completed", "failed"}
      BY <1>f, <1>s, <3>1
    <3>4. Exists(j) => Exists(j)'
      BY <1>f, <1>s, <3>1 DEF Exists
    <3> QED
      BY <1>u, <2>1, <2>3, <2>5, <3>1, <3>2, <3>3, <3>4 DEF ItemFits
  <2>7. work[a].at \notin {"idle", "done", "announce", "pick"} /\ at # "announce"
    BY <1>i, <1>w, <2>1
  <2>8. \A j \in Items \ work[a].todo : Untouched(j)
    BY <1>n, <1>i, <1>w
  <2> QED
    BY <1>u, <1>f, <2>1, <2>2, <2>4, <2>6, <2>7, <2>8, GoingMoves
<1> QED
  BY <1>1, <1>2

\* An actor that has one item in hand changes its document or its vector.
LEMMA SingleMoves ==
    ASSUME IndexInv, IndexTypeOK', NEW a \in Actors, NEW i, work[a].todo = {i},
           work[a].at \notin {"idle", "done", "announce", "pick"}, work[a].item = i,
           UNCHANGED <<library, raced>>,
           \A j \in Items : StatusFits(j)',
           \A j \in queued' : library[j] = "document",
           \A j \in Items \ {i} : Untouched(j),
           \/ Finish(a) /\ (i \notin raced => Agrees(i)')
           \/ \E at, r : /\ at \notin {"announce", "pick"} /\ Goto(a, at)
                         /\ r = [op |-> work[a].op, at |-> at, todo |-> {i}, item |-> i,
                                 got |-> work[a].got]
                         /\ StepFits(r)
                         /\ i \notin raced => ItemFits(r, i)'
    PROVE  IndexInv'
<1>1. CASE Finish(a) /\ (i \notin raced => Agrees(i)')
  BY <1>1, FinishMoves
<1>2. ASSUME NEW at, NEW r, at \notin {"announce", "pick"}, Goto(a, at),
             r = [op |-> work[a].op, at |-> at, todo |-> {i}, item |-> i,
                  got |-> work[a].got],
             StepFits(r), i \notin raced => ItemFits(r, i)'
      PROVE  IndexInv'
  <2>1. r = Going(a, at)
    BY <1>2 DEF Going
  <2> QED
    BY <1>2, <2>1, GoingMoves
<1> QED
  BY <1>1, <1>2

LEMMA WriteHolds ==
    ASSUME IndexInv, IndexTypeOK', NEW a \in Actors, WriteFaq(a) PROVE IndexInv'
<1>i. PICK i : i = work[a].item
  OBVIOUS
<1>w. /\ work[a].op = "edit" /\ work[a].at = "write" /\ work[a].todo = {i} /\ i \in Items
      /\ i \notin raced => ItemFits(work[a], i)
      /\ library[i] = "faq" /\ StatusFits(i)
  <2>1. work[a].at = "write"
    BY DEF WriteFaq
  <2>2. StepFits(work[a]) /\ i \in work[a].todo
    BY <1>i, <2>1, AtHand
  <2>3. work[a].op = "edit"
    BY <2>1, <2>2 DEF StepFits
  <2> QED
    BY <1>i, <2>1, <2>2, <2>3, AtHand DEF Serves
<1>u. /\ UNCHANGED <<library, point, queued, apart, raced>>
      /\ \A j \in queued' : library[j] = "document"
      /\ SetStatus(i, "pending") /\ Goto(a, "upsert")
      /\ text' = [text EXCEPT ![i] = IF Exists(i) THEN work[a].got ELSE text[i]]
      /\ text \in [Items -> Texts \cup {NoText}]
  BY <1>i DEF WriteFaq, IndexInv, IndexTypeOK
<1>f. /\ \A j \in Items : StatusFits(j)'
      /\ status'[i] = IF Exists(i) THEN "pending" ELSE status[i]
      /\ \A j \in Items \ {i} : status'[j] = status[j]
  BY <1>w, <1>u, StatusSet
<1>n. \A j \in Items \ {i} : Untouched(j)
  BY <1>u, <1>f DEF Untouched
<1>r. PICK r : r = [op |-> work[a].op, at |-> "upsert", todo |-> {i}, item |-> i,
                    got |-> work[a].got]
  OBVIOUS
<1>1. StepFits(r)
  BY <1>r, <1>w DEF StepFits
<1>2. i \notin raced => ItemFits(r, i)'
  <2>1. i \notin raced => status'[i] = "pending" /\ text'[i] = work[a].got
    BY <1>w, <1>u, <1>f DEF ItemFits
  <2>2. i \notin raced => Agrees(i)' /\ Exists(i)'
    BY <2>1 DEF Agrees, Exists
  <2>3. r.op = "edit" /\ r.at = "upsert" /\ r.item = i /\ r.got = work[a].got
    BY <1>r, <1>w
  <2> QED
    BY <2>1, <2>2, <2>3 DEF ItemFits
<1> QED
  BY <1>i, <1>w, <1>u, <1>f, <1>n, <1>r, <1>1, <1>2, SingleMoves

\* The item's vector is deleted.
LEMMA ClearsHold ==
    ASSUME IndexInv, IndexTypeOK', NEW a \in Actors,
           ErasePoint(a) \/ ClearPoint(a) \/ Unindex(a)
    PROVE  IndexInv'
<1>i. PICK i : i = work[a].item
  OBVIOUS
<1>w. /\ StepFits(work[a]) /\ work[a].todo = {i} /\ i \in Items
      /\ work[a].at \in {"erase", "clear", "unindex"}
      /\ i \notin raced => ItemFits(work[a], i)
      /\ library[i] = Serves(work[a].op)
  <2>1. work[a].at \in {"erase", "clear", "unindex"}
    BY DEF ErasePoint, ClearPoint, Unindex
  <2>2. StepFits(work[a]) /\ i \in work[a].todo
    BY <1>i, <2>1, AtHand
  <2>3. work[a].op \notin {"train", "crawl"}
    BY <2>1, <2>2 DEF StepFits
  <2> QED
    BY <1>i, <2>1, <2>2, <2>3, AtHand
<1>u. /\ UNCHANGED <<library, status, text, queued, apart, raced>>
      /\ \A j \in queued' : library[j] = "document"
      /\ point' = [point EXCEPT ![i] = NoText]
      /\ point \in [Items -> Texts \cup {NoText}]
  BY <1>i DEF ErasePoint, ClearPoint, Unindex, storeVars, IndexInv, IndexTypeOK
<1>f. \A j \in Items : StatusFits(j)'
  BY <1>u DEF StatusFits, IndexInv
<1>n. point'[i] = NoText /\ \A j \in Items \ {i} : Untouched(j)
  BY <1>u, <1>w DEF Untouched
<1>1. CASE Unindex(a)
  <2>1. Finish(a) /\ work[a].at = "unindex"
    BY <1>1 DEF Unindex
  <2>2. i \notin raced => Agrees(i)'
    BY <1>u, <1>n, <1>w, <2>1 DEF ItemFits, Agrees
  <2> QED
    BY <1>i, <1>w, <1>u, <1>f, <1>n, <2>1, <2>2, SingleMoves
<1>2. CASE ErasePoint(a) \/ ClearPoint(a)
  <2>1. PICK at : /\ Goto(a, at)
                  /\ \/ work[a].at = "erase" /\ at = "remove"
                     \/ work[a].at = "clear" /\ at = "upsert"
    BY <1>2 DEF ErasePoint, ClearPoint
  <2>2. PICK r : r = [op |-> work[a].op, at |-> at, todo |-> {i}, item |-> i,
                      got |-> work[a].got]
    OBVIOUS
  <2>3. /\ r.op = work[a].op /\ r.at = at /\ r.todo = {i} /\ r.item = i /\ r.got = work[a].got
    BY <2>2
  <2>4. StepFits(r) /\ Between(r)
    BY <1>w, <2>1, <2>3 DEF StepFits, Between
  <2>5. i \notin raced => ItemFits(r, i)'
    BY <1>w, <1>u, <1>n, <2>1, <2>3, <2>4 DEF ItemFits, Exists, StepFits
  <2> QED
    BY <1>i, <1>w, <1>u, <1>f, <1>n, <2>1, <2>2, <2>4, <2>5, SingleMoves
<1> QED
  BY <1>1, <1>2

\* The item's document is deleted.
LEMMA RemovalsHold ==
    ASSUME IndexInv, IndexTypeOK', NEW a \in Actors, Remove(a) \/ DeleteProduct(a)
    PROVE  IndexInv'
<1>i. PICK i : i = work[a].item
  OBVIOUS
<1>w. /\ StepFits(work[a]) /\ work[a].todo = {i} /\ i \in Items
      /\ work[a].at \in {"remove", "delete"}
      /\ i \notin raced => ItemFits(work[a], i)
      /\ library[i] = Serves(work[a].op)
      /\ work[a].op \in {"erase", "discard", "withdraw"}
  <2>1. work[a].at \in {"remove", "delete"}
    BY DEF Remove, DeleteProduct
  <2>2. StepFits(work[a]) /\ i \in work[a].todo
    BY <1>i, <2>1, AtHand
  <2>3. work[a].op \in {"erase", "discard", "withdraw"}
    BY <2>1, <2>2 DEF StepFits
  <2> QED
    BY <1>i, <2>1, <2>2, <2>3, AtHand
<1>u. /\ UNCHANGED <<library, text, point, queued, apart, raced>>
      /\ \A j \in queued' : library[j] = "document"
      /\ SetStatus(i, "gone")
  BY <1>i DEF Remove, DeleteProduct, IndexInv
<1>f. /\ \A j \in Items : StatusFits(j)'
      /\ status'[i] = IF Exists(i) THEN "gone" ELSE status[i]
      /\ \A j \in Items \ {i} : status'[j] = status[j]
  <2>1. library[i] \in {"faq", "document", "product"}
    BY <1>w DEF Serves
  <2> QED
    BY <1>w, <1>u, <2>1, StatusSet
<1>n. \A j \in Items \ {i} : Untouched(j)
  BY <1>u, <1>f DEF Untouched
<1>g. i \notin raced => status'[i] = "gone" /\ Exists(i)
  BY <1>w, <1>f DEF ItemFits, StepFits
<1>1. CASE Remove(a)
  <2>1. Finish(a) /\ work[a].at = "remove"
    BY <1>1 DEF Remove
  <2>2. i \notin raced => library[i] = "document" \/ point[i] = NoText
    BY <1>w, <2>1 DEF ItemFits, Serves, StepFits
  <2>3. i \notin raced => Agrees(i)'
    BY <1>u, <1>g, <2>2 DEF Agrees
  <2> QED
    BY <1>i, <1>w, <1>u, <1>f, <1>n, <2>1, <2>3, SingleMoves
<1>2. CASE DeleteProduct(a) /\ Exists(i)
  <2>1. Goto(a, "unindex") /\ work[a].at = "delete"
    BY <1>i, <1>2 DEF DeleteProduct
  <2>2. PICK r : r = [op |-> work[a].op, at |-> "unindex", todo |-> {i}, item |-> i,
                      got |-> work[a].got]
    OBVIOUS
  <2>3. r.op = "withdraw" /\ r.at = "unindex" /\ StepFits(r) /\ Between(r)
    BY <1>w, <2>1, <2>2 DEF StepFits, Between
  <2>4. i \notin raced => ItemFits(r, i)'
    BY <1>g, <2>3 DEF ItemFits
  <2> QED
    BY <1>i, <1>w, <1>u, <1>f, <1>n, <2>1, <2>2, <2>3, <2>4, SingleMoves
<1>3. CASE DeleteProduct(a) /\ ~Exists(i)
  <2>1. Finish(a)
    BY <1>i, <1>3 DEF DeleteProduct
  <2>2. i \in raced
    BY <1>g, <1>3
  <2> QED
    BY <1>i, <1>w, <1>u, <1>f, <1>n, <2>1, <2>2, SingleMoves
<1> QED
  BY <1>1, <1>2, <1>3

\* A document's record and its job.
LEMMA RecordsHold ==
    ASSUME IndexInv, IndexTypeOK', NEW a \in Actors, Record(a) \/ EnqueueJob(a)
    PROVE  IndexInv'
<1>i. PICK i : i = work[a].item
  OBVIOUS
<1>w. /\ work[a].op = "upload" /\ work[a].todo = {i} /\ i \in Items
      /\ work[a].at \in {"record", "enqueue"}
      /\ i \notin raced => ItemFits(work[a], i)
      /\ library[i] = "document" /\ StatusFits(i)
  <2>1. work[a].at \in {"record", "enqueue"}
    BY DEF Record, EnqueueJob
  <2>2. StepFits(work[a]) /\ i \in work[a].todo
    BY <1>i, <2>1, AtHand
  <2>3. work[a].op = "upload"
    BY <2>1, <2>2 DEF StepFits
  <2> QED
    BY <1>i, <2>1, <2>2, <2>3, AtHand DEF Serves
<1>1. CASE Record(a)
  <2>1. /\ UNCHANGED <<library, point, queued, apart, raced>>
        /\ \A j \in queued' : library[j] = "document"
        /\ Goto(a, "enqueue") /\ work[a].at = "record"
        /\ status'[i] = "pending"
        /\ \A j \in Items \ {i} : status'[j] = status[j] /\ text'[j] = text[j]
    BY <1>1, <1>i, <1>w DEF Record, IndexInv, IndexTypeOK
  <2>2. ASSUME NEW j \in Items PROVE StatusFits(j)'
    <3>1. StatusFits(j)
      BY DEF IndexInv
    <3>2. CASE j = i
      BY <1>w, <2>1, <3>2 DEF StatusFits
    <3>3. CASE j # i
      BY <2>1, <3>1, <3>3 DEF StatusFits
    <3> QED
      BY <3>2, <3>3
  <2>3. \A j \in Items \ {i} : Untouched(j)
    BY <2>1 DEF Untouched
  <2>4. PICK r : r = [op |-> work[a].op, at |-> "enqueue", todo |-> {i}, item |-> i,
                      got |-> work[a].got]
    OBVIOUS
  <2>5. r.op = "upload" /\ r.at = "enqueue" /\ StepFits(r)
    BY <1>w, <2>4 DEF StepFits
  <2>6. ItemFits(r, i)'
    BY <2>1, <2>5 DEF ItemFits, Agrees
  <2> QED
    BY <1>i, <1>w, <2>1, <2>2, <2>3, <2>4, <2>5, <2>6, SingleMoves
<1>2. CASE EnqueueJob(a)
  <2>1. /\ UNCHANGED <<library, status, text, point, apart, raced>>
        /\ Finish(a)
        /\ \A j \in queued' : j = i \/ j \in queued
    BY <1>2, <1>i DEF EnqueueJob, storeVars
  <2>2. /\ \A j \in Items : StatusFits(j)' /\ Untouched(j)
        /\ \A j \in Items : Agrees(j) => Agrees(j)'
    BY <2>1, StandsStill
  <2>3. i \notin raced => Agrees(i)'
    BY <1>w, <2>2 DEF ItemFits, Between
  <2>4. \A j \in queued' : library[j] = "document"
    BY <1>w, <2>1 DEF IndexInv
  <2> QED
    BY <1>i, <1>w, <2>1, <2>2, <2>3, <2>4, SingleMoves
<1> QED
  BY <1>1, <1>2

LEMMA DownloadHolds ==
    ASSUME IndexInv, IndexTypeOK', NEW a \in Actors, Download(a) PROVE IndexInv'
<1>i. PICK i : i = work[a].item
  OBVIOUS
<1>w. /\ work[a].op = "process" /\ work[a].at = "download" /\ work[a].todo = {i} /\ i \in Items
      /\ i \notin raced => ItemFits(work[a], i) /\ OnlyHere(a, i)
      /\ library[i] = "document"
  <2>1. work[a].at = "download"
    BY DEF Download
  <2>2. StepFits(work[a]) /\ i \in work[a].todo
    BY <1>i, <2>1, AtHand
  <2>3. work[a].op = "process"
    BY <2>1, <2>2 DEF StepFits
  <2> QED
    BY <1>i, <2>1, <2>2, <2>3, AtHand DEF Serves
<1>u. /\ UNCHANGED <<library, status, text, point, queued, apart, raced>>
      /\ \A j \in Items : StatusFits(j)' /\ Untouched(j)
      /\ \A j \in Items : Agrees(j) => Agrees(j)'
      /\ \A j \in queued' : library[j] = "document"
  <2>1. UNCHANGED <<library, status, text, point, queued, apart, raced>>
    BY DEF Download, storeVars
  <2> QED
    BY <2>1, StandsStill DEF IndexInv
<1>1. PICK x, g : /\ x = IF i \in file THEN "upsert" ELSE "fail"
                  /\ g = IF i \in file THEN text[i] ELSE work[a].got
  OBVIOUS
<1>2. [work[a] EXCEPT !.at = x, !.got = g] =
          [op |-> work[a].op, at |-> x, todo |-> work[a].todo, item |-> work[a].item,
           got |-> g]
  <2>1. work[a] \in Work
    BY AtHand, WorkIs
  <2> QED
    BY <2>1, WorkReads
<1>3. PICK r : r = [op |-> work[a].op, at |-> x, todo |-> work[a].todo, item |-> work[a].item,
                    got |-> g]
  OBVIOUS
<1>4. work' = [work EXCEPT ![a] = [work[a] EXCEPT !.at = x, !.got = g]]
  BY <1>1, <1>i, Zenon DEF Download
<1>5. work' = [work EXCEPT ![a] = r]
  BY <1>2, <1>3, <1>4
<1>6. r.op = "process" /\ r.at = x /\ r.todo = {i} /\ r.item = i /\ r.got = g
  BY <1>3, <1>i, <1>w
<1>7. WorkFits(r)
  <2>1. StepFits(r)
    BY <1>1, <1>6 DEF StepFits
  <2> QED
    BY <1>6, <1>w, <2>1 DEF WorkFits, Serves
<1>8. i \notin raced => ItemFits(r, i)'
  <2>1. i \notin raced => Agrees(i)'
    BY <1>u, <1>w DEF ItemFits, Between
  <2>2. x = "upsert" => text'[i] = g
    BY <1>1, <1>u
  <2>3. x \in {"upsert", "fail"}
    BY <1>1
  <2> QED
    BY <1>6, <1>u, <1>w, <2>1, <2>2, <2>3 DEF ItemFits
<1>9. a \in Workers /\ r.todo # {} => r.op = "process"
  BY <1>6
<1> QED
  BY <1>5, <1>6, <1>7, <1>8, <1>9, <1>u, <1>w, ActorMoves

\* What an actor drops it has recorded, unless the stores agree on it.
LEMMA Dropped ==
    ASSUME IndexInv, NEW a \in Actors, NEW i \in work[a].todo, i \notin raced,
           UNCHANGED <<library, status, text, point>>,
           \A o \in Operation, j \in Items : <<o, j>> \in apart => <<o, j>> \in apart',
           i \in Undone(a) /\ a \notin Workers => <<work[a].op, i>> \in apart'
    PROVE  Agrees(i)'
<1>1. /\ ItemFits(work[a], i) /\ i \in Items /\ StepFits(work[a])
      /\ library[i] = Serves(work[a].op)
      /\ a \in Workers => work[a].op = "process"
      /\ work[a].op \in Operation
  BY AtHand
<1>2. Agrees(i) => Agrees(i)'
  BY <1>1, StandsStill
<1>3. CASE Between(work[a])
  <2>1. a \notin Workers /\ i \in Undone(a)
    BY <1>1, <1>3 DEF Between, StepFits, Undone
  <2>2. <<work[a].op, i>> \in apart'
    BY <2>1
  <2>3. CASE work[a].op \in {"index", "reindex"}
    BY <1>1, <2>2, <2>3 DEF ItemFits, Agrees
  <2>4. CASE work[a].at = "unindex"
    <3>1. work[a].op = "withdraw" /\ status[i] = "gone"
      BY <1>1, <2>4 DEF ItemFits, StepFits
    <3> QED
      BY <2>2, <3>1 DEF Agrees
  <2>5. CASE work[a].op = "erase"
    <3>1. Exists(i) /\ library[i] = "faq" /\ StatusFits(i)
      BY <1>1, <2>5 DEF ItemFits, Serves, IndexInv
    <3> QED
      BY <2>2, <2>5, <3>1 DEF Agrees, Exists, StatusFits
  <2> QED
    BY <1>3, <2>3, <2>4, <2>5 DEF Between
<1>4. CASE ~Between(work[a])
  BY <1>1, <1>2, <1>4 DEF ItemFits
<1> QED
  BY <1>3, <1>4

LEMMA ThrowHolds ==
    ASSUME IndexInv, IndexTypeOK', NEW a \in Actors, Throw(a) PROVE IndexInv'
<1>1. /\ Finish(a) /\ UNCHANGED <<library, status, text, point, queued, raced>>
      /\ apart' = apart \cup ({work[a].op} \X Undone(a))
  BY DEF Throw, storeVars
<1>2. \A i \in Items : StatusFits(i)' /\ Untouched(i)
  BY <1>1, StandsStill
<1>3. \A i \in work[a].todo \ raced : Agrees(i)'
  BY <1>1, Dropped
<1>4. \A i \in queued' : library[i] = "document"
  BY <1>1 DEF IndexInv
<1> QED
  BY <1>1, <1>2, <1>3, <1>4, FinishMoves

LEMMA RestartHolds == ASSUME IndexInv, IndexTypeOK', Restart PROVE IndexInv'
<1>t. work \in [Actors -> Work] /\ Requests \subseteq Actors /\ Workers \subseteq Actors
  BY DEF IndexInv, IndexTypeOK, Actors
<1>1. /\ UNCHANGED <<library, status, text, point, raced>>
      /\ \A o \in Operation, j \in Items : <<o, j>> \in apart => <<o, j>> \in apart'
      /\ \A a \in Requests, i \in Items : i \in Undone(a) => <<work[a].op, i>> \in apart'
  <2>1. apart' = apart \cup UNION {{work[a].op} \X Undone(a) : a \in Requests}
    BY DEF Restart
  <2>2. ASSUME NEW a \in Requests, NEW i \in Undone(a) PROVE <<work[a].op, i>> \in apart'
    <3>1. <<work[a].op, i>> \in {work[a].op} \X Undone(a)
      BY <2>2
    <3> QED
      BY <2>1, <3>1
  <2>3. UNCHANGED <<library, status, text, point, raced>>
    BY DEF Restart, storeVars
  <2> QED
    BY <2>1, <2>2, <2>3
<1>2. \A i \in Items : StatusFits(i)' /\ Untouched(i) /\ (Agrees(i) => Agrees(i)')
  BY <1>1, StandsStill
<1>3. ASSUME NEW a \in Actors PROVE work'[a].todo = {} /\ WorkFits(work[a])'
  <2>1. work'[a] = IF work[a].todo = {} THEN work[a]
                   ELSE [work[a] EXCEPT !.at = Rest(a), !.todo = {}]
    BY <1>t DEF Restart
  <2>2. CASE work[a].todo = {}
    BY <2>1, <2>2, AtHand DEF WorkFits
  <2>3. CASE work[a].todo # {}
    <3>1. [work[a] EXCEPT !.at = Rest(a), !.todo = {}] = Finished(a)
      BY <1>t, WorkChanges DEF Finished
    <3>2. PICK r : r = Finished(a)
      OBVIOUS
    <3>3. work'[a] = r /\ r.todo = {} /\ r.at \in {"idle", "done"}
      BY <2>1, <2>3, <3>1, <3>2 DEF Finished, Rest
    <3> QED
      BY <3>3 DEF WorkFits
  <2> QED
    BY <2>2, <2>3
<1>4. ASSUME NEW i \in queued' PROVE library[i] = "document"
  <2>1. i \in queued \/ \E a \in Workers : i \in work[a].todo
    BY <1>4 DEF Restart
  <2>2. ASSUME NEW a \in Workers, i \in work[a].todo PROVE library[i] = "document"
    <3>1. work[a].op = "process" /\ library[i] = Serves(work[a].op)
      BY <1>t, <2>2, AtHand
    <3> QED
      BY <3>1 DEF Serves
  <2> QED
    BY <2>1, <2>2 DEF IndexInv
<1>5. ASSUME NEW i \in Items \ raced PROVE ItemHolds(i)'
  <2>1. Agrees(i)'
    <3>1. CASE Busy(i)
      <4>1. PICK a \in Actors : i \in work[a].todo
        BY <3>1 DEF Busy
      <4>2. i \in Undone(a) /\ a \notin Workers => <<work[a].op, i>> \in apart'
        BY <1>1 DEF Actors
      <4> QED
        BY <1>1, <4>1, <4>2, Dropped
    <3>2. CASE ~Busy(i)
      BY <1>2, <3>2 DEF IndexInv, ItemHolds
    <3> QED
      BY <3>1, <3>2
  <2> QED
    BY <1>3, <2>1 DEF ItemHolds
<1> QED
  BY <1>t, <1>1, <1>2, <1>3, <1>4, <1>5 DEF IndexInv

-----------------------------------------------------------------------------
(* The search index: nothing that arrives breaks the invariant *)

LEMMA InsertHolds ==
    ASSUME IndexInv, IndexTypeOK', NEW a \in Requests, NEW k \in Kind, NEW t \in Texts,
           Insert(a, k, t)
    PROVE  IndexInv'
<1>t. /\ a \in Actors /\ a \notin Workers
      /\ status \in [Items -> Status] /\ text \in [Items -> Texts \cup {NoText}]
  BY IndexActorsAssumption DEF IndexInv, IndexTypeOK, Actors
<1>1. PICK o \in {"train", "crawl"}, S \in SUBSET Items :
        /\ Begin(a, o, "announce", S, NoItem, t)
        /\ \/ o = "train" /\ k = "faq"
           \/ o = "crawl" /\ k = "url"
        /\ \A i \in S : library[i] = k
        /\ \A i \in S : status'[i] = "pending" /\ text'[i] = t
        /\ \A i \in Items \ S : status'[i] = status[i] /\ text'[i] = text[i]
  <2>1. PICK S \in SUBSET Items : S = {i \in OfKind(k) : status[i] = "absent"}
    BY DEF OfKind
  <2>2. PICK o \in {"train", "crawl"} : o = IF k = "faq" THEN "train" ELSE "crawl"
    OBVIOUS
  <2>3. k \in {"faq", "url"}
    BY DEF Insert
  <2>4. /\ Begin(a, o, "announce", S, NoItem, t)
        /\ status' = [i \in Items |-> IF i \in S THEN "pending" ELSE status[i]]
        /\ text' = [i \in Items |-> IF i \in S THEN t ELSE text[i]]
    BY <2>1, <2>2 DEF Insert
  <2>5. \A i \in S : library[i] = k
    BY <2>1 DEF OfKind
  <2>6. \/ o = "train" /\ k = "faq"
        \/ o = "crawl" /\ k = "url"
    BY <2>2, <2>3
  <2>7. /\ \A i \in S : status'[i] = "pending" /\ text'[i] = t
        /\ \A i \in Items \ S : status'[i] = status[i] /\ text'[i] = text[i]
    BY <2>4
  <2>8. Begin(a, o, "announce", S, NoItem, t)
    BY <2>4
  <2> QED
    BY <2>1, <2>2, <2>5, <2>6, <2>7, <2>8
<1>2. UNCHANGED <<library, point, queued, apart>>
  BY DEF Insert
<1>4. ASSUME NEW i \in Items PROVE StatusFits(i)'
  <2>1. StatusFits(i)
    BY DEF IndexInv
  <2> QED
    BY <1>1, <1>2, <2>1 DEF StatusFits
<1>5. \A i \in Items \ S : Untouched(i)
  BY <1>1, <1>2 DEF Untouched
<1>6. PICK r : r = [op |-> o, at |-> "announce", todo |-> S, item |-> NoItem, got |-> t]
  OBVIOUS
<1>7. r.op = o /\ r.at = "announce" /\ r.todo = S /\ r.got = t
  BY <1>6
<1>8. WorkFits(r)
  BY <1>1, <1>7 DEF WorkFits, StepFits, Serves
<1>9. ASSUME NEW i \in S PROVE ItemFits(r, i)'
  BY <1>1, <1>7 DEF ItemFits, Agrees
<1>10. \A i \in queued' : library[i] = "document"
  BY <1>2 DEF IndexInv
<1> QED
  BY <1>t, <1>1, <1>2, <1>4, <1>5, <1>6, <1>8, <1>9, <1>10, BeginMoves

\* The operations on one item that only note what they are to do.
LEMMA NotesHold ==
    ASSUME IndexInv, IndexTypeOK', NEW a \in Requests, NEW i \in Items,
           \/ EraseFaq(a, i) \/ DiscardDocument(a, i) \/ WithdrawProduct(a, i)
           \/ \E t \in Texts : EditFaq(a, i, t) \/ Upload(a, i, t)
    PROVE  IndexInv'
<1>t. a \in Actors /\ a \notin Workers
  BY IndexActorsAssumption DEF Actors
<1>1. PICK o, at, t :
        /\ Begin(a, o, at, {i}, i, t)
        /\ library[i] = Serves(o)
        /\ \/ o = "erase" /\ at = "erase" /\ Exists(i)
           \/ o = "discard" /\ at = "unstore" /\ Exists(i)
           \/ o = "withdraw" /\ at = "delete" /\ Exists(i)
           \/ o = "edit" /\ at = "write" /\ Exists(i)
           \/ o = "upload" /\ at = "record" /\ status[i] = "absent"
  <2>1. CASE EraseFaq(a, i)
    BY <2>1 DEF EraseFaq, Serves
  <2>2. CASE DiscardDocument(a, i)
    BY <2>2 DEF DiscardDocument, Serves
  <2>3. CASE WithdrawProduct(a, i)
    BY <2>3 DEF WithdrawProduct, Serves
  <2>4. ASSUME NEW t \in Texts, EditFaq(a, i, t)
        PROVE  /\ Begin(a, "edit", "write", {i}, i, t) /\ Exists(i)
               /\ library[i] = Serves("edit")
    BY <2>4 DEF EditFaq, Serves
  <2>5. ASSUME NEW t \in Texts, Upload(a, i, t)
        PROVE  /\ Begin(a, "upload", "record", {i}, i, t) /\ status[i] = "absent"
               /\ library[i] = Serves("upload")
    BY <2>5 DEF Upload, Serves
  <2> QED
    BY <2>1, <2>2, <2>3, <2>4, <2>5
<1>2. UNCHANGED <<library, status, text, point, queued, apart>>
  BY DEF EraseFaq, DiscardDocument, WithdrawProduct, EditFaq, Upload, storeVars
<1>3. \A j \in Items : StatusFits(j)' /\ Untouched(j) /\ (Agrees(j) => Agrees(j)')
  BY <1>2, StandsStill
<1>4. PICK r : r = [op |-> o, at |-> at, todo |-> {i}, item |-> i, got |-> t]
  OBVIOUS
<1>5. r.op = o /\ r.at = at /\ r.todo = {i} /\ r.item = i
  BY <1>4
<1>6. WorkFits(r)
  BY <1>1, <1>5 DEF WorkFits, StepFits
<1>7. ASSUME Agrees(i) PROVE ItemFits(r, i)'
  <2>1. Agrees(i)' /\ status'[i] = status[i]
    BY <1>2, <1>3, <1>7
  <2> QED
    BY <1>1, <1>5, <2>1 DEF ItemFits, Exists
<1>8. \A j \in queued' : library[j] = "document"
  BY <1>2 DEF IndexInv
<1>9. \A j \in Items \ {i} : Untouched(j)
  BY <1>3
<1>10. \A j \in {i} : Agrees(j) => ItemFits(r, j)'
  BY <1>7
<1> QED
  BY <1>t, <1>1, <1>2, <1>3, <1>4, <1>6, <1>8, <1>9, <1>10, BeginMoves

LEMMA ProductsHold ==
    ASSUME IndexInv, IndexTypeOK', NEW a \in Requests, NEW i \in Items, NEW t \in Texts,
           CreateProduct(a, i, t) \/ UpdateProduct(a, i, t)
    PROVE  IndexInv'
<1>t. /\ a \in Actors /\ a \notin Workers
      /\ status \in [Items -> Status] /\ text \in [Items -> Texts \cup {NoText}]
  BY IndexActorsAssumption DEF IndexInv, IndexTypeOK, Actors
<1>1. PICK o, at :
        /\ Begin(a, o, at, {i}, i, t)
        /\ \/ o = "index" /\ at = "category"
           \/ o = "reindex" /\ at = "event"
  <2>1. CASE CreateProduct(a, i, t)
    BY <2>1 DEF CreateProduct
  <2>2. CASE UpdateProduct(a, i, t)
    BY <2>2 DEF UpdateProduct
  <2> QED
    BY <2>1, <2>2
<1>2. UNCHANGED <<library, point, queued, apart>> /\ library[i] = "product"
  BY DEF CreateProduct, UpdateProduct
<1>3. /\ status'[i] = "active" /\ text'[i] = t
      /\ \A j \in Items \ {i} : status'[j] = status[j] /\ text'[j] = text[j]
  <2>1. CASE CreateProduct(a, i, t)
    BY <1>t, <2>1 DEF CreateProduct
  <2>2. CASE UpdateProduct(a, i, t)
    <3>1. status[i] = "active"
      BY <1>2, <2>2 DEF UpdateProduct, Exists, IndexInv, StatusFits
    <3> QED
      BY <1>t, <2>2, <3>1 DEF UpdateProduct
  <2> QED
    BY <2>1, <2>2
<1>4. ASSUME NEW j \in Items PROVE StatusFits(j)'
  <2>1. StatusFits(j)
    BY DEF IndexInv
  <2> QED
    BY <1>2, <1>3, <2>1 DEF StatusFits
<1>5. \A j \in Items \ {i} : Untouched(j)
  BY <1>2, <1>3 DEF Untouched
<1>6. PICK r : r = [op |-> o, at |-> at, todo |-> {i}, item |-> i, got |-> t]
  OBVIOUS
<1>7. r.op = o /\ r.at = at /\ r.todo = {i} /\ r.item = i /\ r.got = t
  BY <1>6
<1>8. WorkFits(r) /\ Between(r)
  BY <1>1, <1>2, <1>7 DEF WorkFits, StepFits, Serves, Between
<1>9. \A j \in {i} : Agrees(j) => ItemFits(r, j)'
  BY <1>1, <1>3, <1>7, <1>8 DEF ItemFits
<1>10. \A j \in queued' : library[j] = "document"
  BY <1>2 DEF IndexInv
<1> QED
  BY <1>t, <1>1, <1>2, <1>4, <1>5, <1>6, <1>8, <1>9, <1>10, BeginMoves

LEMMA JobHolds ==
    ASSUME IndexInv, IndexTypeOK', NEW a \in Workers, NEW i \in Items, TakeJob(a, i)
    PROVE  IndexInv'
<1>t. a \in Actors
  BY DEF Actors
<1>1. /\ Begin(a, "process", "fetch", {i}, i, NoText) /\ SetStatus(i, "processing")
      /\ UNCHANGED <<library, text, point, apart>>
      /\ library[i] = "document" /\ \A j \in queued' : library[j] = "document"
  BY DEF TakeJob, IndexInv
<1>2. /\ \A j \in Items : StatusFits(j)'
      /\ status'[i] = IF Exists(i) THEN "processing" ELSE status[i]
      /\ \A j \in Items \ {i} : status'[j] = status[j]
  BY <1>1, StatusSet
<1>3. \A j \in Items \ {i} : Untouched(j)
  BY <1>1, <1>2 DEF Untouched
<1>4. PICK r : r = [op |-> "process", at |-> "fetch", todo |-> {i}, item |-> i, got |-> NoText]
  OBVIOUS
<1>5. r.op = "process" /\ r.at = "fetch" /\ r.todo = {i} /\ r.item = i
  BY <1>4
<1>6. WorkFits(r)
  BY <1>1, <1>5 DEF WorkFits, StepFits, Serves
<1>7. \A j \in {i} : Agrees(j) => ItemFits(r, j)'
  <2>1. status'[i] \in {"processing", "absent", "gone"} /\ library'[i] = "document"
    BY <1>1, <1>2 DEF Exists
  <2> QED
    BY <1>5, <2>1 DEF ItemFits, Agrees
<1> QED
  BY <1>t, <1>1, <1>2, <1>3, <1>4, <1>6, <1>7, BeginMoves

\* What happens to items at a stroke.
LEMMA StrokesHold ==
    ASSUME IndexInv, IndexTypeOK',
           \/ \E S \in SUBSET Items : SoftDelete(S)
           \/ \E i \in Items, t \in Texts : SetAvailability(i, t)
    PROVE  IndexInv'
<1>t. status \in [Items -> Status] /\ text \in [Items -> Texts \cup {NoText}]
  BY DEF IndexInv, IndexTypeOK
<1>1. PICK S \in SUBSET Items :
        /\ UNCHANGED <<library, point, queued, work>>
        /\ raced' = raced \cup {i \in S : Busy(i)}
        /\ \A i \in Items : StatusFits(i)'
        /\ \A i \in Items \ S : Untouched(i)
        /\ \A i \in S : Agrees(i)'
  <2>1. ASSUME NEW S \in SUBSET Items, SoftDelete(S)
        PROVE  /\ UNCHANGED <<library, point, queued, work>>
               /\ raced' = raced \cup {i \in S : Busy(i)}
               /\ \A i \in Items : StatusFits(i)'
               /\ \A i \in Items \ S : Untouched(i)
               /\ \A i \in S : Agrees(i)'
    <3>1. /\ UNCHANGED <<library, text, point, queued, work, apart>>
          /\ raced' = raced \cup {i \in S : Busy(i)}
          /\ \A i \in S : library[i] = "faq"
          /\ \A i \in Items : status'[i] = IF i \in S THEN "deleted" ELSE status[i]
      BY <2>1 DEF SoftDelete
    <3>2. ASSUME NEW i \in Items PROVE StatusFits(i)'
      <4>1. StatusFits(i)
        BY DEF IndexInv
      <4> QED
        BY <3>1, <4>1 DEF StatusFits
    <3>3. \A i \in Items \ S : Untouched(i)
      BY <3>1 DEF Untouched
    <3>4. \A i \in S : Agrees(i)'
      BY <3>1 DEF Agrees
    <3> QED
      BY <3>1, <3>2, <3>3, <3>4
  <2>2. ASSUME NEW i \in Items, NEW t \in Texts, SetAvailability(i, t)
        PROVE  /\ UNCHANGED <<library, point, queued, work>>
               /\ raced' = raced \cup {j \in {i} : Busy(j)}
               /\ \A j \in Items : StatusFits(j)'
               /\ \A j \in Items \ {i} : Untouched(j)
               /\ \A j \in {i} : Agrees(j)'
    <3>1. /\ UNCHANGED <<library, status, point, queued, work>>
          /\ library[i] = "product" /\ Exists(i)
          /\ \A j \in Items \ {i} : text'[j] = text[j]
          /\ apart' = apart \cup {<<"toggle", i>>}
      BY <2>2 DEF SetAvailability
    <3>2. \A j \in Items : StatusFits(j)'
      BY <3>1 DEF StatusFits, IndexInv
    <3>3. \A j \in Items \ {i} : Untouched(j)
      BY <3>1 DEF Untouched
    <3>4. Agrees(i)'
      <4>1. status'[i] = "active" /\ <<"toggle", i>> \in apart' /\ "toggle" \in Operation
        BY <3>1 DEF Exists, StatusFits, IndexInv, Operation
      <4> QED
        BY <4>1 DEF Agrees
    <3>5. raced' = raced \cup {j \in {i} : Busy(j)}
      BY <2>2 DEF SetAvailability
    <3> QED
      BY <3>1, <3>2, <3>3, <3>4, <3>5
  <2>3. ASSUME NEW i \in Items, NEW t \in Texts, SetAvailability(i, t)
        PROVE  \E S \in SUBSET Items :
                 /\ UNCHANGED <<library, point, queued, work>>
                 /\ raced' = raced \cup {j \in S : Busy(j)}
                 /\ \A j \in Items : StatusFits(j)'
                 /\ \A j \in Items \ S : Untouched(j)
                 /\ \A j \in S : Agrees(j)'
    <3>1. {i} \in SUBSET Items
      OBVIOUS
    <3> QED
      BY <2>2, <2>3, <3>1
  <2> QED
    BY <2>1, <2>3
<1>2. ASSUME NEW i \in Items, i \notin raced' PROVE ItemHolds(i)'
  <2>1. i \notin raced /\ ItemHolds(i)
    BY <1>1, <1>2 DEF IndexInv
  <2>2. CASE i \in S
    <3>1. ~Busy(i)
      BY <1>1, <1>2, <2>2
    <3> QED
      BY <1>1, <2>2, <3>1 DEF ItemHolds, Busy
  <2>3. CASE i \notin S
    <3>1. \A a \in Actors : i \in work[a].todo => ItemFits(work[a], i)'
      BY <1>1, <2>1, <2>3, UntouchedKeeps DEF ItemHolds
    <3>2. \A a \in Actors : i \in work'[a].todo => (ItemFits(work[a], i))' /\ OnlyHere(a, i)'
      BY <1>1, <2>1, <3>1 DEF ItemHolds, OnlyHere
    <3>3. ~Busy(i)' => Agrees(i)'
      BY <1>1, <2>1, <2>3, UntouchedKeeps DEF ItemHolds, Busy
    <3> QED
      BY <3>2, <3>3 DEF ItemHolds
  <2> QED
    BY <2>2, <2>3
<1>3. \A a \in Actors : WorkFits(work[a])'
  BY <1>1 DEF IndexInv, WorkFits
<1>4. \A a \in Workers : work'[a].todo # {} => work'[a].op = "process"
  BY <1>1 DEF IndexInv
<1>5. \A i \in queued' : library'[i] = "document"
  BY <1>1 DEF IndexInv
<1> QED
  BY <1>1, <1>2, <1>3, <1>4, <1>5 DEF IndexInv

LEMMA IndexSteps == IndexInv /\ [IndexNext]_indexVars => IndexInv'
<1> SUFFICES ASSUME IndexInv, [IndexNext]_indexVars PROVE IndexInv'
  OBVIOUS
<1>1. CASE IndexNext
  <2>1. IndexTypeOK'
    BY <1>1, IndexTypes
  <2>2. ASSUME NEW a \in Actors, IndexStep(a) \/ Catch(a) \/ ClearFails(a) \/ Throw(a)
        PROVE  IndexInv'
    BY <2>1, <2>2, StagesHold, TurnsHold, UpsertHolds, MarksHold, WriteHolds, ClearsHold,
       RemovalsHold, RecordsHold, DownloadHolds, ThrowHolds DEF IndexStep
  <2>3. ASSUME NEW a \in Requests, IndexRequest(a) PROVE IndexInv'
    BY <2>1, <2>3, InsertHolds, NotesHold, ProductsHold DEF IndexRequest
  <2>4. (\E a \in Workers, i \in Items : TakeJob(a, i)) => IndexInv'
    BY <2>1, JobHolds
  <2>5. \/ \E S \in SUBSET Items : SoftDelete(S)
        \/ \E i \in Items, t \in Texts : SetAvailability(i, t)
        => IndexInv'
    BY <2>1, StrokesHold
  <2>6. Restart => IndexInv'
    BY <2>1, RestartHolds
  <2> QED
    BY <1>1, <2>2, <2>3, <2>4, <2>5, <2>6 DEF IndexNext
<1>2. CASE UNCHANGED indexVars
  <2>1. /\ UNCHANGED <<library, status, text, file, point, queued, work, raced, apart,
                       troubles>>
    BY <1>2 DEF indexVars, storeVars
  <2>2. IndexTypeOK'
    BY <2>1 DEF IndexInv, IndexTypeOK
  <2>3. /\ \A i \in Items : StatusFits(i)' /\ Untouched(i)
        /\ \A i \in Items : Agrees(i) => Agrees(i)'
    BY <2>1, StandsStill
  <2>4. \A i \in Items : ItemHolds(i) => ItemHolds(i)'
    BY <2>1, <2>3, UntouchedKeeps DEF ItemHolds, OnlyHere, Busy
  <2>5. /\ \A a \in Actors : WorkFits(work[a])'
        /\ \A a \in Workers : work'[a].todo # {} => work'[a].op = "process"
        /\ \A i \in queued' : library'[i] = "document"
    BY <2>1 DEF IndexInv, WorkFits
  <2> QED
    BY <2>1, <2>2, <2>3, <2>4, <2>5 DEF IndexInv
<1> QED
  BY <1>1, <1>2

\* The inductive invariant: an item that only one call has in hand is in the state that
\* call has brought it to, and between two operations the stores agree on it.
THEOREM IndexInvariance == IndexSpec => []IndexInv
<1>1. IndexInit => IndexInv
  BY IndexInitially
<1>2. IndexInv /\ [IndexNext]_indexVars => IndexInv'
  BY IndexSteps
<1> QED
  BY <1>1, <1>2, PTL DEF IndexSpec

\* What the store calls completed is found under what it says now and what was removed is
\* not found any more, but for the overlaps and the lost calls the invariant names, for
\* any number of items, calls, workers, failures and restarts.
THEOREM SearchSoundness == IndexSpec => []SearchFollowsStore
<1>1. IndexInv => SearchFollowsStore
  <2> SUFFICES ASSUME IndexInv, NEW i \in Items, Quiet(i)
               PROVE  Agrees(i)
    BY DEF SearchFollowsStore, StoredIsFound, GoneIsForgotten, Agrees
  <2> QED
    BY DEF IndexInv, ItemHolds, Quiet
<1> QED
  BY <1>1, IndexInvariance, PTL

\* A FAQ that was deleted comes back only by an edit, or by an embedding that was under
\* way when it was deleted.
THEOREM DeletedFaqStaysDeleted == IndexSpec => DeletedFaqComesBackOnlyByWork
<1> DEFINE A == \A i \in Items :
                  status[i] = "deleted" /\ status'[i] \notin {"deleted", "gone"} =>
                      \E a \in Actors : /\ i \in work[a].todo
                                        /\ (work[a].op = "edit" \/ i \in raced)
<1>1. IndexInv /\ [IndexNext]_indexVars => A
  <2> SUFFICES ASSUME IndexInv, IndexNext, NEW i \in Items, status[i] = "deleted",
                      status'[i] \notin {"deleted", "gone"}
               PROVE  \E a \in Actors : /\ i \in work[a].todo
                                        /\ (work[a].op = "edit" \/ i \in raced)
    BY DEF indexVars, storeVars
  <2>t. status \in [Items -> Status] /\ library[i] = "faq" /\ i \in Items
    <3>1. library \in [Items -> Kind] /\ StatusFits(i) /\ status \in [Items -> Status]
      BY LibrariesAssumption DEF IndexInv, IndexTypeOK
    <3>2. library[i] \in {"faq", "url", "document", "product"}
      BY <3>1 DEF Kind
    <3> QED
      BY <3>1, <3>2 DEF StatusFits
  <2>1. PICK a \in Actors : MarkCompleted(a) \/ MarkFailed(a) \/ WriteFaq(a) \/ Record(a)
    <3>1. ASSUME NEW a \in Actors, IndexStep(a) \/ Catch(a) \/ ClearFails(a) \/ Throw(a)
          PROVE  MarkCompleted(a) \/ MarkFailed(a) \/ WriteFaq(a) \/ Record(a)
      <4>1. ~Remove(a) /\ ~DeleteProduct(a)
        BY <2>t DEF Remove, DeleteProduct, SetStatus
      <4>2. status' = status => FALSE
        OBVIOUS
      <4> QED
        BY <3>1, <4>1, <4>2
           DEF IndexStep, Announce, Pick, Upsert, Tell, ErasePoint, EnqueueJob, Fetch, Download,
               Unstore, StoreEvent, ReadCategory, ClearPoint, Unindex, Catch, ClearFails, Throw,
               storeVars
    <3>2. ASSUME NEW a \in Requests, IndexRequest(a) PROVE FALSE
      <4>1. ~\E k \in Kind, t \in Texts : Insert(a, k, t)
        BY <2>t DEF Insert
      <4>2. ~\E j \in Items, t \in Texts : CreateProduct(a, j, t)
        BY <2>t DEF CreateProduct
      <4> QED
        BY <3>2, <4>1, <4>2
           DEF IndexRequest, EraseFaq, DiscardDocument, WithdrawProduct, EditFaq, Upload,
               UpdateProduct, storeVars
    <3>3. ~\E a \in Workers, j \in Items : TakeJob(a, j)
      BY <2>t DEF TakeJob, SetStatus, IndexInv
    <3>4. ~\E S \in SUBSET Items : SoftDelete(S)
      BY <2>t DEF SoftDelete
    <3>5. ~\E j \in Items, t \in Texts : SetAvailability(j, t)
      BY DEF SetAvailability
    <3>6. ~Restart
      BY DEF Restart, storeVars
    <3> QED
      BY <3>1, <3>2, <3>3, <3>4, <3>5, <3>6 DEF IndexNext
  <2>2. work[a].at \in {"mark", "fail", "write", "record"} /\ i = work[a].item
    BY <2>t, <2>1 DEF MarkCompleted, MarkFailed, WriteFaq, Record, SetStatus
  <2>3. i \in work[a].todo /\ StepFits(work[a]) /\ Serves(work[a].op) = "faq"
    BY <2>t, <2>2, AtHand
  <2>4. work[a].op \in {"train", "edit"}
    BY <2>2, <2>3 DEF StepFits, Serves
  <2>5. work[a].op = "train" => i \in raced
    BY <2>3, AtHand DEF ItemFits
  <2> QED
    BY <2>3, <2>4, <2>5
<1>2. DeletedFaqComesBackOnlyByWork <=> [][A]_indexVars
  BY DEF DeletedFaqComesBackOnlyByWork
<1> QED
  BY <1>1, <1>2, IndexInvariance, PTL DEF IndexSpec

-----------------------------------------------------------------------------
(* The three parts together *)

\* Whatever runs, it runs as its own specification says, the other parts at rest.
LEMMA ContentParts == ContentSpec => IndexSpec /\ BotSpec /\ CacheSpec
<1>1. ContentInit => IndexInit /\ BotInit /\ CacheInit
  BY DEF ContentInit
<1>2. [ContentNext]_contentVars => [IndexNext]_indexVars /\ [BotNext]_botVars /\ [CacheNext]_cacheVars
  BY DEF ContentNext, contentVars
<1> QED
  BY <1>1, <1>2, PTL DEF ContentSpec, IndexSpec, BotSpec, CacheSpec

\* The variables of the three parts keep their types.
THEOREM ContentTypes == ContentSpec => []ContentTypeOK
<1>1. IndexInv => IndexTypeOK
  BY DEF IndexInv
<1>2. BotInv => BotTypeOK
  BY DEF BotInv
<1>3. CacheInv => CacheTypeOK
  BY DEF CacheInv
<1>4. IndexTypeOK /\ BotTypeOK /\ CacheTypeOK => ContentTypeOK
  BY DEF ContentTypeOK
<1> QED
  BY <1>1, <1>2, <1>3, <1>4, ContentParts, IndexInvariance, BotInvariance, CacheInvariance, PTL

\* What the bots and the caches give agrees with what is stored, in the composition that
\* the runs check as in each of its parts.
THEOREM ContentSoundness ==
    ContentSpec => /\ [](SearchFollowsStore /\ BotAnswersAreCurrent /\ CacheIsSound)
                   /\ DeletedFaqComesBackOnlyByWork
BY ContentParts, SearchSoundness, BotCurrency, CacheSoundness, DeletedFaqStaysDeleted, PTL
=============================================================================
