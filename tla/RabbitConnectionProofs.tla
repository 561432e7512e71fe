----------------------- MODULE RabbitConnectionProofs -----------------------
(***************************************************************************)
(* Proofs about the RabbitMQ client, for any number of subscriptions, of   *)
(* publishing callers, and of faults, by itself and where it is composed   *)
(* with the requests of a chat.                                            *)
(***************************************************************************)
EXTENDS MCRequests, FiniteSetTheorems, TLAPS

-----------------------------------------------------------------------------
(* The inductive invariant *)

\* What the broker keeps: channels on open connections, consumers on open channels; a tag
\* is one of its own record.
ConsumersLive ==
    /\ \A c \in Channels : channel[c] = "open" => c \in open
    /\ \A x \in consumers : channel[x[1]] = "open"
    /\ \A r \in Records : \A c \in tag[r] : c[2] = r

\* What runs when.
StagesFit ==
    /\ attempt \in {"channel", "topology"} => applied = {}
    /\ attempt \in {"topology", "apply"} => ch \in {None, opened}
    /\ apply[Attempt].at # "idle" => attempt = "apply"
    /\ \A a \in Appliers :
         /\ apply[a].at = "idle" => apply[a].rec = {}
         /\ apply[a].at # "idle" => /\ apply[a].on \in Channels
                                    /\ \E r \in recorded : apply[a].rec = {r}
    /\ \A r \in Records :
         /\ apply[r].at # "idle" => apply[r].rec = {r}
         /\ apply[r].at # "idle" <=> caller[r].at = "apply"
         /\ caller[r].at # "idle" => r \in recorded

\* As long as no attempt was given up on an open connection, the one that is open is the
\* last one, and the fields say so.
OneConnection ==
    ~gaveUp => /\ open \subseteq {opened}
               /\ attempt \in {"connect", "sleep"} => open = {}
               /\ open # {} => conn = opened /\ (attempt # "channel" => ch = opened)

\* What crossed does not name is applied by one at a time.
OneAtOnce ==
    \A r \in Records \ crossed : \A a, b \in Appliers :
        apply[a].rec = {r} /\ apply[b].rec = {r} => a = b

\* Then the record's tag is the consumer it has, and whoever replaces it cancels it.
TagKnows ==
    ~gaveUp => \A r \in Records \ crossed :
        /\ ConsumersOf(r) \subseteq tag[r]
        /\ \A a \in Appliers : apply[a].rec = {r} =>
             /\ apply[a].at = "cancel" => \A c \in ConsumersOf(r) : c[1] = apply[a].on
             /\ apply[a].at = "consume" => ConsumersOf(r) = {}

\* Somebody sees to it that r is consumed on the channel that the fields name.
IsServed(r) ==
    \/ caller[r].at = "wait"
    \/ \E a \in Appliers : apply[a].rec = {r} /\ apply[a].on = ch
    \/ \E c \in ConsumersOf(r) : c[1] = ch

Served ==
    Usable(ch) => /\ attempt = "apply" => \A r \in applied : IsServed(r)
                  /\ attempt = "none" => \A r \in recorded : IsServed(r)

IInv ==
    /\ RabbitTypeOK
    /\ ConsumersLive
    /\ StagesFit
    /\ OneConnection
    /\ OneAtOnce
    /\ TagKnows
    /\ Served

-----------------------------------------------------------------------------
(* Types, and where it begins *)

\* Calls and callers, without the records that may be applied.
ApplyState(R) == [at : {"idle", "queue", "cancel", "consume"},
                 on : Channels \cup {None}, rec : SUBSET R]
CallerState == [at : Call, on : Channels \cup {None}]

LEMMA Types ==
    ASSUME IInv
    PROVE  /\ apply \in [Appliers -> ApplyState(recorded)]
           /\ caller \in [Records \cup Publishes -> CallerState]
           /\ recorded \subseteq Records /\ crossed \subseteq Records
           /\ attempt \in AttemptStage
           /\ gaveUp \in BOOLEAN
           /\ Attempt \notin Records
           /\ \A a \in Appliers : /\ apply[a].on \in Channels \cup {None}
                                  /\ apply[a].at \in {"idle", "queue", "cancel", "consume"}
    BY AttemptAssumption DEF IInv, RabbitTypeOK, ApplyState, CallerState

\* Without a connection nothing has been recorded: before the first attempt, and at rest.
LEMMA UnconnectedInv == Unconnected /\ attempt \in {"none", "connect"} => IInv
<1> SUFFICES ASSUME Unconnected, attempt \in {"none", "connect"} PROVE IInv
    OBVIOUS
<1> USE DEF Unconnected
<1>1. RabbitTypeOK
  <2>1. /\ opened \in 0..(MaxFaults + 1) /\ faults \in 0..MaxFaults
        /\ {conn, ch} \subseteq Connections \cup {None} /\ open \subseteq 1..opened
    BY FaultsAssumption
  <2>2. apply \in [Appliers -> [at : {"idle", "queue", "cancel", "consume"},
                               on : Channels \cup {None}, rec : SUBSET recorded]]
    BY DEF NotApplying
  <2>3. caller \in [Records \cup Publishes -> [at : Call, on : Channels \cup {None}]]
    BY DEF Call
  <2>4. tag \in [Records -> {{}} \cup {{c} : c \in Consumer}]
    OBVIOUS
  <2> QED BY <2>1, <2>2, <2>3, <2>4 DEF RabbitTypeOK, AttemptStage
<1>2. ConsumersLive /\ OneConnection
    BY DEF ConsumersLive, OneConnection
<1>3. \A a \in Appliers : apply[a].at = "idle" /\ apply[a].rec = {}
    BY DEF NotApplying
<1>4. StagesFit
    BY <1>3 DEF StagesFit, Appliers
<1>5. OneAtOnce /\ TagKnows
    BY <1>3 DEF OneAtOnce, TagKnows, ConsumersOf
<1>6. Served
    BY DEF Served, Usable
<1> QED BY <1>1, <1>2, <1>4, <1>5, <1>6 DEF IInv

LEMMA InitInv == RabbitInit => IInv
    BY UnconnectedInv DEF RabbitInit

LEMMA StutterInv ==
    ASSUME IInv, UNCHANGED rabbitVars
    PROVE  IInv'
<1> USE DEF rabbitVars, fieldVars, brokerVars, applyVars
<1>1. RabbitTypeOK'
    BY DEF IInv, RabbitTypeOK
<1>2. ConsumersLive' /\ StagesFit' /\ OneConnection' /\ OneAtOnce'
    BY DEF IInv, ConsumersLive, StagesFit, OneConnection, OneAtOnce
<1>3. TagKnows'
    BY DEF IInv, TagKnows, ConsumersOf
<1>4. Served'
    BY DEF IInv, Served, IsServed, ConsumersOf, Usable
<1> QED BY <1>1, <1>2, <1>3, <1>4 DEF IInv

-----------------------------------------------------------------------------
(* What the helpers do *)

\* A step that touches no consumer and nothing that is being applied.
LEMMA QuietTag ==
    ASSUME IInv, gaveUp => gaveUp', UNCHANGED <<consumers, tag, apply, crossed>>
    PROVE  OneAtOnce' /\ TagKnows'
<1>1. OneAtOnce'
    BY DEF IInv, OneAtOnce
<1>2. TagKnows'
    BY DEF IInv, TagKnows, ConsumersOf
<1> QED BY <1>1, <1>2

\* A step after which nobody has more to serve, or less to be served by.
LEMMA QuietServed ==
    ASSUME IInv, UNCHANGED <<ch, channel, consumers, apply, applied, recorded>>,
           attempt' \in {"apply", "none"} => attempt' = attempt,
           \A r \in Records : caller[r].at = "wait" => caller'[r].at = "wait"
    PROVE  Served'
<1>1. recorded \subseteq Records /\ applied \subseteq recorded
    BY DEF IInv, RabbitTypeOK
<1>2. \A r \in Records : IsServed(r) => IsServed(r)'
    BY DEF IsServed, ConsumersOf
<1> QED BY <1>1, <1>2 DEF IInv, Served, Usable

LEMMA GiveUpFacts ==
    ASSUME IInv, GiveUp
    PROVE  /\ attempt' = "sleep" /\ gaveUp' \in BOOLEAN
           /\ gaveUp => gaveUp'
           /\ opened \in open => gaveUp'
    BY DEF GiveUp, IInv, RabbitTypeOK

LEMMA CallFacts ==
    ASSUME IInv, NEW x \in Records \cup Publishes, NEW at \in Call,
           NEW on \in Channels \cup {None}, CallAt(x, at, on)
    PROVE  /\ caller' \in [Records \cup Publishes -> CallerState]
           /\ \A y \in Records \cup Publishes :
                  caller'[y] = IF y = x THEN [at |-> at, on |-> on] ELSE caller[y]
    BY DEF CallAt, CallerState, IInv, RabbitTypeOK

LEMMA StartFacts ==
    ASSUME IInv, NEW a \in Appliers, NEW r \in Records, apply[a].at = "idle", ch \in Channels,
           StartApply(a, r)
    PROVE  /\ apply' \in [Appliers -> ApplyState(recorded \cup {r})]
           /\ \A b \in Appliers :
                  apply'[b] = IF b = a THEN [at |-> "queue", on |-> ch, rec |-> {r}] ELSE apply[b]
           /\ crossed \subseteq crossed' /\ crossed' \subseteq Records
           /\ OneAtOnce'
           /\ UNCHANGED <<consumers, tag, gaveUp>> => TagKnows'
<1>1. [at |-> "queue", on |-> ch, rec |-> {r}] \in ApplyState(recorded \cup {r})
    BY DEF ApplyState
<1>2. \A b \in Appliers : apply[b] \in ApplyState(recorded \cup {r})
    BY Types DEF ApplyState
<1>3. apply' \in [Appliers -> ApplyState(recorded \cup {r})]
    BY <1>1, <1>2, Types DEF StartApply
<1>4. \A b \in Appliers :
          apply'[b] = IF b = a THEN [at |-> "queue", on |-> ch, rec |-> {r}] ELSE apply[b]
    BY Types DEF StartApply
<1>5. crossed \subseteq crossed' /\ crossed' \subseteq Records
    BY Types DEF StartApply
<1>6. OneAtOnce'
  <2> SUFFICES ASSUME NEW s \in Records \ crossed', NEW b \in Appliers, NEW d \in Appliers,
                      apply'[b].rec = {s}, apply'[d].rec = {s}
               PROVE  b = d
    BY DEF OneAtOnce
  <2>1. CASE b # a /\ d # a
    BY <1>4, <1>5, <2>1 DEF IInv, OneAtOnce
  <2>2. CASE b = a /\ d # a
    BY <1>4, <2>2 DEF StartApply
  <2>3. CASE b # a /\ d = a
    BY <1>4, <2>3 DEF StartApply
  <2> QED BY <2>1, <2>2, <2>3
<1>7. ASSUME UNCHANGED <<consumers, tag, gaveUp>> PROVE TagKnows'
    BY <1>4, <1>5, <1>7 DEF IInv, TagKnows, ConsumersOf
<1> QED BY <1>3, <1>4, <1>5, <1>6, <1>7

LEMMA EndFacts ==
    ASSUME IInv, NEW a \in Appliers, NEW result \in {"ok", "failed"}, apply[a].at # "idle",
           EndApply(a, result),
           UNCHANGED <<conn, ch, opened, open, recorded, applied, crossed>>
    PROVE  /\ apply' \in [Appliers -> ApplyState(recorded)]
           /\ \A b \in Appliers : apply'[b] = IF b = a THEN NotApplying ELSE apply[b]
           /\ caller' \in [Records \cup Publishes -> CallerState]
           /\ \A r \in Records : caller[r].at = "wait" <=> caller'[r].at = "wait"
           /\ gaveUp' \in BOOLEAN /\ (gaveUp => gaveUp') /\ attempt' \in AttemptStage
           /\ attempt' = attempt \/ attempt' = "sleep"
           /\ StagesFit' /\ OneConnection' /\ OneAtOnce'
<1>1. NotApplying \in ApplyState(recorded)
    BY DEF NotApplying, ApplyState
<1>2. /\ apply' \in [Appliers -> ApplyState(recorded)]
      /\ \A b \in Appliers : apply'[b] = IF b = a THEN NotApplying ELSE apply[b]
    BY <1>1, Types DEF EndApply
<1>3. CASE a = Attempt
  <2>1. /\ caller' = caller
        /\ \/ attempt' = attempt /\ gaveUp' = gaveUp
           \/ /\ attempt' = "sleep" /\ gaveUp' \in BOOLEAN /\ (gaveUp => gaveUp')
              /\ opened \in open => gaveUp'
    BY <1>3, GiveUpFacts DEF EndApply
  <2>2. attempt = "apply" /\ Attempt \notin Records
    BY <1>3, Types DEF IInv, StagesFit
  <2>3. StagesFit'
    BY <1>2, <1>3, <2>1, <2>2 DEF IInv, StagesFit, NotApplying, Appliers
  <2>4. OneConnection'
    BY <2>1, <2>2 DEF IInv, OneConnection
  <2>5. OneAtOnce'
    BY <1>2 DEF IInv, OneAtOnce, NotApplying
  <2> QED BY <1>2, <2>1, <2>3, <2>4, <2>5, Types DEF AttemptStage
<1>4. CASE a # Attempt
  <2>1. a \in Records /\ UNCHANGED <<attempt, gaveUp>>
    BY <1>4 DEF EndApply, Appliers
  <2>2. /\ caller' \in [Records \cup Publishes -> CallerState]
        /\ \A y \in Records \cup Publishes :
               caller'[y] = IF y = a THEN [at |-> result, on |-> None] ELSE caller[y]
    BY SMTT(30), <1>4, <2>1, CallFacts DEF EndApply, Call
  <2>3. caller[a].at = "apply"
    BY <2>1 DEF IInv, StagesFit
  <2>4. StagesFit'
    BY <1>2, <1>4, <2>1, <2>2, <2>3 DEF IInv, StagesFit, NotApplying, Appliers
  <2>5. OneConnection'
    BY <2>1 DEF IInv, OneConnection
  <2>6. OneAtOnce'
    BY <1>2 DEF IInv, OneAtOnce, NotApplying
  <2> QED BY <1>2, <2>1, <2>2, <2>3, <2>4, <2>5, <2>6, Types
<1> QED BY <1>3, <1>4

\* A call goes on that has nothing to do with what is being applied.
LEMMA CallerInv ==
    ASSUME IInv, NEW x \in Records \cup Publishes, NEW at \in Call,
           NEW on \in Channels \cup {None}, CallAt(x, at, on),
           x \in Records => /\ {at, caller[x].at} \cap {"idle", "apply"} = {}
                            /\ caller[x].at = "wait" => at = "wait" \/ ch = None,
           UNCHANGED <<fieldVars, brokerVars, recorded, applyVars, attempt, gaveUp, faults>>
    PROVE  IInv'
<1>1. /\ caller' \in [Records \cup Publishes -> CallerState]
      /\ \A y \in Records \cup Publishes :
             caller'[y] = IF y = x THEN [at |-> at, on |-> on] ELSE caller[y]
    BY SMTT(30), CallFacts
<1> USE DEF fieldVars, brokerVars, applyVars
<1>2. RabbitTypeOK'
    BY <1>1 DEF IInv, RabbitTypeOK, CallerState
<1>3. ConsumersLive' /\ OneConnection'
    BY DEF IInv, ConsumersLive, OneConnection
<1>4. StagesFit'
  <2>1. \A r \in Records : /\ caller'[r].at = "apply" <=> caller[r].at = "apply"
                           /\ caller'[r].at = "idle" <=> caller[r].at = "idle"
    <3>1. x \in Records => /\ at \notin {"idle", "apply"}
                           /\ caller[x].at \notin {"idle", "apply"}
      OBVIOUS
    <3>2. \A r \in Records : r # x => caller'[r] = caller[r]
      BY <1>1
    <3>3. caller'[x].at = at
      BY <1>1
    <3> QED BY <3>1, <3>2, <3>3
  <2> QED BY <2>1 DEF IInv, StagesFit
<1>5. OneAtOnce' /\ TagKnows'
    BY QuietTag
<1>6. Served'
  <2>1. CASE ch = None
    BY <2>1 DEF Served, Usable
  <2>2. CASE ch # None
    BY <1>1, <2>2, QuietServed
  <2> QED BY <2>1, <2>2
<1> QED BY <1>2, <1>3, <1>4, <1>5, <1>6 DEF IInv

\* The attempt is given up while it applies nothing.
LEMMA GivenUpInv ==
    ASSUME IInv, GiveUp, attempt \in {"channel", "topology", "apply"}, apply[Attempt].at = "idle",
           UNCHANGED <<fieldVars, brokerVars, recorded, applyVars, caller, faults>>
    PROVE  IInv'
<1>1. /\ attempt' = "sleep" /\ gaveUp' \in BOOLEAN /\ (gaveUp => gaveUp')
      /\ opened \in open => gaveUp'
    BY GiveUpFacts
<1> USE DEF fieldVars, brokerVars, applyVars
<1>2. RabbitTypeOK'
    BY <1>1 DEF IInv, RabbitTypeOK, AttemptStage
<1>3. ConsumersLive'
    BY DEF IInv, ConsumersLive
<1>4. StagesFit'
    BY <1>1 DEF IInv, StagesFit
<1>5. OneConnection'
    BY <1>1 DEF IInv, OneConnection
<1>6. OneAtOnce' /\ TagKnows'
    BY <1>1, QuietTag
<1>7. Served'
    BY <1>1 DEF Served
<1> QED BY <1>2, <1>3, <1>4, <1>5, <1>6, <1>7 DEF IInv

\* What was to be applied fails, on a channel that is closed.
LEMMA ApplyFails ==
    ASSUME IInv, NEW a \in Appliers, apply[a].at # "idle", ~Usable(apply[a].on),
           EndApply(a, "failed"),
           UNCHANGED <<fieldVars, brokerVars, recorded, tag, applied, crossed, faults>>
    PROVE  IInv'
<1>1. /\ apply' \in [Appliers -> ApplyState(recorded)]
      /\ \A b \in Appliers : apply'[b] = IF b = a THEN NotApplying ELSE apply[b]
      /\ caller' \in [Records \cup Publishes -> CallerState]
      /\ \A r \in Records : caller[r].at = "wait" <=> caller'[r].at = "wait"
      /\ gaveUp' \in BOOLEAN /\ (gaveUp => gaveUp') /\ attempt' \in AttemptStage
      /\ attempt' = attempt \/ attempt' = "sleep"
      /\ StagesFit' /\ OneConnection' /\ OneAtOnce'
    BY EndFacts DEF fieldVars, brokerVars
<1> USE DEF fieldVars, brokerVars
<1>2. RabbitTypeOK'
    BY <1>1 DEF IInv, RabbitTypeOK, ApplyState, CallerState
<1>3. ConsumersLive'
    BY DEF IInv, ConsumersLive
<1>4. TagKnows'
    BY <1>1 DEF IInv, TagKnows, ConsumersOf, NotApplying
<1>5. Served'
  <2>1. Usable(ch) => \A s \in Records : IsServed(s) => IsServed(s)'
    BY <1>1 DEF IsServed, ConsumersOf
  <2>2. recorded \subseteq Records /\ applied \subseteq Records
    BY DEF IInv, RabbitTypeOK
  <2> QED BY <1>1, <2>1, <2>2 DEF IInv, Served, Usable
<1> QED BY <1>1, <1>2, <1>3, <1>4, <1>5 DEF IInv

-----------------------------------------------------------------------------
(* Every step keeps it *)

LEMMA PublishInv ==
    ASSUME IInv, NEW p \in Publishes, Publish(p)
    PROVE  IInv'
<1>1. CASE Connected \/ attempt # "none"
  <2>1. \E s \in Call, on \in Channels \cup {None} : CallAt(p, s, on)
    BY <1>1 DEF Publish, EnsureConnected, Call, IInv, RabbitTypeOK, Channels
  <2>2. UNCHANGED <<attempt, applied>>
    BY <1>1 DEF Publish, EnsureConnected
  <2> QED BY <2>1, <2>2, CallerInv, CallersAreDistinct DEF Publish, applyVars
<1>2. CASE ~Connected /\ attempt = "none"
  <2>1. attempt' = "connect" /\ applied' = {} /\ CallAt(p, "wait", None)
    BY <1>2 DEF Publish, EnsureConnected
  <2>2. /\ caller' \in [Records \cup Publishes -> CallerState]
        /\ \A r \in Records : caller'[r] = caller[r]
    <3>1. /\ CallAt(p, "wait", None) /\ "wait" \in Call /\ p \notin Records
          /\ p \in Records \cup Publishes /\ None \in Channels \cup {None}
      BY <2>1, CallersAreDistinct DEF Call
    <3>2. \A y \in Records \cup Publishes :
              caller'[y] = IF y = p THEN [at |-> "wait", on |-> None] ELSE caller[y]
      BY <3>1, CallFacts
    <3>3. caller' \in [Records \cup Publishes -> CallerState]
      BY <3>1, CallFacts
    <3> QED BY <3>1, <3>2, <3>3
  <2> USE DEF Publish, fieldVars, brokerVars
  <2>3. RabbitTypeOK'
    BY <2>1, <2>2 DEF IInv, RabbitTypeOK, AttemptStage, CallerState
  <2>4. ConsumersLive'
    BY DEF IInv, ConsumersLive
  <2>5. StagesFit'
    BY <1>2, <2>1, <2>2 DEF IInv, StagesFit
  <2>6. OneConnection'
    BY <1>2, <2>1 DEF IInv, OneConnection, Connected, RabbitTypeOK, Connections, None
  <2>7. OneAtOnce' /\ TagKnows'
    BY QuietTag
  <2>8. Served'
    BY <2>1 DEF Served
  <2> QED BY <2>3, <2>4, <2>5, <2>6, <2>7, <2>8 DEF IInv
<1> QED BY <1>1, <1>2

LEMMA SubscribeInv ==
    ASSUME IInv, NEW r \in Records, Subscribe(r)
    PROVE  IInv'
<1>1. /\ apply[r].at = "idle" /\ apply[r].rec = {} /\ r \in Appliers
      /\ recorded' = recorded \cup {r}
    BY DEF IInv, StagesFit, Subscribe, Appliers
<1>2. CASE Connected
  <2>1. /\ UNCHANGED <<attempt, applied>>
        /\ CallAt(r, "apply", None) /\ StartApply(r, r) /\ ch \in Channels
    BY <1>2 DEF Subscribe, EnsureConnected, Connected, IInv, RabbitTypeOK, Channels
  <2>2. /\ apply' \in [Appliers -> ApplyState(recorded')]
        /\ \A b \in Appliers :
               apply'[b] = IF b = r THEN [at |-> "queue", on |-> ch, rec |-> {r}] ELSE apply[b]
        /\ crossed' \subseteq Records /\ OneAtOnce' /\ TagKnows'
    BY <1>1, <2>1, StartFacts DEF Subscribe, brokerVars
  <2>3. /\ caller' \in [Records \cup Publishes -> CallerState]
        /\ \A s \in Records : caller'[s] = IF s = r THEN [at |-> "apply", on |-> None]
                                           ELSE caller[s]
    BY SMTT(30), <2>1, CallFacts DEF Call
  <2> USE DEF Subscribe, fieldVars, brokerVars
  <2>4. RabbitTypeOK'
    BY <1>1, <2>1, <2>2, <2>3 DEF IInv, RabbitTypeOK, ApplyState, CallerState
  <2>5. ConsumersLive' /\ OneConnection'
    BY <2>1 DEF IInv, ConsumersLive, OneConnection
  <2>6. StagesFit'
    BY SMTT(30), <1>1, <2>1, <2>2, <2>3, AttemptAssumption DEF IInv, StagesFit, Appliers
  <2>7. Served'
    <3>1. \A s \in Records : IsServed(s) => IsServed(s)'
      BY <1>1, <2>2, <2>3 DEF IsServed, ConsumersOf
    <3>2. IsServed(r)'
      BY <1>1, <2>2 DEF IsServed
    <3>3. recorded \subseteq Records /\ applied \subseteq recorded
      BY DEF IInv, RabbitTypeOK
    <3> QED BY <1>1, <2>1, <3>1, <3>2, <3>3 DEF IInv, Served, Usable
  <2> QED BY <2>2, <2>4, <2>5, <2>6, <2>7 DEF IInv
<1>3. CASE ~Connected
  <2>1. /\ CallAt(r, "wait", None) /\ UNCHANGED <<apply, crossed>>
        /\ \/ attempt' = attempt /\ applied' = applied /\ attempt # "none"
           \/ attempt = "none" /\ attempt' = "connect" /\ applied' = {}
    BY <1>3 DEF Subscribe, EnsureConnected
  <2>2. /\ caller' \in [Records \cup Publishes -> CallerState]
        /\ \A s \in Records : caller'[s] = IF s = r THEN [at |-> "wait", on |-> None]
                                           ELSE caller[s]
    <3>1. /\ CallAt(r, "wait", None) /\ "wait" \in Call
          /\ r \in Records \cup Publishes /\ None \in Channels \cup {None}
      BY <2>1 DEF Call
    <3>2. \A y \in Records \cup Publishes :
              caller'[y] = IF y = r THEN [at |-> "wait", on |-> None] ELSE caller[y]
      BY <3>1, CallFacts
    <3>3. caller' \in [Records \cup Publishes -> CallerState]
      BY <3>1, CallFacts
    <3> QED BY <3>2, <3>3
  <2> USE DEF Subscribe, fieldVars, brokerVars
  <2>3. RabbitTypeOK'
    BY <1>1, <2>1, <2>2 DEF IInv, RabbitTypeOK, AttemptStage, CallerState
  <2>4. ConsumersLive'
    BY DEF IInv, ConsumersLive
  <2>5. StagesFit'
    BY <1>1, <2>1, <2>2 DEF IInv, StagesFit
  <2>6. OneConnection'
    BY <1>3, <2>1 DEF IInv, OneConnection, Connected, RabbitTypeOK, Connections, None
  <2>7. OneAtOnce' /\ TagKnows'
    BY <2>1, QuietTag
  <2>8. Served'
    <3>1. \A s \in Records : IsServed(s) => IsServed(s)'
      BY <2>1, <2>2 DEF IsServed, ConsumersOf
    <3>2. applied \subseteq Records
      BY DEF IInv, RabbitTypeOK
    <3> QED BY <2>1, <3>1, <3>2 DEF IInv, Served, Usable
  <2> QED BY <2>3, <2>4, <2>5, <2>6, <2>7, <2>8 DEF IInv
<1> QED BY <1>2, <1>3

LEMMA WakeInv ==
    ASSUME IInv, NEW x \in Records \cup Publishes, Wake(x)
    PROVE  IInv'
<1>1. CASE ch = None
  <2>1. CallAt(x, "failed", None) /\ UNCHANGED <<apply, crossed>>
    BY <1>1 DEF Wake
  <2> QED BY <1>1, <2>1, CallerInv DEF Wake, Call, applyVars
<1>2. CASE ch # None /\ x \in Publishes
  <2>1. CallAt(x, "assert", ch) /\ UNCHANGED <<apply, crossed>> /\ ch \in Channels /\ x \notin Records
    BY <1>2, CallersAreDistinct DEF Wake, IInv, RabbitTypeOK, Channels
  <2> QED BY <2>1, CallerInv DEF Wake, Call, applyVars
<1>3. CASE ch # None /\ x \in Records
  <2>1. /\ CallAt(x, "apply", None) /\ StartApply(x, x) /\ ch \in Channels
        /\ attempt = "none"
    BY <1>3, CallersAreDistinct DEF Wake, IInv, RabbitTypeOK, Channels
  <2>2. /\ apply[x].at = "idle" /\ apply[x].rec = {} /\ x \in Appliers /\ x \in recorded
    BY <1>3 DEF IInv, StagesFit, Wake, Appliers
  <2>3. /\ apply' \in [Appliers -> ApplyState(recorded)]
        /\ \A b \in Appliers :
               apply'[b] = IF b = x THEN [at |-> "queue", on |-> ch, rec |-> {x}] ELSE apply[b]
        /\ crossed' \subseteq Records /\ OneAtOnce' /\ TagKnows'
    <3>1. recorded \cup {x} = recorded
      BY <2>2
    <3> QED BY <1>3, <2>1, <2>2, <3>1, StartFacts DEF Wake, brokerVars
  <2>4. /\ caller' \in [Records \cup Publishes -> CallerState]
        /\ \A s \in Records : caller'[s] = IF s = x THEN [at |-> "apply", on |-> None]
                                           ELSE caller[s]
    BY <1>3, <2>1, CallFacts DEF Call
  <2> USE DEF Wake, fieldVars, brokerVars
  <2>5. RabbitTypeOK'
    BY <2>3, <2>4 DEF IInv, RabbitTypeOK, ApplyState, CallerState
  <2>6. ConsumersLive' /\ OneConnection'
    BY DEF IInv, ConsumersLive, OneConnection
  <2>7. StagesFit'
    BY <1>3, <2>1, <2>2, <2>3, <2>4, AttemptAssumption DEF IInv, StagesFit, Appliers
  <2>8. Served'
    <3>1. \A s \in Records \ {x} : IsServed(s) => IsServed(s)'
      BY <2>2, <2>3, <2>4 DEF IsServed, ConsumersOf
    <3>2. IsServed(x)'
      BY <2>2, <2>3 DEF IsServed
    <3>3. recorded \subseteq Records
      BY DEF IInv, RabbitTypeOK
    <3> QED BY <2>1, <3>1, <3>2, <3>3 DEF IInv, Served, Usable
  <2> QED BY <2>3, <2>5, <2>6, <2>7, <2>8 DEF IInv
<1> QED BY <1>1, <1>2, <1>3

LEMMA SendInv ==
    ASSUME IInv, NEW p \in Publishes, Send(p)
    PROVE  IInv'
<1>1. p \notin Records /\ caller[p].on \in Channels \cup {None}
    BY CallersAreDistinct, Types DEF CallerState
<1>2. \E s \in Call, on \in Channels \cup {None} : CallAt(p, s, on)
    BY <1>1 DEF Send, Call
<1> QED BY <1>1, <1>2, CallerInv DEF Send

LEMMA ConfirmInv ==
    ASSUME IInv, NEW p \in Publishes, Confirm(p)
    PROVE  IInv'
<1>1. p \notin Records
    BY CallersAreDistinct
<1>2. \E s \in Call : CallAt(p, s, None)
    BY DEF Confirm, Call
<1> QED BY <1>1, <1>2, CallerInv DEF Confirm

LEMMA ConnectInv ==
    ASSUME IInv, Connect
    PROVE  IInv'
<1>1. /\ attempt = "connect" /\ attempt' = "channel" /\ applied' = {} /\ opened \in Nat
      /\ opened' = opened + 1 /\ conn' = opened' /\ open' = open \cup {opened'}
    BY DEF Connect, IInv, RabbitTypeOK
<1> USE DEF Connect
<1>2. RabbitTypeOK'
  <2>1. /\ opened' \in 0..(MaxFaults + 1) /\ opened' \in Connections
        /\ 1..opened \subseteq 1..opened' /\ opened' \in 1..opened'
    BY <1>1, FaultsAssumption DEF Connections
  <2> QED BY <1>1, <2>1 DEF IInv, RabbitTypeOK, AttemptStage
<1>3. ConsumersLive'
    BY DEF IInv, ConsumersLive
<1>4. StagesFit'
    BY <1>1 DEF IInv, StagesFit
<1>5. OneConnection'
    BY <1>1 DEF IInv, OneConnection
<1>6. OneAtOnce' /\ TagKnows'
    BY QuietTag
<1>7. Served'
    BY <1>1 DEF Served
<1> QED BY <1>2, <1>3, <1>4, <1>5, <1>6, <1>7 DEF IInv

LEMMA CreateChannelInv ==
    ASSUME IInv, CreateChannel
    PROVE  IInv'
<1>1. CASE opened \in open
  <2>1. /\ attempt = "channel" /\ attempt' = "topology" /\ ch' = opened /\ gaveUp' = gaveUp
        /\ channel' = [channel EXCEPT ![opened] = "open"]
    BY <1>1 DEF CreateChannel
  <2>2. opened \in Connections
    BY <1>1, FaultsAssumption DEF IInv, RabbitTypeOK, Connections
  <2> USE DEF CreateChannel, applyVars
  <2>3. RabbitTypeOK'
    BY <2>1, <2>2 DEF IInv, RabbitTypeOK, AttemptStage, Channels
  <2>4. ConsumersLive'
    BY <1>1, <2>1, <2>2 DEF IInv, ConsumersLive, RabbitTypeOK, Channels, Consumer
  <2>5. StagesFit'
    BY <2>1 DEF IInv, StagesFit
  <2>6. OneConnection'
    BY <2>1 DEF IInv, OneConnection
  <2>7. OneAtOnce' /\ TagKnows'
    BY <2>1, QuietTag
  <2>8. Served'
    BY <2>1 DEF Served
  <2> QED BY <2>3, <2>4, <2>5, <2>6, <2>7, <2>8 DEF IInv
<1>2. CASE opened \notin open
  <2>1. /\ GiveUp /\ UNCHANGED <<ch, channel>>
        /\ attempt = "channel" /\ apply[Attempt].at = "idle"
    BY <1>2 DEF CreateChannel, IInv, StagesFit
  <2> QED BY <2>1, GivenUpInv DEF CreateChannel, fieldVars, brokerVars
<1> QED BY <1>1, <1>2

LEMMA AssertTopologyInv ==
    ASSUME IInv, AssertTopology
    PROVE  IInv'
<1>1. CASE Usable(ch)
  <2>1. attempt = "topology" /\ attempt' = "apply" /\ gaveUp' = gaveUp
    BY <1>1 DEF AssertTopology
  <2> USE DEF AssertTopology, fieldVars, brokerVars, applyVars
  <2>2. RabbitTypeOK'
    BY <2>1 DEF IInv, RabbitTypeOK, AttemptStage
  <2>3. ConsumersLive'
    BY DEF IInv, ConsumersLive
  <2>4. StagesFit'
    BY <2>1 DEF IInv, StagesFit
  <2>5. OneConnection'
    BY <2>1 DEF IInv, OneConnection
  <2>6. OneAtOnce' /\ TagKnows'
    BY <2>1, QuietTag
  <2>7. Served'
    BY <2>1 DEF Served, IInv, StagesFit
  <2> QED BY <2>2, <2>3, <2>4, <2>5, <2>6, <2>7 DEF IInv
<1>2. CASE ~Usable(ch)
  <2>1. GiveUp /\ attempt = "topology" /\ apply[Attempt].at = "idle"
    BY <1>2 DEF AssertTopology, IInv, StagesFit
  <2> QED BY <2>1, GivenUpInv DEF AssertTopology
<1> QED BY <1>1, <1>2

LEMMA ApplyNextInv ==
    ASSUME IInv, ApplyNext
    PROVE  IInv'
<1>1. CASE ch = None
  <2>1. GiveUp /\ UNCHANGED applyVars /\ apply[Attempt].at = "idle" /\ attempt = "apply"
    BY <1>1 DEF ApplyNext
  <2> QED BY <2>1, GivenUpInv DEF ApplyNext
<1>2. CASE ch # None
  <2>1. PICK r \in recorded \ applied : StartApply(Attempt, r) /\ applied' = applied \cup {r}
    BY <1>2 DEF ApplyNext
  <2>2. UNCHANGED <<tag, attempt, gaveUp>> /\ ch \in Channels /\ r \in Records /\ Attempt \in Appliers
    BY <1>2 DEF ApplyNext, IInv, RabbitTypeOK, Channels, Appliers
  <2>3. apply[Attempt].at = "idle" /\ apply[Attempt].rec = {} /\ attempt = "apply"
    BY <2>2 DEF IInv, StagesFit, ApplyNext
  <2>4. /\ apply' \in [Appliers -> ApplyState(recorded)]
        /\ \A b \in Appliers :
               apply'[b] = IF b = Attempt THEN [at |-> "queue", on |-> ch, rec |-> {r}]
                                          ELSE apply[b]
        /\ crossed' \subseteq Records /\ OneAtOnce' /\ TagKnows'
    <3>1. recorded \cup {r} = recorded
      OBVIOUS
    <3> QED BY <2>1, <2>2, <2>3, <3>1, StartFacts DEF ApplyNext, brokerVars
  <2> USE DEF ApplyNext, fieldVars, brokerVars
  <2>5. RabbitTypeOK'
    BY <2>1, <2>2, <2>4 DEF IInv, RabbitTypeOK, ApplyState
  <2>6. ConsumersLive' /\ OneConnection'
    BY <2>2 DEF IInv, ConsumersLive, OneConnection
  <2>7. StagesFit'
    BY <2>1, <2>2, <2>3, <2>4, AttemptAssumption DEF IInv, StagesFit, Appliers
  <2>8. Served'
    <3>1. \A s \in Records : IsServed(s) => IsServed(s)'
      BY <2>2, <2>3, <2>4 DEF IsServed, ConsumersOf
    <3>2. IsServed(r)'
      BY <2>2, <2>4 DEF IsServed
    <3>3. applied \subseteq Records
      BY DEF IInv, RabbitTypeOK
    <3> QED BY <2>1, <2>2, <2>3, <3>1, <3>2, <3>3 DEF IInv, Served, Usable
  <2> QED BY <2>4, <2>5, <2>6, <2>7, <2>8 DEF IInv
<1> QED BY <1>1, <1>2

LEMMA ConnectDoneInv ==
    ASSUME IInv, ConnectDone
    PROVE  IInv'
<1> USE DEF ConnectDone, brokerVars, applyVars
<1>1. attempt = "apply" /\ attempt' = "none" /\ applied = recorded
    OBVIOUS
<1>2. RabbitTypeOK'
    BY DEF IInv, RabbitTypeOK, AttemptStage
<1>3. ConsumersLive'
    BY DEF IInv, ConsumersLive
<1>4. StagesFit'
    BY DEF IInv, StagesFit
<1>5. OneConnection'
    BY <1>1 DEF IInv, OneConnection
<1>6. OneAtOnce' /\ TagKnows'
    BY QuietTag
<1>7. Served'
  <2>1. \A s \in Records : IsServed(s) => IsServed(s)'
    BY DEF IsServed, ConsumersOf
  <2>2. recorded \subseteq Records
    BY DEF IInv, RabbitTypeOK
  <2> QED BY <1>1, <2>1, <2>2 DEF IInv, Served, Usable
<1> QED BY <1>2, <1>3, <1>4, <1>5, <1>6, <1>7 DEF IInv

LEMMA RetryInv ==
    ASSUME IInv, Retry
    PROVE  IInv'
<1> USE DEF Retry, fieldVars, brokerVars, applyVars
<1>1. RabbitTypeOK'
    BY DEF IInv, RabbitTypeOK, AttemptStage
<1>2. ConsumersLive'
    BY DEF IInv, ConsumersLive
<1>3. StagesFit'
    BY DEF IInv, StagesFit
<1>4. OneConnection'
    BY DEF IInv, OneConnection
<1>5. OneAtOnce' /\ TagKnows'
    BY QuietTag
<1>6. Served'
    BY DEF Served
<1> QED BY <1>1, <1>2, <1>3, <1>4, <1>5, <1>6 DEF IInv

LEMMA PrepareQueueInv ==
    ASSUME IInv, NEW a \in Appliers, PrepareQueue(a)
    PROVE  IInv'
<1>1. CASE Usable(apply[a].on)
  <2>1. PICK r \in apply[a].rec :
            apply' = [apply EXCEPT ![a].at = IF tag[r] = {} THEN "consume" ELSE "cancel"]
    BY <1>1 DEF PrepareQueue
  <2>2. UNCHANGED <<attempt, caller, gaveUp>> /\ apply[a].at = "queue"
    BY <1>1 DEF PrepareQueue
  <2>3. apply[a].rec = {r} /\ r \in Records /\ apply[a].on \in Channels
    BY <2>2 DEF IInv, StagesFit, RabbitTypeOK
  <2>4. /\ apply' \in [Appliers -> ApplyState(recorded)]
        /\ \A b \in Appliers : apply'[b].on = apply[b].on /\ apply'[b].rec = apply[b].rec
        /\ \A b \in Appliers \ {a} : apply'[b] = apply[b]
        /\ apply'[a].at = IF tag[r] = {} THEN "consume" ELSE "cancel"
    BY <2>1, Types DEF ApplyState
  <2> USE DEF PrepareQueue, fieldVars, brokerVars
  <2>5. RabbitTypeOK'
    BY <2>2, <2>4 DEF IInv, RabbitTypeOK, ApplyState
  <2>6. ConsumersLive' /\ OneConnection'
    BY <2>2 DEF IInv, ConsumersLive, OneConnection
  <2>7. StagesFit'
    BY <2>2, <2>4 DEF IInv, StagesFit, Appliers
  <2>8. OneAtOnce'
    BY <2>4 DEF IInv, OneAtOnce
  <2>9. TagKnows'
    <3> SUFFICES ASSUME ~gaveUp, NEW s \in Records \ crossed
                 PROVE  /\ ConsumersOf(s) \subseteq tag[s]
                        /\ \A b \in Appliers : apply'[b].rec = {s} =>
                             /\ apply'[b].at = "cancel" =>
                                    \A c \in ConsumersOf(s) : c[1] = apply'[b].on
                             /\ apply'[b].at = "consume" => ConsumersOf(s) = {}
      BY <2>2 DEF TagKnows, ConsumersOf
    <3>1. ConsumersOf(s) \subseteq tag[s]
      BY DEF IInv, TagKnows
    <3>2. \A c \in ConsumersOf(s) : c[1] = apply[a].on
      BY <1>1, <2>3 DEF ConsumersOf, Usable, IInv, ConsumersLive, OneConnection, RabbitTypeOK,
                      Consumer
    <3>3. apply[a].rec = {s} => s = r
      BY <2>3
    <3>4. ASSUME NEW b \in Appliers \ {a}, apply'[b].rec = {s}
          PROVE  /\ apply'[b].at = "cancel" =>
                        \A c \in ConsumersOf(s) : c[1] = apply'[b].on
                 /\ apply'[b].at = "consume" => ConsumersOf(s) = {}
      BY <2>4, <3>4 DEF IInv, TagKnows
    <3> QED BY <2>4, <3>1, <3>2, <3>3, <3>4
  <2>10. Served'
    <3>1. \A s \in Records : IsServed(s) => IsServed(s)'
      BY <2>2, <2>4 DEF IsServed, ConsumersOf
    <3>2. recorded \subseteq Records /\ applied \subseteq Records
      BY DEF IInv, RabbitTypeOK
    <3> QED BY <2>2, <3>1, <3>2 DEF IInv, Served, Usable
  <2> QED BY <2>5, <2>6, <2>7, <2>8, <2>9, <2>10 DEF IInv
<1>2. CASE ~Usable(apply[a].on)
    BY <1>2, ApplyFails DEF PrepareQueue, fieldVars, brokerVars
<1> QED BY <1>1, <1>2

LEMMA CancelOldInv ==
    ASSUME IInv, NEW a \in Appliers, CancelOld(a)
    PROVE  IInv'
<1>1. PICK r \in apply[a].rec : consumers' = consumers \ {c \in tag[r] : c[1] = apply[a].on}
    BY DEF CancelOld
<1>2. apply[a].at = "cancel" /\ apply' = [apply EXCEPT ![a].at = "consume"]
    BY DEF CancelOld
<1>3. apply[a].rec = {r} /\ r \in Records /\ apply[a].on \in Channels
    BY <1>2 DEF IInv, StagesFit, RabbitTypeOK
<1>4. /\ apply' \in [Appliers -> ApplyState(recorded)]
      /\ \A b \in Appliers : apply'[b].on = apply[b].on /\ apply'[b].rec = apply[b].rec
      /\ \A b \in Appliers \ {a} : apply'[b] = apply[b]
      /\ apply'[a].at = "consume"
    BY <1>2, Types DEF ApplyState
<1> USE DEF CancelOld, fieldVars
<1>5. RabbitTypeOK'
    BY <1>1, <1>4 DEF IInv, RabbitTypeOK, ApplyState
<1>6. ConsumersLive' /\ OneConnection'
    BY <1>1 DEF IInv, ConsumersLive, OneConnection
<1>7. StagesFit'
    BY <1>2, <1>4 DEF IInv, StagesFit, Appliers
<1>8. OneAtOnce'
    BY <1>4 DEF IInv, OneAtOnce
<1>9. \A s : ConsumersOf(s)' \subseteq ConsumersOf(s)
    BY <1>1 DEF ConsumersOf
<1>10. TagKnows'
  <2> SUFFICES ASSUME ~gaveUp, NEW s \in Records \ crossed
               PROVE  /\ ConsumersOf(s)' \subseteq tag[s]
                      /\ \A b \in Appliers : apply'[b].rec = {s} =>
                           /\ apply'[b].at = "cancel" =>
                                  \A c \in ConsumersOf(s)' : c[1] = apply'[b].on
                           /\ apply'[b].at = "consume" => ConsumersOf(s)' = {}
    BY DEF TagKnows
  <2>1. ConsumersOf(s)' \subseteq tag[s]
    BY <1>9 DEF IInv, TagKnows
  <2>2. apply[a].rec = {s} => ConsumersOf(s)' = {}
    BY <1>1, <1>2, <1>3 DEF IInv, TagKnows, ConsumersOf
  <2>3. ASSUME NEW b \in Appliers \ {a}, apply'[b].rec = {s}
        PROVE  /\ apply'[b].at = "cancel" => \A c \in ConsumersOf(s)' : c[1] = apply'[b].on
               /\ apply'[b].at = "consume" => ConsumersOf(s)' = {}
    BY <1>4, <1>9, <2>3 DEF IInv, TagKnows
  <2> QED BY <1>4, <2>1, <2>2, <2>3
<1>11. Served'
  <2>1. ASSUME NEW s \in Records, IsServed(s) PROVE IsServed(s)'
    <3>1. CASE s = r /\ apply[a].on = ch
      BY <1>3, <1>4, <3>1 DEF IsServed
    <3>2. CASE s # r \/ apply[a].on # ch
      <4>1. \A c \in ConsumersOf(s) : c[1] = ch => c \in ConsumersOf(s)'
        BY <1>1, <1>3, <3>2 DEF ConsumersOf, IInv, ConsumersLive
      <4> QED BY <1>4, <2>1, <4>1 DEF IsServed
    <3> QED BY <3>1, <3>2
  <2>2. recorded \subseteq Records /\ applied \subseteq Records
    BY DEF IInv, RabbitTypeOK
  <2> QED BY <2>1, <2>2 DEF IInv, Served, Usable
<1> QED BY <1>5, <1>6, <1>7, <1>8, <1>10, <1>11 DEF IInv

LEMMA ConsumeInv ==
    ASSUME IInv, NEW a \in Appliers, Consume(a)
    PROVE  IInv'
<1>1. CASE Usable(apply[a].on)
  <2> DEFINE new(r) == <<apply[a].on, r, a>>
  <2>1. PICK r \in apply[a].rec : /\ consumers' = consumers \cup {new(r)}
                                  /\ tag' = [tag EXCEPT ![r] = {new(r)}]
    BY <1>1 DEF Consume
  <2>2. EndApply(a, "ok") /\ apply[a].at = "consume"
    BY <1>1 DEF Consume
  <2>3. apply[a].rec = {r} /\ r \in Records /\ apply[a].on \in Channels /\ new(r) \in Consumer
    BY <2>2 DEF IInv, StagesFit, RabbitTypeOK, Consumer
  <2>4. /\ apply' \in [Appliers -> ApplyState(recorded)]
        /\ \A b \in Appliers : apply'[b] = IF b = a THEN NotApplying ELSE apply[b]
        /\ caller' \in [Records \cup Publishes -> CallerState]
        /\ \A s \in Records : caller[s].at = "wait" <=> caller'[s].at = "wait"
        /\ gaveUp' \in BOOLEAN /\ (gaveUp => gaveUp') /\ attempt' \in AttemptStage
        /\ attempt' = attempt \/ attempt' = "sleep"
        /\ StagesFit' /\ OneConnection' /\ OneAtOnce'
    BY <2>2, EndFacts DEF Consume, fieldVars
  <2>5. \A s \in Records : tag'[s] = IF s = r THEN {new(r)} ELSE tag[s]
    BY <2>1 DEF IInv, RabbitTypeOK
  <2>6. new(r)[1] = apply[a].on /\ new(r)[2] = r
    OBVIOUS
  <2>7. tag' \in [Records -> {{}} \cup {{c} : c \in Consumer}] /\ consumers' \subseteq Consumer
    BY <2>1, <2>3 DEF IInv, RabbitTypeOK
  <2> HIDE DEF new
  <2> USE DEF Consume, fieldVars
  <2>8. RabbitTypeOK'
    BY <2>4, <2>7 DEF IInv, RabbitTypeOK, ApplyState, CallerState
  <2>9. ConsumersLive'
    BY <1>1, <2>1, <2>5, <2>6 DEF IInv, ConsumersLive, Usable
  <2>10. \A s : ConsumersOf(s)' = IF s = r THEN ConsumersOf(s) \cup {new(r)} ELSE ConsumersOf(s)
    BY <2>1, <2>6 DEF ConsumersOf
  <2>11. TagKnows'
    <3> SUFFICES ASSUME ~gaveUp, NEW s \in Records \ crossed
                 PROVE  /\ ConsumersOf(s)' \subseteq tag'[s]
                        /\ \A b \in Appliers : apply'[b].rec = {s} =>
                             /\ apply'[b].at = "cancel" =>
                                    \A c \in ConsumersOf(s)' : c[1] = apply'[b].on
                             /\ apply'[b].at = "consume" => ConsumersOf(s)' = {}
      BY <2>4 DEF TagKnows
    <3>1. CASE s = r
      <4>1. ConsumersOf(s) = {}
        BY <2>2, <2>3, <3>1 DEF IInv, TagKnows
      <4>2. \A b \in Appliers : apply'[b].rec # {s}
        BY SMTT(30), <2>3, <2>4, <3>1 DEF IInv, OneAtOnce, NotApplying
      <4> QED BY <2>5, <2>10, <3>1, <4>1, <4>2
    <3>2. CASE s # r
      BY <2>4, <2>5, <2>10, <3>2 DEF IInv, TagKnows, NotApplying
    <3> QED BY <3>1, <3>2
  <2>12. Served'
    <3>1. ASSUME NEW s \in Records, IsServed(s) PROVE IsServed(s)'
      <4>1. CASE s = r /\ apply[a].on = ch
        BY <2>6, <2>10, <4>1 DEF IsServed
      <4>2. CASE s # r \/ apply[a].on # ch
        BY <2>3, <2>4, <2>10, <3>1, <4>2 DEF IsServed
      <4> QED BY <4>1, <4>2
    <3>2. recorded \subseteq Records /\ applied \subseteq Records
      BY DEF IInv, RabbitTypeOK
    <3> QED BY <2>4, <3>1, <3>2 DEF IInv, Served, Usable
  <2> QED BY <2>4, <2>8, <2>9, <2>11, <2>12 DEF IInv
<1>2. CASE ~Usable(apply[a].on)
    BY <1>2, ApplyFails DEF Consume, fieldVars, brokerVars
<1> QED BY <1>1, <1>2

LEMMA ConnectFailsInv ==
    ASSUME IInv, ConnectFails
    PROVE  IInv'
<1> USE DEF ConnectFails, fieldVars, brokerVars, applyVars
<1>1. RabbitTypeOK'
    BY FaultsAssumption DEF IInv, RabbitTypeOK, AttemptStage
<1>2. ConsumersLive'
    BY DEF IInv, ConsumersLive
<1>3. StagesFit'
    BY DEF IInv, StagesFit
<1>4. OneConnection'
    BY DEF IInv, OneConnection
<1>5. OneAtOnce' /\ TagKnows'
    BY QuietTag
<1>6. Served'
    BY DEF Served
<1> QED BY <1>1, <1>2, <1>3, <1>4, <1>5, <1>6 DEF IInv

LEMMA ConnectionClosesInv ==
    ASSUME IInv, NEW c \in Connections, ConnectionCloses(c)
    PROVE  IInv'
<1> USE DEF ConnectionCloses, applyVars
<1>1. \A d \in Channels : channel'[d] = IF d = c /\ channel[d] = "open" THEN "closed" ELSE channel[d]
    BY DEF IInv, RabbitTypeOK
<1>2. RabbitTypeOK'
  <2>1. channel' \in [Channels -> {"none", "open", "closed"}]
    BY DEF IInv, RabbitTypeOK
  <2> QED BY <2>1, FaultsAssumption DEF IInv, RabbitTypeOK
<1>3. ConsumersLive'
    BY <1>1 DEF IInv, ConsumersLive, RabbitTypeOK, Consumer
<1>4. StagesFit'
    BY DEF IInv, StagesFit
<1>5. OneConnection'
    BY DEF IInv, OneConnection
<1>6. OneAtOnce'
    BY DEF IInv, OneAtOnce
<1>7. TagKnows'
  <2>1. \A s : ConsumersOf(s)' \subseteq ConsumersOf(s)
    BY DEF ConsumersOf
  <2> QED BY <2>1 DEF IInv, TagKnows
<1>8. Served'
    BY DEF Served, Usable
<1> QED BY <1>2, <1>3, <1>4, <1>5, <1>6, <1>7, <1>8 DEF IInv

LEMMA ChannelClosesInv ==
    ASSUME IInv, NEW c \in Connections, ChannelCloses(c)
    PROVE  IInv'
<1> USE DEF ChannelCloses, fieldVars, applyVars
<1>1. \A d \in Channels : channel'[d] = IF d = c THEN "closed" ELSE channel[d]
    BY DEF IInv, RabbitTypeOK
<1>2. RabbitTypeOK'
  <2>1. channel' \in [Channels -> {"none", "open", "closed"}]
    BY DEF IInv, RabbitTypeOK
  <2> QED BY <2>1, FaultsAssumption DEF IInv, RabbitTypeOK
<1>3. ConsumersLive'
    BY <1>1 DEF IInv, ConsumersLive, RabbitTypeOK, Consumer
<1>4. StagesFit'
    BY DEF IInv, StagesFit
<1>5. OneConnection'
    BY DEF IInv, OneConnection
<1>6. OneAtOnce'
    BY DEF IInv, OneAtOnce
<1>7. TagKnows'
  <2>1. \A s : ConsumersOf(s)' \subseteq ConsumersOf(s)
    BY DEF ConsumersOf
  <2> QED BY <2>1 DEF IInv, TagKnows
<1>8. Served'
  <2>1. ASSUME Usable(ch)' PROVE ch # c /\ Usable(ch)
    BY <1>1, <2>1 DEF Usable, IInv, RabbitTypeOK, Channels
  <2>2. ch # c => \A s \in Records : IsServed(s) => IsServed(s)'
    BY DEF IsServed, ConsumersOf
  <2>3. recorded \subseteq Records /\ applied \subseteq Records
    BY DEF IInv, RabbitTypeOK
  <2> QED BY <2>1, <2>2, <2>3 DEF IInv, Served
<1> QED BY <1>2, <1>3, <1>4, <1>5, <1>6, <1>7, <1>8 DEF IInv

LEMMA StepInv == IInv /\ [RabbitNext]_rabbitVars => IInv'
<1> SUFFICES ASSUME IInv, [RabbitNext]_rabbitVars PROVE IInv'
    OBVIOUS
<1>1. ASSUME NEW p \in Publishes, Publish(p) \/ PublishStep(p) PROVE IInv'
    BY <1>1, PublishInv, WakeInv, SendInv, ConfirmInv DEF PublishStep
<1>2. ASSUME NEW r \in Records, Subscribe(r) \/ Wake(r) PROVE IInv'
    BY <1>2, SubscribeInv, WakeInv
<1>3. ASSUME AttemptStep PROVE IInv'
    BY <1>3, ConnectInv, CreateChannelInv, AssertTopologyInv, ApplyNextInv, ConnectDoneInv, RetryInv
    DEF AttemptStep
<1>4. ASSUME NEW a \in Appliers, ApplyStep(a) PROVE IInv'
    BY <1>4, PrepareQueueInv, CancelOldInv, ConsumeInv DEF ApplyStep
<1>5. ASSUME NEW c \in Connections, ConnectionCloses(c) \/ ChannelCloses(c) PROVE IInv'
    BY <1>5, ConnectionClosesInv, ChannelClosesInv
<1> QED BY <1>1, <1>2, <1>3, <1>4, <1>5, ConnectFailsInv, StutterInv DEF RabbitNext

\* The inductive invariant holds whatever the callers and the broker do.
THEOREM Invariance == RabbitSpec => []IInv
    BY InitInv, StepInv, PTL DEF RabbitSpec

\* Fields, channels, consumers and callers keep their types, and what is being applied
\* was recorded.
THEOREM TypeCorrect == RabbitSpec => []RabbitTypeOK
<1>1. IInv => RabbitTypeOK
    BY DEF IInv
<1> QED BY <1>1, Invariance, PTL

LEMMA OneConsumerHolds == IInv => OneConsumer
<1> SUFFICES ASSUME IInv, NEW r \in Records, r \notin crossed, ~gaveUp
             PROVE  Cardinality(ConsumersOf(r)) <= 1
    BY DEF OneConsumer
<1>1. ConsumersOf(r) \subseteq tag[r]
    BY DEF IInv, TagKnows
<1>2. tag[r] = {} \/ \E c \in Consumer : tag[r] = {c}
    BY DEF IInv, RabbitTypeOK
<1>3. CASE ConsumersOf(r) = {}
    BY <1>3, FS_EmptySet
<1>4. CASE ConsumersOf(r) # {}
  <2>1. PICK c \in Consumer : tag[r] = {c}
    BY <1>1, <1>2, <1>4
  <2>2. ConsumersOf(r) = {c}
    BY <1>1, <1>4, <2>1
  <2>3. Cardinality({c}) = 1
    BY FS_Singleton
  <2> QED BY <2>2, <2>3
<1> QED BY <1>3, <1>4

LEMMA InvariantServes == IInv => SubscriptionsAreServed
<1>1. IInv => OpenChannelConsumes
  <2> SUFFICES ASSUME IInv, Connected, Usable(ch), attempt = "none", NEW r \in recorded
               PROVE  Applying(r) \/ \E c \in ConsumersOf(r) : c[1] = ch
    BY DEF OpenChannelConsumes
  <2> QED BY DEF IInv, Served, IsServed, Applying
<1> QED BY <1>1, OneConsumerHolds DEF SubscriptionsAreServed

\* RabbitService: a process that could publish also consumes, and no subscription has two
\* consumers, except after subscribe and an attempt applied it at once, or an attempt was
\* given up on an open connection.
THEOREM SubscriptionsServed == RabbitSpec => []SubscriptionsAreServed
    BY InvariantServes, Invariance, PTL

-----------------------------------------------------------------------------
(* Together with the requests *)

\* The composition that the run checks keeps both, whichever part it is of.
THEOREM RequestsServed == RequestsSpec => [](RabbitTypeOK /\ SubscriptionsAreServed)
<1>1. RequestsInit => Unconnected /\ attempt \in {"none", "connect"}
    BY DEF RequestsInit, RabbitInit
<1>2. [RequestsNext]_requestVars => [RabbitNext]_rabbitVars
    BY DEF RequestsNext, requestVars
<1>3. IInv => RabbitTypeOK /\ SubscriptionsAreServed
    BY InvariantServes DEF IInv
<1> QED BY <1>1, <1>2, <1>3, UnconnectedInv, StepInv, PTL DEF RequestsSpec
=============================================================================
