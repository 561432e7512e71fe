-------------------------- MODULE ChatIntakeProofs --------------------------
(***************************************************************************)
(* Proofs about the intake of chat messages, for any number of updates,    *)
(* deliveries, replies and conversations, and in every deployment.         *)
(***************************************************************************)
EXTENDS ChatIntake, SequenceTheorems, TLAPS

-----------------------------------------------------------------------------
(* Conversations *)

LEMMA AppendElements ==
    ASSUME NEW S, NEW s \in Seq(S), NEW x \in S
    PROVE  /\ Append(s, x) \in Seq(S)
           /\ Append(s, x) # << >>
           /\ Len(s) \in Nat /\ DOMAIN s = 1..Len(s)
           /\ Len(Append(s, x)) = Len(s) + 1
           /\ DOMAIN Append(s, x) = 1..(Len(s) + 1)
           /\ \A i \in 1..Len(s) : Append(s, x)[i] = s[i]
           /\ Append(s, x)[Len(s) + 1] = x
<1>1. Len(Append(s, x)) = Len(s) + 1 /\ Len(s) \in Nat
    OBVIOUS
<1>2. DOMAIN Append(s, x) = 1..(Len(s) + 1) /\ DOMAIN s = 1..Len(s)
    BY <1>1
<1>3. \A i \in 1..Len(s) : Append(s, x)[i] = s[i]
    OBVIOUS
<1> QED BY <1>1, <1>2, <1>3

LEMMA SourceType == \A d \in Deliveries : MessageOf[d] \in Messages /\ Source(d) \in Sources
    BY DEF Messages, Sources, Source

LEMMA ChatType == \A w \in Writers : ChatOf[w] \in Chats
    BY DEF Chats

LEMMA OwnType == \A w \in Writers : Own(w) \in Entry /\ (w \in Deliveries => Own(w).role = "customer")
                                    /\ (w \in Replies => Own(w).role # "customer")
    BY WritersAssumption DEF Own, Entry, Role, Writers

LEMMA BotAnswerType == \A d \in Deliveries : BotAnswer(d) \in Entry
    BY DEF BotAnswer, Entry, Role, Writers

\* What a message at the end of conversation c changes.
LEMMA LogGrows ==
    ASSUME TypeOK, NEW c \in Chats, NEW x \in Entry,
           log' = [log EXCEPT ![c] = Append(log[c], x)]
    PROVE  /\ log' \in [Chats -> Seq(Entry)]
           /\ Stored' = Stored \cup {x}
           /\ \A b \in Chats \ {c} : log'[b] = log[b]
           /\ log'[c] = Append(log[c], x)
<1>1. log \in [Chats -> Seq(Entry)] /\ log[c] \in Seq(Entry)
    BY DEF TypeOK
<1>2. log' \in [Chats -> Seq(Entry)] /\ log'[c] = Append(log[c], x)
      /\ \A b \in Chats \ {c} : log'[b] = log[b]
    BY <1>1, AppendElements
<1>3. ASSUME NEW b \in Chats
      PROVE  {log'[b][i] : i \in DOMAIN log'[b]}
                 = {log[b][i] : i \in DOMAIN log[b]} \cup (IF b = c THEN {x} ELSE {})
  <2>1. CASE b # c
    BY <1>2, <2>1
  <2>2. CASE b = c
    <3>1. DOMAIN log'[b] = 1..(Len(log[c]) + 1) /\ DOMAIN log[b] = 1..Len(log[c])
      BY <1>1, <1>2, <2>2, AppendElements
    <3>2. 1..(Len(log[c]) + 1) = (1..Len(log[c])) \cup {Len(log[c]) + 1}
      BY <1>1, AppendElements
    <3>3. \A i \in 1..Len(log[c]) : log'[b][i] = log[b][i]
      BY <1>1, <1>2, <2>2, AppendElements
    <3>4. log'[b][Len(log[c]) + 1] = x
      BY <1>1, <1>2, <2>2, AppendElements
    <3> QED BY <2>2, <3>1, <3>2, <3>3, <3>4
  <2> QED BY <2>1, <2>2
<1>4. Stored' = Stored \cup {x}
    BY <1>3 DEF Stored
<1> QED BY <1>2, <1>4
-----------------------------------------------------------------------------
(* The inductive invariant *)

\* Stages before the key of an update, and of a source, is set.
AtUpdateGuard == {"none", "checkUpdate", "setUpdate"}
AtGuards == AtUpdateGuard \cup {"checkSource", "setSource"}
Routing == {"route", "answer", "emit", "send", "forward"}

\* A reply has neither guards nor routing; only a transaction is committed; n8n is
\* called only for a customer who was last to write.
StageFits ==
    /\ \A r \in Replies : stage[r] \in {"none", "find", "append", "enqueue", "done"}
    /\ \A d \in Deliveries : /\ stage[d] = "commit" => mode.tx
                             /\ stage[d] = "forward" => view[d] = "customer"

\* A message shows once it is written, in a transaction once that is committed.
NotYetStored ==
    \A w \in Writers :
        \/ stage[w] \in AtGuards \cup {"find", "append"}
        \/ InTx(w) /\ stage[w] \in {"reread", "enqueue", "commit"}
        => Own(w) \notin Stored

AlreadyStored ==
    /\ \A w \in Writers :
          \/ ~InTx(w) /\ stage[w] \in {"reread", "enqueue"}
          \/ stage[w] \in Routing
          => Own(w) \in Stored
    /\ \A d \in Deliveries : stage[d] \in {"emit", "send"} => BotAnswer(d) \in Stored

\* d has set the key of its update, of its source, and may yet store its message or
\* has done so.
PastUpdate(d) == stage[d] \notin AtUpdateGuard \cup {"done"} \/ Own(d) \in Stored
PastSource(d) == stage[d] \notin AtGuards \cup {"done"} \/ Own(d) \in Stored

\* A key stays set unless it expires, and is set a second time only by a race.
KeysAreAccounted ==
    /\ \A d \in Deliveries : PastUpdate(d) =>
          MessageOf[d] \in updateKeys \/ <<"update", MessageOf[d]>> \in again
    /\ \A d, e \in Deliveries :
          d # e /\ MessageOf[d] = MessageOf[e] /\ PastUpdate(d) /\ PastUpdate(e)
              => <<"update", MessageOf[d]>> \in again
    /\ \A d \in Deliveries : PastSource(d) =>
          Source(d) \in sourceKeys \/ <<"source", Source(d)>> \in again
    /\ \A d, e \in Deliveries :
          d # e /\ Source(d) = Source(e) /\ PastSource(d) /\ PastSource(e)
              => <<"source", Source(d)>> \in again

\* e keeps the key of its update, of its source, from others, and accounts for it.
HoldsUpdate(e) == stage[e] \notin AtUpdateGuard /\ (Accounts(e) \/ answer[e] = "duplicate")
HoldsSource(e) == stage[e] \notin AtGuards /\ Accounts(e)

\* Whoever finds a key, or found it, owes that to another delivery or another chat.
KeysHaveHolders ==
    /\ \A m \in updateKeys : \E e \in Deliveries : MessageOf[e] = m /\ HoldsUpdate(e)
    /\ \A s \in sourceKeys : \/ \E e \in Deliveries : Source(e) = s /\ HoldsSource(e)
                             \/ <<"other chat", s>> \in again
    /\ \A d \in Deliveries : answer[d] = "skipped" => \E e \in OthersOf(d) : HoldsUpdate(e)
    /\ \A d \in Deliveries : answer[d] = "duplicate" =>
          \/ \E e \in Deliveries \ {d} : Source(e) = Source(d) /\ HoldsSource(e)
          \/ <<"other chat", Source(d)>> \in again

\* What a transaction found is never longer than the conversation, and what it reread
\* is the end of it as long as nothing was added.
SnapshotIsBehind ==
    \A d \in Deliveries :
        LET found == Len(seen[d][1])
            now == log[ChatOf[d]]
        IN  mode.tx =>
            /\ stage[d] \in {"append", "reread", "enqueue", "commit"} => found <= Len(now)
            /\ /\ stage[d] \in {"enqueue", "commit"}
               /\ view[d] = "customer"
               /\ Len(now) = found
               => found > 0 /\ now[found].role = "customer"

\* The message of d stands right behind another customer's.
HasTheFloor(d) ==
    \A i \in DOMAIN log[ChatOf[d]] :
        log[ChatOf[d]][i] = Own(d) => i > 1 /\ log[ChatOf[d]][i - 1].role = "customer"

FloorIsKept ==
    \A d \in Deliveries :
        /\ mode.tx /\ view[d] = "customer" /\ stage[d] \in {"route", "forward"}
              => HasTheFloor(d)
        /\ d \in asked => stage[d] = "done" /\ (mode.tx => HasTheFloor(d))

IInv ==
    /\ TypeOK
    /\ StageFits
    /\ NotYetStored
    /\ AlreadyStored
    /\ EventFollowsMessage
    /\ KeysAreAccounted
    /\ KeysHaveHolders
    /\ SnapshotIsBehind
    /\ FloorIsKept

-----------------------------------------------------------------------------
(* Type correctness *)

LEMMA NoDocType == NoDoc \in Seq(Entry) \X BOOLEAN
<1>1. << >> \in Seq(Entry)
    BY EmptySeq
<1> QED BY <1>1 DEF NoDoc

LEMMA KeyType ==
    /\ \A m \in Messages : <<"update", m>> \in Keys
    /\ \A s \in Sources : <<"source", s>> \in Keys /\ <<"other chat", s>> \in Keys
    BY DEF Keys

LEMMA InitType == Init => TypeOK
<1> SUFFICES ASSUME Init PROVE TypeOK
    OBVIOUS
<1>1. NoDoc \in Seq(Entry) \X BOOLEAN
    BY NoDocType
<1>2. log \in [Chats -> Seq(Entry)]
    BY DEF Init
<1> QED BY <1>1, <1>2, BoundsAssumption DEF Init, TypeOK, Stage, Answer, View

\* What the calls share of their types.
LEMMA GotoType ==
    ASSUME TypeOK, NEW w \in Writers, NEW s \in Stage, Goto(w, s)
    PROVE  stage' \in [Writers -> Stage]
    BY DEF TypeOK, Goto

LEMMA FinishType ==
    ASSUME TypeOK, NEW d \in Deliveries, NEW a \in Answer, Finish(d, a)
    PROVE  /\ stage' \in [Writers -> Stage]
           /\ answer' \in [Deliveries -> Answer]
           /\ seen' \in [Writers -> Seq(Entry) \X BOOLEAN]
           /\ view' \in [Deliveries -> View]
<1>1. stage' \in [Writers -> Stage]
    BY DEF TypeOK, Finish, Goto, Stage, Writers
<1>2. answer' \in [Deliveries -> Answer] /\ view' \in [Deliveries -> View]
    BY DEF TypeOK, Finish, View
<1>3. seen' \in [Writers -> Seq(Entry) \X BOOLEAN]
    BY NoDocType DEF TypeOK, Finish
<1> QED BY <1>1, <1>2, <1>3

LEMMA MishapType == Mishap /\ TypeOK => mishaps' \in 0..MaxMishaps
    BY BoundsAssumption DEF TypeOK, Mishap

LEMMA StepType == TypeOK /\ StageFits /\ [Next]_vars => TypeOK'
<1> SUFFICES ASSUME TypeOK, StageFits, [Next]_vars PROVE TypeOK'
    OBVIOUS
<1> DEFINE Inputs == mode \in Modes /\ kind \in Contents
           Guards == /\ updateKeys \in SUBSET Messages
                     /\ sourceKeys \in SUBSET Sources
                     /\ again \in SUBSET Keys
           Calls == /\ stage \in [Writers -> Stage]
                    /\ answer \in [Deliveries -> Answer]
                    /\ seen \in [Writers -> Seq(Entry) \X BOOLEAN]
                    /\ view \in [Deliveries -> View]
           Talks == log \in [Chats -> Seq(Entry)] /\ handover \in [Chats -> BOOLEAN]
           Out == /\ events \in SUBSET Entry
                  /\ direct \in SUBSET Entry
                  /\ asked \in SUBSET Deliveries
           Bounds == mishaps \in 0..MaxMishaps
<1>1. Inputs /\ Guards /\ Calls /\ Talks /\ Out /\ Bounds
    BY DEF TypeOK
<1>2. Inputs' /\ Guards' /\ Calls' /\ Talks' /\ Out' /\ Bounds' => TypeOK'
    BY DEF TypeOK
<1>3. Deliveries \subseteq Writers /\ Replies \subseteq Writers
    BY DEF Writers
<1> USE <1>1, <1>2, <1>3 DEF GoesOn, inputVars, keyVars, chatVars, outVars, callVars
<1>4. ASSUME NEW d \in Deliveries, Deliver(d) PROVE TypeOK'
    BY <1>4, GotoType, FinishType, MishapType DEF Deliver, Stage
<1>5. ASSUME NEW d \in Deliveries, CheckUpdate(d) PROVE TypeOK'
    BY <1>5, GotoType, FinishType, MishapType DEF CheckUpdate, Stage, Answer
<1>6. ASSUME NEW d \in Deliveries, SetUpdate(d) PROVE TypeOK'
    BY <1>6, GotoType, FinishType, MishapType, SourceType, KeyType DEF SetUpdate, Stage
<1>7. ASSUME NEW d \in Deliveries, CheckSource(d) PROVE TypeOK'
    BY <1>7, GotoType, FinishType, MishapType DEF CheckSource, Stage, Answer
<1>8. ASSUME NEW d \in Deliveries, SetSource(d) PROVE TypeOK'
  <2>1. Guards'
    BY <1>8, SourceType, KeyType DEF SetSource
  <2>2. Calls'
    BY <1>8, GotoType, FinishType DEF SetSource, Stage, Answer
  <2>3. Inputs' /\ Talks' /\ Out' /\ Bounds'
    BY <1>8 DEF SetSource
  <2> QED BY <2>1, <2>2, <2>3
<1>9. CASE Expire
    BY <1>9, MishapType, KeyType DEF Expire
<1>10. ASSUME NEW s \in Sources, TakeSource(s) PROVE TypeOK'
    BY <1>10, MishapType, KeyType DEF TakeSource
<1>11. ASSUME NEW r \in Replies, StartReply(r) PROVE TypeOK'
    BY <1>11, GotoType, FinishType, MishapType DEF StartReply, Stage
<1>12. ASSUME NEW w \in Writers, Find(w) PROVE TypeOK'
  <2>1. Doc(ChatOf[w]) \in Seq(Entry) \X BOOLEAN
    BY ChatType DEF Doc
  <2> QED BY <1>12, <2>1, GotoType, FinishType, MishapType DEF Find, Stage
<1>13. ASSUME NEW w \in Writers, AppendMessage(w) PROVE TypeOK'
  <2>1. log' = log \/ log' = [log EXCEPT ![ChatOf[w]] = Append(log[ChatOf[w]], Own(w))]
    BY <1>13 DEF AppendMessage
  <2>2. Talks'
    BY <1>13, <2>1, ChatType, OwnType, LogGrows DEF AppendMessage
  <2>3. stage' \in [Writers -> Stage]
    BY <1>13, GotoType DEF AppendMessage, Stage
  <2>4. answer' \in [Deliveries -> Answer]
    BY <1>13 DEF AppendMessage, Answer
  <2>5. seen' \in [Writers -> Seq(Entry) \X BOOLEAN] /\ view' = view
    BY <1>13, NoDocType DEF AppendMessage
  <2> QED BY <1>13, <2>2, <2>3, <2>4, <2>5 DEF AppendMessage
<1>14. ASSUME NEW d \in Deliveries, Reread(d) PROVE TypeOK'
  <2>1. ASSUME log[ChatOf[d]] # << >>
        PROVE  log[ChatOf[d]][Len(log[ChatOf[d]])].role \in Role
    <3>1. log[ChatOf[d]] \in Seq(Entry)
      BY ChatType
    <3>2. log[ChatOf[d]][Len(log[ChatOf[d]])] \in Entry
      BY <2>1, <3>1
    <3> QED BY <3>2 DEF Entry
  <2>2. view' \in [Deliveries -> View]
    BY <1>14, <2>1 DEF Reread, View, Role
  <2> QED BY <1>14, <2>2, GotoType, FinishType, MishapType DEF Reread, Stage
<1>15. ASSUME NEW w \in Writers, Enqueue(w) PROVE TypeOK'
    BY <1>15, GotoType, FinishType, MishapType, OwnType DEF Enqueue, Stage
<1>16. ASSUME NEW d \in Deliveries, Commit(d) PROVE TypeOK'
  <2>1. Apply(d, log[ChatOf[d]]) \/ Again(d, "find")
    BY <1>16 DEF Commit
  <2>2. CASE Apply(d, log[ChatOf[d]])
    <3>1. Talks' /\ Out'
      BY <1>16, <2>2, ChatType, OwnType, LogGrows DEF Commit, CommitFrame, Apply
    <3>2. CASE Finish(d, "ok")
      BY <1>16, <2>2, <3>1, <3>2, FinishType DEF Commit, CommitFrame, Answer
    <3>3. CASE Goto(d, "route") /\ seen' = [seen EXCEPT ![d] = NoDoc] /\ UNCHANGED <<answer, view>>
      BY <1>16, <2>2, <3>1, <3>3, GotoType, NoDocType DEF Commit, CommitFrame, Stage
    <3> QED BY <2>2, <3>2, <3>3 DEF Apply
  <2>3. CASE Again(d, "find")
    <3>1. Calls'
      BY <2>3, GotoType, FinishType, MishapType DEF Again, Stage, View
    <3> QED BY <1>16, <2>3, <3>1 DEF Commit, CommitFrame, Again
  <2> QED BY <2>1, <2>2, <2>3
<1>17. ASSUME NEW d \in Deliveries, Route(d) PROVE TypeOK'
  <2>1. Calls'
    BY <1>17, GotoType, FinishType, MishapType DEF Route, Stage, Answer
  <2> QED BY <1>17, <2>1 DEF Route
<1>18. ASSUME NEW d \in Deliveries, AppendAnswer(d) PROVE TypeOK'
  <2>1. Talks'
    BY <1>18, ChatType, BotAnswerType, LogGrows DEF AppendAnswer
  <2> QED BY <1>18, <2>1, GotoType, FinishType, MishapType DEF AppendAnswer, Stage
<1>19. ASSUME NEW d \in Deliveries, EmitAnswer(d) PROVE TypeOK'
    BY <1>19, GotoType, FinishType, MishapType, BotAnswerType DEF EmitAnswer, Stage, Answer
<1>20. ASSUME NEW d \in Deliveries, SendAnswer(d) PROVE TypeOK'
    BY <1>20, GotoType, FinishType, MishapType, BotAnswerType DEF SendAnswer, Stage, Answer
<1>21. ASSUME NEW d \in Deliveries, Forward(d) PROVE TypeOK'
    BY <1>21, GotoType, FinishType, MishapType DEF Forward, Stage, Answer
<1>22. ASSUME NEW w \in Writers, Fail(w) PROVE TypeOK'
  <2>1. stage' \in [Writers -> Stage]
    BY <1>22, GotoType DEF Fail, Finish, Stage
  <2>2. answer' \in [Deliveries -> Answer] /\ view' \in [Deliveries -> View]
    BY <1>22, FinishType DEF Fail, Answer
  <2>3. seen' = [seen EXCEPT ![w] = NoDoc]
    BY <1>22 DEF Fail, Finish
  <2>4. asked' = asked \/ (stage[w] = "forward" /\ asked' = asked \cup {w})
    BY <1>22 DEF Fail
  <2>5. asked' \in SUBSET Deliveries
    BY <2>4 DEF StageFits, Writers
  <2> QED BY <1>22, <2>1, <2>2, <2>3, <2>5, NoDocType, MishapType DEF Fail
<1>23. ASSUME NEW c \in Chats, SetHandover(c) PROVE TypeOK'
    BY <1>23, GotoType, FinishType, MishapType DEF SetHandover
<1>24. CASE UNCHANGED vars
    BY <1>24 DEF vars
<1> QED
    BY <1>4, <1>5, <1>6, <1>7, <1>8, <1>9, <1>10, <1>11, <1>12, <1>13, <1>14, <1>15, <1>16,
       <1>17, <1>18, <1>19, <1>20, <1>21, <1>22, <1>23, <1>24
    DEF Next, DeliveryStep, StoreStep

-----------------------------------------------------------------------------
(* The invariant is inductive *)

\* What a step may do that writes into no conversation, seen from one call.
Stays(w) ==
    /\ stage'[w] = stage[w] /\ seen'[w] = seen[w]
    /\ w \in Deliveries => answer'[w] = answer[w] /\ view'[w] = view[w]

ReplyMove(r) ==
    \/ Stays(r)
    \/ stage[r] = "none" /\ stage'[r] = "find"
    \/ stage[r] = "find" /\ stage'[r] = "append"
    \/ stage[r] # "none" /\ stage'[r] = "done"

From(d, s, t) == stage[d] = s /\ stage'[d] = t /\ answer'[d] = answer[d]

DeliveryMove(d) ==
    \/ Stays(d)
    \/ From(d, "none", "checkUpdate")
    \/ From(d, "checkUpdate", "setUpdate")
    \/ From(d, "setUpdate", "checkSource")
    \/ From(d, "checkSource", "setSource")
    \/ From(d, "setSource", "find")
    \/ From(d, "find", "append") /\ seen'[d] = Doc(ChatOf[d])
    \/ From(d, "append", "reread") /\ mode.tx /\ seen'[d] = seen[d]
    \/ /\ From(d, "reread", "enqueue")
       /\ seen'[d] = seen[d]
       /\ view'[d] = "customer" =>
             /\ log[ChatOf[d]] # << >>
             /\ log[ChatOf[d]][Len(log[ChatOf[d]])].role = "customer"
    \/ From(d, "enqueue", "commit") /\ mode.tx /\ seen'[d] = seen[d] /\ view'[d] = view[d]
    \/ From(d, "enqueue", "route") /\ ~mode.tx
    \/ From(d, "commit", "find")
    \/ From(d, "route", "answer")
    \/ From(d, "route", "forward") /\ view'[d] = view[d] /\ view[d] = "customer"
    \/ From(d, "emit", "send")
    \/ /\ stage[d] \notin {"none", "done"}
       /\ stage'[d] = "done"
       /\ \/ answer'[d] = "skipped" /\ stage[d] = "checkUpdate" /\ MessageOf[d] \in updateKeys
          \/ answer'[d] = "duplicate" /\ stage[d] = "checkSource" /\ Source(d) \in sourceKeys
          \/ answer'[d] = "failed"
          \/ answer'[d] \notin {"skipped", "duplicate"} /\ stage[d] \in Routing

\* d sets the key of its update, of its source, in this step.
SetsUpdate(d) == stage[d] = "setUpdate" /\ stage'[d] = "checkSource"
SetsSource(d) == stage[d] = "setSource" /\ stage'[d] = "find"

KeysMove ==
    /\ again \subseteq again'
    /\ \A m \in updateKeys \ updateKeys' : <<"update", m>> \in again'
    /\ \A m \in updateKeys' \ updateKeys : \E d \in Deliveries : MessageOf[d] = m /\ SetsUpdate(d)
    /\ \A d \in Deliveries : SetsUpdate(d) =>
          /\ MessageOf[d] \in updateKeys'
          /\ MessageOf[d] \in updateKeys => <<"update", MessageOf[d]>> \in again'
    /\ \A d, e \in Deliveries : SetsUpdate(d) /\ SetsUpdate(e) => d = e
    /\ \A s \in sourceKeys \ sourceKeys' : <<"source", s>> \in again'
    /\ \A s \in sourceKeys' \ sourceKeys :
          \/ <<"other chat", s>> \in again'
          \/ \E d \in Deliveries : /\ Source(d) = s
                                   /\ \/ SetsSource(d)
                                      \/ answer'[d] = "failed" /\ stage'[d] = "done"
    /\ \A d \in Deliveries : SetsSource(d) =>
          /\ Source(d) \in sourceKeys'
          /\ Source(d) \in sourceKeys => <<"source", Source(d)>> \in again'
    /\ \A d, e \in Deliveries : SetsSource(d) /\ SetsSource(e) => d = e

QuietStep ==
    /\ UNCHANGED <<mode, log>>
    /\ \A r \in Replies : ReplyMove(r)
    /\ \A d \in Deliveries : DeliveryMove(d)
    /\ KeysMove
    /\ events \subseteq events'
    /\ events' \cup direct' \subseteq events \cup direct \cup Stored
    /\ \A d \in asked' \ asked : stage[d] = "forward" /\ stage'[d] = "done"

LEMMA SameTalks ==
    ASSUME UNCHANGED log
    PROVE  /\ Stored' = Stored
           /\ \A d \in Deliveries : HasTheFloor(d)' = HasTheFloor(d)
           /\ \A w \in Writers : Own(w)' = Own(w)
           /\ \A d \in Deliveries : BotAnswer(d)' = BotAnswer(d)
    BY DEF Stored, HasTheFloor, Own, BotAnswer

LEMMA HoldersMove ==
    ASSUME Stored \subseteq Stored',
           \A e \in Deliveries :
               \/ stage'[e] = stage[e] /\ answer'[e] = answer[e]
               \/ stage[e] \in AtUpdateGuard
               \/ stage[e] \in AtGuards /\ stage'[e] \notin AtUpdateGuard \cup {"done"}
               \/ stage[e] \in AtGuards /\ stage'[e] = "done" /\ answer'[e] = "duplicate"
               \/ stage'[e] \notin AtGuards \cup {"done"}
               \/ stage'[e] = "done" /\ (Own(e) \in Stored' \/ answer'[e] = "failed")
    PROVE  /\ \A e \in Deliveries : HoldsUpdate(e) => HoldsUpdate(e)'
           /\ \A e \in Deliveries : HoldsSource(e) => HoldsSource(e)'
<1> SUFFICES ASSUME NEW e \in Deliveries
             PROVE  (HoldsUpdate(e) => HoldsUpdate(e)') /\ (HoldsSource(e) => HoldsSource(e)')
    OBVIOUS
<1>1. Own(e)' = Own(e)
    BY DEF Own
<1> QED BY <1>1 DEF HoldsUpdate, HoldsSource, Accounts, AtGuards, AtUpdateGuard

\* A holder stays one, and whoever finds a key is none.
LEMMA HoldersStay ==
    ASSUME KeysHaveHolders,
           \A e \in Deliveries : HoldsUpdate(e) => HoldsUpdate(e)',
           \A e \in Deliveries : HoldsSource(e) => HoldsSource(e)',
           again \subseteq again',
           \A m \in updateKeys' \ updateKeys :
               \E e \in Deliveries : MessageOf[e] = m /\ HoldsUpdate(e)',
           \A s \in sourceKeys' \ sourceKeys :
               \/ \E e \in Deliveries : Source(e) = s /\ HoldsSource(e)'
               \/ <<"other chat", s>> \in again',
           \A d \in Deliveries : answer'[d] = "skipped" =>
               answer[d] = "skipped" \/ (MessageOf[d] \in updateKeys /\ ~HoldsUpdate(d)),
           \A d \in Deliveries : answer'[d] = "duplicate" =>
               answer[d] = "duplicate" \/ (Source(d) \in sourceKeys /\ ~HoldsSource(d))
    PROVE  KeysHaveHolders'
<1>1. \A m \in updateKeys : \E e \in Deliveries : MessageOf[e] = m /\ HoldsUpdate(e)
    BY DEF KeysHaveHolders
<1>2. \A s \in sourceKeys : \/ \E e \in Deliveries : Source(e) = s /\ HoldsSource(e)
                            \/ <<"other chat", s>> \in again
    BY DEF KeysHaveHolders
<1>3. \A m \in updateKeys' : \E e \in Deliveries : MessageOf[e] = m /\ HoldsUpdate(e)'
    BY <1>1
<1>4. \A s \in sourceKeys' : \/ \E e \in Deliveries : Source(e) = s /\ HoldsSource(e)'
                             \/ <<"other chat", s>> \in again'
    BY <1>2
<1>5. ASSUME NEW d \in Deliveries, answer'[d] = "skipped"
      PROVE  \E e \in OthersOf(d) : HoldsUpdate(e)'
  <2>1. \E e \in OthersOf(d) : HoldsUpdate(e)
    BY <1>1, <1>5 DEF KeysHaveHolders, OthersOf
  <2> QED BY <2>1 DEF OthersOf
<1>6. ASSUME NEW d \in Deliveries, answer'[d] = "duplicate"
      PROVE  \/ \E e \in Deliveries \ {d} : Source(e) = Source(d) /\ HoldsSource(e)'
             \/ <<"other chat", Source(d)>> \in again'
  <2>1. \/ \E e \in Deliveries \ {d} : Source(e) = Source(d) /\ HoldsSource(e)
        \/ <<"other chat", Source(d)>> \in again
    BY <1>2, <1>6 DEF KeysHaveHolders
  <2> QED BY <2>1
<1> QED BY <1>3, <1>4, <1>5, <1>6 DEF KeysHaveHolders, Source, OthersOf

LEMMA KeysStayAccounted ==
    ASSUME KeysAreAccounted, KeysMove,
           \A d \in Deliveries : PastUpdate(d)' => PastUpdate(d) \/ SetsUpdate(d),
           \A d \in Deliveries : PastSource(d)' => PastSource(d) \/ SetsSource(d)
    PROVE  KeysAreAccounted'
<1>1. /\ again \subseteq again'
      /\ \A m \in updateKeys : m \in updateKeys' \/ <<"update", m>> \in again'
      /\ \A s \in sourceKeys : s \in sourceKeys' \/ <<"source", s>> \in again'
    BY DEF KeysMove
<1>2. ASSUME NEW d \in Deliveries, PastUpdate(d)'
      PROVE  MessageOf[d] \in updateKeys' \/ <<"update", MessageOf[d]>> \in again'
  <2>1. CASE PastUpdate(d)
    <3>1. MessageOf[d] \in updateKeys \/ <<"update", MessageOf[d]>> \in again
      BY <2>1 DEF KeysAreAccounted
    <3> QED BY <1>1, <3>1
  <2>2. CASE SetsUpdate(d)
    BY <2>2 DEF KeysMove
  <2> QED BY <1>2, <2>1, <2>2
<1>3. ASSUME NEW d \in Deliveries, NEW e \in Deliveries, d # e, MessageOf[d] = MessageOf[e],
             PastUpdate(d)', PastUpdate(e)'
      PROVE  <<"update", MessageOf[d]>> \in again'
  <2>1. ASSUME NEW f \in Deliveries, NEW g \in Deliveries, f # g,
               MessageOf[f] = MessageOf[g], SetsUpdate(f), PastUpdate(g)
        PROVE  <<"update", MessageOf[f]>> \in again'
    <3>1. MessageOf[f] \in updateKeys \/ <<"update", MessageOf[f]>> \in again
      BY <2>1 DEF KeysAreAccounted
    <3>2. MessageOf[f] \in updateKeys => <<"update", MessageOf[f]>> \in again'
      BY <2>1 DEF KeysMove
    <3> QED BY <1>1, <3>1, <3>2
  <2>2. CASE PastUpdate(d) /\ PastUpdate(e)
    <3>1. <<"update", MessageOf[d]>> \in again
      BY <1>3, <2>2 DEF KeysAreAccounted
    <3> QED BY <1>1, <3>1
  <2>3. ~(SetsUpdate(d) /\ SetsUpdate(e))
    BY <1>3 DEF KeysMove
  <2> QED BY <1>3, <2>1, <2>2, <2>3
<1>4. ASSUME NEW d \in Deliveries, PastSource(d)'
      PROVE  Source(d) \in sourceKeys' \/ <<"source", Source(d)>> \in again'
  <2>1. CASE PastSource(d)
    <3>1. Source(d) \in sourceKeys \/ <<"source", Source(d)>> \in again
      BY <2>1 DEF KeysAreAccounted
    <3> QED BY <1>1, <3>1
  <2>2. CASE SetsSource(d)
    BY <2>2 DEF KeysMove
  <2> QED BY <1>4, <2>1, <2>2
<1>5. ASSUME NEW d \in Deliveries, NEW e \in Deliveries, d # e, Source(d) = Source(e),
             PastSource(d)', PastSource(e)'
      PROVE  <<"source", Source(d)>> \in again'
  <2>1. ASSUME NEW f \in Deliveries, NEW g \in Deliveries, f # g,
               Source(f) = Source(g), SetsSource(f), PastSource(g)
        PROVE  <<"source", Source(f)>> \in again'
    <3>1. Source(f) \in sourceKeys \/ <<"source", Source(f)>> \in again
      BY <2>1 DEF KeysAreAccounted
    <3>2. Source(f) \in sourceKeys => <<"source", Source(f)>> \in again'
      BY <2>1 DEF KeysMove
    <3> QED BY <1>1, <3>1, <3>2
  <2>2. CASE PastSource(d) /\ PastSource(e)
    <3>1. <<"source", Source(d)>> \in again
      BY <1>5, <2>2 DEF KeysAreAccounted
    <3> QED BY <1>1, <3>1
  <2>3. ~(SetsSource(d) /\ SetsSource(e))
    BY <1>5 DEF KeysMove
  <2> QED BY <1>5, <2>1, <2>2, <2>3
<1> QED BY <1>2, <1>3, <1>4, <1>5 DEF KeysAreAccounted, Source

LEMMA QuietInv ==
    ASSUME IInv, QuietStep
    PROVE  /\ StageFits' /\ NotYetStored' /\ AlreadyStored' /\ EventFollowsMessage'
           /\ KeysAreAccounted' /\ KeysHaveHolders' /\ SnapshotIsBehind' /\ FloorIsKept'
<1> USE SameTalks DEF QuietStep, IInv
<1>1. Deliveries \subseteq Writers /\ Replies \subseteq Writers /\ Writers = Deliveries \cup Replies
      /\ Deliveries \cap Replies = {}
    BY WritersAssumption DEF Writers
<1>2. StageFits'
    BY <1>1 DEF StageFits, ReplyMove, DeliveryMove, From, Stays
<1>3. NotYetStored'
  <2>1. \A w \in Writers : InTx(w)' = InTx(w)
    BY DEF InTx
  <2>2. ASSUME NEW d \in Deliveries,
               \/ stage'[d] \in AtGuards \cup {"find", "append"}
               \/ InTx(d) /\ stage'[d] \in {"reread", "enqueue", "commit"}
        PROVE  \/ stage[d] \in AtGuards \cup {"find", "append"}
               \/ InTx(d) /\ stage[d] \in {"reread", "enqueue", "commit"}
    BY <1>1, <2>2 DEF InTx, StageFits, AtGuards, AtUpdateGuard, DeliveryMove, From, Stays
  <2>3. ASSUME NEW r \in Replies, stage'[r] \in AtGuards \cup {"find", "append"}
        PROVE  stage[r] \in AtGuards \cup {"find", "append"}
    BY <1>1, <2>3 DEF AtGuards, AtUpdateGuard, ReplyMove, Stays
  <2>4. \A r \in Replies : ~InTx(r)
    BY <1>1 DEF InTx
  <2>5. ASSUME NEW w \in Writers,
               \/ stage'[w] \in AtGuards \cup {"find", "append"}
               \/ InTx(w) /\ stage'[w] \in {"reread", "enqueue", "commit"}
        PROVE  Own(w) \notin Stored
    BY <1>1, <2>2, <2>3, <2>4, <2>5 DEF NotYetStored
  <2>6. \A w \in Writers : Own(w)' = Own(w) /\ Stored' = Stored
    OBVIOUS
  <2> QED BY <2>1, <2>5, <2>6 DEF NotYetStored
<1>4. AlreadyStored'
    BY <1>1 DEF AlreadyStored, InTx, Routing, ReplyMove, DeliveryMove, From, Stays
<1>5. EventFollowsMessage'
    BY <1>1 DEF EventFollowsMessage
<1>6. /\ \A d \in Deliveries : PastUpdate(d)' => PastUpdate(d) \/ SetsUpdate(d)
      /\ \A d \in Deliveries : PastSource(d)' => PastSource(d) \/ SetsSource(d)
    BY <1>1 DEF PastUpdate, PastSource, SetsUpdate, SetsSource, AtGuards, AtUpdateGuard,
                DeliveryMove, From, Stays
<1>7. KeysAreAccounted'
    BY <1>6, KeysStayAccounted
<1>8. KeysHaveHolders'
  <2>1. /\ \A e \in Deliveries : HoldsUpdate(e) => HoldsUpdate(e)'
        /\ \A e \in Deliveries : HoldsSource(e) => HoldsSource(e)'
    <3>1. ASSUME NEW e \in Deliveries, stage[e] \in Routing
          PROVE  Own(e) \in Stored
      BY <1>1, <3>1 DEF AlreadyStored
    <3> QED BY <1>1, <3>1, HoldersMove
        DEF DeliveryMove, From, Stays, AtGuards, AtUpdateGuard, Routing
  <2>2. ASSUME NEW m \in updateKeys' \ updateKeys
        PROVE  \E e \in Deliveries : MessageOf[e] = m /\ HoldsUpdate(e)'
    BY <2>2 DEF KeysMove, SetsUpdate, HoldsUpdate, Accounts, AtUpdateGuard
  <2>3. ASSUME NEW s \in sourceKeys' \ sourceKeys
        PROVE  \/ \E e \in Deliveries : Source(e) = s /\ HoldsSource(e)'
               \/ <<"other chat", s>> \in again'
    BY <2>3 DEF KeysMove, SetsSource, HoldsSource, Accounts, AtUpdateGuard, AtGuards
  <2>4. \A d \in Deliveries : answer'[d] = "skipped" =>
               answer[d] = "skipped" \/ (MessageOf[d] \in updateKeys /\ ~HoldsUpdate(d))
    BY DEF DeliveryMove, From, Stays, HoldsUpdate, AtUpdateGuard
  <2>5. \A d \in Deliveries : answer'[d] = "duplicate" =>
               answer[d] = "duplicate" \/ (Source(d) \in sourceKeys /\ ~HoldsSource(d))
    BY DEF DeliveryMove, From, Stays, HoldsSource, AtUpdateGuard, AtGuards
  <2>6. again \subseteq again'
    BY DEF KeysMove
  <2> QED BY <2>1, <2>2, <2>3, <2>4, <2>5, <2>6, HoldersStay
<1>9. SnapshotIsBehind'
  <2> SUFFICES ASSUME NEW d \in Deliveries, mode.tx
               PROVE  /\ stage'[d] \in {"append", "reread", "enqueue", "commit"}
                            => Len(seen'[d][1]) <= Len(log[ChatOf[d]])
                      /\ /\ stage'[d] \in {"enqueue", "commit"}
                         /\ view'[d] = "customer"
                         /\ Len(log[ChatOf[d]]) = Len(seen'[d][1])
                         => /\ Len(seen'[d][1]) > 0
                            /\ log[ChatOf[d]][Len(seen'[d][1])].role = "customer"
    BY DEF SnapshotIsBehind
  <2>1. log[ChatOf[d]] \in Seq(Entry)
    BY <1>1, ChatType DEF TypeOK
  <2>2. Len(log[ChatOf[d]]) \in Nat /\ (log[ChatOf[d]] # << >> => Len(log[ChatOf[d]]) > 0)
    BY <2>1
  <2>3. seen'[d] = Doc(ChatOf[d]) => seen'[d][1] = log[ChatOf[d]]
    BY DEF Doc
  <2> QED BY <2>2, <2>3 DEF SnapshotIsBehind, DeliveryMove, From, Stays
<1>10. FloorIsKept'
    BY <1>1 DEF FloorIsKept, DeliveryMove, From, Stays, StageFits
<1> QED BY <1>2, <1>3, <1>4, <1>5, <1>7, <1>8, <1>9, <1>10

-----------------------------------------------------------------------------
(* The steps that write into no conversation *)

OthersStay(w) == \A v \in Writers \ {w} : Stays(v)

LEMMA GoesOnMoves ==
    ASSUME TypeOK, NEW w \in Writers, NEW s, GoesOn(w, s)
    PROVE  /\ OthersStay(w)
           /\ stage'[w] = s /\ seen'[w] = seen[w]
           /\ w \in Deliveries => answer'[w] = answer[w] /\ view'[w] = view[w]
<1>1. stage \in [Writers -> Stage]
    BY DEF TypeOK
<1> QED BY <1>1 DEF GoesOn, Goto, OthersStay, Stays

LEMMA FinishMoves ==
    ASSUME TypeOK, NEW d \in Deliveries, NEW a, Finish(d, a)
    PROVE  OthersStay(d) /\ stage'[d] = "done" /\ answer'[d] = a
<1>1. /\ stage \in [Writers -> Stage]
      /\ answer \in [Deliveries -> Answer]
      /\ seen \in [Writers -> Seq(Entry) \X BOOLEAN]
      /\ view \in [Deliveries -> View]
    BY DEF TypeOK
<1>2. d \in Writers
    BY DEF Writers
<1> QED BY <1>1, <1>2 DEF Finish, Goto, OthersStay, Stays

\* A step of one call that sets no key.
LEMMA CallQuiet ==
    ASSUME NEW w \in Writers, OthersStay(w), UNCHANGED <<mode, log, keyVars>>,
           w \in Deliveries => DeliveryMove(w),
           stage[w] \notin {"setUpdate", "setSource"} \/ stage'[w] = "done",
           w \in Replies => ReplyMove(w),
           events \subseteq events',
           events' \cup direct' \subseteq events \cup direct \cup Stored,
           \A d \in asked' \ asked : stage[d] = "forward" /\ stage'[d] = "done"
    PROVE  QuietStep
<1>1. Deliveries \subseteq Writers /\ Replies \subseteq Writers
    BY DEF Writers
<1>2. \A r \in Replies : ReplyMove(r)
    BY <1>1 DEF OthersStay, ReplyMove
<1>3. ASSUME NEW d \in Deliveries PROVE DeliveryMove(d)
  <2>1. CASE d # w
    BY <1>1, <2>1 DEF OthersStay, DeliveryMove
  <2>2. CASE d = w
    BY <2>2
  <2> QED BY <2>1, <2>2
<1>4. \A d \in Deliveries : ~SetsUpdate(d) /\ ~SetsSource(d)
    BY <1>1 DEF OthersStay, Stays, SetsUpdate, SetsSource
<1>5. KeysMove
    BY <1>4 DEF KeysMove, keyVars
<1> QED BY <1>2, <1>3, <1>5 DEF QuietStep

LEMMA GuardsQuiet ==
    ASSUME IInv, NEW d \in Deliveries,
           \/ Deliver(d) \/ CheckUpdate(d) \/ SetUpdate(d) \/ CheckSource(d) \/ SetSource(d)
    PROVE  QuietStep
<1>1. d \in Writers /\ d \notin Replies
    BY WritersAssumption DEF Writers
<1>2. TypeOK
    BY DEF IInv
<1>3. CASE Deliver(d)
  <2>1. GoesOn(d, "checkUpdate") /\ stage[d] = "none" /\ UNCHANGED <<mode, log, keyVars, outVars>>
    BY <1>3 DEF Deliver, inputVars, chatVars
  <2>2. DeliveryMove(d)
    BY <1>1, <1>2, <2>1, GoesOnMoves DEF DeliveryMove, From
  <2> QED BY <1>1, <1>2, <2>1, <2>2, GoesOnMoves, CallQuiet DEF outVars
<1>4. CASE CheckUpdate(d)
  <2>1. stage[d] = "checkUpdate" /\ UNCHANGED <<mode, log, keyVars, outVars>>
    BY <1>4 DEF CheckUpdate, inputVars, chatVars
  <2>2. CASE MessageOf[d] \in updateKeys /\ Finish(d, "skipped")
    <3>1. DeliveryMove(d) /\ OthersStay(d)
      BY <1>2, <2>1, <2>2, FinishMoves DEF DeliveryMove
    <3> QED BY <1>1, <2>1, <3>1, CallQuiet DEF outVars
  <2>3. CASE GoesOn(d, "setUpdate")
    <3>1. DeliveryMove(d) /\ OthersStay(d)
      BY <1>2, <1>1, <2>1, <2>3, GoesOnMoves DEF DeliveryMove, From
    <3> QED BY <1>1, <2>1, <3>1, CallQuiet DEF outVars
  <2> QED BY <1>4, <2>2, <2>3 DEF CheckUpdate
<1>5. CASE SetUpdate(d)
  <2>1. GoesOn(d, "checkSource") /\ stage[d] = "setUpdate" /\ UNCHANGED <<mode, log, sourceKeys, outVars>>
    BY <1>5 DEF SetUpdate, inputVars, chatVars
  <2>2. DeliveryMove(d) /\ SetsUpdate(d) /\ OthersStay(d)
    BY <1>1, <1>2, <2>1, GoesOnMoves DEF DeliveryMove, From, SetsUpdate
  <2>3. /\ \A r \in Replies : ReplyMove(r)
        /\ \A e \in Deliveries : DeliveryMove(e)
        /\ \A e \in Deliveries : SetsUpdate(e) => e = d
        /\ \A e \in Deliveries : ~SetsSource(e)
    BY <1>1, <2>1, <2>2 DEF OthersStay, Stays, ReplyMove, DeliveryMove, SetsUpdate, SetsSource, Writers
  <2>4. KeysMove
    BY <1>5, <2>1, <2>2, <2>3 DEF SetUpdate, KeysMove
  <2> QED BY <2>1, <2>3, <2>4 DEF QuietStep, outVars
<1>6. CASE CheckSource(d)
  <2>1. stage[d] = "checkSource" /\ UNCHANGED <<mode, log, keyVars, outVars>>
    BY <1>6 DEF CheckSource, inputVars, chatVars
  <2>2. CASE Source(d) \in sourceKeys /\ Finish(d, "duplicate")
    <3>1. DeliveryMove(d) /\ OthersStay(d)
      BY <1>2, <2>1, <2>2, FinishMoves DEF DeliveryMove
    <3> QED BY <1>1, <2>1, <3>1, CallQuiet DEF outVars
  <2>3. CASE GoesOn(d, "setSource")
    <3>1. DeliveryMove(d) /\ OthersStay(d)
      BY <1>2, <1>1, <2>1, <2>3, GoesOnMoves DEF DeliveryMove, From
    <3> QED BY <1>1, <2>1, <3>1, CallQuiet DEF outVars
  <2> QED BY <1>6, <2>2, <2>3 DEF CheckSource
<1>7. CASE SetSource(d)
  <2>1. stage[d] = "setSource" /\ UNCHANGED <<mode, log, updateKeys, outVars>>
    BY <1>7 DEF SetSource, inputVars, chatVars
  <2>2. /\ DeliveryMove(d) /\ OthersStay(d)
        /\ SetsSource(d) \/ (answer'[d] = "failed" /\ stage'[d] = "done")
    <3>1. CASE Finish(d, "failed")
      BY <1>2, <2>1, <3>1, FinishMoves DEF DeliveryMove
    <3>2. CASE GoesOn(d, "find")
      BY <1>2, <1>1, <2>1, <3>2, GoesOnMoves DEF DeliveryMove, From, SetsSource
    <3> QED BY <1>7, <3>1, <3>2 DEF SetSource
  <2>3. /\ \A r \in Replies : ReplyMove(r)
        /\ \A e \in Deliveries : DeliveryMove(e)
        /\ \A e \in Deliveries : SetsSource(e) => e = d
        /\ \A e \in Deliveries : ~SetsUpdate(e)
    BY <1>1, <2>1, <2>2 DEF OthersStay, Stays, ReplyMove, DeliveryMove, SetsUpdate, SetsSource, Writers
  <2>4. KeysMove
    BY <1>7, <2>1, <2>2, <2>3 DEF SetSource, KeysMove
  <2> QED BY <2>1, <2>3, <2>4 DEF QuietStep, outVars
<1> QED BY <1>3, <1>4, <1>5, <1>6, <1>7

\* No call moves.
LEMMA OutsideQuiet ==
    ASSUME \/ Expire
           \/ \E s \in Sources : TakeSource(s)
           \/ \E c \in Chats : SetHandover(c)
           \/ UNCHANGED vars
    PROVE  QuietStep
<1>1. UNCHANGED <<mode, log, outVars, callVars>>
    BY DEF Expire, TakeSource, SetHandover, vars, inputVars, chatVars
<1>2. /\ \A r \in Replies : ReplyMove(r)
      /\ \A e \in Deliveries : DeliveryMove(e)
      /\ \A e \in Deliveries : ~SetsSource(e) /\ ~SetsUpdate(e)
    BY <1>1 DEF callVars, Stays, ReplyMove, DeliveryMove, SetsUpdate, SetsSource
<1>3. CASE Expire
    BY <1>1, <1>2, <1>3 DEF QuietStep, KeysMove, outVars, Expire
<1>4. ASSUME NEW s \in Sources, TakeSource(s) PROVE QuietStep
    BY <1>1, <1>2, <1>4 DEF QuietStep, KeysMove, outVars, TakeSource
<1>5. CASE UNCHANGED keyVars
    BY <1>1, <1>2, <1>5 DEF QuietStep, KeysMove, outVars, keyVars
<1> QED BY <1>3, <1>4, <1>5 DEF SetHandover, vars

LEMMA StoreQuiet ==
    ASSUME IInv, NEW w \in Writers, UNCHANGED log,
           Find(w) \/ AppendMessage(w) \/ Enqueue(w) \/ Fail(w)
    PROVE  QuietStep
<1>1. /\ w \in Deliveries \cup Replies
      /\ w \in Deliveries => w \notin Replies
      /\ w \in Deliveries => w \in Writers
    BY WritersAssumption DEF Writers
<1>2. TypeOK
    BY DEF IInv
<1>3. /\ stage \in [Writers -> Stage]
      /\ answer \in [Deliveries -> Answer]
      /\ seen \in [Writers -> Seq(Entry) \X BOOLEAN]
      /\ view \in [Deliveries -> View]
    BY DEF IInv, TypeOK
<1>4. CASE Find(w)
  <2>1. stage[w] = "find" /\ UNCHANGED <<mode, log, keyVars, outVars>>
    BY <1>4 DEF Find, inputVars, chatVars
  <2>2. OthersStay(w) /\ stage'[w] = "append" /\ seen'[w] = Doc(ChatOf[w])
        /\ answer' = answer
    BY <1>4, <1>3 DEF Find, Goto, OthersStay, Stays
  <2>3. w \in Deliveries => DeliveryMove(w)
    BY <2>1, <2>2 DEF DeliveryMove, From
  <2>4. w \in Replies => ReplyMove(w)
    BY <2>1, <2>2 DEF ReplyMove
  <2> QED BY <2>1, <2>2, <2>3, <2>4, CallQuiet DEF outVars
<1>5. CASE AppendMessage(w)
  <2>1. stage[w] = "append" /\ UNCHANGED <<mode, log, keyVars, outVars>>
    BY <1>5 DEF AppendMessage, inputVars
  <2>2. CASE InTx(w) /\ GoesOn(w, "reread")
    <3>1. w \in Deliveries /\ DeliveryMove(w) /\ OthersStay(w)
      BY <1>2, <2>1, <2>2, GoesOnMoves DEF DeliveryMove, From, InTx
    <3> QED BY <1>1, <2>1, <3>1, CallQuiet DEF outVars
  <2>3. CASE /\ Goto(w, "done") /\ view' = view
             /\ answer' = IF w \in Deliveries THEN [answer EXCEPT ![w] = "failed"] ELSE answer
             /\ seen' = [seen EXCEPT ![w] = NoDoc]
    <3>1. OthersStay(w) /\ stage'[w] = "done" /\ (w \in Deliveries => answer'[w] = "failed")
      BY <1>3, <2>3 DEF Goto, OthersStay, Stays
    <3>2. w \in Deliveries => DeliveryMove(w)
      BY <2>1, <3>1 DEF DeliveryMove
    <3>3. w \in Replies => ReplyMove(w)
      BY <2>1, <3>1 DEF ReplyMove
    <3> QED BY <2>1, <3>1, <3>2, <3>3, CallQuiet DEF outVars
  <2>4. log' # [log EXCEPT ![ChatOf[w]] = Append(@, Own(w))]
    <3>1. log \in [Chats -> Seq(Entry)] /\ ChatOf[w] \in Chats
      BY <1>2, ChatType DEF TypeOK
    <3>2. Len(Append(log[ChatOf[w]], Own(w))) # Len(log[ChatOf[w]])
      BY <3>1, OwnType, AppendElements
    <3> QED BY <3>1, <3>2
  <2> QED BY <1>5, <2>2, <2>3, <2>4 DEF AppendMessage
<1>6. CASE Enqueue(w)
  <2>1. stage[w] = "enqueue" /\ UNCHANGED <<mode, log, keyVars, asked>>
    BY <1>6 DEF Enqueue, inputVars, chatVars
  <2>2. CASE InTx(w) /\ GoesOn(w, "commit") /\ UNCHANGED <<events, direct>>
    <3>1. w \in Deliveries /\ DeliveryMove(w) /\ OthersStay(w)
      BY <1>2, <2>1, <2>2, GoesOnMoves DEF DeliveryMove, From, InTx
    <3> QED BY <1>1, <2>1, <2>2, <3>1, CallQuiet
  <2>3. CASE ~InTx(w) /\ w \in Deliveries /\ GoesOn(w, "route")
             /\ events' = events \cup {Own(w)} /\ UNCHANGED direct
    <3>1. DeliveryMove(w) /\ OthersStay(w)
      BY <1>2, <2>1, <2>3, GoesOnMoves DEF DeliveryMove, From, InTx
    <3>2. Own(w) \in Stored
      BY <2>1, <2>3 DEF IInv, AlreadyStored
    <3> QED BY <1>1, <2>1, <2>3, <3>1, <3>2, CallQuiet
  <2>4. CASE w \in Replies /\ GoesOn(w, "done")
             /\ (\/ direct' = direct \cup {Own(w)} /\ UNCHANGED events
                 \/ events' = events \cup {Own(w)} /\ UNCHANGED direct)
    <3>1. ReplyMove(w) /\ OthersStay(w)
      BY <1>2, <2>1, <2>4, GoesOnMoves DEF ReplyMove
    <3>2. Own(w) \in Stored
      BY <1>1, <2>1, <2>4 DEF IInv, AlreadyStored, InTx
    <3> QED BY <1>1, <2>1, <2>4, <3>1, <3>2, CallQuiet
  <2> QED BY <1>6, <2>2, <2>3, <2>4 DEF Enqueue
<1>7. CASE Fail(w)
  <2>1. /\ stage[w] \notin {"none", "done"}
        /\ UNCHANGED <<mode, log, keyVars, events, direct>>
        /\ asked' = asked \/ (stage[w] = "forward" /\ asked' = asked \cup {w})
    BY <1>7 DEF Fail, inputVars, chatVars
  <2>2. CASE w \in Deliveries
    <3>1. Finish(w, "failed")
      BY <1>7, <2>2 DEF Fail
    <3>2. OthersStay(w) /\ stage'[w] = "done" /\ answer'[w] = "failed"
      BY <1>2, <2>2, <3>1, FinishMoves
    <3>3. DeliveryMove(w)
      BY <2>1, <3>2 DEF DeliveryMove
    <3> QED BY <1>1, <2>1, <2>2, <3>2, <3>3, CallQuiet
  <2>3. CASE w \notin Deliveries
    <3>1. Goto(w, "done") /\ seen' = [seen EXCEPT ![w] = NoDoc] /\ UNCHANGED <<answer, view>>
      BY <1>7, <2>3 DEF Fail
    <3>2. OthersStay(w) /\ stage'[w] = "done"
      BY <1>3, <2>3, <3>1 DEF Goto, OthersStay, Stays
    <3>3. ReplyMove(w)
      BY <2>1, <3>2 DEF ReplyMove
    <3>4. stage[w] # "forward"
      <4>1. \A r \in Replies : stage[r] # "forward"
        BY DEF IInv, StageFits
      <4> QED BY <1>1, <2>3, <4>1
    <3> QED BY <2>1, <2>3, <3>2, <3>3, <3>4, CallQuiet
  <2> QED BY <2>2, <2>3
<1> QED BY <1>4, <1>5, <1>6, <1>7

LEMMA ReplyQuiet ==
    ASSUME IInv, NEW r \in Replies, StartReply(r)
    PROVE  QuietStep
<1>1. r \in Writers /\ r \notin Deliveries /\ TypeOK
    BY WritersAssumption DEF Writers, IInv
<1>2. GoesOn(r, "find") /\ stage[r] = "none" /\ UNCHANGED <<mode, log, keyVars, outVars>>
    BY DEF StartReply, inputVars, chatVars
<1>3. ReplyMove(r) /\ OthersStay(r)
    BY <1>1, <1>2, GoesOnMoves DEF ReplyMove
<1> QED BY <1>1, <1>2, <1>3, CallQuiet DEF outVars

LEMMA AnswerQuiet ==
    ASSUME IInv, NEW d \in Deliveries,
           \/ Reread(d) \/ Route(d) \/ EmitAnswer(d) \/ SendAnswer(d) \/ Forward(d)
           \/ Commit(d) /\ Again(d, "find")
    PROVE  QuietStep
<1>1. d \in Writers /\ d \notin Replies
    BY WritersAssumption DEF Writers
<1>2. TypeOK
    BY DEF IInv
<1>3. /\ stage \in [Writers -> Stage]
      /\ view \in [Deliveries -> View]
    BY DEF IInv, TypeOK
<1>4. CASE Reread(d)
  <2>1. stage[d] = "reread" /\ UNCHANGED <<mode, log, keyVars, outVars, answer, seen>>
    BY <1>4 DEF Reread, inputVars, chatVars
  <2>2. /\ OthersStay(d) /\ stage'[d] = "enqueue"
        /\ view'[d] = "customer" => /\ log[ChatOf[d]] # << >>
                                    /\ log[ChatOf[d]][Len(log[ChatOf[d]])].role = "customer"
    BY <1>4, <1>1, <1>3, <2>1 DEF Reread, Goto, OthersStay, Stays
  <2>3. DeliveryMove(d)
    BY <2>1, <2>2 DEF DeliveryMove, From
  <2> QED BY <1>1, <2>1, <2>2, <2>3, CallQuiet DEF outVars
<1>5. CASE Route(d)
  <2>1. stage[d] = "route" /\ UNCHANGED <<mode, log, keyVars, outVars>>
    BY <1>5 DEF Route, inputVars, chatVars
  <2>2. \/ GoesOn(d, "answer")
        \/ GoesOn(d, "forward") /\ view[d] = "customer"
        \/ \E a \in {"failed", "wait_agent", "ask_ai"} : Finish(d, a)
    BY <1>5 DEF Route
  <2>3. DeliveryMove(d) /\ OthersStay(d)
    <3>1. CASE GoesOn(d, "answer") \/ (GoesOn(d, "forward") /\ view[d] = "customer")
      BY <1>1, <1>2, <2>1, <3>1, GoesOnMoves DEF DeliveryMove, From
    <3>2. ASSUME NEW a \in {"failed", "wait_agent", "ask_ai"}, Finish(d, a)
          PROVE  DeliveryMove(d) /\ OthersStay(d)
      BY <1>2, <2>1, <3>2, FinishMoves DEF DeliveryMove, Routing
    <3> QED BY <2>2, <3>1, <3>2
  <2> QED BY <1>1, <2>1, <2>3, CallQuiet DEF outVars
<1>6. CASE EmitAnswer(d)
  <2>1. stage[d] = "emit" /\ UNCHANGED <<mode, log, keyVars, direct, asked>>
        /\ events' = events \cup {BotAnswer(d)}
    BY <1>6 DEF EmitAnswer, inputVars, chatVars
  <2>2. BotAnswer(d) \in Stored
    BY <2>1 DEF IInv, AlreadyStored
  <2>3. DeliveryMove(d) /\ OthersStay(d)
    <3>1. CASE GoesOn(d, "send")
      BY <1>1, <1>2, <2>1, <3>1, GoesOnMoves DEF DeliveryMove, From
    <3>2. CASE Finish(d, "ok")
      BY <1>2, <2>1, <3>2, FinishMoves DEF DeliveryMove, Routing
    <3> QED BY <1>6, <3>1, <3>2 DEF EmitAnswer
  <2> QED BY <1>1, <2>1, <2>2, <2>3, CallQuiet
<1>7. CASE SendAnswer(d)
  <2>1. stage[d] = "send" /\ UNCHANGED <<mode, log, keyVars, events, asked>>
        /\ direct' = direct \cup {BotAnswer(d)} /\ Finish(d, "ok")
    BY <1>7 DEF SendAnswer, inputVars, chatVars
  <2>2. BotAnswer(d) \in Stored
    BY <2>1 DEF IInv, AlreadyStored
  <2>3. DeliveryMove(d) /\ OthersStay(d)
    BY <1>2, <2>1, FinishMoves DEF DeliveryMove, Routing
  <2> QED BY <1>1, <2>1, <2>2, <2>3, CallQuiet
<1>8. CASE Forward(d)
  <2>1. stage[d] = "forward" /\ UNCHANGED <<mode, log, keyVars, events, direct>>
        /\ asked' = asked \cup {d} /\ Finish(d, "ask_ai")
    BY <1>8 DEF Forward, inputVars, chatVars
  <2>2. DeliveryMove(d) /\ OthersStay(d) /\ stage'[d] = "done"
    BY <1>2, <2>1, FinishMoves DEF DeliveryMove, Routing
  <2> QED BY <1>1, <2>1, <2>2, CallQuiet
<1>9. CASE Commit(d) /\ Again(d, "find")
  <2>1. stage[d] = "commit" /\ UNCHANGED <<mode, log, keyVars, outVars, answer, seen>>
    BY <1>9 DEF Commit, CommitFrame, Again, inputVars, outVars
  <2>2. OthersStay(d) /\ stage'[d] = "find"
    BY <1>9, <1>1, <1>3, <2>1 DEF Again, Goto, OthersStay, Stays
  <2>3. DeliveryMove(d)
    BY <2>1, <2>2 DEF DeliveryMove, From
  <2> QED BY <1>1, <2>1, <2>2, <2>3, CallQuiet DEF outVars
<1> QED BY <1>4, <1>5, <1>6, <1>7, <1>8, <1>9

-----------------------------------------------------------------------------
(* The steps that write into a conversation *)

\* w adds x: its own message, at once or at the commit, or the bot's answer.
LoudStep(w, x) ==
    /\ UNCHANGED <<mode, keyVars, direct, asked>>
    /\ log' = [log EXCEPT ![ChatOf[w]] = Append(log[ChatOf[w]], x)]
    /\ OthersStay(w)
    /\ events \subseteq events'
    /\ events' \subseteq events \cup {x}
    /\ \/ /\ x = Own(w) /\ ~InTx(w)
          /\ stage[w] = "append" /\ stage'[w] \in {"reread", "enqueue"}
          /\ w \in Replies => stage'[w] = "enqueue"
          /\ w \in Deliveries => answer'[w] = answer[w]
       \/ /\ x = Own(w) /\ InTx(w) /\ x \in events'
          /\ stage[w] = "commit" /\ seen[w] = Doc(ChatOf[w])
          /\ \/ stage'[w] = "route" /\ answer'[w] = answer[w] /\ view'[w] = view[w]
             \/ stage'[w] = "done" /\ answer'[w] = "ok"
       \/ /\ x = BotAnswer(w) /\ w \in Deliveries
          /\ stage[w] = "answer" /\ stage'[w] = "emit"
          /\ answer'[w] = answer[w]

LEMMA LoudTalk ==
    ASSUME IInv, NEW w \in Writers, NEW x, LoudStep(w, x)
    PROVE  /\ x \in Entry
           /\ Stored' = Stored \cup {x}
           /\ \A v \in Writers : Own(v)' = Own(v)
           /\ \A v \in Writers \ {w} : x # Own(v) /\ x # BotAnswer(v)
           /\ w \in Deliveries => BotAnswer(w) # Own(w)
           /\ \A c \in Chats \ {ChatOf[w]} : log'[c] = log[c]
           /\ log'[ChatOf[w]] = Append(log[ChatOf[w]], x)
<1>1. x = Own(w) \/ (w \in Deliveries /\ x = BotAnswer(w))
    BY DEF LoudStep
<1>2. x \in Entry
    BY <1>1, OwnType, BotAnswerType
<1>3. x.by = w
    BY <1>1 DEF Own, BotAnswer
<1>4. \A v \in Writers : Own(v).by = v /\ BotAnswer(v).by = v /\ Own(v)' = Own(v)
    BY DEF Own, BotAnswer
<1>5. w \in Deliveries => BotAnswer(w) # Own(w)
    BY OwnType DEF BotAnswer
<1>6. TypeOK /\ ChatOf[w] \in Chats
    BY ChatType DEF IInv
<1>7. log' = [log EXCEPT ![ChatOf[w]] = Append(log[ChatOf[w]], x)]
    BY DEF LoudStep
<1> QED BY <1>2, <1>3, <1>4, <1>5, <1>6, <1>7, LogGrows

LEMMA LoudKeys ==
    ASSUME IInv, NEW w \in Writers, NEW x, LoudStep(w, x)
    PROVE  KeysAreAccounted' /\ KeysHaveHolders'
<1>1. Deliveries \subseteq Writers
    BY DEF Writers
<1>2. \A d \in Deliveries : ~SetsUpdate(d) /\ ~SetsSource(d)
    BY <1>1 DEF LoudStep, OthersStay, Stays, SetsUpdate, SetsSource
<1>3. KeysMove
    BY <1>2 DEF KeysMove, LoudStep, keyVars
<1>4. ASSUME NEW d \in Deliveries, d # w
      PROVE  /\ stage'[d] = stage[d] /\ answer'[d] = answer[d]
             /\ Own(d)' \in Stored' => Own(d) \in Stored
  <2>1. stage'[d] = stage[d] /\ answer'[d] = answer[d]
    BY <1>1, <1>4 DEF LoudStep, OthersStay, Stays
  <2>2. Own(d)' = Own(d) /\ Own(d) # x /\ Stored' = Stored \cup {x}
    BY <1>1, <1>4, LoudTalk
  <2> QED BY <2>1, <2>2
<1>5. stage[w] \in {"append", "commit", "answer"}
    BY DEF LoudStep
<1>6. \A d \in Deliveries : PastUpdate(d)' => PastUpdate(d) \/ SetsUpdate(d)
  <2> SUFFICES ASSUME NEW d \in Deliveries, PastUpdate(d)' PROVE PastUpdate(d)
    OBVIOUS
  <2>1. CASE d = w
    BY <1>5, <2>1 DEF PastUpdate, AtUpdateGuard
  <2>2. CASE d # w
    BY <1>4, <2>2 DEF PastUpdate, AtUpdateGuard
  <2> QED BY <2>1, <2>2
<1>7. \A d \in Deliveries : PastSource(d)' => PastSource(d) \/ SetsSource(d)
  <2> SUFFICES ASSUME NEW d \in Deliveries, PastSource(d)' PROVE PastSource(d)
    OBVIOUS
  <2>1. CASE d = w
    BY <1>5, <2>1 DEF PastSource, AtGuards, AtUpdateGuard
  <2>2. CASE d # w
    BY <1>4, <2>2 DEF PastSource, AtGuards, AtUpdateGuard
  <2> QED BY <2>1, <2>2
<1>8. KeysAreAccounted'
    BY <1>3, <1>6, <1>7, KeysStayAccounted DEF IInv
<1>9. /\ \A e \in Deliveries : HoldsUpdate(e) => HoldsUpdate(e)'
      /\ \A e \in Deliveries : HoldsSource(e) => HoldsSource(e)'
  <2>1. Stored \subseteq Stored'
    BY LoudTalk
  <2>2. w \in Deliveries => \/ stage'[w] \notin AtGuards \cup {"done"}
                            \/ stage'[w] = "done" /\ Own(w) \in Stored'
    <3>1. \/ stage'[w] \in {"reread", "enqueue", "route", "emit"}
          \/ stage'[w] = "done" /\ x = Own(w)
      BY DEF LoudStep
    <3>2. x = Own(w) => Own(w) \in Stored'
      BY LoudTalk
    <3> QED BY <3>1, <3>2 DEF AtGuards, AtUpdateGuard
  <2>3. \A e \in Deliveries : \/ stage'[e] = stage[e] /\ answer'[e] = answer[e]
                              \/ stage'[e] \notin AtGuards \cup {"done"}
                              \/ stage'[e] = "done" /\ Own(e) \in Stored'
    BY <1>4, <2>2
  <2> QED BY <2>1, <2>3, HoldersMove
<1>10. \A d \in Deliveries : answer'[d] \in {"skipped", "duplicate"} => answer'[d] = answer[d]
    BY <1>4 DEF LoudStep
<1>11. KeysHaveHolders'
    BY <1>9, <1>10, HoldersStay DEF IInv, LoudStep, keyVars
<1> QED BY <1>8, <1>11

LEMMA LoudStored ==
    ASSUME IInv, NEW w \in Writers, NEW x, LoudStep(w, x)
    PROVE  StageFits' /\ NotYetStored' /\ AlreadyStored' /\ EventFollowsMessage'
<1>1. /\ Deliveries \subseteq Writers /\ Replies \subseteq Writers
      /\ Writers = Deliveries \cup Replies /\ Deliveries \cap Replies = {}
    BY WritersAssumption DEF Writers
<1>2. \A v \in Writers \ {w} :
          /\ stage'[v] = stage[v]
          /\ v \in Deliveries => view'[v] = view[v]
    BY DEF LoudStep, OthersStay, Stays
<1>3. mode' = mode /\ \A v \in Writers : InTx(v)' = InTx(v) /\ (v \in Replies => ~InTx(v))
    BY <1>1 DEF LoudStep, InTx
<1>4. StageFits'
    BY <1>1, <1>2, <1>3 DEF LoudStep, StageFits, IInv, InTx
<1>5. NotYetStored'
  <2>1. ASSUME NEW v \in Writers,
               \/ stage'[v] \in AtGuards \cup {"find", "append"}
               \/ InTx(v) /\ stage'[v] \in {"reread", "enqueue", "commit"}
        PROVE  Own(v) \notin Stored'
    <3>1. v # w
      BY <1>1, <2>1 DEF LoudStep, AtGuards, AtUpdateGuard, InTx
    <3>2. Own(v) \notin Stored
      BY <1>2, <2>1, <3>1 DEF IInv, NotYetStored
    <3> QED BY <3>1, <3>2, LoudTalk
  <2> QED BY <1>3, <2>1, LoudTalk DEF NotYetStored
<1>6. AlreadyStored'
  <2>1. ASSUME NEW v \in Writers,
               \/ ~InTx(v) /\ stage'[v] \in {"reread", "enqueue"}
               \/ stage'[v] \in Routing
        PROVE  Own(v) \in Stored'
    <3>1. CASE v # w
      <4>1. Own(v) \in Stored
        BY <1>2, <2>1, <3>1 DEF IInv, AlreadyStored
      <4> QED BY <4>1, LoudTalk
    <3>2. CASE v = w
      <4>1. x = Own(w) \/ stage[w] = "answer"
        BY DEF LoudStep
      <4>2. stage[w] = "answer" => Own(w) \in Stored
        BY DEF IInv, AlreadyStored, Routing
      <4> QED BY <3>2, <4>1, <4>2, LoudTalk
    <3> QED BY <3>1, <3>2
  <2>2. ASSUME NEW d \in Deliveries, stage'[d] \in {"emit", "send"}
        PROVE  BotAnswer(d) \in Stored'
    <3>1. CASE d # w
      <4>1. BotAnswer(d) \in Stored
        BY <1>1, <1>2, <2>2, <3>1 DEF IInv, AlreadyStored
      <4> QED BY <4>1, LoudTalk
    <3>2. CASE d = w
      <4>1. x = BotAnswer(w)
        BY <2>2, <3>2 DEF LoudStep
      <4> QED BY <3>2, <4>1, LoudTalk
    <3> QED BY <3>1, <3>2
  <2>3. \A d \in Deliveries : BotAnswer(d)' = BotAnswer(d)
    BY DEF BotAnswer
  <2> QED BY <1>3, <2>1, <2>2, <2>3, LoudTalk DEF AlreadyStored
<1>7. EventFollowsMessage'
  <2>1. events' \cup direct' \subseteq Stored'
    BY ZenonT(30), LoudTalk DEF LoudStep, IInv, EventFollowsMessage
  <2>2. ASSUME mode.tx, NEW d \in Deliveries, Own(d) \in Stored'
        PROVE  Own(d) \in events'
    <3>1. CASE Own(d) \in Stored
      BY <2>2, <3>1 DEF IInv, EventFollowsMessage, LoudStep
    <3>2. CASE Own(d) = x
      <4>1. d = w
        BY <1>1, <3>2, LoudTalk
      <4>2. InTx(w) /\ x # BotAnswer(w)
        BY <2>2, <3>2, <4>1, LoudTalk DEF InTx
      <4> QED BY <3>2, <4>2 DEF LoudStep
    <3> QED BY <2>2, <3>1, <3>2, LoudTalk
  <2> QED BY <1>1, <1>3, <2>1, <2>2, LoudTalk DEF EventFollowsMessage
<1> QED BY <1>4, <1>5, <1>6, <1>7

LEMMA LoudFloor ==
    ASSUME IInv, NEW w \in Writers, NEW x, LoudStep(w, x)
    PROVE  SnapshotIsBehind' /\ FloorIsKept'
<1>1. Deliveries \subseteq Writers
    BY DEF Writers
<1>2. \A d \in Deliveries \ {w} :
          stage'[d] = stage[d] /\ seen'[d] = seen[d] /\ view'[d] = view[d]
    BY <1>1 DEF LoudStep, OthersStay, Stays
<1>3. mode' = mode /\ asked' = asked
    BY DEF LoudStep
<1>4. ASSUME NEW d \in Deliveries
      PROVE  /\ log[ChatOf[d]] \in Seq(Entry)
             /\ ChatOf[d] # ChatOf[w] => log'[ChatOf[d]] = log[ChatOf[d]]
             /\ ChatOf[d] = ChatOf[w] => log'[ChatOf[d]] = Append(log[ChatOf[d]], x)
    BY SMTT(30), <1>1, ChatType, LoudTalk DEF IInv, TypeOK
<1>5. SnapshotIsBehind'
  <2> SUFFICES ASSUME NEW d \in Deliveries, mode.tx
               PROVE  /\ stage'[d] \in {"append", "reread", "enqueue", "commit"}
                            => Len(seen'[d][1]) <= Len(log'[ChatOf[d]])
                      /\ /\ stage'[d] \in {"enqueue", "commit"}
                         /\ view'[d] = "customer"
                         /\ Len(log'[ChatOf[d]]) = Len(seen'[d][1])
                         => /\ Len(seen'[d][1]) > 0
                            /\ log'[ChatOf[d]][Len(seen'[d][1])].role = "customer"
    BY <1>3 DEF SnapshotIsBehind
  <2>1. CASE d = w
    BY <2>1 DEF LoudStep, InTx
  <2>2. CASE d # w
    <3>1. CASE ChatOf[d] # ChatOf[w]
      BY <1>2, <1>4, <2>2, <3>1 DEF IInv, SnapshotIsBehind
    <3>2. CASE ChatOf[d] = ChatOf[w]
      <4>1. seen[d][1] \in Seq(Entry)
        BY <1>1 DEF IInv, TypeOK
      <4>2. Len(seen[d][1]) \in Nat
        BY <4>1
      <4>3. Len(log'[ChatOf[d]]) = Len(log[ChatOf[d]]) + 1 /\ Len(log[ChatOf[d]]) \in Nat
        BY <1>4, <3>2, LoudTalk, AppendElements
      <4> QED BY <1>2, <2>2, <4>2, <4>3 DEF IInv, SnapshotIsBehind
    <3> QED BY <3>1, <3>2
  <2> QED BY <2>1, <2>2
<1>6. ASSUME NEW d \in Deliveries, HasTheFloor(d), x # Own(d)
      PROVE  HasTheFloor(d)'
  <2>1. CASE ChatOf[d] # ChatOf[w]
    BY <1>4, <1>6, <2>1, <1>1, LoudTalk DEF HasTheFloor
  <2>2. CASE ChatOf[d] = ChatOf[w]
    <3> DEFINE s == log[ChatOf[d]]
    <3>1. /\ log'[ChatOf[d]] = Append(s, x) /\ s \in Seq(Entry) /\ x \in Entry
          /\ Own(d)' = Own(d)
      BY <1>4, <2>2, <1>1, LoudTalk
    <3> HIDE DEF s
    <3>2. /\ Len(s) \in Nat /\ DOMAIN s = 1..Len(s)
          /\ DOMAIN Append(s, x) = 1..(Len(s) + 1)
          /\ \A i \in 1..Len(s) : Append(s, x)[i] = s[i]
          /\ Append(s, x)[Len(s) + 1] = x
      BY <3>1, AppendElements
    <3>3. \A i \in DOMAIN s : s[i] = Own(d) => i > 1 /\ s[i - 1].role = "customer"
      BY <1>6 DEF HasTheFloor, s
    <3>4. ASSUME NEW i \in 1..(Len(s) + 1), Append(s, x)[i] = Own(d)
          PROVE  i > 1 /\ Append(s, x)[i - 1].role = "customer"
      <4>1. i \in 1..Len(s)
        BY <1>6, <3>2, <3>4
      <4>2. i > 1 /\ s[i - 1].role = "customer"
        BY <3>2, <3>3, <3>4, <4>1
      <4>3. i - 1 \in 1..Len(s)
        BY <3>2, <4>1, <4>2
      <4> QED BY <3>2, <4>2, <4>3
    <3> QED BY <3>1, <3>2, <3>4 DEF HasTheFloor
  <2> QED BY <2>1, <2>2
<1>7. ASSUME w \in Deliveries, mode.tx, stage'[w] = "route", view'[w] = "customer"
      PROVE  HasTheFloor(w)'
  <2> DEFINE s == log[ChatOf[w]]
  <2>1. /\ x = Own(w) /\ InTx(w) /\ stage[w] = "commit" /\ view[w] = "customer"
        /\ seen[w] = Doc(ChatOf[w])
    BY <1>7 DEF LoudStep
  <2>2. /\ log'[ChatOf[w]] = Append(s, x) /\ s \in Seq(Entry) /\ x \in Entry
        /\ Own(w)' = Own(w)
    BY <1>4, <1>7, LoudTalk
  <2>3. seen[w][1] = s
    BY <2>1 DEF Doc
  <2>4. Len(s) > 0 /\ s[Len(s)].role = "customer"
    BY <1>7, <2>1, <2>3 DEF IInv, SnapshotIsBehind
  <2>5. Own(w) \notin Stored
    BY <2>1 DEF IInv, NotYetStored
  <2>6. \A i \in DOMAIN s : s[i] # Own(w)
    BY <2>5, ChatType DEF Stored
  <2> HIDE DEF s
  <2>7. /\ Len(s) \in Nat /\ DOMAIN s = 1..Len(s)
        /\ DOMAIN Append(s, x) = 1..(Len(s) + 1)
        /\ \A i \in 1..Len(s) : Append(s, x)[i] = s[i]
    BY <2>2, AppendElements
  <2>8. ASSUME NEW i \in 1..(Len(s) + 1), Append(s, x)[i] = Own(w)
        PROVE  i > 1 /\ Append(s, x)[i - 1].role = "customer"
    <3>1. i = Len(s) + 1
      BY <2>6, <2>7, <2>8
    <3>2. Len(s) \in 1..Len(s) /\ i - 1 = Len(s)
      BY <2>4, <2>7, <3>1
    <3> QED BY <2>4, <2>7, <3>1, <3>2
  <2> QED BY <2>2, <2>7, <2>8 DEF HasTheFloor
<1>8. FloorIsKept'
  <2>1. \A d \in Deliveries \ {w} : x # Own(d)
    BY <1>1, LoudTalk
  <2>2. w \notin asked
    BY DEF LoudStep, IInv, FloorIsKept, TypeOK
  <2>3. \A d \in Deliveries \ {w} :
          /\ mode.tx /\ view'[d] = "customer" /\ stage'[d] \in {"route", "forward"}
                => HasTheFloor(d)'
          /\ d \in asked => stage'[d] = "done" /\ (mode.tx => HasTheFloor(d)')
    BY <1>2, <1>6, <2>1 DEF IInv, FloorIsKept
  <2>4. w \in Deliveries =>
          (mode.tx /\ view'[w] = "customer" /\ stage'[w] \in {"route", "forward"}
                => HasTheFloor(w)')
    BY <1>7 DEF LoudStep
  <2> QED BY <1>3, <2>2, <2>3, <2>4 DEF FloorIsKept
<1> QED BY <1>5, <1>8

LEMMA LoudInv ==
    ASSUME IInv, NEW w \in Writers, NEW x, LoudStep(w, x)
    PROVE  /\ StageFits' /\ NotYetStored' /\ AlreadyStored' /\ EventFollowsMessage'
           /\ KeysAreAccounted' /\ KeysHaveHolders' /\ SnapshotIsBehind' /\ FloorIsKept'
    BY LoudKeys, LoudStored, LoudFloor

LEMMA AppendIsLoud ==
    ASSUME IInv, NEW w \in Writers, AppendMessage(w), log' # log
    PROVE  LoudStep(w, Own(w))
<1>1. stage \in [Writers -> Stage]
    BY DEF IInv, TypeOK
<1>2. /\ stage[w] = "append" /\ ~InTx(w)
      /\ UNCHANGED <<mode, keyVars, events, direct, asked, answer, view>>
      /\ log' = [log EXCEPT ![ChatOf[w]] = Append(log[ChatOf[w]], Own(w))]
      /\ Goto(w, IF w \in Deliveries THEN "reread" ELSE "enqueue")
      /\ seen' = [seen EXCEPT ![w] = NoDoc]
    BY DEF AppendMessage, inputVars, outVars
<1>3. OthersStay(w) /\ stage'[w] = IF w \in Deliveries THEN "reread" ELSE "enqueue"
    BY <1>2, <1>1 DEF Goto, OthersStay, Stays, IInv, TypeOK
<1>4. w \in Replies => w \notin Deliveries
    BY WritersAssumption
<1> QED BY <1>2, <1>3, <1>4 DEF LoudStep

LEMMA CommitIsLoud ==
    ASSUME IInv, NEW d \in Deliveries, Commit(d), ~Again(d, "find")
    PROVE  LoudStep(d, Own(d))
<1>1. d \in Writers /\ TypeOK /\ stage \in [Writers -> Stage]
      /\ seen \in [Writers -> Seq(Entry) \X BOOLEAN]
    BY DEF Writers, IInv, TypeOK
<1>2. /\ stage[d] = "commit" /\ seen[d] = Doc(ChatOf[d])
      /\ UNCHANGED <<mode, keyVars, direct, asked>>
      /\ Apply(d, log[ChatOf[d]])
    BY DEF Commit, CommitFrame, inputVars
<1>3. InTx(d)
    BY <1>2 DEF InTx, IInv, StageFits
<1>4. OthersStay(d) /\ \/ stage'[d] = "route" /\ answer'[d] = answer[d] /\ view'[d] = view[d]
                       \/ stage'[d] = "done" /\ answer'[d] = "ok"
  <2>1. CASE Finish(d, "ok")
    BY <1>1, <2>1, FinishMoves
  <2>2. CASE Goto(d, "route") /\ seen' = [seen EXCEPT ![d] = NoDoc] /\ UNCHANGED <<answer, view>>
    BY <1>1, <2>2 DEF Goto, OthersStay, Stays
  <2> QED BY <1>2, <2>1, <2>2 DEF Apply
<1> QED BY <1>2, <1>3, <1>4 DEF LoudStep, Apply

LEMMA AnswerIsLoud ==
    ASSUME IInv, NEW d \in Deliveries, AppendAnswer(d)
    PROVE  LoudStep(d, BotAnswer(d))
<1>1. d \in Writers /\ TypeOK
    BY DEF Writers, IInv
<1>2. /\ stage[d] = "answer" /\ GoesOn(d, "emit")
      /\ UNCHANGED <<mode, keyVars, events, direct, asked>>
      /\ log' = [log EXCEPT ![ChatOf[d]] = Append(log[ChatOf[d]], BotAnswer(d))]
    BY DEF AppendAnswer, inputVars, outVars
<1> QED BY <1>1, <1>2, GoesOnMoves DEF LoudStep

-----------------------------------------------------------------------------
(* The theorems *)

LEMMA InitInv == Init => IInv
<1> SUFFICES ASSUME Init PROVE IInv
    OBVIOUS
<1>1. Deliveries \subseteq Writers /\ Replies \subseteq Writers
    BY DEF Writers
<1>2. TypeOK
    BY InitType
<1>3. Stored = {}
  <2>1. \A c \in Chats : log[c] = << >>
    BY DEF Init
  <2>2. \A c \in Chats : {log[c][i] : i \in DOMAIN log[c]} = {}
    BY <2>1
  <2> QED BY <2>2 DEF Stored
<1>4. StageFits /\ NotYetStored /\ AlreadyStored /\ EventFollowsMessage
    BY <1>1, <1>3 DEF Init, StageFits, NotYetStored, AlreadyStored, EventFollowsMessage, Routing
<1>5. KeysAreAccounted
    BY <1>1, <1>3 DEF Init, KeysAreAccounted, PastUpdate, PastSource, AtGuards, AtUpdateGuard
<1>6. KeysHaveHolders /\ SnapshotIsBehind /\ FloorIsKept
    BY <1>1 DEF Init, KeysHaveHolders, SnapshotIsBehind, FloorIsKept
<1> QED BY <1>2, <1>4, <1>5, <1>6 DEF IInv

\* A step leaves the conversations alone, or it is one writer's.
LEMMA StepCases ==
    ASSUME IInv, [Next]_vars
    PROVE  QuietStep \/ \E w \in Writers : \E x : LoudStep(w, x)
<1>1. Deliveries \subseteq Writers
    BY DEF Writers
<1>2. ASSUME NEW d \in Deliveries, Deliver(d) \/ DeliveryStep(d)
      PROVE  QuietStep \/ \E w \in Writers : \E x : LoudStep(w, x)
    BY <1>2, <1>1, GuardsQuiet, AnswerQuiet, CommitIsLoud, AnswerIsLoud DEF DeliveryStep
<1>3. ASSUME NEW w \in Writers, StoreStep(w) \/ Fail(w)
      PROVE  QuietStep \/ \E v \in Writers : \E x : LoudStep(v, x)
  <2>1. log' # log => AppendMessage(w)
    BY <1>3 DEF StoreStep, Find, Enqueue, Fail, chatVars
  <2> QED BY <1>3, <2>1, StoreQuiet, AppendIsLoud DEF StoreStep
<1> QED BY <1>2, <1>3, ReplyQuiet, OutsideQuiet DEF Next

LEMMA StepInv == IInv /\ [Next]_vars => IInv'
<1> SUFFICES ASSUME IInv, [Next]_vars PROVE IInv'
    OBVIOUS
<1>1. TypeOK'
    BY StepType DEF IInv
<1> QED BY <1>1, StepCases, QuietInv, LoudInv DEF IInv

\* The inductive invariant holds in every run of the intake.
THEOREM Invariance == Spec => []IInv
    BY InitInv, StepInv, PTL DEF Spec

\* Every variable keeps its type, whatever is delivered, answered or dropped.
THEOREM TypeCorrect == Spec => []TypeOK
<1>1. IInv => TypeOK
    BY DEF IInv
<1> QED BY <1>1, Invariance, PTL

\* enqueueEvent and createOrAppend share a transaction: nothing leaves that is not part
\* of its conversation, and no message is stored without the event that brings it on.
THEOREM MessagesHaveEvents == Spec => []EventFollowsMessage
<1>1. IInv => EventFollowsMessage
    BY DEF IInv
<1> QED BY <1>1, Invariance, PTL

\* An update is stored twice only after both keys were set twice or had expired:
\* preventDuplicates and ensureIdempotency let a copy through by no other way.
THEOREM StoredTwiceOnlyByRace == Spec => []StoredAgainOnlyByRace
<1>1. IInv => StoredAgainOnlyByRace
    BY DEF IInv, KeysAreAccounted, StoredAgainOnlyByRace, PastUpdate, PastSource, Source
<1> QED BY <1>1, Invariance, PTL

\* routeToAiIfEligible asks the AI directly only about a message that stands right
\* behind a customer's, never about one that follows an agent's.
THEOREM AgentKeepsTheFloor == Spec => []AgentHasTheFloor
<1>1. IInv => AgentHasTheFloor
    BY DEF IInv, TypeOK, FloorIsKept, HasTheFloor, AgentHasTheFloor
<1> QED BY <1>1, Invariance, PTL

\* No delivery is dropped as a copy without another delivery, or another chat's
\* message, that explains it.
THEOREM DroppedIsExplained == Spec => []SkippedIsExplained
<1>1. IInv => SkippedIsExplained
    BY DEF IInv, KeysHaveHolders, HoldsUpdate, HoldsSource, SkippedIsExplained
<1> QED BY <1>1, Invariance, PTL

\* A conversation only ever grows at its end: no writer drops or reorders what is there.
THEOREM ConversationsGrow == Spec => ConversationOnlyGrows
<1> DEFINE Grows == \A c \in Chats : /\ Len(log'[c]) >= Len(log[c])
                                     /\ SubSeq(log'[c], 1, Len(log[c])) = log[c]
<1>1. ASSUME IInv, [Next]_vars PROVE Grows
  <2> SUFFICES ASSUME NEW c \in Chats
               PROVE  /\ Len(log'[c]) >= Len(log[c])
                      /\ SubSeq(log'[c], 1, Len(log[c])) = log[c]
    OBVIOUS
  <2>1. log[c] \in Seq(Entry)
    BY <1>1 DEF IInv, TypeOK
  <2>2. log'[c] = log[c] \/ \E x \in Entry : log'[c] = Append(log[c], x)
    <3>1. CASE QuietStep
      BY <3>1 DEF QuietStep
    <3>2. ASSUME NEW w \in Writers, NEW x, LoudStep(w, x)
          PROVE  log'[c] = log[c] \/ \E y \in Entry : log'[c] = Append(log[c], y)
      BY <1>1, <3>2, LoudTalk
    <3> QED BY <1>1, <3>1, <3>2, StepCases
  <2> DEFINE s == log[c]
             t == log'[c]
  <2>3. s \in Seq(Entry) /\ (t = s \/ \E x \in Entry : t = Append(s, x))
    BY <2>1, <2>2
  <2> HIDE DEF s, t
  <2>4. Len(s) \in Nat /\ (Len(s) <= Len(t)) /\ t \in Seq(Entry)
        /\ \A i \in 1..Len(s) : t[i] = s[i]
    BY <2>3, AppendElements
  <2>5. SubSeq(t, 1, Len(s)) \in Seq(Entry) /\ Len(SubSeq(t, 1, Len(s))) = Len(s)
        /\ \A i \in 1..Len(s) : SubSeq(t, 1, Len(s))[i] = t[i]
    BY <2>3, <2>4, SubSeqProperties
  <2>6. SubSeq(t, 1, Len(s)) = s
    BY <2>3, <2>4, <2>5, SeqEqual
  <2> QED BY <2>4, <2>6 DEF s, t
<1>2. IInv /\ [Next]_vars => [Grows]_log
    BY <1>1
<1> QED BY <1>2, Invariance, PTL DEF Spec, ConversationOnlyGrows

=============================================================================
