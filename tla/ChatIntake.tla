----------------------------- MODULE ChatIntake -----------------------------
(***************************************************************************)
(* Incoming chat messages and replies.  The provider delivers an update to *)
(* the Telegram webhook, perhaps more than once; the controller and the    *)
(* service each look up a key in the cache and then set it, the message    *)
(* and its chat.incoming event are stored in one MongoDB transaction       *)
(* (without one where the server has no transactions), and the answer is   *)
(* chosen from the conversation: an order reply, the agent, or the AI.     *)
(* Agents and the bot reply to the same conversations meanwhile.           *)
(*                                                                         *)
(* Sources: modules/webhooks/telegram.webhook.controller.ts,               *)
(* webhooks.service.ts, utils/tx.util.ts and cache.util.ts,                *)
(* common/utils/idempotency.util.ts, modules/messaging/message.service.ts  *)
(* and its MongoDB repository.                                             *)
(*                                                                         *)
(* A conversation is the list of who wrote what; an event stands for the   *)
(* outbox document of a message, chat.incoming for a customer's and        *)
(* chat.reply for any other.  The copies that ChatGateway shows in the     *)
(* dashboard change no state and are left out.                             *)
(***************************************************************************)
EXTENDS Naturals, Sequences, FiniteSets

CONSTANTS
    Deliveries,   \* calls of the webhook
    MessageOf,    \* the Telegram update each of them carries
    Replies,      \* calls of handleAgentReply and handleBotReply
    RoleOf,       \* "agent" or "bot", for each reply
    ChatOf,       \* the conversation of each delivery and reply
    SourceOf,     \* sourceMessageId (message_id) of each update
    Contents,     \* what the updates may hold: see Kind
    Modes,        \* deployments: see Mode
    MaxMishaps    \* bound: calls that throw, keys that expire or are another's,
                  \* changes of handoverToAgent

Messages == {MessageOf[d] : d \in Deliveries}
Writers == Deliveries \cup Replies
Chats == {ChatOf[w] : w \in Writers}
Sources == {SourceOf[m] : m \in Messages}

\* "order": detectOrderIntent finds a question about an order; "empty": no text.
Kind == {"text", "order", "media", "empty"}
Role == {"customer", "agent", "bot"}
Entry == [by : Writers, role : Role]

\* tx: the MongoDB server has transactions; call: N8N_DIRECT_CALL_FALLBACK is set
\* and the channel's bot is enabled; send: DIRECT_SEND_FALLBACK is set.
Mode == [tx : BOOLEAN, call : BOOLEAN, send : BOOLEAN]

ASSUME WritersAssumption ==
    /\ Deliveries \cap Replies = {}
    /\ RoleOf \in [Replies -> {"agent", "bot"}]
    /\ Contents \subseteq [Messages -> Kind]
    /\ \A d, e \in Deliveries : MessageOf[d] = MessageOf[e] => ChatOf[d] = ChatOf[e]
ASSUME ModesAssumption == Modes \subseteq Mode
ASSUME BoundsAssumption == MaxMishaps \in Nat

VARIABLES
    mode,        \* how this deployment is configured
    kind,        \* kind[m]: what update m holds
    updateKeys,  \* updates whose key preventDuplicates has set
    sourceKeys,  \* sources whose key ensureIdempotency has set
    stage,       \* stage[w]: the call that writer w awaits
    answer,      \* answer[d]: how the webhook answered delivery d
    log,         \* log[c]: the messages of conversation c, << >> if it has no document
    handover,    \* handover[c]: handoverToAgent of its document
    seen,        \* seen[w]: the document as w found it
    view,        \* view[d]: what routing will know of the conversation
    events,      \* messages with an outbox event
    direct,      \* messages handed to the channel without the outbox
    asked,       \* deliveries forwarded to n8n
    again,       \* keys that were set although they were set, or that expired, and the
                 \* sources that another chat has used (history)
    mishaps

keyVars   == <<updateKeys, sourceKeys, again>>
chatVars  == <<log, handover>>
outVars   == <<events, direct, asked>>
callVars  == <<stage, answer, seen, view>>
inputVars == <<mode, kind>>
vars == <<inputVars, keyVars, chatVars, outVars, callVars, mishaps>>

Stage == {"none", "checkUpdate", "setUpdate", "checkSource", "setSource", "find",
          "append", "reread", "enqueue", "commit", "route", "answer", "emit",
          "send", "forward", "done"}
Answer == {"none", "skipped", "duplicate", "failed", "ok", "wait_agent", "ask_ai"}
View == {"none", "null"} \cup Role

Keys == ({"update"} \X Messages) \cup ({"source", "other chat"} \X Sources)

TypeOK ==
    /\ mode \in Modes
    /\ kind \in Contents
    /\ updateKeys \in SUBSET Messages
    /\ sourceKeys \in SUBSET Sources
    /\ stage \in [Writers -> Stage]
    /\ answer \in [Deliveries -> Answer]
    /\ log \in [Chats -> Seq(Entry)]
    /\ handover \in [Chats -> BOOLEAN]
    /\ seen \in [Writers -> Seq(Entry) \X BOOLEAN]
    /\ view \in [Deliveries -> View]
    /\ events \in SUBSET Entry
    /\ direct \in SUBSET Entry
    /\ asked \in SUBSET Deliveries
    /\ again \in SUBSET Keys
    /\ mishaps \in 0..MaxMishaps

\* The document of a conversation.
Doc(c) == <<log[c], handover[c]>>
NoDoc == << << >>, FALSE >>

Init ==
    /\ mode \in Modes
    /\ kind \in Contents
    /\ updateKeys = {}
    /\ sourceKeys = {}
    /\ stage = [w \in Writers |-> "none"]
    /\ answer = [d \in Deliveries |-> "none"]
    /\ log = [c \in Chats |-> << >>]
    /\ handover = [c \in Chats |-> FALSE]
    /\ seen = [w \in Writers |-> NoDoc]
    /\ view = [d \in Deliveries |-> "none"]
    /\ events = {}
    /\ direct = {}
    /\ asked = {}
    /\ again = {}
    /\ mishaps = 0

Source(d) == SourceOf[MessageOf[d]]
IsKind(d, k) == kind[MessageOf[d]] = k

Goto(w, s) == stage' = [stage EXCEPT ![w] = s]

\* The request ends; what it read is forgotten.
Finish(d, result) ==
    /\ Goto(d, "done")
    /\ answer' = [answer EXCEPT ![d] = result]
    /\ seen' = [seen EXCEPT ![d] = NoDoc]
    /\ view' = [view EXCEPT ![d] = "none"]

Mishap == mishaps < MaxMishaps /\ mishaps' = mishaps + 1

\* The request goes on with nothing new read.
GoesOn(w, s) == Goto(w, s) /\ UNCHANGED <<answer, seen, view>>

\* What w writes into the conversation first.
Own(w) == [by |-> w, role |-> IF w \in Deliveries THEN "customer" ELSE RoleOf[w]]

-----------------------------------------------------------------------------
(* The two guards against duplicates *)

\* The provider posts an update, for the first time or again.
Deliver(d) ==
    /\ stage[d] = "none"
    /\ GoesOn(d, "checkUpdate")
    /\ UNCHANGED <<inputVars, keyVars, chatVars, outVars, mishaps>>

\* Mutation of CheckUpdate: a key without the update's number.
CheckUpdateByChat(d) ==
    /\ stage[d] = "checkUpdate"
    /\ IF \E e \in Deliveries : ChatOf[e] = ChatOf[d] /\ MessageOf[e] \in updateKeys
       THEN Finish(d, "skipped")
       ELSE GoesOn(d, "setUpdate")
    /\ UNCHANGED <<inputVars, keyVars, chatVars, outVars, mishaps>>

\* preventDuplicates: cache.get, and the controller's early return
CheckUpdate(d) ==
    /\ stage[d] = "checkUpdate"
    /\ IF MessageOf[d] \in updateKeys
       THEN Finish(d, "skipped")
       ELSE GoesOn(d, "setUpdate")
    /\ UNCHANGED <<inputVars, keyVars, chatVars, outVars, mishaps>>

\* preventDuplicates: cache.set
SetUpdate(d) ==
    /\ stage[d] = "setUpdate"
    /\ GoesOn(d, "checkSource")
    /\ updateKeys' = updateKeys \cup {MessageOf[d]}
    /\ again' = IF MessageOf[d] \in updateKeys
                THEN again \cup {<<"update", MessageOf[d]>>} ELSE again
    /\ UNCHANGED <<inputVars, sourceKeys, chatVars, outVars, mishaps>>

\* ensureIdempotency: cache.get.  The key names neither the merchant nor the chat.
CheckSource(d) ==
    /\ stage[d] = "checkSource"
    /\ IF Source(d) \in sourceKeys
       THEN Finish(d, "duplicate")
       ELSE GoesOn(d, "setSource")
    /\ UNCHANGED <<inputVars, keyVars, chatVars, outVars, mishaps>>

\* Mutation of SetSource: the key is never set.
ForgetSource(d) ==
    /\ stage[d] = "setSource"
    /\ GoesOn(d, "find")
    /\ UNCHANGED <<inputVars, keyVars, chatVars, outVars, mishaps>>

\* ensureIdempotency: cache.set; then ensureRequired refuses a message without text,
\* and handleIncomingWithMedia, which has no fallback, needs a server with transactions.
SetSource(d) ==
    /\ stage[d] = "setSource"
    /\ IF IsKind(d, "empty") \/ (IsKind(d, "media") /\ ~mode.tx)
       THEN Finish(d, "failed")
       ELSE GoesOn(d, "find")
    /\ sourceKeys' = sourceKeys \cup {Source(d)}
    /\ again' = IF Source(d) \in sourceKeys
                THEN again \cup {<<"source", Source(d)>>} ELSE again
    /\ UNCHANGED <<inputVars, updateKeys, chatVars, outVars, mishaps>>

\* The cache drops a key at the end of its time to live.
Expire ==
    /\ Mishap
    /\ \/ \E m \in updateKeys :
            /\ updateKeys' = updateKeys \ {m}
            /\ again' = again \cup {<<"update", m>>}
            /\ UNCHANGED sourceKeys
       \/ \E s \in sourceKeys :
            /\ sourceKeys' = sourceKeys \ {s}
            /\ again' = again \cup {<<"source", s>>}
            /\ UNCHANGED updateKeys
    /\ UNCHANGED <<inputVars, chatVars, outVars, callVars>>

\* A message of another chat or another merchant's bot carries the number s and
\* passes ensureIdempotency: its key is the same.
TakeSource(s) ==
    /\ Mishap
    /\ s \notin sourceKeys
    /\ sourceKeys' = sourceKeys \cup {s}
    /\ again' = again \cup {<<"other chat", s>>}
    /\ UNCHANGED <<inputVars, updateKeys, chatVars, outVars, callVars>>

-----------------------------------------------------------------------------
(* createOrAppend and the outbox event *)

\* Only the messages of customers are stored in a transaction.
InTx(w) == mode.tx /\ w \in Deliveries

StartReply(r) ==
    /\ stage[r] = "none"
    /\ GoesOn(r, "find")
    /\ UNCHANGED <<inputVars, keyVars, chatVars, outVars, mishaps>>

\* findByMerchantSessionChannel; in a transaction, the snapshot.
Find(w) ==
    /\ stage[w] = "find"
    /\ seen' = [seen EXCEPT ![w] = Doc(ChatOf[w])]
    /\ Goto(w, "append")
    /\ UNCHANGED <<inputVars, keyVars, chatVars, outVars, answer, view, mishaps>>

\* $push, or the insert of a document with the message, which the unique index
\* refuses if another writer was faster.  In a transaction nothing shows before
\* the commit.
AppendMessage(w) ==
    LET c == ChatOf[w]
        refused == seen[w] = NoDoc /\ log[c] # << >>
    IN  /\ stage[w] = "append"
        /\ IF InTx(w)
           THEN GoesOn(w, "reread") /\ UNCHANGED log
           ELSE IF refused
           THEN /\ UNCHANGED <<log, view>>
                /\ Goto(w, "done")
                /\ answer' = IF w \in Deliveries
                             THEN [answer EXCEPT ![w] = "failed"] ELSE answer
                /\ seen' = [seen EXCEPT ![w] = NoDoc]
           ELSE /\ log' = [log EXCEPT ![c] = Append(@, Own(w))]
                /\ Goto(w, IF w \in Deliveries THEN "reread" ELSE "enqueue")
                /\ seen' = [seen EXCEPT ![w] = NoDoc]
                /\ UNCHANGED <<answer, view>>
        /\ UNCHANGED <<inputVars, keyVars, handover, outVars, mishaps>>

\* findById without the session: the committed document, null if there is none.
\* Routing uses its last role and handoverToAgent, which counts as an agent.
Reread(d) ==
    LET c == ChatOf[d]
    IN  /\ stage[d] = "reread"
        /\ view' = [view EXCEPT ![d] =
                        IF log[c] = << >> THEN "null"
                        ELSE IF handover[c] THEN "agent"
                        ELSE log[c][Len(log[c])].role]
        /\ Goto(d, "enqueue")
        /\ UNCHANGED <<inputVars, keyVars, chatVars, outVars, answer, seen, mishaps>>

\* Mutation of Enqueue: the insert is not given the session.
EnqueueOutsideTx(w) ==
    /\ stage[w] = "enqueue"
    /\ events' = events \cup {Own(w)}
    /\ Goto(w, IF InTx(w) THEN "commit" ELSE IF w \in Deliveries THEN "route" ELSE "done")
    /\ UNCHANGED <<inputVars, keyVars, chatVars, direct, asked, answer, seen, view,
                   mishaps>>

\* enqueueEvent, which shows at the commit if there is a transaction.  With
\* DIRECT_SEND_FALLBACK a reply goes to the channel instead.
Enqueue(w) ==
    /\ stage[w] = "enqueue"
    /\ \/ /\ InTx(w)
          /\ GoesOn(w, "commit")
          /\ UNCHANGED <<events, direct>>
       \/ /\ w \in Deliveries /\ ~InTx(w)
          /\ GoesOn(w, "route")
          /\ events' = events \cup {Own(w)}
          /\ UNCHANGED direct
       \/ /\ w \in Replies
          /\ GoesOn(w, "done")
          /\ IF mode.send
             THEN direct' = direct \cup {Own(w)} /\ UNCHANGED events
             ELSE events' = events \cup {Own(w)} /\ UNCHANGED direct
    /\ UNCHANGED <<inputVars, keyVars, chatVars, asked, mishaps>>

\* What the transaction of d does when it commits.
Apply(d, messages) ==
    /\ log' = [log EXCEPT ![ChatOf[d]] = Append(messages, Own(d))]
    /\ events' = events \cup {Own(d)}
    /\ IF IsKind(d, "media")
       THEN Finish(d, "ok")
       ELSE /\ Goto(d, "route")
            /\ seen' = [seen EXCEPT ![d] = NoDoc]
            /\ UNCHANGED <<answer, view>>

\* A write conflict: withTransaction runs the work again from step s.
Again(d, s) ==
    /\ Goto(d, s)
    /\ view' = [view EXCEPT ![d] = "none"]
    /\ UNCHANGED <<log, events, answer, seen>>

CommitFrame == UNCHANGED <<inputVars, keyVars, handover, direct, asked, mishaps>>

\* Mutations of Commit: the messages of the snapshot are written back; the message
\* goes to the end of a document that has changed; the work is run again with
\* the old snapshot.
CommitSnapshot(d) == stage[d] = "commit" /\ Apply(d, seen[d][1]) /\ CommitFrame
CommitUnchecked(d) == stage[d] = "commit" /\ Apply(d, log[ChatOf[d]]) /\ CommitFrame
CommitStale(d) ==
    /\ stage[d] = "commit"
    /\ IF seen[d] = Doc(ChatOf[d]) THEN Apply(d, log[ChatOf[d]]) ELSE Again(d, "append")
    /\ CommitFrame

\* The transaction commits unless another writer has changed or inserted the
\* document since the snapshot.
Commit(d) ==
    /\ stage[d] = "commit"
    /\ IF seen[d] = Doc(ChatOf[d]) THEN Apply(d, log[ChatOf[d]]) ELSE Again(d, "find")
    /\ CommitFrame

-----------------------------------------------------------------------------
(* routeByIntent and routeToAiIfEligible *)

\* An order question is answered whoever has the conversation; otherwise the
\* conversation as reread decides, and a document that was null is a TypeError.
Route(d) ==
    /\ stage[d] = "route"
    /\ CASE IsKind(d, "order") -> GoesOn(d, "answer")
         [] ~IsKind(d, "order") /\ view[d] = "null" -> Finish(d, "failed")
         [] ~IsKind(d, "order") /\ view[d] = "agent" -> Finish(d, "wait_agent")
         [] ~IsKind(d, "order") /\ view[d] = "customer" /\ mode.call ->
                GoesOn(d, "forward")
         [] OTHER -> Finish(d, "ask_ai")
    /\ UNCHANGED <<inputVars, keyVars, chatVars, outVars, mishaps>>

BotAnswer(d) == [by |-> d, role |-> "bot"]

\* Mutation of AppendAnswer: the role of the copy for the dashboard is stored.
AppendAnswerAsSystem(d) ==
    /\ stage[d] = "answer"
    /\ log' = [log EXCEPT ![ChatOf[d]] = Append(@, [by |-> d, role |-> "system"])]
    /\ GoesOn(d, "emit")
    /\ UNCHANGED <<inputVars, keyVars, handover, outVars, mishaps>>

\* replyAndEmit: createOrAppend; the document exists, so it is a $push.
AppendAnswer(d) ==
    /\ stage[d] = "answer"
    /\ log' = [log EXCEPT ![ChatOf[d]] = Append(@, BotAnswer(d))]
    /\ GoesOn(d, "emit")
    /\ UNCHANGED <<inputVars, keyVars, handover, outVars, mishaps>>

\* replyAndEmit: the chat.reply event
EmitAnswer(d) ==
    /\ stage[d] = "emit"
    /\ events' = events \cup {BotAnswer(d)}
    /\ IF mode.send THEN GoesOn(d, "send") ELSE Finish(d, "ok")
    /\ UNCHANGED <<inputVars, keyVars, chatVars, direct, asked, mishaps>>

\* directSendIfEnabled
SendAnswer(d) ==
    /\ stage[d] = "send"
    /\ direct' = direct \cup {BotAnswer(d)}
    /\ Finish(d, "ok")
    /\ UNCHANGED <<inputVars, keyVars, chatVars, events, asked, mishaps>>

\* n8nForwarderService.forward
Forward(d) ==
    /\ stage[d] = "forward"
    /\ asked' = asked \cup {d}
    /\ Finish(d, "ask_ai")
    /\ UNCHANGED <<inputVars, keyVars, chatVars, events, direct, mishaps>>

\* The call that w awaits throws, or its process dies: a transaction is aborted, the
\* keys in the cache stay.  n8n may have taken the message before a timeout.
Fail(w) ==
    /\ stage[w] \notin {"none", "done"}
    /\ Mishap
    /\ IF w \in Deliveries
       THEN Finish(w, "failed")
       ELSE /\ Goto(w, "done")
            /\ seen' = [seen EXCEPT ![w] = NoDoc]
            /\ UNCHANGED <<answer, view>>
    /\ \/ UNCHANGED asked
       \/ stage[w] = "forward" /\ asked' = asked \cup {w}
    /\ UNCHANGED <<inputVars, keyVars, chatVars, events, direct>>

\* setHandover: an update of the document, if there is one
SetHandover(c) ==
    /\ log[c] # << >>
    /\ Mishap
    /\ handover' = [handover EXCEPT ![c] = ~@]
    /\ UNCHANGED <<inputVars, keyVars, log, outVars, callVars>>

-----------------------------------------------------------------------------
DeliveryStep(d) ==
    \/ CheckUpdate(d) \/ SetUpdate(d) \/ CheckSource(d) \/ SetSource(d)
    \/ Reread(d) \/ Commit(d)
    \/ Route(d) \/ AppendAnswer(d) \/ EmitAnswer(d) \/ SendAnswer(d) \/ Forward(d)

StoreStep(w) == Find(w) \/ AppendMessage(w) \/ Enqueue(w)

Next ==
    \/ \E d \in Deliveries : Deliver(d) \/ DeliveryStep(d)
    \/ \E r \in Replies : StartReply(r)
    \/ \E w \in Writers : StoreStep(w) \/ Fail(w)
    \/ \E c \in Chats : SetHandover(c)
    \/ \E s \in Sources : TakeSource(s)
    \/ Expire

Spec == Init /\ [][Next]_vars

\* Every call that a request awaits returns or throws.
Fairness ==
    /\ \A d \in Deliveries : WF_vars(DeliveryStep(d) \/ StoreStep(d))
    /\ \A r \in Replies : WF_vars(StoreStep(r))

FairSpec == Spec /\ Fairness

-----------------------------------------------------------------------------
(* Properties *)

Stored == UNION {{log[c][i] : i \in DOMAIN log[c]} : c \in Chats}

\* Nothing leaves for the AI or the channel that is not part of its conversation,
\* and where the server has transactions, no customer's message is part of a
\* conversation without the event that will bring it to the AI.
EventFollowsMessage ==
    /\ events \cup direct \subseteq Stored
    /\ mode.tx => \A d \in Deliveries : Own(d) \in Stored => Own(d) \in events

\* An update is stored a second time only if both guards failed: for either key, two
\* deliveries looked before one of them had set it, or it had expired.
StoredAgainOnlyByRace ==
    \A d, e \in Deliveries :
        d # e /\ MessageOf[d] = MessageOf[e] /\ {Own(d), Own(e)} \subseteq Stored
            => {<<"update", MessageOf[d]>>, <<"source", Source(d)>>} \subseteq again

\* No interleaving of customers, agents and the bot drops or reorders what is in a
\* conversation.
ConversationOnlyGrows ==
    [][\A c \in Chats :
            /\ Len(log'[c]) >= Len(log[c])
            /\ SubSeq(log'[c], 1, Len(log[c])) = log[c]]_log

\* With transactions, the AI is called directly only for a message that was stored
\* right behind another message of a customer, whatever was written between the
\* reading of the conversation and the commit: never behind an agent's.
AgentHasTheFloor ==
    mode.tx =>
        \A d \in asked : \A i \in DOMAIN log[ChatOf[d]] :
            log[ChatOf[d]][i] = Own(d)
                => i > 1 /\ log[ChatOf[d]][i - 1].role = "customer"

OthersOf(d) == {e \in Deliveries \ {d} : MessageOf[e] = MessageOf[d]}

\* e has stored its message, is still at work, or was itself answered with an error.
Accounts(e) ==
    \/ Own(e) \in Stored
    \/ stage[e] \notin {"none", "done"}
    \/ answer[e] = "failed"

\* A delivery is dropped in silence, or refused as a duplicate, only for another one of
\* the same update or source that accounts for it; a refused one also because another
\* chat's message has the number of its own.
SkippedIsExplained ==
    \A d \in Deliveries :
        /\ answer[d] = "skipped" =>
               \E e \in OthersOf(d) : Accounts(e) \/ answer[e] = "duplicate"
        /\ answer[d] = "duplicate" =>
               \/ \E e \in Deliveries \ {d} : Source(e) = Source(d) /\ Accounts(e)
               \/ <<"other chat", Source(d)>> \in again

\* webhooks.controller.ts answers 200 for "received": an update whose delivery was
\* answered so is in the conversation, or another delivery of it is at work.
SkippedWasReceived ==
    \A d \in Deliveries : answer[d] = "skipped" =>
        \E e \in OthersOf(d) : Own(e) \in Stored \/ stage[e] \notin {"none", "done"}

\* Every request ends, however often its transaction meets a conflict.
EveryRequestEnds ==
    \A w \in Writers : stage[w] # "none" ~> stage[w] = "done"
=============================================================================
