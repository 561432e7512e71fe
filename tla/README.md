# A TLA+ model of the Kleem back end

The repository is a NestJS back end for shops that answer their customers with
a bot: chat messages come in over Telegram, WhatsApp and a web widget, are
stored in MongoDB, brought to an AI workflow (n8n) over RabbitMQ and answered
over the channel they came from; products are imported from Zid and Salla and
indexed in Qdrant; Redis holds locks, caches and sessions.  The modules here
model the parts where several of these stores and several processes have to
agree.  Paths below are relative to `src/src/`.

## 1. The system

| Part | State | Operations | Who it talks to |
|---|---|---|---|
| Outbox (`common/outbox`) | documents with status, attempts, next attempt, lock | insert (in a transaction or not), claim loop, mark, reschedule, reap | every producer; RabbitService |
| RabbitService (`infra/rabbit`) | connection, channel, subscriptions | publish with confirm, subscribe, reconnect | outbox, catalog, dispatchers |
| Catalog sync (`modules/catalog`) | a Redis lock, a dedupe key | consume, import, notify | RabbitService, Redis lock, products, notifications |
| Product import (`modules/products`) | products | look up, upsert, index | MongoDB, Qdrant |
| Webhook intake (`modules/webhooks`) | two sets of cache keys | incoming, bot reply, agent reply | cache, messaging, outbox, n8n, channels |
| Messaging (`modules/messaging`) | conversations: a list of messages, handoverToAgent | create or append, set handover, rate | MongoDB, chat gateway |
| Reply dispatch (`infra/dispatchers`, `modules/channels`, `workers`) | none | consume chat.reply and chat.incoming, send | RabbitMQ, channels, n8n |
| Chat gateway (`modules/chat`) | rooms, rates, a gauge in memory | connect, join, emit | browsers |
| Cache (`common/cache`) | a level in each process, one in Redis | get, fill, invalidate, expire | Redis |
| Sessions (`modules/auth`) | a session per jti, a list of jtis per user, a blacklist | log in, rotate, revoke one or all | Redis |
| Account (`modules/auth`) | the user, verification codes, reset links | register, verify, reset and change the password, ensure a merchant | MongoDB, mail |
| Categories (`modules/categories`) | a parent and a list of ancestors per category | create, update, move, remove with the subtree | MongoDB, products |
| FAQ, knowledge, documents, products | documents with a status, files, vectors, jobs | CRUD, background embedding | MongoDB, MinIO, Qdrant, Bull |
| Kleem's own FAQ (`modules/kleem`) | entries with the state of their vector | create, edit, import, delete, reindex | MongoDB, Qdrant |
| Provisioning (`modules/merchants`) | merchant, workflow, storefront | create with rollback, remove | MongoDB, n8n |
| Workflow versions (`modules/n8n-workflow`, `workflow-history`) | what n8n runs, numbered entries | update, roll back | n8n, MongoDB |
| Prompts (`modules/merchants`, `modules/kleem/botPrompt`) | a merchant's template, its versions and a cached copy; Kleem's prompts, of which one is active | save, revert, read, invalidate; create, edit, activate, archive | MongoDB, cache |
| Kleem's talks (`modules/kleem/chat`, `botChats`, `webhook`) | a list of messages per session; the typing sign, an interval in each process | say, answer, rate | MongoDB, n8n, browsers |
| Public addresses (`modules/merchants`, `storefront`, `chat`, `public`) | a unique `publicSlug` per merchant, and the slugs of its storefronts and widgets | open, rename, purge; create, choose a slug; first calls of customers | MongoDB |
| Usage and plans | a counter per merchant and month | none that is called | MongoDB |
| Everything else | single documents | CRUD | MongoDB |

What is hard, and what makes each part correct:

* **Outbox.**  Ticks overlap, die, time out and are taken over by the reaper,
  and no update but the claim tests the state it changes.  It is correct if no
  stored event is forgotten, every event settles, and a second copy of an event
  always has a failed attempt or the reaper behind it.
* **Catalog sync.**  All processes receive every request; a lock with a time to
  live is all that keeps their imports apart.  It is correct if the lock
  excludes as long as it lives, never outlives its cause, and whoever asked for
  a sync hears of its end.
* **Chat intake.**  Updates are delivered again, requests of one conversation
  interleave, and the conversation, the event and the routing decision come from
  separate calls.  It is correct if each message is stored once, nothing in a
  conversation is lost, every stored message has its event, and the bot does not
  answer where an agent has the floor.
* **Index parts** (products, FAQ, knowledge, documents, Kleem's FAQ).  A database and a
  vector store are changed one after the other, with background work between.  They are
  correct if what is stored as completed is found as it reads now, what is deleted is not
  found, and nothing stays pending.
* **Cache.**  A value is read, and stored after it was invalidated; other processes keep
  theirs.  It is correct if an invalidation reaches what it can reach and nothing is stale
  for ever.
* **RabbitMQ connection.**  One attempt to connect is shared by all callers and lets them
  in at every await; events of old connections come when they like.  It is correct if a
  process that can publish also consumes, each subscription once, and no publish hangs.
* **Sessions and account.**  Read, decide, write, with other calls between.  They are
  correct if what was ended stays ended, a token or link works once, and a verified user
  has one merchant.
* **Categories.**  The guard against loops and the removal of a subtree read a list that
  a move does not recompute.  Parents must never form a loop, and a removal must not
  leave orphans.
* **Prompts.**  A template is copied to its versions by one call and replaced by another; the
  active prompt is made the only one by a call of its own.  What the bots are told must be what
  was saved or activated last, and no template may be lost.
* **Kleem's talks.**  Calls of one session append to one document, n8n's answer comes to any
  process, and an answer is rated by an index counted before it was stored.  Nothing said may
  be lost or doubled, a rating must hit its answer, and the sign must not be left on.
* **Provisioning and workflow versions.**  n8n and MongoDB are changed one after the
  other, with a rollback that may fail itself.  They are correct if both agree on which
  workflows there are, whose they are, and which version runs.

* **Public addresses.**  Two documents hold a copy of a merchant's address, made at different
  times by different routes, and only one of them is told of a change.  A customer must find
  the merchant whose address he has.

Everything in the code of this kind is listed, at its line, under `hazards` in
`PROJECT.json`, with the properties that cover it or the plan for it.

## 2. Modules

| Module | Models | Checked by | Proved in |
|---|---|---|---|
| `EventRelay` | what an outbox promises: at-least-once relaying | through `Outbox!RelaySpec` | `OutboxProofs` |
| `Outbox` | `common/outbox`, `RabbitService.publish` | `MCOutbox` | `OutboxProofs` |
| `CatalogSync` | `modules/catalog`, `common/locks`, product import, the consumer side of `RabbitService` | `MCCatalogSync` | `CatalogSyncProofs` |
| `ChatIntake` | `modules/webhooks` (Telegram, replies), `modules/messaging` | `MCChatIntake` | `ChatIntakeProofs` |
| `SearchIndex` | FAQs, knowledge URLs, documents and products with their vectors | `MCContent` | `ContentProofs` |
| `BotFaq` | `modules/kleem/botFaq` | `MCContent` | `ContentProofs` |
| `TwoLevelCache` | `common/cache`, one key | `MCContent` | `ContentProofs` |
| `CategoryTree` | `modules/categories` | `MCMerchant`, `MCCategoryTree` | `MerchantProofs` |
| `Sessions` | refresh tokens of `modules/auth` | `MCMerchant` | `AccountProofs` |
| `Account` | registration, verification, passwords, `ensureForUser` | `MCMerchant` | `AccountProofs` |
| `Provisioning` | merchant creation and removal, n8n workflows | `MCMerchant` | `MerchantProofs` |
| `WorkflowVersions` | update and rollback of a workflow, its history | `MCMerchant` | `MerchantProofs` |
| `MerchantPrompts` | a merchant's prompt, its versions, its cached copy | `MCMerchant` | `BotProofs` |
| `BotPrompts` | `modules/kleem/botPrompt` | `MCMerchant` | `BotProofs` |
| `Prompts` | both kinds of prompts, which share no state, and what is asked of both | `MCMerchant` | `BotProofs` |
| `KleemChat` | one talk with the support bot: `modules/kleem/chat`, `botChats`, `webhook` | `MCMerchant` | `BotProofs` |
| `ShopAddresses` | `publicSlug`, the slugs of storefronts and widgets, the public router | `MCMerchant` | `MerchantProofs` |
| `RabbitConnection` | the connection machine of `infra/rabbit` | `MCRequests` | `RabbitConnectionProofs` |

`MCContent`, `MCMerchant` and `MCRequests` put together modules that share no state.  Their initial state
names one *part*; a behaviour is one of that part, the others at rest.  A step of one part
changes nothing that another reads, so interleaving them would add states and no behaviour.

### Outbox

A document is its `status`, `attempts`, the time left until `nextAttemptAt`
(`wait`) and the age of its lock (`lockAge`); a tick is where it stands in
`tick()` (`stage`) and what it has claimed (`batch`, each entry with the attempts
that the claim returned).  `copies` counts what the broker took, `late` holds the
frames that outlive the `publish()` that wrote them.

| Action | Code |
|---|---|
| `Enqueue` | `addEventInTx`, `enqueueEvent` with the unique `dedupeKey`, at the commit |
| `StartTick`, `ClaimOne`, `EndClaim` | `tick`, the loop of `claimBatch`, one atomic update per step |
| `BrokerAccepts` | `ch.publish` up to the broker |
| `MarkPublished` | the confirm and `markPublished`, by `_id` only |
| `Reschedule` | the `catch` of `tick`: any failure, before or after the broker took the copy |
| `LoseTick` | the process dies, or `claimBatch` or `reschedule` throws out of `tick` |
| `LateArrival` | a frame whose publisher has given up arrives |
| `Recover` | the reaper, one document of its `updateMany` at a time |
| `Elapse` | time |

Left out: `lockedBy` (never read), error texts, and the index that purges
documents seven days after `publishedAt`.

### CatalogSync

A handler is one delivery of one message in one process (the queue is temporary
and exclusive, so each process gets a copy); a direct call of `syncForMerchant`
(the product-source switch in mode "immediate") runs the same import without the lock.
One merchant is modelled: nothing in the code relates two.  `CheckNew`,
`TryLock`, `Refuse`, `Announce`, `Report`, `Apologise` and `Release` are the
awaited calls of `handleCatalogSyncMessage` in their order, `LookUp` and `Upsert`
those of the import; `SyncFails`, `RedisFails` and the alternatives in `Refuse`
and `Apologise` are their failures.  `Disconnect`, `Reconnect` and `Crash` are what
happens to a process and its queue.

The dedupe key is the merchant with the current millisecond, as no message has an id, so
`msTaken` says whether this millisecond's key exists, and `NextMillisecond` is the clock.
Four variables are history: `overrun`, that a lock has expired under a handler of the current
overlap; `tainted`, that two imports have overlapped; `through`, the handlers that found the key
of this millisecond free; and `ahead[h]`, those that had when `h` was sent away.
`RequestAnswered` looks at `ahead`: whoever is sent away must have somebody of *another* request
before it, who goes on.  So two deliveries of one request may never send both each other away.

### ChatIntake

A writer is a call of the Telegram webhook or of `handleAgentReply` or
`handleBotReply`; its `stage` is the call it awaits.  A conversation is the list of
who wrote what.  `Find`, `AppendMessage`, `Reread`, `Enqueue` and `Commit` are
`createOrAppend` and `enqueueEvent`; in a transaction only `Commit` shows anything,
and a document changed since `Find` makes it run again, as `withTransaction` does
after a write conflict.  Without transactions every call shows at once.  `Route`
and what follows is `routeByIntent` and `routeToAiIfEligible`.  `Mode` holds the
deployment switches (transactions, `N8N_DIRECT_CALL_FALLBACK` with an enabled bot,
`DIRECT_SEND_FALLBACK`), chosen at the start.  `TakeSource` is all that the
conversation notices of another chat: the key of `ensureIdempotency` has neither chat nor
merchant in it, so a message there with the same number makes the one here a
"duplicate".  `SkippedIsExplained` admits that as one of the reasons for which a message
may be refused, beside another delivery of it, and shows that there is no third.

Left out: copies shown in the dashboard (they change no state), ratings, test
replies, `handleEvent`, the WhatsApp controllers and signature checks.  The cache is
one store for all deliveries; a deployment whose cache lives in each process would
let a second process's delivery through, which is the case "key expired" here.

### SearchIndex

An item is an FAQ, a URL, a document or a product (`library`).  Its `status` and `text` are
what MongoDB says, `point` is what Qdrant says, `file` and `queued` are MinIO and the Bull
queue.  An actor is a service call or a Bull worker; `work` says what it does and on which
items.  A step is what happens between two awaits.

| Action | Code |
|---|---|
| `Insert`, `Announce`, `Pick`, `Upsert`, `MarkCompleted`, `MarkFailed`, `Tell` | `createMany`, `addUrls` and their background loops |
| `EditFaq`, `WriteFaq`, `SoftDelete`, `EraseFaq`, `ErasePoint`, `Remove` | the other operations of `faq.service.ts` |
| `Upload`, `Record`, `EnqueueJob`, `TakeJob`, `Fetch`, `Download`, `DiscardDocument`, `Unstore` | `documents.service.ts` and the job's processor |
| `CreateProduct`, `UpdateProduct`, `SetAvailability`, ... | `product-commands.service.ts`, indexing within the request |
| `Catch`, `ClearFails`, `Throw`, `Restart` | a call that throws into a catch block, or out of the operation, before or after it took effect; a restart of the process |

`raced` and `apart` are history variables: which items two calls worked on at once, and which
operation left which item's stores apart.  The properties name the operations they excuse.

Facts the model rests on, each a small divergence of its own: deleting all FAQs for good,
and deleting URLs, always throws, as the callers pass `{ must }` and the vector service wants
`points` or `filter` (`vector.service.ts:143-149`); nothing deletes a document's vectors; a
soft-deleted FAQ keeps its vector; document chunks get ids `<docId>-<n>`, which Qdrant accepts
only as UUIDs or integers, so that the model lets that call succeed or fail.

### BotFaq

`faq[i]` is the entry with its `vectorStatus`, `vector[i]` what Qdrant holds.  `Store` begins
`create` and `bulkImport`, `Edit` `update`, `ReindexAll` and `Delete` the operations of their
names; `admin[a].at` is the awaited call.  `Edit` finds deleted entries too and indexes them
again, as `findById` and `updateById` do not ask for the status.

### TwoLevelCache

One key.  `l1[n]` is the map of process n, `l2` Redis, `lock` the fill lock; values are
versions of `truth`.  `getOrSet` is `MissL1` and the reader's steps, with the wait for
another filler and the fill without a lock after it; `Change` and the writer's steps are a
product command and `invalidate`, which clears the process it runs in, scans Redis and
deletes what the scan found.  Only the warmers call `getOrSet`; list endpoints call `get` and
`set`, which are steps of it.  `KeepInL1` copies a Redis entry into the process if it is still
valid when it arrives; otherwise `DeleteExpired` and `ForgetExpired` delete it in Redis and in the
process, whatever is there by then, and the call goes on as after a miss.  A product *update* invalidates no list at all, and an entry
then lives out its time, which `StalenessEnds` allows.

### CategoryTree

`parent` and `ancestors` are two fields of one document; only creation computes the second.
An editor's `at` is the awaited call: `CreateCategory`, `Move`, `Update` and
`RemoveCategory` begin the operations of the service, `IsDescendant` and `Subtree` are the two
queries over `ancestors`.  `gone` holds the ids of deleted documents: MongoDB never hands out an id
twice, so a new category is none of them, and lists that still name one say nothing of another.
Left out: sibling order, path, depth, images.

### Sessions

`session`, `list` and `blacklist` are the three kinds of keys in Redis; a `call` is a login, a
refresh, a log-out or a log-out everywhere, at the Redis call it awaits.  The list is read by
one step and written by another.  `Fail` ends a call at any of them.

### Account

`user` holds `emailVerified` and `merchantId`; `codes` and `links` are the two token
collections, `used` their flag.  Every operation of `auth.service.ts` on them is a `visit`, with
one step per awaited call, and `Break` ends it.  `OpenShop` is the insert of `ensureForUser`
under the unique index on the owner.  `PurgeShop` leaves the user's `merchantId` dangling,
after which `ensureMerchant` refuses for ever.

### Provisioning

`CreateMerchant`, `CreateWorkflow`, `Activate`, `LinkWorkflow`, `StoreHistory`, `SaveMerchant`
and `CreateStorefront` are the awaited calls of `create`; `MakingFails` goes to the catch
block, whose undoing steps may fail by `UndoingFails`, which the code ignores.  A call of n8n
that fails for its caller may have taken effect there: a creation or a deletion that times out
leaves the workflow there or not.  An error inside `createForMerchant` leaves no id to undo.  `AdminCreate` is the same inner sequence for
the admin's route (and for `cloneToMerchant`).  `ensureForUser` makes a merchant without
workflow and storefront, which is `Account`'s matter.

### WorkflowVersions

`history` is the list of entries, `running` what n8n has.  `UpdateWorkflow` reads the newest
number (`NextNumber`), patches n8n (`Patch`), stores (`StoreVersion`); `RollbackWorkflow` takes an old
entry and numbers the new one by the old number plus one.  No index makes numbers unique.

### MerchantPrompts

`prompt` is the template and whatever else the compiled text is made of, `versions` the history
array (as a set), `cached` the entry `merchant:<id>`.  `ReadPrompt`, `LoadPrompt` and `KeepPrompt`
are `findOne`; `SaveTemplate`, `RevertTo` and the steps after them are `saveAdvancedTemplate` and
`revert`; `UpdateQuickConfig` stands for every writer that ends with `Invalidate`.  Saving takes
two snapshots, one in the controller and one in the service; `revert` invalidates nothing; the
body of `UpdateMerchant` may name the template and its history.  `owed` and `outdated` are history
variables, of what may not be lost and of what leaves an old copy.  Left out: the stored
`finalPromptTemplate` and the key `merchant:prompt:<id>`, whose only reader, `buildFinalPrompt`, has
no caller.

### BotPrompts

`create`, `update` and `setActive` of a system prompt make the others inactive by a separate
`updateMany` (`Clear`, `ClearOthers`).  `UpdatePrompt` sets `active` to what the request says or to
FALSE: the dto's initialiser survives `PartialType`, so that any other edit of the active prompt
makes it inactive.  `publish` has no route.  `muddled` is a history variable: calls met, or one died
between its writes.

### KleemChat

`talk` is the list in MongoDB; `asker[q]` the call that brings the visitor's line `q`, `answerer[q]`
the call of n8n's answer to it and the rating of that answer, each at what it awaits.  A "note"
is a line that the admin's or the second webhook's route appends: it asks nothing.

| Action | Code |
|---|---|
| `Say`, `FindTalk`, `WriteTalk` | `createOrAppend`: `findOne`, then a save or a create |
| `Post`, `PostReturns`, `PostFails`, `StopLater` | the rest of `handleUserMessage` and its timer |
| `AskFails` | a call before the post throws; the prompt's are outside the `try` |
| `Reply`, `FindForReply`, `WriteReply`, `ReplyFails` | `botReply` |
| `Rate`, `SaveRating` | `rateMessage` |
| `StartAgain` | a restart: the intervals, timers and calls of a process are gone |

Three facts of mongoose carry it: a `push` is saved as `$push`, so that two saves of one document
both stay (`WriteTalk`; `markModified` does not change that); the document that `save` returns
shows only what was found and what was pushed, so that `messages.length - 1` is short by whatever
came in between (`WriteReply`); and a change at an index is saved only if nothing was pushed since
(`SaveRating`).  Two first messages of a session meet at the unique index, and the second caller
gets an error.  `astray` and `shifted` are history variables, the two exceptions: an interval that
is left on because the prompt could not be built, or because the answer came to another process;
an answer before which another message was stored.

### ShopAddresses

`address` is each merchant's `publicSlug`, which a unique index keeps apart; `stores` and
`widgets` are the slugs of his storefronts and of his widget settings, of which no index keeps
one per merchant.  `Rename` and `WriteAddress` are `MongoMerchantsRepository.update`: the test, and
the write on which the index has the last word.  `SyncWidget` and `PutWidget` are the upsert of
`syncWidgetSlug`, whose find and insert are two steps, as they are in MongoDB where no unique index
stands behind an upsert.  It is given the slug as it was asked for, so `asked` may be `Unlisted`:
the DTO lets capitals and doubled hyphens pass, and the repository folds them.  `CreateStore` and
`PatchStore` lead through `Mirror`, the hook before a save, and ask nobody whether the merchant is
there: the hook keeps the slug of the request if it is not; `TestSlug` counts one's own slug as
taken, since the id it is to leave out is read from a field that a lean document does not have.
`Call`, `Look`, `AddStore` and `AddWidget` are the public router.

Two storefronts under one slug are found by either merchant's customers.  `StoreIsAtItsAddress`
says how it comes to that: only over an address that was left, since a change or a purge does
not touch the storefront, or over a slug that was chosen while nobody's storefront had it.  No
order of creations, first calls and changes leads to it without one of the two.
`ChatIsAtItsAddress` says what a widget may miss: two changes that met, a failure, another
spelling, or two inserts.

### RabbitConnection

`conn` and `ch` are the two fields; `open`, `channel` and `consumers` what the broker has.
`attempt` is where the one shared `connectWithRetry` stands, `apply[a]` an `applySubscription`
run by it or by `subscribe`, `caller` a `publish` or `subscribe`.  `ConnectionCloses` is the close
event, which clears the fields of whatever connection they are; `ChannelCloses` leaves the
fields set, so that publishes fail on a dead channel until the connection goes too.  A refusal
that lasts for ever (a queue with other arguments) makes `connectWithRetry` loop for ever;
`MaxFaults` excludes it.

## 3. Runs

`outbox_final` checks for deadlock until it finds its violation; the other runs set
`CHECK_DEADLOCK FALSE`, as their systems stop when every event, message, request or call of the
instance has been handled.  That they do not stop before is what the liveness properties say.

| Run | Configuration | Shows |
|---|---|---|
| `outbox` | 2 ticks, 2 events, 2 attempts, batches of 2, lost confirms, late frames, the reaper | `PublishedWasAccepted`, `SingleHolder`, `DuplicatesAccounted`, `OverrunOnlyByRecovery`, and `RelaySpec`: it implements `EventRelay` |
| `outbox_live` | 2 ticks, 3 events, two with one dedupe key, 1 attempt, 1 lost tick | `EventuallySettled` |
| `outbox_final` | 2 ticks, 1 event | violated: `PublishedIsFinal` |
| `catalog` | 2 processes, 2 requests, a lock of 1 time unit, 1 failure, 1 crash or disconnection | `OneHandlerUnlessExpired`, `LockHasAHolder`, `RequestAnswered` |
| `catalog_live` | 1 process, 2 requests, 1 product, 1 direct call, 1 failure, 1 crash | `ImportedOnce`, `LockComesBack` |
| `chat` | an update delivered twice, an order question, an agent's reply, one mishap, both modes | `EventFollowsMessage`, `StoredAgainOnlyByRace`, `AgentHasTheFloor`, `SkippedIsExplained`, `ConversationOnlyGrows` |
| `requests_live` | chat: 2 updates (text with text, media or nothing), an agent's reply, one mishap; connection: 2 subscriptions, 1 publisher, 2 faults | `EveryRequestEnds`; `SubscriptionsAreServed`, `EveryPublishEnds` |
| `chat_lost` | as `chat`, other contents | violated: `SkippedWasReceived` |
| `content` | index: 2 items in three mixes of kinds, 2 requests, 1 worker, 1 mishap; bot: 1 entry, 2 admins, 2 refusals; cache: 2 readers in 2 processes, 1 writer, lifetimes of 1 | `SearchFollowsStore`, `DeletedFaqComesBackOnlyByWork`, `NothingStaysPending`; `BotAnswersAreCurrent`; `CacheIsSound`, `StalenessEnds` |
| `merchant` | tree: 3 categories, 2 editors, 1 product; sessions: 3 tokens, 3 calls; account: 3 calls, 2 codes, 2 links; provisioning: 2 merchants, 2 jobs, 2 errors; versions: 2 calls, 4 entries, 1 outage; prompts: 2 templates and the empty one, 2 configurations, 2 calls, 1 failure; Kleem: 2 prompts, 2 admins, 1 failure; its talk: 2 lines, 2 processes, 1 failure or restart; addresses: 2 merchants, 2 addresses, 3 calls around the widget or 2 around the storefront, 1 failure | `TreeStaysWhole`; `TokensEndOnce`; `SpentLinksAreDead`, `AnsweredHasMerchant`; `MerchantsMatchWorkflows`; `NewestVersionRuns`; `PromptsAreCurrent`; `TalkIsSound`; `AddressesAreKept` |
| `categories_loop` | 3 categories, 2 editors | violated: `NoLoop` |

`outbox`, `requests_live`, `catalog`, `chat`, `content` and `merchant` also check the type
invariants.  `TreeStaysWhole` is `LoopTakesTwoMoves` with `NothingIsCutOff`, `SubscriptionsAreServed`
is `OpenChannelConsumes` with `OneConsumer`, `CacheIsSound` is `InvalidationReaches` with
`FillsAlternate`, `PromptsAreCurrent` is `PromptIsCurrent`, `NoTemplateIsLost` and
`LastActivatedAnswers`, `TalkIsSound` is `TypingIsOwed`, `TalkIsKept` and `RatedAsMeant`,
`TokensEndOnce` is `EndedStaysEnded` with `ExchangedOnce`, and `AddressesAreKept` is
`StoreIsAtItsAddress` with `ChatIsAtItsAddress`.  Three runs are expected to fail:

* `outbox_final`.  The schema says `pending -> publishing -> published`.  The reaper
  gives the event of a slow tick to a second one, which publishes it; then the first
  tick's publish times out and `reschedule` puts the published event back.
* `chat_lost`.  The webhook's key is set before the update is processed and stays if
  that fails: the provider's retry is answered 200, documented as "received", and the
  message is lost.
* `categories_loop`.  The service refuses a move "under its own descendant", which it
  finds in `ancestors`.  A move does not recompute them: after a category was moved, a
  second move, alone, can close a loop.

What the exceptions in the properties say is as much a result as what they promise.  Each
names the one way in which the code does break the promise: a list of sessions written
by two calls at once (`EndedStaysEnded`), two refreshes of one token (`ExchangedOnce`), a
reset that dies before its link is marked (`SpentLinksAreDead`), an FAQ embedded while it
is edited or deleted (`SearchFollowsStore`), an attempt given up while its connection was
open (`OneConsumer`), a revert, or a reader that a write has overtaken (`PromptIsCurrent`),
a save between another's copy and its write (`NoTemplateIsLost`), a line stored between the
two calls that store an answer (`RatedAsMeant`), an answer that reaches another process
(`TypingIsOwed`), two activations that meet (`LastActivatedAnswers`), an address given up while a
storefront keeps it (`StoreIsAtItsAddress`), two changes of an address that meet
(`ChatIsAtItsAddress`), a reader or another invalidation under way when the data changed
(`InvalidationReaches`), a vector whose deletion failed after the commit (`SearchFollowsStore`,
`BotAnswersAreCurrent`), two jobs for one merchant or an error in the rollback
(`MerchantsMatchWorkflows`), a patch that was not recorded, updates that met, or a rollback to an
older version (`NewestVersionRuns`).  Without its exception each of these properties is violated;
with it, no other way is left in the instance.  Such a property does not promise that the hazard
stays away: `hazards` in `PROJECT.json` says in a `note` which outcome is the exception itself.

### Bounds, and why they are enough

* Two ticks, two events: holding, losing and taking over an event involves its two
  holders; the second event is there for the loop (a batch that is half done, an order
  of claims).  `copies` stops at 2, "more than one".
* Two attempts in `outbox`: an attempt that fails and may be repeated, one that
  exhausts the limit, and one beyond it.  Backoff and reaper threshold are one unit
  of time: only their order with the other steps matters.
* Ticks are not lost in `outbox`, to keep the instance small; a lost tick leaves a
  document that the reaper frees, as a slow tick does, and `outbox_live` and the proofs have
  lost ticks.
* Two processes, two requests: four handlers, so that a third handler can meet an
  overlap, and the deliveries of two requests can come in a different order to each process,
  all in one millisecond.  The `catalog` run has no products, as its properties are about
  the handlers around the import; in `catalog_live` one is enough, as the products of an import do
  not interact, and so is one process, as a direct call imports beside its handlers.
* One conversation in `ChatIntake`: conversations meet only in the source key, which another
  chat takes by `TakeSource`.  Three
  deliveries and one reply: a duplicate, a second message and an agent.  `MaxMishaps`
  bounds failures, expiries, handovers and keys taken by another chat together; one suffices for each way a guard
  can fail.
* `content`.  Two items: a batch with one left when a call fails, and two kinds side by side
  (the calls that use them share requests and mishaps, not state).  Two requests and a worker
  are an operation that two others overtake.  One entry suffices for `BotFaq`, as entries meet
  only in an import, whose loop is `todo`; two were checked once by themselves.  In the cache
  lifetimes are one unit: only "still there" or not matters, and the lock may expire under its
  holder.  One write is enough for one staleness.
* `merchant`.  Three categories: the shortest tree in which a subtree moves with its child.
  Three tokens: two refreshes of one, each with its result.  Three calls of an account: two
  that race, and a third that sees what they left and mails nothing, as nobody comes after it to
  use that; all three about links, or all about codes and the shop, which do not touch each other
  (`OneSubject`).  Two errors in provisioning: one that
  starts the rollback, one within it.  Four entries of a history: an update, two rollbacks to
  older versions that take the same number, and an update that mends it.  Two templates: one
  that replaces, one that is replaced; two configurations, of which the second is met before
  the second template is (`FewPrompts`): what counts is whether a copy is of the present prompt; two calls:
  the one that overtakes, and the one overtaken.
  Two lines of a talk: an answer, and what is stored beside it; two processes: the one that asked,
  and the one that the answer reaches.  Two addresses: one that a merchant leaves and
  another takes; three calls around the widget, the last of them a change: two changes around a first
  call, or a first call between the changes of two merchants.  Around the storefront two calls: what makes it, and what changes
  the address or the slug meanwhile.
* `requests_live`.  Two faults of the broker: an old connection whose close event hits a newer
  one.
* Ids that are interchangeable are used in one order (`InOrder`, `VisitOrder` and the like, `InOneOrder`, `InDepthOrder`)
  where symmetry would not be sound, as these runs check liveness.  Otherwise symmetry
  (`Permutations`) is used, in safety runs only.

### Fairness

* `Outbox`: cron starts a tick and the reaper again and again, and each call a tick
  awaits returns or rejects, so `StartTick`, `TickStep`, `Recover` and `Elapse` are weakly
  fair.  `publish` has a timeout for its confirm, but waits without limit for a
  connection (`ensureConnected`): the assumption on `TickStep` presumes that RabbitMQ comes
  back.  Nothing is assumed of `Enqueue`, of the broker taking a copy, or of a frame
  arriving.
* `CatalogSync`: each awaited call returns or throws, and time passes.  Nothing is
  assumed of publishing or of reconnecting.
* `ChatIntake`: each awaited call returns or throws.  A transaction that meets a conflict
  starts over; it ends because every conflict is another writer's success and the
  instance has finitely many of them.

* `SearchIndex`: an awaited call of MongoDB, MinIO or Qdrant answers or throws, so each step of
  an actor that is not idle is weakly fair; Bull hands a waiting job to a free worker.  Nothing
  is assumed of a call that throws, of a restart, or of requests.  `NothingStaysPending` excuses
  what died: no code looks for pending FAQs or URLs at start-up.
* `TwoLevelCache`: awaited calls answer, and entries expire.
* `RabbitConnection`: timers fire, and the broker answers what it does not refuse; as faults are
  finitely many, this says that the broker stays in the end.

### Mutants

Every checked property has a mutated definition beside the one it mutates (a filter
that lets locked documents through, a `SET` without `NX`, a key without its number, and so
on), listed in `PROJECT.json`; TLC finds the property violated with it.

## 4. Proofs

The proofs hold for any sets and any limits that satisfy the named assumptions of the modules.
These say that event numbers and limits are natural numbers, that kinds of participants are
disjoint, that special values (`None`, `NoParent`, `NotYet`, `Gone`, ...) are not among the
ordinary ones nor each other, that the categories are finitely many, and that a history has room
for its first entry (`MaxVersions >= 1`).  Every safety property of a passing run is proved,
invariants and action properties, and so is the refinement `RelaySpec`.  Where a run checks a
composition, the theorem is one of the composition too: a step of it is a step of one part and a
stutter of the others, so that it implies the specification of every part (`ContentParts`,
`MerchantParts`, `RequestsServed`), and with it what was proved of the part.

All proofs have one shape: an inductive invariant, which TLC checked on the instances of the runs
before it was proved; a lemma per action, and lemmas for steps that several actions share; and
theorems for what it implies.  None of the properties is inductive by itself.  What each invariant
adds:

| Module | Theorems | The inductive invariant, and why it is needed |
|---|---|---|
| `OutboxProofs` | `TypeCorrect`, `NothingIsLost`, `LockIsExclusive`, `DuplicatesHaveACause`, `AttemptsAreLimited`, `ImplementsEventRelay` | A claim needs to know that a pending document is in nobody's batch: `HolderHasLock` says that a holder the reaper has not disturbed has it in "publishing" with an attempt left.  `FirstCopy` says where the only copy of an undisturbed event may be; `AcceptedCounted` and `OnlyStored` carry the refinement. |
| `CatalogSyncProofs` | `TypeCorrect`, `LockExcludes`, `LockIsAccountedFor`, `ImportsAreCountedOnce`, `RequestsAreAnswered` | `WorkerHoldsLock`: outside an overlap that an expired lock began, whoever works *is* the holder, so two who work are one.  `CountedOnce`: what a sync has counted is in the store or is the item it is about to upsert.  `TwinHasAnElder`: whoever was sent away had somebody before it who was not; if the requests that went before all are its own, one of its own deliveries went on.  `KeyMoves` and `KeyIsChecked` are the steps that change this. |
| `ChatIntakeProofs` | `TypeCorrect`, `MessagesHaveEvents`, `StoredTwiceOnlyByRace`, `AgentKeepsTheFloor`, `DroppedIsExplained`, `ConversationsGrow` | `NotYetStored` and `AlreadyStored`: at which stage a message shows, with and without transactions.  `KeysAreAccounted` and `KeysHaveHolders`: a key that a delivery has set is there, expired, or was set by two at once; whoever finds one owes it to another that accounts for the update.  `SnapshotIsBehind` and `FloorIsKept`: what a transaction found and reread is the end of the conversation as long as nothing was added, which is what its commit tests. |
| `RabbitConnectionProofs` | `TypeCorrect`, `SubscriptionsServed`, `RequestsServed` | `Served`: of every record somebody waits, applies it on the channel that the fields name, or has a consumer there.  `OneAtOnce` and `TagKnows`: what nobody crossed is applied by one at a time, and its tag names the consumer it has, so that the replacement cancels it.  `OneConnection`: without an attempt given up, the fields name the one connection that is open. |
| `MerchantProofs` (tree) | `TreeHolds`, `TreeTypes`, `TreeIsWhole` | `AncestorsNest`: the list of an unmoved category is that of its parent and the parent.  So among categories that were not moved the one with a smallest list has its parent elsewhere (`UnmovedMakeNoLoop`), and a loop through the only moved one would never come back to it (`OneMovedMakesNoLoop`), since `MovesAreChecked` says that its parent did not list it.  `Closed`: what a removal has listed holds all that is under it, but for what moved or came late. |
| `AccountProofs` (sessions) | `SessionTypes`, `TokensEnd` | `ListIsComplete`: a session whose token somebody has is in the list and in every copy of it about to be written, or an overlap was seen.  `SweepIsComplete`: whoever logs out everywhere still has to meet each session that was there.  `OnlyKnown`: nobody meets a token before its maker has listed it. |
| `AccountProofs` (account) | `AccountTypes`, `LinksDie`, `VerifiedHasOneShop` | `SpentIsMarked`: a spent link is used, gone, or about to be marked; `HoldsLink`: what a reset holds before it saves is not spent.  `KnowsShop`: what a call has read of the merchant is still true, as merchants only go by a purge. |
| `MerchantProofs` (provisioning) | `ProvisioningTypes`, `ProvisioningAgrees` | `JobFits`: what a job knows and has done at each stage, of its merchant as long as no other job met it; a failed job left its workflow only if it is counted as stray. |
| `MerchantProofs` (versions) | `VersionsTypes`, `HistoryIsTrue` | `PatchIsStored`: n8n runs what the one call about to store has patched.  `NumbersFit`: numbers never run ahead of the entries, which bounds them and makes a new newest entry the only one of its number. |
| `MerchantProofs` (addresses) | `AddressesTypes`, `AddressesStay` | `DealFits`: the slug that a call is about to store is one its merchant has, had, or was given, and the change that met no other holds the address as it is.  `CopiesFit`: nothing carries a merchant's slug before he comes. |
| `BotProofs` (prompts) | `PromptsTypes`, `PromptsHold` | `PrompterFits`: what a call that no write has overtaken has read is what is stored.  `CopyFits`: an old copy is about to be deleted, or known to be outdated.  `ChosenIsActive`: unless a call is half-way, the prompt activated last is the only active one. |
| `BotProofs` (talks) | `KleemTypes`, `KleemIsSound` | `TalkFits`: how far a question has come is what the talk shows of it.  `SignHasOwner`: whoever shows the sign has a timer or an answer to come that stops it. |
| `MerchantProofs` (together) | `MerchantTypes`, `MerchantSoundness` | That of each part. |
| `ContentProofs` (cache) | `CacheInvariance`, `CacheSoundness` | `CalmWriters`: since the data changed with nobody half-way, readers and the invalidation did not overlap.  `ScanHolds`: an invalidation about to delete has found whatever Redis holds.  `ReadersCurrent`: once something has been cleared, no reader carries the old data.  `HoldersHold`: until a fill outlives its lock, whoever fills holds it. |
| `ContentProofs` (bot) | `BotInvariance`, `BotCurrency` | `InWork`: an entry that one call alone has in hand is, at each await, as that call left it: its texts are those of the entry until its vector says the same, and `Rests`, what is promised of an entry nobody works on, holds throughout, but where a deletion still has to clear the vector. |
| `ContentProofs` (index) | `IndexInvariance`, `SearchSoundness`, `DeletedFaqStaysDeleted` | `ItemFits`: what work may rely on for an item that it alone has in hand, at each step of each operation; between its two writes the stores may differ on it (`Between`), at any other step they agree (`Agrees`).  So a call that dies leaves them apart only where `apart` says so (`Dropped`), and who begins on an item nobody has in hand finds them agreeing (`BeginMoves`). |
| `ContentProofs` (together) | `ContentTypes`, `ContentSoundness` | That of each part. |

The models follow a few conventions for the sake of the proofs.  Several fields of one record are
changed by `[f EXCEPT ![c] = [@ EXCEPT !.a = x, !.b = y]]`, never by two paths with one index,
which the SMT encoding of tlapm 1.4.5 does not get right.  For each invariant it was tried to
prove FALSE from it and each action, to see that no step follows from a contradiction.  Functions
over finite data are used where a definition would else be RECURSIVE, and no module that a proof
reaches declares one.  `MerchantProofs` takes, for the tree, from
the library that strict inclusion is well-founded on the subsets of a finite set, hence that a set of lists
has a smallest one: the assumption that categories are finitely many is for that.

A failed attempt at `CacheSoundness` found a mistake in the model.  The history variable `calm`,
which says that nobody was half-way when the data last changed, was set although another
invalidation had scanned Redis and not yet deleted; with two writers that deletion counted as
clearing what had been stored after its scan.  TLC shows the same with two writers and two changes,
and no run has two; `Change` now looks at the writers as well as at the readers.

Only model-checked are the liveness properties (`EventuallySettled`, `LockComesBack`,
`EveryRequestEnds`, `NothingStaysPending`, `StalenessEnds`, `EveryPublishEnds`): they rest on
fairness, which is stated with ENABLED, and the prover treats neither.  The properties of the three
runs that are expected to fail are false, and TLC's counterexamples are all that is to be shown.

## 5. Plan

What was planned has been modelled, checked and proved.  Next would be the parts that the next
section leaves out for want of a second actor (orders, leads, usage limits), should one appear,
and the liveness properties, once their fairness can be reasoned about.

## 6. Not modelled

* CRUD of single documents (orders, leads, offers, support, users, channels),
  analytics queries, mail and media, metrics, HTTP guards and filters, the Python services:
  they hold no state that two steps could bring out of order, or are external calls.
* Reply dispatch.  `ReplyDispatchers` is provided by no module, so nothing consumes `chat.reply`,
  and `AiIncomingConsumer` reads `merchantId` at the top of an envelope that has it under
  `payload`: no message comes to a dispatch, and a model of it would be one of code that does
  not run.  The same holds of `ProductEventsConsumer`, of `CleanupCoordinator` (empty) and of
  `Usage.consumeMessages`, which has no caller.
* Of the channels, the HTTP routes ask for ids that begin with `ch_` or `m_`, which no stored
  channel has.
* The WhatsApp controllers.  The QR one follows the Telegram one with a key of its own and a
  channel status; in the Cloud one, the route's decorators sit on the private
  `checkIdempotency`, so that `incoming` is not reachable.
* The `sync` route of the catalog controller (`catalog.controller.ts:70`) and the routes of the
  widget's settings, which ask for ids that begin with `m_`, and
  `StorefrontService.update`, which looks for the document under `.id` of a lean one and so always
  answers that there is none: the slug it would bring to the products is never brought.
* Prompt building, text extraction, ranking: pure computation over text.
* The order of one aggregate's events: a failed one is retried after later ones went out
  (`outbox.service.ts:100`).  Nothing in the repository consumes them in a way that depends on it.
* Kleem's settings (a copy that each process keeps for ten seconds, and that a read overtaken by a
  write may fill with the old values for as long), its intents, and its calls to action.  Of the
  last, `cta.service.ts` counts a message only when it allows one, so that with `ctaEvery` above 1 a
  session gets its call to action at the first message and never again, unless the message itself
  shows the intent; `update-settings.dto.ts` documents the number of messages between two.
* The OAuth `connect` routes.  They sign `String(merchant.id)` of a lean document
  (`salla.controller.ts:129`, `zid.controller.ts:139`), which has no `id`, so that the callback's
  `new Types.ObjectId('undefined')` throws before it publishes; and `managerToken`, which
  `registerDefaultWebhooks` asks for (`zid.service.ts:112`), is never written.  What the callbacks
  would publish (`salla.controller.ts:187`, `zid.controller.ts:88`) has no `payload` field, so that
  the consumer would ignore it (`catalog.consumer.ts:45`).  `CatalogSync` has the one publisher that
  does publish, the outbox, and for that reason not the consumer's early return.
* Lifetimes in wall-clock time.  Some are not what their comments say
  (`CACHE_TTL_5_MINUTES = 300` where milliseconds are meant, the `pwdChangedAt` key at
  `auth.service.ts:666`); the models let entries expire at any time or leave the value out.

`PROJECT.json` gives the reason part by part.
