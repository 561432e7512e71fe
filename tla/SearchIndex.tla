---------------------------- MODULE SearchIndex -----------------------------
(***************************************************************************)
(* What a merchant's bot can find.  FAQs, crawled URLs, uploaded documents *)
(* and products live in MongoDB (files in MinIO too) and are searched      *)
(* through vectors in Qdrant.  Nothing ties the stores together: a service *)
(* changes one, awaits, and changes the other, in the background for FAQs  *)
(* and URLs, in a Bull job for documents, within the request for products. *)
(*                                                                         *)
(* Sources: modules/faq/faq.service.ts, modules/knowledge/                 *)
(* knowledge.service.ts, modules/documents/documents.service.ts and        *)
(* processors/document.processor.ts, modules/products/services/            *)
(* product-commands.service.ts and product-index.service.ts,               *)
(* modules/vector/vector.service.ts, and their MongoDB repositories.       *)
(*                                                                         *)
(* The chunks of a URL or document are one vector, and embedding is part   *)
(* of writing it: a call that fails between chunks leaves what a call      *)
(* leaves that fails after the write.                                      *)
(***************************************************************************)
EXTENDS Naturals

CONSTANTS
    Items,        \* ids of stored items of one merchant
    Texts,        \* what an item may say
    NoText,
    NoItem,
    Requests,     \* calls of the services
    Workers,      \* Bull workers for document jobs
    Libraries,    \* the kinds the items may have: see Kind
    MaxMishaps    \* bound: calls that throw and restarts of the process

Kind == {"faq", "url", "document", "product"}
Actors == Requests \cup Workers

ASSUME TextsAssumption == NoText \notin Texts
ASSUME ItemsAssumption == NoItem \notin Items
ASSUME LibrariesAssumption == Libraries \subseteq [Items -> Kind]
ASSUME IndexActorsAssumption == Requests \cap Workers = {}
ASSUME IndexBoundAssumption == MaxMishaps \in Nat

VARIABLES
    library,      \* library[i]: the kind of item i
    status,       \* status[i]: of its document; "absent" before, "gone" after it
    text,         \* text[i]: what its document says
    file,         \* documents whose file is in MinIO
    point,        \* point[i]: what its vectors in Qdrant say
    queued,       \* documents with a waiting job
    work,         \* work[a]: what actor a is doing, see Work
    raced,        \* items that two calls worked on at once (history)
    apart,        \* which operation left the stores of which item apart (history)
    troubles      \* mishaps so far

storeVars == <<status, text, file>>
indexVars == <<library, storeVars, point, queued, work, raced, apart, troubles>>

Operation == {"none", "train", "crawl", "edit", "erase", "upload", "process",
              "discard", "index", "reindex", "toggle", "withdraw"}
Step == {"idle", "announce", "pick", "write", "upsert", "mark", "tell", "fail",
         "apologise", "erase", "remove", "record", "enqueue", "fetch", "download",
         "unstore", "event", "category", "clear", "delete", "unindex", "done"}

\* The items an actor still has to deal with, the one at hand and what it will write.
Work == [op : Operation, at : Step, todo : SUBSET Items,
         item : Items \cup {NoItem}, got : Texts \cup {NoText}]

Status == {"absent", "pending", "processing", "completed", "failed", "deleted",
           "active", "gone"}

IndexTypeOK ==
    /\ library \in Libraries
    /\ status \in [Items -> Status]
    /\ text \in [Items -> Texts \cup {NoText}]
    /\ file \subseteq Items
    /\ point \in [Items -> Texts \cup {NoText}]
    /\ queued \subseteq Items
    /\ work \in [Actors -> Work]
    /\ raced \subseteq Items
    /\ apart \subseteq Operation \X Items
    /\ troubles \in 0..MaxMishaps

\* What an indexed item of kind k is called.
Settled(k) == IF k = "product" THEN "active" ELSE "completed"

\* The merchant is new, or has been here for a while.
IndexInit ==
    /\ library \in Libraries
    /\ \E S \in {{}, Items}, t \in Texts :
         /\ status = [i \in Items |-> IF i \in S THEN Settled(library[i]) ELSE "absent"]
         /\ text = [i \in Items |-> IF i \in S THEN t ELSE NoText]
         /\ file = {i \in S : library[i] = "document"}
         /\ point = text
    /\ queued = {}
    /\ work = [a \in Actors |-> [op |-> "none", at |-> "idle", todo |-> {},
                                 item |-> NoItem, got |-> NoText]]
    /\ raced = {}
    /\ apart = {}
    /\ troubles = 0

-----------------------------------------------------------------------------
(* Helpers *)

Exists(i) == status[i] \notin {"absent", "gone"}
OfKind(k) == {i \in Items : library[i] = k}
Busy(i) == \E a \in Actors : i \in work[a].todo

\* An update by _id changes a document that is there and is nothing otherwise.
SetStatus(i, s) == status' = [status EXCEPT ![i] = IF Exists(i) THEN s ELSE @]

\* Actor a starts an operation on the items S.
Begin(a, o, at, S, i, t) ==
    /\ work[a].at = "idle"
    /\ work' = [work EXCEPT ![a] = [op |-> o, at |-> at, todo |-> S, item |-> i, got |-> t]]
    /\ raced' = raced \cup {j \in S : Busy(j)}

Goto(a, at) == work' = [work EXCEPT ![a].at = at]

\* A request is over; a worker is free for the next job.
Rest(a) == IF a \in Workers THEN "idle" ELSE "done"
Finish(a) == work' = [work EXCEPT ![a] = [@ EXCEPT !.at = Rest(a), !.todo = {}]]

\* The item at hand is dealt with.
NextItem(a) ==
    LET rest == work[a].todo \ {work[a].item}
    IN  work' = [work EXCEPT ![a] = [@ EXCEPT !.at = IF rest = {} THEN Rest(a) ELSE "pick",
                                              !.todo = rest]]

-----------------------------------------------------------------------------
(* FAQs and URLs: inserted as pending, embedded in the background *)

\* Mutation of Insert: a batch takes up deleted FAQs again.
InsertAgain(a, k, t) ==
    LET S == {i \in OfKind(k) : status[i] \in {"absent", "deleted"}}
    IN  /\ a \in Requests
        /\ S # {}
        /\ k \in {"faq", "url"}
        /\ Begin(a, IF k = "faq" THEN "train" ELSE "crawl", "announce", S, NoItem, t)
        /\ status' = [i \in Items |-> IF i \in S THEN "pending" ELSE status[i]]
        /\ text' = [i \in Items |-> IF i \in S THEN t ELSE text[i]]
        /\ UNCHANGED <<library, file, point, queued, apart, troubles>>

\* createMany and addUrls insert their batch, then tell the user.
Insert(a, k, t) ==
    LET S == {i \in OfKind(k) : status[i] = "absent"}
    IN  /\ a \in Requests
        /\ S # {}
        /\ k \in {"faq", "url"}
        /\ Begin(a, IF k = "faq" THEN "train" ELSE "crawl", "announce", S, NoItem, t)
        /\ status' = [i \in Items |-> IF i \in S THEN "pending" ELSE status[i]]
        /\ text' = [i \in Items |-> IF i \in S THEN t ELSE text[i]]
        /\ UNCHANGED <<library, file, point, queued, apart, troubles>>

\* The notification is sent; the background loop starts.
Announce(a) ==
    /\ work[a].at = "announce"
    /\ Goto(a, "pick")
    /\ UNCHANGED <<library, storeVars, point, queued, raced, apart, troubles>>

\* The FAQ loop reads each document again and skips one that is gone; the URL loop
\* works from the records it inserted.
Pick(a) ==
    /\ work[a].at = "pick"
    /\ \E i \in work[a].todo :
         IF work[a].op = "train" /\ ~Exists(i)
         THEN LET rest == work[a].todo \ {i}
              IN  work' = [work EXCEPT ![a] =
                             [@ EXCEPT !.todo = rest,
                                       !.at = IF rest = {} THEN Rest(a) ELSE "pick"]]
         ELSE work' = [work EXCEPT ![a] =
                         [@ EXCEPT !.item = i, !.at = "upsert",
                                   !.got = IF work[a].op = "train" THEN text[i]
                                           ELSE work[a].got]]
    /\ UNCHANGED <<library, storeVars, point, queued, raced, apart, troubles>>

\* The vector of the item at hand is embedded and written.  A product is then done;
\* what else is indexed has a status to set.
Upsert(a) ==
    LET i == work[a].item
        isProduct == work[a].op \in {"index", "reindex"}
    IN  /\ work[a].at = "upsert"
        /\ point' = [point EXCEPT ![i] = work[a].got]
        /\ IF isProduct THEN Finish(a) ELSE Goto(a, "mark")
        /\ apart' = IF isProduct THEN apart \ (Operation \X {i}) ELSE apart
        /\ UNCHANGED <<library, storeVars, queued, raced, troubles>>

\* Mutation of MarkCompleted: a status the schema does not have.
MarkReady(a) ==
    /\ work[a].at = "mark"
    /\ SetStatus(work[a].item, "ready")
    /\ IF work[a].op = "process" THEN Finish(a) ELSE Goto(a, "tell")
    /\ UNCHANGED <<library, text, file, point, queued, raced, apart, troubles>>

\* The status is set, whatever it is by now.
MarkCompleted(a) ==
    /\ work[a].at = "mark"
    /\ SetStatus(work[a].item, "completed")
    /\ IF work[a].op = "process" THEN Finish(a) ELSE Goto(a, "tell")
    /\ UNCHANGED <<library, text, file, point, queued, raced, apart, troubles>>

\* The user is told; enqueueOutbox swallows its errors.
Tell(a) ==
    /\ work[a].at \in {"tell", "apologise"}
    /\ NextItem(a)
    /\ UNCHANGED <<library, storeVars, point, queued, raced, apart, troubles>>

\* Mutation of MarkFailed: the catch block only logs.
LogFailure(a) ==
    /\ work[a].at = "fail"
    /\ IF work[a].op = "process" THEN Finish(a) ELSE Goto(a, "apologise")
    /\ UNCHANGED <<library, storeVars, point, queued, raced, apart, troubles>>

\* The catch block.
MarkFailed(a) ==
    /\ work[a].at = "fail"
    /\ SetStatus(work[a].item, "failed")
    /\ IF work[a].op = "process" THEN Finish(a) ELSE Goto(a, "apologise")
    /\ UNCHANGED <<library, text, file, point, queued, raced, apart, troubles>>

\* updateOne reads the FAQ, deleted or not, and writes it as pending before it embeds.
EditFaq(a, i, t) ==
    /\ a \in Requests
    /\ library[i] = "faq"
    /\ Exists(i)
    /\ Begin(a, "edit", "write", {i}, i, t)
    /\ UNCHANGED <<library, storeVars, point, queued, apart, troubles>>

\* Mutation of WriteFaq: the status is left as it was.
WriteTextOnly(a) ==
    /\ work[a].at = "write"
    /\ LET i == work[a].item
       IN  text' = [text EXCEPT ![i] = IF Exists(i) THEN work[a].got ELSE @]
    /\ Goto(a, "upsert")
    /\ UNCHANGED <<library, status, file, point, queued, raced, apart, troubles>>

WriteFaq(a) ==
    /\ work[a].at = "write"
    /\ LET i == work[a].item
       IN  /\ SetStatus(i, "pending")
           /\ text' = [text EXCEPT ![i] = IF Exists(i) THEN work[a].got ELSE @]
    /\ Goto(a, "upsert")
    /\ UNCHANGED <<library, file, point, queued, raced, apart, troubles>>

\* softDelete and softDeleteAll change the status and leave the vectors.
SoftDelete(S) ==
    /\ S # {}
    /\ \A i \in S : library[i] = "faq" /\ Exists(i) /\ status[i] # "deleted"
    /\ status' = [i \in Items |-> IF i \in S THEN "deleted" ELSE status[i]]
    /\ raced' = raced \cup {i \in S : Busy(i)}
    /\ UNCHANGED <<library, text, file, point, queued, work, apart, troubles>>

\* hardDelete finds the FAQ, deletes its vector, then its document.
EraseFaq(a, i) ==
    /\ a \in Requests
    /\ library[i] = "faq"
    /\ Exists(i)
    /\ Begin(a, "erase", "erase", {i}, i, NoText)
    /\ UNCHANGED <<library, storeVars, point, queued, apart, troubles>>

\* Mutation of ErasePoint: the filter matches no point.
EraseNoPoint(a) ==
    /\ work[a].at = "erase"
    /\ Goto(a, "remove")
    /\ UNCHANGED <<library, storeVars, point, queued, raced, apart, troubles>>

ErasePoint(a) ==
    /\ work[a].at = "erase"
    /\ point' = [point EXCEPT ![work[a].item] = NoText]
    /\ Goto(a, "remove")
    /\ UNCHANGED <<library, storeVars, queued, raced, apart, troubles>>

Remove(a) ==
    /\ work[a].at = "remove"
    /\ SetStatus(work[a].item, "gone")
    /\ Finish(a)
    /\ UNCHANGED <<library, text, file, point, queued, raced, apart, troubles>>

-----------------------------------------------------------------------------
(* Documents: a file, a record, a job *)

\* uploadFile stores the file, then the record, then the job.
Upload(a, i, t) ==
    /\ a \in Requests
    /\ library[i] = "document"
    /\ status[i] = "absent"
    /\ i \notin file
    /\ Begin(a, "upload", "record", {i}, i, t)
    /\ file' = file \cup {i}
    /\ UNCHANGED <<library, status, text, point, queued, apart, troubles>>

Record(a) ==
    /\ work[a].at = "record"
    /\ status' = [status EXCEPT ![work[a].item] = "pending"]
    /\ text' = [text EXCEPT ![work[a].item] = work[a].got]
    /\ Goto(a, "enqueue")
    /\ UNCHANGED <<library, file, point, queued, raced, apart, troubles>>

EnqueueJob(a) ==
    /\ work[a].at = "enqueue"
    /\ queued' = queued \cup {work[a].item}
    /\ Finish(a)
    /\ UNCHANGED <<library, storeVars, point, raced, apart, troubles>>

\* A worker takes a job and sets the status.
TakeJob(a, i) ==
    /\ a \in Workers
    /\ i \in queued
    /\ Begin(a, "process", "fetch", {i}, i, NoText)
    /\ queued' = queued \ {i}
    /\ SetStatus(i, "processing")
    /\ UNCHANGED <<library, text, file, point, apart, troubles>>

Fetch(a) ==
    /\ work[a].at = "fetch"
    /\ Goto(a, IF Exists(work[a].item) THEN "download" ELSE "fail")
    /\ UNCHANGED <<library, storeVars, point, queued, raced, apart, troubles>>

\* The file is what the document says; a deleted one cannot be downloaded.
Download(a) ==
    LET i == work[a].item
    IN  /\ work[a].at = "download"
        /\ work' = [work EXCEPT ![a] =
                       [@ EXCEPT !.at = IF i \in file THEN "upsert" ELSE "fail",
                                 !.got = IF i \in file THEN text[i] ELSE work[a].got]]
        /\ UNCHANGED <<library, storeVars, point, queued, raced, apart, troubles>>

\* delete removes the file, then the record, and leaves the vectors.
DiscardDocument(a, i) ==
    /\ a \in Requests
    /\ library[i] = "document"
    /\ Exists(i)
    /\ Begin(a, "discard", "unstore", {i}, i, NoText)
    /\ UNCHANGED <<library, storeVars, point, queued, apart, troubles>>

Unstore(a) ==
    /\ work[a].at = "unstore"
    /\ file' = file \ {work[a].item}
    /\ Goto(a, "remove")
    /\ UNCHANGED <<library, status, text, point, queued, raced, apart, troubles>>

-----------------------------------------------------------------------------
(* Products: stored with their event, indexed within the request *)

\* create stores the product and its outbox event in one transaction.
CreateProduct(a, i, t) ==
    /\ a \in Requests
    /\ library[i] = "product"
    /\ status[i] = "absent"
    /\ Begin(a, "index", "category", {i}, i, t)
    /\ status' = [status EXCEPT ![i] = "active"]
    /\ text' = [text EXCEPT ![i] = t]
    /\ UNCHANGED <<library, file, point, queued, apart, troubles>>

\* update stores the product first, the event after it.
UpdateProduct(a, i, t) ==
    /\ a \in Requests
    /\ library[i] = "product"
    /\ Exists(i)
    /\ Begin(a, "reindex", "event", {i}, i, t)
    /\ text' = [text EXCEPT ![i] = t]
    /\ UNCHANGED <<library, status, file, point, queued, apart, troubles>>

\* The event is stored; the category is read, then the old point is deleted.
StoreEvent(a) ==
    /\ work[a].at = "event"
    /\ Goto(a, "category")
    /\ UNCHANGED <<library, storeVars, point, queued, raced, apart, troubles>>

ReadCategory(a) ==
    /\ work[a].at = "category"
    /\ Goto(a, "clear")
    /\ UNCHANGED <<library, storeVars, point, queued, raced, apart, troubles>>

ClearPoint(a) ==
    /\ work[a].at = "clear"
    /\ point' = [point EXCEPT ![work[a].item] = NoText]
    /\ Goto(a, "upsert")
    /\ UNCHANGED <<library, storeVars, queued, raced, apart, troubles>>

\* setAvailability changes the product and leaves its vector.
SetAvailability(i, t) ==
    /\ library[i] = "product"
    /\ Exists(i)
    /\ text' = [text EXCEPT ![i] = t]
    /\ apart' = apart \cup {<<"toggle", i>>}
    /\ raced' = IF Busy(i) THEN raced \cup {i} ELSE raced
    /\ UNCHANGED <<library, status, file, point, queued, work, troubles>>

\* remove reads the product, deletes it with its event in one transaction, then
\* deletes its vector.
WithdrawProduct(a, i) ==
    /\ a \in Requests
    /\ library[i] = "product"
    /\ Exists(i)
    /\ Begin(a, "withdraw", "delete", {i}, i, NoText)
    /\ UNCHANGED <<library, storeVars, point, queued, apart, troubles>>

DeleteProduct(a) ==
    LET i == work[a].item
    IN  /\ work[a].at = "delete"
        /\ SetStatus(i, "gone")
        /\ IF Exists(i) THEN Goto(a, "unindex") ELSE Finish(a)
        /\ UNCHANGED <<library, text, file, point, queued, raced, apart, troubles>>

Unindex(a) ==
    /\ work[a].at = "unindex"
    /\ point' = [point EXCEPT ![work[a].item] = NoText]
    /\ Finish(a)
    /\ UNCHANGED <<library, storeVars, queued, raced, apart, troubles>>

-----------------------------------------------------------------------------
(* What goes wrong *)

\* The awaited call throws where a try block catches it: the item is marked failed.
Catch(a) ==
    /\ troubles < MaxMishaps
    /\ \/ work[a].at \in {"mark", "tell", "fetch", "download"}
       \/ work[a].at = "upsert" /\ work[a].op \notin {"index", "reindex"}
    /\ Goto(a, "fail")
    /\ troubles' = troubles + 1
    /\ UNCHANGED <<library, storeVars, point, queued, raced, apart>>

\* Deleting a product's old vector may fail; the new one is written all the same.
ClearFails(a) ==
    /\ troubles < MaxMishaps
    /\ work[a].at = "clear"
    /\ Goto(a, "upsert")
    /\ troubles' = troubles + 1
    /\ UNCHANGED <<library, storeVars, point, queued, raced, apart>>

\* What a call that ends here leaves undone: nothing if it has changed nothing yet.
Undone(a) ==
    CASE work[a].at \in {"write", "erase", "record", "unstore", "delete"} -> {}
      [] work[a].at = "apologise" -> work[a].todo \ {work[a].item}
      [] OTHER -> work[a].todo

\* The awaited call throws outside every try block, in a catch block, or where the
\* error is swallowed: the operation ends here, a batch with all that is left of it.
Throw(a) ==
    /\ troubles < MaxMishaps
    /\ \/ work[a].at \in {"announce", "fail", "apologise", "write", "erase", "remove",
                          "record", "enqueue", "unstore", "event", "category",
                          "delete", "unindex"}
       \/ work[a].at = "pick" /\ work[a].op = "train"
       \/ work[a].at = "upsert" /\ work[a].op \in {"index", "reindex"}
    /\ apart' = apart \cup ({work[a].op} \X Undone(a))
    /\ Finish(a)
    /\ troubles' = troubles + 1
    /\ UNCHANGED <<library, storeVars, point, queued, raced>>

\* The process restarts: what it was doing in memory is lost; Bull queues the jobs
\* of its workers again.
Restart ==
    /\ troubles < MaxMishaps
    /\ \E a \in Actors : work[a].todo # {}
    /\ queued' = queued \cup UNION {work[a].todo : a \in Workers}
    /\ apart' = apart \cup UNION {{work[a].op} \X Undone(a) : a \in Requests}
    /\ work' = [a \in Actors |->
                   IF work[a].todo = {} THEN work[a]
                   ELSE [work[a] EXCEPT !.at = Rest(a), !.todo = {}]]
    /\ troubles' = troubles + 1
    /\ UNCHANGED <<library, storeVars, point, raced>>

-----------------------------------------------------------------------------
\* A step of what actor a has begun.
IndexStep(a) ==
    \/ Announce(a)      \/ Pick(a)          \/ Upsert(a)      \/ MarkCompleted(a)
    \/ Tell(a)          \/ MarkFailed(a)    \/ WriteFaq(a)    \/ ErasePoint(a)
    \/ Remove(a)        \/ Record(a)        \/ EnqueueJob(a)  \/ Fetch(a)
    \/ Download(a)      \/ Unstore(a)       \/ StoreEvent(a)  \/ ReadCategory(a)
    \/ ClearPoint(a)    \/ DeleteProduct(a) \/ Unindex(a)

\* A request arrives.
IndexRequest(a) ==
    \/ \E k \in Kind, t \in Texts : Insert(a, k, t)
    \/ \E i \in Items :
         \/ EraseFaq(a, i) \/ DiscardDocument(a, i) \/ WithdrawProduct(a, i)
         \/ \E t \in Texts :
              \/ EditFaq(a, i, t)       \/ Upload(a, i, t)
              \/ CreateProduct(a, i, t) \/ UpdateProduct(a, i, t)

IndexNext ==
    \/ \E a \in Actors : IndexStep(a) \/ Catch(a) \/ ClearFails(a) \/ Throw(a)
    \/ \E a \in Requests : IndexRequest(a)
    \/ \E a \in Workers, i \in Items : TakeJob(a, i)
    \/ \E S \in SUBSET Items : SoftDelete(S)
    \/ \E i \in Items, t \in Texts : SetAvailability(i, t)
    \/ Restart

IndexSpec == IndexInit /\ [][IndexNext]_indexVars

\* A call that is awaited answers; Bull hands its jobs to free workers.
IndexFairness ==
    /\ \A a \in Actors : WF_indexVars(IndexStep(a))
    /\ WF_indexVars(\E a \in Workers, i \in Items : TakeJob(a, i))

IndexFairSpec == IndexSpec /\ IndexFairness

-----------------------------------------------------------------------------
(* Properties *)

Quiet(i) == ~Busy(i) /\ i \notin raced

\* What the store calls completed, and every product, is found under what it says
\* now.  Three things can part the two: calls that overlapped, a FAQ's deletion lost
\* between vector and document, and for a product an indexing error that is
\* swallowed or a change of its availability.
StoredIsFound ==
    \A i \in Items :
        /\ Quiet(i)
        /\ \/ status[i] = "completed" /\ <<"erase", i>> \notin apart
           \/ status[i] = "active" /\ \A o \in Operation : <<o, i>> \notin apart
        => point[i] = text[i]

\* What was removed is not found any more, unless calls overlapped, Qdrant refused a
\* product's deletion, or it is a document, whose vectors nobody deletes.
GoneIsForgotten ==
    \A i \in Items :
        status[i] = "gone" /\ Quiet(i) /\ library[i] # "document"
            => point[i] = NoText \/ <<"withdraw", i>> \in apart

\* The bot finds what the store holds, and nothing else: both of the above.
SearchFollowsStore == StoredIsFound /\ GoneIsForgotten

\* A deleted FAQ comes back only by an edit, or by embedding that was under way when
\* it was deleted.
DeletedFaqComesBackOnlyByWork ==
    [][\A i \in Items :
         status[i] = "deleted" /\ status'[i] \notin {"deleted", "gone"} =>
             \E a \in Actors : /\ i \in work[a].todo
                               /\ (work[a].op = "edit" \/ i \in raced)]_indexVars

\* Nothing waits for its indexing for ever, unless the call that was to do it, or the
\* batch it was part of, died.
NothingStaysPending ==
    \A i \in Items :
        status[i] \in {"pending", "processing"} ~>
            \/ status[i] \notin {"pending", "processing"}
            \/ \E o \in {"train", "crawl", "edit", "upload", "process"} : <<o, i>> \in apart
=============================================================================
