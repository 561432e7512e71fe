------------------------------- MODULE BotFaq -------------------------------
(***************************************************************************)
(* The questions and answers of Kleem, the platform's own support bot.     *)
(* They are stored in MongoDB, each with the state of its vector, and      *)
(* found through Qdrant.  Admins create, edit, delete and import them, and *)
(* have all of them indexed again; every call awaits its way through both  *)
(* stores.                                                                 *)
(*                                                                         *)
(* Sources: modules/kleem/botFaq/botFaq.service.ts, its MongoDB repository *)
(* and the bot's half of modules/vector/vector.service.ts.                 *)
(*                                                                         *)
(* Question and answer are one text.  Embedding is part of writing the     *)
(* vector.  An import of more than fifty is several of this size.          *)
(***************************************************************************)
EXTENDS Naturals

CONSTANTS
    Faqs,          \* ids
    Sayings,       \* what a question and its answer may be
    Unsaid,
    Admins,        \* calls of BotFaqService, one after another each
    MaxRefusals    \* bound: awaited calls that throw

ASSUME UnsaidAssumption == Unsaid \notin Sayings
ASSUME RefusalsAssumption == MaxRefusals \in Nat

VARIABLES
    faq,         \* faq[i]: the document, its status "absent" before there is one
    vector,      \* vector[i]: what Qdrant holds for i
    admin,       \* admin[a]: the call that a awaits
    meddled,     \* entries that two calls worked on at once (history)
    undeleted,   \* deleted entries that were edited since, or whose vector was not
                 \* deleted (history)
    refusals

botVars == <<faq, vector, admin, meddled, undeleted, refusals>>

Document == [status : {"absent", "active", "deleted"},
             vectorStatus : {"pending", "ok", "failed"},
             text : Sayings \cup {Unsaid}]

Task == [op : {"none", "create", "edit", "import", "reindex", "delete"},
         at : {"idle", "write", "embed", "mark", "again", "fail", "unindex"},
         todo : SUBSET Faqs, texts : [Faqs -> Sayings \cup {Unsaid}]]

NoTask == [op |-> "none", at |-> "idle", todo |-> {}, texts |-> [i \in Faqs |-> Unsaid]]

BotTypeOK ==
    /\ faq \in [Faqs -> Document]
    /\ vector \in [Faqs -> Sayings \cup {Unsaid}]
    /\ admin \in [Admins -> Task]
    /\ meddled \subseteq Faqs
    /\ undeleted \subseteq Faqs
    /\ refusals \in 0..MaxRefusals

BotInit ==
    /\ faq = [i \in Faqs |-> [status |-> "absent", vectorStatus |-> "pending",
                              text |-> Unsaid]]
    /\ vector = [i \in Faqs |-> Unsaid]
    /\ admin = [a \in Admins |-> NoTask]
    /\ meddled = {}
    /\ undeleted = {}
    /\ refusals = 0

-----------------------------------------------------------------------------
(* Helpers *)

AdminAt(a, at) == admin[a].at = at
HandedTo(i, A) == \E a \in A : i \in admin[a].todo
Others(a) == Admins \ {a}

TakeUp(a, o, at, S, texts) ==
    /\ AdminAt(a, "idle")
    /\ admin' = [admin EXCEPT ![a] = [op |-> o, at |-> at, todo |-> S, texts |-> texts]]

\* What a call takes up while another has it in hand.
Met(S) == meddled \cup {i \in S : HandedTo(i, Admins)}

TurnTo(a, at) == admin' = [admin EXCEPT ![a].at = at]
Answer(a) == admin' = [admin EXCEPT ![a] = NoTask]

Readings == [i \in Faqs |-> faq[i].text]
WithVectorStatus(S, s) ==
    [i \in Faqs |-> IF i \in S THEN [faq[i] EXCEPT !.vectorStatus = s] ELSE faq[i]]
New(S, t) ==
    [i \in Faqs |-> IF i \in S THEN [status |-> "active", vectorStatus |-> "pending",
                                     text |-> t] ELSE faq[i]]

-----------------------------------------------------------------------------
(* create, bulkImport, update and reindexAll *)

\* One document, or a batch of them, is inserted.
Store(a, o, S, t) ==
    /\ o \in {"create", "import"}
    /\ S # {}
    /\ o = "create" => \E i \in S : S = {i}
    /\ \A i \in S : faq[i].status = "absent"
    /\ TakeUp(a, o, "embed", S, [i \in Faqs |-> IF i \in S THEN t ELSE Unsaid])
    /\ faq' = New(S, t)
    /\ UNCHANGED <<vector, meddled, undeleted, refusals>>

\* update finds the document, deleted or not.
Edit(a, i, t) ==
    /\ faq[i].status # "absent"
    /\ TakeUp(a, "edit", "write", {i}, [j \in Faqs |-> IF j = i THEN t ELSE Unsaid])
    /\ meddled' = Met({i})
    /\ UNCHANGED <<faq, vector, undeleted, refusals>>

\* Mutation of Write: the state of the vector is left as it was.
WriteText(a) ==
    LET S == admin[a].todo
    IN  /\ AdminAt(a, "write")
        /\ faq' = [i \in Faqs |-> IF i \in S THEN [faq[i] EXCEPT !.text = admin[a].texts[i]]
                                  ELSE faq[i]]
        /\ meddled' = meddled \ {i \in S : ~HandedTo(i, Others(a))}
        /\ undeleted' = undeleted \cup {i \in S : faq[i].status = "deleted"}
        /\ TurnTo(a, "embed")
        /\ UNCHANGED <<vector, refusals>>

\* The new text is written, the vector pending.  Whatever became of this entry before:
\* with nobody else at work on it, it is put right from here.
Write(a) ==
    LET S == admin[a].todo
    IN  /\ AdminAt(a, "write")
        /\ faq' = [i \in Faqs |-> IF i \in S THEN [faq[i] EXCEPT !.text = admin[a].texts[i],
                                                                !.vectorStatus = "pending"]
                                  ELSE faq[i]]
        /\ meddled' = meddled \ {i \in S : ~HandedTo(i, Others(a))}
        /\ undeleted' = undeleted \cup {i \in S : faq[i].status = "deleted"}
        /\ TurnTo(a, "embed")
        /\ UNCHANGED <<vector, refusals>>

\* reindexAll reads the active documents.
ReindexAll(a) ==
    LET S == {i \in Faqs : faq[i].status = "active"}
    IN  /\ S # {}
        /\ TakeUp(a, "reindex", "embed", S, Readings)
        /\ meddled' = Met(S)
        /\ UNCHANGED <<faq, vector, undeleted, refusals>>

Embedded(a) == [i \in Faqs |-> IF i \in admin[a].todo THEN admin[a].texts[i] ELSE vector[i]]

EmbedAndUpsert(a) ==
    /\ AdminAt(a, "embed")
    /\ vector' = Embedded(a)
    /\ TurnTo(a, "mark")
    /\ UNCHANGED <<faq, meddled, undeleted, refusals>>

\* "ok", whatever the document is by now.  update marks it once more.
MarkOk(a) ==
    /\ admin[a].at \in {"mark", "again"}
    /\ faq' = WithVectorStatus(admin[a].todo, "ok")
    /\ IF AdminAt(a, "mark") /\ admin[a].op = "edit" THEN TurnTo(a, "again") ELSE Answer(a)
    /\ UNCHANGED <<vector, meddled, undeleted, refusals>>

\* The catch block of create and update.
MarkVectorFailed(a) ==
    /\ AdminAt(a, "fail")
    /\ faq' = WithVectorStatus(admin[a].todo, "failed")
    /\ Answer(a)
    /\ UNCHANGED <<vector, meddled, undeleted, refusals>>

-----------------------------------------------------------------------------
(* delete *)

Delete(a, i) ==
    /\ faq[i].status # "absent"
    /\ TakeUp(a, "delete", "unindex", {i}, Readings)
    /\ faq' = [faq EXCEPT ![i].status = "deleted"]
    /\ meddled' = IF HandedTo(i, Admins) THEN meddled \cup {i} ELSE meddled \ {i}
    /\ undeleted' = undeleted \ {i}
    /\ UNCHANGED <<vector, refusals>>

DeletePoint(a) ==
    /\ AdminAt(a, "unindex")
    /\ vector' = [i \in Faqs |-> IF i \in admin[a].todo THEN Unsaid ELSE vector[i]]
    /\ Answer(a)
    /\ UNCHANGED <<faq, meddled, undeleted, refusals>>

-----------------------------------------------------------------------------
\* The awaited call throws, a write to Qdrant perhaps after it was done.  create and
\* update catch it where they index; the error of a deletion is only logged.
Refused(a) ==
    /\ refusals < MaxRefusals
    /\ refusals' = refusals + 1
    /\ ~AdminAt(a, "idle")
    /\ vector' \in IF AdminAt(a, "embed") THEN {vector, Embedded(a)} ELSE {vector}
    /\ IF admin[a].at \in {"embed", "mark"} /\ admin[a].op \in {"create", "edit"}
       THEN TurnTo(a, "fail") ELSE Answer(a)
    /\ undeleted' = IF AdminAt(a, "unindex") THEN undeleted \cup admin[a].todo ELSE undeleted
    /\ UNCHANGED <<faq, meddled>>

AdminStep(a) ==
    \/ Write(a) \/ EmbedAndUpsert(a) \/ MarkOk(a) \/ MarkVectorFailed(a) \/ DeletePoint(a)

BotNext ==
    \E a \in Admins :
        \/ AdminStep(a) \/ Refused(a) \/ ReindexAll(a)
        \/ \E i \in Faqs : Delete(a, i) \/ \E t \in Sayings : Edit(a, i, t)
        \/ \E o \in {"create", "import"}, S \in SUBSET Faqs, t \in Sayings : Store(a, o, S, t)

BotSpec == BotInit /\ [][BotNext]_botVars

-----------------------------------------------------------------------------
(* Properties *)

\* An entry called "ok" is found as it reads now, and a deleted one is not found, if
\* nobody is at work on it: unless calls for it met since it was last edited or deleted
\* alone, it was edited after its deletion, or the deletion of its vector failed.
BotAnswersAreCurrent ==
    \A i \in Faqs :
        ~HandedTo(i, Admins) /\ i \notin meddled =>
            /\ faq[i].status = "active" /\ faq[i].vectorStatus = "ok" => vector[i] = faq[i].text
            /\ faq[i].status = "deleted" => vector[i] = Unsaid \/ i \in undeleted
=============================================================================
