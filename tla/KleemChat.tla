------------------------------ MODULE KleemChat ------------------------------
(***************************************************************************)
(* One visitor's talk with Kleem, the support bot: the list of messages in *)
(* MongoDB, the sign "the bot is typing" that each process repeats until   *)
(* something stops it, and the answers, which n8n sends to whichever       *)
(* process it reaches.                                                     *)
(*                                                                         *)
(* Sources: modules/kleem/chat/kleem-chat.service.ts, webhook/             *)
(* kleem-webhook.controller.ts and botChats with its MongoDB repository.   *)
(* n8n answers a question once or never.  Which prompt it is given is the  *)
(* matter of BotPrompts; the websocket only hands on what is said here.    *)
(***************************************************************************)
EXTENDS Naturals, Sequences

CONSTANTS
    Lines,       \* what the visitor says, each by one call
    Hosts,       \* processes
    NoHost,
    MaxSnags     \* bound: calls that throw, and restarts

ASSUME LinesAssumption == NoHost \notin Hosts /\ MaxSnags \in Nat

VARIABLES
    talk,        \* the messages of the session, << >> if it has no document
    typing,      \* processes with an interval for the session
    asker,       \* asker[q]: the call that brings q
    answerer,    \* answerer[q]: the answer to q, and what is done to it
    rated,       \* <<q, i>>: the answer to q was rated at index i
    astray,      \* processes whose interval nobody is left to stop (history)
    shifted,     \* answers stored after a message that came since the session was found
                 \* (history)
    snags

kleemVars == <<talk, typing, asker, answerer, rated, astray, shifted, snags>>

Said == {"user", "bot"} \X Lines

\* A note is what the admin's and the second webhook's routes append.  found: how many
\* messages the call has read.
Asker == [op : {"none", "ask", "note"}, host : Hosts \cup {NoHost}, found : Nat,
          at : {"idle", "find", "write", "prompt", "post", "timer", "done", "failed"}]
Answerer == [at : {"none", "owed", "find", "write", "told", "rate", "lost"},
             found : Nat, index : Nat]

KleemTypeOK ==
    /\ talk \in Seq(Said)
    /\ typing \subseteq Hosts
    /\ asker \in [Lines -> Asker]
    /\ answerer \in [Lines -> Answerer]
    /\ rated \subseteq Lines \X Nat
    /\ astray \subseteq typing
    /\ shifted \subseteq Lines
    /\ snags \in 0..MaxSnags

KleemInit ==
    /\ talk = << >>
    /\ typing = {}
    /\ asker = [q \in Lines |-> [op |-> "none", host |-> NoHost, found |-> 0, at |-> "idle"]]
    /\ answerer = [q \in Lines |-> [at |-> "none", found |-> 0, index |-> 0]]
    /\ rated = {}
    /\ astray = {}
    /\ shifted = {}
    /\ snags = 0

-----------------------------------------------------------------------------
(* Helpers *)

Asks(q, at) == asker' = [asker EXCEPT ![q].at = at]
Answers(q, at) == answerer' = [answerer EXCEPT ![q].at = at]

\* startTyping, unless there is an interval; stopTyping.
StartTyping(h) == typing' = typing \cup {h} /\ UNCHANGED astray
StopTyping(h) == typing' = typing \ {h} /\ astray' = astray \ {h}
KeepTyping == UNCHANGED <<typing, astray>>

-----------------------------------------------------------------------------
(* createOrAppend, for what the visitor says *)

Say(q, h, op) ==
    /\ asker[q].at = "idle"
    /\ asker' = [asker EXCEPT ![q] = [op |-> op, host |-> h, found |-> 0, at |-> "find"]]
    /\ KeepTyping
    /\ UNCHANGED <<talk, answerer, rated, shifted, snags>>

FindTalk(q) ==
    /\ asker[q].at = "find"
    /\ asker' = [asker EXCEPT ![q] = [@ EXCEPT !.at = "write", !.found = Len(talk)]]
    /\ KeepTyping
    /\ UNCHANGED <<talk, answerer, rated, shifted, snags>>

\* Mutation of WriteTalk: the list is written back as it was read, with q at its end.
WriteBack(q) ==
    /\ asker[q].at = "write"
    /\ talk' = Append(SubSeq(talk, 1, asker[q].found), <<"user", q>>)
    /\ IF asker[q].op = "ask"
       THEN Asks(q, "prompt") /\ StartTyping(asker[q].host)
       ELSE Asks(q, "done") /\ KeepTyping
    /\ UNCHANGED <<answerer, rated, shifted, snags>>

\* The save of a document that was found pushes.  Where none was found one is created,
\* which the unique index refuses if there is one by now.
WriteTalk(q) ==
    /\ asker[q].at = "write"
    /\ IF asker[q].found = 0 /\ talk # << >>
       THEN Asks(q, "failed") /\ KeepTyping /\ UNCHANGED talk
       ELSE /\ talk' = Append(talk, <<"user", q>>)
            /\ IF asker[q].op = "ask"
               THEN Asks(q, "prompt") /\ StartTyping(asker[q].host)
               ELSE Asks(q, "done") /\ KeepTyping
    /\ UNCHANGED <<answerer, rated, shifted, snags>>

-----------------------------------------------------------------------------
(* The rest of handleUserMessage *)

\* The prompt is built, and posted: n8n has the question.
Post(q) ==
    /\ asker[q].at = "prompt"
    /\ Asks(q, "post")
    /\ Answers(q, "owed")
    /\ KeepTyping
    /\ UNCHANGED <<talk, rated, shifted, snags>>

PostReturns(q) ==
    /\ asker[q].at = "post"
    /\ Asks(q, "done")
    /\ KeepTyping
    /\ UNCHANGED <<talk, answerer, rated, shifted, snags>>

\* n8n refuses the post, or answers too late: a timer is to stop the sign.
PostFails(q) ==
    /\ snags < MaxSnags
    /\ asker[q].at \in {"prompt", "post"}
    /\ Asks(q, "timer")
    /\ snags' = snags + 1
    /\ KeepTyping
    /\ UNCHANGED <<talk, answerer, rated, shifted>>

StopLater(q) ==
    /\ asker[q].at = "timer"
    /\ Asks(q, "done")
    /\ StopTyping(asker[q].host)
    /\ UNCHANGED <<talk, answerer, rated, shifted, snags>>

\* Finding or writing the session throws; or the prompts or the settings cannot be read,
\* when the sign is there and no catch block stops it.
AskFails(q) ==
    /\ snags < MaxSnags
    /\ asker[q].at \in {"find", "write", "prompt"}
    /\ Asks(q, "failed")
    /\ astray' = IF asker[q].at = "prompt" THEN astray \cup (typing \cap {asker[q].host})
                 ELSE astray
    /\ snags' = snags + 1
    /\ UNCHANGED <<talk, typing, answerer, rated, shifted>>

-----------------------------------------------------------------------------
(* botReply *)

\* It stops the sign of the process that it reaches, which need not be the one that asked.
Reply(q, h) ==
    /\ answerer[q].at = "owed"
    /\ Answers(q, "find")
    /\ typing' = typing \ {h}
    /\ astray' = (astray \cup (typing \cap {asker[q].host})) \ {h}
    /\ UNCHANGED <<talk, asker, rated, shifted, snags>>

FindForReply(q) ==
    /\ answerer[q].at = "find"
    /\ answerer' = [answerer EXCEPT ![q] = [@ EXCEPT !.at = "write", !.found = Len(talk)]]
    /\ KeepTyping
    /\ UNCHANGED <<talk, asker, rated, shifted, snags>>

\* The index that the browser is told is counted in the document as it was found.
WriteReply(q) ==
    /\ answerer[q].at = "write"
    /\ talk' = Append(talk, <<"bot", q>>)
    /\ answerer' = LET r == answerer[q]
                   IN  [answerer EXCEPT ![q] = [r EXCEPT !.at = "told", !.index = r.found + 1]]
    /\ shifted' = IF Len(talk) > answerer[q].found THEN shifted \cup {q} ELSE shifted
    /\ KeepTyping
    /\ UNCHANGED <<asker, rated, snags>>

ReplyFails(q) ==
    /\ snags < MaxSnags
    /\ answerer[q].at \in {"find", "write"}
    /\ Answers(q, "lost")
    /\ snags' = snags + 1
    /\ KeepTyping
    /\ UNCHANGED <<talk, asker, rated, shifted>>

-----------------------------------------------------------------------------
(* rateMessage, with the index that the browser was told *)

Rate(q) ==
    /\ answerer[q].at = "told"
    /\ answerer' = [answerer EXCEPT ![q] = [@ EXCEPT !.at = "rate", !.found = Len(talk)]]
    /\ KeepTyping
    /\ UNCHANGED <<talk, asker, rated, shifted, snags>>

\* A document that has been pushed to since has another version, and is not saved.
SaveRating(q) ==
    /\ answerer[q].at = "rate"
    /\ Answers(q, "told")
    /\ rated' = IF Len(talk) = answerer[q].found
                THEN rated \cup {<<q, answerer[q].index>>} ELSE rated
    /\ KeepTyping
    /\ UNCHANGED <<talk, asker, shifted, snags>>

-----------------------------------------------------------------------------
\* A process is started again: its intervals, timers and calls are gone.
StartAgain(h) ==
    /\ snags < MaxSnags
    /\ StopTyping(h)
    /\ asker' = [q \in Lines |->
                   IF asker[q].host = h /\ asker[q].at # "done"
                   THEN [asker[q] EXCEPT !.at = "failed"] ELSE asker[q]]
    /\ snags' = snags + 1
    /\ UNCHANGED <<talk, answerer, rated, shifted>>

KleemNext ==
    \/ \E q \in Lines :
         \/ FindTalk(q)     \/ WriteTalk(q)  \/ Post(q)       \/ PostReturns(q)
         \/ PostFails(q)    \/ StopLater(q)  \/ AskFails(q)
         \/ FindForReply(q) \/ WriteReply(q) \/ ReplyFails(q) \/ Rate(q) \/ SaveRating(q)
         \/ \E h \in Hosts : Reply(q, h) \/ \E op \in {"ask", "note"} : Say(q, h, op)
    \/ \E h \in Hosts : StartAgain(h)

KleemSpec == KleemInit /\ [][KleemNext]_kleemVars

-----------------------------------------------------------------------------
(* Properties *)

Places(who, q) == {i \in DOMAIN talk : talk[i] = <<who, q>>}

\* A process shows that the bot is typing only while one of its calls is at work, a timer
\* is to stop it, or n8n owes the answer to what was asked there: unless building a
\* prompt threw there, or the answer came to another process.
TypingIsOwed ==
    \A h \in typing \ astray : \E q \in Lines :
        /\ asker[q].host = h
        /\ asker[q].at \in {"prompt", "post", "timer"} \/ answerer[q].at = "owed"

\* Nothing said is lost or said twice, whoever writes at the same time, and an answer
\* stands behind what it answers.  Only a first message that met another is refused.
TalkIsKept ==
    \A q \in Lines :
        /\ \A who \in {"user", "bot"} : \A i, j \in Places(who, q) : i = j
        /\ asker[q].at \in {"prompt", "post", "timer", "done"} => Places("user", q) # {}
        /\ answerer[q].at \in {"told", "rate"} => Places("bot", q) # {}
        /\ \A j \in Places("bot", q) : \E i \in Places("user", q) : i < j

\* A rating is given to the answer that was rated, unless another message was stored
\* between the two calls that stored that answer.
RatedAsMeant ==
    \A r \in rated : r[1] \notin shifted => talk[r[2]] = <<"bot", r[1]>>

\* What is said is kept, and rated and shown as it is, in the sense of the three above.
TalkIsSound == TypingIsOwed /\ TalkIsKept /\ RatedAsMeant
=============================================================================
