----------------------------- MODULE BotPrompts ------------------------------
(***************************************************************************)
(* The prompts of Kleem, the platform's own support bot.  Of the system    *)
(* prompts one is to be active, and nothing in the database says so:       *)
(* whoever activates one makes the others inactive by a call of its own,   *)
(* before or after, and other admins' calls come in between.               *)
(*                                                                         *)
(* Sources: modules/kleem/botPrompt/botPrompt.service.ts, its MongoDB      *)
(* repository and the dto of update.  publish has no route.  Contents are  *)
(* left out, a prompt being what its id says.                              *)
(***************************************************************************)
EXTENDS Naturals

CONSTANTS
    BotPromptIds,
    NoBotPrompt,
    Curators,        \* admins' calls, one after another each
    MaxStumbles      \* bound: awaited calls that throw

ASSUME CuratorAssumption == NoBotPrompt \notin BotPromptIds /\ MaxStumbles \in Nat

VARIABLES
    botPrompt,   \* botPrompt[p]: the document
    curator,     \* curator[c]: the call c awaits
    chosen,      \* the system prompt activated last, unless it was made inactive, a user
                 \* prompt, or nothing since (history)
    muddled,     \* an activation met another call, or died half-way, and none that met no
                 \* other has been completed since (history)
    stumbles

curateVars == <<botPrompt, curator, chosen, muddled, stumbles>>

BotPromptDoc == [there : BOOLEAN, type : {"system", "user"}, active : BOOLEAN,
                 archived : BOOLEAN]

\* active: what to set.  alone: no other call has written since this one began.
Curation == [op : {"none", "create", "update", "set"},
             at : {"idle", "clear", "insert", "set", "others"},
             id : BotPromptIds \cup {NoBotPrompt}, active : BOOLEAN, alone : BOOLEAN]

BotPromptsTypeOK ==
    /\ botPrompt \in [BotPromptIds -> BotPromptDoc]
    /\ curator \in [Curators -> Curation]
    /\ chosen \in BotPromptIds \cup {NoBotPrompt}
    /\ muddled \in BOOLEAN
    /\ stumbles \in 0..MaxStumbles

NoCuration ==
    [op |-> "none", at |-> "idle", id |-> NoBotPrompt, active |-> FALSE, alone |-> FALSE]

BotPromptsInit ==
    /\ botPrompt = [p \in BotPromptIds |-> [there |-> FALSE, type |-> "user",
                                            active |-> FALSE, archived |-> FALSE]]
    /\ curator = [c \in Curators |-> NoCuration]
    /\ chosen = NoBotPrompt
    /\ muddled = FALSE
    /\ stumbles = 0

-----------------------------------------------------------------------------
(* Helpers *)

CuratorAt(c, at) == curator[c].at = at

Curate(o, at, p, a) == [op |-> o, at |-> at, id |-> p, active |-> a, alone |-> TRUE]

\* c writes, and becomes next: the others are alone no more.
Writes(c, next) ==
    curator' = [d \in Curators |->
                  IF d = c THEN next
                  ELSE [curator[d] EXCEPT !.alone = @ /\ CuratorAt(d, "idle")]]

System(p) == botPrompt[p].there /\ botPrompt[p].type = "system"

\* The system prompts but p are made inactive.
Cleared(p) ==
    [q \in BotPromptIds |-> IF System(q) /\ q # p THEN [botPrompt[q] EXCEPT !.active = FALSE]
                            ELSE botPrompt[q]]

\* Ids are not used again while one is to be inserted.
FreeId(p) ==
    ~botPrompt[p].there /\ \A d \in Curators : curator[d].op = "create" => curator[d].id # p

Inactive(p) == chosen' = IF chosen = p THEN NoBotPrompt ELSE chosen

\* An activation of p by c is complete.
Activated(c, p) ==
    /\ chosen' = p
    /\ muddled' = ~curator[c].alone

-----------------------------------------------------------------------------
(* create *)

\* The others are made inactive first if the new one is an active system prompt.
CreatePrompt(c, p, type, a) ==
    /\ CuratorAt(c, "idle")
    /\ FreeId(p)
    /\ IF type = "system" /\ a
       THEN /\ curator' = [curator EXCEPT ![c] = Curate("create", "clear", p, a)]
            /\ UNCHANGED botPrompt
       ELSE /\ Writes(c, NoCuration)
            /\ botPrompt' = [botPrompt EXCEPT ![p] = [there |-> TRUE, type |-> type,
                                                      active |-> a, archived |-> FALSE]]
    /\ UNCHANGED <<chosen, muddled, stumbles>>

InsertPrompt(c) ==
    LET p == curator[c].id
    IN  /\ CuratorAt(c, "insert")
        /\ botPrompt' = [botPrompt EXCEPT ![p] = [there |-> TRUE, type |-> "system",
                                                  active |-> TRUE, archived |-> FALSE]]
        /\ Activated(c, p)
        /\ Writes(c, NoCuration)
        /\ UNCHANGED stumbles

-----------------------------------------------------------------------------
(* update *)

\* The dto fills in active = false when the request does not name it, so that every
\* other edit of the active prompt makes it inactive.
UpdatePrompt(c, p, type, a, archived) ==
    /\ CuratorAt(c, "idle")
    /\ botPrompt[p].there
    /\ botPrompt' = [botPrompt EXCEPT ![p] = [there |-> TRUE, type |-> type, active |-> a,
                                              archived |-> archived]]
    /\ IF a /\ type = "system"
       THEN Writes(c, Curate("update", "others", p, a)) /\ UNCHANGED chosen
       ELSE Writes(c, NoCuration) /\ Inactive(p)
    /\ UNCHANGED <<muddled, stumbles>>

ClearOthers(c) ==
    /\ CuratorAt(c, "others")
    /\ botPrompt' = Cleared(curator[c].id)
    /\ Activated(c, curator[c].id)
    /\ Writes(c, NoCuration)
    /\ UNCHANGED stumbles

-----------------------------------------------------------------------------
(* setActive, archive and remove *)

\* The prompt is found.
SetActive(c, p, a) ==
    /\ CuratorAt(c, "idle")
    /\ botPrompt[p].there
    /\ curator' = [curator EXCEPT
                     ![c] = Curate("set", IF System(p) /\ a THEN "clear" ELSE "set", p, a)]
    /\ UNCHANGED <<botPrompt, chosen, muddled, stumbles>>

\* For create too.
Clear(c) ==
    /\ CuratorAt(c, "clear")
    /\ botPrompt' = Cleared(NoBotPrompt)
    /\ Writes(c, [curator[c] EXCEPT !.at = IF curator[c].op = "create" THEN "insert" ELSE "set"])
    /\ UNCHANGED <<chosen, muddled, stumbles>>

\* A prompt that was deleted since is not found.
SetPrompt(c) ==
    LET p == curator[c].id
        a == curator[c].active
    IN  /\ CuratorAt(c, "set")
        /\ botPrompt' = IF botPrompt[p].there THEN [botPrompt EXCEPT ![p].active = a]
                        ELSE botPrompt
        /\ IF a /\ System(p) THEN Activated(c, p)
           ELSE /\ IF a THEN UNCHANGED chosen ELSE Inactive(p)
                /\ muddled' = (muddled \/ (a /\ ~curator[c].alone))
        /\ Writes(c, NoCuration)
        /\ UNCHANGED stumbles

ArchivePrompt(c, p) ==
    /\ CuratorAt(c, "idle")
    /\ botPrompt[p].there
    /\ botPrompt' = [botPrompt EXCEPT ![p] = [@ EXCEPT !.archived = TRUE, !.active = FALSE]]
    /\ Inactive(p)
    /\ Writes(c, NoCuration)
    /\ UNCHANGED <<muddled, stumbles>>

RemovePrompt(c, p) ==
    /\ CuratorAt(c, "idle")
    /\ botPrompt[p].there
    /\ botPrompt' = [botPrompt EXCEPT ![p] = [there |-> FALSE, type |-> "user",
                                              active |-> FALSE, archived |-> FALSE]]
    /\ Inactive(p)
    /\ Writes(c, NoCuration)
    /\ UNCHANGED <<muddled, stumbles>>

-----------------------------------------------------------------------------
\* The awaited call throws; of an update of many, some may have been made.
Stumble(c) ==
    /\ stumbles < MaxStumbles
    /\ ~CuratorAt(c, "idle")
    /\ LET spared == IF CuratorAt(c, "others") THEN curator[c].id ELSE NoBotPrompt
       IN  IF CuratorAt(c, "clear") \/ CuratorAt(c, "others")
           THEN \E S \in SUBSET BotPromptIds :
                  botPrompt' = [p \in BotPromptIds |-> IF p \in S THEN Cleared(spared)[p]
                                                       ELSE botPrompt[p]]
           ELSE UNCHANGED botPrompt
    /\ muddled' = (muddled \/ curator[c].active)
    /\ Writes(c, NoCuration)
    /\ stumbles' = stumbles + 1
    /\ UNCHANGED chosen

BotPromptsNext ==
    \E c \in Curators :
        \/ InsertPrompt(c) \/ ClearOthers(c) \/ Clear(c) \/ SetPrompt(c) \/ Stumble(c)
        \/ \E p \in BotPromptIds :
             \/ ArchivePrompt(c, p)
             \/ RemovePrompt(c, p)
             \/ \E a \in BOOLEAN : SetActive(c, p, a)
             \/ \E type \in {"system", "user"}, a \in BOOLEAN : CreatePrompt(c, p, type, a)
             \/ \E type \in {"system", "user"}, a, archived \in BOOLEAN :
                  UpdatePrompt(c, p, type, a, archived)

BotPromptsSpec == BotPromptsInit /\ [][BotPromptsNext]_curateVars

-----------------------------------------------------------------------------
(* Properties *)

\* What getActiveSystemPromptOrDefault chooses from; with none, a text of its own.
Answering ==
    {p \in BotPromptIds : System(p) /\ botPrompt[p].active /\ ~botPrompt[p].archived}

\* With no call under way Kleem answers by the prompt that was activated last and by no
\* other, unless calls met or one died between its two writes: then it may be two, or
\* none, until a prompt is activated by a call that meets no other.
LastActivatedAnswers ==
    (\A c \in Curators : CuratorAt(c, "idle")) /\ ~muddled =>
        Answering = {p \in {chosen} \ {NoBotPrompt} : ~botPrompt[p].archived}
=============================================================================
