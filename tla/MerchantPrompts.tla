--------------------------- MODULE MerchantPrompts ---------------------------
(***************************************************************************)
(* What one merchant's bot is told to say: the advanced template and its   *)
(* earlier versions in the merchant's document, and the cached copy of the *)
(* document that readers are given.  Saving and reverting first append the *)
(* template to its versions and then replace it, one awaited call after    *)
(* the other; most writers delete the cached copy at their end.            *)
(*                                                                         *)
(* Sources: modules/merchants/services/{merchant-cache,prompt-version,     *)
(* merchant-prompt,merchant-profile}.service.ts, merchants.service.ts and  *)
(* controllers/merchant-prompt.controller.ts.                              *)
(*                                                                         *)
(* The compiled text is what it is compiled from; the instructions that    *)
(* are appended to it are left out, and so is the stored compiled text,    *)
(* which nobody reads but through the cached copy.                         *)
(***************************************************************************)
EXTENDS Naturals, FiniteSets

CONSTANTS
    Templates,      \* advanced templates
    Blank,          \* the empty one
    Configs,        \* quick configuration, name and categories
    Prompters,      \* calls, one after another each
    MaxTroubles     \* bound: awaited calls that throw

ASSUME PrompterAssumption == Blank \notin Templates /\ MaxTroubles \in Nat

VARIABLES
    prompt,      \* currentAdvancedConfig.template, and the rest
    versions,    \* what advancedConfigHistory holds
    cached,      \* the entry merchant:<id>, if there is one
    prompter,    \* prompter[c]: the call c awaits
    owed,        \* templates that were current, and were not replaced after another
                 \* write had overtaken the copy, nor by an update of the whole merchant
                 \* (history)
    outdated,    \* the entry outlived a revert or a call that died, or was stored by a
                 \* reader that had read before a write (history)
    troubles

promptVars == <<prompt, versions, cached, prompter, owed, outdated, troubles>>

Prompt == [template : Templates \cup {Blank}, config : Configs]

\* left: snapshots still to take.  new: the template to set.  read: what the call has
\* read of the merchant, and will use.  overtaken: a write has come since.
PrompterState == [op : {"none", "read", "save", "revert"},
                  at : {"idle", "load", "keep", "look", "push", "find", "set", "uncache"},
                  left : 0..2, new : Templates \cup {Blank}, read : Prompt,
                  overtaken : BOOLEAN]

PromptsTypeOK ==
    /\ prompt \in Prompt
    /\ versions \subseteq Templates
    /\ cached \subseteq Prompt /\ Cardinality(cached) <= 1
    /\ prompter \in [Prompters -> PrompterState]
    /\ owed \subseteq Templates
    /\ outdated \in BOOLEAN
    /\ troubles \in 0..MaxTroubles

Resting == [op |-> "none", at |-> "idle", left |-> 0, new |-> Blank,
            read |-> CHOOSE p \in Prompt : TRUE, overtaken |-> FALSE]

PromptsInit ==
    /\ prompt \in Prompt
    /\ versions = {}
    /\ cached = {}
    /\ prompter = [c \in Prompters |-> Resting]
    /\ owed = {prompt.template} \ {Blank}
    /\ outdated = FALSE
    /\ troubles = 0

-----------------------------------------------------------------------------
(* Helpers *)

PrompterAt(c, at) == prompter[c].at = at
Rest(c) == prompter' = [prompter EXCEPT ![c] = Resting]
Become(c, state) == prompter' = [prompter EXCEPT ![c] = state]

\* A call begins.
Ask(c, o, at, n, t) ==
    /\ PrompterAt(c, "idle")
    /\ Become(c, [Resting EXCEPT !.op = o, !.at = at, !.left = n, !.new = t])

\* c writes the merchant and becomes next; those at these stages have read it before.
Overtake(c, next, stages) ==
    prompter' = [d \in Prompters |->
                   IF d = c THEN next
                   ELSE [prompter[d] EXCEPT !.overtaken = @ \/ prompter[d].at \in stages]]

Readers == {"keep"}
Savers == {"push", "find", "set"}

\* c reads the template of the merchant.
ReadTemplate(c) ==
    LET p == prompter[c].read
    IN  [prompter[c] EXCEPT !.read = [p EXCEPT !.template = prompt.template]]

\* After its snapshots, save finds the merchant; revert does not.
AfterSnapshot(state) ==
    [state EXCEPT !.at = IF state.left > 0 THEN "look"
                         ELSE IF state.op = "save" THEN "find" ELSE "set"]

-----------------------------------------------------------------------------
(* MerchantCacheService.findOne *)

\* Whoever finds the entry is given it.
ReadPrompt(c) ==
    /\ cached = {}
    /\ Ask(c, "read", "load", 0, Blank)
    /\ UNCHANGED <<prompt, versions, cached, owed, outdated, troubles>>

\* The merchant is read; its prompt is compiled, and saved.
LoadPrompt(c) ==
    /\ PrompterAt(c, "load")
    /\ Become(c, [prompter[c] EXCEPT !.at = "keep", !.read = prompt])
    /\ UNCHANGED <<prompt, versions, cached, owed, outdated, troubles>>

KeepPrompt(c) ==
    /\ PrompterAt(c, "keep")
    /\ cached' = {prompter[c].read}
    /\ outdated' = prompter[c].overtaken
    /\ Rest(c)
    /\ UNCHANGED <<prompt, versions, owed, troubles>>

-----------------------------------------------------------------------------
(* Saving a template, and reverting to one *)

\* The controller takes a snapshot, and the service it calls takes another.
SaveTemplate(c, t) ==
    /\ Ask(c, "save", "look", 2, t)
    /\ UNCHANGED <<prompt, versions, cached, owed, outdated, troubles>>

\* The index given names one of the versions.
RevertTo(c, t) ==
    /\ t \in versions
    /\ Ask(c, "revert", "look", 1, t)
    /\ UNCHANGED <<prompt, versions, cached, owed, outdated, troubles>>

\* snapshot reads the merchant; an empty template is not copied.
TakeSnapshot(c) ==
    LET seen == [ReadTemplate(c) EXCEPT !.left = @ - 1, !.overtaken = FALSE]
    IN  /\ PrompterAt(c, "look")
        /\ Become(c, IF prompt.template = Blank THEN AfterSnapshot(seen)
                     ELSE [seen EXCEPT !.at = "push"])
        /\ UNCHANGED <<prompt, versions, cached, owed, outdated, troubles>>

PushVersion(c) ==
    /\ PrompterAt(c, "push")
    /\ versions' = versions \cup {prompter[c].read.template}
    /\ Become(c, AfterSnapshot(prompter[c]))
    /\ UNCHANGED <<prompt, cached, owed, outdated, troubles>>

FindMerchant(c) ==
    /\ PrompterAt(c, "find")
    /\ Become(c, [ReadTemplate(c) EXCEPT !.at = "set"])
    /\ UNCHANGED <<prompt, versions, cached, owed, outdated, troubles>>

\* save writes what differs from the merchant it found, revert in any case; only the
\* first goes on to invalidate.
SetTemplate(c) ==
    LET saves == prompter[c].op = "save"
        same  == saves /\ prompter[c].read.template = prompter[c].new
        t     == IF same THEN prompt.template ELSE prompter[c].new
    IN  /\ PrompterAt(c, "set")
        /\ prompt' = [prompt EXCEPT !.template = t]
        /\ owed' = (IF prompter[c].overtaken THEN owed \ {prompt.template} ELSE owed)
                     \cup ({t} \ {Blank})
        /\ Overtake(c, IF saves THEN [Resting EXCEPT !.at = "uncache"] ELSE Resting,
                    Readers \cup Savers)
        /\ outdated' = (outdated \/ ~saves)
        /\ UNCHANGED <<versions, cached, troubles>>

-----------------------------------------------------------------------------
(* Other writers, and the cached copy *)

\* updateQuickConfig, and saveBasicInfo.  Between the write and the invalidation the
\* prompt is compiled and saved; the second tolerates that this fails.
UpdateQuickConfig(c, g) ==
    /\ PrompterAt(c, "idle")
    /\ prompt' = [prompt EXCEPT !.config = g]
    /\ Overtake(c, [Resting EXCEPT !.at = "uncache"], Readers)
    /\ UNCHANGED <<versions, cached, owed, outdated, troubles>>

\* The body may name any field, the template and its versions too.
UpdateMerchant(c, t, g, V) ==
    /\ PrompterAt(c, "idle")
    /\ prompt' = [template |-> t, config |-> g]
    /\ versions' = V
    /\ owed' = (owed \cap V) \cup ({t} \ {Blank})
    /\ Overtake(c, [Resting EXCEPT !.at = "uncache"], Readers \cup Savers)
    /\ UNCHANGED <<cached, outdated, troubles>>

\* Mutation of Invalidate: it deletes other keys.
InvalidateOthers(c) ==
    /\ PrompterAt(c, "uncache")
    /\ Rest(c)
    /\ UNCHANGED <<prompt, versions, cached, owed, outdated, troubles>>

Invalidate(c) ==
    /\ PrompterAt(c, "uncache")
    /\ cached' = {}
    /\ outdated' = FALSE
    /\ Rest(c)
    /\ UNCHANGED <<prompt, versions, owed, troubles>>

CopyExpires ==
    /\ cached # {}
    /\ cached' = {}
    /\ outdated' = FALSE
    /\ UNCHANGED <<prompt, versions, prompter, owed, troubles>>

\* The awaited call throws.  If it took effect all the same, the call dies after that step.
Trouble(c) ==
    /\ troubles < MaxTroubles
    /\ ~PrompterAt(c, "idle")
    /\ outdated' = (outdated \/ PrompterAt(c, "uncache"))
    /\ Rest(c)
    /\ troubles' = troubles + 1
    /\ UNCHANGED <<prompt, versions, cached, owed>>

-----------------------------------------------------------------------------
PromptsNext ==
    \/ \E c \in Prompters :
         \/ ReadPrompt(c)   \/ LoadPrompt(c)   \/ KeepPrompt(c)  \/ TakeSnapshot(c)
         \/ PushVersion(c)  \/ FindMerchant(c) \/ SetTemplate(c) \/ Invalidate(c)
         \/ Trouble(c)
         \/ \E t \in Templates : SaveTemplate(c, t) \/ RevertTo(c, t)
         \/ \E g \in Configs : UpdateQuickConfig(c, g)
         \/ \E t \in Templates \cup {Blank}, g \in Configs, V \in SUBSET Templates :
              UpdateMerchant(c, t, g, V)
    \/ CopyExpires

MerchantPromptsSpec == PromptsInit /\ [][PromptsNext]_promptVars

-----------------------------------------------------------------------------
(* Properties *)

\* With no call under way readers are given the current prompt, unless a revert, a call
\* that died before it invalidated, or a reader that was overtaken by a write left an
\* old one.  The next invalidation or expiry ends that.
PromptIsCurrent ==
    (\A c \in Prompters : PrompterAt(c, "idle")) /\ ~outdated => cached \subseteq {prompt}

\* A template that ever was current still is, or is among the versions: at any time,
\* whichever call fails, unless it was set between another save's copy and its write, or
\* an update of the whole merchant replaced it.
NoTemplateIsLost == owed \subseteq versions \cup {prompt.template}
=============================================================================
