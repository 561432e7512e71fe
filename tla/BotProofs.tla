----------------------------- MODULE BotProofs ------------------------------
(***************************************************************************)
(* Proofs about what the bots are told to say, and about the talks of the  *)
(* support bot, for any number of templates, prompts, calls, lines and     *)
(* processes and any bound of errors.                                      *)
(***************************************************************************)
EXTENDS Prompts, KleemChat, FiniteSetTheorems, TLAPS

-----------------------------------------------------------------------------
(* MerchantPrompts: the inductive invariant *)

\* What call r knows, as long as no write has overtaken it: a reader the prompt that it
\* will cache, a snapshot the template it will copy, and whoever has taken his snapshots
\* that the template he will replace is among the versions.
PrompterFits(r) ==
    /\ r.at = "push" => r.read.template # Blank
    /\ r.at \in {"look", "push", "find", "set"} => r.op \in {"save", "revert"}
    /\ r.at = "look" => r.left > 0
    /\ ~r.overtaken =>
          /\ r.at = "keep" => r.read = prompt
          /\ r.at = "push" => r.read.template = prompt.template
          /\ r.at \in {"find", "set"} => prompt.template \in versions \cup {Blank}

\* The copy is the prompt, or somebody is about to delete it, or it outlived that.
CopyFits ==
    outdated \/ (\E c \in Prompters : PrompterAt(c, "uncache")) \/ cached \subseteq {prompt}

MerchantPromptsInv ==
    /\ PromptsTypeOK
    /\ cached = {} \/ \E p \in Prompt : cached = {p}
    /\ \A c \in Prompters : PrompterFits(prompter[c])
    /\ CopyFits
    /\ NoTemplateIsLost

-----------------------------------------------------------------------------
(* MerchantPrompts: steps *)

LEMMA RestingIs ==
    ASSUME prompt \in Prompt
    PROVE  /\ Resting \in PrompterState /\ Resting.op = "none" /\ Resting.at = "idle"
           /\ Resting.left = 0 /\ Resting.new = Blank /\ ~Resting.overtaken
<1>1. (CHOOSE p \in Prompt : TRUE) \in Prompt
    OBVIOUS
<1>2. PICK p \in Prompt : p = CHOOSE q \in Prompt : TRUE
    BY <1>1
<1>3. Resting = [op |-> "none", at |-> "idle", left |-> 0, new |-> Blank, read |-> p,
                 overtaken |-> FALSE]
    BY <1>2 DEF Resting
<1> QED BY <1>3 DEF PrompterState

\* Call c becomes r, and the prompt stays.
LEMMA PrompterGoesOn ==
    ASSUME MerchantPromptsInv, NEW c \in Prompters, NEW r \in PrompterState, Become(c, r),
           UNCHANGED prompt, versions \subseteq versions', PrompterFits(r)'
    PROVE  /\ prompter' \in [Prompters -> PrompterState] /\ prompter'[c] = r
           /\ \A d \in Prompters \ {c} : prompter'[d] = prompter[d]
           /\ \A d \in Prompters : PrompterFits(prompter[d])'
<1>1. /\ prompter' \in [Prompters -> PrompterState] /\ prompter'[c] = r
      /\ \A d \in Prompters \ {c} : prompter'[d] = prompter[d]
    BY DEF Become, MerchantPromptsInv, PromptsTypeOK
<1>2. ASSUME NEW d \in Prompters PROVE PrompterFits(prompter[d])'
  <2>1. CASE d = c
    BY <1>1, <2>1 DEF PrompterFits
  <2>2. CASE d # c
    <3>1. prompter'[d] = prompter[d] /\ PrompterFits(prompter[d])
      BY <1>1, <2>2 DEF MerchantPromptsInv
    <3> QED BY <3>1 DEF PrompterFits
  <2> QED BY <2>1, <2>2
<1> QED BY <1>1, <1>2

\* A step that leaves the copy, and whoever is about to delete it.
LEMMA CopyStays ==
    ASSUME MerchantPromptsInv, UNCHANGED <<prompt, cached, outdated>>,
           \A d \in Prompters : prompter[d].at = "uncache" => prompter'[d].at = "uncache"
    PROVE  /\ CopyFits'
           /\ cached' = {} \/ \E p \in Prompt : cached' = {p}
    BY DEF MerchantPromptsInv, CopyFits, PrompterAt

\* A call goes on, and changes nothing else.
LEMMA PrompterThinks ==
    ASSUME MerchantPromptsInv, NEW c \in Prompters, NEW r \in PrompterState, Become(c, r),
           UNCHANGED <<prompt, versions, cached, owed, outdated, troubles>>,
           prompter[c].at # "uncache", PrompterFits(r)'
    PROVE  MerchantPromptsInv'
<1>1. /\ prompter' \in [Prompters -> PrompterState]
      /\ \A d \in Prompters \ {c} : prompter'[d] = prompter[d]
      /\ \A d \in Prompters : PrompterFits(prompter[d])'
    BY PrompterGoesOn
<1>2. CopyFits' /\ (cached' = {} \/ \E p \in Prompt : cached' = {p})
    BY <1>1, CopyStays
<1>3. PromptsTypeOK' /\ NoTemplateIsLost'
    BY <1>1 DEF MerchantPromptsInv, PromptsTypeOK, NoTemplateIsLost
<1> QED BY <1>1, <1>2, <1>3 DEF MerchantPromptsInv

LEMMA AskInv ==
    ASSUME MerchantPromptsInv, NEW c \in Prompters, NEW t \in Templates \cup {Blank},
           NEW n \in 0..2, NEW o \in {"read", "save", "revert"}, NEW at \in {"load", "look"},
           Ask(c, o, at, n, t), at = "look" => n > 0 /\ o \in {"save", "revert"},
           UNCHANGED <<prompt, versions, cached, owed, outdated, troubles>>
    PROVE  MerchantPromptsInv'
<1>1. PICK r : r = [Resting EXCEPT !.op = o, !.at = at, !.left = n, !.new = t]
    OBVIOUS
<1>2. Resting \in PrompterState
    BY RestingIs DEF MerchantPromptsInv, PromptsTypeOK
<1>3. r \in PrompterState /\ r.op = o /\ r.at = at /\ r.left = n
    BY <1>1, <1>2 DEF PrompterState
<1>4. Become(c, r) /\ prompter[c].at = "idle"
    BY <1>1 DEF Ask, PrompterAt
<1>5. PrompterFits(r)'
    BY <1>3 DEF PrompterFits
<1> QED BY <1>3, <1>4, <1>5, PrompterThinks

LEMMA ReadPromptInv ==
    ASSUME MerchantPromptsInv, NEW c \in Prompters, ReadPrompt(c)
    PROVE  MerchantPromptsInv'
    BY AskInv DEF ReadPrompt

LEMMA SaveTemplateInv ==
    ASSUME MerchantPromptsInv, NEW c \in Prompters, NEW t \in Templates,
           SaveTemplate(c, t) \/ RevertTo(c, t)
    PROVE  MerchantPromptsInv'
<1>1. PICK n \in {1, 2}, o \in {"save", "revert"} : Ask(c, o, "look", n, t)
    BY DEF SaveTemplate, RevertTo
<1>2. UNCHANGED <<prompt, versions, cached, owed, outdated, troubles>>
    BY DEF SaveTemplate, RevertTo
<1> QED BY <1>1, <1>2, AskInv

LEMMA LoadPromptInv ==
    ASSUME MerchantPromptsInv, NEW c \in Prompters, LoadPrompt(c)
    PROVE  MerchantPromptsInv'
<1>1. PICK r : r = [prompter[c] EXCEPT !.at = "keep", !.read = prompt]
    OBVIOUS
<1>2. prompter[c] \in PrompterState /\ prompt \in Prompt
    BY DEF MerchantPromptsInv, PromptsTypeOK
<1>3. r \in PrompterState /\ r.at = "keep" /\ r.read = prompt
    BY <1>1, <1>2 DEF PrompterState
<1>4. /\ Become(c, r) /\ prompter[c].at = "load"
      /\ UNCHANGED <<prompt, versions, cached, owed, outdated, troubles>>
    BY <1>1 DEF LoadPrompt, PrompterAt
<1>5. PrompterFits(r)'
    BY <1>3, <1>4 DEF PrompterFits
<1> QED BY <1>3, <1>4, <1>5, PrompterThinks

LEMMA KeepPromptInv ==
    ASSUME MerchantPromptsInv, NEW c \in Prompters, KeepPrompt(c)
    PROVE  MerchantPromptsInv'
<1>1. /\ prompter[c].at = "keep" /\ prompter[c] \in PrompterState /\ PrompterFits(prompter[c])
      /\ cached' = {prompter[c].read} /\ outdated' = prompter[c].overtaken
      /\ Become(c, Resting)
      /\ UNCHANGED <<prompt, versions, owed, troubles>>
    BY DEF KeepPrompt, PrompterAt, Rest, Become, MerchantPromptsInv, PromptsTypeOK
<1>2. Resting \in PrompterState /\ PrompterFits(Resting)'
    BY RestingIs DEF MerchantPromptsInv, PromptsTypeOK, PrompterFits
<1>3. /\ prompter' \in [Prompters -> PrompterState]
      /\ \A d \in Prompters : PrompterFits(prompter[d])'
    BY <1>1, <1>2, PrompterGoesOn
<1>4. prompter[c].read \in Prompt /\ prompter[c].overtaken \in BOOLEAN
    BY <1>1 DEF PrompterState
<1>5. CopyFits'
    BY <1>1 DEF PrompterFits, CopyFits
<1>6. PromptsTypeOK'
  <2>1. Cardinality({prompter[c].read}) = 1
    BY FS_Singleton
  <2>2. cached' \subseteq Prompt /\ Cardinality(cached') <= 1
    BY <1>1, <1>4, <2>1
  <2> QED BY <1>1, <1>3, <1>4, <2>2 DEF MerchantPromptsInv, PromptsTypeOK
<1> QED BY <1>1, <1>3, <1>4, <1>5, <1>6 DEF MerchantPromptsInv, NoTemplateIsLost

LEMMA ReadTemplateIs ==
    ASSUME PromptsTypeOK, NEW c \in Prompters
    PROVE  /\ ReadTemplate(c) \in PrompterState
           /\ ReadTemplate(c).op = prompter[c].op /\ ReadTemplate(c).at = prompter[c].at
           /\ ReadTemplate(c).left = prompter[c].left
           /\ ReadTemplate(c).overtaken = prompter[c].overtaken
           /\ ReadTemplate(c).read.template = prompt.template
<1>1. prompter[c] \in PrompterState /\ prompt \in Prompt
    BY DEF PromptsTypeOK
<1>2. PICK p : p = [prompter[c].read EXCEPT !.template = prompt.template]
    OBVIOUS
<1>3. p \in Prompt /\ p.template = prompt.template
    BY <1>1, <1>2 DEF PrompterState, Prompt
<1>4. ReadTemplate(c) = [prompter[c] EXCEPT !.read = p]
    BY <1>2 DEF ReadTemplate
<1> QED BY <1>1, <1>3, <1>4 DEF PrompterState

LEMMA AfterSnapshotIs ==
    ASSUME NEW r \in PrompterState
    PROVE  /\ AfterSnapshot(r) \in PrompterState
           /\ AfterSnapshot(r).op = r.op /\ AfterSnapshot(r).left = r.left
           /\ AfterSnapshot(r).overtaken = r.overtaken
           /\ AfterSnapshot(r).at = IF r.left > 0 THEN "look"
                                    ELSE IF r.op = "save" THEN "find" ELSE "set"
    BY DEF AfterSnapshot, PrompterState

LEMMA TakeSnapshotInv ==
    ASSUME MerchantPromptsInv, NEW c \in Prompters, TakeSnapshot(c)
    PROVE  MerchantPromptsInv'
<1>1. PICK seen : seen = [ReadTemplate(c) EXCEPT !.left = @ - 1, !.overtaken = FALSE]
    OBVIOUS
<1>2. /\ prompter[c].at = "look" /\ PrompterFits(prompter[c]) /\ prompter[c] \in PrompterState
      /\ PromptsTypeOK
    BY DEF TakeSnapshot, PrompterAt, MerchantPromptsInv, PromptsTypeOK
<1>3. prompter[c].left \in 1..2 /\ prompter[c].op \in {"save", "revert"}
    BY <1>2 DEF PrompterFits, PrompterState
<1>4. /\ seen \in PrompterState /\ seen.op = prompter[c].op /\ ~seen.overtaken
      /\ seen.at = "look" /\ seen.read.template = prompt.template
  <2>1. ReadTemplate(c).left - 1 \in 0..2
    BY <1>2, <1>3, ReadTemplateIs
  <2> QED BY <1>1, <1>2, <2>1, ReadTemplateIs DEF PrompterState
<1>5. UNCHANGED <<prompt, versions, cached, owed, outdated, troubles>>
    BY DEF TakeSnapshot
<1>6. CASE prompt.template = Blank
  <2>1. PICK r : r = AfterSnapshot(seen)
    OBVIOUS
  <2>2. /\ r \in PrompterState /\ r.op = prompter[c].op /\ r.left = seen.left /\ ~r.overtaken
        /\ r.at = IF seen.left > 0 THEN "look" ELSE IF r.op = "save" THEN "find" ELSE "set"
    BY <1>4, <2>1, AfterSnapshotIs
  <2>3. Become(c, r)
    BY <1>1, <1>6, <2>1 DEF TakeSnapshot
  <2>4. PrompterFits(r)'
    BY <1>3, <1>5, <1>6, <2>2 DEF PrompterFits
  <2> QED BY <1>2, <1>5, <2>2, <2>3, <2>4, PrompterThinks
<1>7. CASE prompt.template # Blank
  <2>1. PICK r : r = [seen EXCEPT !.at = "push"]
    OBVIOUS
  <2>2. /\ r \in PrompterState /\ r.op = prompter[c].op /\ r.at = "push"
        /\ r.read.template = prompt.template
    BY <1>4, <2>1 DEF PrompterState
  <2>3. Become(c, r)
    BY <1>1, <1>7, <2>1 DEF TakeSnapshot
  <2>4. PrompterFits(r)'
    BY <1>3, <1>5, <1>7, <2>2 DEF PrompterFits
  <2> QED BY <1>2, <1>5, <2>2, <2>3, <2>4, PrompterThinks
<1> QED BY <1>6, <1>7

LEMMA PushVersionInv ==
    ASSUME MerchantPromptsInv, NEW c \in Prompters, PushVersion(c)
    PROVE  MerchantPromptsInv'
<1>1. /\ prompter[c].at = "push" /\ PrompterFits(prompter[c]) /\ prompter[c] \in PrompterState
      /\ versions' = versions \cup {prompter[c].read.template}
      /\ UNCHANGED <<prompt, cached, owed, outdated, troubles>>
    BY DEF PushVersion, PrompterAt, MerchantPromptsInv, PromptsTypeOK
<1>2. prompter[c].read.template \in Templates
    BY <1>1 DEF PrompterFits, PrompterState, Prompt
<1>3. PICK r : r = AfterSnapshot(prompter[c])
    OBVIOUS
<1>4. /\ r \in PrompterState /\ r.op = prompter[c].op /\ r.left = prompter[c].left
      /\ r.overtaken = prompter[c].overtaken
      /\ r.at = IF r.left > 0 THEN "look" ELSE IF r.op = "save" THEN "find" ELSE "set"
    BY <1>1, <1>3, AfterSnapshotIs
<1>5. Become(c, r)
    BY <1>3 DEF PushVersion
<1>6. PrompterFits(r)'
    BY <1>1, <1>4 DEF PrompterFits
<1>7. /\ prompter' \in [Prompters -> PrompterState]
      /\ \A d \in Prompters \ {c} : prompter'[d] = prompter[d]
      /\ \A d \in Prompters : PrompterFits(prompter[d])'
    BY <1>1, <1>4, <1>5, <1>6, PrompterGoesOn
<1>8. CopyFits' /\ (cached' = {} \/ \E p \in Prompt : cached' = {p})
    BY <1>1, <1>7, CopyStays
<1>9. PromptsTypeOK' /\ NoTemplateIsLost'
    BY <1>1, <1>2, <1>7 DEF MerchantPromptsInv, PromptsTypeOK, NoTemplateIsLost
<1> QED BY <1>7, <1>8, <1>9 DEF MerchantPromptsInv

LEMMA FindMerchantInv ==
    ASSUME MerchantPromptsInv, NEW c \in Prompters, FindMerchant(c)
    PROVE  MerchantPromptsInv'
<1>1. PICK r : r = [ReadTemplate(c) EXCEPT !.at = "set"]
    OBVIOUS
<1>2. /\ prompter[c].at = "find" /\ PrompterFits(prompter[c]) /\ PromptsTypeOK /\ Become(c, r)
      /\ UNCHANGED <<prompt, versions, cached, owed, outdated, troubles>>
    BY <1>1 DEF FindMerchant, PrompterAt, MerchantPromptsInv
<1>3. /\ r \in PrompterState /\ r.at = "set" /\ r.op = prompter[c].op
      /\ r.overtaken = prompter[c].overtaken
    BY <1>1, <1>2, ReadTemplateIs DEF PrompterState
<1>4. PrompterFits(r)'
    BY <1>2, <1>3 DEF PrompterFits
<1> QED BY <1>2, <1>3, <1>4, PrompterThinks

\* A write of c, which those at these stages do not know of.
LEMMA OvertakeIs ==
    ASSUME PromptsTypeOK, NEW c \in Prompters, NEW next \in PrompterState, NEW stages,
           Overtake(c, next, stages)
    PROVE  /\ prompter' \in [Prompters -> PrompterState] /\ prompter'[c] = next
           /\ \A d \in Prompters \ {c} :
                 /\ prompter'[d].op = prompter[d].op /\ prompter'[d].at = prompter[d].at
                 /\ prompter'[d].left = prompter[d].left /\ prompter'[d].read = prompter[d].read
                 /\ prompter'[d].overtaken = (prompter[d].overtaken \/ prompter[d].at \in stages)
<1>1. ASSUME NEW d \in Prompters
      PROVE  LET r == [prompter[d] EXCEPT !.overtaken = @ \/ prompter[d].at \in stages]
             IN  /\ r \in PrompterState /\ r.op = prompter[d].op /\ r.at = prompter[d].at
                 /\ r.left = prompter[d].left /\ r.read = prompter[d].read
                 /\ r.overtaken = (prompter[d].overtaken \/ prompter[d].at \in stages)
  <2>1. prompter[d] \in PrompterState
    BY DEF PromptsTypeOK
  <2> QED BY <2>1 DEF PrompterState
<1> QED BY <1>1 DEF Overtake

\* The prompt and its versions are written: whoever read them before knows himself
\* overtaken, or does not mind.
LEMMA OvertakenFit ==
    ASSUME MerchantPromptsInv, NEW c \in Prompters, NEW next \in PrompterState, NEW stages,
           Overtake(c, next, stages), next.at \in {"idle", "uncache"},
           "keep" \in stages,
           \/ {"push", "find", "set"} \subseteq stages
           \/ prompt'.template = prompt.template /\ versions' = versions
    PROVE  /\ prompter' \in [Prompters -> PrompterState] /\ prompter'[c] = next
           /\ \A d \in Prompters : PrompterFits(prompter[d])'
<1>1. /\ prompter' \in [Prompters -> PrompterState] /\ prompter'[c] = next
      /\ \A d \in Prompters \ {c} :
            /\ prompter'[d].op = prompter[d].op /\ prompter'[d].at = prompter[d].at
            /\ prompter'[d].left = prompter[d].left /\ prompter'[d].read = prompter[d].read
            /\ prompter'[d].overtaken = (prompter[d].overtaken \/ prompter[d].at \in stages)
    BY OvertakeIs DEF MerchantPromptsInv
<1>2. ASSUME NEW d \in Prompters PROVE PrompterFits(prompter[d])'
  <2>1. CASE d = c
    BY <1>1, <2>1 DEF PrompterFits
  <2>2. CASE d # c
    <3>1. PrompterFits(prompter[d])
      BY DEF MerchantPromptsInv
    <3> QED BY ZenonT(30), <1>1, <2>2, <3>1 DEF PrompterFits
  <2> QED BY <2>1, <2>2
<1> QED BY <1>1, <1>2

LEMMA SetTemplateInv ==
    ASSUME MerchantPromptsInv, NEW c \in Prompters, SetTemplate(c)
    PROVE  MerchantPromptsInv'
<1> DEFINE saves == prompter[c].op = "save"
           same  == saves /\ prompter[c].read.template = prompter[c].new
           t     == IF same THEN prompt.template ELSE prompter[c].new
<1>1. /\ prompter[c].at = "set" /\ prompter[c] \in PrompterState /\ PrompterFits(prompter[c])
      /\ prompt \in Prompt
      /\ UNCHANGED <<versions, cached, troubles>>
    BY DEF SetTemplate, PrompterAt, MerchantPromptsInv, PromptsTypeOK
<1>2. t \in Templates \cup {Blank}
    BY <1>1 DEF PrompterState, Prompt
<1>3. PICK u \in Templates \cup {Blank} : u = t
    BY <1>2
<1>4. /\ prompt' = [prompt EXCEPT !.template = u]
      /\ owed' = (IF prompter[c].overtaken THEN owed \ {prompt.template} ELSE owed)
                    \cup ({u} \ {Blank})
      /\ outdated' = (outdated \/ ~saves)
    BY <1>3 DEF SetTemplate
<1>5. prompt' \in Prompt /\ prompt'.template = u
    BY <1>1, <1>4 DEF Prompt
<1>6. PICK next : next = IF saves THEN [Resting EXCEPT !.at = "uncache"] ELSE Resting
    OBVIOUS
<1>7. /\ next \in PrompterState /\ next.at \in {"idle", "uncache"}
      /\ saves => next.at = "uncache"
    BY <1>1, <1>6, RestingIs DEF PrompterState
<1>8. Overtake(c, next, Readers \cup Savers)
    BY <1>6 DEF SetTemplate
<1>9. /\ prompter' \in [Prompters -> PrompterState] /\ prompter'[c] = next
      /\ \A d \in Prompters : PrompterFits(prompter[d])'
    BY <1>7, <1>8, OvertakenFit DEF Readers, Savers
<1>10. CopyFits'
    BY <1>4, <1>7, <1>9 DEF CopyFits, PrompterAt
<1>11. outdated' \in BOOLEAN
    BY <1>4 DEF MerchantPromptsInv, PromptsTypeOK
<1>12. NoTemplateIsLost'
  <2>1. owed \subseteq versions \cup {prompt.template} /\ Blank \notin owed
    BY PrompterAssumption DEF MerchantPromptsInv, PromptsTypeOK, NoTemplateIsLost
  <2>2. ~prompter[c].overtaken => prompt.template \in versions \cup {Blank}
    BY <1>1 DEF PrompterFits
  <2>3. owed' \subseteq versions \cup {u}
    BY <1>4, <2>1, <2>2
  <2> QED BY <1>1, <1>5, <2>3 DEF NoTemplateIsLost
<1>13. owed' \subseteq Templates
    BY <1>4 DEF MerchantPromptsInv, PromptsTypeOK
<1>14. PromptsTypeOK'
    BY <1>1, <1>5, <1>9, <1>11, <1>13 DEF MerchantPromptsInv, PromptsTypeOK
<1> QED BY <1>1, <1>9, <1>10, <1>12, <1>14 DEF MerchantPromptsInv

\* The writers that may overtake everybody, and delete the copy next.
LEMMA OtherWriteInv ==
    ASSUME MerchantPromptsInv, NEW c \in Prompters,
           \/ \E g \in Configs : UpdateQuickConfig(c, g)
           \/ \E t \in Templates \cup {Blank}, g \in Configs, V \in SUBSET Templates :
                 UpdateMerchant(c, t, g, V)
    PROVE  MerchantPromptsInv'
<1>1. PICK next : next = [Resting EXCEPT !.at = "uncache"]
    OBVIOUS
<1>2. next \in PrompterState /\ next.at = "uncache" /\ prompt \in Prompt
  <2>1. Resting \in PrompterState /\ prompt \in Prompt
    BY RestingIs DEF MerchantPromptsInv, PromptsTypeOK
  <2> QED BY <1>1, <2>1 DEF PrompterState
<1>3. PICK stages :
        /\ Overtake(c, next, stages) /\ "keep" \in stages
        /\ \/ {"push", "find", "set"} \subseteq stages
           \/ prompt'.template = prompt.template /\ versions' = versions
    BY <1>1, <1>2 DEF UpdateQuickConfig, UpdateMerchant, Readers, Savers, Prompt
<1>4. /\ prompter' \in [Prompters -> PrompterState] /\ prompter'[c] = next
      /\ \A d \in Prompters : PrompterFits(prompter[d])'
    BY <1>2, <1>3, OvertakenFit
<1>5. CopyFits'
    BY <1>2, <1>4 DEF CopyFits, PrompterAt
<1>6. UNCHANGED <<cached, outdated, troubles>>
    BY DEF UpdateQuickConfig, UpdateMerchant
<1>7. /\ prompt' \in Prompt /\ versions' \subseteq Templates /\ owed' \subseteq Templates
      /\ NoTemplateIsLost'
  <2>1. ASSUME NEW g \in Configs, UpdateQuickConfig(c, g)
        PROVE  /\ prompt' \in Prompt /\ versions' \subseteq Templates
               /\ owed' \subseteq Templates /\ NoTemplateIsLost'
    <3>1. prompt' = [prompt EXCEPT !.config = g] /\ versions' = versions /\ owed' = owed
      BY <2>1 DEF UpdateQuickConfig
    <3>2. prompt' \in Prompt /\ prompt'.template = prompt.template
      BY <1>2, <3>1 DEF Prompt
    <3> QED BY <3>1, <3>2 DEF MerchantPromptsInv, PromptsTypeOK, NoTemplateIsLost
  <2>2. ASSUME NEW t \in Templates \cup {Blank}, NEW g \in Configs, NEW V \in SUBSET Templates,
               UpdateMerchant(c, t, g, V)
        PROVE  /\ prompt' \in Prompt /\ versions' \subseteq Templates
               /\ owed' \subseteq Templates /\ NoTemplateIsLost'
    <3>1. /\ prompt' = [template |-> t, config |-> g] /\ versions' = V
          /\ owed' = (owed \cap V) \cup ({t} \ {Blank})
      BY <2>2 DEF UpdateMerchant
    <3>2. prompt' \in Prompt /\ prompt'.template = t
      BY <3>1 DEF Prompt
    <3> QED BY <3>1, <3>2 DEF NoTemplateIsLost
  <2> QED BY <2>1, <2>2
<1>8. PromptsTypeOK'
    BY <1>4, <1>6, <1>7 DEF MerchantPromptsInv, PromptsTypeOK
<1> QED BY <1>4, <1>5, <1>6, <1>7, <1>8 DEF MerchantPromptsInv

LEMMA CopyGoesInv ==
    ASSUME MerchantPromptsInv, (\E c \in Prompters : Invalidate(c)) \/ CopyExpires
    PROVE  MerchantPromptsInv'
<1>1. /\ cached' = {} /\ ~outdated' /\ outdated' \in BOOLEAN
      /\ UNCHANGED <<prompt, versions, owed, troubles>>
    BY DEF Invalidate, CopyExpires
<1>2. /\ prompter' \in [Prompters -> PrompterState]
      /\ \A d \in Prompters : PrompterFits(prompter[d])'
  <2>1. ASSUME NEW c \in Prompters, Invalidate(c)
        PROVE  /\ prompter' \in [Prompters -> PrompterState]
               /\ \A d \in Prompters : PrompterFits(prompter[d])'
    <3>1. Resting \in PrompterState /\ PrompterFits(Resting)' /\ Become(c, Resting)
      BY <2>1, RestingIs
      DEF MerchantPromptsInv, PromptsTypeOK, PrompterFits, Invalidate, Rest, Become
    <3> QED BY <1>1, <3>1, PrompterGoesOn
  <2>2. ASSUME CopyExpires
        PROVE  /\ prompter' \in [Prompters -> PrompterState]
               /\ \A d \in Prompters : PrompterFits(prompter[d])'
    BY <1>1, <2>2 DEF CopyExpires, MerchantPromptsInv, PromptsTypeOK, PrompterFits
  <2> QED BY <2>1, <2>2
<1>3. Cardinality({}) = 0
    BY FS_EmptySet
<1>4. PromptsTypeOK'
    BY <1>1, <1>2, <1>3 DEF MerchantPromptsInv, PromptsTypeOK
<1> QED BY <1>1, <1>2, <1>4 DEF MerchantPromptsInv, CopyFits, NoTemplateIsLost

LEMMA TroubleInv ==
    ASSUME MerchantPromptsInv, NEW c \in Prompters, Trouble(c)
    PROVE  MerchantPromptsInv'
<1>1. /\ outdated' = (outdated \/ prompter[c].at = "uncache") /\ Become(c, Resting)
      /\ UNCHANGED <<prompt, versions, cached, owed>>
    BY DEF Trouble, PrompterAt, Rest, Become
<1>2. troubles' \in 0..MaxTroubles
    BY PrompterAssumption DEF Trouble, MerchantPromptsInv, PromptsTypeOK
<1>3. Resting \in PrompterState /\ PrompterFits(Resting)'
    BY RestingIs DEF MerchantPromptsInv, PromptsTypeOK, PrompterFits
<1>4. /\ prompter' \in [Prompters -> PrompterState]
      /\ \A d \in Prompters \ {c} : prompter'[d] = prompter[d]
      /\ \A d \in Prompters : PrompterFits(prompter[d])'
    BY <1>1, <1>3, PrompterGoesOn
<1>5. CopyFits'
    BY <1>1, <1>4 DEF MerchantPromptsInv, CopyFits, PrompterAt
<1>6. outdated' \in BOOLEAN
    BY <1>1 DEF MerchantPromptsInv, PromptsTypeOK
<1>7. PromptsTypeOK'
    BY <1>1, <1>2, <1>4, <1>6 DEF MerchantPromptsInv, PromptsTypeOK
<1> QED BY <1>1, <1>4, <1>5, <1>7 DEF MerchantPromptsInv, NoTemplateIsLost

LEMMA MerchantPromptsStart == PromptsInit => MerchantPromptsInv
<1> SUFFICES ASSUME PromptsInit PROVE MerchantPromptsInv
    OBVIOUS
<1>1. /\ prompt \in Prompt /\ versions = {} /\ cached = {} /\ outdated = FALSE /\ troubles = 0
      /\ owed = {prompt.template} \ {Blank} /\ prompter = [c \in Prompters |-> Resting]
    BY DEF PromptsInit
<1>2. Resting \in PrompterState /\ PrompterFits(Resting)
    BY <1>1, RestingIs DEF PrompterFits
<1>3. Cardinality({}) = 0
    BY FS_EmptySet
<1>4. owed \subseteq Templates
    BY <1>1 DEF Prompt
<1>5. PromptsTypeOK
  <2>1. versions \subseteq Templates /\ cached \subseteq Prompt /\ Cardinality(cached) <= 1
    BY <1>1, <1>3
  <2>2. prompter \in [Prompters -> PrompterState]
    BY <1>1, <1>2
  <2>3. troubles \in 0..MaxTroubles
    BY <1>1, PrompterAssumption
  <2>4. outdated \in BOOLEAN
    BY <1>1
  <2> QED BY <1>1, <1>4, <2>1, <2>2, <2>3, <2>4 DEF PromptsTypeOK
<1> QED BY <1>1, <1>2, <1>5 DEF MerchantPromptsInv, CopyFits, NoTemplateIsLost

LEMMA MerchantPromptsRest == MerchantPromptsInv /\ UNCHANGED promptVars => MerchantPromptsInv'
<1> SUFFICES ASSUME MerchantPromptsInv, UNCHANGED promptVars PROVE MerchantPromptsInv'
    OBVIOUS
<1> USE DEF promptVars
<1>1. PromptsTypeOK' /\ NoTemplateIsLost' /\ CopyFits'
    BY DEF MerchantPromptsInv, PromptsTypeOK, NoTemplateIsLost, CopyFits, PrompterAt
<1>2. \A c \in Prompters : PrompterFits(prompter[c])'
    BY DEF MerchantPromptsInv, PrompterFits
<1> QED BY <1>1, <1>2 DEF MerchantPromptsInv

LEMMA MerchantPromptsSteps == MerchantPromptsInv /\ [PromptsNext]_promptVars => MerchantPromptsInv'
    BY MerchantPromptsRest, ReadPromptInv, LoadPromptInv, KeepPromptInv, TakeSnapshotInv,
       PushVersionInv, FindMerchantInv, SetTemplateInv, TroubleInv, SaveTemplateInv,
       OtherWriteInv, CopyGoesInv
    DEF PromptsNext

\* The inductive invariant holds of every run, and with it every variable keeps its type.
THEOREM MerchantPromptsHold == MerchantPromptsSpec => []MerchantPromptsInv
<1> QED BY MerchantPromptsStart, MerchantPromptsSteps, PTL DEF MerchantPromptsSpec

-----------------------------------------------------------------------------
(* BotPrompts: the inductive invariant *)

\* The active system prompts, archived or not.
ActiveOnes == {p \in BotPromptIds : System(p) /\ botPrompt[p].active}

\* Which calls come to which stage, and what one knows that no other has met: what it
\* has cleared is clear still, and what it has set is set still.
CurationFits(r) ==
    /\ r.at # "idle" => r.id \in BotPromptIds
    /\ r.at \in {"clear", "insert", "others"} => r.active
    /\ r.at = "clear" => r.op \in {"create", "set"}
    /\ r.alone =>
          /\ r.at = "clear" /\ r.op = "set" => System(r.id)
          /\ r.at = "insert" => ActiveOnes = {}
          /\ r.at = "set" /\ r.active /\ System(r.id) => ActiveOnes = {}
          /\ r.at = "others" => r.id \in ActiveOnes

\* An activation that has made one of its two writes, or has met another call.
HalfWay(r) ==
    /\ r.active
    /\ \/ r.at \in {"insert", "others"}
       \/ r.at = "set" /\ (System(r.id) \/ ~r.alone)

\* Unless a call is half-way, the prompt activated last is the only active one.
ChosenIsActive ==
    \/ muddled
    \/ \E c \in Curators : HalfWay(curator[c])
    \/ ActiveOnes = {chosen} \ {NoBotPrompt}

BotPromptsInv ==
    /\ BotPromptsTypeOK
    /\ \A c \in Curators : CurationFits(curator[c])
    /\ ChosenIsActive

-----------------------------------------------------------------------------
(* BotPrompts: steps *)

\* One prompt is written.
LEMMA PromptWritten ==
    ASSUME BotPromptsTypeOK, NEW p \in BotPromptIds, NEW doc \in BotPromptDoc,
           botPrompt' = [botPrompt EXCEPT ![p] = doc]
    PROVE  /\ botPrompt' \in [BotPromptIds -> BotPromptDoc]
           /\ ActiveOnes' = IF doc.there /\ doc.type = "system" /\ doc.active
                            THEN ActiveOnes \cup {p} ELSE ActiveOnes \ {p}
<1>1. /\ botPrompt' \in [BotPromptIds -> BotPromptDoc] /\ botPrompt'[p] = doc
      /\ \A q \in BotPromptIds \ {p} : botPrompt'[q] = botPrompt[q]
    BY DEF BotPromptsTypeOK
<1> QED BY <1>1 DEF ActiveOnes, System

\* The system prompts but p are cleared.
LEMMA ClearedIs ==
    ASSUME BotPromptsTypeOK, NEW p
    PROVE  /\ Cleared(p) \in [BotPromptIds -> BotPromptDoc]
           /\ \A q \in BotPromptIds :
                 /\ Cleared(p)[q].there = botPrompt[q].there
                 /\ Cleared(p)[q].type = botPrompt[q].type
                 /\ Cleared(p)[q].active <=> (botPrompt[q].active /\ (q = p \/ ~System(q)))
<1>1. ASSUME NEW q \in BotPromptIds
      PROVE  /\ Cleared(p)[q] \in BotPromptDoc
             /\ Cleared(p)[q].there = botPrompt[q].there
             /\ Cleared(p)[q].type = botPrompt[q].type
             /\ Cleared(p)[q].active <=> (botPrompt[q].active /\ (q = p \/ ~System(q)))
  <2>1. botPrompt[q] \in BotPromptDoc
    BY DEF BotPromptsTypeOK
  <2>2. /\ [botPrompt[q] EXCEPT !.active = FALSE] \in BotPromptDoc
        /\ [botPrompt[q] EXCEPT !.active = FALSE].there = botPrompt[q].there
        /\ [botPrompt[q] EXCEPT !.active = FALSE].type = botPrompt[q].type
        /\ ~[botPrompt[q] EXCEPT !.active = FALSE].active
    BY <2>1 DEF BotPromptDoc
  <2>3. Cleared(p)[q] = IF System(q) /\ q # p THEN [botPrompt[q] EXCEPT !.active = FALSE]
                        ELSE botPrompt[q]
    BY DEF Cleared
  <2>4. CASE System(q) /\ q # p
    BY <2>2, <2>3, <2>4
  <2>5. CASE ~(System(q) /\ q # p)
    BY <2>1, <2>3, <2>5 DEF BotPromptDoc
  <2> QED BY <2>4, <2>5
<1>2. Cleared(p) \in [BotPromptIds -> BotPromptDoc]
    BY <1>1 DEF Cleared
<1> QED BY <1>1, <1>2

\* c writes, and becomes next: it meets whoever is under way.
LEMMA WritesIs ==
    ASSUME BotPromptsInv, NEW c \in Curators, NEW next \in Curation, Writes(c, next)
    PROVE  /\ curator' \in [Curators -> Curation] /\ curator'[c] = next
           /\ \A d \in Curators \ {c} :
                 /\ CurationFits(curator[d])'
                 /\ HalfWay(curator[d]) => HalfWay(curator[d])'
<1>1. ASSUME NEW d \in Curators
      PROVE  LET r == [curator[d] EXCEPT !.alone = @ /\ CuratorAt(d, "idle")]
             IN  /\ r \in Curation /\ r.op = curator[d].op /\ r.at = curator[d].at
                 /\ r.id = curator[d].id /\ r.active = curator[d].active
                 /\ r.alone => r.at = "idle"
  <2>1. curator[d] \in Curation
    BY DEF BotPromptsInv, BotPromptsTypeOK
  <2> QED BY <2>1 DEF Curation, CuratorAt
<1>2. /\ curator' \in [Curators -> Curation] /\ curator'[c] = next
      /\ \A d \in Curators \ {c} :
            /\ curator'[d].op = curator[d].op /\ curator'[d].at = curator[d].at
            /\ curator'[d].id = curator[d].id /\ curator'[d].active = curator[d].active
            /\ curator'[d].alone => curator'[d].at = "idle"
    BY <1>1 DEF Writes
<1>3. ASSUME NEW d \in Curators \ {c}
      PROVE  CurationFits(curator[d])' /\ (HalfWay(curator[d]) => HalfWay(curator[d])')
  <2>1. CurationFits(curator[d])
    BY DEF BotPromptsInv
  <2> QED BY <1>2, <2>1 DEF CurationFits, HalfWay
<1> QED BY <1>2, <1>3

LEMMA NoCurationIs ==
    /\ NoCuration \in Curation /\ NoCuration.at = "idle" /\ ~NoCuration.active
    /\ ~NoCuration.alone
    BY DEF NoCuration, Curation

LEMMA CurateIs ==
    ASSUME NEW o \in {"create", "update", "set"}, NEW at \in {"clear", "set", "others"},
           NEW p \in BotPromptIds, NEW a \in BOOLEAN
    PROVE  /\ Curate(o, at, p, a) \in Curation
           /\ Curate(o, at, p, a).op = o /\ Curate(o, at, p, a).at = at
           /\ Curate(o, at, p, a).id = p /\ Curate(o, at, p, a).active = a
           /\ Curate(o, at, p, a).alone
    BY DEF Curate, Curation

\* c writes and ends: it was not half-way, or it has activated a prompt, or has muddled
\* everything up.
LEMMA CurationEnds ==
    ASSUME BotPromptsInv, NEW c \in Curators, Writes(c, NoCuration),
           botPrompt' \in [BotPromptIds -> BotPromptDoc],
           chosen' \in BotPromptIds \cup {NoBotPrompt}, muddled' \in BOOLEAN,
           stumbles' \in 0..MaxStumbles,
           \/ muddled'
           \/ ActiveOnes' = {chosen'} \ {NoBotPrompt}
           \/ /\ ~HalfWay(curator[c]) /\ (muddled => muddled')
              /\ ActiveOnes = {chosen} \ {NoBotPrompt} => ActiveOnes' = {chosen'} \ {NoBotPrompt}
    PROVE  BotPromptsInv'
<1>1. /\ curator' \in [Curators -> Curation] /\ curator'[c] = NoCuration
      /\ \A d \in Curators \ {c} :
            /\ CurationFits(curator[d])'
            /\ HalfWay(curator[d]) => HalfWay(curator[d])'
    BY WritesIs, NoCurationIs
<1>2. \A d \in Curators : CurationFits(curator[d])'
  <2>1. CurationFits(curator[c])'
    BY <1>1, NoCurationIs DEF CurationFits
  <2> QED BY <1>1, <2>1
<1>3. ChosenIsActive'
  <2>1. CASE muddled' \/ ActiveOnes' = {chosen'} \ {NoBotPrompt}
    BY <2>1 DEF ChosenIsActive
  <2>2. CASE /\ ~HalfWay(curator[c]) /\ (muddled => muddled')
             /\ ActiveOnes = {chosen} \ {NoBotPrompt}
                   => ActiveOnes' = {chosen'} \ {NoBotPrompt}
    <3>1. CASE \E d \in Curators : HalfWay(curator[d])
      <4>1. PICK d \in Curators \ {c} : HalfWay(curator[d])
        BY <2>2, <3>1
      <4>2. HalfWay(curator[d])'
        BY <1>1, <4>1
      <4> QED BY <4>2 DEF ChosenIsActive
    <3>2. CASE ~(\E d \in Curators : HalfWay(curator[d]))
      BY <2>2, <3>2 DEF BotPromptsInv, ChosenIsActive
    <3> QED BY <3>1, <3>2
  <2> QED BY <2>1, <2>2
<1>4. BotPromptsTypeOK'
    BY <1>1 DEF BotPromptsTypeOK
<1> QED BY <1>2, <1>3, <1>4 DEF BotPromptsInv

\* c begins, and has read at most.
LEMMA CurationBegins ==
    ASSUME BotPromptsInv, NEW c \in Curators, curator[c].at = "idle", NEW r \in Curation,
           curator' = [curator EXCEPT ![c] = r],
           UNCHANGED <<botPrompt, chosen, muddled, stumbles>>,
           CurationFits(r)
    PROVE  BotPromptsInv'
<1>1. /\ curator' \in [Curators -> Curation] /\ curator'[c] = r
      /\ \A d \in Curators \ {c} : curator'[d] = curator[d]
    BY DEF BotPromptsInv, BotPromptsTypeOK
<1>2. ActiveOnes' = ActiveOnes /\ \A p : System(p)' = System(p)
    BY DEF ActiveOnes, System
<1>3. ASSUME NEW d \in Curators PROVE CurationFits(curator[d])'
  <2>1. CASE d = c
    BY <1>1, <1>2, <2>1 DEF CurationFits, System
  <2>2. CASE d # c
    <3>1. CurationFits(curator[d]) /\ curator'[d] = curator[d]
      BY <1>1, <2>2 DEF BotPromptsInv
    <3> QED BY <1>2, <3>1 DEF CurationFits, System
  <2> QED BY <2>1, <2>2
<1>4. \A d \in Curators : HalfWay(curator[d]) => HalfWay(curator[d])'
  <2>1. SUFFICES ASSUME NEW d \in Curators, HalfWay(curator[d]) PROVE HalfWay(curator[d])'
    OBVIOUS
  <2>2. d # c
    BY <2>1 DEF HalfWay
  <2>3. curator'[d] = curator[d]
    BY <1>1, <2>2
  <2> QED BY <2>1, <2>3 DEF HalfWay, System
<1>5. ChosenIsActive'
    BY <1>2, <1>4 DEF BotPromptsInv, ChosenIsActive
<1>6. BotPromptsTypeOK'
    BY <1>1 DEF BotPromptsInv, BotPromptsTypeOK
<1> QED BY <1>3, <1>5, <1>6 DEF BotPromptsInv

LEMMA CreatePromptInv ==
    ASSUME BotPromptsInv, NEW c \in Curators, NEW p \in BotPromptIds,
           NEW type \in {"system", "user"}, NEW a \in BOOLEAN, CreatePrompt(c, p, type, a)
    PROVE  BotPromptsInv'
<1>1. /\ curator[c].at = "idle" /\ ~botPrompt[p].there
      /\ UNCHANGED <<chosen, muddled, stumbles>>
    BY DEF CreatePrompt, CuratorAt, FreeId
<1>2. CASE type = "system" /\ a
  <2>1. PICK r : r = Curate("create", "clear", p, a)
    OBVIOUS
  <2>2. r \in Curation /\ r.op = "create" /\ r.at = "clear" /\ r.id = p /\ r.active
    BY <1>2, <2>1 DEF Curate, Curation
  <2>3. curator' = [curator EXCEPT ![c] = r] /\ UNCHANGED botPrompt
    BY <1>2, <2>1 DEF CreatePrompt
  <2>4. CurationFits(r)
    BY <2>2 DEF CurationFits
  <2> QED BY <1>1, <2>2, <2>3, <2>4, CurationBegins
<1>3. CASE ~(type = "system" /\ a)
  <2>1. PICK doc : doc = [there |-> TRUE, type |-> type, active |-> a, archived |-> FALSE]
    OBVIOUS
  <2>2. doc \in BotPromptDoc /\ ~(doc.type = "system" /\ doc.active)
    BY <1>3, <2>1 DEF BotPromptDoc
  <2>3. Writes(c, NoCuration) /\ botPrompt' = [botPrompt EXCEPT ![p] = doc]
    BY <1>3, <2>1 DEF CreatePrompt
  <2>4. botPrompt' \in [BotPromptIds -> BotPromptDoc] /\ ActiveOnes' = ActiveOnes \ {p}
    BY <2>2, <2>3, PromptWritten DEF BotPromptsInv
  <2>5. ActiveOnes' = ActiveOnes
    BY <1>1, <2>4 DEF ActiveOnes, System
  <2> QED BY <1>1, <2>3, <2>4, <2>5, CurationEnds
          DEF BotPromptsInv, BotPromptsTypeOK, HalfWay
<1> QED BY <1>2, <1>3

\* An activation ends: p alone is active now, if the call has met no other.
LEMMA ActivatedInv ==
    ASSUME BotPromptsInv, NEW c \in Curators, NEW p \in BotPromptIds,
           Writes(c, NoCuration), Activated(c, p), UNCHANGED stumbles,
           botPrompt' \in [BotPromptIds -> BotPromptDoc],
           curator[c].alone => ActiveOnes' = {p}
    PROVE  BotPromptsInv'
<1>1. chosen' = p /\ muddled' = ~curator[c].alone /\ p # NoBotPrompt
    BY CuratorAssumption DEF Activated
<1>2. muddled' \in BOOLEAN
    BY <1>1
<1>3. muddled' \/ ActiveOnes' = {chosen'} \ {NoBotPrompt}
    BY <1>1
<1> QED BY <1>1, <1>2, <1>3, CurationEnds DEF BotPromptsInv, BotPromptsTypeOK

LEMMA InsertPromptInv ==
    ASSUME BotPromptsInv, NEW c \in Curators, InsertPrompt(c)
    PROVE  BotPromptsInv'
<1>1. PICK p : p = curator[c].id
    OBVIOUS
<1>2. PICK doc : doc = [there |-> TRUE, type |-> "system", active |-> TRUE, archived |-> FALSE]
    OBVIOUS
<1>3. /\ curator[c].at = "insert" /\ CurationFits(curator[c])
      /\ botPrompt' = [botPrompt EXCEPT ![p] = doc]
      /\ Activated(c, p) /\ Writes(c, NoCuration) /\ UNCHANGED stumbles
    BY <1>1, <1>2 DEF InsertPrompt, CuratorAt, BotPromptsInv
<1>4. p \in BotPromptIds /\ (curator[c].alone => ActiveOnes = {})
    BY <1>1, <1>3 DEF CurationFits
<1>5. doc \in BotPromptDoc /\ doc.there /\ doc.type = "system" /\ doc.active
    BY <1>2 DEF BotPromptDoc
<1>6. /\ botPrompt' \in [BotPromptIds -> BotPromptDoc]
      /\ ActiveOnes' = ActiveOnes \cup {p}
    BY <1>3, <1>4, <1>5, PromptWritten DEF BotPromptsInv
<1> QED BY <1>3, <1>4, <1>6, ActivatedInv

\* p is inactive now, and what was chosen stays, unless it was p.
LEMMA InactiveInv ==
    ASSUME BotPromptsInv, NEW c \in Curators, NEW p \in BotPromptIds, ~HalfWay(curator[c]),
           Writes(c, NoCuration), Inactive(p), UNCHANGED <<muddled, stumbles>>,
           botPrompt' \in [BotPromptIds -> BotPromptDoc], ActiveOnes' = ActiveOnes \ {p}
    PROVE  BotPromptsInv'
<1>1. chosen' = IF chosen = p THEN NoBotPrompt ELSE chosen
    BY DEF Inactive
<1>2. chosen' \in BotPromptIds \cup {NoBotPrompt}
    BY <1>1 DEF BotPromptsInv, BotPromptsTypeOK
<1>3. ActiveOnes = {chosen} \ {NoBotPrompt} => ActiveOnes' = {chosen'} \ {NoBotPrompt}
    BY <1>1
<1> QED BY <1>2, <1>3, CurationEnds DEF BotPromptsInv, BotPromptsTypeOK

LEMMA UpdatePromptInv ==
    ASSUME BotPromptsInv, NEW c \in Curators, NEW p \in BotPromptIds,
           NEW type \in {"system", "user"}, NEW a \in BOOLEAN, NEW archived \in BOOLEAN,
           UpdatePrompt(c, p, type, a, archived)
    PROVE  BotPromptsInv'
<1>1. PICK doc : doc = [there |-> TRUE, type |-> type, active |-> a, archived |-> archived]
    OBVIOUS
<1>2. /\ doc \in BotPromptDoc /\ doc.there
      /\ (doc.type = "system" /\ doc.active) <=> (a /\ type = "system")
    BY <1>1 DEF BotPromptDoc
<1>3. /\ curator[c].at = "idle" /\ botPrompt' = [botPrompt EXCEPT ![p] = doc]
      /\ UNCHANGED <<muddled, stumbles>>
    BY <1>1 DEF UpdatePrompt, CuratorAt
<1>4. /\ botPrompt' \in [BotPromptIds -> BotPromptDoc]
      /\ ActiveOnes' = IF a /\ type = "system" THEN ActiveOnes \cup {p} ELSE ActiveOnes \ {p}
    BY <1>2, <1>3, PromptWritten DEF BotPromptsInv
<1>5. CASE a /\ type = "system"
  <2>1. PICK r : r = Curate("update", "others", p, a)
    OBVIOUS
  <2>2. r \in Curation /\ r.at = "others" /\ r.id = p /\ r.active
    BY <1>5, <2>1 DEF Curate, Curation
  <2>3. Writes(c, r) /\ UNCHANGED chosen
    BY <1>5, <2>1 DEF UpdatePrompt
  <2>4. /\ curator' \in [Curators -> Curation] /\ curator'[c] = r
        /\ \A d \in Curators \ {c} : CurationFits(curator[d])'
    BY <2>2, <2>3, WritesIs
  <2>5. CurationFits(curator[c])' /\ HalfWay(curator[c])'
    BY <1>4, <1>5, <2>2, <2>4 DEF CurationFits, HalfWay
  <2>6. BotPromptsTypeOK'
    BY <1>3, <1>4, <2>3, <2>4 DEF BotPromptsInv, BotPromptsTypeOK
  <2> QED BY <2>4, <2>5, <2>6 DEF BotPromptsInv, ChosenIsActive
<1>6. CASE ~(a /\ type = "system")
  <2>1. Writes(c, NoCuration) /\ Inactive(p)
    BY <1>6 DEF UpdatePrompt
  <2> QED BY <1>3, <1>4, <1>6, <2>1, InactiveInv DEF HalfWay
<1> QED BY <1>5, <1>6

LEMMA ClearOthersInv ==
    ASSUME BotPromptsInv, NEW c \in Curators, ClearOthers(c)
    PROVE  BotPromptsInv'
<1>1. PICK p : p = curator[c].id
    OBVIOUS
<1>2. /\ curator[c].at = "others" /\ CurationFits(curator[c]) /\ botPrompt' = Cleared(p)
      /\ Activated(c, p) /\ Writes(c, NoCuration) /\ UNCHANGED stumbles
    BY <1>1 DEF ClearOthers, CuratorAt, BotPromptsInv
<1>3. p \in BotPromptIds /\ (curator[c].alone => p \in ActiveOnes)
    BY <1>1, <1>2 DEF CurationFits
<1>4. botPrompt' \in [BotPromptIds -> BotPromptDoc] /\ ActiveOnes' = ActiveOnes \cap {p}
    BY <1>2, ClearedIs DEF BotPromptsInv, ActiveOnes, System
<1> QED BY <1>2, <1>3, <1>4, ActivatedInv

LEMMA SetActiveInv ==
    ASSUME BotPromptsInv, NEW c \in Curators, NEW p \in BotPromptIds, NEW a \in BOOLEAN,
           SetActive(c, p, a)
    PROVE  BotPromptsInv'
<1>1. PICK at \in {"clear", "set"} : at = IF System(p) /\ a THEN "clear" ELSE "set"
    OBVIOUS
<1>2. PICK r : r = Curate("set", at, p, a)
    OBVIOUS
<1>3. r \in Curation /\ r.op = "set" /\ r.at = at /\ r.id = p /\ r.active = a
    BY <1>2, CurateIs
<1>4. /\ curator[c].at = "idle" /\ curator' = [curator EXCEPT ![c] = r]
      /\ UNCHANGED <<botPrompt, chosen, muddled, stumbles>>
    BY <1>1, <1>2 DEF SetActive, CuratorAt
<1>5. CurationFits(r)
    BY <1>1, <1>3 DEF CurationFits
<1> QED BY <1>3, <1>4, <1>5, CurationBegins

LEMMA ClearInv ==
    ASSUME BotPromptsInv, NEW c \in Curators, Clear(c)
    PROVE  BotPromptsInv'
<1>1. PICK r : r = [curator[c] EXCEPT !.at = IF curator[c].op = "create" THEN "insert" ELSE "set"]
    OBVIOUS
<1>2. /\ curator[c].at = "clear" /\ curator[c] \in Curation /\ CurationFits(curator[c])
      /\ botPrompt' = Cleared(NoBotPrompt) /\ Writes(c, r)
      /\ UNCHANGED <<chosen, muddled, stumbles>>
    BY <1>1 DEF Clear, CuratorAt, BotPromptsInv, BotPromptsTypeOK
<1>3. /\ r \in Curation /\ r.at = IF curator[c].op = "create" THEN "insert" ELSE "set"
      /\ r.id = curator[c].id /\ r.active = curator[c].active /\ r.alone = curator[c].alone
    BY <1>1, <1>2 DEF Curation
<1>4. /\ curator' \in [Curators -> Curation] /\ curator'[c] = r
      /\ \A d \in Curators \ {c} : CurationFits(curator[d])'
    BY <1>2, <1>3, WritesIs
<1>5. /\ botPrompt' \in [BotPromptIds -> BotPromptDoc] /\ ActiveOnes' = {}
      /\ \A p \in BotPromptIds : System(p) => System(p)'
  <2>1. BotPromptsTypeOK
    BY DEF BotPromptsInv
  <2> QED BY <1>2, <2>1, ClearedIs, CuratorAssumption DEF ActiveOnes, System
<1>6. /\ r.id \in BotPromptIds /\ r.active
      /\ r.at = "set" /\ r.alone => System(r.id)
    BY <1>2, <1>3 DEF CurationFits
<1>7. r.at = "set" /\ r.alone => System(r.id)'
    BY <1>5, <1>6
<1>8. CurationFits(curator[c])'
    BY <1>3, <1>4, <1>5, <1>6 DEF CurationFits
<1>9. HalfWay(curator[c])'
    BY <1>3, <1>4, <1>6, <1>7 DEF HalfWay, System
<1>10. BotPromptsTypeOK'
    BY <1>2, <1>4, <1>5 DEF BotPromptsInv, BotPromptsTypeOK
<1> QED BY <1>4, <1>8, <1>9, <1>10 DEF BotPromptsInv, ChosenIsActive

LEMMA SetPromptInv ==
    ASSUME BotPromptsInv, NEW c \in Curators, SetPrompt(c)
    PROVE  BotPromptsInv'
<1>1. PICK p : p = curator[c].id
    OBVIOUS
<1>2. PICK a : a = curator[c].active
    OBVIOUS
<1>3. /\ curator[c].at = "set" /\ CurationFits(curator[c]) /\ curator[c] \in Curation
      /\ Writes(c, NoCuration) /\ UNCHANGED stumbles
    BY DEF SetPrompt, CuratorAt, BotPromptsInv, BotPromptsTypeOK
<1>4. p \in BotPromptIds /\ a \in BOOLEAN
    BY <1>1, <1>2, <1>3 DEF CurationFits, Curation
<1>5. PICK doc : doc = [botPrompt[p] EXCEPT !.active = a]
    OBVIOUS
<1>6. botPrompt[p] \in BotPromptDoc
    BY <1>4 DEF BotPromptsInv, BotPromptsTypeOK
<1>7. /\ doc \in BotPromptDoc /\ doc.there = botPrompt[p].there
      /\ doc.type = botPrompt[p].type /\ doc.active = a
    BY <1>4, <1>5, <1>6 DEF BotPromptDoc
<1>8. botPrompt' = IF botPrompt[p].there THEN [botPrompt EXCEPT ![p] = doc] ELSE botPrompt
    BY <1>1, <1>2, <1>5 DEF SetPrompt
<1>9. /\ botPrompt' \in [BotPromptIds -> BotPromptDoc]
      /\ ActiveOnes' = IF System(p) /\ a THEN ActiveOnes \cup {p} ELSE ActiveOnes \ {p}
  <2>1. CASE botPrompt[p].there
    <3>1. botPrompt' = [botPrompt EXCEPT ![p] = doc]
      BY <1>8, <2>1
    <3> QED BY <1>4, <1>7, <2>1, <3>1, PromptWritten DEF BotPromptsInv, System
  <2>2. CASE ~botPrompt[p].there
    <3>1. botPrompt' = botPrompt
      BY <1>8, <2>2
    <3> QED BY <2>2, <3>1 DEF BotPromptsInv, BotPromptsTypeOK, ActiveOnes, System
  <2> QED BY <2>1, <2>2
<1>10. CASE a /\ System(p)
  <2>1. Activated(c, p)
    BY <1>1, <1>2, <1>10 DEF SetPrompt
  <2>2. curator[c].alone => ActiveOnes = {}
    BY <1>1, <1>2, <1>3, <1>10 DEF CurationFits
  <2> QED BY <1>3, <1>4, <1>9, <1>10, <2>1, <2>2, ActivatedInv
<1>11. CASE a /\ ~System(p)
  <2>1. chosen' = chosen /\ muddled' = (muddled \/ ~curator[c].alone)
    BY <1>1, <1>2, <1>11 DEF SetPrompt
  <2>2. muddled' \in BOOLEAN
    BY <2>1 DEF BotPromptsInv, BotPromptsTypeOK
  <2>3. ActiveOnes' = ActiveOnes
    BY <1>9, <1>11 DEF ActiveOnes
  <2>4. curator[c].alone => ~HalfWay(curator[c])
    BY <1>1, <1>3, <1>11 DEF HalfWay
  <2> QED BY <1>3, <1>9, <2>1, <2>2, <2>3, <2>4, CurationEnds
          DEF BotPromptsInv, BotPromptsTypeOK
<1>12. CASE ~a
  <2>1. Inactive(p) /\ muddled' = muddled
    BY <1>1, <1>2, <1>12 DEF SetPrompt, BotPromptsInv, BotPromptsTypeOK
  <2>2. ~HalfWay(curator[c])
    BY <1>2, <1>12 DEF HalfWay
  <2> QED BY <1>3, <1>4, <1>9, <1>12, <2>1, <2>2, InactiveInv
<1> QED BY <1>4, <1>10, <1>11, <1>12

LEMMA ArchiveOrRemoveInv ==
    ASSUME BotPromptsInv, NEW c \in Curators, NEW p \in BotPromptIds,
           ArchivePrompt(c, p) \/ RemovePrompt(c, p)
    PROVE  BotPromptsInv'
<1>1. botPrompt[p] \in BotPromptDoc
    BY DEF BotPromptsInv, BotPromptsTypeOK
<1>2. PICK doc \in BotPromptDoc : ~doc.active /\ botPrompt' = [botPrompt EXCEPT ![p] = doc]
  <2>1. CASE ArchivePrompt(c, p)
    <3>1. PICK doc : doc = [botPrompt[p] EXCEPT !.archived = TRUE, !.active = FALSE]
      OBVIOUS
    <3>2. doc \in BotPromptDoc /\ ~doc.active
      BY <1>1, <3>1 DEF BotPromptDoc
    <3>3. botPrompt' = [botPrompt EXCEPT ![p] = doc]
      BY <2>1, <3>1 DEF ArchivePrompt
    <3> QED BY <3>2, <3>3
  <2>2. CASE RemovePrompt(c, p)
    <3>1. PICK doc : doc = [there |-> FALSE, type |-> "user", active |-> FALSE,
                            archived |-> FALSE]
      OBVIOUS
    <3>2. doc \in BotPromptDoc /\ ~doc.active
      BY <3>1 DEF BotPromptDoc
    <3>3. botPrompt' = [botPrompt EXCEPT ![p] = doc]
      BY <2>2, <3>1 DEF RemovePrompt
    <3> QED BY <3>2, <3>3
  <2> QED BY <2>1, <2>2
<1>3. botPrompt' \in [BotPromptIds -> BotPromptDoc] /\ ActiveOnes' = ActiveOnes \ {p}
    BY <1>2, PromptWritten DEF BotPromptsInv
<1>4. /\ curator[c].at = "idle" /\ Writes(c, NoCuration) /\ Inactive(p)
      /\ UNCHANGED <<muddled, stumbles>>
    BY DEF ArchivePrompt, RemovePrompt, CuratorAt
<1> QED BY <1>3, <1>4, InactiveInv DEF HalfWay

LEMMA StumbleInv ==
    ASSUME BotPromptsInv, NEW c \in Curators, Stumble(c)
    PROVE  BotPromptsInv'
<1>1. /\ curator[c].at # "idle" /\ CurationFits(curator[c]) /\ curator[c] \in Curation
      /\ muddled' = (muddled \/ curator[c].active) /\ chosen' = chosen
      /\ Writes(c, NoCuration)
    BY DEF Stumble, CuratorAt, BotPromptsInv, BotPromptsTypeOK
<1>2. stumbles' \in 0..MaxStumbles
    BY CuratorAssumption DEF Stumble, BotPromptsInv, BotPromptsTypeOK
<1>3. muddled' \in BOOLEAN
    BY <1>1 DEF BotPromptsInv, BotPromptsTypeOK
<1>4. CASE curator[c].at \in {"clear", "others"}
  <2> DEFINE spared == IF curator[c].at = "others" THEN curator[c].id ELSE NoBotPrompt
  <2>1. PICK S \in SUBSET BotPromptIds :
          botPrompt' = [p \in BotPromptIds |-> IF p \in S THEN Cleared(spared)[p]
                                               ELSE botPrompt[p]]
    BY <1>4 DEF Stumble, CuratorAt
  <2>2. botPrompt' \in [BotPromptIds -> BotPromptDoc]
    <3>1. /\ Cleared(spared) \in [BotPromptIds -> BotPromptDoc]
          /\ botPrompt \in [BotPromptIds -> BotPromptDoc]
      BY ClearedIs DEF BotPromptsInv, BotPromptsTypeOK
    <3> QED BY <2>1, <3>1
  <2>3. muddled'
    BY <1>1, <1>4 DEF CurationFits
  <2> QED BY <1>1, <1>2, <1>3, <2>2, <2>3, CurationEnds DEF BotPromptsInv, BotPromptsTypeOK
<1>5. CASE curator[c].at \notin {"clear", "others"}
  <2>1. botPrompt' = botPrompt
    BY <1>5 DEF Stumble, CuratorAt
  <2>2. ActiveOnes' = ActiveOnes
    BY <2>1 DEF ActiveOnes, System
  <2>3. muddled' \/ ~HalfWay(curator[c])
    BY <1>1 DEF HalfWay
  <2> QED BY <1>1, <1>2, <1>3, <2>1, <2>2, <2>3, CurationEnds
          DEF BotPromptsInv, BotPromptsTypeOK
<1> QED BY <1>4, <1>5

LEMMA BotPromptsStart == BotPromptsInit => BotPromptsInv
<1> SUFFICES ASSUME BotPromptsInit PROVE BotPromptsInv
    OBVIOUS
<1>1. BotPromptsTypeOK
  <2>1. botPrompt \in [BotPromptIds -> BotPromptDoc]
    BY DEF BotPromptsInit, BotPromptDoc
  <2>2. curator \in [Curators -> Curation]
    BY NoCurationIs DEF BotPromptsInit
  <2>3. muddled \in BOOLEAN
    BY DEF BotPromptsInit
  <2>4. chosen \in BotPromptIds \cup {NoBotPrompt} /\ stumbles \in 0..MaxStumbles
    BY CuratorAssumption DEF BotPromptsInit
  <2> QED BY <2>1, <2>2, <2>3, <2>4 DEF BotPromptsTypeOK
<1>2. \A c \in Curators : CurationFits(curator[c])
    BY NoCurationIs DEF BotPromptsInit, CurationFits
<1>3. ActiveOnes = {} /\ chosen = NoBotPrompt
    BY DEF BotPromptsInit, ActiveOnes, System
<1> QED BY <1>1, <1>2, <1>3 DEF BotPromptsInv, ChosenIsActive

LEMMA BotPromptsRest == BotPromptsInv /\ UNCHANGED curateVars => BotPromptsInv'
<1> SUFFICES ASSUME BotPromptsInv, UNCHANGED curateVars PROVE BotPromptsInv'
    OBVIOUS
<1> USE DEF curateVars
<1>1. ActiveOnes' = ActiveOnes
    BY DEF ActiveOnes, System
<1>2. BotPromptsTypeOK'
    BY DEF BotPromptsInv, BotPromptsTypeOK
<1>3. \A c \in Curators : CurationFits(curator[c])'
    BY <1>1 DEF BotPromptsInv, CurationFits, System
<1>4. ChosenIsActive'
    BY <1>1 DEF BotPromptsInv, ChosenIsActive, HalfWay, System
<1> QED BY <1>2, <1>3, <1>4 DEF BotPromptsInv

LEMMA BotPromptsSteps == BotPromptsInv /\ [BotPromptsNext]_curateVars => BotPromptsInv'
    BY BotPromptsRest, InsertPromptInv, ClearOthersInv, ClearInv, SetPromptInv, StumbleInv,
       ArchiveOrRemoveInv, SetActiveInv, CreatePromptInv, UpdatePromptInv
    DEF BotPromptsNext

\* The inductive invariant holds of every run, and with it every variable keeps its type.
THEOREM BotPromptsHold == BotPromptsSpec => []BotPromptsInv
<1> QED BY BotPromptsStart, BotPromptsSteps, PTL DEF BotPromptsSpec

-----------------------------------------------------------------------------
(* Prompts: theorems *)

THEOREM PromptsTypes == PromptsSpec => [](PromptsTypeOK /\ BotPromptsTypeOK)
<1>1. MerchantPromptsInv /\ BotPromptsInv => PromptsTypeOK /\ BotPromptsTypeOK
    BY DEF MerchantPromptsInv, BotPromptsInv
<1> QED BY <1>1, MerchantPromptsHold, BotPromptsHold, PTL DEF PromptsSpec

\* However saves, reverts, readers and admins meet and fail: the merchants' bots are told
\* what was stored last, no template is lost, and Kleem answers by the prompt that was
\* activated last.
THEOREM PromptsHold == PromptsSpec => []PromptsAreCurrent
<1>1. MerchantPromptsInv => PromptIsCurrent /\ NoTemplateIsLost
    BY DEF MerchantPromptsInv, CopyFits, PromptIsCurrent, PrompterAt
<1>2. BotPromptsInv => LastActivatedAnswers
  <2>1. SUFFICES ASSUME BotPromptsInv, \A c \in Curators : curator[c].at = "idle", ~muddled
                 PROVE  Answering = {p \in {chosen} \ {NoBotPrompt} : ~botPrompt[p].archived}
    BY DEF LastActivatedAnswers, CuratorAt
  <2>2. ActiveOnes = {chosen} \ {NoBotPrompt}
    BY <2>1 DEF BotPromptsInv, ChosenIsActive, HalfWay
  <2>3. Answering = {p \in ActiveOnes : ~botPrompt[p].archived}
    BY DEF Answering, ActiveOnes
  <2> QED BY <2>2, <2>3
<1>3. MerchantPromptsInv /\ BotPromptsInv => PromptsAreCurrent
    BY <1>1, <1>2 DEF PromptsAreCurrent
<1> QED BY <1>3, MerchantPromptsHold, BotPromptsHold, PTL DEF PromptsSpec

-----------------------------------------------------------------------------
(* KleemChat: the inductive invariant *)

\* How far q has come is what the talk shows of it: what the visitor says is there once
\* it is written, the answer once it is told, behind it, and at the index that it is
\* rated by.
TalkFits(q) ==
    LET says == Places("user", q)
        told == Places("bot", q)
        asks == asker[q].at
        gets == answerer[q].at
    IN  /\ asks # "idle" => asker[q].host \in Hosts
        /\ \A i, j \in says : i = j
        /\ \A i, j \in told : i = j
        /\ asks \in {"idle", "find", "write"} => says = {}
        /\ asks \in {"prompt", "post", "timer", "done"} => says # {}
        /\ asks \in {"idle", "find", "write", "prompt"} => gets = "none"
        /\ gets # "none" => says # {}
        /\ gets \in {"none", "owed", "find", "write"} => told = {}
        /\ gets \in {"told", "rate"} => told # {}
        /\ \A j \in told : \E i \in says : i < j
        /\ gets = "write" => answerer[q].found <= Len(talk)
        /\ q \notin shifted =>
              /\ gets \in {"told", "rate"} => answerer[q].index \in told
              /\ \A r \in rated : r[1] = q => r[2] \in told

\* Somebody is left to stop the sign: whoever shows it before n8n has the question, and
\* the timer or the answer after.
SignHasOwner(h) ==
    \E q \in Lines : /\ asker[q].host = h
                     /\ asker[q].at \in {"prompt", "timer"} \/ answerer[q].at = "owed"

KleemInv ==
    /\ KleemTypeOK
    /\ \A q \in Lines : TalkFits(q)
    /\ \A h \in typing \ astray : SignHasOwner(h)

-----------------------------------------------------------------------------
(* KleemChat: steps *)

\* A sequence, and one with an element more.
LEMMA SequenceIs ==
    ASSUME NEW S, NEW s \in Seq(S)
    PROVE  /\ Len(s) \in Nat /\ DOMAIN s = 1..Len(s)
           /\ \A k \in DOMAIN s : s[k] \in S
    OBVIOUS

LEMMA AppendIs ==
    ASSUME NEW S, NEW s \in Seq(S), NEW x \in S
    PROVE  /\ Append(s, x) \in Seq(S) /\ Len(Append(s, x)) = Len(s) + 1
           /\ DOMAIN Append(s, x) = 1..Len(s) + 1
           /\ Append(s, x)[Len(s) + 1] = x
           /\ \A k \in DOMAIN s : k \in 1..Len(s) /\ Append(s, x)[k] = s[k]
    OBVIOUS
Whose == {"user", "bot"}

\* Nothing has been said.
LEMMA NothingSaid ==
    ASSUME UNCHANGED talk
    PROVE  \A w \in Whose, d \in Lines : Places(w, d)' = Places(w, d)
    BY DEF Places

\* q has been said, or answered.
LEMMA OneMoreSaid ==
    ASSUME KleemTypeOK, NEW who \in Whose, NEW q \in Lines, talk' = Append(talk, <<who, q>>)
    PROVE  /\ Len(talk) \in Nat /\ talk' \in Seq(Said) /\ Len(talk') = Len(talk) + 1
           /\ Places(who, q)' = Places(who, q) \cup {Len(talk) + 1}
           /\ \A w \in Whose, d \in Lines :
                 /\ <<w, d>> # <<who, q>> => Places(w, d)' = Places(w, d)
                 /\ Places(w, d) \subseteq 1..Len(talk)
<1>1. <<who, q>> \in Said /\ talk \in Seq(Said)
    BY DEF Said, Whose, KleemTypeOK
<1>2. /\ Len(talk) \in Nat /\ talk' \in Seq(Said) /\ Len(talk') = Len(talk) + 1
      /\ DOMAIN talk = 1..Len(talk) /\ DOMAIN talk' = 1..Len(talk) + 1
      /\ talk'[Len(talk) + 1] = <<who, q>>
      /\ \A k \in DOMAIN talk : talk'[k] = talk[k]
    BY <1>1, SequenceIs, AppendIs
<1>3. DOMAIN talk' = DOMAIN talk \cup {Len(talk) + 1}
    BY <1>2
<1>4. ASSUME NEW w \in Whose, NEW d \in Lines
      PROVE  /\ Places(w, d) \subseteq 1..Len(talk)
             /\ Places(w, d)' = IF <<w, d>> = <<who, q>> THEN Places(w, d) \cup {Len(talk) + 1}
                                ELSE Places(w, d)
    BY <1>2, <1>3 DEF Places
<1> QED BY <1>2, <1>4

\* What is said of q leaves the others as they are.
LEMMA OthersFit ==
    ASSUME KleemInv, NEW q \in Lines,
           \A d \in Lines \ {q} : asker'[d] = asker[d] /\ answerer'[d] = answerer[d],
           \A r \in rated' : r[1] # q => r \in rated,
           shifted \subseteq shifted',
           Len(talk) \in Nat, Len(talk') \in Nat, Len(talk) <= Len(talk'),
           \A w \in Whose, d \in Lines \ {q} : Places(w, d)' = Places(w, d)
    PROVE  \A d \in Lines \ {q} : TalkFits(d)'
<1>1. SUFFICES ASSUME NEW d \in Lines \ {q} PROVE TalkFits(d)'
    OBVIOUS
<1>2. /\ TalkFits(d) /\ asker'[d] = asker[d] /\ answerer'[d] = answerer[d]
      /\ Places("user", d)' = Places("user", d) /\ Places("bot", d)' = Places("bot", d)
      /\ answerer[d] \in Answerer
    BY DEF KleemInv, KleemTypeOK, Whose
<1>3. answerer[d].found <= Len(talk) => answerer[d].found <= Len(talk')
    BY <1>2 DEF Answerer
<1> QED BY <1>1, <1>2, <1>3 DEF TalkFits

\* The call that brings q goes on as r, and says nothing.
LEMMA AskerGoesOn ==
    ASSUME KleemInv, NEW q \in Lines, NEW r \in Asker, asker' = [asker EXCEPT ![q] = r],
           UNCHANGED <<talk, answerer, rated, shifted>>,
           r.at \in {"find", "write"} => asker[q].at \in {"idle", "find", "write"},
           r.at \in {"post", "timer", "done"} => asker[q].at \in {"prompt", "post", "timer"},
           r.at \notin {"idle", "prompt"},
           r.host \in Hosts \/ (asker[q].at # "idle" /\ r.host = asker[q].host)
    PROVE  /\ asker' \in [Lines -> Asker] /\ asker'[q] = r
           /\ \A d \in Lines \ {q} : asker'[d] = asker[d]
           /\ \A d \in Lines : TalkFits(d)'
<1>1. /\ asker' \in [Lines -> Asker] /\ asker'[q] = r
      /\ \A d \in Lines \ {q} : asker'[d] = asker[d]
    BY DEF KleemInv, KleemTypeOK
<1>2. \A w \in Whose, d \in Lines : Places(w, d)' = Places(w, d)
    BY NothingSaid
<1>3. Len(talk) \in Nat
    BY SequenceIs DEF KleemInv, KleemTypeOK
<1>4. \A d \in Lines \ {q} : TalkFits(d)'
    BY <1>1, <1>2, <1>3, OthersFit
<1>5. TalkFits(q)'
  <2>1. TalkFits(q) /\ Places("user", q)' = Places("user", q) /\ Places("bot", q)' = Places("bot", q)
    BY <1>2 DEF KleemInv, Whose
  <2> QED BY <1>1, <2>1 DEF TalkFits
<1> QED BY <1>1, <1>4, <1>5

\* The answer to q goes on as r, and nothing is said.
LEMMA AnswerGoesOn ==
    ASSUME KleemInv, NEW q \in Lines, NEW r \in Answerer,
           answerer' = [answerer EXCEPT ![q] = r],
           UNCHANGED <<talk, asker, shifted>>,
           r.at # "none" /\ answerer[q].at # "none",
           r.at \in {"owed", "find", "write"} => answerer[q].at \in {"owed", "find", "write"},
           r.at \in {"told", "rate"} =>
              answerer[q].at \in {"told", "rate"} /\ r.index = answerer[q].index,
           r.at = "write" => r.found <= Len(talk),
           \A s \in rated' :
              s \in rated \/ (s[1] = q /\ (q \notin shifted => s[2] \in Places("bot", q)))
    PROVE  /\ answerer' \in [Lines -> Answerer] /\ answerer'[q] = r
           /\ \A d \in Lines \ {q} : answerer'[d] = answerer[d]
           /\ \A d \in Lines : TalkFits(d)'
<1>1. /\ answerer' \in [Lines -> Answerer] /\ answerer'[q] = r
      /\ \A d \in Lines \ {q} : answerer'[d] = answerer[d]
    BY DEF KleemInv, KleemTypeOK
<1>2. \A w \in Whose, d \in Lines : Places(w, d)' = Places(w, d)
    BY NothingSaid
<1>3. Len(talk) \in Nat
    BY SequenceIs DEF KleemInv, KleemTypeOK
<1>4. \A d \in Lines \ {q} : TalkFits(d)'
    BY <1>1, <1>2, <1>3, OthersFit
<1>5. TalkFits(q)'
  <2>1. TalkFits(q) /\ Places("user", q)' = Places("user", q) /\ Places("bot", q)' = Places("bot", q)
    BY <1>2 DEF KleemInv, Whose
  <2> QED BY <1>1, <2>1 DEF TalkFits
<1> QED BY <1>1, <1>4, <1>5

\* No sign has come, and whoever was to stop one that is left still is.
LEMMA SignsKept ==
    ASSUME KleemInv, typing' \ astray' \subseteq typing \ astray,
           \A d \in Lines :
              (asker[d].at \in {"prompt", "timer"} \/ answerer[d].at = "owed")
                 /\ asker[d].host \in typing' \ astray' =>
              /\ asker'[d].host = asker[d].host
              /\ asker'[d].at \in {"prompt", "timer"} \/ answerer'[d].at = "owed"
    PROVE  \A h \in typing' \ astray' : SignHasOwner(h)'
    BY DEF KleemInv, SignHasOwner

AskStages == {"idle", "find", "write", "prompt", "post", "timer", "done", "failed"}

LEMMA AsksIs ==
    ASSUME KleemTypeOK, NEW q \in Lines, NEW at \in AskStages, Asks(q, at)
    PROVE  \E r \in Asker : /\ asker' = [asker EXCEPT ![q] = r]
                            /\ r.at = at /\ r.op = asker[q].op /\ r.host = asker[q].host
<1>1. asker[q] \in Asker /\ asker' = [asker EXCEPT ![q] = [asker[q] EXCEPT !.at = at]]
    BY DEF KleemTypeOK, Asks
<1>2. PICK r : r = [asker[q] EXCEPT !.at = at]
    OBVIOUS
<1>3. r \in Asker /\ r.at = at /\ r.op = asker[q].op /\ r.host = asker[q].host
    BY <1>1, <1>2 DEF Asker, AskStages
<1> QED BY <1>1, <1>2, <1>3

AnswerStages == {"none", "owed", "find", "write", "told", "rate", "lost"}

LEMMA AnswersIs ==
    ASSUME KleemTypeOK, NEW q \in Lines, NEW at \in AnswerStages, Answers(q, at)
    PROVE  \E r \in Answerer : /\ answerer' = [answerer EXCEPT ![q] = r]
                               /\ r.at = at /\ r.found = answerer[q].found
                               /\ r.index = answerer[q].index
<1>1. answerer[q] \in Answerer /\ answerer' = [answerer EXCEPT ![q] = [answerer[q] EXCEPT !.at = at]]
    BY DEF KleemTypeOK, Answers
<1>2. PICK r : r = [answerer[q] EXCEPT !.at = at]
    OBVIOUS
<1>3. /\ r \in Answerer /\ r.at = at /\ r.found = answerer[q].found
      /\ r.index = answerer[q].index
    BY <1>1, <1>2 DEF Answerer, AnswerStages
<1> QED BY <1>1, <1>2, <1>3

LEMMA SayInv ==
    ASSUME KleemInv, NEW q \in Lines, NEW h \in Hosts, NEW op \in {"ask", "note"}, Say(q, h, op)
    PROVE  KleemInv'
<1>1. PICK r : r = [op |-> op, host |-> h, found |-> 0, at |-> "find"]
    OBVIOUS
<1>2. r \in Asker /\ r.at = "find" /\ r.host = h
    BY <1>1 DEF Asker
<1>3. /\ asker[q].at = "idle" /\ asker' = [asker EXCEPT ![q] = r]
      /\ UNCHANGED <<talk, typing, astray, answerer, rated, shifted, snags>>
    BY <1>1 DEF Say, KeepTyping
<1>4. /\ asker' \in [Lines -> Asker] /\ asker'[q] = r
      /\ \A d \in Lines \ {q} : asker'[d] = asker[d]
      /\ \A d \in Lines : TalkFits(d)'
    BY <1>2, <1>3, AskerGoesOn
<1>5. answerer[q].at = "none"
    BY <1>3 DEF KleemInv, TalkFits
<1>6. \A h_1 \in typing' \ astray' : SignHasOwner(h_1)'
    BY <1>3, <1>4, <1>5, SignsKept
<1>7. KleemTypeOK'
    BY <1>3, <1>4 DEF KleemInv, KleemTypeOK
<1> QED BY <1>4, <1>6, <1>7 DEF KleemInv

LEMMA FindTalkInv ==
    ASSUME KleemInv, NEW q \in Lines, FindTalk(q)
    PROVE  KleemInv'
<1>1. PICK r : r = [asker[q] EXCEPT !.at = "write", !.found = Len(talk)]
    OBVIOUS
<1>2. asker[q] \in Asker /\ Len(talk) \in Nat
    BY SequenceIs DEF KleemInv, KleemTypeOK
<1>3. r \in Asker /\ r.at = "write" /\ r.host = asker[q].host
    BY <1>1, <1>2 DEF Asker
<1>4. /\ asker[q].at = "find" /\ asker' = [asker EXCEPT ![q] = r]
      /\ UNCHANGED <<talk, typing, astray, answerer, rated, shifted, snags>>
    BY <1>1 DEF FindTalk, KeepTyping
<1>5. /\ asker' \in [Lines -> Asker] /\ asker'[q] = r
      /\ \A d \in Lines \ {q} : asker'[d] = asker[d]
      /\ \A d \in Lines : TalkFits(d)'
    BY <1>3, <1>4, AskerGoesOn
<1>6. \A h \in typing' \ astray' : SignHasOwner(h)'
    BY <1>3, <1>4, <1>5, SignsKept
<1>7. KleemTypeOK'
    BY <1>4, <1>5 DEF KleemInv, KleemTypeOK
<1> QED BY <1>5, <1>6, <1>7 DEF KleemInv

LEMMA WriteTalkInv ==
    ASSUME KleemInv, NEW q \in Lines, WriteTalk(q)
    PROVE  KleemInv'
<1>1. /\ asker[q].at = "write" /\ asker[q] \in Asker
      /\ UNCHANGED <<answerer, rated, shifted, snags>>
    BY DEF WriteTalk, KleemInv, KleemTypeOK
<1>2. CASE Asks(q, "failed") /\ KeepTyping /\ UNCHANGED talk
  <2>1. PICK r \in Asker : /\ asker' = [asker EXCEPT ![q] = r] /\ r.at = "failed"
                           /\ r.host = asker[q].host
    BY <1>2, AsksIs DEF KleemInv, AskStages
  <2>2. /\ asker' \in [Lines -> Asker] /\ asker'[q] = r
        /\ \A d \in Lines \ {q} : asker'[d] = asker[d]
        /\ \A d \in Lines : TalkFits(d)'
    BY <1>1, <1>2, <2>1, AskerGoesOn
  <2>3. \A h \in typing' \ astray' : SignHasOwner(h)'
    BY <1>1, <1>2, <2>1, <2>2, SignsKept DEF KeepTyping
  <2>4. KleemTypeOK'
    BY <1>1, <1>2, <2>2 DEF KleemInv, KleemTypeOK, KeepTyping
  <2> QED BY <2>2, <2>3, <2>4 DEF KleemInv
<1>3. CASE /\ talk' = Append(talk, <<"user", q>>)
           /\ IF asker[q].op = "ask" THEN Asks(q, "prompt") /\ StartTyping(asker[q].host)
              ELSE Asks(q, "done") /\ KeepTyping
  <2>1. PICK r \in Asker :
          /\ asker' = [asker EXCEPT ![q] = r] /\ r.host = asker[q].host
          /\ \/ r.at = "prompt" /\ StartTyping(asker[q].host)
             \/ r.at = "done" /\ KeepTyping
    BY <1>3, AsksIs DEF KleemInv, AskStages
  <2>2. /\ asker' \in [Lines -> Asker] /\ asker'[q] = r
        /\ \A d \in Lines \ {q} : asker'[d] = asker[d]
    BY <2>1 DEF KleemInv, KleemTypeOK
  <2>3. /\ Len(talk) \in Nat /\ talk' \in Seq(Said) /\ Len(talk') = Len(talk) + 1
        /\ Places("user", q)' = Places("user", q) \cup {Len(talk) + 1}
        /\ Places("bot", q)' = Places("bot", q)
        /\ \A w \in Whose, d \in Lines \ {q} : Places(w, d)' = Places(w, d)
    BY <1>3, OneMoreSaid DEF KleemInv, Whose
  <2>4. \A d \in Lines \ {q} : TalkFits(d)'
    BY <1>1, <2>2, <2>3, OthersFit
  <2>5. TalkFits(q)'
    <3>1. TalkFits(q) /\ Places("user", q) = {} /\ Places("bot", q) = {} /\ answerer[q].at = "none"
      BY <1>1 DEF KleemInv, TalkFits
    <3>2. Places("user", q)' = {Len(talk) + 1} /\ Places("bot", q)' = {}
      BY <2>3, <3>1
    <3> QED BY <1>1, <2>1, <2>2, <3>1, <3>2 DEF TalkFits
  <2>6. ASSUME NEW h \in typing' \ astray' PROVE SignHasOwner(h)'
    <3>1. CASE r.at = "prompt" /\ h = asker[q].host
      BY <2>1, <2>2, <3>1 DEF SignHasOwner
    <3>2. CASE ~(r.at = "prompt" /\ h = asker[q].host)
      <4>1. h \in typing \ astray
        BY <2>1, <2>6, <3>2 DEF StartTyping, KeepTyping
      <4>2. PICK d \in Lines : /\ asker[d].host = h
                               /\ asker[d].at \in {"prompt", "timer"} \/ answerer[d].at = "owed"
        BY <4>1 DEF KleemInv, SignHasOwner
      <4>3. d # q
        BY <1>1, <4>2 DEF KleemInv, TalkFits
      <4> QED BY <1>1, <2>2, <4>2, <4>3 DEF SignHasOwner
    <3> QED BY <3>1, <3>2
  <2>7. typing' \subseteq Hosts /\ astray' \subseteq typing'
    <3>1. CASE KeepTyping
      BY <3>1 DEF KeepTyping, KleemInv, KleemTypeOK
    <3>2. CASE r.at = "prompt" /\ StartTyping(asker[q].host)
      <4>1. asker[q].host \in Hosts
        BY <1>1 DEF KleemInv, TalkFits
      <4> QED BY <3>2, <4>1 DEF StartTyping, KleemInv, KleemTypeOK
    <3> QED BY <2>1, <3>1, <3>2
  <2>8. KleemTypeOK'
    BY <1>1, <2>2, <2>3, <2>7 DEF KleemInv, KleemTypeOK
  <2> QED BY <2>2, <2>4, <2>5, <2>6, <2>8 DEF KleemInv
<1> QED BY <1>2, <1>3 DEF WriteTalk

LEMMA PostInv ==
    ASSUME KleemInv, NEW q \in Lines, Post(q)
    PROVE  KleemInv'
<1>1. /\ asker[q].at = "prompt" /\ Asks(q, "post") /\ Answers(q, "owed")
      /\ UNCHANGED <<talk, typing, astray, rated, shifted, snags>>
    BY DEF Post, KeepTyping
<1>2. PICK r \in Asker : /\ asker' = [asker EXCEPT ![q] = r] /\ r.at = "post"
                         /\ r.host = asker[q].host
    BY <1>1, AsksIs DEF KleemInv, AskStages
<1>3. PICK s \in Answerer : answerer' = [answerer EXCEPT ![q] = s] /\ s.at = "owed"
    BY <1>1, AnswersIs DEF KleemInv, AnswerStages
<1>4. /\ asker' \in [Lines -> Asker] /\ asker'[q] = r
      /\ answerer' \in [Lines -> Answerer] /\ answerer'[q] = s
      /\ \A d \in Lines \ {q} : asker'[d] = asker[d] /\ answerer'[d] = answerer[d]
    BY <1>2, <1>3 DEF KleemInv, KleemTypeOK
<1>5. \A w \in Whose, d \in Lines : Places(w, d)' = Places(w, d)
    BY <1>1, NothingSaid
<1>6. \A d \in Lines \ {q} : TalkFits(d)'
  <2>1. Len(talk) \in Nat
    BY SequenceIs DEF KleemInv, KleemTypeOK
  <2> QED BY <1>1, <1>4, <1>5, <2>1, OthersFit
<1>7. TalkFits(q)'
  <2>1. TalkFits(q) /\ Places("user", q)' = Places("user", q) /\ Places("bot", q)' = Places("bot", q)
    BY <1>5 DEF KleemInv, Whose
  <2> QED BY <1>1, <1>2, <1>3, <1>4, <2>1 DEF TalkFits
<1>8. \A h \in typing' \ astray' : SignHasOwner(h)'
    BY <1>1, <1>2, <1>3, <1>4, SignsKept
<1>9. KleemTypeOK'
    BY <1>1, <1>4 DEF KleemInv, KleemTypeOK
<1> QED BY <1>4, <1>6, <1>7, <1>8, <1>9 DEF KleemInv

\* The call that asks goes on or ends; it has nothing to say any more.
LEMMA AskingEndsInv ==
    ASSUME KleemInv, NEW q \in Lines,
           PostReturns(q) \/ PostFails(q) \/ StopLater(q) \/ AskFails(q)
    PROVE  KleemInv'
<1>1. PICK at \in {"timer", "done", "failed"} :
        /\ Asks(q, at)
        /\ asker[q].at # "idle"
        /\ at # "failed" => asker[q].at \in {"prompt", "post", "timer"}
        /\ asker[q].at \in {"prompt", "timer"} =>
              at = "timer" \/ asker[q].host \notin typing' \ astray'
        /\ typing' \subseteq typing /\ astray' \subseteq typing' /\ astray' \subseteq astray \cup {asker[q].host}
        /\ typing' \ astray' \subseteq typing \ astray
    BY DEF PostReturns, PostFails, StopLater, AskFails, KeepTyping, StopTyping, KleemInv,
           KleemTypeOK
<1>2. UNCHANGED <<talk, answerer, rated, shifted>> /\ snags' \in 0..MaxSnags
    BY LinesAssumption DEF PostReturns, PostFails, StopLater, AskFails, KleemInv, KleemTypeOK
<1>3. PICK r \in Asker : /\ asker' = [asker EXCEPT ![q] = r] /\ r.at = at
                         /\ r.host = asker[q].host
    BY <1>1, AsksIs DEF KleemInv, AskStages
<1>4. /\ asker' \in [Lines -> Asker] /\ asker'[q] = r
      /\ \A d \in Lines \ {q} : asker'[d] = asker[d]
      /\ \A d \in Lines : TalkFits(d)'
    BY <1>1, <1>2, <1>3, AskerGoesOn
<1>5. \A h \in typing' \ astray' : SignHasOwner(h)'
    BY <1>1, <1>2, <1>3, <1>4, SignsKept
<1>6. KleemTypeOK'
    BY <1>1, <1>2, <1>4 DEF KleemInv, KleemTypeOK
<1> QED BY <1>4, <1>5, <1>6 DEF KleemInv

LEMMA ReplyInv ==
    ASSUME KleemInv, NEW q \in Lines, NEW h \in Hosts, Reply(q, h)
    PROVE  KleemInv'
<1>1. /\ answerer[q].at = "owed" /\ Answers(q, "find")
      /\ typing' = typing \ {h}
      /\ astray' = (astray \cup (typing \cap {asker[q].host})) \ {h}
      /\ UNCHANGED <<talk, asker, rated, shifted, snags>>
    BY DEF Reply
<1>2. PICK r \in Answerer : answerer' = [answerer EXCEPT ![q] = r] /\ r.at = "find"
    BY <1>1, AnswersIs DEF KleemInv, AnswerStages
<1>3. /\ answerer' \in [Lines -> Answerer] /\ answerer'[q] = r
      /\ \A d \in Lines \ {q} : answerer'[d] = answerer[d]
      /\ \A d \in Lines : TalkFits(d)'
    BY <1>1, <1>2, AnswerGoesOn
<1>4. \A k \in typing' \ astray' : SignHasOwner(k)'
  <2>1. typing' \ astray' \subseteq typing \ astray /\ asker[q].host \notin typing' \ astray'
    BY <1>1
  <2> QED BY <1>1, <1>3, <2>1, SignsKept
<1>5. KleemTypeOK'
    BY <1>1, <1>3 DEF KleemInv, KleemTypeOK
<1> QED BY <1>3, <1>4, <1>5 DEF KleemInv

LEMMA FindForReplyInv ==
    ASSUME KleemInv, NEW q \in Lines, FindForReply(q)
    PROVE  KleemInv'
<1>1. PICK r : r = [answerer[q] EXCEPT !.at = "write", !.found = Len(talk)]
    OBVIOUS
<1>2. answerer[q] \in Answerer /\ Len(talk) \in Nat
    BY SequenceIs DEF KleemInv, KleemTypeOK
<1>3. r \in Answerer /\ r.at = "write" /\ r.found <= Len(talk)
  <2>1. r \in Answerer /\ r.at = "write" /\ r.found = Len(talk)
    BY <1>1, <1>2 DEF Answerer
  <2> QED BY <1>2, <2>1
<1>4. /\ answerer[q].at = "find" /\ answerer' = [answerer EXCEPT ![q] = r]
      /\ UNCHANGED <<talk, asker, typing, astray, rated, shifted, snags>>
    BY <1>1 DEF FindForReply, KeepTyping
<1>5. /\ answerer' \in [Lines -> Answerer] /\ answerer'[q] = r
      /\ \A d \in Lines \ {q} : answerer'[d] = answerer[d]
      /\ \A d \in Lines : TalkFits(d)'
    BY <1>2, <1>3, <1>4, AnswerGoesOn
<1>6. \A h \in typing' \ astray' : SignHasOwner(h)'
    BY <1>3, <1>4, <1>5, SignsKept
<1>7. KleemTypeOK'
    BY <1>4, <1>5 DEF KleemInv, KleemTypeOK
<1> QED BY <1>5, <1>6, <1>7 DEF KleemInv

LEMMA WriteReplyInv ==
    ASSUME KleemInv, NEW q \in Lines, WriteReply(q)
    PROVE  KleemInv'
<1>1. /\ answerer[q].at = "write" /\ answerer[q] \in Answerer /\ TalkFits(q)
      /\ talk' = Append(talk, <<"bot", q>>)
      /\ shifted' = IF Len(talk) > answerer[q].found THEN shifted \cup {q} ELSE shifted
      /\ UNCHANGED <<asker, typing, astray, rated, snags>>
    BY DEF WriteReply, KeepTyping, KleemInv, KleemTypeOK
<1>2. PICK r : r = [answerer[q] EXCEPT !.at = "told", !.index = answerer[q].found + 1]
    OBVIOUS
<1>3. r \in Answerer /\ r.at = "told" /\ r.index = answerer[q].found + 1
  <2>1. answerer[q].found \in Nat /\ answerer[q].found + 1 \in Nat
    BY <1>1 DEF Answerer
  <2> QED BY <1>1, <1>2, <2>1 DEF Answerer
<1>4. answerer' = [answerer EXCEPT ![q] = r]
    BY <1>2 DEF WriteReply
<1>5. /\ answerer' \in [Lines -> Answerer] /\ answerer'[q] = r
      /\ \A d \in Lines \ {q} : answerer'[d] = answerer[d]
    BY <1>3, <1>4 DEF KleemInv, KleemTypeOK
<1>6. /\ Len(talk) \in Nat /\ talk' \in Seq(Said) /\ Len(talk') = Len(talk) + 1
      /\ Places("bot", q)' = Places("bot", q) \cup {Len(talk) + 1}
      /\ Places("user", q)' = Places("user", q) /\ Places("user", q) \subseteq 1..Len(talk)
      /\ \A w \in Whose, d \in Lines \ {q} : Places(w, d)' = Places(w, d)
    BY <1>1, OneMoreSaid DEF KleemInv, Whose
<1>7. \A d \in Lines \ {q} : TalkFits(d)'
    BY <1>1, <1>5, <1>6, OthersFit
<1>8. TalkFits(q)'
  <2>1. Places("bot", q) = {} /\ Places("user", q) # {} /\ answerer[q].found <= Len(talk)
    BY <1>1 DEF TalkFits
  <2>2. Places("bot", q)' = {Len(talk) + 1}
    BY <1>6, <2>1
  <2>3. \E i \in Places("user", q) : i < Len(talk) + 1
    BY <1>6, <2>1
  <2>4. q \notin shifted' => q \notin shifted /\ r.index = Len(talk) + 1
    BY <1>1, <1>3, <1>6, <2>1 DEF Answerer
  <2>5. q \notin shifted => \A s \in rated : s[1] # q
    BY <1>1, <2>1 DEF TalkFits
  <2>6. \A j \in Places("bot", q)' : \E i \in Places("user", q)' : i < j
    BY <1>6, <2>2, <2>3
  <2>7. \A i, j \in Places("bot", q)' : i = j
    BY <2>2
  <2>8. q \notin shifted' => /\ r.index \in Places("bot", q)'
                             /\ \A s \in rated' : s[1] # q
    BY <1>1, <2>2, <2>4, <2>5
  <2>9. /\ \A i, j \in Places("user", q)' : i = j
        /\ Places("user", q)' # {} /\ Places("bot", q)' # {}
        /\ asker'[q].at \notin {"idle", "find", "write", "prompt"}
        /\ asker'[q].at # "idle" => asker'[q].host \in Hosts
    BY <1>1, <1>6, <2>1, <2>2 DEF TalkFits
  <2> QED BY <1>3, <1>5, <2>6, <2>7, <2>8, <2>9 DEF TalkFits
<1>9. \A h \in typing' \ astray' : SignHasOwner(h)'
    BY <1>1, <1>3, <1>5, SignsKept
<1>10. KleemTypeOK'
    BY <1>1, <1>5, <1>6 DEF KleemInv, KleemTypeOK
<1> QED BY <1>5, <1>7, <1>8, <1>9, <1>10 DEF KleemInv

LEMMA ReplyFailsInv ==
    ASSUME KleemInv, NEW q \in Lines, ReplyFails(q)
    PROVE  KleemInv'
<1>1. /\ answerer[q].at \in {"find", "write"} /\ Answers(q, "lost")
      /\ UNCHANGED <<talk, asker, typing, astray, rated, shifted>>
      /\ snags' \in 0..MaxSnags
    BY LinesAssumption DEF ReplyFails, KeepTyping, KleemInv, KleemTypeOK
<1>2. PICK r \in Answerer : answerer' = [answerer EXCEPT ![q] = r] /\ r.at = "lost"
    BY <1>1, AnswersIs DEF KleemInv, AnswerStages
<1>3. /\ answerer' \in [Lines -> Answerer] /\ answerer'[q] = r
      /\ \A d \in Lines \ {q} : answerer'[d] = answerer[d]
      /\ \A d \in Lines : TalkFits(d)'
    BY <1>1, <1>2, AnswerGoesOn
<1>4. \A h \in typing' \ astray' : SignHasOwner(h)'
    BY <1>1, <1>3, SignsKept
<1>5. KleemTypeOK'
    BY <1>1, <1>3 DEF KleemInv, KleemTypeOK
<1> QED BY <1>3, <1>4, <1>5 DEF KleemInv

LEMMA RateInv ==
    ASSUME KleemInv, NEW q \in Lines, Rate(q)
    PROVE  KleemInv'
<1>1. PICK r : r = [answerer[q] EXCEPT !.at = "rate", !.found = Len(talk)]
    OBVIOUS
<1>2. answerer[q] \in Answerer /\ Len(talk) \in Nat
    BY SequenceIs DEF KleemInv, KleemTypeOK
<1>3. r \in Answerer /\ r.at = "rate" /\ r.index = answerer[q].index
    BY <1>1, <1>2 DEF Answerer
<1>4. /\ answerer[q].at = "told" /\ answerer' = [answerer EXCEPT ![q] = r]
      /\ UNCHANGED <<talk, asker, typing, astray, rated, shifted, snags>>
    BY <1>1 DEF Rate, KeepTyping
<1>5. /\ answerer' \in [Lines -> Answerer] /\ answerer'[q] = r
      /\ \A d \in Lines \ {q} : answerer'[d] = answerer[d]
      /\ \A d \in Lines : TalkFits(d)'
    BY <1>3, <1>4, AnswerGoesOn
<1>6. \A h \in typing' \ astray' : SignHasOwner(h)'
    BY <1>3, <1>4, <1>5, SignsKept
<1>7. KleemTypeOK'
    BY <1>4, <1>5 DEF KleemInv, KleemTypeOK
<1> QED BY <1>5, <1>6, <1>7 DEF KleemInv

LEMMA SaveRatingInv ==
    ASSUME KleemInv, NEW q \in Lines, SaveRating(q)
    PROVE  KleemInv'
<1>1. /\ answerer[q].at = "rate" /\ answerer[q] \in Answerer /\ Answers(q, "told")
      /\ TalkFits(q)
      /\ UNCHANGED <<talk, asker, typing, astray, shifted, snags>>
    BY DEF SaveRating, KeepTyping, KleemInv, KleemTypeOK
<1>2. /\ rated' \subseteq rated \cup {<<q, answerer[q].index>>}
      /\ q \notin shifted => answerer[q].index \in Places("bot", q)
    BY <1>1 DEF SaveRating, TalkFits
<1>3. PICK r \in Answerer : /\ answerer' = [answerer EXCEPT ![q] = r] /\ r.at = "told"
                            /\ r.index = answerer[q].index
    BY <1>1, AnswersIs DEF KleemInv, AnswerStages
<1>4. \A s \in rated' :
        s \in rated \/ (s[1] = q /\ (q \notin shifted => s[2] \in Places("bot", q)))
    BY <1>2
<1>5. /\ answerer' \in [Lines -> Answerer] /\ answerer'[q] = r
      /\ \A d \in Lines \ {q} : answerer'[d] = answerer[d]
      /\ \A d \in Lines : TalkFits(d)'
    BY <1>1, <1>3, <1>4, AnswerGoesOn
<1>6. \A h \in typing' \ astray' : SignHasOwner(h)'
    BY <1>1, <1>3, <1>5, SignsKept
<1>7. rated' \subseteq Lines \X Nat
    BY <1>1, <1>2 DEF KleemInv, KleemTypeOK, Answerer
<1>8. KleemTypeOK'
    BY <1>1, <1>5, <1>7 DEF KleemInv, KleemTypeOK
<1> QED BY <1>5, <1>6, <1>8 DEF KleemInv

LEMMA StartAgainInv ==
    ASSUME KleemInv, NEW h \in Hosts, StartAgain(h)
    PROVE  KleemInv'
<1>1. /\ typing' = typing \ {h} /\ astray' = astray \ {h}
      /\ UNCHANGED <<talk, answerer, rated, shifted>> /\ snags' \in 0..MaxSnags
    BY LinesAssumption DEF StartAgain, StopTyping, KleemInv, KleemTypeOK
<1>2. asker' = [q \in Lines |-> IF asker[q].host = h /\ asker[q].at # "done"
                                THEN [asker[q] EXCEPT !.at = "failed"] ELSE asker[q]]
    BY DEF StartAgain
<1>3. ASSUME NEW q \in Lines
      PROVE  /\ asker'[q] \in Asker /\ asker'[q].host = asker[q].host
             /\ asker'[q].at \in {asker[q].at, "failed"}
             /\ asker[q].host # h => asker'[q].at = asker[q].at
             /\ asker[q].at = "done" => asker'[q].at = "done"
             /\ asker'[q].at = "failed" => asker[q].at = "failed" \/ asker[q].host = h
  <2>1. asker[q] \in Asker
    BY DEF KleemInv, KleemTypeOK
  <2>2. CASE asker[q].host = h /\ asker[q].at # "done"
    BY <1>2, <2>1, <2>2 DEF Asker
  <2>3. CASE ~(asker[q].host = h /\ asker[q].at # "done")
    BY <1>2, <2>1, <2>3
  <2> QED BY <2>2, <2>3
<1>4. asker' \in [Lines -> Asker]
    BY <1>2, <1>3
<1>5. \A w \in Whose, d \in Lines : Places(w, d)' = Places(w, d)
    BY <1>1, NothingSaid
<1>6. ASSUME NEW q \in Lines PROVE TalkFits(q)'
  <2>1. TalkFits(q) /\ Places("user", q)' = Places("user", q) /\ Places("bot", q)' = Places("bot", q)
    BY <1>5 DEF KleemInv, Whose
  <2> QED BY <1>1, <1>3, <2>1 DEF TalkFits
<1>7. \A k \in typing' \ astray' : SignHasOwner(k)'
    BY <1>1, <1>3, SignsKept
<1>8. KleemTypeOK'
    BY <1>1, <1>4 DEF KleemInv, KleemTypeOK
<1> QED BY <1>6, <1>7, <1>8 DEF KleemInv

LEMMA KleemStarts == KleemInit => KleemInv
<1> SUFFICES ASSUME KleemInit PROVE KleemInv
    OBVIOUS
<1>1. KleemTypeOK
    BY LinesAssumption DEF KleemInit, KleemTypeOK, Asker, Answerer, Said
<1>2. \A w \in Whose, d \in Lines : Places(w, d) = {}
    BY DEF KleemInit, Places
<1>3. \A q \in Lines : TalkFits(q)
    BY <1>2 DEF KleemInit, TalkFits, Whose
<1>4. typing \ astray = {}
    BY DEF KleemInit
<1> QED BY <1>1, <1>3, <1>4 DEF KleemInv

LEMMA KleemRests == KleemInv /\ UNCHANGED kleemVars => KleemInv'
<1> SUFFICES ASSUME KleemInv, UNCHANGED kleemVars PROVE KleemInv'
    OBVIOUS
<1> USE DEF kleemVars
<1>1. \A w \in Whose, d \in Lines : Places(w, d)' = Places(w, d)
    BY NothingSaid
<1>2. ASSUME NEW q \in Lines PROVE TalkFits(q)'
  <2>1. TalkFits(q) /\ Places("user", q)' = Places("user", q) /\ Places("bot", q)' = Places("bot", q)
    BY <1>1 DEF KleemInv, Whose
  <2> QED BY <2>1 DEF TalkFits
<1>3. \A h \in typing' \ astray' : SignHasOwner(h)'
    BY SignsKept
<1>4. KleemTypeOK'
    BY DEF KleemInv, KleemTypeOK
<1> QED BY <1>2, <1>3, <1>4 DEF KleemInv

-----------------------------------------------------------------------------
(* KleemChat: theorems *)

LEMMA KleemSteps == KleemInv /\ [KleemNext]_kleemVars => KleemInv'
    BY KleemRests, SayInv, FindTalkInv, WriteTalkInv, PostInv, AskingEndsInv, ReplyInv,
       FindForReplyInv, WriteReplyInv, ReplyFailsInv, RateInv, SaveRatingInv, StartAgainInv
    DEF KleemNext

\* The inductive invariant holds of every run, and with it every variable keeps its type.
THEOREM KleemHolds == KleemSpec => []KleemInv
<1> QED BY KleemStarts, KleemSteps, PTL DEF KleemSpec

THEOREM KleemTypes == KleemSpec => []KleemTypeOK
<1>1. KleemInv => KleemTypeOK
    BY DEF KleemInv
<1> QED BY <1>1, KleemHolds, PTL

\* However many talk to Kleem through however many processes, what is said is kept in
\* order, and rated and shown as it is.
THEOREM KleemIsSound == KleemSpec => []TalkIsSound
<1>1. KleemInv => TypingIsOwed
    BY DEF KleemInv, SignHasOwner, TypingIsOwed
<1>2. KleemInv => TalkIsKept
  <2>1. SUFFICES ASSUME KleemInv, NEW q \in Lines
                 PROVE  /\ \A who \in {"user", "bot"} : \A i, j \in Places(who, q) : i = j
                        /\ asker[q].at \in {"prompt", "post", "timer", "done"}
                              => Places("user", q) # {}
                        /\ answerer[q].at \in {"told", "rate"} => Places("bot", q) # {}
                        /\ \A j \in Places("bot", q) : \E i \in Places("user", q) : i < j
    BY DEF TalkIsKept
  <2>2. TalkFits(q)
    BY <2>1 DEF KleemInv
  <2> QED BY <2>2 DEF TalkFits
<1>3. KleemInv => RatedAsMeant
  <2>1. SUFFICES ASSUME KleemInv, NEW r \in rated, r[1] \notin shifted
                 PROVE  talk[r[2]] = <<"bot", r[1]>>
    BY DEF RatedAsMeant
  <2>2. r[1] \in Lines
    BY <2>1 DEF KleemInv, KleemTypeOK
  <2>3. r[2] \in Places("bot", r[1])
    BY <2>1, <2>2 DEF KleemInv, TalkFits
  <2> QED BY <2>3 DEF Places
<1>4. KleemInv => TalkIsSound
    BY <1>1, <1>2, <1>3 DEF TalkIsSound
<1> QED BY <1>4, KleemHolds, PTL
=============================================================================
