--------------------------- MODULE MerchantProofs ---------------------------
(***************************************************************************)
(* Proofs about what surrounds a merchant's conversations: the making of   *)
(* merchants, the versions of a workflow, the public addresses and the     *)
(* category tree, for any number of merchants, jobs, definitions,          *)
(* addresses, categories and calls and any bound of errors; and about the  *)
(* composition of these with accounts, sessions, prompts and talks.        *)
(***************************************************************************)
EXTENDS MCMerchant, AccountProofs, BotProofs, FiniteSetTheorems, WellFoundedInduction, TLAPS

-----------------------------------------------------------------------------
(* Provisioning: the inductive invariant *)

\* What job j knows, and what it has done, at each of its stages; of its merchant, as
\* long as no other job has met it.
JobFits(j) ==
    LET at == job[j].at
        m  == job[j].merchant
        creates == job[j].op = "create"
    IN  /\ at = "idle" <=> m = NoMerchant
        /\ at = "idle" <=> job[j].op = "none"
        /\ j \in workflows => at \notin {"idle", "workflow"}
        /\ at \in {"activate", "link", "history", "save", "storefront", "done", "deactivate",
                   "delete"} => j \in workflows
        /\ job[j].holds => at \notin {"idle", "workflow", "activate", "link", "history"}
        /\ creates /\ at \in {"save", "storefront", "done", "deactivate", "delete"}
              => job[j].holds
        /\ at \in {"save", "storefront"} \cup Undoing => creates
        /\ creates /\ at \in {"remove", "failed"} /\ j \in workflows => j \in stray
        /\ job[j].op = "admin" => m \in rivals
        /\ m \notin rivals =>
              /\ at \notin {"idle", "failed"} => m \in merchants \cup removed
              /\ at \in {"history", "save", "storefront", "done"} /\ m \in merchants
                    => workflowId[m] = j
              /\ at = "done" => m \in storefronts
              /\ at = "failed" /\ m \in merchants => m \in stray

JobsFit == \A j \in Jobs : JobFits(j)

\* Jobs of one merchant have met, and a merchant who is there has been made by one.
JobsMeet ==
    /\ \A i, j \in Jobs : i # j /\ MerchantOf(i) = MerchantOf(j) /\ MerchantOf(i) # NoMerchant
          => MerchantOf(i) \in rivals
    /\ \A m \in merchants : \E j \in Jobs : MerchantOf(j) = m

ProvisioningInv ==
    /\ ProvisioningTypeOK
    /\ JobsFit
    /\ JobsMeet

-----------------------------------------------------------------------------
(* Provisioning: steps *)

JobStages == {"idle", "done", "failed"} \cup Making \cup Undoing

LEMMA ContinueIs ==
    ASSUME ProvisioningTypeOK, NEW j \in Jobs, NEW at \in JobStages, Continue(j, at)
    PROVE  /\ job' \in [Jobs -> JobState]
           /\ job'[j].at = at /\ job'[j].op = job[j].op /\ job'[j].merchant = job[j].merchant
           /\ job'[j].holds = job[j].holds
           /\ \A i \in Jobs \ {j} : job'[i] = job[i]
<1>1. job \in [Jobs -> JobState] /\ job[j] \in JobState
    BY DEF ProvisioningTypeOK
<1>2. /\ [job[j] EXCEPT !.at = at] \in JobState
      /\ [job[j] EXCEPT !.at = at].at = at
      /\ [job[j] EXCEPT !.at = at].op = job[j].op
      /\ [job[j] EXCEPT !.at = at].merchant = job[j].merchant
      /\ [job[j] EXCEPT !.at = at].holds = job[j].holds
    BY <1>1 DEF JobState, JobStages
<1>3. job' = [job EXCEPT ![j] = [job[j] EXCEPT !.at = at]]
    BY DEF Continue
<1> QED BY <1>1, <1>2, <1>3

\* A job whose merchant has met no other is alone with him.
LEMMA Alone ==
    ASSUME ProvisioningInv, NEW j \in Jobs, job[j].at # "idle"
    PROVE  /\ job[j].merchant \in Merchants
           /\ \A i \in Jobs \ {j} :
                 job[i].merchant \notin rivals => job[i].merchant # job[j].merchant
<1>1. job[j].merchant \in Merchants
    BY DEF ProvisioningInv, ProvisioningTypeOK, JobState, JobsFit, JobFits
<1> QED BY <1>1, NamesAssumption DEF ProvisioningInv, JobsMeet, MerchantOf

LEMMA ProvisioningStarts == ProvisioningInit => ProvisioningInv
<1> SUFFICES ASSUME ProvisioningInit PROVE ProvisioningInv
    OBVIOUS
<1>1. ProvisioningTypeOK
    BY ErrorsAssumption DEF ProvisioningInit, ProvisioningTypeOK, JobState
<1>2. JobsFit
    BY NamesAssumption DEF ProvisioningInit, JobsFit, JobFits, Undoing
<1>3. JobsMeet
    BY DEF ProvisioningInit, JobsMeet, MerchantOf
<1> QED BY <1>1, <1>2, <1>3 DEF ProvisioningInv

LEMMA ProvisioningRests == ProvisioningInv /\ UNCHANGED provisioningVars => ProvisioningInv'
<1> SUFFICES ASSUME ProvisioningInv, UNCHANGED provisioningVars PROVE ProvisioningInv'
    OBVIOUS
<1> USE DEF provisioningVars, n8nVars
<1>1. ProvisioningTypeOK' /\ JobsMeet'
    BY DEF ProvisioningInv, ProvisioningTypeOK, JobsMeet, MerchantOf
<1>2. JobsFit'
    BY DEF ProvisioningInv, JobsFit, JobFits
<1> QED BY <1>1, <1>2 DEF ProvisioningInv

\* Job j goes on; it keeps its merchant, whom the other jobs leave alone.
LEMMA JobGoesOn ==
    ASSUME ProvisioningInv, NEW j \in Jobs, job[j].at # "idle",
           job' \in [Jobs -> JobState], job'[j].merchant = job[j].merchant,
           \A i \in Jobs \ {j} : job'[i] = job[i],
           JobFits(j)',
           workflowId' \in [Merchants -> Jobs \cup {NoWorkflow}],
           \A m \in Merchants \ {job[j].merchant} :
               /\ workflowId'[m] = workflowId[m]
               /\ m \in merchants' <=> m \in merchants
               /\ m \in storefronts' <=> m \in storefronts,
           \A i \in Jobs \ {j} : i \in workflows' <=> i \in workflows,
           merchants' \subseteq merchants, storefronts' \subseteq Merchants,
           workflows' \subseteq Jobs, active' \subseteq workflows', errors' \in 0..MaxErrors,
           stray \subseteq stray', stray' \subseteq Jobs \cup Merchants,
           UNCHANGED <<removed, rivals>>
    PROVE  ProvisioningInv'
<1>1. ProvisioningTypeOK'
    BY DEF ProvisioningInv, ProvisioningTypeOK
<1>2. JobsFit'
  <2>1. SUFFICES ASSUME NEW i \in Jobs, i # j PROVE JobFits(i)'
    BY DEF JobsFit
  <2>2. JobFits(i) /\ job'[i] = job[i]
    BY <2>1 DEF ProvisioningInv, JobsFit
  <2>3. job[i].merchant \notin rivals => job[i].merchant # job[j].merchant
    BY <2>1, Alone
  <2>4. job[i].merchant \in Merchants \cup {NoMerchant}
    BY DEF ProvisioningInv, ProvisioningTypeOK, JobState
  <2>5. job[i].at = "idle" <=> job[i].merchant = NoMerchant
    BY <2>2 DEF JobFits
  <2>6. job[i].merchant \notin rivals /\ job[i].at # "idle" =>
           /\ workflowId'[job[i].merchant] = workflowId[job[i].merchant]
           /\ job[i].merchant \in merchants' <=> job[i].merchant \in merchants
           /\ job[i].merchant \in storefronts' <=> job[i].merchant \in storefronts
    BY <2>3, <2>4, <2>5
  <2> QED BY <2>1, <2>2, <2>6 DEF JobFits
<1>3. JobsMeet'
  <2>1. \A i \in Jobs : MerchantOf(i)' = MerchantOf(i)
    BY DEF MerchantOf
  <2> QED BY <2>1 DEF ProvisioningInv, JobsMeet, MerchantOf
<1> QED BY <1>1, <1>2, <1>3 DEF ProvisioningInv

LEMMA CreateWorkflowInv ==
    ASSUME ProvisioningInv, NEW j \in Jobs, CreateWorkflow(j)
    PROVE  ProvisioningInv'
<1>1. job[j].at = "workflow" /\ Continue(j, "activate") /\ JobFits(j)
    BY DEF CreateWorkflow, JobAt, ProvisioningInv, JobsFit
<1>2. /\ job' \in [Jobs -> JobState]
      /\ job'[j].at = "activate" /\ job'[j].op = job[j].op
      /\ job'[j].merchant = job[j].merchant /\ job'[j].holds = job[j].holds
      /\ \A i \in Jobs \ {j} : job'[i] = job[i]
    BY <1>1, ContinueIs DEF ProvisioningInv, JobStages, Making, Undoing
<1>3. job[j].merchant \in Merchants
    BY <1>1, Alone
<1>4. JobFits(j)'
    BY <1>1, <1>2, <1>3 DEF CreateWorkflow, JobFits, Undoing, n8nVars, MerchantOf
<1> QED
    BY <1>1, <1>2, <1>3, <1>4, JobGoesOn
    DEF CreateWorkflow, ProvisioningInv, ProvisioningTypeOK, n8nVars, MerchantOf

LEMMA ActivateInv ==
    ASSUME ProvisioningInv, NEW j \in Jobs, Activate(j)
    PROVE  ProvisioningInv'
<1>1. job[j].at = "activate" /\ Continue(j, "link") /\ JobFits(j)
    BY DEF Activate, JobAt, ProvisioningInv, JobsFit
<1>2. /\ job' \in [Jobs -> JobState]
      /\ job'[j].at = "link" /\ job'[j].op = job[j].op
      /\ job'[j].merchant = job[j].merchant /\ job'[j].holds = job[j].holds
      /\ \A i \in Jobs \ {j} : job'[i] = job[i]
    BY <1>1, ContinueIs DEF ProvisioningInv, JobStages, Making, Undoing
<1>3. job[j].merchant \in Merchants
    BY <1>1, Alone
<1>4. JobFits(j)'
    BY <1>1, <1>2, <1>3 DEF Activate, JobFits, Undoing, n8nVars, MerchantOf
<1>5. active' \subseteq workflows'
    BY <1>1 DEF Activate, JobFits, ProvisioningInv, ProvisioningTypeOK
<1> QED
    BY <1>1, <1>2, <1>3, <1>4, <1>5, JobGoesOn
    DEF Activate, ProvisioningInv, ProvisioningTypeOK, n8nVars, MerchantOf

LEMMA CreateStorefrontInv ==
    ASSUME ProvisioningInv, NEW j \in Jobs, CreateStorefront(j)
    PROVE  ProvisioningInv'
<1>1. job[j].at = "storefront" /\ Continue(j, "done") /\ JobFits(j)
    BY DEF CreateStorefront, JobAt, ProvisioningInv, JobsFit
<1>2. /\ job' \in [Jobs -> JobState]
      /\ job'[j].at = "done" /\ job'[j].op = job[j].op
      /\ job'[j].merchant = job[j].merchant /\ job'[j].holds = job[j].holds
      /\ \A i \in Jobs \ {j} : job'[i] = job[i]
    BY <1>1, ContinueIs DEF ProvisioningInv, JobStages, Making, Undoing
<1>3. job[j].merchant \in Merchants
    BY <1>1, Alone
<1>4. JobFits(j)'
    BY <1>1, <1>2, <1>3 DEF CreateStorefront, JobFits, Undoing, n8nVars, MerchantOf
<1> QED
    BY <1>1, <1>2, <1>3, <1>4, JobGoesOn
    DEF CreateStorefront, ProvisioningInv, ProvisioningTypeOK, n8nVars, MerchantOf

LEMMA DeactivateInv ==
    ASSUME ProvisioningInv, NEW j \in Jobs, Deactivate(j)
    PROVE  ProvisioningInv'
<1>1. job[j].at = "deactivate" /\ Continue(j, "delete") /\ JobFits(j)
    BY DEF Deactivate, JobAt, ProvisioningInv, JobsFit
<1>2. /\ job' \in [Jobs -> JobState]
      /\ job'[j].at = "delete" /\ job'[j].op = job[j].op
      /\ job'[j].merchant = job[j].merchant /\ job'[j].holds = job[j].holds
      /\ \A i \in Jobs \ {j} : job'[i] = job[i]
    BY <1>1, ContinueIs DEF ProvisioningInv, JobStages, Making, Undoing
<1>3. job[j].merchant \in Merchants
    BY <1>1, Alone
<1>4. JobFits(j)'
    BY <1>1, <1>2, <1>3 DEF Deactivate, JobFits, Undoing, n8nVars, MerchantOf
<1> QED
    BY <1>1, <1>2, <1>3, <1>4, JobGoesOn
    DEF Deactivate, ProvisioningInv, ProvisioningTypeOK, n8nVars, MerchantOf

LEMMA DeleteWorkflowInv ==
    ASSUME ProvisioningInv, NEW j \in Jobs, DeleteWorkflow(j)
    PROVE  ProvisioningInv'
<1>1. job[j].at = "delete" /\ Continue(j, "remove") /\ JobFits(j)
    BY DEF DeleteWorkflow, JobAt, ProvisioningInv, JobsFit
<1>2. /\ job' \in [Jobs -> JobState]
      /\ job'[j].at = "remove" /\ job'[j].op = job[j].op
      /\ job'[j].merchant = job[j].merchant /\ job'[j].holds = job[j].holds
      /\ \A i \in Jobs \ {j} : job'[i] = job[i]
    BY <1>1, ContinueIs DEF ProvisioningInv, JobStages, Making, Undoing
<1>3. job[j].merchant \in Merchants
    BY <1>1, Alone
<1>4. JobFits(j)'
    BY <1>1, <1>2, <1>3 DEF DeleteWorkflow, JobFits, Undoing, n8nVars, MerchantOf
<1> QED
    BY <1>1, <1>2, <1>3, <1>4, JobGoesOn
    DEF DeleteWorkflow, ProvisioningInv, ProvisioningTypeOK, n8nVars, MerchantOf

LEMMA RemoveMerchantInv ==
    ASSUME ProvisioningInv, NEW j \in Jobs, RemoveMerchant(j)
    PROVE  ProvisioningInv'
<1>1. job[j].at = "remove" /\ Continue(j, "failed") /\ JobFits(j)
    BY DEF RemoveMerchant, JobAt, ProvisioningInv, JobsFit
<1>2. /\ job' \in [Jobs -> JobState]
      /\ job'[j].at = "failed" /\ job'[j].op = job[j].op
      /\ job'[j].merchant = job[j].merchant /\ job'[j].holds = job[j].holds
      /\ \A i \in Jobs \ {j} : job'[i] = job[i]
    BY <1>1, ContinueIs DEF ProvisioningInv, JobStages, Making, Undoing
<1>3. job[j].merchant \in Merchants
    BY <1>1, Alone
<1>4. JobFits(j)'
    BY <1>1, <1>2, <1>3 DEF RemoveMerchant, JobFits, Undoing, n8nVars, MerchantOf
<1> QED
    BY <1>1, <1>2, <1>3, <1>4, JobGoesOn
    DEF RemoveMerchant, ProvisioningInv, ProvisioningTypeOK, n8nVars, MerchantOf

LEMMA LinkWorkflowInv ==
    ASSUME ProvisioningInv, NEW j \in Jobs, LinkWorkflow(j)
    PROVE  ProvisioningInv'
<1> DEFINE m == job[j].merchant
<1>1. job[j].at = "link" /\ JobFits(j) /\ m \in Merchants /\ j \in workflows /\ ~job[j].holds
    BY Alone DEF LinkWorkflow, JobAt, ProvisioningInv, JobsFit, JobFits
<1>2. CASE m \in merchants
  <2>1. Continue(j, "history") /\ workflowId' = [workflowId EXCEPT ![m] = j] /\ stray' = stray
    BY <1>2 DEF LinkWorkflow, MerchantOf
  <2>2. /\ job' \in [Jobs -> JobState]
        /\ job'[j].at = "history" /\ job'[j].op = job[j].op
        /\ job'[j].merchant = m /\ job'[j].holds = job[j].holds
        /\ \A i \in Jobs \ {j} : job'[i] = job[i]
    BY <2>1, ContinueIs DEF ProvisioningInv, JobStages, Making, Undoing
  <2>3. /\ workflowId' \in [Merchants -> Jobs \cup {NoWorkflow}] /\ workflowId'[m] = j
        /\ \A k \in Merchants \ {m} : workflowId'[k] = workflowId[k]
    BY <1>1, <2>1 DEF ProvisioningInv, ProvisioningTypeOK
  <2>4. JobFits(j)'
    BY <1>1, <2>1, <2>2, <2>3 DEF LinkWorkflow, JobFits, Undoing, n8nVars
  <2> QED
    BY <1>1, <2>1, <2>2, <2>3, <2>4, JobGoesOn
    DEF LinkWorkflow, ProvisioningInv, ProvisioningTypeOK, n8nVars
<1>3. CASE m \notin merchants
  <2>1. Continue(j, OnError(j)) /\ workflowId' = workflowId /\ stray' = stray \cup {j}
    BY <1>1, <1>3 DEF LinkWorkflow, MerchantOf, Orphan
  <2>2. OnError(j) = IF job[j].op = "admin" THEN "failed" ELSE "remove"
    BY <1>1 DEF OnError
  <2>3. OnError(j) \in JobStages
    BY <2>2 DEF JobStages, Making, Undoing
  <2>4. /\ job' \in [Jobs -> JobState]
        /\ job'[j].at = OnError(j) /\ job'[j].op = job[j].op
        /\ job'[j].merchant = m /\ job'[j].holds = job[j].holds
        /\ \A i \in Jobs \ {j} : job'[i] = job[i]
    BY <2>1, <2>3, ContinueIs DEF ProvisioningInv
  <2>5. job[j].op \in {"create", "admin"}
    BY <1>1 DEF JobFits, ProvisioningInv, ProvisioningTypeOK, JobState
  <2>6. JobFits(j)'
    BY <1>1, <2>1, <2>2, <2>4, <2>5 DEF LinkWorkflow, JobFits, Undoing, n8nVars
  <2> QED
    BY <1>1, <2>1, <2>4, <2>6, JobGoesOn
    DEF LinkWorkflow, ProvisioningInv, ProvisioningTypeOK, n8nVars
<1> QED BY <1>2, <1>3

LEMMA StoreHistoryInv ==
    ASSUME ProvisioningInv, NEW j \in Jobs, StoreHistory(j)
    PROVE  ProvisioningInv'
<1> DEFINE at == IF job[j].op = "admin" THEN "done" ELSE "save"
           r  == [job[j] EXCEPT !.at = at, !.holds = TRUE]
<1>1. job[j].at = "history" /\ JobFits(j) /\ job[j] \in JobState
    BY DEF StoreHistory, JobAt, ProvisioningInv, JobsFit, ProvisioningTypeOK
<1>2. at \in {"done", "save"} /\ job[j].op \in {"create", "admin"}
    BY <1>1 DEF JobFits, JobState
<1>3. /\ r \in JobState /\ r.at = at /\ r.op = job[j].op /\ r.merchant = job[j].merchant
      /\ r.holds = TRUE
    BY <1>1, <1>2 DEF JobState, Making
<1>4. job' = [job EXCEPT ![j] = r]
    BY DEF StoreHistory
<1>5. at = "save" <=> job[j].op = "create"
    BY <1>2
<1> HIDE DEF r, at
<1>6. /\ job' \in [Jobs -> JobState] /\ job'[j] = r
      /\ \A i \in Jobs \ {j} : job'[i] = job[i]
    BY <1>3, <1>4 DEF ProvisioningInv, ProvisioningTypeOK
<1>7. job[j].merchant \in Merchants
    BY <1>1, Alone
<1>8. JobFits(j)'
  <2>1. job'[j].op = "admin" => job'[j].merchant \in rivals
    BY <1>1, <1>3, <1>6 DEF JobFits
  <2> QED BY <1>1, <1>2, <1>3, <1>5, <1>6, <1>7, <2>1 DEF StoreHistory, JobFits, Undoing, n8nVars
<1> QED
    BY <1>1, <1>3, <1>6, <1>7, <1>8, JobGoesOn
    DEF StoreHistory, ProvisioningInv, ProvisioningTypeOK, n8nVars

LEMMA SaveMerchantInv ==
    ASSUME ProvisioningInv, NEW j \in Jobs, SaveMerchant(j)
    PROVE  ProvisioningInv'
<1> DEFINE m == job[j].merchant
<1>1. /\ job[j].at = "save" /\ JobFits(j) /\ m \in Merchants /\ j \in workflows
      /\ job[j].holds /\ job[j].op = "create"
    BY Alone DEF SaveMerchant, JobAt, ProvisioningInv, JobsFit, JobFits
<1>2. CASE m \in merchants
  <2>1. Continue(j, "storefront") /\ workflowId' = [workflowId EXCEPT ![m] = j]
    BY <1>2 DEF SaveMerchant, MerchantOf
  <2>2. /\ job' \in [Jobs -> JobState]
        /\ job'[j].at = "storefront" /\ job'[j].op = job[j].op
        /\ job'[j].merchant = m /\ job'[j].holds = job[j].holds
        /\ \A i \in Jobs \ {j} : job'[i] = job[i]
    BY <2>1, ContinueIs DEF ProvisioningInv, JobStages, Making, Undoing
  <2>3. /\ workflowId' \in [Merchants -> Jobs \cup {NoWorkflow}] /\ workflowId'[m] = j
        /\ \A k \in Merchants \ {m} : workflowId'[k] = workflowId[k]
    BY <1>1, <2>1 DEF ProvisioningInv, ProvisioningTypeOK
  <2>4. JobFits(j)'
    BY <1>1, <2>1, <2>2, <2>3 DEF SaveMerchant, JobFits, Undoing, n8nVars
  <2> QED
    BY <1>1, <2>1, <2>2, <2>3, <2>4, JobGoesOn
    DEF SaveMerchant, ProvisioningInv, ProvisioningTypeOK, n8nVars
<1>3. CASE m \notin merchants
  <2>1. Continue(j, "deactivate") /\ workflowId' = workflowId
    BY <1>1, <1>3 DEF SaveMerchant, MerchantOf, OnError
  <2>2. /\ job' \in [Jobs -> JobState]
        /\ job'[j].at = "deactivate" /\ job'[j].op = job[j].op
        /\ job'[j].merchant = m /\ job'[j].holds = job[j].holds
        /\ \A i \in Jobs \ {j} : job'[i] = job[i]
    BY <2>1, ContinueIs DEF ProvisioningInv, JobStages, Making, Undoing
  <2>3. JobFits(j)'
    BY <1>1, <2>1, <2>2 DEF SaveMerchant, JobFits, Undoing, n8nVars
  <2> QED
    BY <1>1, <2>1, <2>2, <2>3, JobGoesOn
    DEF SaveMerchant, ProvisioningInv, ProvisioningTypeOK, n8nVars
<1> QED BY <1>2, <1>3

LEMMA MakingFailsInv ==
    ASSUME ProvisioningInv, NEW j \in Jobs, MakingFails(j)
    PROVE  ProvisioningInv'
<1> DEFINE m == job[j].merchant
<1>1. /\ job[j].at \in {"workflow", "link", "history", "save", "storefront"} /\ JobFits(j)
      /\ m \in Merchants /\ job[j].op \in {"create", "admin"}
    BY Alone DEF MakingFails, ProvisioningInv, JobsFit, JobFits, ProvisioningTypeOK, JobState
<1>2. PICK slow \in SUBSET {j} :
        /\ job[j].at = "workflow" \/ slow = {}
        /\ workflows' = workflows \cup slow
        /\ stray' = stray \cup Orphan(j, workflows \cup slow)
    BY DEF MakingFails, JobAt
<1>3. /\ OnError(j) = IF job[j].op = "admin" THEN "failed"
                      ELSE IF job[j].holds THEN "deactivate" ELSE "remove"
      /\ OnError(j) \in JobStages
    BY DEF OnError, JobStages, Making, Undoing
<1>4. /\ job' \in [Jobs -> JobState]
      /\ job'[j].at = OnError(j) /\ job'[j].op = job[j].op
      /\ job'[j].merchant = m /\ job'[j].holds = job[j].holds
      /\ \A i \in Jobs \ {j} : job'[i] = job[i]
    BY <1>3, ContinueIs DEF MakingFails, ProvisioningInv
<1>5. /\ j \in workflows' /\ ~job[j].holds => j \in stray'
      /\ stray \subseteq stray' /\ stray' \subseteq Jobs \cup Merchants
    BY <1>2 DEF Orphan, ProvisioningInv, ProvisioningTypeOK
<1>6. /\ job[j].holds => j \in workflows'
      /\ job[j].at = "workflow" \/ workflows' = workflows
      /\ \A i \in Jobs \ {j} : i \in workflows' <=> i \in workflows
      /\ workflows' \subseteq Jobs /\ active' \subseteq workflows'
    BY <1>1, <1>2 DEF MakingFails, JobFits, ProvisioningInv, ProvisioningTypeOK
<1>7. JobFits(j)'
    BY <1>1, <1>3, <1>4, <1>5, <1>6 DEF MakingFails, JobFits, Undoing
<1>8. errors' \in 0..MaxErrors
    BY ErrorsAssumption DEF MakingFails, ProvisioningInv, ProvisioningTypeOK
<1> QED
    BY <1>1, <1>4, <1>5, <1>6, <1>7, <1>8, JobGoesOn
    DEF MakingFails, ProvisioningInv, ProvisioningTypeOK

LEMMA UndoingFailsInv ==
    ASSUME ProvisioningInv, NEW j \in Jobs, UndoingFails(j)
    PROVE  ProvisioningInv'
<1> DEFINE m == job[j].merchant
<1>1. job[j].at \in {"delete", "remove"} /\ JobFits(j) /\ m \in Merchants
    BY Alone DEF UndoingFails, JobAt, ProvisioningInv, JobsFit
<1>2. errors' \in 0..MaxErrors
    BY ErrorsAssumption DEF UndoingFails, ProvisioningInv, ProvisioningTypeOK
<1>3. PICK at \in {"remove", "failed"} :
        /\ Continue(j, at)
        /\ \/ job[j].at = "delete" /\ at = "remove" /\ stray' = stray \cup {j}
           \/ job[j].at = "remove" /\ at = "failed" /\ stray' = stray \cup {m}
    BY DEF UndoingFails, JobAt, MerchantOf
<1>4. /\ job' \in [Jobs -> JobState]
      /\ job'[j].at = at /\ job'[j].op = job[j].op
      /\ job'[j].merchant = m /\ job'[j].holds = job[j].holds
      /\ \A i \in Jobs \ {j} : job'[i] = job[i]
    BY <1>3, ContinueIs DEF ProvisioningInv, JobStages, Undoing
<1>5. /\ \A i \in Jobs \ {j} : i \in workflows' <=> i \in workflows
      /\ workflows' \subseteq workflows /\ active' \subseteq workflows'
  <2>1. \/ UNCHANGED <<workflows, active>>
        \/ \E slow \in SUBSET {j} : workflows' = workflows \ slow /\ active' = active \ slow
    BY DEF UndoingFails, n8nVars
  <2> QED BY <2>1 DEF ProvisioningInv, ProvisioningTypeOK
<1>6. JobFits(j)'
    BY <1>1, <1>3, <1>4, <1>5 DEF UndoingFails, JobFits, Undoing
<1>7. stray \subseteq stray' /\ stray' \subseteq Jobs \cup Merchants
    BY <1>1, <1>3 DEF ProvisioningInv, ProvisioningTypeOK
<1> QED
    BY <1>1, <1>2, <1>4, <1>5, <1>6, <1>7, JobGoesOn
    DEF UndoingFails, ProvisioningInv, ProvisioningTypeOK

\* A job begins, for a new merchant or for one that another job has made.
LEMMA BeginJobInv ==
    ASSUME ProvisioningInv, NEW j \in Jobs, NEW m \in Merchants,
           CreateMerchant(j, m) \/ AdminCreate(j, m)
    PROVE  ProvisioningInv'
<1>1. PICK o \in {"create", "admin"} :
        /\ BeginJob(j, o, m)
        /\ o = "create" => \A i \in Jobs : MerchantOf(i) # m
        /\ o = "admin" => m \in merchants
        /\ merchants' = merchants \cup {m}
    BY DEF CreateMerchant, AdminCreate
<1>2. UNCHANGED <<workflowId, workflows, active, storefronts, removed, stray, errors>>
    BY DEF CreateMerchant, AdminCreate, n8nVars
<1> DEFINE r == [job[j] EXCEPT !.op = o, !.merchant = m, !.at = "workflow"]
<1>3. /\ job[j].at = "idle" /\ job[j].merchant = NoMerchant /\ JobFits(j) /\ job[j] \in JobState
      /\ m # NoMerchant
    BY <1>1, NamesAssumption
    DEF BeginJob, JobAt, ProvisioningInv, JobsFit, JobFits, ProvisioningTypeOK
<1>4. r \in JobState /\ r.op = o /\ r.merchant = m /\ r.at = "workflow" /\ r.holds = job[j].holds
    BY <1>3 DEF JobState, Making
<1>5. job' = [job EXCEPT ![j] = r]
    BY <1>1 DEF BeginJob
<1> HIDE DEF r
<1>6. /\ job' \in [Jobs -> JobState] /\ job'[j] = r
      /\ \A i \in Jobs \ {j} : job'[i] = job[i]
    BY <1>4, <1>5 DEF ProvisioningInv, ProvisioningTypeOK
<1>7. /\ rivals \subseteq rivals' /\ rivals' \subseteq rivals \cup {m}
      /\ \A i \in Jobs : MerchantOf(i) = m => m \in rivals'
      /\ o = "admin" => m \in rivals'
  <2>1. o = "admin" => \E i \in Jobs : MerchantOf(i) = m
    BY <1>1 DEF ProvisioningInv, JobsMeet
  <2> QED BY <1>1, <2>1 DEF BeginJob
<1>8. ProvisioningTypeOK'
    BY <1>1, <1>2, <1>6, <1>7 DEF ProvisioningInv, ProvisioningTypeOK
<1>9. JobsFit'
  <2>1. SUFFICES ASSUME NEW i \in Jobs PROVE JobFits(i)'
    BY DEF JobsFit
  <2>2. CASE i = j
    BY <1>1, <1>2, <1>3, <1>4, <1>6, <1>7, <2>2 DEF JobFits, Undoing
  <2>3. CASE i # j
    <3>1. JobFits(i) /\ job'[i] = job[i]
      BY <1>6, <2>3 DEF ProvisioningInv, JobsFit
    <3>2. job[i].merchant \notin rivals' => job[i].merchant \notin rivals /\ job[i].merchant # m
      BY <1>7 DEF MerchantOf
    <3> QED BY <1>1, <1>2, <1>7, <3>1, <3>2 DEF JobFits
  <2> QED BY <2>2, <2>3
<1>10. JobsMeet'
  <2>1. ASSUME NEW i \in Jobs, NEW k \in Jobs, i # k,
               job'[i].merchant = job'[k].merchant, job'[i].merchant # NoMerchant
        PROVE  job'[i].merchant \in rivals'
    <3>1. CASE i = j \/ k = j
      BY <1>4, <1>6, <1>7, <2>1, <3>1 DEF MerchantOf
    <3>2. CASE i # j /\ k # j
      BY <1>6, <1>7, <2>1, <3>2 DEF ProvisioningInv, JobsMeet, MerchantOf
    <3> QED BY <3>1, <3>2
  <2>2. ASSUME NEW n \in merchants' PROVE \E i \in Jobs : job'[i].merchant = n
    <3>1. CASE n = m
      BY <1>4, <1>6, <3>1
    <3>2. CASE n # m
      <4>1. PICK i \in Jobs : job[i].merchant = n
        BY <1>1, <2>2, <3>2 DEF ProvisioningInv, JobsMeet, MerchantOf
      <4>2. n # NoMerchant
        BY <1>8, <2>2, NamesAssumption DEF ProvisioningTypeOK
      <4> QED BY <1>3, <1>6, <4>1, <4>2
    <3> QED BY <3>1, <3>2
  <2> QED BY <2>1, <2>2 DEF JobsMeet, MerchantOf
<1> QED BY <1>8, <1>9, <1>10 DEF ProvisioningInv

LEMMA RemoveOrPurgeInv ==
    ASSUME ProvisioningInv, NEW m \in Merchants, RemoveOrPurge(m)
    PROVE  ProvisioningInv'
<1>1. /\ merchants' = merchants \ {m} /\ removed' = removed \cup {m}
      /\ UNCHANGED <<workflowId, workflows, active, storefronts, job, rivals, stray, errors>>
    BY DEF RemoveOrPurge, n8nVars
<1>2. ProvisioningTypeOK' /\ JobsMeet'
    BY <1>1 DEF ProvisioningInv, ProvisioningTypeOK, JobsMeet, MerchantOf
<1>3. JobsFit'
    BY <1>1 DEF ProvisioningInv, JobsFit, JobFits
<1> QED BY <1>2, <1>3 DEF ProvisioningInv

-----------------------------------------------------------------------------
(* Provisioning: theorems *)

LEMMA ProvisioningSteps == ProvisioningInv /\ [ProvisioningNext]_provisioningVars => ProvisioningInv'
    BY ProvisioningRests, CreateWorkflowInv, ActivateInv, LinkWorkflowInv, StoreHistoryInv,
       SaveMerchantInv, CreateStorefrontInv, MakingFailsInv, DeactivateInv, DeleteWorkflowInv,
       RemoveMerchantInv, UndoingFailsInv, BeginJobInv, RemoveOrPurgeInv
    DEF ProvisioningNext

\* The inductive invariant holds of every run, and with it every variable keeps its type.
THEOREM ProvisioningHolds == ProvisioningSpec => []ProvisioningInv
<1> QED BY ProvisioningStarts, ProvisioningSteps, PTL DEF ProvisioningSpec

THEOREM ProvisioningTypes == ProvisioningSpec => []ProvisioningTypeOK
<1>1. ProvisioningInv => ProvisioningTypeOK
    BY DEF ProvisioningInv
<1> QED BY <1>1, ProvisioningHolds, PTL

\* Whatever create, its rollback and createForMerchant run into, n8n, MongoDB and the
\* storefronts agree on who is there, but for what an error left or jobs that met.
THEOREM ProvisioningAgrees == ProvisioningSpec => []MerchantsMatchWorkflows
<1>1. ASSUME ProvisioningInv, NEW j \in Jobs, Over(j)
      PROVE  /\ JobFits(j) /\ job[j].merchant \in Merchants
             /\ job[j].op \in {"create", "admin"}
    BY <1>1, Alone
    DEF Over, ProvisioningInv, JobsFit, JobFits, ProvisioningTypeOK, JobState
<1>2. ProvisioningInv => WorkflowHasItsMerchant
  <2>1. ASSUME ProvisioningInv, NEW j \in workflows, Over(j)
        PROVE  \/ MerchantOf(j) \in merchants /\ workflowId[MerchantOf(j)] = j
               \/ MerchantOf(j) \in removed \cup rivals
               \/ j \in stray
    <3>1. j \in Jobs
      BY <2>1 DEF ProvisioningInv, ProvisioningTypeOK
    <3> QED BY <1>1, <2>1, <3>1 DEF Over, JobFits, MerchantOf
  <2> QED BY <2>1 DEF WorkflowHasItsMerchant
<1>3. ProvisioningInv => MerchantIsWhole
  <2>1. ASSUME ProvisioningInv, NEW j \in Jobs, job[j].op = "create", Over(j),
               job[j].merchant \in merchants
        PROVE  \/ job[j].merchant \in storefronts /\ workflowId[job[j].merchant] \in workflows
               \/ job[j].merchant \in stray \cup rivals
    BY <1>1, <2>1 DEF Over, JobFits
  <2> QED BY <2>1 DEF MerchantIsWhole, MerchantOf
<1>4. ProvisioningInv => MerchantsMatchWorkflows
    BY <1>2, <1>3 DEF MerchantsMatchWorkflows
<1> QED BY <1>4, ProvisioningHolds, PTL
-----------------------------------------------------------------------------
(* WorkflowVersions: the inductive invariant *)

\* Numbers never run ahead of the entries, so that the bound of the one bounds the other.
NumbersFit ==
    /\ Len(history) <= MaxVersions
    /\ \A k \in DOMAIN history : history[k].version <= Len(history)
    /\ \A c \in Changes :
          /\ change[c].version <= Len(history) + 1
          /\ change[c].at \in {"patch", "store"} => change[c].version >= 1

\* A call that is alone has nobody beside it.
AloneIsAlone ==
    \A c \in Changes : change[c].alone =>
        change[c].at # "idle" /\ \A d \in Changes \ {c} : change[d].at = "idle"

\* The newest version is one entry, and n8n runs it.
NewestRuns ==
    \A e \in Entries : IsNewest(e) =>
        /\ e.json = running
        /\ Cardinality({k \in DOMAIN history : history[k].version = e.version}) = 1

\* n8n runs what the call about to store it has patched, unless calls met; one call at
\* most is there; and with none there, n8n runs the newest version.
PatchIsStored ==
    /\ \A c \in Changes :
          change[c].at = "store" /\ (change[c].alone \/ ~diverged) => running = change[c].json
    /\ ~diverged =>
          /\ \A c, d \in Changes : change[c].at = "store" /\ change[d].at = "store" => c = d
          /\ (\A c \in Changes : change[c].at # "store") => NewestRuns

VersionsInv ==
    /\ VersionsTypeOK
    /\ NumbersFit
    /\ AloneIsAlone
    /\ PatchIsStored

-----------------------------------------------------------------------------
(* WorkflowVersions: steps *)

\* A sequence, and one with an element more.
LEMMA ShortSequences ==
    ASSUME NEW S, NEW x \in S
    PROVE  <<>> \in Seq(S) /\ <<x>> \in Seq(S)
    OBVIOUS

\* Call c goes on as r, alone if it was so before, or ends.
LEMMA ChangeGoesOn ==
    ASSUME VersionsInv, NEW c \in Changes, change[c].at # "idle", NEW r \in ChangeState,
           change' = [change EXCEPT ![c] = r],
           r.alone => r.at # "idle" /\ change[c].alone
    PROVE  /\ change' \in [Changes -> ChangeState] /\ change'[c] = r
           /\ \A d \in Changes \ {c} : change'[d] = change[d]
           /\ AloneIsAlone'
<1>1. /\ change' \in [Changes -> ChangeState] /\ change'[c] = r
      /\ \A d \in Changes \ {c} : change'[d] = change[d]
    BY DEF VersionsInv, VersionsTypeOK
<1>2. ASSUME NEW d \in Changes, change'[d].alone
      PROVE  change'[d].at # "idle" /\ \A x \in Changes \ {d} : change'[x].at = "idle"
  <2>1. CASE d = c
    BY <1>1, <1>2, <2>1 DEF VersionsInv, AloneIsAlone
  <2>2. CASE d # c
    BY <1>1, <1>2, <2>2 DEF VersionsInv, AloneIsAlone
  <2> QED BY <2>1, <2>2
<1> QED BY <1>1, <1>2 DEF AloneIsAlone

\* Nothing but the calls has changed, and none has come to store.
LEMMA NothingStored ==
    ASSUME VersionsInv, UNCHANGED <<running, history, diverged>>,
           \A d \in Changes :
              /\ change'[d].at = "store" => change[d].at = "store"
              /\ change[d].at = "store" => change'[d].at = "store"
              /\ change'[d].at = "store" /\ change'[d].alone => change[d].alone
              /\ change'[d].at = "store" => change'[d].json = change[d].json
    PROVE  PatchIsStored'
<1>1. NewestRuns => NewestRuns'
  <2>1. Entries' = Entries
    BY DEF Entries
  <2> QED BY <2>1 DEF NewestRuns, IsNewest
<1> QED BY <1>1 DEF VersionsInv, PatchIsStored

LEMMA EntryFits ==
    ASSUME VersionsInv, NEW e \in Entries
    PROVE  e.json \in Definitions /\ e.version \in 1..Len(history)
<1>1. history \in Seq([version : 1..MaxVersions + 1, json : Definitions]) /\ Len(history) \in Nat
    BY DEF VersionsInv, VersionsTypeOK
<1>2. PICK k \in DOMAIN history : e = history[k]
    BY DEF Entries
<1>3. e \in [version : 1..MaxVersions + 1, json : Definitions]
    BY <1>1, <1>2, SequenceIs
<1> QED BY <1>1, <1>2, <1>3, VersionBounds DEF VersionsInv, NumbersFit

LEMMA BeginChangeInv ==
    ASSUME VersionsInv, NEW c \in Changes, NEW o \in {"update", "rollback"},
           NEW at \in {"number", "patch"}, NEW j \in Definitions, NEW v \in 0..MaxVersions + 1,
           BeginChange(c, o, at, j, v), UNCHANGED <<running, history, diverged, outages>>,
           v <= Len(history) + 1, at = "patch" => v >= 1
    PROVE  VersionsInv'
<1> DEFINE r == [op |-> o, at |-> at, json |-> j, version |-> v, alone |-> UnderWay = {}]
<1>1. change[c].at = "idle" /\ change \in [Changes -> ChangeState]
    BY DEF BeginChange, VersionsInv, VersionsTypeOK
<1>2. r \in ChangeState
    BY VersionBounds DEF ChangeState
<1>3. \A d \in Changes :
        LET q == [change[d] EXCEPT !.alone = FALSE]
        IN  /\ q \in ChangeState /\ q.at = change[d].at /\ q.json = change[d].json
            /\ q.version = change[d].version /\ ~q.alone
    BY <1>1 DEF ChangeState
<1>4. change' = [d \in Changes |-> IF d = c THEN r ELSE [change[d] EXCEPT !.alone = FALSE]]
    BY DEF BeginChange
<1>5. /\ change' \in [Changes -> ChangeState] /\ change'[c] = r
      /\ \A d \in Changes \ {c} :
            /\ change'[d].at = change[d].at /\ change'[d].json = change[d].json
            /\ change'[d].version = change[d].version /\ ~change'[d].alone
    BY <1>1, <1>2, <1>3, <1>4
<1>6. r.alone => \A d \in Changes : change[d].at = "idle"
    BY DEF UnderWay
<1>7. VersionsTypeOK'
    BY <1>5 DEF VersionsInv, VersionsTypeOK
<1>8. NumbersFit'
    BY <1>5 DEF VersionsInv, NumbersFit
<1>9. AloneIsAlone'
    BY <1>5, <1>6 DEF AloneIsAlone
<1>10. PatchIsStored'
  <2>1. ASSUME NEW d \in Changes
        PROVE  /\ change'[d].at = "store" <=> change[d].at = "store"
               /\ change'[d].at = "store" => ~change'[d].alone /\ change'[d].json = change[d].json
    BY <1>1, <1>5
  <2> QED BY <2>1, NothingStored
<1> QED BY <1>7, <1>8, <1>9, <1>10 DEF VersionsInv

LEMMA UpdateWorkflowInv ==
    ASSUME VersionsInv, NEW c \in Changes, NEW j \in Definitions, UpdateWorkflow(c, j)
    PROVE  VersionsInv'
<1>1. Len(history) \in Nat
    BY DEF VersionsInv, VersionsTypeOK
<1> QED BY <1>1, BeginChangeInv, VersionBounds DEF UpdateWorkflow

LEMMA RollbackWorkflowInv ==
    ASSUME VersionsInv, NEW c \in Changes, NEW v \in 1..MaxVersions, RollbackWorkflow(c, v)
    PROVE  VersionsInv'
<1>1. PICK e \in Entries : e.version = v /\ BeginChange(c, "rollback", "patch", e.json, v + 1)
    BY DEF RollbackWorkflow
<1>2. e.json \in Definitions /\ v \in 1..Len(history) /\ Len(history) \in Nat
    BY <1>1, EntryFits DEF VersionsInv, VersionsTypeOK
<1>3. v + 1 \in 0..MaxVersions + 1 /\ v + 1 <= Len(history) + 1 /\ v + 1 >= 1
    BY <1>2, VersionBounds
<1> QED BY <1>1, <1>2, <1>3, BeginChangeInv DEF RollbackWorkflow

LEMMA NextNumberInv ==
    ASSUME VersionsInv, NEW c \in Changes, NextNumber(c)
    PROVE  VersionsInv'
<1>1. /\ change[c].at = "number" /\ change[c] \in ChangeState /\ Len(history) \in Nat
      /\ Len(history) <= MaxVersions
    BY DEF NextNumber, VersionsInv, VersionsTypeOK, NumbersFit
<1>2. PICK v \in 1..Len(history) + 1 : change' = [change EXCEPT ![c] = Numbered(@, v)]
  <2>1. CASE history = <<>> /\ change' = [change EXCEPT ![c] = Numbered(@, 1)]
    <3>1. 1 \in 1..Len(history) + 1
      BY <1>1
    <3> QED BY <2>1, <3>1
  <2>2. ASSUME NEW e \in Entries, change' = [change EXCEPT ![c] = Numbered(@, e.version + 1)]
        PROVE  \E v \in 1..Len(history) + 1 : change' = [change EXCEPT ![c] = Numbered(@, v)]
    <3>1. e.version + 1 \in 1..Len(history) + 1
      BY <1>1, EntryFits
    <3> QED BY <2>2, <3>1
  <2> QED BY <2>1, <2>2 DEF NextNumber
<1>3. PICK r : r = Numbered(change[c], v)
    OBVIOUS
<1>4. /\ r \in ChangeState /\ r.at = "patch" /\ r.version = v /\ r.json = change[c].json
      /\ r.alone = change[c].alone
  <2>1. v \in 0..MaxVersions + 1
    BY <1>1, <1>2, VersionBounds
  <2> QED BY <1>1, <1>3, <2>1 DEF Numbered, ChangeState
<1>5. change' = [change EXCEPT ![c] = r]
    BY <1>2, <1>3
<1>6. /\ change' \in [Changes -> ChangeState] /\ change'[c] = r
      /\ \A d \in Changes \ {c} : change'[d] = change[d]
      /\ AloneIsAlone'
    BY <1>1, <1>4, <1>5, ChangeGoesOn
<1>7. UNCHANGED <<running, history, diverged, outages>>
    BY DEF NextNumber
<1>8. VersionsTypeOK' /\ NumbersFit'
    BY <1>1, <1>2, <1>4, <1>6, <1>7 DEF VersionsInv, VersionsTypeOK, NumbersFit
<1>9. PatchIsStored'
    BY <1>1, <1>4, <1>6, <1>7, NothingStored
<1> QED BY <1>6, <1>8, <1>9 DEF VersionsInv

LEMMA PatchInv ==
    ASSUME VersionsInv, NEW c \in Changes, Patch(c)
    PROVE  VersionsInv'
<1>1. /\ change[c].at = "patch" /\ change[c] \in ChangeState
      /\ change' = [change EXCEPT ![c] = [change[c] EXCEPT !.at = "store"]]
      /\ running' = change[c].json /\ diverged' = (diverged \/ ~change[c].alone)
      /\ UNCHANGED <<history, outages>>
    BY DEF Patch, StepTo, VersionsInv, VersionsTypeOK
<1>2. PICK r : r = [change[c] EXCEPT !.at = "store"]
    OBVIOUS
<1>3. /\ r \in ChangeState /\ r.at = "store" /\ r.version = change[c].version
      /\ r.json = change[c].json /\ r.alone = change[c].alone
    BY <1>1, <1>2 DEF ChangeState
<1>4. /\ change' \in [Changes -> ChangeState] /\ change'[c] = r
      /\ \A d \in Changes \ {c} : change'[d] = change[d]
      /\ AloneIsAlone'
    BY <1>1, <1>2, <1>3, ChangeGoesOn
<1>5. VersionsTypeOK' /\ NumbersFit'
    BY <1>1, <1>3, <1>4 DEF VersionsInv, VersionsTypeOK, NumbersFit, ChangeState
<1>6. PatchIsStored'
  <2>1. change[c].alone => \A d \in Changes \ {c} : change'[d].at = "idle"
    BY <1>4 DEF VersionsInv, AloneIsAlone
  <2>2. \A d \in Changes \ {c} : ~change'[d].alone
    BY <1>1, <1>4 DEF VersionsInv, AloneIsAlone
  <2> QED BY <1>1, <1>3, <1>4, <2>1, <2>2 DEF PatchIsStored
<1> QED BY <1>4, <1>5, <1>6 DEF VersionsInv

\* A new entry above all the others is the newest, and the only one of its number.
LEMMA NewestAppended ==
    ASSUME VersionsInv, NEW entry \in [version : 1..MaxVersions + 1, json : Definitions],
           history' = Append(history, entry),
           \A e \in Entries : e.version < entry.version,
           running' = entry.json
    PROVE  NewestRuns'
<1> DEFINE Entry == [version : 1..MaxVersions + 1, json : Definitions]
           n == Len(history)
<1>1. history \in Seq(Entry) /\ n \in Nat /\ DOMAIN history = 1..n
    BY SequenceIs DEF VersionsInv, VersionsTypeOK
<1>2. /\ DOMAIN history' = 1..n + 1 /\ history'[n + 1] = entry
      /\ \A k \in 1..n : history'[k] = history[k] /\ history[k].version < entry.version
      /\ \A k \in 1..n : history[k] \in Entry
  <2>1. \A k \in 1..n : history[k] \in Entry /\ history[k].version < entry.version
    BY <1>1, SequenceIs DEF Entries
  <2>2. /\ DOMAIN history' = 1..n + 1 /\ history'[n + 1] = entry
        /\ \A k \in 1..n : history'[k] = history[k]
    BY <1>1, AppendIs
  <2> QED BY <2>1, <2>2
<1>3. \A k \in DOMAIN history' : k # n + 1 => k \in 1..n
    BY <1>1, <1>2
<1>4. entry.version \in Nat /\ entry \in Entries'
  <2>1. n + 1 \in DOMAIN history'
    BY <1>1, <1>2
  <2>2. entry \in Entries'
    BY <1>2, <2>1 DEF Entries
  <2> QED BY <2>2, VersionBounds
<1>5. ASSUME NEW e \in Entries', IsNewest(e)'
      PROVE  e = entry
  <2>1. PICK k \in DOMAIN history' : e = history'[k]
    BY <1>5 DEF Entries
  <2>2. entry.version <= e.version
    BY <1>4, <1>5 DEF IsNewest
  <2>3. k \notin 1..n
    <3>1. SUFFICES ASSUME k \in 1..n PROVE FALSE
      OBVIOUS
    <3>2. e.version < entry.version /\ e.version \in Nat
      BY <1>2, <2>1, <3>1, VersionBounds
    <3> QED BY <1>4, <2>2, <3>2
  <2> QED BY <1>2, <1>3, <2>1, <2>3
<1>6. {k \in DOMAIN history' : history'[k].version = entry.version} = {n + 1}
  <2>1. ASSUME NEW k \in 1..n PROVE history'[k].version # entry.version
    <3>1. history'[k].version \in Nat /\ history'[k].version < entry.version
      BY <1>2, <2>1, VersionBounds
    <3> QED BY <1>4, <3>1
  <2> QED BY <1>1, <1>2, <1>3, <2>1
<1>7. Cardinality({n + 1}) = 1
    BY FS_Singleton
<1> QED BY <1>5, <1>6, <1>7 DEF NewestRuns

LEMMA StoreVersionInv ==
    ASSUME VersionsInv, NEW c \in Changes, StoreVersion(c)
    PROVE  VersionsInv'
<1> DEFINE Entry == [version : 1..MaxVersions + 1, json : Definitions]
<1>1. PICK entry : entry = [version |-> change[c].version, json |-> change[c].json]
    OBVIOUS
<1>2. /\ change[c].at = "store" /\ change[c] \in ChangeState /\ Len(history) \in Nat
      /\ history \in Seq(Entry) /\ Len(history) < MaxVersions
      /\ change[c].version >= 1 /\ change[c].version <= Len(history) + 1
    BY DEF StoreVersion, VersionsInv, VersionsTypeOK, NumbersFit
<1>3. entry \in Entry /\ entry.version = change[c].version /\ entry.json = change[c].json
    BY <1>1, <1>2 DEF ChangeState
<1>4. /\ history' = Append(history, entry) /\ UNCHANGED <<running, outages>>
      /\ diverged' = (~(\A e \in Entries : e.version < entry.version)
                      \/ (diverged /\ ~change[c].alone))
      /\ EndChange(c)
    BY <1>1 DEF StoreVersion
<1>5. PICK r : r = [op |-> "none", at |-> "idle", json |-> change[c].json, version |-> 0,
                    alone |-> FALSE]
    OBVIOUS
<1>6. r \in ChangeState /\ r.at = "idle" /\ ~r.alone /\ r.version = 0
    BY <1>2, <1>5, VersionBounds DEF ChangeState
<1>7. change' = [change EXCEPT ![c] = r]
    BY <1>4, <1>5 DEF EndChange
<1>8. /\ change' \in [Changes -> ChangeState] /\ change'[c] = r
      /\ \A d \in Changes \ {c} : change'[d] = change[d]
      /\ AloneIsAlone'
    BY <1>2, <1>6, <1>7, ChangeGoesOn
<1>9. /\ history' \in Seq(Entry) /\ Len(history') = Len(history) + 1
      /\ \A k \in DOMAIN history' :
            \/ k \in DOMAIN history /\ history'[k] = history[k]
            \/ history'[k] = entry
    BY <1>2, <1>3, <1>4
<1>10. diverged' \in BOOLEAN
    BY <1>4
<1>11. VersionsTypeOK'
    BY <1>4, <1>8, <1>9, <1>10 DEF VersionsInv, VersionsTypeOK
<1>12. NumbersFit'
  <2>1. ASSUME NEW k \in DOMAIN history' PROVE history'[k].version <= Len(history')
    <3>1. CASE k \in DOMAIN history /\ history'[k] = history[k]
      <4>1. history[k] \in Entry /\ history[k].version <= Len(history)
        BY <1>2, <3>1, SequenceIs DEF VersionsInv, NumbersFit
      <4> QED BY <1>2, <1>9, <3>1, <4>1, VersionBounds
    <3>2. CASE history'[k] = entry
      BY <1>2, <1>3, <1>9, <3>2
    <3> QED BY <1>9, <2>1, <3>1, <3>2
  <2>2. ASSUME NEW d \in Changes
        PROVE  /\ change'[d].version <= Len(history') + 1
               /\ change'[d].at \in {"patch", "store"} => change'[d].version >= 1
    <3>1. CASE d = c
      BY <1>2, <1>6, <1>8, <1>9, <3>1
    <3>2. CASE d # c
      <4>1. change[d].version \in Nat
        BY VersionBounds DEF VersionsInv, VersionsTypeOK, ChangeState
      <4> QED BY <1>2, <1>8, <1>9, <3>2, <4>1 DEF VersionsInv, NumbersFit
    <3> QED BY <3>1, <3>2
  <2> QED BY <1>2, <1>9, <2>1, <2>2, VersionBounds DEF NumbersFit
<1>13. PatchIsStored'
  <2>1. ~diverged' => (change[c].alone \/ ~diverged) /\ NewestRuns'
    <3>1. SUFFICES ASSUME ~diverged'
                   PROVE  (change[c].alone \/ ~diverged) /\ NewestRuns'
      OBVIOUS
    <3>2. (change[c].alone \/ ~diverged) /\ \A e \in Entries : e.version < entry.version
      BY <1>4, <3>1
    <3>3. running' = entry.json
      BY <1>2, <1>3, <1>4, <3>2 DEF VersionsInv, PatchIsStored
    <3> QED BY <1>3, <1>4, <3>2, <3>3, NewestAppended
  <2>2. ~diverged' => \A d \in Changes : change'[d].at # "store"
    BY <1>2, <1>6, <1>8, <2>1 DEF VersionsInv, PatchIsStored, AloneIsAlone
  <2>3. \A d \in Changes : ~change'[d].alone \/ change'[d].at # "store"
    BY <1>2, <1>6, <1>8 DEF VersionsInv, AloneIsAlone
  <2> QED BY <2>1, <2>2, <2>3 DEF PatchIsStored
<1> QED BY <1>8, <1>11, <1>12, <1>13 DEF VersionsInv

LEMMA VersionOutageInv ==
    ASSUME VersionsInv, NEW c \in Changes, Outage(c)
    PROVE  VersionsInv'
<1>1. /\ change[c].at # "idle" /\ change[c] \in ChangeState /\ EndChange(c)
      /\ diverged' = (diverged \/ change[c].at \in {"patch", "store"})
      /\ change[c].at # "patch" => running' = running
      /\ running' \in {running, change[c].json}
      /\ history' = history
    BY DEF Outage, UnderWay, VersionsInv, VersionsTypeOK
<1>2. outages' \in 0..MaxOutages
    BY VersionBounds DEF Outage, VersionsInv, VersionsTypeOK
<1>3. PICK r : r = [op |-> "none", at |-> "idle", json |-> change[c].json, version |-> 0,
                    alone |-> FALSE]
    OBVIOUS
<1>4. r \in ChangeState /\ r.at = "idle" /\ ~r.alone /\ r.version = 0
    BY <1>1, <1>3, VersionBounds DEF ChangeState
<1>5. change' = [change EXCEPT ![c] = r]
    BY <1>1, <1>3 DEF EndChange
<1>6. /\ change' \in [Changes -> ChangeState] /\ change'[c] = r
      /\ \A d \in Changes \ {c} : change'[d] = change[d]
      /\ AloneIsAlone'
    BY <1>1, <1>4, <1>5, ChangeGoesOn
<1>7. VersionsTypeOK'
    BY <1>1, <1>2, <1>6 DEF VersionsInv, VersionsTypeOK, ChangeState
<1>8. Len(history) \in Nat
    BY DEF VersionsInv, VersionsTypeOK
<1>9. NumbersFit'
    BY <1>1, <1>4, <1>6, <1>8 DEF VersionsInv, NumbersFit
<1>10. PatchIsStored'
  <2>1. CASE change[c].at = "number"
    <3>1. running' = running /\ diverged' = diverged
      BY <1>1, <2>1 DEF VersionsInv, VersionsTypeOK
    <3> QED BY <1>1, <1>4, <1>6, <2>1, <3>1, NothingStored
  <2>2. CASE change[c].at \in {"patch", "store"}
    <3>1. diverged'
      BY <1>1, <2>2
    <3>2. \A d \in Changes : ~change'[d].alone
      BY <1>1, <1>4, <1>6 DEF VersionsInv, AloneIsAlone
    <3> QED BY <3>1, <3>2 DEF PatchIsStored
  <2> QED BY <1>1, <2>1, <2>2 DEF ChangeState
<1> QED BY <1>6, <1>7, <1>9, <1>10 DEF VersionsInv

LEMMA VersionsStart == VersionsInit => VersionsInv
<1> SUFFICES ASSUME VersionsInit PROVE VersionsInv
    OBVIOUS
<1> DEFINE first == [version |-> 1, json |-> running]
<1>1. running \in Definitions /\ history \in {<<>>, <<first>>} /\ ~diverged /\ outages = 0
    BY DEF VersionsInit
<1>2. first \in [version : 1..MaxVersions + 1, json : Definitions]
    BY <1>1, VersionBounds
<1>3. /\ change \in [Changes -> ChangeState]
      /\ \A c \in Changes :
            change[c].at = "idle" /\ ~change[c].alone /\ change[c].version = 0
    BY <1>1, VersionBounds DEF VersionsInit, ChangeState
<1>4. VersionsTypeOK
  <2>1. history \in Seq([version : 1..MaxVersions + 1, json : Definitions])
    BY <1>1, <1>2, ShortSequences
  <2>2. diverged \in BOOLEAN
    BY DEF VersionsInit
  <2>3. outages \in 0..MaxOutages
    BY <1>1, VersionBounds
  <2> QED BY <1>1, <1>3, <2>1, <2>2, <2>3 DEF VersionsTypeOK
<1>5. \/ history = <<>> /\ Len(history) = 0 /\ DOMAIN history = {}
      \/ Len(history) = 1 /\ DOMAIN history = {1} /\ history[1] = first
    BY <1>1
<1>6. NumbersFit
  <2>1. \A k \in DOMAIN history : history[k].version <= Len(history)
    BY <1>5
  <2>2. Len(history) \in {0, 1} /\ Len(history) <= MaxVersions
    <3>1. Len(history) \in {0, 1}
      BY <1>5
    <3>2. MaxVersions \in Nat /\ MaxVersions >= 1
      BY VersionBounds
    <3> QED BY <3>1, <3>2
  <2>3. \A c \in Changes :
          /\ change[c].version <= Len(history) + 1
          /\ change[c].at \in {"patch", "store"} => change[c].version >= 1
    BY <1>3, <2>2
  <2> QED BY <2>1, <2>2, <2>3 DEF NumbersFit
<1>7. AloneIsAlone
    BY <1>3 DEF AloneIsAlone
<1>8. NewestRuns
  <2>1. CASE history = <<>>
    BY <2>1 DEF NewestRuns, Entries
  <2>2. CASE DOMAIN history = {1} /\ history[1] = first
    <3>1. \A e \in Entries : e = first
      BY <2>2 DEF Entries
    <3>2. {k \in DOMAIN history : history[k].version = first.version} = {1}
      BY <2>2
    <3>3. Cardinality({1}) = 1
      BY FS_Singleton
    <3> QED BY <3>1, <3>2, <3>3 DEF NewestRuns
  <2> QED BY <1>5, <2>1, <2>2
<1>9. PatchIsStored
    BY <1>1, <1>3, <1>8 DEF PatchIsStored
<1> QED BY <1>4, <1>6, <1>7, <1>9 DEF VersionsInv

LEMMA VersionsRest == VersionsInv /\ UNCHANGED versionVars => VersionsInv'
<1> SUFFICES ASSUME VersionsInv, UNCHANGED versionVars PROVE VersionsInv'
    OBVIOUS
<1> USE DEF versionVars
<1>1. VersionsTypeOK' /\ NumbersFit' /\ AloneIsAlone'
    BY DEF VersionsInv, VersionsTypeOK, NumbersFit, AloneIsAlone
<1>2. PatchIsStored'
    BY NothingStored
<1> QED BY <1>1, <1>2 DEF VersionsInv

-----------------------------------------------------------------------------
(* WorkflowVersions: theorems *)

LEMMA VersionsSteps == VersionsInv /\ [VersionsNext]_versionVars => VersionsInv'
    BY VersionsRest, UpdateWorkflowInv, RollbackWorkflowInv, NextNumberInv, PatchInv,
       StoreVersionInv, VersionOutageInv DEF VersionsNext

\* The inductive invariant holds of every run, and with it every variable keeps its type.
THEOREM VersionsHold == VersionsSpec => []VersionsInv
<1> QED BY VersionsStart, VersionsSteps, PTL DEF VersionsSpec

THEOREM VersionsTypes == VersionsSpec => []VersionsTypeOK
<1>1. VersionsInv => VersionsTypeOK
    BY DEF VersionsInv
<1> QED BY <1>1, VersionsHold, PTL

\* However updates and rollbacks of a workflow meet and fail, n8n runs the newest version
\* of the history, unless a patch was not recorded, calls met, or an older version was
\* taken up again.
THEOREM HistoryIsTrue == VersionsSpec => []NewestVersionRuns
<1>1. VersionsInv => NewestVersionRuns
  <2>1. SUFFICES ASSUME VersionsInv, UnderWay = {}, ~diverged PROVE NewestRuns
    BY DEF NewestVersionRuns, NewestRuns
  <2>2. \A c \in Changes : change[c].at # "store"
    BY <2>1 DEF UnderWay
  <2> QED BY <2>1, <2>2 DEF VersionsInv, PatchIsStored
<1> QED BY <1>1, VersionsHold, PTL

-----------------------------------------------------------------------------
(* ShopAddresses: the inductive invariant *)

\* A slug at which a storefront of m may stand.
Known(m, s) == s = address[m] \/ <<m, s>> \in left \cup picked

\* All changes of m's address have been handed on, and there was nothing amiss.
InStep(m) == There(m) /\ m \notin adrift /\ Unsynced(m) = {}

\* What call c knows of its merchant, and of his address, at each of its stages: a change
\* that met no other has his address, and so has the maker of his first widget, as long
\* as all changes have been handed on.
DealFits(c) ==
    LET at   == deal[c].at
        m    == deal[c].who
        slug == deal[c].slug
    IN  /\ at \notin {"idle", "done"} => m \in Sellers /\ address[m] # NotYet
        /\ at \in {"write", "sync", "put"} => slug \in Addresses
        /\ at \in {"look", "add"} => deal[c].op \in {"store", "widget"}
        /\ at \in {"test", "set"} => deal[c].nth \in DOMAIN stores[m]
        /\ at = "insert" => Known(m, slug)
        /\ at \in {"look", "add"} /\ deal[c].op = "store" => Known(m, slug)
        /\ at \in {"sync", "put"} /\ deal[c].alone /\ There(m) => slug = address[m]
        /\ at \in {"look", "add"} /\ deal[c].op = "widget" /\ InStep(m) /\ widgets[m] = <<>>
              => slug = address[m]

\* What carries m's address, and that nothing does before he comes.
CopiesFit(m) ==
    /\ address[m] = NotYet => stores[m] = <<>> /\ widgets[m] = <<>>
    /\ \A i \in DOMAIN stores[m] : Known(m, stores[m][i])
    /\ InStep(m) => \A i \in DOMAIN widgets[m] : widgets[m][i] = address[m]

AddressesInv ==
    /\ AddressesTypeOK
    /\ \A c \in Deals : DealFits(c)
    /\ \A m \in Sellers : CopiesFit(m)

-----------------------------------------------------------------------------
(* ShopAddresses: steps *)

\* A sequence with another element in a place.
LEMMA ReplaceIs ==
    ASSUME NEW S, NEW s \in Seq(S), NEW i \in DOMAIN s, NEW x \in S
    PROVE  /\ [s EXCEPT ![i] = x] \in Seq(S) /\ Len([s EXCEPT ![i] = x]) = Len(s)
           /\ DOMAIN [s EXCEPT ![i] = x] = DOMAIN s
           /\ [s EXCEPT ![i] = x][i] = x
           /\ \A k \in DOMAIN s \ {i} : [s EXCEPT ![i] = x][k] = s[k]
    OBVIOUS

LEMMA DealIs ==
    ASSUME AddressesInv, NEW c \in Deals
    PROVE  deal[c] \in Deal /\ DealFits(c) /\ deal \in [Deals -> Deal]
    BY DEF AddressesInv, AddressesTypeOK

LEMMA EndedFits == Ended \in Deal /\ Ended.at = "done"
    BY DEF Ended, Deal, Spellings

\* What has been told to nobody yet, when call c alone goes on as r.
LEMMA UnsyncedStays ==
    ASSUME AddressesInv, NEW c \in Deals, NEW r \in Deal, deal' = [deal EXCEPT ![c] = r],
           NEW m \in Sellers,
           c \in Unsynced(m) <=> r.who = m /\ r.at \in {"sync", "put"}
    PROVE  Unsynced(m)' = Unsynced(m)
<1>1. /\ deal \in [Deals -> Deal] /\ deal'[c] = r
      /\ \A d \in Deals \ {c} : deal'[d] = deal[d]
    BY DealIs
<1>2. \A d \in Deals : d \in Unsynced(m)' <=> d \in Unsynced(m)
    BY <1>1 DEF Unsynced
<1>3. Unsynced(m) \subseteq Deals /\ Unsynced(m)' \subseteq Deals
    BY DEF Unsynced
<1> QED BY <1>2, <1>3

\* Call c goes on as r and touches no widget: it may add storefronts, or change one, to a
\* known slug.
LEMMA StoresTouched ==
    ASSUME AddressesInv, NEW c \in Deals, NEW r \in Deal, deal' = [deal EXCEPT ![c] = r],
           \/ deal[c].at \notin {"sync", "put"} /\ r.at \notin {"sync", "put"}
           \/ deal[c].at \in {"sync", "put"} /\ r.at \in {"sync", "put"} /\ r.who = deal[c].who,
           UNCHANGED <<address, widgets, left, adrift, slips>>,
           picked \subseteq picked', picked' \subseteq Sellers \X Spellings,
           stores' \in [Sellers -> Seq(Spellings)],
           \A m \in Sellers :
              /\ address[m] = NotYet => stores'[m] = stores[m]
              /\ DOMAIN stores[m] \subseteq DOMAIN stores'[m]
              /\ \A i \in DOMAIN stores'[m] :
                    stores'[m][i] = address[m] \/ <<m, stores'[m][i]>> \in left \cup picked',
           DealFits(c)'
    PROVE  AddressesInv'
<1>1. /\ deal \in [Deals -> Deal] /\ deal'[c] = r /\ deal' \in [Deals -> Deal]
      /\ \A d \in Deals \ {c} : deal'[d] = deal[d]
    BY DealIs
<1>2. \A m \in Sellers : Unsynced(m)' = Unsynced(m)
  <2>1. TAKE m \in Sellers
  <2>2. c \in Unsynced(m) <=> r.who = m /\ r.at \in {"sync", "put"}
    BY DEF Unsynced
  <2> QED BY <2>2, UnsyncedStays
<1>3. \A m \in Sellers : InStep(m)' <=> InStep(m)
    BY <1>2 DEF InStep, There
<1>4. AddressesTypeOK'
    BY <1>1 DEF AddressesInv, AddressesTypeOK
<1>5. ASSUME NEW d \in Deals \ {c}
      PROVE  DealFits(d)'
  <2>1. DealFits(d) /\ deal'[d] = deal[d]
    BY <1>1 DEF AddressesInv
  <2> QED BY <1>3, <2>1 DEF DealFits, Known, There
<1>6. ASSUME NEW m \in Sellers
      PROVE  CopiesFit(m)'
  <2>1. CopiesFit(m)
    BY DEF AddressesInv
  <2> QED BY <1>3, <2>1 DEF CopiesFit, Known
<1> QED BY <1>4, <1>5, <1>6 DEF AddressesInv

\* The same, and no storefront is touched either.
LEMMA NothingTouched ==
    ASSUME AddressesInv, NEW c \in Deals, NEW r \in Deal, deal' = [deal EXCEPT ![c] = r],
           \/ deal[c].at \notin {"sync", "put"} /\ r.at \notin {"sync", "put"}
           \/ deal[c].at \in {"sync", "put"} /\ r.at \in {"sync", "put"} /\ r.who = deal[c].who,
           UNCHANGED <<address, stores, widgets, left, picked, adrift, slips>>,
           DealFits(c)'
    PROVE  AddressesInv'
<1>1. /\ stores \in [Sellers -> Seq(Spellings)] /\ picked \subseteq Sellers \X Spellings
      /\ \A m \in Sellers : CopiesFit(m)
    BY DEF AddressesInv, AddressesTypeOK
<1>2. \A m \in Sellers : \A i \in DOMAIN stores[m] :
        stores[m][i] = address[m] \/ <<m, stores[m][i]>> \in left \cup picked
    BY <1>1 DEF CopiesFit, Known
<1> QED BY <1>1, <1>2, StoresTouched

\* Call c ends, and has touched the widgets of its merchant at most: they have his
\* address, if they are said to be in step.
LEMMA WidgetsTouched ==
    ASSUME AddressesInv, NEW c \in Deals, NEW m \in Sellers, m = deal[c].who,
           address[m] # NotYet, deal' = [deal EXCEPT ![c] = Ended],
           widgets' \in [Sellers -> Seq(Spellings)],
           \A n \in Sellers \ {m} : widgets'[n] = widgets[n],
           adrift' \subseteq Sellers, \A n \in Sellers \ {m} : n \in adrift' <=> n \in adrift,
           slips' \in 0..MaxSlips, UNCHANGED <<address, stores, left, picked>>,
           InStep(m)' => /\ widgets'[m] # <<>>
                         /\ \A i \in DOMAIN widgets'[m] : widgets'[m][i] = address[m]
    PROVE  AddressesInv'
<1>1. /\ deal \in [Deals -> Deal] /\ deal'[c] = Ended /\ deal' \in [Deals -> Deal]
      /\ \A d \in Deals \ {c} : deal'[d] = deal[d]
    BY DealIs, EndedFits
<1>2. \A n \in Sellers \ {m} : InStep(n)' <=> InStep(n)
  <2>1. ASSUME NEW n \in Sellers \ {m}
        PROVE  Unsynced(n)' = Unsynced(n)
    <3>1. c \in Unsynced(n) <=> Ended.who = n /\ Ended.at \in {"sync", "put"}
      BY EndedFits DEF Unsynced
    <3> QED BY <3>1, EndedFits, UnsyncedStays
  <2> QED BY <2>1 DEF InStep, There
<1>3. AddressesTypeOK'
    BY <1>1 DEF AddressesInv, AddressesTypeOK
<1>4. ASSUME NEW d \in Deals
      PROVE  DealFits(d)'
  <2>1. CASE d = c
    BY <1>1, <2>1, EndedFits DEF DealFits
  <2>2. CASE d # c
    <3>1. DealFits(d) /\ deal'[d] = deal[d]
      BY <1>1, <2>2 DEF AddressesInv
    <3>2. CASE deal[d].who = m
      BY <3>1, <3>2 DEF DealFits, Known, There
    <3>3. CASE deal[d].who # m
      BY SMTT(30), <1>2, <3>1, <3>3 DEF DealFits, Known, There
    <3> QED BY <3>2, <3>3
  <2> QED BY <2>1, <2>2
<1>5. ASSUME NEW n \in Sellers
      PROVE  CopiesFit(n)'
  <2>1. CopiesFit(n)
    BY DEF AddressesInv
  <2>2. CASE n = m
    BY <2>1, <2>2 DEF CopiesFit, Known
  <2>3. CASE n # m
    BY <1>2, <2>1, <2>3 DEF CopiesFit, Known
  <2> QED BY <2>2, <2>3
<1> QED BY <1>3, <1>4, <1>5 DEF AddressesInv

LEMMA BeginInv ==
    ASSUME AddressesInv, NEW c \in Deals, NEW m \in Sellers, NEW s \in Spellings,
           NEW asked \in Spellings,
           NEW o \in {"rename", "create", "patch", "store", "widget"},
           NEW at \in {"write", "mirror", "find", "look"}, BeginDeal(c, o, at, m, s, asked),
           at = "write" => s \in Addresses,
           at = "look" => o \in {"store", "widget"} /\ s = address[m],
           UNCHANGED <<address, stores, widgets, left, picked, adrift, slips>>
    PROVE  AddressesInv'
<1>1. /\ deal[c].at = "idle" /\ address[m] # NotYet /\ deal[c] \in Deal
      /\ deal' = [deal EXCEPT ![c] = [deal[c] EXCEPT !.op = o, !.at = at, !.who = m, !.slug = s,
                                                    !.asked = asked]]
    BY DealIs DEF BeginDeal, DealAt
<1>2. PICK r : r = [deal[c] EXCEPT !.op = o, !.at = at, !.who = m, !.slug = s, !.asked = asked]
    OBVIOUS
<1>3. r \in Deal /\ r.op = o /\ r.at = at /\ r.who = m /\ r.slug = s
    BY <1>1, <1>2 DEF Deal
<1>4. deal' = [deal EXCEPT ![c] = r] /\ deal'[c] = r
    BY <1>1, <1>2, DealIs
<1>6. DealFits(c)'
    BY <1>1, <1>3, <1>4 DEF DealFits, Known
<1> QED BY <1>1, <1>3, <1>4, <1>6, NothingTouched

LEMMA RenameInv ==
    ASSUME AddressesInv, NEW c \in Deals, NEW m \in Sellers, NEW a \in Addresses,
           NEW s \in Spellings, Rename(c, m, a, s)
    PROVE  AddressesInv'
    BY BeginInv DEF Rename, Spellings

LEMMA CreateStoreInv ==
    ASSUME AddressesInv, NEW c \in Deals, NEW m \in Sellers, NEW s \in Spellings,
           CreateStore(c, m, s)
    PROVE  AddressesInv'
    BY BeginInv DEF CreateStore

LEMMA PatchStoreInv ==
    ASSUME AddressesInv, NEW c \in Deals, NEW m \in Sellers, NEW s \in Spellings,
           PatchStore(c, m, s)
    PROVE  AddressesInv'
    BY BeginInv DEF PatchStore

LEMMA ChatCallInv ==
    ASSUME AddressesInv, NEW c \in Deals, NEW m \in Sellers, NEW what \in {"store", "widget"},
           Call(c, what, m)
    PROVE  AddressesInv'
<1>1. address[m] \in Spellings
    BY DEF Call, There, Spellings
<1> QED BY <1>1, BeginInv DEF Call

\* Call c goes on to a stage that asks nothing of it, or that it fits as it did.
LEMMA DealGoesOn ==
    ASSUME AddressesInv, NEW c \in Deals,
           NEW at \in {"claim", "mirror", "set", "put", "add"}, StepOn(c, at),
           deal[c].at \notin {"idle", "done"}, at = "put" => deal[c].at = "sync",
           at # "put" => deal[c].at \notin {"sync", "put"},
           at = "set" => deal[c].at = "test", at = "add" => deal[c].at = "look",
           UNCHANGED <<address, stores, widgets, left, picked, adrift, slips>>
    PROVE  AddressesInv'
<1>1. /\ deal[c] \in Deal /\ DealFits(c)
      /\ deal' = [deal EXCEPT ![c] = [deal[c] EXCEPT !.at = at]]
    BY DealIs DEF StepOn
<1>2. PICK r : r = [deal[c] EXCEPT !.at = at]
    OBVIOUS
<1>3. /\ r \in Deal /\ r.at = at /\ r.op = deal[c].op /\ r.who = deal[c].who
      /\ r.slug = deal[c].slug /\ r.nth = deal[c].nth /\ (r.alone <=> deal[c].alone)
    BY <1>1, <1>2 DEF Deal
<1>4. deal' = [deal EXCEPT ![c] = r] /\ deal'[c] = r
    BY <1>1, <1>2, DealIs
<1>5. \/ deal[c].at \notin {"sync", "put"} /\ r.at \notin {"sync", "put"}
      \/ deal[c].at \in {"sync", "put"} /\ r.at \in {"sync", "put"} /\ r.who = deal[c].who
    BY <1>3
<1>6. PICK m \in Sellers : m = deal[c].who /\ address[m] # NotYet
    BY <1>1 DEF DealFits
<1>7. ASSUME at = "add", InStep(m)' PROVE InStep(m)
  <2>1. c \in Unsynced(m) <=> r.who = m /\ r.at \in {"sync", "put"}
    BY <1>3, <1>7 DEF Unsynced
  <2> QED BY <1>3, <1>4, <1>7, <2>1, UnsyncedStays DEF InStep, There
<1>8. DealFits(c)'
    BY <1>1, <1>3, <1>4, <1>6, <1>7 DEF DealFits, Known, There
<1> QED BY <1>3, <1>4, <1>5, <1>8, NothingTouched

\* Call c ends, and nothing else changes.
LEMMA EndInv ==
    ASSUME AddressesInv, NEW c \in Deals, End(c), deal[c].at \notin {"sync", "put"},
           UNCHANGED <<address, stores, widgets, left, picked, adrift, slips>>
    PROVE  AddressesInv'
<1>1. deal' = [deal EXCEPT ![c] = Ended] /\ deal'[c] = Ended
    BY DealIs DEF End
<1>2. DealFits(c)'
    BY <1>1, EndedFits DEF DealFits
<1> QED BY <1>1, <1>2, EndedFits, NothingTouched

LEMMA FindStoreInv ==
    ASSUME AddressesInv, NEW c \in Deals, FindStore(c)
    PROVE  AddressesInv'
<1>1. CASE StepOn(c, "claim")
    BY <1>1, DealGoesOn DEF FindStore, DealAt
<1>2. ASSUME NEW i \in DOMAIN stores[deal[c].who],
             deal' = [deal EXCEPT ![c] = [@ EXCEPT !.at = "test", !.nth = i]]
      PROVE  AddressesInv'
  <2>1. deal[c] \in Deal /\ DealFits(c) /\ deal[c].at = "find"
    BY DealIs DEF FindStore, DealAt
  <2>2. PICK m \in Sellers : m = deal[c].who /\ address[m] # NotYet
    BY <2>1 DEF DealFits
  <2>3. stores[m] \in Seq(Spellings) /\ i \in Nat
    <3>1. stores[m] \in Seq(Spellings)
      BY DEF AddressesInv, AddressesTypeOK
    <3> QED BY <1>2, <2>2, <3>1, SequenceIs
  <2>4. PICK r : r = [deal[c] EXCEPT !.at = "test", !.nth = i]
    OBVIOUS
  <2>5. r \in Deal /\ r.at = "test" /\ r.who = m /\ r.nth = i
    BY <2>1, <2>2, <2>3, <2>4 DEF Deal
  <2>6. deal' = [deal EXCEPT ![c] = r] /\ deal'[c] = r
    BY <1>2, <2>4, DealIs
  <2>7. UNCHANGED <<address, stores, widgets, left, picked, adrift, slips>>
    BY DEF FindStore
  <2>8. DealFits(c)'
    BY <1>2, <2>2, <2>5, <2>6, <2>7 DEF DealFits
  <2> QED BY <2>1, <2>5, <2>6, <2>7, <2>8, NothingTouched
<1> QED BY <1>1, <1>2 DEF FindStore

LEMMA ClaimSlugInv ==
    ASSUME AddressesInv, NEW c \in Deals, ClaimSlug(c)
    PROVE  AddressesInv'
    BY DealGoesOn, EndInv DEF ClaimSlug, DealAt

LEMMA TestSlugInv ==
    ASSUME AddressesInv, NEW c \in Deals, TestSlug(c)
    PROVE  AddressesInv'
    BY DealGoesOn, EndInv DEF TestSlug, DealAt

LEMMA LookInv ==
    ASSUME AddressesInv, NEW c \in Deals, Look(c)
    PROVE  AddressesInv'
<1>1. StepOn(c, "add") \/ End(c)
    BY DEF Look
<1> QED BY <1>1, DealGoesOn, EndInv DEF Look, DealAt

LEMMA MirrorInv ==
    ASSUME AddressesInv, NEW c \in Deals, Mirror(c)
    PROVE  AddressesInv'
<1>1. deal[c] \in Deal /\ DealFits(c) /\ deal[c].at = "mirror"
    BY DealIs DEF Mirror, DealAt
<1>2. PICK m \in Sellers : m = deal[c].who /\ address[m] # NotYet
    BY <1>1 DEF DealFits
<1>3. PICK slug : slug = IF There(m) THEN address[m] ELSE deal[c].slug
    OBVIOUS
<1>4. slug \in Spellings /\ deal[c].slug \in Spellings
    BY <1>1, <1>3 DEF Deal, There, Spellings
<1>5. PICK r : r = [deal[c] EXCEPT !.at = "insert", !.slug = slug]
    OBVIOUS
<1>6. r \in Deal /\ r.at = "insert" /\ r.who = m /\ r.slug = slug
    BY <1>1, <1>2, <1>4, <1>5 DEF Deal
<1>7. deal' = [deal EXCEPT ![c] = r] /\ deal'[c] = r
    BY <1>2, <1>3, <1>5, DealIs DEF Mirror
<1>8. /\ UNCHANGED <<address, stores, widgets, left, adrift, slips>>
      /\ picked' = IF There(m) THEN picked ELSE picked \cup {<<m, deal[c].slug>>}
    BY <1>2 DEF Mirror
<1>9. /\ stores \in [Sellers -> Seq(Spellings)] /\ picked \subseteq Sellers \X Spellings
      /\ \A n \in Sellers : CopiesFit(n)
    BY DEF AddressesInv, AddressesTypeOK
<1>10. picked \subseteq picked' /\ picked' \subseteq Sellers \X Spellings
    BY <1>4, <1>8, <1>9
<1>11. \A n \in Sellers : \A i \in DOMAIN stores[n] :
        stores[n][i] = address[n] \/ <<n, stores[n][i]>> \in left \cup picked'
    BY <1>9, <1>10 DEF CopiesFit, Known
<1>12. DealFits(c)'
  <2>1. slug = address[m] \/ <<m, slug>> \in left \cup picked'
    BY <1>3, <1>8
  <2> QED BY <1>2, <1>6, <1>7, <1>8, <2>1 DEF DealFits, Known
<1> QED BY <1>1, <1>6, <1>7, <1>8, <1>9, <1>10, <1>11, <1>12, StoresTouched

\* Call c, which has a known slug, makes a storefront with it.
LEMMA StoreAdded ==
    ASSUME AddressesInv, NEW c \in Deals, NEW r \in Deal, deal' = [deal EXCEPT ![c] = r],
           deal[c].at \in {"insert", "add"}, NEW m \in Sellers, m = deal[c].who,
           stores' = [stores EXCEPT ![m] = Append(stores[m], deal[c].slug)],
           Known(m, deal[c].slug),
           UNCHANGED <<address, widgets, left, picked, adrift, slips>>,
           \/ r = Ended
           \/ r.at = "test" /\ r.who = m /\ r.nth = Len(stores[m]) + 1
    PROVE  AddressesInv'
<1>1. /\ deal[c] \in Deal /\ DealFits(c) /\ deal[c].slug \in Spellings
      /\ stores \in [Sellers -> Seq(Spellings)] /\ picked \subseteq Sellers \X Spellings
      /\ address[m] # NotYet /\ deal'[c] = r
    BY DealIs DEF Deal, AddressesInv, AddressesTypeOK, DealFits
<1>2. PICK s : s = Append(stores[m], deal[c].slug)
    OBVIOUS
<1>3. /\ s \in Seq(Spellings) /\ DOMAIN s = 1..Len(stores[m]) + 1
      /\ s[Len(stores[m]) + 1] = deal[c].slug
      /\ \A k \in DOMAIN stores[m] : k \in DOMAIN s /\ s[k] = stores[m][k]
      /\ \A k \in DOMAIN s : k \in DOMAIN stores[m] \/ k = Len(stores[m]) + 1
      /\ Len(stores[m]) + 1 \in DOMAIN s
  <2>1. stores[m] \in Seq(Spellings)
    BY <1>1
  <2>2. Len(stores[m]) \in Nat /\ DOMAIN stores[m] = 1..Len(stores[m])
    BY <2>1, SequenceIs
  <2>3. /\ s \in Seq(Spellings) /\ DOMAIN s = 1..Len(stores[m]) + 1
        /\ s[Len(stores[m]) + 1] = deal[c].slug
        /\ \A k \in DOMAIN stores[m] : s[k] = stores[m][k]
    <3>1. deal[c].slug \in Spellings
      BY <1>1
    <3> QED BY <1>2, <2>1, <3>1, AppendIs
  <2> QED BY <2>2, <2>3
<1>4. /\ stores' \in [Sellers -> Seq(Spellings)] /\ stores'[m] = s
      /\ \A n \in Sellers \ {m} : stores'[n] = stores[n]
    BY <1>1, <1>2, <1>3
<1>5. ASSUME NEW n \in Sellers
      PROVE  /\ address[n] = NotYet => stores'[n] = stores[n]
             /\ DOMAIN stores[n] \subseteq DOMAIN stores'[n]
             /\ \A i \in DOMAIN stores'[n] :
                  stores'[n][i] = address[n] \/ <<n, stores'[n][i]>> \in left \cup picked
  <2>1. CopiesFit(n)
    BY DEF AddressesInv
  <2>2. CASE n = m
    <3>1. DOMAIN stores[n] \subseteq DOMAIN s /\ stores'[n] = s /\ address[n] # NotYet
      BY <1>1, <1>3, <1>4, <2>2
    <3>2. ASSUME NEW i \in DOMAIN s
          PROVE  Known(n, s[i])
      <4>1. i \in DOMAIN stores[n] \/ s[i] = deal[c].slug
        BY <1>3, <2>2, <3>2
      <4>2. i \in DOMAIN stores[n] => s[i] = stores[n][i]
        BY <1>3, <2>2
      <4> QED BY <2>1, <2>2, <4>1, <4>2 DEF CopiesFit
    <3> QED BY <3>1, <3>2 DEF Known
  <2>3. CASE n # m
    BY <1>4, <2>1, <2>3 DEF CopiesFit, Known
  <2> QED BY <2>2, <2>3
<1>6. DealFits(c)'
  <2>1. CASE r.at = "done"
    BY <1>1, <2>1 DEF DealFits
  <2>2. CASE r.at = "test" /\ r.who = m /\ r.nth = Len(stores[m]) + 1
    <3>1. /\ deal'[c].at = "test" /\ deal'[c].who = m
          /\ deal'[c].nth = Len(stores[m]) + 1
      BY <1>1, <2>2
    <3>2. deal'[c].nth \in DOMAIN stores'[m]
      BY <1>3, <1>4, <3>1
    <3>3. address'[m] # NotYet
      BY <1>1
    <3> QED BY <3>1, <3>2, <3>3 DEF DealFits
  <2>3. r = Ended => r.at = "done"
    BY EndedFits
  <2> QED BY <2>1, <2>2, <2>3
<1>7. r.at \in {"done", "test"}
    BY EndedFits
<1> QED BY <1>1, <1>4, <1>5, <1>6, <1>7, StoresTouched

LEMMA InsertStoreInv ==
    ASSUME AddressesInv, NEW c \in Deals, InsertStore(c)
    PROVE  AddressesInv'
<1>1. deal[c] \in Deal /\ DealFits(c) /\ deal[c].at = "insert"
    BY DealIs DEF InsertStore, DealAt
<1>2. PICK m \in Sellers : m = deal[c].who /\ Known(m, deal[c].slug)
    BY <1>1 DEF DealFits
<1>3. /\ stores' = [stores EXCEPT ![m] = Append(stores[m], deal[c].slug)]
      /\ UNCHANGED <<address, widgets, left, picked, adrift, slips>>
    BY <1>2 DEF InsertStore
<1>4. PICK r : r = [deal[c] EXCEPT !.at = "test", !.nth = Len(stores[m]) + 1]
    OBVIOUS
<1>5. r \in Deal /\ r.at = "test" /\ r.who = m /\ r.nth = Len(stores[m]) + 1
  <2>1. stores[m] \in Seq(Spellings)
    BY DEF AddressesInv, AddressesTypeOK
  <2>2. Len(stores[m]) + 1 \in Nat
    BY <2>1, SequenceIs
  <2> QED BY <1>1, <1>2, <1>4, <2>2 DEF Deal
<1>6. CASE deal[c].op = "patch"
  <2>1. deal' = [deal EXCEPT ![c] = r]
    BY <1>2, <1>4, <1>6 DEF InsertStore
  <2> QED BY <1>1, <1>2, <1>3, <1>5, <2>1, StoreAdded
<1>7. CASE deal[c].op # "patch"
  <2>1. deal' = [deal EXCEPT ![c] = Ended]
    BY <1>7 DEF InsertStore, End
  <2> QED BY <1>1, <1>2, <1>3, <2>1, EndedFits, StoreAdded
<1> QED BY <1>6, <1>7

LEMMA AddStoreInv ==
    ASSUME AddressesInv, NEW c \in Deals, AddStore(c)
    PROVE  AddressesInv'
<1>1. /\ deal[c] \in Deal /\ DealFits(c) /\ deal[c].at = "add" /\ deal[c].op = "store"
      /\ deal' = [deal EXCEPT ![c] = Ended]
    BY DealIs DEF AddStore, DealAt, End
<1>2. PICK m \in Sellers : m = deal[c].who /\ Known(m, deal[c].slug)
    BY <1>1 DEF DealFits
<1>3. /\ stores' = [stores EXCEPT ![m] = Append(stores[m], deal[c].slug)]
      /\ UNCHANGED <<address, widgets, left, picked, adrift, slips>>
    BY <1>2 DEF AddStore
<1> QED BY <1>1, <1>2, <1>3, EndedFits, StoreAdded

LEMMA SetSlugInv ==
    ASSUME AddressesInv, NEW c \in Deals, SetSlug(c)
    PROVE  AddressesInv'
<1>1. /\ deal[c] \in Deal /\ DealFits(c) /\ deal[c].at = "set"
      /\ deal' = [deal EXCEPT ![c] = Ended] /\ deal'[c] = Ended
    BY DealIs DEF SetSlug, DealAt, End
<1>2. PICK m \in Sellers : /\ m = deal[c].who /\ address[m] # NotYet
                           /\ deal[c].nth \in DOMAIN stores[m]
    BY <1>1 DEF DealFits
<1>3. /\ stores \in [Sellers -> Seq(Spellings)] /\ picked \subseteq Sellers \X Spellings
      /\ deal[c].asked \in Spellings /\ stores[m] \in Seq(Spellings)
    BY <1>1 DEF Deal, AddressesInv, AddressesTypeOK
<1>4. PICK s : s = [stores[m] EXCEPT ![deal[c].nth] = deal[c].asked]
    OBVIOUS
<1>5. /\ s \in Seq(Spellings) /\ DOMAIN s = DOMAIN stores[m] /\ s[deal[c].nth] = deal[c].asked
      /\ \A k \in DOMAIN stores[m] \ {deal[c].nth} : s[k] = stores[m][k]
    BY <1>2, <1>3, <1>4, ReplaceIs
<1>6. /\ stores' = [stores EXCEPT ![m] = s] /\ picked' = picked \cup {<<m, deal[c].asked>>}
      /\ UNCHANGED <<address, widgets, left, adrift, slips>>
    BY <1>2, <1>4 DEF SetSlug
<1>7. /\ stores' \in [Sellers -> Seq(Spellings)] /\ stores'[m] = s
      /\ \A n \in Sellers \ {m} : stores'[n] = stores[n]
      /\ picked \subseteq picked' /\ picked' \subseteq Sellers \X Spellings
    BY <1>3, <1>5, <1>6
<1>8. ASSUME NEW n \in Sellers
      PROVE  /\ address[n] = NotYet => stores'[n] = stores[n]
             /\ DOMAIN stores[n] \subseteq DOMAIN stores'[n]
             /\ \A i \in DOMAIN stores'[n] :
                  stores'[n][i] = address[n] \/ <<n, stores'[n][i]>> \in left \cup picked'
  <2>1. CopiesFit(n)
    BY DEF AddressesInv
  <2>2. CASE n = m
    <3>1. /\ stores'[n] = s /\ DOMAIN s = DOMAIN stores[n] /\ address[n] # NotYet
      BY <1>2, <1>5, <1>7, <2>2
    <3>2. ASSUME NEW i \in DOMAIN s
          PROVE  s[i] = address[n] \/ <<n, s[i]>> \in left \cup picked'
      <4>1. CASE i = deal[c].nth
        BY <1>5, <1>6, <2>2, <4>1
      <4>2. CASE i # deal[c].nth
        <5>1. s[i] = stores[n][i]
          BY <1>5, <2>2, <3>1, <3>2, <4>2
        <5> QED BY <1>7, <2>1, <3>1, <3>2, <5>1 DEF CopiesFit, Known
      <4> QED BY <4>1, <4>2
    <3> QED BY <3>1, <3>2
  <2>3. CASE n # m
    BY <1>6, <1>7, <2>1, <2>3 DEF CopiesFit, Known
  <2> QED BY <2>2, <2>3
<1>9. DealFits(c)'
    BY <1>1, EndedFits DEF DealFits
<1> QED BY <1>1, <1>6, <1>7, <1>8, <1>9, EndedFits, StoresTouched

LEMMA OpenAddressInv ==
    ASSUME AddressesInv, NEW m \in Sellers, NEW a \in Addresses, OpenAddress(m, a)
    PROVE  AddressesInv'
<1>1. /\ address[m] = NotYet /\ address' = [address EXCEPT ![m] = a]
      /\ UNCHANGED <<stores, widgets, deal, left, picked, adrift, slips>>
      /\ address \in [Sellers -> Addresses \cup {NotYet, Gone}]
    BY DEF OpenAddress, AddressesInv, AddressesTypeOK
<1>2. /\ address' \in [Sellers -> Addresses \cup {NotYet, Gone}]
      /\ address'[m] = a /\ a # NotYet /\ \A n \in Sellers \ {m} : address'[n] = address[n]
    BY <1>1, AddressNames
<1>3. AddressesTypeOK'
    BY <1>1, <1>2 DEF AddressesInv, AddressesTypeOK
<1>4. \A n \in Sellers \ {m} : InStep(n)' <=> InStep(n)
    BY <1>1, <1>2 DEF InStep, There, Unsynced
<1>5. ASSUME NEW d \in Deals
      PROVE  DealFits(d)'
  <2>1. DealFits(d)
    BY DEF AddressesInv
  <2>2. CASE deal[d].at \in {"idle", "done"}
    BY <1>1, <2>2 DEF DealFits
  <2>3. CASE deal[d].at \notin {"idle", "done"}
    <3>1. deal[d].who \in Sellers \ {m}
      BY <1>1, <2>1, <2>3 DEF DealFits
    <3> QED BY <1>1, <1>2, <1>4, <2>1, <3>1 DEF DealFits, Known, There
  <2> QED BY <2>2, <2>3
<1>6. ASSUME NEW n \in Sellers
      PROVE  CopiesFit(n)'
  <2>1. CopiesFit(n)
    BY DEF AddressesInv
  <2>2. CASE n = m
    <3>1. stores[m] = <<>> /\ widgets[m] = <<>>
      BY <1>1, <2>1, <2>2 DEF CopiesFit
    <3>2. DOMAIN stores[m] = {} /\ DOMAIN widgets[m] = {}
      BY <3>1
    <3> QED BY <1>1, <1>2, <2>2, <3>2 DEF CopiesFit
  <2>3. CASE n # m
    BY <1>1, <1>2, <1>4, <2>1, <2>3 DEF CopiesFit, Known
  <2> QED BY <2>2, <2>3
<1> QED BY <1>3, <1>5, <1>6 DEF AddressesInv

LEMMA PurgeSellerInv ==
    ASSUME AddressesInv, NEW m \in Sellers, PurgeSeller(m)
    PROVE  AddressesInv'
<1>1. /\ There(m) /\ address' = [address EXCEPT ![m] = Gone]
      /\ left' = left \cup {<<m, address[m]>>}
      /\ UNCHANGED <<stores, widgets, deal, picked, adrift, slips>>
      /\ address \in [Sellers -> Addresses \cup {NotYet, Gone}] /\ left \subseteq Sellers \X Addresses
    BY DEF PurgeSeller, AddressesInv, AddressesTypeOK
<1>2. /\ address' \in [Sellers -> Addresses \cup {NotYet, Gone}]
      /\ left' \subseteq Sellers \X Addresses
      /\ address'[m] = Gone /\ Gone # NotYet /\ Gone \notin Addresses
      /\ \A n \in Sellers \ {m} : address'[n] = address[n]
    BY <1>1, AddressNames DEF There
<1>3. AddressesTypeOK'
    BY <1>1, <1>2 DEF AddressesInv, AddressesTypeOK
<1>4. \A n \in Sellers : InStep(n)' => InStep(n) /\ n # m
    BY <1>1, <1>2 DEF InStep, There, Unsynced
<1>5. ASSUME NEW n \in Sellers, NEW s, Known(n, s)
      PROVE  s = address'[n] \/ <<n, s>> \in left' \cup picked'
  <2>1. CASE n = m
    BY <1>1, <1>5, <2>1 DEF Known
  <2>2. CASE n # m
    BY <1>1, <1>2, <1>5, <2>2 DEF Known
  <2> QED BY <2>1, <2>2
<1>6. ASSUME NEW d \in Deals
      PROVE  DealFits(d)'
  <2>1. DealFits(d)
    BY DEF AddressesInv
  <2>2. CASE deal[d].at \in {"idle", "done"}
    BY <1>1, <2>2 DEF DealFits
  <2>3. CASE deal[d].at \notin {"idle", "done"}
    <3>1. PICK n \in Sellers : n = deal[d].who /\ address[n] # NotYet
      BY <2>1, <2>3 DEF DealFits
    <3>2. address'[n] # NotYet /\ (There(n)' => There(n) /\ address'[n] = address[n])
      BY <1>2, <3>1 DEF There
    <3>3. Known(n, deal[d].slug) => \/ deal[d].slug = address'[n]
                                    \/ <<n, deal[d].slug>> \in left' \cup picked'
      BY <1>5
    <3>4. InStep(n)' => InStep(n) /\ address'[n] = address[n]
      BY <1>2, <1>4
    <3> QED BY <1>1, <2>1, <3>1, <3>2, <3>3, <3>4 DEF DealFits, Known
  <2> QED BY <2>2, <2>3
<1>7. ASSUME NEW n \in Sellers
      PROVE  CopiesFit(n)'
  <2>1. CopiesFit(n)
    BY DEF AddressesInv
  <2>2. \A i \in DOMAIN stores[n] :
           stores[n][i] = address'[n] \/ <<n, stores[n][i]>> \in left' \cup picked'
    BY <1>5, <2>1 DEF CopiesFit
  <2>3. InStep(n)' => InStep(n) /\ address'[n] = address[n]
    BY <1>2, <1>4
  <2>4. address'[n] = NotYet => address[n] = NotYet
    BY <1>2
  <2> QED BY <1>1, <2>1, <2>2, <2>3, <2>4 DEF CopiesFit, Known
<1> QED BY <1>3, <1>6, <1>7 DEF AddressesInv

LEMMA WriteAddressInv ==
    ASSUME AddressesInv, NEW c \in Deals, WriteAddress(c)
    PROVE  AddressesInv'
<1>1. deal[c] \in Deal /\ DealFits(c) /\ deal[c].at = "write" /\ deal \in [Deals -> Deal]
    BY DealIs DEF WriteAddress, DealAt
<1>2. PICK m \in Sellers : m = deal[c].who /\ address[m] # NotYet
    BY <1>1 DEF DealFits
<1>3. PICK a \in Addresses : a = deal[c].slug
    BY <1>1 DEF DealFits
<1>4. CASE End(c) /\ UNCHANGED <<address, left, adrift>>
    BY <1>1, <1>4, EndInv DEF WriteAddress
<1>5. CASE ~(End(c) /\ UNCHANGED <<address, left, adrift>>)
  <2> DEFINE met == Unsynced(m)
  <2>1. /\ There(m) /\ address' = [address EXCEPT ![m] = a]
        /\ left' = IF address[m] = a THEN left ELSE left \cup {<<m, address[m]>>}
        /\ adrift' = IF met = {} THEN adrift ELSE adrift \cup {m}
        /\ deal' = [d \in Deals |->
                      IF d = c THEN [deal[c] EXCEPT !.at = "sync", !.alone = met = {}]
                      ELSE [deal[d] EXCEPT !.alone = deal[d].alone /\ d \notin met]]
        /\ UNCHANGED <<stores, widgets, picked, slips>>
    BY <1>2, <1>3, <1>5 DEF WriteAddress
  <2>2. /\ deal'[c] \in Deal /\ deal'[c].at = "sync" /\ deal'[c].who = m /\ deal'[c].slug = a
    <3>1. (met = {}) \in BOOLEAN
      OBVIOUS
    <3>2. PICK b \in BOOLEAN : b = (met = {})
      BY <3>1
    <3>3. deal'[c] = [deal[c] EXCEPT !.at = "sync", !.alone = b]
      BY <2>1, <3>2
    <3> QED BY <1>1, <1>2, <1>3, <3>3 DEF Deal
  <2>3. ASSUME NEW d \in Deals \ {c}
        PROVE  /\ deal'[d] \in Deal /\ deal'[d].at = deal[d].at /\ deal'[d].who = deal[d].who
               /\ deal'[d].slug = deal[d].slug /\ deal'[d].op = deal[d].op
               /\ deal'[d].nth = deal[d].nth
               /\ deal'[d].alone => deal[d].alone /\ d \notin met
    <3>1. PICK b \in BOOLEAN : b <=> deal[d].alone /\ d \notin met
      OBVIOUS
    <3>2. deal'[d] = [deal[d] EXCEPT !.alone = deal[d].alone /\ d \notin met]
      BY <2>1
    <3>3. deal[d] \in Deal
      BY <1>1
    <3> QED BY <3>1, <3>2, <3>3 DEF Deal
  <2>4. /\ address \in [Sellers -> Addresses \cup {NotYet, Gone}]
        /\ left \subseteq Sellers \X Addresses /\ adrift \subseteq Sellers
    BY DEF AddressesInv, AddressesTypeOK
  <2>5. /\ address' \in [Sellers -> Addresses \cup {NotYet, Gone}]
        /\ address'[m] = a /\ a # NotYet /\ There(m)'
        /\ \A n \in Sellers \ {m} : address'[n] = address[n]
        /\ left' \subseteq Sellers \X Addresses
        /\ adrift' \subseteq Sellers /\ \A n \in Sellers \ {m} : n \in adrift' <=> n \in adrift
    <3>1. left' \subseteq Sellers \X Addresses
      <4>1. <<m, address[m]>> \in Sellers \X Addresses
        BY <2>1 DEF There
      <4>2. left' = left \/ left' = left \cup {<<m, address[m]>>}
        BY <2>1
      <4> QED BY <2>4, <4>1, <4>2
    <3>2. adrift' \subseteq Sellers /\ \A n \in Sellers \ {m} : n \in adrift' <=> n \in adrift
      BY <2>1, <2>4
    <3>3. a # NotYet /\ a # Gone
      BY AddressNames
    <3>4. /\ address' \in [Sellers -> Addresses \cup {NotYet, Gone}] /\ address'[m] = a
          /\ \A n \in Sellers \ {m} : address'[n] = address[n]
      BY <2>1, <2>4
    <3> QED BY <3>1, <3>2, <3>3, <3>4 DEF There
  <2>6. AddressesTypeOK'
    <3>1. deal' = [d \in Deals |-> deal'[d]]
      BY <2>1
    <3>2. deal' \in [Deals -> Deal]
      BY <2>2, <2>3, <3>1
    <3> QED BY <2>1, <2>5, <3>2 DEF AddressesInv, AddressesTypeOK
  <2>7. ASSUME NEW n \in Sellers, NEW s, Known(n, s)
        PROVE  s = address'[n] \/ <<n, s>> \in left' \cup picked'
    <3>1. CASE n = m
      BY <2>1, <2>5, <2>7, <3>1 DEF Known
    <3>2. CASE n # m
      BY <2>1, <2>5, <2>7, <3>2 DEF Known
    <3> QED BY <3>1, <3>2
  <2>8. ~InStep(m)'
    BY <2>2 DEF InStep, Unsynced
  <2>9. ASSUME NEW n \in Sellers \ {m}
        PROVE  InStep(n)' <=> InStep(n)
    <3>1. Unsynced(n)' = Unsynced(n)
      BY <1>2, <2>2, <2>3 DEF Unsynced
    <3> QED BY <2>5, <3>1 DEF InStep, There
  <2>10. ASSUME NEW d \in Deals
         PROVE  DealFits(d)'
    <3>1. CASE d = c
      BY <2>2, <2>5, <3>1 DEF DealFits
    <3>2. CASE d # c /\ deal[d].at \in {"idle", "done"}
      BY <2>3, <3>2 DEF DealFits
    <3>3. CASE d # c /\ deal[d].at \notin {"idle", "done"}
      <4>1. DealFits(d)
        BY DEF AddressesInv
      <4>2. PICK n \in Sellers : n = deal[d].who /\ address[n] # NotYet
        BY <3>3, <4>1 DEF DealFits
      <4>3. address'[n] # NotYet
        BY <2>5, <4>2
      <4>4. Known(n, deal[d].slug) => \/ deal[d].slug = address'[n]
                                      \/ <<n, deal[d].slug>> \in left' \cup picked'
        BY <2>7
      <4>5. deal[d].at \in {"sync", "put"} /\ deal'[d].alone /\ There(n)'
               => deal[d].slug = address'[n]
        <5>1. CASE n = m
          BY <2>3, <3>3, <4>2, <5>1 DEF Unsynced
        <5>2. CASE n # m
          BY <2>3, <2>5, <3>3, <4>1, <4>2, <5>2 DEF DealFits, There
        <5> QED BY <5>1, <5>2
      <4>6. InStep(n)' => InStep(n) /\ address'[n] = address[n]
        BY <2>5, <2>8, <2>9
      <4>7. /\ deal'[d].at = deal[d].at /\ deal'[d].who = n /\ deal'[d].slug = deal[d].slug
            /\ deal'[d].op = deal[d].op /\ deal'[d].nth = deal[d].nth
        BY <2>3, <3>3, <4>2
      <4>8. /\ deal[d].at = "insert" => Known(n, deal[d].slug)'
            /\ deal[d].at \in {"look", "add"} /\ deal[d].op = "store" => Known(n, deal[d].slug)'
        BY <4>1, <4>2, <4>4, <4>7 DEF DealFits, Known
      <4>9. deal[d].at \in {"look", "add"} /\ deal[d].op = "widget" /\ InStep(n)'
               /\ widgets'[n] = <<>> => deal[d].slug = address'[n]
        BY <2>1, <4>1, <4>2, <4>6 DEF DealFits
      <4> QED BY <2>1, <4>1, <4>2, <4>3, <4>5, <4>7, <4>8, <4>9 DEF DealFits
    <3> QED BY <3>1, <3>2, <3>3
  <2>11. ASSUME NEW n \in Sellers
         PROVE  CopiesFit(n)'
    <3>1. CopiesFit(n)
      BY DEF AddressesInv
    <3>2. \A i \in DOMAIN stores[n] :
           stores[n][i] = address'[n] \/ <<n, stores[n][i]>> \in left' \cup picked'
      BY <2>7, <3>1 DEF CopiesFit
    <3>3. InStep(n)' => InStep(n) /\ address'[n] = address[n]
      BY <2>5, <2>8, <2>9
    <3>4. address'[n] = NotYet => address[n] = NotYet
      BY <2>5
    <3> QED BY <2>1, <3>1, <3>2, <3>3, <3>4 DEF CopiesFit, Known
  <2> QED BY <2>6, <2>10, <2>11 DEF AddressesInv
<1> QED BY <1>4, <1>5

\* The widgets of m after his change c was handed on, with one at the slug of the request.
LEMMA HandedInv ==
    ASSUME AddressesInv, NEW c \in Deals, deal[c].at \in {"sync", "put"}, Handed(c),
           NEW m \in Sellers, m = deal[c].who, NEW w \in Seq(Spellings),
           widgets' = [widgets EXCEPT ![m] = w],
           Len(w) = 1 => w[1] = deal[c].asked,
           UNCHANGED <<address, stores, left, picked, slips>>
    PROVE  AddressesInv'
<1>1. /\ deal[c] \in Deal /\ DealFits(c) /\ deal' = [deal EXCEPT ![c] = Ended]
    BY DealIs DEF Handed, End
<1>2. /\ widgets \in [Sellers -> Seq(Spellings)] /\ adrift \subseteq Sellers
      /\ slips \in 0..MaxSlips
    BY DEF AddressesInv, AddressesTypeOK
<1>3. /\ widgets' \in [Sellers -> Seq(Spellings)] /\ widgets'[m] = w
      /\ \A n \in Sellers \ {m} : widgets'[n] = widgets[n]
    BY <1>2
<1>4. adrift' = IF deal[c].alone /\ deal[c].asked = deal[c].slug /\ Len(w) = 1
                THEN adrift \ {m} ELSE adrift \cup {m}
    BY <1>3 DEF Handed
<1>5. adrift' \subseteq Sellers /\ \A n \in Sellers \ {m} : n \in adrift' <=> n \in adrift
    BY <1>2, <1>4
<1>6. ASSUME InStep(m)'
      PROVE  widgets'[m] # <<>> /\ \A i \in DOMAIN widgets'[m] : widgets'[m][i] = address[m]
  <2>1. deal[c].alone /\ deal[c].asked = deal[c].slug /\ Len(w) = 1 /\ There(m)
    BY <1>4, <1>6 DEF InStep, There
  <2>2. w[1] = address[m]
    BY <1>1, <2>1 DEF DealFits
  <2>3. DOMAIN w = {1} /\ w # <<>>
    <3>1. DOMAIN w = 1..Len(w)
      BY SequenceIs
    <3>2. Len(<<>>) = 0
      OBVIOUS
    <3>3. 1..1 = {1}
      OBVIOUS
    <3>4. DOMAIN w = {1}
      BY <2>1, <3>1, <3>3
    <3>5. w # <<>>
      <4>1. Len(w) # Len(<<>>)
        BY <2>1, <3>2
      <4> QED BY <4>1, Zenon
    <3> QED BY <3>4, <3>5
  <2> QED BY <1>3, <2>2, <2>3
<1>7. address[m] # NotYet
    BY <1>1 DEF DealFits
<1>8. /\ m = deal[c].who /\ address[m] # NotYet /\ deal' = [deal EXCEPT ![c] = Ended]
      /\ slips' \in 0..MaxSlips /\ UNCHANGED <<address, stores, left, picked>>
      /\ widgets' \in [Sellers -> Seq(Spellings)]
      /\ \A n \in Sellers \ {m} : widgets'[n] = widgets[n]
    BY <1>1, <1>2, <1>3, <1>7
<1> QED BY <1>5, <1>6, <1>8, WidgetsTouched

LEMMA SyncWidgetInv ==
    ASSUME AddressesInv, NEW c \in Deals, SyncWidget(c)
    PROVE  AddressesInv'
<1>1. deal[c] \in Deal /\ DealFits(c) /\ deal[c].at = "sync"
    BY DealIs DEF SyncWidget, DealAt
<1>2. PICK m \in Sellers : m = deal[c].who
    BY <1>1 DEF DealFits
<1>3. CASE StepOn(c, "put") /\ UNCHANGED <<widgets, adrift>>
    BY <1>1, <1>3, DealGoesOn DEF SyncWidget
<1>4. ASSUME NEW i \in DOMAIN widgets[m],
             widgets' = [widgets EXCEPT ![m][i] = deal[c].asked], Handed(c)
      PROVE  AddressesInv'
  <2>1. widgets[m] \in Seq(Spellings) /\ deal[c].asked \in Spellings
    BY <1>1 DEF Deal, AddressesInv, AddressesTypeOK
  <2>2. PICK w : w = [widgets[m] EXCEPT ![i] = deal[c].asked]
    OBVIOUS
  <2>3. w \in Seq(Spellings) /\ DOMAIN w = DOMAIN widgets[m] /\ w[i] = deal[c].asked
    BY <1>4, <2>1, <2>2, ReplaceIs
  <2>4. Len(w) = 1 => w[1] = deal[c].asked
    <3>1. DOMAIN w = 1..Len(w) /\ i \in DOMAIN w
      BY <1>4, <2>3, SequenceIs
    <3> QED BY <2>3, <3>1
  <2>5. widgets' = [widgets EXCEPT ![m] = w]
    BY <1>4, <2>2
  <2> QED BY <1>1, <1>2, <1>4, <2>3, <2>4, <2>5, HandedInv DEF SyncWidget
<1> QED BY <1>2, <1>3, <1>4 DEF SyncWidget

LEMMA PutWidgetInv ==
    ASSUME AddressesInv, NEW c \in Deals, PutWidget(c)
    PROVE  AddressesInv'
<1>1. deal[c] \in Deal /\ DealFits(c) /\ deal[c].at = "put"
    BY DealIs DEF PutWidget, DealAt
<1>2. PICK m \in Sellers : m = deal[c].who
    BY <1>1 DEF DealFits
<1>3. widgets[m] \in Seq(Spellings) /\ deal[c].asked \in Spellings
    BY <1>1 DEF Deal, AddressesInv, AddressesTypeOK
<1>4. PICK w : w = Append(widgets[m], deal[c].asked)
    OBVIOUS
<1>5. w \in Seq(Spellings) /\ (Len(w) = 1 => w[1] = deal[c].asked)
  <2>1. /\ w \in Seq(Spellings) /\ Len(w) = Len(widgets[m]) + 1
        /\ w[Len(widgets[m]) + 1] = deal[c].asked
    BY <1>3, <1>4, AppendIs
  <2>2. Len(widgets[m]) \in Nat
    BY <1>3, SequenceIs
  <2> QED BY <2>1, <2>2
<1>6. widgets' = [widgets EXCEPT ![m] = w]
    BY <1>2, <1>4 DEF PutWidget
<1> QED BY <1>1, <1>2, <1>5, <1>6, HandedInv DEF PutWidget

LEMMA SyncFailsInv ==
    ASSUME AddressesInv, NEW c \in Deals, SyncFails(c)
    PROVE  AddressesInv'
<1>1. /\ deal[c] \in Deal /\ DealFits(c) /\ deal[c].at \in {"sync", "put"}
      /\ deal' = [deal EXCEPT ![c] = Ended]
    BY DealIs DEF SyncFails, End
<1>2. PICK m \in Sellers : m = deal[c].who /\ address[m] # NotYet
    BY <1>1 DEF DealFits
<1>3. /\ widgets \in [Sellers -> Seq(Spellings)] /\ adrift \subseteq Sellers
      /\ slips \in 0..MaxSlips
    BY DEF AddressesInv, AddressesTypeOK
<1>4. /\ adrift' = adrift \cup {m} /\ slips' = slips + 1 /\ slips < MaxSlips
      /\ UNCHANGED <<address, stores, widgets, left, picked>>
    BY <1>2 DEF SyncFails
<1>5. adrift' \subseteq Sellers /\ \A n \in Sellers \ {m} : n \in adrift' <=> n \in adrift
    BY <1>3, <1>4
<1>6. slips' \in 0..MaxSlips
    BY <1>3, <1>4, AddressBounds
<1>7. ~InStep(m)'
    BY <1>4 DEF InStep
<1> QED BY <1>1, <1>2, <1>3, <1>4, <1>5, <1>6, <1>7, WidgetsTouched

LEMMA AddWidgetInv ==
    ASSUME AddressesInv, NEW c \in Deals, AddWidget(c)
    PROVE  AddressesInv'
<1>1. /\ deal[c] \in Deal /\ DealFits(c) /\ deal[c].at = "add" /\ deal[c].op = "widget"
      /\ deal' = [deal EXCEPT ![c] = Ended]
    BY DealIs DEF AddWidget, DealAt, End
<1>2. PICK m \in Sellers : m = deal[c].who /\ address[m] # NotYet
    BY <1>1 DEF DealFits
<1>3. /\ widgets \in [Sellers -> Seq(Spellings)] /\ adrift \subseteq Sellers
      /\ slips \in 0..MaxSlips /\ deal[c].slug \in Spellings
    BY <1>1 DEF Deal, AddressesInv, AddressesTypeOK
<1>4. PICK w : w = Append(widgets[m], deal[c].slug)
    OBVIOUS
<1>5. /\ w \in Seq(Spellings) /\ w # <<>>
      /\ widgets[m] = <<>> => \A i \in DOMAIN w : w[i] = deal[c].slug
  <2>1. widgets[m] \in Seq(Spellings)
    BY <1>3
  <2>2. /\ w \in Seq(Spellings) /\ Len(w) = Len(widgets[m]) + 1
        /\ DOMAIN w = 1..Len(widgets[m]) + 1 /\ w[Len(widgets[m]) + 1] = deal[c].slug
    BY <1>3, <1>4, <2>1, AppendIs
  <2>3. Len(widgets[m]) \in Nat
    BY <2>1, SequenceIs
  <2>4. w # <<>>
    BY <2>2, <2>3
  <2> QED BY <2>2, <2>3, <2>4
<1>6. /\ widgets' = [widgets EXCEPT ![m] = w]
      /\ adrift' = IF widgets[m] = <<>> THEN adrift ELSE adrift \cup {m}
      /\ UNCHANGED <<address, stores, left, picked, slips>>
    BY <1>2, <1>4 DEF AddWidget
<1>7. /\ widgets' \in [Sellers -> Seq(Spellings)] /\ widgets'[m] = w
      /\ \A n \in Sellers \ {m} : widgets'[n] = widgets[n]
    BY <1>3, <1>5, <1>6
<1>8. adrift' \subseteq Sellers /\ \A n \in Sellers \ {m} : n \in adrift' <=> n \in adrift
    BY <1>3, <1>6
<1>9. ASSUME InStep(m)'
      PROVE  widgets'[m] # <<>> /\ \A i \in DOMAIN widgets'[m] : widgets'[m][i] = address[m]
  <2>1. widgets[m] = <<>> /\ adrift' = adrift
    BY <1>6, <1>9 DEF InStep
  <2>2. c \in Unsynced(m) <=> Ended.who = m /\ Ended.at \in {"sync", "put"}
    BY <1>1, EndedFits DEF Unsynced
  <2>3. Unsynced(m)' = Unsynced(m)
    BY <1>1, <2>2, EndedFits, UnsyncedStays
  <2>4. InStep(m)
    BY <1>6, <1>9, <2>1, <2>3 DEF InStep, There
  <2>5. deal[c].slug = address[m]
    BY <1>1, <1>2, <2>1, <2>4 DEF DealFits
  <2> QED BY <1>5, <1>7, <2>1, <2>5
<1>10. /\ m = deal[c].who /\ address[m] # NotYet /\ deal' = [deal EXCEPT ![c] = Ended]
       /\ slips' \in 0..MaxSlips /\ UNCHANGED <<address, stores, left, picked>>
       /\ widgets' \in [Sellers -> Seq(Spellings)]
       /\ \A n \in Sellers \ {m} : widgets'[n] = widgets[n]
    BY <1>1, <1>2, <1>3, <1>6, <1>7
<1> QED BY <1>8, <1>9, <1>10, WidgetsTouched

LEMMA AddressesStart == AddressesInit => AddressesInv
<1> SUFFICES ASSUME AddressesInit PROVE AddressesInv
    OBVIOUS
<1>1. /\ address \in [Sellers -> Addresses \cup {NotYet}]
      /\ left = {} /\ picked = {} /\ adrift = {} /\ slips = 0
      /\ deal = [c \in Deals |-> [Ended EXCEPT !.at = "idle"]]
    BY DEF AddressesInit
<1>2. PICK shop, chat \in SUBSET {m \in Sellers : There(m)} :
         /\ stores = [m \in Sellers |-> IF m \in shop THEN <<address[m]>> ELSE <<>>]
         /\ widgets = [m \in Sellers |-> IF m \in chat THEN <<address[m]>> ELSE <<>>]
    BY DEF AddressesInit
<1>3. \A c \in Deals : deal[c] \in Deal /\ deal[c].at = "idle"
  <2>1. [Ended EXCEPT !.at = "idle"] \in Deal /\ [Ended EXCEPT !.at = "idle"].at = "idle"
    BY DEF Ended, Deal, Spellings
  <2> QED BY <1>1, <2>1
<1>4. ASSUME NEW m \in Sellers
      PROVE  /\ stores[m] \in Seq(Spellings) /\ widgets[m] \in Seq(Spellings)
             /\ address[m] = NotYet => stores[m] = <<>> /\ widgets[m] = <<>>
             /\ \A i \in DOMAIN stores[m] : stores[m][i] = address[m]
             /\ \A i \in DOMAIN widgets[m] : widgets[m][i] = address[m]
  <2>1. ASSUME NEW s, s = <<>> \/ (s = <<address[m]>> /\ There(m))
        PROVE  /\ s \in Seq(Spellings) /\ (address[m] = NotYet => s = <<>>)
               /\ \A i \in DOMAIN s : s[i] = address[m]
    <3>1. CASE s = <<>>
      <4>1. <<>> \in Seq(Spellings)
        OBVIOUS
      <4>2. DOMAIN <<>> = {}
        OBVIOUS
      <4> QED BY <3>1, <4>1, <4>2
    <3>2. CASE s = <<address[m]>> /\ There(m)
      <4>1. address[m] \in Spellings /\ address[m] # NotYet
        BY <3>2, AddressNames DEF There, Spellings
      <4> QED BY <3>2, <4>1, ShortSequences
    <3> QED BY <2>1, <3>1, <3>2
  <2>2. /\ stores[m] = <<>> \/ (stores[m] = <<address[m]>> /\ There(m))
        /\ widgets[m] = <<>> \/ (widgets[m] = <<address[m]>> /\ There(m))
    <3>1. (m \in shop => There(m)) /\ (m \in chat => There(m))
      BY <1>2
    <3>2. /\ stores[m] = IF m \in shop THEN <<address[m]>> ELSE <<>>
          /\ widgets[m] = IF m \in chat THEN <<address[m]>> ELSE <<>>
      BY <1>2
    <3>3. stores[m] = <<>> \/ (stores[m] = <<address[m]>> /\ There(m))
      BY <3>1, <3>2
    <3>4. widgets[m] = <<>> \/ (widgets[m] = <<address[m]>> /\ There(m))
      BY <3>1, <3>2
    <3> QED BY <3>3, <3>4
  <2> QED BY <2>1, <2>2
<1>5. AddressesTypeOK
  <2>1. stores \in [Sellers -> Seq(Spellings)] /\ widgets \in [Sellers -> Seq(Spellings)]
    BY <1>2, <1>4
  <2>2. deal \in [Deals -> Deal]
    BY <1>1, <1>3
  <2>3. slips \in 0..MaxSlips
    BY <1>1, AddressBounds
  <2> QED BY <1>1, <2>1, <2>2, <2>3 DEF AddressesTypeOK
<1>6. \A c \in Deals : DealFits(c)
    BY <1>3 DEF DealFits
<1>7. \A m \in Sellers : CopiesFit(m)
    BY <1>4 DEF CopiesFit, Known
<1> QED BY <1>5, <1>6, <1>7 DEF AddressesInv

LEMMA AddressesRest == AddressesInv /\ UNCHANGED addressVars => AddressesInv'
<1> SUFFICES ASSUME AddressesInv, UNCHANGED addressVars PROVE AddressesInv'
    OBVIOUS
<1> USE DEF addressVars
<1>1. AddressesTypeOK'
    BY DEF AddressesInv, AddressesTypeOK
<1>2. \A m \in Sellers : InStep(m)' <=> InStep(m)
    BY DEF InStep, There, Unsynced
<1>3. \A c \in Deals : DealFits(c)'
    BY <1>2 DEF AddressesInv, DealFits, Known, There
<1>4. \A m \in Sellers : CopiesFit(m)'
    BY <1>2 DEF AddressesInv, CopiesFit, Known
<1> QED BY <1>1, <1>3, <1>4 DEF AddressesInv

-----------------------------------------------------------------------------
(* ShopAddresses: theorems *)

LEMMA AddressesSteps == AddressesInv /\ [AddressesNext]_addressVars => AddressesInv'
    BY AddressesRest, PurgeSellerInv, OpenAddressInv, WriteAddressInv, SyncWidgetInv,
       PutWidgetInv, SyncFailsInv, FindStoreInv, ClaimSlugInv, MirrorInv, InsertStoreInv,
       TestSlugInv, SetSlugInv, LookInv, AddStoreInv, AddWidgetInv, RenameInv,
       CreateStoreInv, PatchStoreInv, ChatCallInv DEF AddressesNext

\* The inductive invariant holds of every run, and with it every variable keeps its type.
THEOREM AddressesHold == AddressesSpec => []AddressesInv
<1> QED BY AddressesStart, AddressesSteps, PTL DEF AddressesSpec

THEOREM AddressesTypes == AddressesSpec => []AddressesTypeOK
<1>1. AddressesInv => AddressesTypeOK
    BY DEF AddressesInv
<1> QED BY <1>1, AddressesHold, PTL

\* However merchants come, change their addresses and go, and whoever makes storefronts
\* and widgets at the same time: a storefront stands at an address its merchant has or
\* had, or at a slug that was chosen for it, and a widget that is in step has the address.
THEOREM AddressesStay == AddressesSpec => []AddressesAreKept
<1>1. AddressesInv => StoreIsAtItsAddress
    BY DEF AddressesInv, CopiesFit, Known, StoreIsAtItsAddress
<1>2. AddressesInv => ChatIsAtItsAddress
    BY DEF AddressesInv, CopiesFit, InStep, ChatIsAtItsAddress
<1>3. AddressesInv => AddressesAreKept
    BY <1>1, <1>2 DEF AddressesAreKept
<1> QED BY <1>3, AddressesHold, PTL

-----------------------------------------------------------------------------
(* The category tree: the inductive invariant *)

\* Ids that a document has, or had.
Ids == stored \cup gone

\* The id of a category that is being inserted is new, and nobody else has it.
IdsAreFresh ==
    /\ stored \cap gone = {}
    /\ \A e, f \in Editors : editor[e].at = "insert" /\ editor[f].node = editor[e].node => f = e

\* What is above a category whose parent is p.
Above(p) == IF p = NoParent THEN {} ELSE ancestors[p] \cup {p}

\* The list of ancestors is what is above the parent, until the category is moved.  It
\* never changes, and stays when the document is deleted.
AncestorsNest ==
    \A c \in Categories :
        /\ ancestors[c] \subseteq Ids \ {c}
        /\ parent[c] \in Ids \cup {NoParent}
        /\ c \notin moved => ancestors[c] = Above(parent[c])

\* What the guards of a move promise when c is put under p.
Harmless(c, p) == p = NoParent \/ (p # c /\ (p \in stored => c \notin ancestors[p]))

MovesAreChecked == moved \subseteq Ids /\ \A c \in moved : Harmless(c, parent[c])

\* What a removal has listed holds all that is under it.
Closed(S) == \A c \in stored : parent[c] \in S => c \in S \cup moved \cup late

\* What a call knows at each of its stages.
EditorFits(r) ==
    /\ r.at = "idle" <=> r.node = NoParent
    /\ r.at = "insert" => /\ r.node \notin Ids
                          /\ r.target \in Ids \cup {NoParent}
                          /\ r.found = Above(r.target)
    /\ r.at \in {"loop", "save"} => r.target \in Ids \cup {NoParent} /\ r.target # r.node
    /\ r.at = "save" => Harmless(r.node, r.target)
    /\ r.at \in {"products", "delete"} => Closed(r.found)
    /\ r.at = "delete" => \A q \in Products : category[q] \in r.found => q \in late

EditorsFit == \A e \in Editors : EditorFits(editor[e])

TreeInv ==
    /\ TreeTypeOK
    /\ IdsAreFresh
    /\ AncestorsNest
    /\ MovesAreChecked
    /\ EditorsFit
    /\ NothingIsCutOff

-----------------------------------------------------------------------------
(* The category tree: calls that only change what they know themselves *)

LEMMA EditorType ==
    ASSUME NEW r \in Editor
    PROVE  /\ [r EXCEPT !.at = "done", !.found = {}] \in Editor
           /\ \A s \in {"siblings", "parent", "loop", "save", "delete"} :
                  [r EXCEPT !.at = s] \in Editor
<1>1. \A s \in {"siblings", "parent", "loop", "save", "delete", "done"} :
          [r EXCEPT !.at = s] \in Editor
    BY DEF Editor
<1>2. \A x \in Editor : [x EXCEPT !.found = {}] \in Editor
    BY DEF Editor
<1>3. [r EXCEPT !.at = "done", !.found = {}] = [[r EXCEPT !.at = "done"] EXCEPT !.found = {}]
    OBVIOUS
<1> QED BY <1>1, <1>2, <1>3

LEMMA TreeStarts == TreeInit => TreeInv
    BY ParentAssumption
    DEF TreeInit, TreeInv, TreeTypeOK, Editor, IdsAreFresh, Ids, AncestorsNest, Above, MovesAreChecked,
        EditorsFit, EditorFits, NothingIsCutOff

LEMMA TreeStutters ==
    ASSUME TreeInv, UNCHANGED treeVars
    PROVE  TreeInv'
    BY DEF treeVars, TreeInv, TreeTypeOK, IdsAreFresh, Ids, AncestorsNest, Above, MovesAreChecked,
       Harmless, EditorsFit, EditorFits, Closed, NothingIsCutOff

LEMMA EditInv ==
    ASSUME TreeInv, NEW e \in Editors, NEW r \in Editor, EditorFits(r),
           editor' = [editor EXCEPT ![e] = r],
           \A f \in Editors \ {e} : /\ editor[f].at = "insert" => r.node # editor[f].node
                                    /\ r.at = "insert" => r.node # editor[f].node,
           UNCHANGED <<stored, parent, ancestors, category, gone, moved, late>>
    PROVE  TreeInv'
<1>1. editor \in [Editors -> Editor]
    BY DEF TreeInv, TreeTypeOK
<1>2. TreeTypeOK'
    BY <1>1 DEF TreeInv, TreeTypeOK
<1>3. IdsAreFresh'
    BY <1>1 DEF TreeInv, IdsAreFresh
<1>4. AncestorsNest' /\ MovesAreChecked'
    BY DEF TreeInv, AncestorsNest, MovesAreChecked, Harmless, Above, Ids
<1>5. EditorsFit'
  <2> SUFFICES ASSUME NEW f \in Editors PROVE EditorFits(editor[f])'
    BY DEF EditorsFit
  <2>1. EditorFits(editor'[f])
    BY <1>1 DEF TreeInv, EditorsFit
  <2> QED BY <2>1 DEF EditorFits, Closed, Harmless, Above, Ids
<1>6. NothingIsCutOff'
    BY DEF TreeInv, NothingIsCutOff
<1> QED BY <1>2, <1>3, <1>4, <1>5, <1>6 DEF TreeInv

\* The call is over.
LEMMA EditEndsInv ==
    ASSUME TreeInv, NEW e \in Editors, editor[e].at # "idle", Ends(e),
           UNCHANGED <<stored, parent, ancestors, category, gone, moved, late>>
    PROVE  TreeInv'
<1> DEFINE r == [editor[e] EXCEPT !.at = "done", !.found = {}]
<1>1. editor[e] \in Editor
    BY DEF TreeInv, TreeTypeOK
<1>2. r \in Editor
    BY <1>1, EditorType
<1>3. r.at = "done" /\ r.node = editor[e].node
    BY <1>1 DEF Editor
<1>4. EditorFits(r)
    BY <1>3 DEF EditorFits, TreeInv, EditorsFit
<1>5. editor' = [editor EXCEPT ![e] = r]
    BY DEF Ends
<1>6. \A f \in Editors \ {e} : /\ editor[f].at = "insert" => r.node # editor[f].node
                               /\ r.at = "insert" => r.node # editor[f].node
    BY <1>3 DEF TreeInv, IdsAreFresh
<1> HIDE DEF r
<1> QED BY <1>2, <1>4, <1>5, <1>6, EditInv

\* The call goes on, to a stage where it knows what it needs.
LEMMA EditProceedsInv ==
    ASSUME TreeInv, NEW e \in Editors, editor[e].at # "idle",
           NEW s \in {"siblings", "parent", "loop", "save", "delete"}, Proceed(e, s),
           EditorFits([editor[e] EXCEPT !.at = s]),
           UNCHANGED <<stored, parent, ancestors, category, gone, moved, late>>
    PROVE  TreeInv'
<1> DEFINE r == [editor[e] EXCEPT !.at = s]
<1>1. editor[e] \in Editor
    BY DEF TreeInv, TreeTypeOK
<1>2. r \in Editor
    BY <1>1, EditorType
<1>3. r.at # "insert" /\ r.node = editor[e].node
    BY <1>1 DEF Editor
<1>4. editor' = [editor EXCEPT ![e] = r]
    BY DEF Proceed
<1>5. \A f \in Editors \ {e} : /\ editor[f].at = "insert" => r.node # editor[f].node
                               /\ r.at = "insert" => r.node # editor[f].node
    BY <1>3 DEF TreeInv, IdsAreFresh
<1> HIDE DEF r
<1>6. EditorFits(r)
    BY DEF r
<1> QED BY <1>2, <1>4, <1>5, <1>6, EditInv

\* A call begins, with a category that is stored or of its own.
LEMMA BeginEditInv ==
    ASSUME TreeInv, NEW e \in Editors, NEW at, NEW c \in Categories,
           NEW p \in Categories \cup {NoParent}, NEW S \in SUBSET Categories,
           NEW cascade \in BOOLEAN, BeginEdit(e, at, c, p, S, cascade),
           at \in {"insert", "descent", "siblings", "parent", "products"},
           at # "insert" => c \in stored,
           at = "insert" => \A f \in Editors : editor[f].node # c,
           EditorFits([at |-> at, node |-> c, target |-> p, found |-> S, cascade |-> cascade]),
           UNCHANGED <<stored, parent, ancestors, category, gone, moved, late>>
    PROVE  TreeInv'
<1> DEFINE r == [at |-> at, node |-> c, target |-> p, found |-> S, cascade |-> cascade]
<1>1. r \in Editor
    BY DEF Editor
<1>2. editor' = [editor EXCEPT ![e] = r]
    BY DEF BeginEdit
<1>3. \A f \in Editors \ {e} : /\ editor[f].at = "insert" => r.node # editor[f].node
                               /\ r.at = "insert" => r.node # editor[f].node
    BY DEF TreeInv, EditorsFit, EditorFits, Ids
<1> HIDE DEF r
<1>4. EditorFits(r)
    BY DEF r
<1> QED BY <1>1, <1>2, <1>3, <1>4, EditInv

LEMMA CreateCategoryInv ==
    ASSUME TreeInv, NEW e \in Editors, NEW c \in Categories, NEW p \in Categories \cup {NoParent},
           CreateCategory(e, c, p)
    PROVE  TreeInv'
<1> DEFINE S == IF p = NoParent THEN {} ELSE ancestors[p] \cup {p}
           r == [at |-> "insert", node |-> c, target |-> p, found |-> S, cascade |-> FALSE]
<1>1. S \in SUBSET Categories /\ S = Above(p)
    BY DEF TreeInv, TreeTypeOK, Above
<1>2. EditorFits(r)
  <2> HIDE DEF S
  <2> QED BY <1>1, ParentAssumption DEF EditorFits, CreateCategory, Ids
<1> QED BY <1>1, <1>2, BeginEditInv DEF CreateCategory

LEMMA MoveInv ==
    ASSUME TreeInv, NEW e \in Editors, NEW c \in Categories, NEW p \in Categories \cup {NoParent},
           Move(e, c, p) \/ Update(e, c, p)
    PROVE  TreeInv'
<1>1. \A s \in {"siblings", "descent", "parent"} :
          EditorFits([at |-> s, node |-> c, target |-> p, found |-> {}, cascade |-> FALSE])
    BY ParentAssumption DEF EditorFits
<1>2. CASE Move(e, c, p)
  <2>1. \E s \in {"siblings", "descent"} : BeginEdit(e, s, c, p, {}, FALSE)
    BY <1>2 DEF Move
  <2> QED BY <1>1, <1>2, <2>1, BeginEditInv DEF Move
<1>3. CASE Update(e, c, p)
    BY <1>1, <1>3, BeginEditInv DEF Update
<1> QED BY <1>2, <1>3

LEMMA CheckDescentInv ==
    ASSUME TreeInv, NEW e \in Editors, CheckDescent(e)
    PROVE  TreeInv'
<1>1. editor[e] \in Editor
    BY DEF TreeInv, TreeTypeOK
<1>2. EditorFits([editor[e] EXCEPT !.at = "siblings"])
    BY <1>1 DEF CheckDescent, Editor, EditorFits, TreeInv, EditorsFit
<1> QED BY <1>2, EditEndsInv, EditProceedsInv DEF CheckDescent

LEMMA ListSiblingsInv ==
    ASSUME TreeInv, NEW e \in Editors, ListSiblings(e)
    PROVE  TreeInv'
<1>1. editor[e] \in Editor
    BY DEF TreeInv, TreeTypeOK
<1>2. EditorFits([editor[e] EXCEPT !.at = "parent"])
    BY <1>1 DEF ListSiblings, Editor, EditorFits, TreeInv, EditorsFit
<1> QED BY <1>2, EditEndsInv, EditProceedsInv DEF ListSiblings

LEMMA CheckParentInv ==
    ASSUME TreeInv, NEW e \in Editors, CheckParent(e)
    PROVE  TreeInv'
<1>1. editor[e] \in Editor
    BY DEF TreeInv, TreeTypeOK
<1>2. CASE Ends(e)
    BY <1>2, EditEndsInv DEF CheckParent
<1>3. CASE /\ editor[e].target # editor[e].node
           /\ editor[e].target \in stored \cup {NoParent}
           /\ Proceed(e, IF editor[e].target = NoParent THEN "save" ELSE "loop")
  <2>1. editor[e].target = NoParent => EditorFits([editor[e] EXCEPT !.at = "save"])
    BY <1>1, <1>3 DEF CheckParent, Editor, EditorFits, TreeInv, EditorsFit, Ids, Harmless
  <2>2. EditorFits([editor[e] EXCEPT !.at = "loop"])
    BY <1>1, <1>3 DEF CheckParent, Editor, EditorFits, TreeInv, EditorsFit, Ids
  <2> QED BY <1>3, <2>1, <2>2, EditProceedsInv DEF CheckParent
<1> QED BY <1>2, <1>3 DEF CheckParent

LEMMA CheckLoopInv ==
    ASSUME TreeInv, NEW e \in Editors, CheckLoop(e)
    PROVE  TreeInv'
<1>1. editor[e] \in Editor
    BY DEF TreeInv, TreeTypeOK
<1>2. ~IsDescendant(editor[e].target, editor[e].node) => EditorFits([editor[e] EXCEPT !.at = "save"])
    BY <1>1 DEF CheckLoop, Editor, EditorFits, TreeInv, EditorsFit, Ids, Harmless, IsDescendant
<1> QED BY <1>2, EditEndsInv, EditProceedsInv DEF CheckLoop

LEMMA WriteRefusedInv ==
    ASSUME TreeInv, NEW e \in Editors, WriteRefused(e)
    PROVE  TreeInv'
    BY EditEndsInv DEF WriteRefused

\* A category with c among its ancestors has its children's ancestors hold c as well.
LEMMA RemoveCategoryInv ==
    ASSUME TreeInv, NEW e \in Editors, NEW c \in Categories, NEW cascade \in BOOLEAN,
           RemoveCategory(e, c, cascade)
    PROVE  TreeInv'
<1>1. Subtree(c) \in SUBSET Categories
    BY DEF TreeInv, TreeTypeOK, Subtree
<1>2. Closed(Subtree(c))
    BY ParentAssumption DEF TreeInv, TreeTypeOK, AncestorsNest, Above, Subtree, Closed
<1>3. EditorFits([at |-> "products", node |-> c, target |-> NoParent, found |-> Subtree(c),
            cascade |-> cascade])
    BY <1>2, ParentAssumption DEF EditorFits
<1> QED BY <1>1, <1>3, BeginEditInv DEF RemoveCategory

LEMMA CheckProductsInv ==
    ASSUME TreeInv, NEW e \in Editors, CheckProducts(e)
    PROVE  TreeInv'
<1>1. editor[e] \in Editor
    BY DEF TreeInv, TreeTypeOK
<1>2. (\A q \in Products : category[q] \notin editor[e].found)
      => EditorFits([editor[e] EXCEPT !.at = "delete"])
    BY <1>1 DEF CheckProducts, Editor, EditorFits, TreeInv, EditorsFit
<1> QED BY <1>2, EditEndsInv, EditProceedsInv DEF CheckProducts

-----------------------------------------------------------------------------
(* The category tree: calls that write *)

\* A call that writes is over, and the others know what they knew.
LEMMA WriterEnds ==
    ASSUME TreeInv, NEW e \in Editors, Ends(e)
    PROVE  /\ editor' \in [Editors -> Editor]
           /\ \A f \in Editors \ {e} : editor'[f] = editor[f] /\ editor[f] \in Editor
           /\ editor'[e].at = "done" /\ editor'[e].node = editor[e].node
<1>1. editor \in [Editors -> Editor]
    BY DEF TreeInv, TreeTypeOK
<1>2. /\ editor[e] \in Editor
      /\ [editor[e] EXCEPT !.at = "done", !.found = {}] \in Editor
    BY <1>1, EditorType
<1> QED BY <1>1, <1>2 DEF Ends, Editor

LEMMA InsertCategoryInv ==
    ASSUME TreeInv, NEW e \in Editors, InsertCategory(e)
    PROVE  TreeInv'
<1> DEFINE c == editor[e].node
           p == editor[e].target
<1>1. /\ c \in Categories \ Ids
      /\ p \in Ids \cup {NoParent} /\ p # c
      /\ editor[e].found = Above(p) /\ editor[e].found \in SUBSET Categories
    BY ParentAssumption DEF TreeInv, TreeTypeOK, EditorsFit, EditorFits, InsertCategory, Editor, Ids
<1>2. /\ stored' = stored \cup {c} /\ Ids' = Ids \cup {c}
      /\ \A d \in Categories : /\ parent'[d] = IF d = c THEN p ELSE parent[d]
                               /\ ancestors'[d] = IF d = c THEN Above(p) ELSE ancestors[d]
    BY <1>1 DEF InsertCategory, Ids, TreeInv, TreeTypeOK
<1>3. /\ Ids \subseteq Categories /\ Above(p) \subseteq Ids
      /\ \A q \in Ids \cup {NoParent} : Above(q)' = Above(q)
  <2>1. Ids \subseteq Categories
    BY DEF TreeInv, TreeTypeOK, Ids
  <2>2. \A q \in Ids \cup {NoParent} : Above(q)' = Above(q)
    BY <1>1, <1>2, <2>1 DEF Above
  <2>3. Above(p) \subseteq Ids
    BY ZenonT(30), <1>1, <2>1, ParentAssumption DEF TreeInv, AncestorsNest, Above
  <2> QED BY <2>1, <2>2, <2>3
<1>4. TreeTypeOK'
  <2>1. /\ parent' \in [Categories -> Categories \cup {NoParent}]
        /\ late' \subseteq Categories \cup Products
    BY <1>1, <1>3 DEF TreeInv, TreeTypeOK, InsertCategory
  <2>2. ancestors' \in [Categories -> SUBSET Categories]
    BY <1>1 DEF TreeInv, TreeTypeOK, InsertCategory
  <2> QED BY <1>1, <2>1, <2>2, WriterEnds DEF TreeInv, TreeTypeOK, InsertCategory
<1>5. IdsAreFresh'
  <2>1. (stored \cap gone)' = {}
    BY <1>1, <1>2 DEF TreeInv, IdsAreFresh, Ids, InsertCategory
  <2> QED BY <2>1, WriterEnds DEF TreeInv, IdsAreFresh, InsertCategory
<1>6. AncestorsNest'
  <2> SUFFICES ASSUME NEW d \in Categories
               PROVE  /\ ancestors'[d] \subseteq Ids' \ {d}
                      /\ parent'[d] \in Ids' \cup {NoParent}
                      /\ d \notin moved' => ancestors'[d] = Above(parent[d])'
    BY DEF AncestorsNest
  <2>1. CASE d = c
    <3>1. parent'[d] = p /\ ancestors'[d] = Above(p)
      BY <1>2, <2>1
    <3>2. Above(parent[d])' = Above(p)
      BY <1>1, <1>3, <3>1 DEF Above
    <3> QED BY <1>1, <1>2, <1>3, <2>1, <3>1, <3>2
  <2>2. CASE d # c
    <3>1. Above(parent[d])' = Above(parent[d])
      BY <1>1, <1>2, <1>3, <2>2 DEF TreeInv, AncestorsNest, Above
    <3> QED BY <1>1, <1>2, <2>2, <3>1 DEF TreeInv, AncestorsNest, InsertCategory
  <2> QED BY <2>1, <2>2
<1>7. MovesAreChecked'
    BY <1>1, <1>2, <1>3 DEF TreeInv, AncestorsNest, MovesAreChecked, Harmless, InsertCategory
<1>8. EditorsFit'
  <2> SUFFICES ASSUME NEW f \in Editors PROVE EditorFits(editor[f])'
    BY DEF EditorsFit
  <2>1. CASE f = e
    BY <1>1, <2>1, WriterEnds, ParentAssumption DEF EditorFits, InsertCategory
  <2>2. CASE f # e
    <3>1. editor'[f] = editor[f] /\ EditorFits(editor[f]) /\ editor[f] \in Editor
      BY <2>2, WriterEnds DEF InsertCategory, TreeInv, EditorsFit
    <3>2. editor[f].at = "insert" => editor[f].node \notin Ids'
      BY <1>2, <2>2, <3>1 DEF EditorFits, TreeInv, IdsAreFresh, InsertCategory
    <3>3. editor[f].at = "insert" => editor[f].found = Above(editor[f].target)'
      BY <1>3, <3>1 DEF EditorFits, Above
    <3>4. editor[f].at = "save" => Harmless(editor[f].node, editor[f].target)'
      BY <1>1, <1>2, <1>3, <3>1 DEF EditorFits, Harmless
    <3>5. editor[f].at \in {"products", "delete"} => Closed(editor[f].found)'
      <4> SUFFICES ASSUME editor[f].at \in {"products", "delete"}, NEW d \in stored',
                          parent'[d] \in editor[f].found
                   PROVE  d \in editor[f].found \cup moved' \cup late'
        BY <3>1 DEF Closed
      <4>1. CASE d = c
        <5>1. p \in Listed({"products", "delete"}) /\ p # NoParent
          BY <1>1, <1>2, <3>1, <4>1, ParentAssumption DEF Listed, Editor
        <5> QED BY <4>1, <5>1 DEF InsertCategory, TooLate
      <4>2. CASE d # c
        BY <1>1, <1>2, <3>1, <4>2 DEF EditorFits, Closed, InsertCategory, TreeInv, TreeTypeOK
      <4> QED BY <4>1, <4>2
    <3>6. editor[f].at = "delete" =>
              \A q \in Products : category'[q] \in editor[f].found => q \in late'
      BY <3>1 DEF EditorFits, InsertCategory
    <3> QED BY <1>2, <3>1, <3>2, <3>3, <3>4, <3>5, <3>6 DEF EditorFits
  <2> QED BY <2>1, <2>2
<1>9. NothingIsCutOff'
  <2>1. \A d \in stored' : parent'[d] \in stored' \cup {NoParent} \/ d \in moved' \cup late'
    <3> SUFFICES ASSUME NEW d \in stored'
                 PROVE  parent'[d] \in stored' \cup {NoParent} \/ d \in moved' \cup late'
      OBVIOUS
    <3>1. CASE d = c
      BY <1>1, <1>2, <3>1 DEF InsertCategory, TooLate
    <3>2. CASE d # c
      BY <1>1, <1>2, <3>2 DEF InsertCategory, TreeInv, TreeTypeOK, NothingIsCutOff
    <3> QED BY <3>1, <3>2
  <2>2. \A q \in Products : category'[q] \in stored' \cup {NoParent} \/ q \in late'
    BY <1>2 DEF InsertCategory, TreeInv, NothingIsCutOff
  <2> QED BY <2>1, <2>2 DEF NothingIsCutOff
<1> QED BY <1>4, <1>5, <1>6, <1>7, <1>8, <1>9 DEF TreeInv

LEMMA SaveInv ==
    ASSUME TreeInv, NEW e \in Editors, Save(e)
    PROVE  TreeInv'
<1> DEFINE c == editor[e].node
           p == editor[e].target
<1>1. /\ c \in Categories \cap stored
      /\ p \in Ids \cup {NoParent} /\ p \in Categories \cup {NoParent} /\ Harmless(c, p)
    BY DEF TreeInv, TreeTypeOK, EditorsFit, EditorFits, Save, Editor
<1>2. /\ Ids' = Ids /\ stored' = stored /\ ancestors' = ancestors /\ moved \subseteq moved'
      /\ \A d \in Categories : parent'[d] = IF d = c THEN p ELSE parent[d]
      /\ \A d \in Categories \ moved' : parent'[d] = parent[d]
    BY <1>1 DEF Save, Ids, TreeInv, TreeTypeOK
<1>3. TreeTypeOK'
  <2>1. parent' \in [Categories -> Categories \cup {NoParent}]
    BY <1>1 DEF TreeInv, TreeTypeOK, Save
  <2> QED BY <1>1, <2>1, WriterEnds DEF TreeInv, TreeTypeOK, Save
<1>4. IdsAreFresh'
    BY <1>2, WriterEnds DEF TreeInv, IdsAreFresh, Save
<1>5. \A q : Above(q)' = Above(q)
    BY <1>2 DEF Above
<1>6. AncestorsNest'
    BY <1>1, <1>2, <1>5 DEF TreeInv, AncestorsNest
<1>7. MovesAreChecked'
  <2>1. moved' \subseteq moved \cup {c} /\ c \in Ids
    BY <1>1 DEF Save, Ids
  <2>2. \A d, q : Harmless(d, q)' = Harmless(d, q)
    BY <1>2 DEF Harmless
  <2>3. \A d \in moved' : Harmless(d, parent'[d])
    BY <1>1, <1>2, <2>1 DEF TreeInv, TreeTypeOK, MovesAreChecked
  <2> QED BY <1>2, <2>1, <2>2, <2>3 DEF TreeInv, MovesAreChecked
<1>8. EditorsFit'
  <2> SUFFICES ASSUME NEW f \in Editors PROVE EditorFits(editor[f])'
    BY DEF EditorsFit
  <2>1. CASE f = e
    BY <1>1, <2>1, WriterEnds, ParentAssumption DEF EditorFits, Save
  <2>2. CASE f # e
    <3>1. editor'[f] = editor[f] /\ EditorFits(editor[f])
      BY <2>2, WriterEnds DEF Save, TreeInv, EditorsFit
    <3>2. \A S : Closed(S) => Closed(S)'
      BY <1>1, <1>2 DEF Closed, Save, TreeInv, TreeTypeOK
    <3>3. \A d, q : Harmless(d, q)' = Harmless(d, q)
      BY <1>2 DEF Harmless
    <3> QED BY <1>2, <1>5, <3>1, <3>2, <3>3 DEF EditorFits, Save
  <2> QED BY <2>1, <2>2
<1>9. NothingIsCutOff'
    BY <1>1, <1>2 DEF Save, TreeInv, TreeTypeOK, NothingIsCutOff
<1> QED BY <1>3, <1>4, <1>6, <1>7, <1>8, <1>9 DEF TreeInv

LEMMA DeleteManyInv ==
    ASSUME TreeInv, NEW e \in Editors, DeleteMany(e)
    PROVE  TreeInv'
<1>1. /\ Ids' = Ids /\ stored' \subseteq stored
      /\ UNCHANGED <<parent, ancestors, category, moved, late>>
    BY DEF DeleteMany, Ids
<1>2. TreeTypeOK'
    BY WriterEnds DEF TreeInv, TreeTypeOK, DeleteMany
<1>3. IdsAreFresh'
    BY WriterEnds DEF TreeInv, IdsAreFresh, DeleteMany
<1>4. \A q : Above(q)' = Above(q)
    BY <1>1 DEF Above
<1>5. AncestorsNest'
    BY <1>1, <1>4 DEF TreeInv, AncestorsNest
<1>6. \A d, q : Harmless(d, q) => Harmless(d, q)'
    BY <1>1 DEF Harmless
<1>7. MovesAreChecked'
    BY <1>1, <1>6 DEF TreeInv, MovesAreChecked
<1>8. EditorsFit'
  <2> SUFFICES ASSUME NEW f \in Editors PROVE EditorFits(editor[f])'
    BY DEF EditorsFit
  <2>1. CASE f = e
    BY <2>1, WriterEnds, ParentAssumption DEF EditorFits, DeleteMany, TreeInv, EditorsFit
  <2>2. CASE f # e
    <3>1. editor'[f] = editor[f] /\ EditorFits(editor[f])
      BY <2>2, WriterEnds DEF DeleteMany, TreeInv, EditorsFit
    <3>2. \A S : Closed(S) => Closed(S)'
      BY <1>1 DEF Closed
    <3> QED BY <1>1, <1>4, <1>6, <3>1, <3>2 DEF EditorFits
  <2> QED BY <2>1, <2>2
<1>9. NothingIsCutOff'
    BY ParentAssumption DEF DeleteMany, TreeInv, TreeTypeOK, EditorsFit, EditorFits, Closed, NothingIsCutOff
<1> QED BY <1>2, <1>3, <1>5, <1>7, <1>8, <1>9 DEF TreeInv

LEMMA StoreProductInv ==
    ASSUME TreeInv, NEW q \in Products, NEW c \in Categories, StoreProduct(q, c)
    PROVE  TreeInv'
<1>1. /\ UNCHANGED <<stored, parent, ancestors, editor, gone, moved>>
      /\ late \subseteq late' /\ late' \subseteq late \cup {q}
      /\ \A x \in Products : category'[x] = IF x = q THEN c ELSE category[x]
    BY DEF StoreProduct, TreeInv, TreeTypeOK
<1>2. TreeTypeOK'
    BY DEF TreeInv, TreeTypeOK, StoreProduct
<1>3. IdsAreFresh' /\ AncestorsNest' /\ MovesAreChecked'
    BY <1>1 DEF TreeInv, IdsAreFresh, AncestorsNest, MovesAreChecked, Harmless, Above, Ids
<1>4. EditorsFit'
  <2> SUFFICES ASSUME NEW f \in Editors PROVE EditorFits(editor[f])'
    BY DEF EditorsFit
  <2>1. EditorFits(editor[f]) /\ editor[f] \in Editor
    BY DEF TreeInv, TreeTypeOK, EditorsFit
  <2>2. ASSUME editor[f].at = "delete", NEW x \in Products, category'[x] \in editor[f].found
        PROVE  x \in late'
    <3>1. CASE x # q
      BY <1>1, <2>1, <2>2, <3>1 DEF EditorFits
    <3>2. CASE x = q
      <4>1. c \in Listed({"delete"}) /\ c # NoParent
        BY <1>1, <2>1, <2>2, <3>2, ParentAssumption DEF Listed, Editor
      <4> QED BY <3>2, <4>1 DEF StoreProduct, TooLate
    <3> QED BY <3>1, <3>2
  <2>3. Closed(editor[f].found) => Closed(editor[f].found)'
    BY <1>1 DEF Closed
  <2> QED BY <1>1, <2>1, <2>2, <2>3 DEF EditorFits, Harmless, Above, Ids
<1>5. NothingIsCutOff'
    BY <1>1, ParentAssumption DEF StoreProduct, TooLate, TreeInv, NothingIsCutOff
<1> QED BY <1>2, <1>3, <1>4, <1>5 DEF TreeInv

LEMMA TreeSteps == TreeInv /\ [TreeNext]_treeVars => TreeInv'
<1> SUFFICES ASSUME TreeInv, [TreeNext]_treeVars PROVE TreeInv'
    OBVIOUS
<1>1. ASSUME NEW e \in Editors, EditorStep(e) PROVE TreeInv'
    BY <1>1, InsertCategoryInv, CheckDescentInv, ListSiblingsInv, CheckParentInv, CheckLoopInv,
       SaveInv, WriteRefusedInv, CheckProductsInv, DeleteManyInv DEF EditorStep
<1>2. ASSUME NEW e \in Editors, NEW c \in Categories, NEW p \in Categories \cup {NoParent},
             CreateCategory(e, c, p) \/ Move(e, c, p) \/ Update(e, c, p)
      PROVE  TreeInv'
    BY <1>2, CreateCategoryInv, MoveInv
<1>3. ASSUME NEW e \in Editors, NEW c \in Categories, NEW cascade \in BOOLEAN,
             RemoveCategory(e, c, cascade)
      PROVE  TreeInv'
    BY <1>3, RemoveCategoryInv
<1>4. ASSUME NEW q \in Products, NEW c \in Categories, StoreProduct(q, c) PROVE TreeInv'
    BY <1>4, StoreProductInv
<1> QED BY <1>1, <1>2, <1>3, <1>4, TreeStutters DEF TreeNext

\* The inductive invariant holds whatever the editors do.
THEOREM TreeHolds == TreeSpec => []TreeInv
    BY TreeStarts, TreeSteps, PTL DEF TreeSpec

\* Documents, lists of ancestors, products and editors keep their types.
THEOREM TreeTypes == TreeSpec => []TreeTypeOK
<1>1. TreeInv => TreeTypeOK
    BY DEF TreeInv
<1> QED BY <1>1, TreeHolds, PTL

-----------------------------------------------------------------------------
(* The category tree: why one moved category makes no loop *)

\* The lists of ancestors shrink from a category that was not moved to its parent, so
\* one with a smallest list has its parent elsewhere.
LEMMA UnmovedMakeNoLoop ==
    ASSUME TreeInv, NEW S \in SUBSET stored, S # {}, S \cap moved = {}
    PROVE  \E c \in S : parent[c] \notin S
<1> DEFINE Lists == {ancestors[c] : c \in S}
           Smaller == StrictSubsetOrdering(Categories)
<1>1. Lists \subseteq SUBSET Categories /\ Lists # {}
    BY DEF TreeInv, TreeTypeOK
<1>2. IsWellFoundedOn(Smaller, SUBSET Categories)
    BY FS_StrictSubsetOrderingWellFounded, FS_FiniteSubsetsOfFinite, CategoriesAssumption
<1>3. PICK A \in Lists : \A B \in Lists : <<B, A>> \notin Smaller
  <2> HIDE DEF Lists, Smaller
  <2> QED BY <1>1, <1>2, WFMin
<1>4. PICK c \in S : ancestors[c] = A
    OBVIOUS
<1>5. ASSUME parent[c] \in S PROVE FALSE
  <2>1. c \in Categories /\ parent[c] \in Categories /\ parent[c] # NoParent
    BY <1>5, ParentAssumption DEF TreeInv, TreeTypeOK
  <2>2. ancestors[c] = ancestors[parent[c]] \cup {parent[c]}
    BY <2>1, <1>4 DEF TreeInv, AncestorsNest, Above
  <2>3. parent[c] \notin ancestors[parent[c]]
    BY <2>1 DEF TreeInv, AncestorsNest
  <2>4. ancestors[parent[c]] \in SUBSET Categories /\ ancestors[c] \in SUBSET Categories
    BY <2>1 DEF TreeInv, TreeTypeOK
  <2>5. <<ancestors[parent[c]], ancestors[c]>> \in Smaller
    BY <2>2, <2>3, <2>4 DEF StrictSubsetOrdering
  <2> QED BY <1>3, <1>4, <1>5, <2>5
<1> QED BY <1>5

\* A loop through the only category that was moved, m, would go on from its parent
\* through categories that do not have m above them, and never come back to m.
LEMMA OneMovedMakesNoLoop ==
    ASSUME TreeInv, NEW m, moved = {m}
    PROVE  NoLoop
<1> SUFFICES ASSUME NEW S \in SUBSET stored, S # {}, \A c \in S : parent[c] \in S PROVE FALSE
    BY DEF NoLoop
<1>1. m \in S
    BY UnmovedMakeNoLoop
<1> DEFINE Apart == {c \in S : c # m /\ m \notin ancestors[c]}
<1>2. parent[m] \in Apart
    BY <1>1, ParentAssumption DEF TreeInv, TreeTypeOK, MovesAreChecked, Harmless
<1>3. ASSUME NEW c \in Apart PROVE parent[c] \in Apart
  <2>1. parent[c] \in S /\ parent[c] # NoParent /\ c \in Categories
    BY <1>3, ParentAssumption DEF TreeInv, TreeTypeOK
  <2>2. ancestors[c] = ancestors[parent[c]] \cup {parent[c]}
    BY <2>1 DEF TreeInv, AncestorsNest, Above
  <2> QED BY <2>1, <2>2
<1>4. \E c \in Apart : parent[c] \notin Apart
    BY <1>2, UnmovedMakeNoLoop
<1> QED BY <1>3, <1>4

LEMMA LoopTakesTwo == TreeInv => LoopTakesTwoMoves
<1> SUFFICES ASSUME TreeInv, Cardinality(moved) <= 1 PROVE NoLoop
    BY DEF LoopTakesTwoMoves
<1>1. IsFiniteSet(moved)
    BY CategoriesAssumption, FS_Subset DEF TreeInv, TreeTypeOK
<1>2. Cardinality(moved) \in Nat
    BY <1>1, FS_CardinalityType
<1>3. CASE Cardinality(moved) = 0
  <2>1. moved = {}
    BY <1>1, <1>3, FS_EmptySet
  <2> QED BY <2>1, UnmovedMakeNoLoop DEF NoLoop
<1>4. CASE Cardinality(moved) = 1
  <2>1. PICK m : moved = {m}
    BY <1>1, <1>4, FS_Singleton
  <2> QED BY <2>1, OneMovedMakesNoLoop
<1> QED BY <1>2, <1>3, <1>4

\* CategoriesService: a loop takes two moved categories, and a removal cuts nothing off
\* but what was moved, or stored while it ran.
THEOREM TreeIsWhole == TreeSpec => []TreeStaysWhole
<1>1. TreeInv => TreeStaysWhole
    BY LoopTakesTwo DEF TreeStaysWhole, TreeInv
<1> QED BY <1>1, TreeHolds, PTL

-----------------------------------------------------------------------------
(* The parts together *)

\* Whatever part of what surrounds a merchant runs, it runs as its own specification says,
\* the other parts at rest.
LEMMA MerchantParts ==
    MerchantSpec => /\ TreeSpec /\ SessionSpec /\ AccountSpec
                    /\ ProvisioningSpec /\ VersionsSpec /\ MerchantPromptsSpec
                    /\ BotPromptsSpec /\ KleemSpec /\ AddressesSpec
<1>1. MerchantInit => /\ TreeInit /\ SessionInit /\ AccountInit /\ ProvisioningInit
                      /\ VersionsInit /\ PromptsInit /\ BotPromptsInit /\ KleemInit
                      /\ AddressesInit
    BY DEF MerchantInit
<1>2. [MerchantNext]_merchantVars =>
          /\ [TreeNext]_treeVars /\ [SessionNext]_sessionVars /\ [AccountNext]_accountVars
          /\ [ProvisioningNext]_provisioningVars /\ [VersionsNext]_versionVars
          /\ [PromptsNext]_promptVars /\ [BotPromptsNext]_curateVars /\ [KleemNext]_kleemVars
          /\ [AddressesNext]_addressVars
    BY DEF MerchantNext, merchantVars
<1> QED
    BY <1>1, <1>2, PTL
       DEF MerchantSpec, TreeSpec, SessionSpec, AccountSpec, ProvisioningSpec, VersionsSpec,
           MerchantPromptsSpec, BotPromptsSpec, KleemSpec, AddressesSpec

\* The variables of all the parts keep their types.
THEOREM MerchantTypes == MerchantSpec => []MerchantTypeOK
<1>1. MerchantPromptsSpec /\ BotPromptsSpec => [](PromptsTypeOK /\ BotPromptsTypeOK)
    BY PromptsTypes DEF PromptsSpec
<1>2. /\ TreeTypeOK /\ SessionTypeOK /\ AccountTypeOK
      /\ ProvisioningTypeOK /\ VersionsTypeOK /\ PromptsTypeOK
      /\ BotPromptsTypeOK /\ KleemTypeOK /\ AddressesTypeOK
      => MerchantTypeOK
    BY DEF MerchantTypeOK
<1> QED
    BY <1>1, <1>2, MerchantParts, TreeTypes, SessionTypes, AccountTypes, ProvisioningTypes,
       VersionsTypes, KleemTypes, AddressesTypes, PTL

\* What the parts promise holds of their composition, which is what the run checks.
THEOREM MerchantSoundness ==
    MerchantSpec => [](/\ TreeStaysWhole /\ TokensEndOnce /\ SpentLinksAreDead
                       /\ AnsweredHasMerchant /\ MerchantsMatchWorkflows
                       /\ NewestVersionRuns /\ PromptsAreCurrent /\ TalkIsSound
                       /\ AddressesAreKept)
<1>1. MerchantPromptsSpec /\ BotPromptsSpec => []PromptsAreCurrent
    BY PromptsHold DEF PromptsSpec
<1> QED
    BY <1>1, MerchantParts, TreeIsWhole, TokensEnd, LinksDie, VerifiedHasOneShop,
       ProvisioningAgrees, HistoryIsTrue, KleemIsSound, AddressesStay, PTL
=============================================================================
