---------------------------- MODULE Provisioning ----------------------------
(***************************************************************************)
(* Making a merchant: a document, a workflow in n8n that the document      *)
(* names, and a storefront, one after another, with a rollback in the      *)
(* catch block that undoes one by one and ignores what fails.  An admin    *)
(* may have a workflow made for a merchant at any time, and a merchant may *)
(* be removed at any time.                                                 *)
(*                                                                         *)
(* Sources: modules/merchants/services/merchant-provisioning.service.ts,   *)
(* merchant-deletion.service.ts, repositories/mongo-merchants.repository   *)
(* .ts and modules/n8n-workflow/n8n-workflow.service.ts.                   *)
(***************************************************************************)
EXTENDS Naturals

CONSTANTS
    Merchants,
    Jobs,          \* calls of create or of the admin's createForMerchant
    NoMerchant,
    NoWorkflow,
    MaxErrors      \* bound: awaited calls that throw

ASSUME NamesAssumption == NoMerchant \notin Merchants /\ NoWorkflow \notin Jobs
ASSUME ErrorsAssumption == MaxErrors \in Nat

VARIABLES
    merchants,     \* merchants with a document
    workflowId,    \* workflowId[m], as the document says
    workflows,     \* workflows in n8n, each called after the job that made it
    active,        \* those n8n runs
    storefronts,   \* merchants with a storefront
    job,           \* job[j]: see JobState
    removed,       \* merchants removed by a call (history)
    rivals,        \* merchants for whom two jobs were under way at once, or one after
                   \* another (history)
    stray,         \* workflows and merchants that an error left behind (history)
    errors

n8nVars == <<workflows, active>>
provisioningVars == <<merchants, workflowId, n8nVars, storefronts, job, removed, rivals,
                      stray, errors>>

Making == {"workflow", "activate", "link", "history", "save", "storefront"}
Undoing == {"deactivate", "delete", "remove"}
JobState == [op : {"none", "create", "admin"}, merchant : Merchants \cup {NoMerchant},
             at : {"idle", "done", "failed"} \cup Making \cup Undoing,
             holds : BOOLEAN]    \* wfId is set

ProvisioningTypeOK ==
    /\ merchants \subseteq Merchants
    /\ workflowId \in [Merchants -> Jobs \cup {NoWorkflow}]
    /\ workflows \subseteq Jobs
    /\ active \subseteq workflows
    /\ storefronts \subseteq Merchants
    /\ job \in [Jobs -> JobState]
    /\ removed \subseteq Merchants
    /\ rivals \subseteq Merchants
    /\ stray \subseteq Jobs \cup Merchants
    /\ errors \in 0..MaxErrors

ProvisioningInit ==
    /\ merchants = {}
    /\ workflowId = [m \in Merchants |-> NoWorkflow]
    /\ workflows = {}
    /\ active = {}
    /\ storefronts = {}
    /\ job = [j \in Jobs |-> [op |-> "none", merchant |-> NoMerchant, at |-> "idle",
                              holds |-> FALSE]]
    /\ removed = {}
    /\ rivals = {}
    /\ stray = {}
    /\ errors = 0

-----------------------------------------------------------------------------
(* Helpers *)

JobAt(j, at) == job[j].at = at
Continue(j, at) == job' = [job EXCEPT ![j].at = at]
MerchantOf(j) == job[j].merchant

\* Where an error leads: the catch block of create, or out of the admin's call.
OnError(j) ==
    IF job[j].op = "admin" THEN "failed" ELSE IF job[j].holds THEN "deactivate" ELSE "remove"

\* A job that ends in an error when n8n has its workflow, one of made, without knowing
\* its id.
Orphan(j, made) == IF j \in made /\ ~job[j].holds THEN {j} ELSE {}

BeginJob(j, o, m) ==
    /\ JobAt(j, "idle")
    /\ job' = [job EXCEPT ![j] = [@ EXCEPT !.op = o, !.merchant = m, !.at = "workflow"]]
    /\ rivals' = IF \E i \in Jobs : MerchantOf(i) = m THEN rivals \cup {m} ELSE rivals

-----------------------------------------------------------------------------
(* create and createForMerchant *)

\* The document is stored before the try block.
CreateMerchant(j, m) ==
    /\ m \notin merchants \cup removed
    /\ \A i \in Jobs : MerchantOf(i) # m
    /\ merchants' = merchants \cup {m}
    /\ BeginJob(j, "create", m)
    /\ UNCHANGED <<workflowId, n8nVars, storefronts, removed, stray, errors>>

\* The admin's route does not ask whether the merchant has a workflow.
AdminCreate(j, m) ==
    /\ m \in merchants
    /\ BeginJob(j, "admin", m)
    /\ UNCHANGED <<merchants, workflowId, n8nVars, storefronts, removed, stray, errors>>

CreateWorkflow(j) ==
    /\ JobAt(j, "workflow")
    /\ workflows' = workflows \cup {j}
    /\ Continue(j, "activate")
    /\ UNCHANGED <<merchants, workflowId, active, storefronts, removed, rivals, stray, errors>>

\* An error is only logged.
Activate(j) ==
    /\ JobAt(j, "activate")
    /\ active' \in {active, active \cup {j}}
    /\ Continue(j, "link")
    /\ UNCHANGED <<merchants, workflowId, workflows, storefronts, removed, rivals, stray,
                   errors>>

\* merchants.update throws when the merchant is gone.
LinkWorkflow(j) ==
    LET m == MerchantOf(j)
    IN  /\ JobAt(j, "link")
        /\ IF m \in merchants
           THEN /\ workflowId' = [workflowId EXCEPT ![m] = j]
                /\ Continue(j, "history")
                /\ UNCHANGED stray
           ELSE /\ Continue(j, OnError(j))
                /\ stray' = stray \cup Orphan(j, workflows)
                /\ UNCHANGED workflowId
        /\ UNCHANGED <<merchants, n8nVars, storefronts, removed, rivals, errors>>

\* The version is stored; only now does create() know its workflow.
StoreHistory(j) ==
    /\ JobAt(j, "history")
    /\ LET at == IF job[j].op = "admin" THEN "done" ELSE "save"
       IN  job' = [job EXCEPT ![j] = [@ EXCEPT !.at = at, !.holds = TRUE]]
    /\ UNCHANGED <<merchants, workflowId, n8nVars, storefronts, removed, rivals, stray, errors>>

\* The prompt is compiled and the document saved, with this workflow's id.
SaveMerchant(j) ==
    LET m == MerchantOf(j)
    IN  /\ JobAt(j, "save")
        /\ IF m \in merchants
           THEN workflowId' = [workflowId EXCEPT ![m] = j] /\ Continue(j, "storefront")
           ELSE UNCHANGED workflowId /\ Continue(j, OnError(j))
        /\ UNCHANGED <<merchants, n8nVars, storefronts, removed, rivals, stray, errors>>

CreateStorefront(j) ==
    /\ JobAt(j, "storefront")
    /\ storefronts' = storefronts \cup {MerchantOf(j)}
    /\ Continue(j, "done")
    /\ UNCHANGED <<merchants, workflowId, n8nVars, removed, rivals, stray, errors>>

\* The awaited call throws.  One to n8n that timed out may have made the workflow.
MakingFails(j) ==
    /\ errors < MaxErrors
    /\ job[j].at \in {"workflow", "link", "history", "save", "storefront"}
    /\ \E slow \in SUBSET {j} :
         /\ JobAt(j, "workflow") \/ slow = {}
         /\ workflows' = workflows \cup slow
         /\ stray' = stray \cup Orphan(j, workflows \cup slow)
    /\ Continue(j, OnError(j))
    /\ errors' = errors + 1
    /\ UNCHANGED <<merchants, workflowId, active, storefronts, removed, rivals>>

-----------------------------------------------------------------------------
(* The rollback *)

\* An error is only logged.
Deactivate(j) ==
    /\ JobAt(j, "deactivate")
    /\ active' \in {active, active \ {j}}
    /\ Continue(j, "delete")
    /\ UNCHANGED <<merchants, workflowId, workflows, storefronts, removed, rivals, stray,
                   errors>>

\* Mutation of DeleteWorkflow: it is only deactivated.
LeaveWorkflow(j) ==
    /\ JobAt(j, "delete")
    /\ Continue(j, "remove")
    /\ UNCHANGED <<merchants, workflowId, n8nVars, storefronts, removed, rivals, stray, errors>>

DeleteWorkflow(j) ==
    /\ JobAt(j, "delete")
    /\ workflows' = workflows \ {j}
    /\ active' = active \ {j}
    /\ Continue(j, "remove")
    /\ UNCHANGED <<merchants, workflowId, storefronts, removed, rivals, stray, errors>>

\* Mutation of RemoveMerchant: the document stays.
KeepMerchant(j) ==
    /\ JobAt(j, "remove")
    /\ Continue(j, "failed")
    /\ UNCHANGED <<merchants, workflowId, n8nVars, storefronts, removed, rivals, stray, errors>>

RemoveMerchant(j) ==
    /\ JobAt(j, "remove")
    /\ merchants' = merchants \ {MerchantOf(j)}
    /\ Continue(j, "failed")
    /\ UNCHANGED <<workflowId, n8nVars, storefronts, removed, rivals, stray, errors>>

\* The error is ignored, and what was to be undone stays, unless n8n timed out and has
\* deleted the workflow all the same.
UndoingFails(j) ==
    /\ errors < MaxErrors
    /\ \/ /\ JobAt(j, "delete")
          /\ \E slow \in SUBSET {j} : workflows' = workflows \ slow /\ active' = active \ slow
          /\ Continue(j, "remove")
          /\ stray' = stray \cup {j}
       \/ /\ JobAt(j, "remove")
          /\ Continue(j, "failed")
          /\ stray' = stray \cup {MerchantOf(j)}
          /\ UNCHANGED n8nVars
    /\ errors' = errors + 1
    /\ UNCHANGED <<merchants, workflowId, storefronts, removed, rivals>>

-----------------------------------------------------------------------------
\* remove and purge delete the document; the cleanup of the rest is empty.
RemoveOrPurge(m) ==
    /\ m \in merchants
    /\ merchants' = merchants \ {m}
    /\ removed' = removed \cup {m}
    /\ UNCHANGED <<workflowId, n8nVars, storefronts, job, rivals, stray, errors>>

ProvisioningNext ==
    \/ \E j \in Jobs :
         \/ CreateWorkflow(j) \/ Activate(j)   \/ LinkWorkflow(j)     \/ StoreHistory(j)
         \/ SaveMerchant(j)   \/ CreateStorefront(j) \/ MakingFails(j)
         \/ Deactivate(j)     \/ DeleteWorkflow(j)   \/ RemoveMerchant(j) \/ UndoingFails(j)
         \/ \E m \in Merchants : CreateMerchant(j, m) \/ AdminCreate(j, m)
    \/ \E m \in Merchants : RemoveOrPurge(m)

ProvisioningSpec == ProvisioningInit /\ [][ProvisioningNext]_provisioningVars

-----------------------------------------------------------------------------
(* Properties *)

Over(j) == job[j].at \in {"done", "failed"}

\* A workflow in n8n is that of a merchant who is there and names it, except a second
\* one of its merchant, one left by a removal, and one that an error left: inside
\* createForMerchant, which only answers with the id at its end, or in the rollback.
WorkflowHasItsMerchant ==
    \A j \in workflows :
        Over(j) => \/ MerchantOf(j) \in merchants /\ workflowId[MerchantOf(j)] = j
                   \/ MerchantOf(j) \in removed \cup rivals
                   \/ j \in stray

\* A merchant whose making is over has a storefront and the workflow it names, unless
\* the removal of one that failed was ignored, or jobs for it met.
MerchantIsWhole ==
    \A j \in Jobs :
        LET m == MerchantOf(j)
        IN  job[j].op = "create" /\ Over(j) /\ m \in merchants =>
                \/ m \in storefronts /\ workflowId[m] \in workflows
                \/ m \in stray \cup rivals

\* n8n, MongoDB and the storefronts agree on who is there: both of the above.
MerchantsMatchWorkflows == WorkflowHasItsMerchant /\ MerchantIsWhole
=============================================================================
