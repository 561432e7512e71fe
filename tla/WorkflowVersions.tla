-------------------------- MODULE WorkflowVersions --------------------------
(***************************************************************************)
(* One n8n workflow and the history of its versions.  An update reads the  *)
(* workflow and the newest number, patches n8n and stores the version; a   *)
(* rollback patches n8n with an old version and stores that one again,     *)
(* numbered by what it was, not by what is newest.  n8n and MongoDB are    *)
(* changed one after the other, and calls interleave between the two.      *)
(*                                                                         *)
(* Sources: update and rollback of modules/n8n-workflow/                   *)
(* n8n-workflow.service.ts, n8n-workflow.controller.ts and                 *)
(* modules/workflow-history.  How a workflow comes to be is Provisioning.  *)
(***************************************************************************)
EXTENDS Naturals, Sequences, FiniteSets

CONSTANTS
    Definitions,    \* what a workflow may be
    Changes,        \* calls of update and rollback, one after another each
    MaxVersions,    \* bound: entries of the history
    MaxOutages      \* bound: awaited calls that throw

ASSUME VersionBounds == MaxVersions \in Nat \ {0} /\ MaxOutages \in Nat

VARIABLES
    running,     \* what n8n runs
    history,     \* the entries, in the order of their storing
    change,      \* change[c]: the call c awaits
    diverged,    \* n8n was patched without an entry, by two calls at once, or back to
                 \* a version that was not the newest, and nothing has mended it (history)
    outages

versionVars == <<running, history, change, diverged, outages>>

\* json, version: what is to run, and its number.  alone: no other call was under way
\* since this one began.
ChangeState == [op : {"none", "update", "rollback"},
                at : {"idle", "number", "patch", "store"}, json : Definitions,
                version : 0..MaxVersions + 1, alone : BOOLEAN]

VersionsTypeOK ==
    /\ running \in Definitions
    /\ history \in Seq([version : 1..MaxVersions + 1, json : Definitions])
    /\ change \in [Changes -> ChangeState]
    /\ diverged \in BOOLEAN
    /\ outages \in 0..MaxOutages

\* createForMerchant has stored version 1, or has failed to.
VersionsInit ==
    /\ running \in Definitions
    /\ history \in {<<>>, <<[version |-> 1, json |-> running]>>}
    /\ change = [c \in Changes |-> [op |-> "none", at |-> "idle", json |-> running,
                                    version |-> 0, alone |-> FALSE]]
    /\ diverged = FALSE
    /\ outages = 0

-----------------------------------------------------------------------------
(* Helpers *)

Entries == {history[k] : k \in DOMAIN history}
IsNewest(e) == \A f \in Entries : f.version <= e.version
UnderWay == {c \in Changes : change[c].at # "idle"}

\* A call begins; those under way are alone no more.
BeginChange(c, o, at, j, v) ==
    /\ change[c].at = "idle"
    /\ Len(history) < MaxVersions
    /\ change' = [d \in Changes |->
                    IF d = c THEN [op |-> o, at |-> at, json |-> j, version |-> v,
                                   alone |-> UnderWay = {}]
                    ELSE [change[d] EXCEPT !.alone = FALSE]]

StepTo(c, at) == change' = [change EXCEPT ![c].at = at]
EndChange(c) == change' = [change EXCEPT ![c] = [op |-> "none", at |-> "idle", json |-> @.json,
                                                 version |-> 0, alone |-> FALSE]]

-----------------------------------------------------------------------------
(* update *)

\* The workflow is read, to be changed.
UpdateWorkflow(c, j) ==
    /\ BeginChange(c, "update", "number", j, 0)
    /\ UNCHANGED <<running, history, diverged, outages>>

Numbered(r, v) == [r EXCEPT !.at = "patch", !.version = v]

\* One more than the newest version.
NextNumber(c) ==
    /\ change[c].at = "number"
    /\ \/ history = <<>> /\ change' = [change EXCEPT ![c] = Numbered(@, 1)]
       \/ \E e \in Entries :
            /\ IsNewest(e)
            /\ change' = [change EXCEPT ![c] = Numbered(@, e.version + 1)]
    /\ UNCHANGED <<running, history, diverged, outages>>

-----------------------------------------------------------------------------
(* rollback *)

\* findVersion answers with one of the entries of that number, if there are more.
RollbackWorkflow(c, v) ==
    /\ \E e \in Entries : e.version = v /\ BeginChange(c, "rollback", "patch", e.json, v + 1)
    /\ UNCHANGED <<running, history, diverged, outages>>

-----------------------------------------------------------------------------
(* Both *)

\* Mutation of Patch: n8n is given what it runs already.
PatchNothing(c) ==
    /\ change[c].at = "patch"
    /\ diverged' = (diverged \/ ~change[c].alone)
    /\ StepTo(c, "store")
    /\ UNCHANGED <<running, history, outages>>

Patch(c) ==
    /\ change[c].at = "patch"
    /\ running' = change[c].json
    /\ diverged' = (diverged \/ ~change[c].alone)
    /\ StepTo(c, "store")
    /\ UNCHANGED <<history, outages>>

\* Nothing makes the number unique.
StoreVersion(c) ==
    LET entry == [version |-> change[c].version, json |-> change[c].json]
        newest == \A e \in Entries : e.version < entry.version
    IN  /\ change[c].at = "store"
        /\ Len(history) < MaxVersions
        /\ history' = Append(history, entry)
        /\ diverged' = (~newest \/ (diverged /\ ~change[c].alone))
        /\ EndChange(c)
        /\ UNCHANGED <<running, outages>>

\* The awaited call throws; n8n may have taken the patch.
Outage(c) ==
    /\ outages < MaxOutages
    /\ c \in UnderWay
    /\ \/ change[c].at # "patch" /\ UNCHANGED running
       \/ change[c].at = "patch" /\ running' \in {running, change[c].json}
    /\ diverged' = (diverged \/ change[c].at \in {"patch", "store"})
    /\ EndChange(c)
    /\ outages' = outages + 1
    /\ UNCHANGED history

VersionsNext ==
    \E c \in Changes :
        \/ NextNumber(c) \/ Patch(c) \/ StoreVersion(c) \/ Outage(c)
        \/ \E j \in Definitions : UpdateWorkflow(c, j)
        \/ \E v \in 1..MaxVersions : RollbackWorkflow(c, v)

VersionsSpec == VersionsInit /\ [][VersionsNext]_versionVars

-----------------------------------------------------------------------------
(* Properties *)

\* With no call under way, the history's newest version is one entry, and it is what
\* n8n runs: unless a patch was not recorded, calls met, or a rollback took up an older
\* version, whose number plus one is taken already.  One update alone mends all of it.
NewestVersionRuns ==
    UnderWay = {} /\ ~diverged =>
        \A e \in Entries : IsNewest(e) =>
            /\ e.json = running
            /\ Cardinality({k \in DOMAIN history : history[k].version = e.version}) = 1
=============================================================================
