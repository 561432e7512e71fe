----------------------------- MODULE MCContent ------------------------------
(***************************************************************************)
(* What is derived from stored data, on small instances: the search index, *)
(* that of the support bot, and the two-level cache.  They share no state, *)
(* so that checking them together means checking each by itself: a         *)
(* behaviour is one of the part that its initial state names, the others   *)
(* at rest.                                                                *)
(***************************************************************************)
EXTENDS SearchIndex, BotFaq, TwoLevelCache, TLC

CONSTANTS i1, i2, q1, q2, r1, r2, w1, n1, n2

MCLibraries == {i1 :> "faq" @@ i2 :> "faq", i1 :> "url" @@ i2 :> "document",
                i1 :> "product" @@ i2 :> "url"}
MCNodeOf == r1 :> n1 @@ r2 :> n2 @@ w1 :> n1

VARIABLE part

contentVars == <<part, indexVars, botVars, cacheVars>>

ContentInit ==
    /\ part \in {"index", "bot", "cache"}
    /\ IndexInit
    /\ part # "index" => /\ library = CHOOSE L \in Libraries : TRUE
                         /\ \A i \in Items : status[i] = "absent"
    /\ BotInit
    /\ CacheInit

\* Requests are interchangeable: they are used in one order.
InOrder == work'[q2].at # "idle" => work[q1].at # "idle"

ContentNext ==
    \/ part = "index" /\ IndexNext /\ InOrder /\ UNCHANGED <<part, botVars, cacheVars>>
    \/ part = "bot" /\ BotNext /\ UNCHANGED <<part, indexVars, cacheVars>>
    \/ part = "cache" /\ CacheNext /\ UNCHANGED <<part, indexVars, botVars>>

\* What is at rest has no step to be fair to.
ContentSpec ==
    ContentInit /\ [][ContentNext]_contentVars /\ IndexFairness /\ CacheFairness

\* The type invariants of the three parts.
ContentTypeOK == IndexTypeOK /\ BotTypeOK /\ CacheTypeOK
=============================================================================
