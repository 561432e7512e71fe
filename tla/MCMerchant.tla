----------------------------- MODULE MCMerchant -----------------------------
(***************************************************************************)
(* What surrounds a merchant's conversations, on small instances: a user's *)
(* account and sessions, the making of a merchant, its prompt, categories  *)
(* and public address, and the versions of its workflow; and the prompts   *)
(* and talks of the support bot.  They share no state, so that checking    *)
(* them together means checking each by itself: a behaviour is one of the  *)
(* part that its initial state names, the others at rest.                  *)
(***************************************************************************)
EXTENDS CategoryTree, Sessions, Account, Provisioning, WorkflowVersions,
        Prompts, KleemChat, ShopAddresses, TLC

CONSTANTS c1, c2, c3, s1, s2, e1, e2, j1, j2, j3, k1, k2, k3, a1, a2, v1, v2, v3,
          o1, o2, l1, l2, h1, d1, u1, u2, t1, g1,
          q1, q2, n2, m1, m2, x1, x2, f1, f2, f3

\* Two categories with one slug, and one with another.
MCSlugOf == c1 :> s1 @@ c2 :> s2 @@ c3 :> s1

\* c1 and c3 are interchangeable: the one nearer the root is called c1.
InDepthOrder ==
    /\ c3 \in stored => c1 \in stored
    /\ Cardinality(ancestors[c1]) <= Cardinality(ancestors[c3]) \/ c3 \notin stored

VARIABLE part

merchantVars ==
    <<part, treeVars, sessionVars, accountVars, provisioningVars, versionVars,
      promptVars, curateVars, kleemVars, addressVars>>

\* What is fresh is interchangeable: it is used in one order.
InOneOrder ==
    /\ o2 \in mailed => o1 \in mailed
    /\ l2 \in mailed => l1 \in mailed
    /\ Len(links) = 2 => links[1] = l1
    /\ shops \subseteq {h1} \/ Cardinality(shops) > 1

\* The storefronts and the widgets do not touch each other: each part has the calls that
\* can meet in it, two and three of them.  m2 comes later than m1, and around
\* the widgets only the last call, which is a change, may be his.
FewAddresses ==
    /\ address = m1 :> x1 @@ m2 :> NotYet
    /\ stores = [m \in Sellers |-> <<>>] \/ part = "shops"
    /\ widgets = [m \in Sellers |-> <<>>] \/ part = "chats"

AddressOrder ==
    /\ deal'[f2].at # "idle" => deal[f1].at # "idle"
    /\ deal'[f3].at # "idle" => deal[f2].at # "idle" /\ part = "chats"
    /\ part = "chats" => \A c \in Deals :
         /\ deal'[c].op \in {"none", "rename", "widget"}
         /\ deal'[c].who = m2 => c = f3 /\ deal'[c].op = "rename"
    /\ deal'[f3].op # "widget"
    /\ part = "shops" => \A c \in Deals :
         /\ deal'[c].op # "widget"
         /\ deal'[c].op = "rename" => deal'[c].asked = deal'[c].slug

\* What matters is whether a copy is of the merchant's present prompt: the second
\* configuration is met before there was a second template.
FewPrompts == prompt.config = g1 \/ (prompt.template = t1 /\ versions \subseteq {t1})

MerchantInit ==
    /\ part \in {"tree", "sessions", "account", "provisioning", "versions",
               "prompts", "kleem", "talk", "chats", "shops"}
    /\ TreeInit
    /\ IF part = "tree" THEN InDepthOrder ELSE stored = {}
    /\ SessionInit
    /\ session \in (IF part = "sessions" THEN {{}, {j1}} ELSE {{}})
    /\ AccountInit
    /\ IF part = "account" THEN InOneOrder ELSE ~user.there
    /\ ProvisioningInit
    /\ VersionsInit
    /\ part # "versions" => history = <<>> /\ running = d1
    /\ PromptsInit
    /\ part # "prompts" => prompt = [template |-> Blank, config |-> g1]
    /\ FewPrompts
    /\ BotPromptsInit
    /\ KleemInit
    /\ AddressesInit
    /\ FewAddresses

\* Calls are interchangeable, and so are fresh tokens: they are used in one order.
EditorOrder == editor'[e2].at # "idle" => editor[e1].at # "idle"

CallOrder ==
    /\ call'[k2].at # "idle" => call[k1].at # "idle"
    /\ call'[k3].at # "idle" => call[k2].at # "idle"
    /\ j3 \in {call'[k].new : k \in Calls} =>
         j2 \in delivered \cup {call[k].new : k \in Calls}

\* What the last call would mail, nobody comes after it to use.
VisitOrder ==
    /\ visit'[v2].at # "idle" => visit[v1].at # "idle"
    /\ visit'[v3].at # "idle" => visit[v2].at # "idle"
    /\ visit'[v3].op \notin {"resend", "forgot"}
    /\ InOneOrder'

\* Codes and shops, and links: what is asked about the one does not touch the other.
OneSubject ==
    \/ /\ \A v \in Visits : visit[v].op \in {"none", "register", "verify", "ensure", "resend"}
       /\ l2 \notin mailed
    \/ /\ \A v \in Visits : visit[v].op \in {"none", "forgot", "reset", "change"}
       /\ ~purged

JobOrder == job'[a2].at # "idle" => job[a1].at # "idle"
PrompterOrder == prompter'[u2].at # "idle" => prompter[u1].at # "idle"
CuratorOrder == curator'[u2].at # "idle" => curator[u1].at # "idle"

AskerOrder ==
    /\ asker'[q2].at # "idle" => asker[q1].at # "idle"
    /\ asker'[q1].host # n2

MerchantNext ==
    /\ UNCHANGED part
    /\ \/ /\ part = "tree"
          /\ UNCHANGED <<sessionVars, accountVars, provisioningVars, versionVars, promptVars,
                         curateVars, kleemVars, addressVars>>
          /\ TreeNext /\ EditorOrder
       \/ /\ part = "sessions"
          /\ UNCHANGED <<treeVars, accountVars, provisioningVars, versionVars, promptVars,
                         curateVars, kleemVars, addressVars>>
          /\ SessionNext /\ CallOrder
       \/ /\ part = "account"
          /\ UNCHANGED <<treeVars, sessionVars, provisioningVars, versionVars, promptVars,
                         curateVars, kleemVars, addressVars>>
          /\ AccountNext /\ VisitOrder /\ OneSubject'
       \/ /\ part = "provisioning"
          /\ UNCHANGED <<treeVars, sessionVars, accountVars, versionVars, promptVars,
                         curateVars, kleemVars, addressVars>>
          /\ ProvisioningNext /\ JobOrder
       \/ /\ part = "versions"
          /\ UNCHANGED <<treeVars, sessionVars, accountVars, provisioningVars, promptVars,
                         curateVars, kleemVars, addressVars>>
          /\ VersionsNext
       \/ /\ part = "prompts"
          /\ UNCHANGED <<treeVars, sessionVars, accountVars, provisioningVars, versionVars,
                         curateVars, kleemVars, addressVars>>
          /\ PromptsNext /\ PrompterOrder /\ FewPrompts'
       \/ /\ part = "kleem"
          /\ UNCHANGED <<treeVars, sessionVars, accountVars, provisioningVars, versionVars,
                         promptVars, kleemVars, addressVars>>
          /\ BotPromptsNext /\ CuratorOrder
       \/ /\ part = "talk"
          /\ UNCHANGED <<treeVars, sessionVars, accountVars, provisioningVars, versionVars,
                         promptVars, curateVars, addressVars>>
          /\ KleemNext /\ AskerOrder
       \/ /\ part \in {"chats", "shops"}
          /\ UNCHANGED <<treeVars, sessionVars, accountVars, provisioningVars, versionVars,
                         promptVars, curateVars, kleemVars>>
          /\ AddressesNext /\ AddressOrder

MerchantSpec == MerchantInit /\ [][MerchantNext]_merchantVars

\* The type invariants of the parts.
MerchantTypeOK ==
    /\ TreeTypeOK /\ SessionTypeOK /\ AccountTypeOK
    /\ ProvisioningTypeOK /\ VersionsTypeOK /\ PromptsTypeOK
    /\ BotPromptsTypeOK /\ KleemTypeOK /\ AddressesTypeOK
=============================================================================
