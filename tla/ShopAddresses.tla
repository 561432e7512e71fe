--------------------------- MODULE ShopAddresses ----------------------------
(***************************************************************************)
(* A merchant's public address, and the two documents that carry a copy of *)
(* it: the storefront, which customers open by its slug, and the settings  *)
(* of the chat widget, which the chat page opens by theirs.  Both copies   *)
(* are taken when the document is made; a new address is handed on to the  *)
(* widget by a second call, and to the storefront never.                   *)
(*                                                                         *)
(* Sources: modules/storefront, modules/chat/chat-widget.service.ts with   *)
(* its schema and repository, modules/public/public-router.controller.ts,  *)
(* and update and purge of modules/merchants.  The routes of the widget's  *)
(* own controller ask for ids that begin with m_, which no merchant has.   *)
(***************************************************************************)
EXTENDS Sequences, FiniteSets, Naturals

CONSTANTS
    Sellers,      \* merchants
    Addresses,    \* values of publicSlug
    Unlisted,     \* any slug that no address is: another spelling, or a made-up one
    NotYet,       \* of a merchant who is still to come
    Gone,         \* of one who was purged
    Nobody,
    Deals,        \* calls, one each
    MaxSlips      \* bound: awaited calls that throw

ASSUME AddressNames ==
    {Unlisted, NotYet, Gone} \cap Addresses = {} /\ NotYet # Gone /\ Unlisted \notin {NotYet, Gone}
ASSUME NobodyElse == Nobody \notin Sellers
ASSUME AddressBounds == MaxSlips \in Nat

VARIABLES
    address,      \* address[m]: publicSlug of the merchant m, unique
    stores,       \* stores[m]: the slugs of the storefronts of m
    widgets,      \* widgets[m]: the slugs of the widget settings of m
    deal,         \* deal[c]: the call c awaits
    left,         \* <<m, a>>: m had the address a, and changed it or was purged (history)
    picked,       \* <<m, s>>: the slug s was chosen for a storefront of m (history)
    adrift,       \* merchants whose widgets were left behind, and not mended (history)
    slips

addressVars == <<address, stores, widgets, deal, left, picked, adrift, slips>>

Spellings == Addresses \cup {Unlisted}

\* slug: the one to be stored; asked: the one in the request; nth: which storefront;
\* alone: no other change of the merchant's address has met this one.
Deal == [op : {"none", "rename", "create", "patch", "store", "widget"},
         at : {"idle", "write", "sync", "put", "find", "claim", "mirror", "insert", "test",
               "set", "look", "add", "done"},
         who : Sellers \cup {Nobody}, slug : Spellings, asked : Spellings, nth : Nat,
         alone : BOOLEAN]

\* A call that is over.
Ended == [op |-> "none", at |-> "done", who |-> Nobody, slug |-> Unlisted,
         asked |-> Unlisted, nth |-> 0, alone |-> TRUE]

AddressesTypeOK ==
    /\ address \in [Sellers -> Addresses \cup {NotYet, Gone}]
    /\ stores \in [Sellers -> Seq(Spellings)]
    /\ widgets \in [Sellers -> Seq(Spellings)]
    /\ deal \in [Deals -> Deal]
    /\ left \subseteq Sellers \X Addresses
    /\ picked \subseteq Sellers \X Spellings
    /\ adrift \subseteq Sellers
    /\ slips \in 0..MaxSlips

There(m) == address[m] \in Addresses
Holds(n, a) == address[n] = a

\* A merchant may have a storefront and a widget already.
AddressesInit ==
    /\ address \in [Sellers -> Addresses \cup {NotYet}]
    /\ \A m, n \in Sellers : There(m) /\ Holds(n, address[m]) => m = n
    /\ \E shop, chat \in SUBSET {m \in Sellers : There(m)} :
         /\ stores = [m \in Sellers |-> IF m \in shop THEN <<address[m]>> ELSE <<>>]
         /\ widgets = [m \in Sellers |-> IF m \in chat THEN <<address[m]>> ELSE <<>>]
    /\ deal = [c \in Deals |-> [Ended EXCEPT !.at = "idle"]]
    /\ left = {}
    /\ picked = {}
    /\ adrift = {}
    /\ slips = 0

-----------------------------------------------------------------------------
(* Helpers *)

DealAt(c, at) == deal[c].at = at
StepOn(c, at) == deal' = [deal EXCEPT ![c].at = at]
End(c) == deal' = [deal EXCEPT ![c] = Ended]

\* Nobody has the id of a merchant who is still to come; some remember one who is gone.
BeginDeal(c, o, at, m, s, asked) ==
    /\ DealAt(c, "idle")
    /\ address[m] # NotYet
    /\ deal' = [deal EXCEPT ![c] = [@ EXCEPT !.op = o, !.at = at, !.who = m, !.slug = s,
                                            !.asked = asked]]

\* existsSlug, which leaves out no document: the id it is given is 'undefined'.
Reserved(s) == \E m \in Sellers : \E i \in DOMAIN stores[m] : stores[m][i] = s

\* The changes of m's address that are stored and not handed on yet.
Unsynced(m) == {c \in Deals : deal[c].who = m /\ deal[c].at \in {"sync", "put"}}

-----------------------------------------------------------------------------
(* Merchants come and go *)

OpenAddress(m, a) ==
    /\ address[m] = NotYet
    /\ ~\E n \in Sellers : Holds(n, a)
    /\ address' = [address EXCEPT ![m] = a]
    /\ UNCHANGED <<stores, widgets, deal, left, picked, adrift, slips>>

\* The storefronts and the widgets stay.
PurgeSeller(m) ==
    /\ There(m)
    /\ address' = [address EXCEPT ![m] = Gone]
    /\ left' = left \cup {<<m, address[m]>>}
    /\ UNCHANGED <<stores, widgets, deal, picked, adrift, slips>>

-----------------------------------------------------------------------------
(* update of a merchant with a publicSlug *)

\* The address must be free, or one's own.  The repository normalises what was asked for.
Rename(c, m, a, asked) ==
    /\ There(m)
    /\ asked \in {a, Unlisted}
    /\ ~\E n \in Sellers \ {m} : Holds(n, a)
    /\ BeginDeal(c, "rename", "write", m, a, asked)
    /\ UNCHANGED <<address, stores, widgets, left, picked, adrift, slips>>

\* The unique index has the last word.
WriteAddress(c) ==
    LET m == deal[c].who
        a == deal[c].slug
        met == Unsynced(m)
    IN  /\ DealAt(c, "write")
        /\ IF There(m) /\ ~\E n \in Sellers \ {m} : Holds(n, a)
           THEN /\ address' = [address EXCEPT ![m] = a]
                /\ left' = IF address[m] = a THEN left ELSE left \cup {<<m, address[m]>>}
                /\ adrift' = IF met = {} THEN adrift ELSE adrift \cup {m}
                /\ deal' = [d \in Deals |->
                              IF d = c THEN [deal[c] EXCEPT !.at = "sync", !.alone = met = {}]
                              ELSE [deal[d] EXCEPT !.alone = @ /\ d \notin met]]
           ELSE End(c) /\ UNCHANGED <<address, left, adrift>>
        /\ UNCHANGED <<stores, widgets, picked, slips>>

\* The widgets of m after a change of his address: in step when it met no other, was
\* spelled as it is stored, and found one widget at most.
Handed(c) ==
    LET m == deal[c].who
    IN  /\ adrift' = IF deal[c].alone /\ deal[c].asked = deal[c].slug /\ Len(widgets'[m]) = 1
                     THEN adrift \ {m} ELSE adrift \cup {m}
        /\ End(c)

\* syncWidgetSlug is given the slug of the request.  No index makes the merchant unique:
\* an upsert that finds no document inserts one, whatever another has inserted since.
SyncWidget(c) ==
    LET m == deal[c].who
    IN  /\ DealAt(c, "sync")
        /\ IF widgets[m] = <<>>
           THEN StepOn(c, "put") /\ UNCHANGED <<widgets, adrift>>
           ELSE /\ \E i \in DOMAIN widgets[m] :
                      widgets' = [widgets EXCEPT ![m][i] = deal[c].asked]
                /\ Handed(c)
        /\ UNCHANGED <<address, stores, left, picked, slips>>

PutWidget(c) ==
    /\ DealAt(c, "put")
    /\ widgets' = [widgets EXCEPT ![deal[c].who] = Append(@, deal[c].asked)]
    /\ Handed(c)
    /\ UNCHANGED <<address, stores, left, picked, slips>>

\* The error is only logged; or the process stops here.
SyncFails(c) ==
    /\ slips < MaxSlips
    /\ deal[c].at \in {"sync", "put"}
    /\ End(c)
    /\ adrift' = adrift \cup {deal[c].who}
    /\ slips' = slips + 1
    /\ UNCHANGED <<address, stores, widgets, left, picked>>

-----------------------------------------------------------------------------
(* create and updateByMerchant of the storefront *)

\* By its route, by the making of a merchant, or by updateByMerchant without a slug.
\* Neither create nor updateByMerchant asks whether the merchant is there.
CreateStore(c, m, s) ==
    /\ BeginDeal(c, "create", "mirror", m, s, s)
    /\ UNCHANGED <<address, stores, widgets, left, picked, adrift, slips>>

PatchStore(c, m, s) ==
    /\ BeginDeal(c, "patch", "find", m, s, s)
    /\ UNCHANGED <<address, stores, widgets, left, picked, adrift, slips>>

FindStore(c) ==
    LET m == deal[c].who
    IN  /\ DealAt(c, "find")
        /\ \/ stores[m] = <<>> /\ StepOn(c, "claim")
           \/ \E i \in DOMAIN stores[m] :
                deal' = [deal EXCEPT ![c] = [@ EXCEPT !.at = "test", !.nth = i]]
        /\ UNCHANGED <<address, stores, widgets, left, picked, adrift, slips>>

\* Before one is made.
ClaimSlug(c) ==
    /\ DealAt(c, "claim")
    /\ IF Reserved(deal[c].asked) THEN End(c) ELSE StepOn(c, "mirror")
    /\ UNCHANGED <<address, stores, widgets, left, picked, adrift, slips>>

\* Mutation of Mirror: the new storefront has the slug of the request.
KeepSlug(c) ==
    /\ DealAt(c, "mirror")
    /\ StepOn(c, "insert")
    /\ UNCHANGED <<address, stores, widgets, left, picked, adrift, slips>>

\* The hook before a save: the merchant's address, if he is there, whatever was asked for.
Mirror(c) ==
    LET m == deal[c].who
    IN  /\ DealAt(c, "mirror")
        /\ LET slug == IF There(m) THEN address[m] ELSE deal[c].slug
           IN  deal' = [deal EXCEPT ![c] = [@ EXCEPT !.at = "insert", !.slug = slug]]
        /\ picked' = IF There(m) THEN picked ELSE picked \cup {<<m, deal[c].slug>>}
        /\ UNCHANGED <<address, stores, widgets, left, adrift, slips>>

InsertStore(c) ==
    LET m == deal[c].who
        n == Len(stores[m]) + 1
    IN  /\ DealAt(c, "insert")
        /\ stores' = [stores EXCEPT ![m] = Append(@, deal[c].slug)]
        /\ IF deal[c].op = "patch"
           THEN deal' = [deal EXCEPT ![c] = [@ EXCEPT !.at = "test", !.nth = n]]
           ELSE End(c)
        /\ UNCHANGED <<address, widgets, left, picked, adrift, slips>>

\* One's own slug counts as reserved, too.
TestSlug(c) ==
    /\ DealAt(c, "test")
    /\ IF Reserved(deal[c].asked) THEN End(c) ELSE StepOn(c, "set")
    /\ UNCHANGED <<address, stores, widgets, left, picked, adrift, slips>>

SetSlug(c) ==
    LET m == deal[c].who
    IN  /\ DealAt(c, "set")
        /\ stores' = [stores EXCEPT ![m][deal[c].nth] = deal[c].asked]
        /\ picked' = picked \cup {<<m, deal[c].asked>>}
        /\ End(c)
        /\ UNCHANGED <<address, widgets, left, adrift, slips>>

-----------------------------------------------------------------------------
(* A customer at the public router *)

\* resolve reads the merchant.  The summary makes sure of both documents at once, which
\* is two calls here.
Call(c, what, m) ==
    /\ There(m)
    /\ BeginDeal(c, what, "look", m, address[m], address[m])
    /\ UNCHANGED <<address, stores, widgets, left, picked, adrift, slips>>

\* The upsert finds a document and leaves it as it is, or goes on to insert one.
Look(c) ==
    LET m == deal[c].who
    IN  /\ DealAt(c, "look")
        /\ IF (IF deal[c].op = "store" THEN stores[m] ELSE widgets[m]) = <<>>
           THEN StepOn(c, "add") ELSE End(c)
        /\ UNCHANGED <<address, stores, widgets, left, picked, adrift, slips>>

\* With the address as it was read.
AddStore(c) ==
    /\ DealAt(c, "add") /\ deal[c].op = "store"
    /\ stores' = [stores EXCEPT ![deal[c].who] = Append(@, deal[c].slug)]
    /\ End(c)
    /\ UNCHANGED <<address, widgets, left, picked, adrift, slips>>

AddWidget(c) ==
    LET m == deal[c].who
    IN  /\ DealAt(c, "add") /\ deal[c].op = "widget"
        /\ widgets' = [widgets EXCEPT ![m] = Append(@, deal[c].slug)]
        /\ adrift' = IF widgets[m] = <<>> THEN adrift ELSE adrift \cup {m}
        /\ End(c)
        /\ UNCHANGED <<address, stores, left, picked, slips>>

AddressesNext ==
    \/ \E m \in Sellers : PurgeSeller(m) \/ \E a \in Addresses : OpenAddress(m, a)
    \/ \E c \in Deals :
         \/ WriteAddress(c) \/ SyncWidget(c) \/ PutWidget(c) \/ SyncFails(c)
         \/ FindStore(c)    \/ ClaimSlug(c)  \/ Mirror(c)    \/ InsertStore(c)
         \/ TestSlug(c)     \/ SetSlug(c)    \/ Look(c)      \/ AddStore(c) \/ AddWidget(c)
         \/ \E m \in Sellers :
              \/ \E a \in Addresses, s \in Spellings : Rename(c, m, a, s)
              \/ \E s \in Spellings : CreateStore(c, m, s) \/ PatchStore(c, m, s)
              \/ \E what \in {"store", "widget"} : Call(c, what, m)

AddressesSpec == AddressesInit /\ [][AddressesNext]_addressVars

-----------------------------------------------------------------------------
(* Properties *)

\* A storefront stands at its merchant's address, at one he has given up, or at one that
\* was chosen for it: with neither, nobody's customers find another's storefront, whoever
\* makes storefronts at the same time.
StoreIsAtItsAddress ==
    \A m \in Sellers : \A i \in DOMAIN stores[m] :
        stores[m][i] = address[m] \/ <<m, stores[m][i]>> \in left \cup picked

\* Every widget of a merchant has his address, once it is handed on: unless two changes
\* of it met, handing it on failed, it was spelled in another way than it is stored, or
\* two first calls inserted a widget each.  One change alone mends a single widget.
ChatIsAtItsAddress ==
    \A m \in Sellers \ adrift : There(m) /\ Unsynced(m) = {} =>
        \A i \in DOMAIN widgets[m] : widgets[m][i] = address[m]

\* Customers find the merchant whose address they have, in the sense of the two above.
AddressesAreKept == StoreIsAtItsAddress /\ ChatIsAtItsAddress
=============================================================================
