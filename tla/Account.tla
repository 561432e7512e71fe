------------------------------ MODULE Account -------------------------------
(***************************************************************************)
(* One user's account: registration, the codes and links sent by mail, the *)
(* password, and the merchant that a verified user is given.  A call reads *)
(* the user, awaits, decides, and saves what it has changed of it, so that *)
(* every two calls may interleave and each may end between two writes.     *)
(*                                                                         *)
(* Sources: modules/auth/auth.service.ts, repositories/mongo-auth          *)
(* .repository.ts, ensureForUser of the merchants' repository, and the     *)
(* schemas of the two kinds of tokens.                                     *)
(*                                                                         *)
(* Time is left out: a code or link may be young enough to refuse another  *)
(* one, and may expire, whenever it is looked at.  So is the cached copy   *)
(* of the user, from which resendVerification may also refuse or throw.    *)
(***************************************************************************)
EXTENDS Naturals, FiniteSets, Sequences

CONSTANTS
    Codes,      \* verification codes, each made once
    Links,      \* reset links, each made once
    Shops,      \* ids of merchants
    Nothing,
    Visits      \* calls of AuthService about this user

ASSUME MailAssumption == Codes \cap Links = {} /\ Nothing \notin Codes \cup Links \cup Shops

VARIABLES
    user,       \* the document: is it there, emailVerified, merchantId
    shops,      \* merchants whose userId is the user
    codes,      \* the verification tokens, oldest first
    links,      \* the reset tokens, oldest first
    used,       \* those marked used
    mailed,     \* every code and link ever made
    visit,      \* visit[v]: see Visit
    spent,      \* links that set the password, or were there when a reset or a change
                \* of the password was completed (history)
    again,      \* links that set the password although they were spent (history)
    excused,    \* links of which two resets were under way at once, or one while the
                \* password was changed, or one that died half-way (history)
    purged      \* the merchant was deleted (history)

mailVars == <<codes, links, used, mailed>>
linkHistory == <<spent, again, excused>>
accountVars == <<user, shops, mailVars, visit, linkHistory, purged>>

\* what: the code or link presented; mine: merchantId as read; found: what
\* ensureForUser has found or made.
Visit == [op : {"none", "register", "verify", "ensure", "resend", "forgot", "reset",
                "change"},
          at : {"idle", "make", "look", "confirm", "uncache", "shop", "open", "name",
                "tidy", "recent", "mail", "save", "mark", "clear", "ok", "failed"},
          what : Codes \cup Links \cup {Nothing},
          mine : Shops \cup {Nothing}, found : Shops \cup {Nothing}]

Elements(s) == {s[i] : i \in DOMAIN s}

AccountTypeOK ==
    /\ user \in [there : BOOLEAN, verified : BOOLEAN, shop : Shops \cup {Nothing}]
    /\ shops \subseteq Shops
    /\ codes \in Seq(Codes)
    /\ links \in Seq(Links)
    /\ used \subseteq Elements(links)
    /\ mailed \subseteq Codes \cup Links
    /\ visit \in [Visits -> Visit]
    /\ spent \subseteq Links
    /\ again \subseteq Links
    /\ excused \subseteq Links
    /\ purged \in BOOLEAN

\* Nobody yet, somebody who has not read the mail, or a user who forgot the password
\* once or twice.
AccountInit ==
    /\ \/ /\ user = [there |-> FALSE, verified |-> FALSE, shop |-> Nothing]
          /\ shops = {} /\ codes = <<>> /\ links = <<>>
       \/ /\ user = [there |-> TRUE, verified |-> FALSE, shop |-> Nothing]
          /\ shops = {} /\ links = <<>>
          /\ \E c \in Codes : codes = <<c>>
       \/ \E s \in Shops :
            /\ user = [there |-> TRUE, verified |-> TRUE, shop |-> s]
            /\ shops = {s} /\ codes = <<>>
            /\ \E l, k \in Links : l # k /\ links \in {<<l>>, <<l, k>>}
    /\ used = {}
    /\ mailed = Elements(codes) \cup Elements(links)
    /\ visit = [v \in Visits |-> [op |-> "none", at |-> "idle", what |-> Nothing,
                                  mine |-> Nothing, found |-> Nothing]]
    /\ spent = {}
    /\ again = {}
    /\ excused = {}
    /\ purged = FALSE

-----------------------------------------------------------------------------
(* Helpers *)

VisitAt(v, at) == visit[v].at = at
GoTo(v, at) == visit' = [visit EXCEPT ![v].at = at]

\* A call begins by reading the user.
Arrive(v, o, at, x) ==
    /\ VisitAt(v, "idle")
    /\ visit' = [visit EXCEPT ![v] = [op |-> o, at |-> at, what |-> x, mine |-> user.shop,
                                      found |-> Nothing]]

Others(v) == Visits \ {v}

\* The links with which other resets stand at one of these stages.
HeldAt(v, stages) ==
    {visit[w].what : w \in {x \in Others(v) : visit[x].op = "reset" /\ visit[x].at \in stages}}

\* latestPasswordResetTokenByUser
UnusedLinks == {i \in DOMAIN links : links[i] \notin used}
IsLatest(l) == \E i \in UnusedLinks : links[i] = l /\ \A j \in UnusedLinks : j <= i

-----------------------------------------------------------------------------
(* register and verifyEmail *)

\* The address is unique.
Register(v) ==
    /\ VisitAt(v, "idle")
    /\ ~user.there
    /\ user' = [user EXCEPT !.there = TRUE]
    /\ visit' = [visit EXCEPT ![v] = [@ EXCEPT !.op = "register", !.at = "make"]]
    /\ UNCHANGED <<shops, mailVars, linkHistory, purged>>

\* A code is stored, then mailed; whether the mail was sent is not asked.
MakeCode(v) ==
    /\ VisitAt(v, "make")
    /\ \E c \in Codes \ mailed :
         /\ codes' = Append(codes, c)
         /\ mailed' = mailed \cup {c}
    /\ GoTo(v, "ok")
    /\ UNCHANGED <<user, shops, links, used, linkHistory, purged>>

VerifyEmail(v, c) ==
    /\ user.there
    /\ c \in mailed
    /\ Arrive(v, "verify", "look", c)
    /\ UNCHANGED <<user, shops, mailVars, linkHistory, purged>>

\* The latest code counts, as long as it lasts.
CheckCode(v) ==
    /\ VisitAt(v, "look")
    /\ visit[v].op = "verify"
    /\ \/ codes # <<>> /\ codes[Len(codes)] = visit[v].what /\ GoTo(v, "confirm")
       \/ GoTo(v, "failed")
    /\ UNCHANGED <<user, shops, mailVars, linkHistory, purged>>

SaveVerified(v) ==
    /\ VisitAt(v, "confirm")
    /\ user' = [user EXCEPT !.verified = TRUE]
    /\ GoTo(v, "uncache")
    /\ UNCHANGED <<shops, mailVars, linkHistory, purged>>

\* Cached copies are deleted, and the time of a change noted.
Uncache(v) ==
    /\ VisitAt(v, "uncache")
    /\ GoTo(v, CASE visit[v].op = "verify" -> "shop"
                 [] visit[v].op = "reset"  -> "mark"
                 [] visit[v].op = "change" -> "clear")
    /\ UNCHANGED <<user, shops, mailVars, linkHistory, purged>>

DeleteCodes(v) ==
    /\ VisitAt(v, "tidy")
    /\ codes' = <<>>
    /\ GoTo(v, "ok")
    /\ UNCHANGED <<user, shops, links, used, mailed, linkHistory, purged>>

-----------------------------------------------------------------------------
(* ensureForUser, for verifyEmail and ensureMerchant *)

\* A user with a merchantId is asked for that merchant's document only.
EnsureMerchant(v) ==
    /\ user.there
    /\ Arrive(v, "ensure", IF user.shop # Nothing THEN "look"
                           ELSE IF user.verified THEN "shop" ELSE "failed", Nothing)
    /\ UNCHANGED <<user, shops, mailVars, linkHistory, purged>>

\* A suspended merchant is refused like one that is not there.
ValidateShop(v) ==
    /\ VisitAt(v, "look")
    /\ visit[v].op = "ensure"
    /\ \/ visit[v].mine \in shops /\ GoTo(v, "ok")
       \/ GoTo(v, "failed")
    /\ UNCHANGED <<user, shops, mailVars, linkHistory, purged>>

Named(v, s) ==
    LET at == IF visit[v].mine = Nothing THEN "name"
              ELSE IF visit[v].op = "verify" THEN "tidy" ELSE "ok"
    IN  visit' = [visit EXCEPT ![v] = [@ EXCEPT !.found = s, !.at = at]]

FindShop(v) ==
    /\ VisitAt(v, "shop")
    /\ IF shops = {} THEN GoTo(v, "open") ELSE \E s \in shops : Named(v, s)
    /\ UNCHANGED <<user, shops, mailVars, linkHistory, purged>>

\* Mutation of OpenShop: without the unique index on userId.
OpenAnotherShop(v) ==
    /\ VisitAt(v, "open")
    /\ \E s \in Shops \ shops : shops' = shops \cup {s} /\ Named(v, s)
    /\ UNCHANGED <<user, mailVars, linkHistory, purged>>

\* The unique index on userId lets one insert through.
OpenShop(v) ==
    /\ VisitAt(v, "open")
    /\ IF shops = {}
       THEN \E s \in Shops : shops' = {s} /\ Named(v, s)
       ELSE GoTo(v, "failed") /\ UNCHANGED shops
    /\ UNCHANGED <<user, mailVars, linkHistory, purged>>

SaveShop(v) ==
    /\ VisitAt(v, "name")
    /\ user' = [user EXCEPT !.shop = visit[v].found]
    /\ GoTo(v, IF visit[v].op = "verify" THEN "tidy" ELSE "ok")
    /\ UNCHANGED <<shops, mailVars, linkHistory, purged>>

-----------------------------------------------------------------------------
(* resendVerification and requestPasswordReset *)

\* Refused at once to a verified user.
Resend(v) ==
    /\ user.there
    /\ Arrive(v, "resend", IF user.verified THEN "failed" ELSE "recent", Nothing)
    /\ UNCHANGED <<user, shops, mailVars, linkHistory, purged>>

RequestReset(v) ==
    /\ user.there
    /\ Arrive(v, "forgot", "recent", Nothing)
    /\ UNCHANGED <<user, shops, mailVars, linkHistory, purged>>

\* Nothing is sent within a minute of the last one.
CheckRecent(v) ==
    LET isCode == visit[v].op = "resend"
    IN  /\ VisitAt(v, "recent")
        /\ \/ GoTo(v, IF isCode THEN "make" ELSE "mail")
           \/ (IF isCode THEN codes # <<>> ELSE UnusedLinks # {}) /\ GoTo(v, "ok")
        /\ UNCHANGED <<user, shops, mailVars, linkHistory, purged>>

MakeLink(v) ==
    /\ VisitAt(v, "mail")
    /\ \E l \in Links \ mailed :
         /\ links' = Append(links, l)
         /\ mailed' = mailed \cup {l}
    /\ GoTo(v, "ok")
    /\ UNCHANGED <<user, shops, codes, used, linkHistory, purged>>

-----------------------------------------------------------------------------
(* resetPassword and changePassword *)

ResetPassword(v, l) ==
    /\ user.there
    /\ l \in mailed
    /\ Arrive(v, "reset", "look", l)
    /\ UNCHANGED <<user, shops, mailVars, linkHistory, purged>>

\* Only the latest unused link counts; otherwise nothing happens.
CheckLink(v) ==
    LET l == visit[v].what
    IN  /\ VisitAt(v, "look")
        /\ visit[v].op = "reset"
        /\ \/ IsLatest(l) /\ GoTo(v, "save")
           \/ GoTo(v, "ok")
        /\ excused' = IF l \in HeldAt(v, {"uncache", "mark"}) THEN excused \cup {l} ELSE excused
        /\ UNCHANGED <<user, shops, mailVars, spent, again, purged>>

\* The current password is compared with the one read.
ChangePassword(v) ==
    /\ user.there
    /\ \E at \in {"save", "failed"} : Arrive(v, "change", at, Nothing)
    /\ UNCHANGED <<user, shops, mailVars, linkHistory, purged>>

\* The new password is saved.  Whose it is by now does not matter.
SavePassword(v) ==
    LET l == visit[v].what
    IN  /\ VisitAt(v, "save")
        /\ GoTo(v, "uncache")
        /\ IF visit[v].op = "reset"
           THEN /\ spent' = spent \cup {l}
                /\ again' = IF l \in spent THEN again \cup {l} ELSE again
                /\ excused' = IF l \in HeldAt(v, {"save"}) THEN excused \cup {l} ELSE excused
           ELSE UNCHANGED linkHistory
        /\ UNCHANGED <<user, shops, mailVars, purged>>

\* Mutation of MarkUsed: the update matches no document.
MarkNothing(v) ==
    /\ VisitAt(v, "mark")
    /\ GoTo(v, "clear")
    /\ UNCHANGED <<user, shops, mailVars, linkHistory, purged>>

\* Mutation of MarkUsed: an upsert, which marks a link that has expired.
MarkAnyway(v) ==
    /\ VisitAt(v, "mark")
    /\ used' = used \cup {visit[v].what}
    /\ GoTo(v, "clear")
    /\ UNCHANGED <<user, shops, codes, links, mailed, linkHistory, purged>>

MarkUsed(v) ==
    /\ VisitAt(v, "mark")
    /\ used' = used \cup ({visit[v].what} \cap Elements(links))
    /\ GoTo(v, "clear")
    /\ UNCHANGED <<user, shops, codes, links, mailed, linkHistory, purged>>

\* A reset deletes the other links, a change all of them; no link is there twice.
ClearLinks(v) ==
    /\ VisitAt(v, "clear")
    /\ links' = IF visit[v].what \in Elements(links) THEN <<visit[v].what>> ELSE <<>>
    /\ used' = used \cap {visit[v].what}
    /\ GoTo(v, "ok")
    /\ spent' = spent \cup Elements(links)
    /\ excused' = excused \cup (HeldAt(v, {"save"}) \cap Elements(links))
    /\ UNCHANGED <<user, shops, codes, mailed, again, purged>>

-----------------------------------------------------------------------------
\* The awaited call throws, and what was written stays.
Break(v) ==
    /\ ~\E at \in {"idle", "ok", "failed"} : VisitAt(v, at)
    /\ GoTo(v, "failed")
    /\ excused' = IF visit[v].op = "reset" /\ visit[v].at \in {"uncache", "mark"}
                  THEN excused \cup {visit[v].what} ELSE excused
    /\ UNCHANGED <<user, shops, mailVars, spent, again, purged>>

\* The oldest code or link expires.
ExpireMail ==
    /\ \/ codes # <<>> /\ codes' = Tail(codes) /\ UNCHANGED <<links, used>>
       \/ links # <<>> /\ links' = Tail(links) /\ used' = used \ {Head(links)}
                       /\ UNCHANGED codes
    /\ UNCHANGED <<user, shops, mailed, visit, linkHistory, purged>>

\* An admin purges the merchant; the user's document is left alone.
PurgeShop ==
    /\ shops # {}
    /\ shops' = {}
    /\ purged' = TRUE
    /\ UNCHANGED <<user, mailVars, visit, linkHistory>>

VisitStep(v) ==
    \/ MakeCode(v)    \/ CheckCode(v)    \/ SaveVerified(v) \/ Uncache(v)
    \/ DeleteCodes(v) \/ ValidateShop(v) \/ FindShop(v)     \/ OpenShop(v)
    \/ SaveShop(v)    \/ CheckRecent(v)  \/ MakeLink(v)     \/ CheckLink(v)
    \/ SavePassword(v) \/ MarkUsed(v)    \/ ClearLinks(v)

AccountNext ==
    \/ \E v \in Visits :
         \/ VisitStep(v) \/ Break(v) \/ Register(v) \/ EnsureMerchant(v) \/ Resend(v)
         \/ RequestReset(v) \/ ChangePassword(v)
         \/ \E c \in Codes : VerifyEmail(v, c)
         \/ \E l \in Links : ResetPassword(v, l)
    \/ ExpireMail
    \/ PurgeShop

AccountSpec == AccountInit /\ [][AccountNext]_accountVars

-----------------------------------------------------------------------------
(* Properties *)

\* A link that has set the password, or that was there when a reset or a change of the
\* password was completed, sets it no more, unless two such calls overlapped or one
\* ended between saving the password and marking its link.
SpentLinksAreDead == again \subseteq excused

\* A call that has answered leaves its user with the one merchant whose owner he is,
\* however many calls found none and made one; a purged one is not replaced.
AnsweredHasMerchant ==
    /\ Cardinality(shops) <= 1
    /\ (\E v \in Visits : visit[v].op \in {"verify", "ensure"} /\ VisitAt(v, "ok")) =>
           user.shop \in shops \/ purged
=============================================================================
