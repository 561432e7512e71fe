------------------------------ MODULE Sessions ------------------------------
(***************************************************************************)
(* The refresh tokens of one user.  Each has an id (jti), a session in     *)
(* Redis under it, and a place in the list of the user's sessions, which   *)
(* logging out everywhere goes through.  The list is one value: it is      *)
(* read, extended and written back.  Redis is reached through awaits, so   *)
(* every call runs between the others' steps, and may end in an error at   *)
(* any of them.                                                            *)
(*                                                                         *)
(* Sources: modules/auth/services/token.service.ts and                     *)
(* repositories/redis-session-store.repository.ts; login, refreshTokens,   *)
(* logout and logoutAll of auth.service.ts.                                *)
(*                                                                         *)
(* Signatures, hashes and lifetimes are left out: tokens are the user's    *)
(* own, and the session, the list and the blacklist live equally long.     *)
(***************************************************************************)
EXTENDS Naturals, FiniteSets

CONSTANTS
    Tokens,     \* jtis of refresh tokens
    NoToken,
    Calls       \* calls of AuthService for this user

ASSUME TokensAssumption == NoToken \notin Tokens

VARIABLES
    session,      \* sess:<jti>
    list,         \* user_sessions:<userId>
    blacklist,    \* bl:<jti>, of refresh tokens
    delivered,    \* tokens the client was given
    call,         \* call[c]: see CallState
    exchanged,    \* <<old, new>>: new was made in exchange for old (history)
    swept,        \* tokens delivered before a completed logoutAll began (history)
    overlapped,   \* tokens that were being made while another call wrote the list
                  \* or logged out everywhere (history)
    shared        \* tokens that two refreshes presented at once (history)

redisVars == <<session, list, blacklist>>
pastVars == <<exchanged, swept, overlapped, shared>>
sessionVars == <<redisVars, delivered, call, pastVars>>

\* old: the token presented, or being revoked; new: the one being made; jtis: the list
\* as read, or what is left of it; since: what was delivered when logoutAll began.
CallState ==
    [op : {"none", "login", "refresh", "logout", "logoutAll"},
     at : {"idle", "csrf", "revoke", "blacklist", "make", "read", "write", "deliver",
           "touch", "sweep", "done"},
     old : Tokens \cup {NoToken}, new : Tokens \cup {NoToken},
     jtis : SUBSET Tokens, since : SUBSET Tokens]

SessionTypeOK ==
    /\ session \subseteq Tokens
    /\ list \subseteq Tokens
    /\ blacklist \subseteq Tokens
    /\ delivered \subseteq Tokens
    /\ call \in [Calls -> CallState]
    /\ exchanged \subseteq Tokens \X Tokens
    /\ swept \subseteq delivered
    /\ overlapped \subseteq Tokens
    /\ shared \subseteq Tokens

\* The user may be logged in already.
SessionInit ==
    /\ session \in SUBSET Tokens
    /\ list = session
    /\ delivered = session
    /\ blacklist = {}
    /\ call = [c \in Calls |-> [op |-> "none", at |-> "idle", old |-> NoToken,
                                new |-> NoToken, jtis |-> {}, since |-> {}]]
    /\ exchanged = {}
    /\ swept = {}
    /\ overlapped = {}
    /\ shared = {}

-----------------------------------------------------------------------------
(* Helpers *)

At(c, stages) == call[c].at \in stages
Enter(c, at) == call' = [call EXCEPT ![c].at = at]
Leave(c) == call' = [call EXCEPT ![c] = [op |-> "none", at |-> "done", old |-> NoToken,
                                         new |-> @.new, jtis |-> {}, since |-> {}]]

Start(c, o, at, t) ==
    /\ At(c, {"idle"})
    /\ call' = [call EXCEPT ![c] = [@ EXCEPT !.op = o, !.at = at, !.old = t]]

\* A random id that no token has had.
Unused == Tokens \ (delivered \cup {call[c].new : c \in Calls})
MakeNext(c) == \E t \in Unused :
                   call' = [call EXCEPT ![c] = [@ EXCEPT !.at = "make", !.new = t]]

\* What is made by calls at these stages; whether anybody logs out everywhere.
BeingMade(stages) == {call[c].new : c \in {d \in Calls : At(d, stages)}}
Sweeping == \E c \in Calls : call[c].op = "logoutAll"

-----------------------------------------------------------------------------
(* refreshTokens *)

\* getValidSession, which throws where there is none; the blacklist is not asked.
Refresh(c, t) ==
    /\ t \in delivered
    /\ t \in session
    /\ Start(c, "refresh", "csrf", t)
    /\ shared' = IF \E d \in Calls : call[d].op = "refresh" /\ At(d, {"csrf", "revoke"})
                                                            /\ call[d].old = t
                 THEN shared \cup {t} ELSE shared
    /\ UNCHANGED <<redisVars, delivered, exchanged, swept, overlapped>>

\* getCsrfToken reads the session once more and does without it.
ReadCsrf(c) ==
    /\ At(c, {"csrf"})
    /\ Enter(c, "revoke")
    /\ UNCHANGED <<redisVars, delivered, pastVars>>

\* revokeRefreshToken: the session is deleted ...
Revoke(c) ==
    /\ At(c, {"revoke"})
    /\ session' = session \ {call[c].old}
    /\ Enter(c, "blacklist")
    /\ UNCHANGED <<list, blacklist, delivered, pastVars>>

\* ... and the token blacklisted.
Blacklist(c) ==
    /\ At(c, {"blacklist"})
    /\ blacklist' = blacklist \cup {call[c].old}
    /\ CASE call[c].op = "refresh"   -> MakeNext(c)
         [] call[c].op = "logout"    -> Leave(c)
         [] call[c].op = "logoutAll" -> Enter(c, "sweep")
    /\ UNCHANGED <<session, list, delivered, pastVars>>

-----------------------------------------------------------------------------
(* createTokenPair, for login and refreshTokens *)

Login(c) ==
    /\ At(c, {"idle"})
    /\ \E t \in Unused :
         call' = [call EXCEPT ![c] = [@ EXCEPT !.op = "login", !.at = "make", !.new = t]]
    /\ UNCHANGED <<redisVars, delivered, pastVars>>

\* setSession
MakeSession(c) ==
    LET old == call[c].old
        new == call[c].new
    IN  /\ At(c, {"make"})
        /\ session' = session \cup {new}
        /\ Enter(c, "read")
        /\ exchanged' = IF old = NoToken THEN exchanged ELSE exchanged \cup {<<old, new>>}
        /\ overlapped' = IF Sweeping THEN overlapped \cup {new} ELSE overlapped
        /\ UNCHANGED <<list, blacklist, delivered, swept, shared>>

\* addUserSession reads the list ...
ReadList(c) ==
    LET beside == BeingMade({"write"})
    IN  /\ At(c, {"read"})
        /\ call' = [call EXCEPT ![c] = [@ EXCEPT !.at = "write", !.jtis = list \cup {call[c].new}]]
        /\ overlapped' = IF beside = {} THEN overlapped
                         ELSE overlapped \cup beside \cup {call[c].new}
        /\ UNCHANGED <<redisVars, delivered, exchanged, swept, shared>>

\* Mutation of WriteList: the new token replaces the list.
WriteNewOnly(c) ==
    /\ At(c, {"write"})
    /\ list' = {call[c].new}
    /\ Enter(c, "deliver")
    /\ UNCHANGED <<session, blacklist, delivered, pastVars>>

\* ... and writes it back.
WriteList(c) ==
    /\ At(c, {"write"})
    /\ list' = call[c].jtis
    /\ Enter(c, "deliver")
    /\ UNCHANGED <<session, blacklist, delivered, pastVars>>

\* A login answers.  A refresh first reads its new session, to set lastUsed.
Deliver(c) ==
    /\ At(c, {"deliver"})
    /\ IF call[c].op = "refresh" /\ call[c].new \in session
       THEN Enter(c, "touch") /\ UNCHANGED delivered
       ELSE Leave(c) /\ delivered' = delivered \cup {call[c].new}
    /\ UNCHANGED <<redisVars, pastVars>>

\* The session is stored again, whether or not it is still there.
TouchSession(c) ==
    /\ At(c, {"touch"})
    /\ session' = session \cup {call[c].new}
    /\ delivered' = delivered \cup {call[c].new}
    /\ Leave(c)
    /\ UNCHANGED <<list, blacklist, pastVars>>

-----------------------------------------------------------------------------
(* logout and logoutAll *)

\* The token is decoded and not looked up.
Logout(c, t) ==
    /\ t \in delivered
    /\ Start(c, "logout", "revoke", t)
    /\ UNCHANGED <<redisVars, delivered, pastVars>>

\* revokeAllUserSessions reads the list.
LogoutAll(c) ==
    /\ At(c, {"idle"})
    /\ call' = [call EXCEPT ![c] = [@ EXCEPT !.op = "logoutAll", !.at = "sweep",
                                             !.jtis = list, !.since = delivered]]
    /\ overlapped' = overlapped \cup BeingMade({"read", "write", "deliver", "touch"})
    /\ UNCHANGED <<redisVars, delivered, exchanged, swept, shared>>

\* The next one is revoked.
RevokeNext(c) ==
    /\ At(c, {"sweep"})
    /\ \E t \in call[c].jtis :
         call' = [call EXCEPT ![c] = [@ EXCEPT !.at = "revoke", !.old = t,
                                               !.jtis = call[c].jtis \ {t}]]
    /\ UNCHANGED <<redisVars, delivered, pastVars>>

\* clearUserSessions
ClearList(c) ==
    /\ At(c, {"sweep"})
    /\ call[c].jtis = {}
    /\ list' = {}
    /\ swept' = swept \cup call[c].since
    /\ Leave(c)
    /\ UNCHANGED <<session, blacklist, delivered, exchanged, overlapped, shared>>

\* Redis does not answer: the call ends where it is.
Fail(c) ==
    /\ ~At(c, {"idle", "done"})
    /\ Leave(c)
    /\ UNCHANGED <<redisVars, delivered, pastVars>>

-----------------------------------------------------------------------------
CallStep(c) ==
    \/ ReadCsrf(c)  \/ Revoke(c)    \/ Blacklist(c)  \/ MakeSession(c) \/ ReadList(c)
    \/ WriteList(c) \/ Deliver(c)   \/ TouchSession(c) \/ RevokeNext(c) \/ ClearList(c)

SessionNext ==
    \E c \in Calls :
        \/ CallStep(c) \/ Fail(c) \/ Login(c) \/ LogoutAll(c)
        \/ \E t \in Tokens : Refresh(c, t) \/ Logout(c, t)

SessionSpec == SessionInit /\ [][SessionNext]_sessionVars

-----------------------------------------------------------------------------
(* Properties *)

\* What was ended stays ended: a revoked token has no session any more, nor has one
\* that was there when logging out everywhere began.  Except those whose place in the
\* list was lost to a call that wrote the list at the same time, and one that a refresh
\* at its end stores again.
EndedStaysEnded == (blacklist \cup swept) \cap session \subseteq overlapped

\* A refresh token is exchanged once, unless two refreshes presented it at once.
ExchangedOnce ==
    \A t \in Tokens : Cardinality({n \in Tokens : <<t, n>> \in exchanged}) <= 1 \/ t \in shared

\* A token ends once, whether by a log-out or by its exchange, in the sense of these two.
TokensEndOnce == EndedStaysEnded /\ ExchangedOnce
=============================================================================
