--------------------------- MODULE AccountProofs ----------------------------
(***************************************************************************)
(* Proofs about one user: the refresh tokens of the sessions, and the      *)
(* account with its codes, links and merchant; for any number of calls,    *)
(* tokens, codes, links and merchants.                                     *)
(***************************************************************************)
EXTENDS Sessions, Account, FiniteSetTheorems, TLAPS

-----------------------------------------------------------------------------
(* Sessions: the inductive invariant *)

\* The stages at which a call makes a token; those after its session is stored.
Creating == {"make", "read", "write", "deliver", "touch"}
Late == {"read", "write", "deliver", "touch"}

\* Others than the maker of t may have read it.
IsKnown(t) ==
    t \in delivered \/ \E c \in Calls : At(c, {"deliver", "touch", "done"}) /\ call[c].new = t

\* Which stages belong to which operation, and what it holds there.
StagesFit ==
    \A c \in Calls :
        /\ At(c, {"idle"}) => call[c].new = NoToken
        /\ At(c, {"idle", "done"}) <=> call[c].op = "none"
        /\ At(c, {"csrf", "touch"}) => call[c].op = "refresh"
        /\ At(c, {"revoke", "blacklist"}) => /\ call[c].op \in {"refresh", "logout", "logoutAll"}
                                             /\ call[c].old \in Tokens
        /\ At(c, {"sweep"}) => call[c].op = "logoutAll"
        /\ At(c, Creating) => call[c].op \in {"login", "refresh"}
        /\ call[c].op \in {"none", "login"} => call[c].old = NoToken
        /\ call[c].op \in {"refresh", "logout"} => call[c].old \in delivered
        /\ call[c].op = "logoutAll" => call[c].since \subseteq delivered

\* A token that is being made has no other maker, and nobody was given it.
MadeOnce ==
    /\ \A c \in Calls : At(c, Creating) => call[c].new \in Tokens \ delivered
    /\ \A c, d \in Calls : c # d /\ call[c].new = call[d].new => call[c].new = NoToken

\* Nobody meets a token before its maker has written it into the list.
OnlyKnown ==
    /\ \A t \in list \cup blacklist : IsKnown(t)
    /\ \A c \in Calls : call[c].old \in Tokens => IsKnown(call[c].old)
    /\ \A c \in Calls : \A t \in call[c].jtis :
           IsKnown(t) \/ (At(c, {"write"}) /\ t = call[c].new)

\* A token that is made beside a log-out everywhere, or beside another writer of the
\* list, is in overlapped.
OverlapsAreSeen ==
    /\ Sweeping => \A c \in Calls : At(c, Late) => call[c].new \in overlapped
    /\ \A c, d \in Calls : c # d /\ At(c, {"write"}) /\ At(d, {"write"})
           => call[c].new \in overlapped

\* A session whose token somebody has, or is about to get, is in the list and stays there.
IsListed(t) ==
    \/ t \in overlapped
    \/ t \in list /\ \A c \in Calls : At(c, {"write"}) => t \in call[c].jtis

ListIsComplete ==
    /\ \A t \in session \cap delivered : IsListed(t)
    /\ \A c \in Calls : At(c, {"deliver", "touch"}) => IsListed(call[c].new)
    /\ \A c \in Calls : At(c, {"write"}) => call[c].new \in call[c].jtis

\* Whoever logs out everywhere meets every session that was there when it began.
SweepIsComplete ==
    \A d \in Calls : call[d].op = "logoutAll" =>
        /\ delivered \ call[d].since \subseteq overlapped
        /\ \A t \in call[d].since \cap session :
               t \in overlapped \/ t \in call[d].jtis \/ (At(d, {"revoke"}) /\ t = call[d].old)

\* A token that was ended has no session, nor gets one.
EndIsFinal ==
    /\ (blacklist \cup swept) \cap session \subseteq overlapped
    /\ \A c \in Calls : At(c, Creating) /\ call[c].new \in blacklist => call[c].new \in overlapped
    /\ \A c \in Calls : At(c, {"blacklist"}) /\ call[c].old \in session
           => call[c].old \in overlapped

\* Refreshes of t that have not exchanged it yet; a refresh that has ended its session.
MayExchange(c, t) ==
    /\ call[c].op = "refresh" /\ call[c].old = t
    /\ At(c, {"csrf", "revoke", "blacklist", "make"})

ExchangeIsFinal ==
    /\ \A p \in exchanged : p[1] \in delivered \ session
    /\ \A p, q \in exchanged : p[1] = q[1] => p = q \/ p[1] \in shared
    /\ \A c \in Calls : \A p \in exchanged : MayExchange(c, p[1]) => p[1] \in shared
    /\ \A c, d \in Calls, t \in Tokens :
           c # d /\ MayExchange(c, t) /\ MayExchange(d, t) => t \in shared
    /\ \A c \in Calls : call[c].op = "refresh" /\ ~At(c, {"csrf", "revoke"})
           => call[c].old \notin session

SessionInv ==
    /\ SessionTypeOK
    /\ StagesFit
    /\ MadeOnce
    /\ OnlyKnown
    /\ OverlapsAreSeen
    /\ ListIsComplete
    /\ SweepIsComplete
    /\ EndIsFinal
    /\ ExchangeIsFinal

-----------------------------------------------------------------------------
(* Sessions: every step keeps it *)

LEMMA FieldType ==
    ASSUME NEW r \in CallState
    PROVE  /\ \A o \in {"login", "refresh", "logout", "logoutAll"} :
                 [r EXCEPT !.op = o] \in CallState
           /\ \A s \in {"csrf", "revoke", "blacklist", "make", "read", "write", "deliver",
                        "touch", "sweep"} : [r EXCEPT !.at = s] \in CallState
           /\ \A t \in Tokens : /\ [r EXCEPT !.old = t] \in CallState
                                /\ [r EXCEPT !.new = t] \in CallState
           /\ \A S \in SUBSET Tokens : /\ [r EXCEPT !.jtis = S] \in CallState
                                       /\ [r EXCEPT !.since = S] \in CallState
    BY DEF CallState

LEMMA CallType ==
    ASSUME SessionTypeOK, NEW c \in Calls, NEW r \in CallState, call' = [call EXCEPT ![c] = r]
    PROVE  call' \in [Calls -> CallState]
    BY DEF SessionTypeOK

LEMMA LeaveType ==
    ASSUME SessionTypeOK, NEW c \in Calls, Leave(c)
    PROVE  call' \in [Calls -> CallState]
<1>1. [op |-> "none", at |-> "done", old |-> NoToken, new |-> call[c].new, jtis |-> {},
       since |-> {}] \in CallState
    BY DEF SessionTypeOK, CallState
<1> QED BY <1>1 DEF SessionTypeOK, Leave

LEMMA EnterType ==
    ASSUME SessionTypeOK, NEW c \in Calls, NEW at, Enter(c, at),
           at \in {"revoke", "blacklist", "read", "deliver", "touch", "sweep"}
    PROVE  call' \in [Calls -> CallState]
<1>1. [call[c] EXCEPT !.at = at] \in CallState
    BY FieldType DEF SessionTypeOK
<1> QED BY <1>1, CallType DEF Enter

LEMMA StartType ==
    ASSUME SessionTypeOK, NEW c \in Calls, NEW t \in Tokens,
           Start(c, "refresh", "csrf", t) \/ Start(c, "logout", "revoke", t)
    PROVE  call' \in [Calls -> CallState]
<1>1. /\ [call[c] EXCEPT !.op = "refresh", !.at = "csrf", !.old = t] \in CallState
      /\ [call[c] EXCEPT !.op = "logout", !.at = "revoke", !.old = t] \in CallState
    BY FieldType DEF SessionTypeOK
<1> QED BY <1>1, CallType DEF Start

LEMMA MakeType ==
    ASSUME SessionTypeOK, NEW c \in Calls, MakeNext(c) \/ Login(c)
    PROVE  call' \in [Calls -> CallState]
<1>1. ASSUME NEW t \in Unused
      PROVE  /\ [call[c] EXCEPT !.at = "make", !.new = t] \in CallState
             /\ [call[c] EXCEPT !.op = "login", !.at = "make", !.new = t] \in CallState
    BY FieldType DEF SessionTypeOK, Unused
<1> QED BY <1>1, CallType DEF MakeNext, Login

LEMMA ListType ==
    ASSUME SessionTypeOK, MadeOnce, NEW c \in Calls, ReadList(c) \/ LogoutAll(c)
    PROVE  call' \in [Calls -> CallState]
<1>1. [call[c] EXCEPT !.op = "logoutAll", !.at = "sweep", !.jtis = list, !.since = delivered]
          \in CallState
    BY FieldType DEF SessionTypeOK
<1>2. ASSUME ReadList(c)
      PROVE  [call[c] EXCEPT !.at = "write", !.jtis = list \cup {call[c].new}] \in CallState
  <2>1. list \cup {call[c].new} \in SUBSET Tokens
    BY <1>2 DEF ReadList, At, SessionTypeOK, MadeOnce, Creating
  <2> QED BY <2>1, FieldType DEF SessionTypeOK
<1> QED BY <1>1, <1>2, CallType DEF ReadList, LogoutAll

LEMMA NextType ==
    ASSUME SessionTypeOK, NEW c \in Calls, RevokeNext(c)
    PROVE  call' \in [Calls -> CallState]
<1>1. call[c] \in CallState /\ call[c].jtis \in SUBSET Tokens
    BY DEF SessionTypeOK, CallState
<1>2. ASSUME NEW t \in call[c].jtis
      PROVE  [call[c] EXCEPT !.at = "revoke", !.old = t, !.jtis = call[c].jtis \ {t}] \in CallState
    BY <1>1, FieldType
<1> QED BY <1>2, CallType DEF RevokeNext

LEMMA RefreshInv ==
    ASSUME SessionInv, NEW c \in Calls, NEW t \in Tokens, Refresh(c, t)
    PROVE  SessionInv'
<1>1. call' \in [Calls -> CallState]
    BY StartType DEF SessionInv, Refresh
<1> USE TokensAssumption DEF Refresh, Start, Enter, Leave, MakeNext, At, redisVars, pastVars,
        Unused, BeingMade, Sweeping, CallState
<1>2. call \in [Calls -> CallState]
    BY DEF SessionInv, SessionTypeOK
<1>3. SessionTypeOK'
    BY <1>2, <1>1 DEF SessionInv, SessionTypeOK, StagesFit, MadeOnce, Creating
<1>4. StagesFit'
    BY <1>2 DEF SessionInv, StagesFit, Creating
<1>5. MadeOnce'
    BY <1>2 DEF SessionInv, StagesFit, MadeOnce, Creating
<1>6. OnlyKnown'
    BY <1>2 DEF SessionInv, StagesFit, MadeOnce, OnlyKnown, IsKnown, Creating
<1>7. OverlapsAreSeen' /\ ListIsComplete' /\ SweepIsComplete'
    BY <1>2 DEF SessionInv, StagesFit, MadeOnce, OverlapsAreSeen, ListIsComplete,
       IsListed, SweepIsComplete, Creating, Late
<1>8. EndIsFinal' /\ ExchangeIsFinal'
    BY <1>2 DEF SessionInv, StagesFit, MadeOnce, OnlyKnown, IsKnown, OverlapsAreSeen,
       SweepIsComplete, EndIsFinal, ExchangeIsFinal, MayExchange, Creating, Late
<1> QED BY <1>3, <1>4, <1>5, <1>6, <1>7, <1>8 DEF SessionInv

LEMMA ReadCsrfInv ==
    ASSUME SessionInv, NEW c \in Calls, ReadCsrf(c)
    PROVE  SessionInv'
<1> USE TokensAssumption DEF ReadCsrf, Start, Enter, Leave, MakeNext, At, redisVars, pastVars,
        Unused, BeingMade, Sweeping, CallState
<1>1. call \in [Calls -> CallState]
    BY DEF SessionInv, SessionTypeOK
<1>2. SessionTypeOK'
  <2>1. call' \in [Calls -> CallState]
    BY EnterType DEF SessionInv, SessionTypeOK
  <2> QED BY <1>1, <2>1 DEF SessionInv, SessionTypeOK, StagesFit, MadeOnce, Creating
<1>3. StagesFit' /\ MadeOnce'
    BY <1>1 DEF SessionInv, SessionTypeOK, StagesFit, MadeOnce, Creating
<1>4. OnlyKnown'
    BY <1>1 DEF SessionInv, StagesFit, MadeOnce, OnlyKnown, IsKnown, Creating
<1>5. OverlapsAreSeen' /\ ListIsComplete' /\ SweepIsComplete'
    BY <1>1 DEF SessionInv, StagesFit, MadeOnce, OverlapsAreSeen, ListIsComplete,
       IsListed, SweepIsComplete, Creating, Late
<1>6. EndIsFinal' /\ ExchangeIsFinal'
    BY <1>1 DEF SessionInv, StagesFit, MadeOnce, OnlyKnown, IsKnown, OverlapsAreSeen,
       SweepIsComplete, EndIsFinal, ExchangeIsFinal, MayExchange, Creating, Late
<1> QED BY <1>2, <1>3, <1>4, <1>5, <1>6 DEF SessionInv

LEMMA RevokeInv ==
    ASSUME SessionInv, NEW c \in Calls, Revoke(c)
    PROVE  SessionInv'
<1> USE TokensAssumption DEF Revoke, Start, Enter, Leave, MakeNext, At, redisVars, pastVars,
        Unused, BeingMade, Sweeping, CallState
<1>1. call \in [Calls -> CallState]
    BY DEF SessionInv, SessionTypeOK
<1>2. SessionTypeOK'
  <2>1. call' \in [Calls -> CallState]
    BY EnterType DEF SessionInv, SessionTypeOK
  <2> QED BY <1>1, <2>1 DEF SessionInv, SessionTypeOK, StagesFit, MadeOnce, Creating
<1>3. StagesFit' /\ MadeOnce'
    BY <1>1 DEF SessionInv, StagesFit, MadeOnce, Creating
<1>4. OnlyKnown'
    BY <1>1 DEF SessionInv, StagesFit, MadeOnce, OnlyKnown, IsKnown, Creating
<1>5. OverlapsAreSeen' /\ ListIsComplete' /\ SweepIsComplete'
    BY <1>1 DEF SessionInv, StagesFit, MadeOnce, OverlapsAreSeen, ListIsComplete,
       IsListed, SweepIsComplete, Creating, Late
<1>6. EndIsFinal' /\ ExchangeIsFinal'
    BY <1>1 DEF SessionInv, StagesFit, MadeOnce, OnlyKnown, IsKnown, OverlapsAreSeen,
       SweepIsComplete, EndIsFinal, ExchangeIsFinal, MayExchange, Creating, Late
<1> QED BY <1>2, <1>3, <1>4, <1>5, <1>6 DEF SessionInv

LEMMA BlacklistRefreshInv ==
    ASSUME SessionInv, NEW c \in Calls, At(c, {"blacklist"}), call[c].op = "refresh",
           blacklist' = blacklist \cup {call[c].old}, MakeNext(c),
           UNCHANGED <<session, list, delivered, pastVars>>
    PROVE  SessionInv'
<1>1. call' \in [Calls -> CallState]
    BY MakeType DEF SessionInv
<1> USE TokensAssumption DEF Start, Enter, Leave, MakeNext, At, redisVars, pastVars, Unused,
        BeingMade, Sweeping, CallState
<1>2. call \in [Calls -> CallState]
    BY DEF SessionInv, SessionTypeOK
<1>3. SessionTypeOK'
    BY <1>2, <1>1 DEF SessionInv, SessionTypeOK, StagesFit, MadeOnce, Creating
<1>4. StagesFit' /\ MadeOnce'
    BY <1>2 DEF SessionInv, StagesFit, MadeOnce, Creating
<1>5. OnlyKnown'
    BY <1>2 DEF SessionInv, StagesFit, MadeOnce, OnlyKnown, IsKnown, Creating
<1>6. OverlapsAreSeen' /\ ListIsComplete' /\ SweepIsComplete'
    BY <1>2 DEF SessionInv, StagesFit, MadeOnce, OverlapsAreSeen, ListIsComplete,
       IsListed, SweepIsComplete, Creating, Late
<1>7. EndIsFinal' /\ ExchangeIsFinal'
    BY <1>2 DEF SessionInv, StagesFit, MadeOnce, OnlyKnown, IsKnown, OverlapsAreSeen,
       SweepIsComplete, EndIsFinal, ExchangeIsFinal, MayExchange, Creating, Late
<1> QED BY <1>3, <1>4, <1>5, <1>6, <1>7 DEF SessionInv

LEMMA BlacklistLogoutInv ==
    ASSUME SessionInv, NEW c \in Calls, At(c, {"blacklist"}), call[c].op = "logout",
           blacklist' = blacklist \cup {call[c].old}, Leave(c),
           UNCHANGED <<session, list, delivered, pastVars>>
    PROVE  SessionInv'
<1> USE TokensAssumption DEF Start, Enter, Leave, MakeNext, At, redisVars, pastVars, Unused,
        BeingMade, Sweeping, CallState
<1>1. call \in [Calls -> CallState]
    BY DEF SessionInv, SessionTypeOK
<1>2. SessionTypeOK'
  <2>1. call' \in [Calls -> CallState]
    BY LeaveType DEF SessionInv, SessionTypeOK
  <2> QED BY <1>1, <2>1 DEF SessionInv, SessionTypeOK, StagesFit, MadeOnce, Creating
<1>3. StagesFit' /\ MadeOnce'
    BY <1>1 DEF SessionInv, StagesFit, MadeOnce, Creating
<1>4. OnlyKnown'
    BY <1>1 DEF SessionInv, StagesFit, MadeOnce, OnlyKnown, IsKnown, Creating
<1>5. OverlapsAreSeen' /\ ListIsComplete' /\ SweepIsComplete'
    BY <1>1 DEF SessionInv, StagesFit, MadeOnce, OverlapsAreSeen, ListIsComplete,
       IsListed, SweepIsComplete, Creating, Late
<1>6. EndIsFinal' /\ ExchangeIsFinal'
    BY <1>1 DEF SessionInv, StagesFit, MadeOnce, OnlyKnown, IsKnown, OverlapsAreSeen,
       SweepIsComplete, EndIsFinal, ExchangeIsFinal, MayExchange, Creating, Late
<1> QED BY <1>2, <1>3, <1>4, <1>5, <1>6 DEF SessionInv

LEMMA BlacklistSweepInv ==
    ASSUME SessionInv, NEW c \in Calls, At(c, {"blacklist"}), call[c].op = "logoutAll",
           blacklist' = blacklist \cup {call[c].old}, Enter(c, "sweep"),
           UNCHANGED <<session, list, delivered, pastVars>>
    PROVE  SessionInv'
<1> USE TokensAssumption DEF Start, Enter, Leave, MakeNext, At, redisVars, pastVars, Unused,
        BeingMade, Sweeping, CallState
<1>1. call \in [Calls -> CallState]
    BY DEF SessionInv, SessionTypeOK
<1>2. SessionTypeOK'
  <2>1. call' \in [Calls -> CallState]
    BY EnterType DEF SessionInv, SessionTypeOK
  <2> QED BY <1>1, <2>1 DEF SessionInv, SessionTypeOK, StagesFit, MadeOnce, Creating
<1>3. StagesFit' /\ MadeOnce'
    BY <1>1 DEF SessionInv, StagesFit, MadeOnce, Creating
<1>4. OnlyKnown'
    BY <1>1 DEF SessionInv, StagesFit, MadeOnce, OnlyKnown, IsKnown, Creating
<1>5. OverlapsAreSeen' /\ ListIsComplete' /\ SweepIsComplete'
    BY <1>1 DEF SessionInv, StagesFit, MadeOnce, OverlapsAreSeen, ListIsComplete,
       IsListed, SweepIsComplete, Creating, Late
<1>6. EndIsFinal' /\ ExchangeIsFinal'
    BY <1>1 DEF SessionInv, StagesFit, MadeOnce, OnlyKnown, IsKnown, OverlapsAreSeen,
       SweepIsComplete, EndIsFinal, ExchangeIsFinal, MayExchange, Creating, Late
<1> QED BY <1>2, <1>3, <1>4, <1>5, <1>6 DEF SessionInv

LEMMA LoginInv ==
    ASSUME SessionInv, NEW c \in Calls, Login(c)
    PROVE  SessionInv'
<1>1. call' \in [Calls -> CallState]
    BY MakeType DEF SessionInv
<1> USE TokensAssumption DEF Login, Start, Enter, Leave, MakeNext, At, redisVars, pastVars,
        Unused, BeingMade, Sweeping, CallState
<1>2. call \in [Calls -> CallState]
    BY DEF SessionInv, SessionTypeOK
<1>3. SessionTypeOK'
    BY <1>2, <1>1 DEF SessionInv, SessionTypeOK, StagesFit, MadeOnce, Creating
<1>4. StagesFit' /\ MadeOnce'
    BY <1>2 DEF SessionInv, StagesFit, MadeOnce, Creating
<1>5. OnlyKnown'
    BY <1>2 DEF SessionInv, StagesFit, MadeOnce, OnlyKnown, IsKnown, Creating
<1>6. OverlapsAreSeen' /\ ListIsComplete' /\ SweepIsComplete'
    BY <1>2 DEF SessionInv, StagesFit, MadeOnce, OverlapsAreSeen, ListIsComplete,
       IsListed, SweepIsComplete, Creating, Late
<1>7. EndIsFinal' /\ ExchangeIsFinal'
    BY <1>2 DEF SessionInv, StagesFit, MadeOnce, OnlyKnown, IsKnown, OverlapsAreSeen,
       SweepIsComplete, EndIsFinal, ExchangeIsFinal, MayExchange, Creating, Late
<1> QED BY <1>3, <1>4, <1>5, <1>6, <1>7 DEF SessionInv

LEMMA MakeSessionInv ==
    ASSUME SessionInv, NEW c \in Calls, MakeSession(c)
    PROVE  SessionInv'
<1> USE TokensAssumption DEF MakeSession, Start, Enter, Leave, MakeNext, At, redisVars, pastVars,
        Unused, BeingMade, Sweeping, CallState
<1>1. call \in [Calls -> CallState]
    BY DEF SessionInv, SessionTypeOK
<1>2. SessionTypeOK'
  <2>1. call' \in [Calls -> CallState]
    BY EnterType DEF SessionInv, SessionTypeOK
  <2> QED BY <1>1, <2>1 DEF SessionInv, SessionTypeOK, StagesFit, MadeOnce, Creating
<1>3. StagesFit' /\ MadeOnce'
    BY <1>1 DEF SessionInv, StagesFit, MadeOnce, Creating
<1>4. OnlyKnown'
    BY <1>1 DEF SessionInv, StagesFit, MadeOnce, OnlyKnown, IsKnown, Creating
<1>5. OverlapsAreSeen' /\ ListIsComplete' /\ SweepIsComplete'
    BY <1>1 DEF SessionInv, StagesFit, MadeOnce, OverlapsAreSeen, ListIsComplete,
       IsListed, SweepIsComplete, Creating, Late
<1>6. EndIsFinal'
  <2>1. /\ call[c].new \in Tokens \ delivered
        /\ call[c].new \in blacklist => call[c].new \in overlapped
        /\ swept \subseteq delivered
    BY <1>1 DEF SessionInv, SessionTypeOK, MadeOnce, EndIsFinal, Creating
  <2>2. ASSUME NEW d \in Calls, At(d, {"blacklist"}), call[d].old = call[c].new
        PROVE  call[c].new \in overlapped'
    BY <1>1, <2>1, <2>2 DEF SessionInv, StagesFit, OverlapsAreSeen, Late
  <2>3. /\ overlapped \subseteq overlapped' /\ session' = session \cup {call[c].new}
        /\ blacklist' = blacklist /\ swept' = swept
        /\ \A d \in Calls \ {c} : call'[d] = call[d]
        /\ call'[c].new = call[c].new /\ call'[c].at \notin {"make", "blacklist"}
        /\ At(c, Creating)
    BY <1>1 DEF Creating
  <2> QED BY <1>1, <2>1, <2>2, <2>3 DEF SessionInv, EndIsFinal, Creating
<1>7. ExchangeIsFinal'
    BY <1>1 DEF SessionInv, ExchangeIsFinal, MayExchange, StagesFit, MadeOnce, Creating
<1> QED BY <1>2, <1>3, <1>4, <1>5, <1>6, <1>7 DEF SessionInv

LEMMA ReadListInv ==
    ASSUME SessionInv, NEW c \in Calls, ReadList(c)
    PROVE  SessionInv'
<1>1. call' \in [Calls -> CallState]
    BY ListType DEF SessionInv
<1> USE TokensAssumption DEF ReadList, Start, Enter, Leave, MakeNext, At, redisVars, pastVars,
        Unused, BeingMade, Sweeping, CallState
<1>2. call \in [Calls -> CallState]
    BY DEF SessionInv, SessionTypeOK
<1>3. SessionTypeOK'
  <2>1. \A d \in Calls : At(d, {"write", "read"}) => call[d].new \in Tokens
    BY <1>2 DEF SessionInv, MadeOnce, Creating
  <2>2. overlapped' \subseteq overlapped \cup BeingMade({"write"}) \cup {call[c].new}
    OBVIOUS
  <2>3. overlapped' \subseteq Tokens
    BY <2>1, <2>2 DEF SessionInv, SessionTypeOK
  <2> QED BY <1>1, <2>3 DEF SessionInv, SessionTypeOK
<1>4. StagesFit' /\ MadeOnce'
    BY <1>2 DEF SessionInv, StagesFit, MadeOnce, Creating
<1>5. OnlyKnown'
    BY <1>2 DEF SessionInv, StagesFit, MadeOnce, OnlyKnown, IsKnown, Creating
<1>6. OverlapsAreSeen'
  <2>1. \A d \in Calls : /\ call'[d].op = call[d].op /\ call'[d].new = call[d].new
                         /\ d # c => call'[d].at = call[d].at
    BY <1>2
  <2>2. overlapped \subseteq overlapped' /\ call[c].at = "read"
    OBVIOUS
  <2>3. ASSUME NEW d \in Calls, d # c, call[d].at = "write"
        PROVE  {call[d].new, call[c].new} \subseteq overlapped'
    BY <1>2, <2>3
  <2>4. Sweeping' = Sweeping
    BY <2>1
  <2>5. Sweeping => \A d \in Calls : call'[d].at \in Late => call'[d].new \in overlapped'
    BY <2>1, <2>2 DEF SessionInv, OverlapsAreSeen, Late
  <2>6. ASSUME NEW d \in Calls, NEW e \in Calls, d # e, call'[d].at = "write", call'[e].at = "write"
        PROVE  call'[d].new \in overlapped'
    BY SMTT(30), <2>1, <2>2, <2>3, <2>6 DEF SessionInv, OverlapsAreSeen
  <2> QED BY <2>4, <2>5, <2>6 DEF OverlapsAreSeen
<1>7. ListIsComplete'
    BY <1>2 DEF SessionInv, ListIsComplete, IsListed, StagesFit, MadeOnce,
       OverlapsAreSeen, SweepIsComplete, Creating, Late
<1>8. SweepIsComplete'
    BY <1>2 DEF SessionInv, SweepIsComplete, StagesFit, MadeOnce, ListIsComplete,
       IsListed, OverlapsAreSeen, Creating, Late
<1>9. EndIsFinal' /\ ExchangeIsFinal'
    BY <1>2 DEF SessionInv, StagesFit, MadeOnce, OnlyKnown, IsKnown, OverlapsAreSeen,
       SweepIsComplete, EndIsFinal, ExchangeIsFinal, MayExchange, Creating, Late
<1> QED BY <1>3, <1>4, <1>5, <1>6, <1>7, <1>8, <1>9 DEF SessionInv

LEMMA WriteListInv ==
    ASSUME SessionInv, NEW c \in Calls, WriteList(c)
    PROVE  SessionInv'
<1> USE TokensAssumption DEF WriteList, Start, Enter, Leave, MakeNext, At, redisVars, pastVars,
        Unused, BeingMade, Sweeping, CallState
<1>1. call \in [Calls -> CallState]
    BY DEF SessionInv, SessionTypeOK
<1>2. SessionTypeOK'
  <2>1. call' \in [Calls -> CallState]
    BY EnterType DEF SessionInv, SessionTypeOK
  <2> QED BY <1>1, <2>1 DEF SessionInv, SessionTypeOK, StagesFit, MadeOnce, Creating
<1>3. StagesFit' /\ MadeOnce'
    BY <1>1 DEF SessionInv, StagesFit, MadeOnce, Creating
<1>4. OnlyKnown'
    BY <1>1 DEF SessionInv, StagesFit, MadeOnce, OnlyKnown, IsKnown, Creating
<1>5. OverlapsAreSeen' /\ ListIsComplete' /\ SweepIsComplete'
    BY <1>1 DEF SessionInv, StagesFit, MadeOnce, OverlapsAreSeen, ListIsComplete,
       IsListed, SweepIsComplete, Creating, Late
<1>6. EndIsFinal' /\ ExchangeIsFinal'
    BY <1>1 DEF SessionInv, StagesFit, MadeOnce, OnlyKnown, IsKnown, OverlapsAreSeen,
       SweepIsComplete, EndIsFinal, ExchangeIsFinal, MayExchange, Creating, Late
<1> QED BY <1>2, <1>3, <1>4, <1>5, <1>6 DEF SessionInv

LEMMA DeliverInv ==
    ASSUME SessionInv, NEW c \in Calls, Deliver(c)
    PROVE  SessionInv'
<1> USE TokensAssumption DEF Deliver, Start, Enter, Leave, MakeNext, At, redisVars, pastVars,
        Unused, BeingMade, Sweeping, CallState
<1>1. call \in [Calls -> CallState]
    BY DEF SessionInv, SessionTypeOK
<1>2. SessionTypeOK'
  <2>1. call' \in [Calls -> CallState]
    BY LeaveType, EnterType DEF SessionInv, SessionTypeOK
  <2> QED BY <1>1, <2>1 DEF SessionInv, SessionTypeOK, StagesFit, MadeOnce, Creating
<1>3. StagesFit' /\ MadeOnce'
    BY <1>1 DEF SessionInv, StagesFit, MadeOnce, Creating
<1>4. OnlyKnown'
    BY <1>1 DEF SessionInv, StagesFit, MadeOnce, OnlyKnown, IsKnown, Creating
<1>5. OverlapsAreSeen' /\ ListIsComplete' /\ SweepIsComplete'
    BY SMTT(30), <1>1 DEF SessionInv, StagesFit, MadeOnce, OverlapsAreSeen, ListIsComplete,
       IsListed, SweepIsComplete, Creating, Late
<1>6. EndIsFinal' /\ ExchangeIsFinal'
    BY <1>1 DEF SessionInv, StagesFit, MadeOnce, OnlyKnown, IsKnown, OverlapsAreSeen,
       SweepIsComplete, EndIsFinal, ExchangeIsFinal, MayExchange, Creating, Late
<1> QED BY <1>2, <1>3, <1>4, <1>5, <1>6 DEF SessionInv

LEMMA TouchSessionInv ==
    ASSUME SessionInv, NEW c \in Calls, TouchSession(c)
    PROVE  SessionInv'
<1> USE TokensAssumption DEF TouchSession, Start, Enter, Leave, MakeNext, At, redisVars, pastVars,
        Unused, BeingMade, Sweeping, CallState
<1>1. call \in [Calls -> CallState]
    BY DEF SessionInv, SessionTypeOK
<1>2. SessionTypeOK'
  <2>1. call' \in [Calls -> CallState]
    BY LeaveType DEF SessionInv, SessionTypeOK
  <2> QED BY <1>1, <2>1 DEF SessionInv, SessionTypeOK, StagesFit, MadeOnce, Creating
<1>3. StagesFit' /\ MadeOnce'
    BY <1>1 DEF SessionInv, StagesFit, MadeOnce, Creating
<1>4. OnlyKnown'
    BY <1>1 DEF SessionInv, StagesFit, MadeOnce, OnlyKnown, IsKnown, Creating
<1>5. OverlapsAreSeen' /\ ListIsComplete' /\ SweepIsComplete'
    BY <1>1 DEF SessionInv, StagesFit, MadeOnce, OverlapsAreSeen, ListIsComplete,
       IsListed, SweepIsComplete, Creating, Late
<1>6. EndIsFinal'
  <2>1. /\ call[c].new \in Tokens \ delivered
        /\ call[c].new \in blacklist => call[c].new \in overlapped
        /\ swept \subseteq delivered
    BY <1>1 DEF SessionInv, SessionTypeOK, MadeOnce, EndIsFinal, Creating
  <2>2. ASSUME NEW d \in Calls, At(d, {"blacklist"}), call[d].old = call[c].new
        PROVE  call[c].new \in overlapped'
    BY <1>1, <2>1, <2>2 DEF SessionInv, StagesFit, OverlapsAreSeen, Late
  <2>3. /\ overlapped \subseteq overlapped' /\ session' = session \cup {call[c].new}
        /\ blacklist' = blacklist /\ swept' = swept
        /\ \A d \in Calls \ {c} : call'[d] = call[d]
        /\ call'[c].new = call[c].new /\ call'[c].at \notin {"make", "blacklist"}
        /\ At(c, Creating)
    BY <1>1 DEF Creating
  <2> QED BY <1>1, <2>1, <2>2, <2>3 DEF SessionInv, EndIsFinal, Creating
<1>7. ExchangeIsFinal'
    BY <1>1 DEF SessionInv, ExchangeIsFinal, MayExchange, StagesFit, MadeOnce, Creating
<1> QED BY <1>2, <1>3, <1>4, <1>5, <1>6, <1>7 DEF SessionInv

LEMMA LogoutInv ==
    ASSUME SessionInv, NEW c \in Calls, NEW t \in Tokens, Logout(c, t)
    PROVE  SessionInv'
<1>1. call' \in [Calls -> CallState]
    BY StartType DEF SessionInv, Logout
<1> USE TokensAssumption DEF Logout, Start, Enter, Leave, MakeNext, At, redisVars, pastVars,
        Unused, BeingMade, Sweeping, CallState
<1>2. call \in [Calls -> CallState]
    BY DEF SessionInv, SessionTypeOK
<1>3. SessionTypeOK'
    BY <1>2, <1>1 DEF SessionInv, SessionTypeOK, StagesFit, MadeOnce, Creating
<1>4. StagesFit' /\ MadeOnce'
    BY <1>2 DEF SessionInv, StagesFit, MadeOnce, Creating
<1>5. OnlyKnown'
    BY <1>2 DEF SessionInv, StagesFit, MadeOnce, OnlyKnown, IsKnown, Creating
<1>6. OverlapsAreSeen' /\ ListIsComplete' /\ SweepIsComplete'
    BY <1>2 DEF SessionInv, StagesFit, MadeOnce, OverlapsAreSeen, ListIsComplete,
       IsListed, SweepIsComplete, Creating, Late
<1>7. EndIsFinal' /\ ExchangeIsFinal'
    BY <1>2 DEF SessionInv, StagesFit, MadeOnce, OnlyKnown, IsKnown, OverlapsAreSeen,
       SweepIsComplete, EndIsFinal, ExchangeIsFinal, MayExchange, Creating, Late
<1> QED BY <1>3, <1>4, <1>5, <1>6, <1>7 DEF SessionInv

LEMMA LogoutAllInv ==
    ASSUME SessionInv, NEW c \in Calls, LogoutAll(c)
    PROVE  SessionInv'
<1>1. call' \in [Calls -> CallState]
    BY ListType DEF SessionInv
<1> USE TokensAssumption DEF LogoutAll, Start, Enter, Leave, MakeNext, At, redisVars, pastVars,
        Unused, BeingMade, Sweeping, CallState
<1>2. call \in [Calls -> CallState]
    BY DEF SessionInv, SessionTypeOK
<1>3. SessionTypeOK'
    BY <1>2, <1>1 DEF SessionInv, SessionTypeOK, StagesFit, MadeOnce, Creating
<1>4. StagesFit' /\ MadeOnce'
    BY <1>2 DEF SessionInv, StagesFit, MadeOnce, Creating
<1>5. OnlyKnown'
    BY <1>2 DEF SessionInv, StagesFit, MadeOnce, OnlyKnown, IsKnown, Creating
<1>6. OverlapsAreSeen' /\ ListIsComplete' /\ SweepIsComplete'
    BY <1>2 DEF SessionInv, StagesFit, MadeOnce, OverlapsAreSeen, ListIsComplete,
       IsListed, SweepIsComplete, Creating, Late
<1>7. EndIsFinal' /\ ExchangeIsFinal'
    BY <1>2 DEF SessionInv, StagesFit, MadeOnce, OnlyKnown, IsKnown, OverlapsAreSeen,
       SweepIsComplete, EndIsFinal, ExchangeIsFinal, MayExchange, Creating, Late
<1> QED BY <1>3, <1>4, <1>5, <1>6, <1>7 DEF SessionInv

LEMMA RevokeNextInv ==
    ASSUME SessionInv, NEW c \in Calls, RevokeNext(c)
    PROVE  SessionInv'
<1>1. call' \in [Calls -> CallState]
    BY NextType DEF SessionInv
<1> USE TokensAssumption DEF RevokeNext, Start, Enter, Leave, MakeNext, At, redisVars, pastVars,
        Unused, BeingMade, Sweeping, CallState
<1>2. call \in [Calls -> CallState]
    BY DEF SessionInv, SessionTypeOK
<1>3. SessionTypeOK'
    BY <1>2, <1>1 DEF SessionInv, SessionTypeOK, StagesFit, MadeOnce, Creating
<1>4. StagesFit' /\ MadeOnce'
    BY <1>2 DEF SessionInv, StagesFit, MadeOnce, Creating
<1>5. OnlyKnown'
    BY <1>2 DEF SessionInv, StagesFit, MadeOnce, OnlyKnown, IsKnown, Creating
<1>6. OverlapsAreSeen' /\ ListIsComplete' /\ SweepIsComplete'
    BY <1>2 DEF SessionInv, StagesFit, MadeOnce, OverlapsAreSeen, ListIsComplete,
       IsListed, SweepIsComplete, Creating, Late
<1>7. EndIsFinal' /\ ExchangeIsFinal'
    BY <1>2 DEF SessionInv, StagesFit, MadeOnce, OnlyKnown, IsKnown, OverlapsAreSeen,
       SweepIsComplete, EndIsFinal, ExchangeIsFinal, MayExchange, Creating, Late
<1> QED BY <1>3, <1>4, <1>5, <1>6, <1>7 DEF SessionInv

LEMMA ClearListInv ==
    ASSUME SessionInv, NEW c \in Calls, ClearList(c)
    PROVE  SessionInv'
<1> USE TokensAssumption DEF ClearList, Start, Enter, Leave, MakeNext, At, redisVars, pastVars,
        Unused, BeingMade, Sweeping, CallState
<1>1. call \in [Calls -> CallState]
    BY DEF SessionInv, SessionTypeOK
<1>2. SessionTypeOK'
  <2>1. call' \in [Calls -> CallState]
    BY LeaveType DEF SessionInv, SessionTypeOK
  <2> QED BY <1>1, <2>1 DEF SessionInv, SessionTypeOK, StagesFit, MadeOnce, Creating
<1>3. StagesFit' /\ MadeOnce'
    BY <1>1 DEF SessionInv, StagesFit, MadeOnce, Creating
<1>4. OnlyKnown'
    BY <1>1 DEF SessionInv, StagesFit, MadeOnce, OnlyKnown, IsKnown, Creating
<1>5. OverlapsAreSeen' /\ ListIsComplete' /\ SweepIsComplete'
    BY <1>1 DEF SessionInv, StagesFit, MadeOnce, OverlapsAreSeen, ListIsComplete,
       IsListed, SweepIsComplete, Creating, Late
<1>6. EndIsFinal' /\ ExchangeIsFinal'
    BY <1>1 DEF SessionInv, StagesFit, MadeOnce, OnlyKnown, IsKnown, OverlapsAreSeen,
       SweepIsComplete, EndIsFinal, ExchangeIsFinal, MayExchange, Creating, Late
<1> QED BY <1>2, <1>3, <1>4, <1>5, <1>6 DEF SessionInv

LEMMA FailInv ==
    ASSUME SessionInv, NEW c \in Calls, Fail(c)
    PROVE  SessionInv'
<1> USE TokensAssumption DEF Fail, Start, Enter, Leave, MakeNext, At, redisVars, pastVars,
        Unused, BeingMade, Sweeping, CallState
<1>1. call \in [Calls -> CallState]
    BY DEF SessionInv, SessionTypeOK
<1>2. SessionTypeOK'
  <2>1. call' \in [Calls -> CallState]
    BY LeaveType DEF SessionInv, SessionTypeOK
  <2> QED BY <1>1, <2>1 DEF SessionInv, SessionTypeOK, StagesFit, MadeOnce, Creating
<1>3. StagesFit' /\ MadeOnce'
    BY <1>1 DEF SessionInv, StagesFit, MadeOnce, Creating
<1>4. OnlyKnown'
    BY <1>1 DEF SessionInv, StagesFit, MadeOnce, OnlyKnown, IsKnown, Creating
<1>5. OverlapsAreSeen' /\ ListIsComplete' /\ SweepIsComplete'
    BY <1>1 DEF SessionInv, StagesFit, MadeOnce, OverlapsAreSeen, ListIsComplete,
       IsListed, SweepIsComplete, Creating, Late
<1>6. EndIsFinal' /\ ExchangeIsFinal'
    BY <1>1 DEF SessionInv, StagesFit, MadeOnce, OnlyKnown, IsKnown, OverlapsAreSeen,
       SweepIsComplete, EndIsFinal, ExchangeIsFinal, MayExchange, Creating, Late
<1> QED BY <1>2, <1>3, <1>4, <1>5, <1>6 DEF SessionInv

LEMMA BlacklistInv ==
    ASSUME SessionInv, NEW c \in Calls, Blacklist(c)
    PROVE  SessionInv'
<1>1. call[c].op \in {"refresh", "logout", "logoutAll"}
    BY DEF SessionInv, StagesFit, Blacklist, At
<1>2. /\ At(c, {"blacklist"})
      /\ blacklist' = blacklist \cup {call[c].old}
      /\ UNCHANGED <<session, list, delivered, pastVars>>
    BY DEF Blacklist
<1>3. CASE call[c].op = "refresh"
  <2>1. MakeNext(c)
    BY <1>3 DEF Blacklist
  <2> QED BY <1>2, <1>3, <2>1, BlacklistRefreshInv
<1>4. CASE call[c].op = "logout"
  <2>1. Leave(c)
    BY <1>4 DEF Blacklist
  <2> QED BY <1>2, <1>4, <2>1, BlacklistLogoutInv
<1>5. CASE call[c].op = "logoutAll"
  <2>1. Enter(c, "sweep")
    BY <1>5 DEF Blacklist
  <2> QED BY <1>2, <1>5, <2>1, BlacklistSweepInv
<1> QED BY <1>1, <1>3, <1>4, <1>5

LEMMA SessionRests == SessionInv /\ UNCHANGED sessionVars => SessionInv'
<1> SUFFICES ASSUME SessionInv, UNCHANGED sessionVars PROVE SessionInv'
    OBVIOUS
<1> USE DEF sessionVars, redisVars, pastVars, SessionInv, At, BeingMade, Sweeping
<1>1. SessionTypeOK'
    BY DEF SessionTypeOK
<1>2. StagesFit' /\ MadeOnce'
    BY DEF StagesFit, MadeOnce
<1>3. OnlyKnown'
    BY DEF OnlyKnown, IsKnown
<1>4. OverlapsAreSeen' /\ ListIsComplete' /\ SweepIsComplete'
    BY DEF OverlapsAreSeen, ListIsComplete, IsListed, SweepIsComplete
<1>5. EndIsFinal' /\ ExchangeIsFinal'
    BY DEF EndIsFinal, ExchangeIsFinal, MayExchange
<1> QED BY <1>1, <1>2, <1>3, <1>4, <1>5

-----------------------------------------------------------------------------
(* Sessions: theorems *)

LEMMA SessionStarts == SessionInit => SessionInv
<1> SUFFICES ASSUME SessionInit PROVE SessionInv
    OBVIOUS
<1> USE TokensAssumption DEF SessionInit, At
<1>1. SessionTypeOK
  <2>1. [op |-> "none", at |-> "idle", old |-> NoToken, new |-> NoToken, jtis |-> {},
         since |-> {}] \in CallState
    BY DEF CallState
  <2>2. call \in [Calls -> CallState]
    BY <2>1
  <2> QED BY <2>2 DEF SessionTypeOK
<1>2. StagesFit /\ MadeOnce /\ OnlyKnown
    BY DEF StagesFit, MadeOnce, OnlyKnown, IsKnown, Creating
<1>3. OverlapsAreSeen /\ ListIsComplete /\ SweepIsComplete
    BY DEF OverlapsAreSeen, ListIsComplete, IsListed, SweepIsComplete, Late, Sweeping
<1>4. EndIsFinal /\ ExchangeIsFinal
    BY DEF EndIsFinal, ExchangeIsFinal, MayExchange, Creating
<1> QED BY <1>1, <1>2, <1>3, <1>4 DEF SessionInv

LEMMA SessionSteps == SessionInv /\ [SessionNext]_sessionVars => SessionInv'
<1> SUFFICES ASSUME SessionInv, [SessionNext]_sessionVars PROVE SessionInv'
    OBVIOUS
<1>1. ASSUME NEW c \in Calls, CallStep(c) PROVE SessionInv'
    BY <1>1, ReadCsrfInv, RevokeInv, BlacklistInv, MakeSessionInv, ReadListInv, WriteListInv,
       DeliverInv, TouchSessionInv, RevokeNextInv, ClearListInv DEF CallStep
<1>2. ASSUME NEW c \in Calls, Fail(c) \/ Login(c) \/ LogoutAll(c) PROVE SessionInv'
    BY <1>2, FailInv, LoginInv, LogoutAllInv
<1>3. ASSUME NEW c \in Calls, NEW t \in Tokens, Refresh(c, t) \/ Logout(c, t) PROVE SessionInv'
    BY <1>3, RefreshInv, LogoutInv
<1> QED BY <1>1, <1>2, <1>3, SessionRests DEF SessionNext

\* The inductive invariant holds in every run of the user's calls.
THEOREM SessionsHold == SessionSpec => []SessionInv
    BY SessionStarts, SessionSteps, PTL DEF SessionSpec

\* Sessions, list, blacklist and calls keep their types.
THEOREM SessionTypes == SessionSpec => []SessionTypeOK
<1>1. SessionInv => SessionTypeOK
    BY DEF SessionInv
<1> QED BY <1>1, SessionsHold, PTL

\* A token for which two different ones were made was presented by two refreshes at once.
LEMMA ExchangedOnceHolds ==
    ASSUME SessionInv
    PROVE  ExchangedOnce
<1> SUFFICES ASSUME NEW t \in Tokens, t \notin shared
             PROVE  Cardinality({n \in Tokens : <<t, n>> \in exchanged}) <= 1
    BY DEF ExchangedOnce
<1> DEFINE N == {n \in Tokens : <<t, n>> \in exchanged}
<1>1. \A m, n \in N : m = n
  <2> SUFFICES ASSUME NEW m \in N, NEW n \in N PROVE m = n
    OBVIOUS
  <2>1. <<t, m>> \in exchanged /\ <<t, n>> \in exchanged
    OBVIOUS
  <2>2. <<t, m>> = <<t, n>>
    BY <2>1 DEF SessionInv, ExchangeIsFinal
  <2> QED BY <2>2
<1>2. Cardinality(N) <= 1
  <2> HIDE DEF N
  <2>1. CASE N = {}
    BY <2>1, FS_EmptySet
  <2>2. CASE N # {}
    <3>1. PICK n : n \in N
      BY <2>2
    <3>2. N = {n}
      BY <1>1, <3>1
    <3>3. Cardinality({n}) = 1
      BY FS_Singleton
    <3> QED BY <3>2, <3>3
  <2> QED BY <2>1, <2>2
<1> QED BY <1>2

\* TokenService: what was revoked, blacklisted or swept has no session again, and a
\* refresh token is exchanged once, but for the overlaps that the two awaits between
\* reading and writing leave open.
THEOREM TokensEnd == SessionSpec => []TokensEndOnce
<1>1. SessionInv => TokensEndOnce
    BY ExchangedOnceHolds DEF SessionInv, EndIsFinal, EndedStaysEnded, TokensEndOnce
<1> QED BY <1>1, SessionsHold, PTL

-----------------------------------------------------------------------------
(* Account: the inductive invariant *)

\* Links are made once and stored once, and only what was made is presented.
MailIsFresh ==
    /\ Elements(links) \cup spent \subseteq mailed
    /\ \A i, j \in DOMAIN links : links[i] = links[j] => i = j

\* Which calls come to which stage.
Belongs(r) ==
    /\ r.at = "make" => r.op \in {"register", "resend"}
    /\ r.at \in {"confirm", "tidy"} => r.op = "verify"
    /\ r.at \in {"shop", "open", "name"} => r.op \in {"verify", "ensure"}
    /\ r.at = "recent" => r.op \in {"resend", "forgot"}
    /\ r.at = "mail" => r.op = "forgot"
    /\ r.at = "uncache" => r.op \in {"verify", "reset", "change"}
    /\ r.at \in {"save", "clear"} => r.op \in {"reset", "change"}
    /\ r.at = "mark" => r.op = "reset"
    /\ r.op = "reset" => r.what \in Links
    /\ r.op = "change" => r.what = Nothing

\* What a call knows of the merchant, as long as no merchant is purged.
KnowsShop(r) ==
    purged \/
        /\ {r.mine, r.found} \subseteq shops \cup {Nothing}
        /\ r.mine # Nothing => user.shop # Nothing
        /\ r.at = "name" => r.found # Nothing
        /\ r.op \in {"verify", "ensure"} /\ r.at \in {"tidy", "ok"} => user.shop \in shops

\* A reset about to save holds a link that is not spent, and one about to delete the
\* other links has marked its own, or found it gone.
HoldsLink(r) ==
    r.op = "reset" =>
        /\ r.at = "save" => r.what \notin spent \ excused
        /\ r.at = "clear" => r.what \in used \/ r.what \notin Elements(links)

Fits(r) ==
    /\ Belongs(r)
    /\ r.what \in mailed \cup {Nothing}
    /\ KnowsShop(r)
    /\ HoldsLink(r)

VisitsFit == \A v \in Visits : Fits(visit[v])

\* The user has one merchant at most, and knows it.
OneShop ==
    /\ \A s, t \in shops : s = t
    /\ purged \/ user.shop \in shops \cup {Nothing}

\* A reset between saving the password and marking the link l.
Marking(r, l) == r.op = "reset" /\ r.at \in {"uncache", "mark"} /\ r.what = l

\* A spent link is used or gone, or a reset is about to mark it.
SpentIsMarked ==
    \A l \in spent \ excused :
        \/ l \in used \/ l \notin Elements(links)
        \/ \E v \in Visits : Marking(visit[v], l)

AccountInv ==
    /\ AccountTypeOK
    /\ MailIsFresh
    /\ VisitsFit
    /\ OneShop
    /\ SpentIsMarked
    /\ SpentLinksAreDead

-----------------------------------------------------------------------------
(* Account: sequences *)

LEMMA AppendAdds ==
    ASSUME NEW S, NEW s \in Seq(S), NEW x \in S
    PROVE  /\ Append(s, x) \in Seq(S)
           /\ Elements(Append(s, x)) = Elements(s) \cup {x}
<1>1. /\ Append(s, x) \in Seq(S) /\ DOMAIN s = 1..Len(s) /\ Len(s) \in Nat
      /\ DOMAIN Append(s, x) = 1..Len(s) + 1
      /\ \A i \in 1..Len(s) : Append(s, x)[i] = s[i]
      /\ Append(s, x)[Len(s) + 1] = x
    OBVIOUS
<1>2. Elements(s) \cup {x} \subseteq Elements(Append(s, x))
    BY <1>1 DEF Elements
<1>3. Elements(Append(s, x)) \subseteq Elements(s) \cup {x}
  <2>1. ASSUME NEW i \in 1..Len(s) + 1 PROVE Append(s, x)[i] \in Elements(s) \cup {x}
    <3>1. i \in 1..Len(s) \/ i = Len(s) + 1
      BY <1>1
    <3> QED BY <1>1, <3>1 DEF Elements
  <2> QED BY <1>1, <2>1 DEF Elements
<1> QED BY <1>1, <1>2, <1>3

LEMMA TailDrops ==
    ASSUME NEW S, NEW s \in Seq(S), s # <<>>
    PROVE  /\ Tail(s) \in Seq(S) /\ Head(s) = s[1] /\ 1 \in DOMAIN s
           /\ \A i \in DOMAIN Tail(s) : i + 1 \in DOMAIN s /\ Tail(s)[i] = s[i + 1] /\ i + 1 # 1
           /\ \A i, j \in DOMAIN Tail(s) : i + 1 = j + 1 => i = j
           /\ Elements(Tail(s)) \subseteq Elements(s)
<1>1. /\ Tail(s) \in Seq(S) /\ Head(s) = s[1] /\ 1 \in DOMAIN s
      /\ \A i \in DOMAIN Tail(s) : i + 1 \in DOMAIN s /\ Tail(s)[i] = s[i + 1] /\ i + 1 # 1
      /\ \A i, j \in DOMAIN Tail(s) : i + 1 = j + 1 => i = j
    OBVIOUS
<1> QED BY <1>1 DEF Elements

-----------------------------------------------------------------------------
(* Account: calls that only change what they know themselves *)

Stages == {"idle", "make", "look", "confirm", "uncache", "shop", "open", "name", "tidy",
           "recent", "mail", "save", "mark", "clear", "ok", "failed"}

\* GoTo changes the stage alone.
LEMMA GoToIs ==
    ASSUME AccountTypeOK, NEW v \in Visits, NEW at \in Stages, GoTo(v, at)
    PROVE  \E r \in Visit :
             /\ visit' = [visit EXCEPT ![v] = r]
             /\ r.at = at /\ r.op = visit[v].op /\ r.what = visit[v].what
             /\ r.mine = visit[v].mine /\ r.found = visit[v].found
<1>1. visit[v] \in Visit
    BY DEF AccountTypeOK
<1>2. /\ [visit[v] EXCEPT !.at = at] \in Visit
      /\ [visit[v] EXCEPT !.at = at].at = at
      /\ [visit[v] EXCEPT !.at = at].op = visit[v].op
      /\ [visit[v] EXCEPT !.at = at].what = visit[v].what
      /\ [visit[v] EXCEPT !.at = at].mine = visit[v].mine
      /\ [visit[v] EXCEPT !.at = at].found = visit[v].found
    BY <1>1 DEF Visit, Stages
<1>3. visit' = [visit EXCEPT ![v] = [visit[v] EXCEPT !.at = at]]
    BY DEF GoTo
<1> QED BY <1>2, <1>3

\* What all initial states have in common.
LEMMA FirstVisits ==
    ASSUME AccountInit,
           user \in [there : BOOLEAN, verified : BOOLEAN, shop : Shops \cup {Nothing}],
           shops \subseteq Shops, \A s, t \in shops : s = t, user.shop \in shops \cup {Nothing},
           codes \in Seq(Codes), links \in Seq(Links),
           Elements(codes) \subseteq Codes, Elements(links) \subseteq Links,
           \A i, j \in DOMAIN links : links[i] = links[j] => i = j
    PROVE  AccountInv
<1>1. visit \in [Visits -> Visit]
    BY DEF AccountInit, Visit
<1>2. AccountTypeOK
    BY <1>1 DEF AccountInit, AccountTypeOK
<1>3. VisitsFit
    BY DEF AccountInit, VisitsFit, Fits, Belongs, KnowsShop, HoldsLink
<1>4. MailIsFresh /\ OneShop /\ SpentIsMarked /\ SpentLinksAreDead
    BY DEF AccountInit, MailIsFresh, OneShop, SpentIsMarked, SpentLinksAreDead
<1> QED BY <1>2, <1>3, <1>4 DEF AccountInv

LEMMA AccountStarts == AccountInit => AccountInv
<1> SUFFICES ASSUME AccountInit PROVE AccountInv
    OBVIOUS
<1>1. CASE user = [there |-> FALSE, verified |-> FALSE, shop |-> Nothing] /\ shops = {}
           /\ codes = <<>> /\ links = <<>>
  <2>1. codes \in Seq(Codes) /\ links \in Seq(Links) /\ DOMAIN codes = {} /\ DOMAIN links = {}
    BY <1>1
  <2> QED BY <1>1, <2>1, FirstVisits DEF Elements
<1>2. ASSUME NEW c \in Codes, codes = <<c>>,
             user = [there |-> TRUE, verified |-> FALSE, shop |-> Nothing],
             shops = {}, links = <<>>
      PROVE  AccountInv
  <2>1. /\ codes \in Seq(Codes) /\ DOMAIN codes = {1} /\ codes[1] = c
        /\ links \in Seq(Links) /\ DOMAIN links = {}
    BY <1>2
  <2> QED BY <1>2, <2>1, FirstVisits DEF Elements
<1>3. ASSUME NEW s \in Shops, NEW l \in Links, NEW k \in Links, l # k,
             user = [there |-> TRUE, verified |-> TRUE, shop |-> s],
             shops = {s}, codes = <<>>, links \in {<<l>>, <<l, k>>}
      PROVE  AccountInv
  <2>1. links \in Seq(Links) /\ \A i, j \in DOMAIN links : links[i] = links[j] => i = j
    <3>1. CASE links = <<l>>
      <4>1. <<l>> \in Seq(Links) /\ DOMAIN <<l>> = {1}
        OBVIOUS
      <4> QED BY <3>1, <4>1
    <3>2. CASE links = <<l, k>>
      <4>1. /\ <<l, k>> \in Seq(Links) /\ DOMAIN <<l, k>> = {1, 2}
            /\ <<l, k>>[1] = l /\ <<l, k>>[2] = k
        OBVIOUS
      <4> QED BY <1>3, <3>2, <4>1
    <3> QED BY <1>3, <3>1, <3>2
  <2>2. Elements(links) \subseteq Links
    BY <2>1 DEF Elements
  <2>3. codes \in Seq(Codes) /\ Elements(codes) = {}
    BY <1>3 DEF Elements
  <2>4. /\ user \in [there : BOOLEAN, verified : BOOLEAN, shop : Shops \cup {Nothing}]
        /\ user.shop = s
    BY <1>3
  <2> QED BY <1>3, <2>1, <2>2, <2>3, <2>4, FirstVisits
<1> QED BY <1>1, <1>2, <1>3 DEF AccountInit

LEMMA AccountRests ==
    ASSUME AccountInv, UNCHANGED accountVars
    PROVE  AccountInv'
<1> USE DEF accountVars, mailVars, linkHistory
<1>1. AccountTypeOK' /\ MailIsFresh'
    BY DEF AccountInv, AccountTypeOK, MailIsFresh, Elements
<1>2. VisitsFit'
    BY DEF AccountInv, VisitsFit, Fits, Belongs, KnowsShop, HoldsLink, Elements
<1>3. OneShop' /\ SpentIsMarked' /\ SpentLinksAreDead'
    BY DEF AccountInv, OneShop, SpentIsMarked, SpentLinksAreDead, Marking, Elements
<1> QED BY <1>1, <1>2, <1>3 DEF AccountInv

\* Call v goes on as r; it may excuse links, and does if it gives up marking one.
LEMMA CallInv ==
    ASSUME AccountInv, NEW v \in Visits, NEW r \in Visit, visit' = [visit EXCEPT ![v] = r],
           Belongs(r), r.what \in mailed \cup {Nothing}, KnowsShop(r),
           r.op = "reset" /\ r.at = "save" => r.what \notin spent \ excused',
           r.op = "reset" /\ r.at = "clear" => r.what \in used \/ r.what \notin Elements(links),
           \A l \in Links : Marking(visit[v], l) => Marking(r, l) \/ l \in excused',
           excused \subseteq excused', excused' \subseteq Links,
           UNCHANGED <<user, shops, mailVars, spent, again, purged>>
    PROVE  AccountInv'
<1> USE DEF mailVars
<1>1. visit \in [Visits -> Visit]
    BY DEF AccountInv, AccountTypeOK
<1>2. visit'[v] = r /\ \A w \in Visits \ {v} : visit'[w] = visit[w]
    BY <1>1
<1>3. AccountTypeOK'
    BY <1>1 DEF AccountInv, AccountTypeOK, Elements
<1>4. MailIsFresh'
    BY DEF AccountInv, MailIsFresh, Elements
<1>5. VisitsFit'
  <2>1. SUFFICES ASSUME NEW w \in Visits PROVE Fits(visit[w])'
    BY DEF VisitsFit
  <2>2. CASE w = v
    BY <1>2, <2>2 DEF Fits, Belongs, KnowsShop, HoldsLink, Elements
  <2>3. CASE w # v
    <3>1. Fits(visit[w])
      BY DEF AccountInv, VisitsFit
    <3> QED BY <1>2, <2>3, <3>1 DEF Fits, Belongs, KnowsShop, HoldsLink, Elements
  <2> QED BY <2>2, <2>3
<1>6. OneShop' /\ SpentLinksAreDead'
    BY DEF AccountInv, OneShop, SpentLinksAreDead
<1>7. SpentIsMarked'
  <2>1. SUFFICES ASSUME NEW l \in spent, l \notin excused', l \notin used, l \in Elements(links)
                 PROVE  \E w \in Visits : Marking(visit'[w], l)
    BY DEF SpentIsMarked, Elements, Marking
  <2>2. PICK w \in Visits : Marking(visit[w], l)
    BY <2>1 DEF AccountInv, SpentIsMarked
  <2>3. l \in Links
    BY <2>1 DEF AccountInv, AccountTypeOK
  <2> QED BY <1>2, <2>1, <2>2, <2>3
<1> QED BY <1>3, <1>4, <1>5, <1>6, <1>7 DEF AccountInv

\* Call v goes on to a stage that is none of the delicate ones.
LEMMA GoesOn ==
    ASSUME AccountInv, NEW v \in Visits, NEW at \in Stages, GoTo(v, at),
           visit[v].at \notin {"uncache", "mark"} \/ visit[v].op # "reset",
           at \notin {"name", "save", "clear"},
           at \in {"tidy", "ok"} /\ visit[v].op \in {"verify", "ensure"}
              => purged \/ user.shop \in shops,
           \A r \in Visit : r.at = at /\ r.op = visit[v].op /\ r.what = visit[v].what
                               => Belongs(r),
           UNCHANGED <<user, shops, mailVars, linkHistory, purged>>
    PROVE  AccountInv'
<1>1. PICK r \in Visit :
             /\ visit' = [visit EXCEPT ![v] = r]
             /\ r.at = at /\ r.op = visit[v].op /\ r.what = visit[v].what
             /\ r.mine = visit[v].mine /\ r.found = visit[v].found
    BY GoToIs DEF AccountInv
<1>2. Fits(visit[v])
    BY DEF AccountInv, VisitsFit
<1>3. Belongs(r) /\ r.what \in mailed \cup {Nothing} /\ KnowsShop(r)
    BY <1>1, <1>2 DEF Fits, KnowsShop
<1>4. \A l \in Links : ~Marking(visit[v], l)
    BY DEF Marking
<1>5. excused' = excused /\ excused \subseteq Links
    BY DEF AccountInv, AccountTypeOK, linkHistory
<1> QED BY <1>1, <1>3, <1>4, <1>5, CallInv DEF linkHistory

\* A call begins.
LEMMA ArriveInv ==
    ASSUME AccountInv, NEW v \in Visits,
           NEW o \in {"verify", "ensure", "resend", "forgot", "reset", "change"},
           NEW at \in Stages, NEW x \in Codes \cup Links \cup {Nothing}, Arrive(v, o, at, x),
           \A r \in Visit : r.at = at /\ r.op = o /\ r.what = x => Belongs(r),
           at \notin {"name", "tidy", "ok", "clear"}, at = "save" => o # "reset",
           x \in mailed \cup {Nothing},
           UNCHANGED <<user, shops, mailVars, linkHistory, purged>>
    PROVE  AccountInv'
<1> DEFINE r == [op |-> o, at |-> at, what |-> x, mine |-> user.shop, found |-> Nothing]
<1>1. visit' = [visit EXCEPT ![v] = r] /\ visit[v].at = "idle"
    BY DEF Arrive, VisitAt
<1>2. r \in Visit
    BY DEF AccountInv, AccountTypeOK, Visit, Stages
<1>3. /\ r.op = o /\ r.at = at /\ r.what = x /\ r.mine = user.shop /\ r.found = Nothing
    OBVIOUS
<1> HIDE DEF r
<1>4. Belongs(r)
    BY <1>2, <1>3
<1>5. KnowsShop(r)
    BY <1>3 DEF KnowsShop, AccountInv, OneShop
<1>6. \A l \in Links : ~Marking(visit[v], l)
    BY <1>1 DEF Marking
<1>7. excused' = excused /\ excused \subseteq Links
    BY DEF AccountInv, AccountTypeOK, linkHistory
<1> QED BY <1>1, <1>2, <1>3, <1>4, <1>5, <1>6, <1>7, CallInv DEF linkHistory

\* Call v goes on as r and may make a code, verify the user or find them a merchant;
\* it has nothing to do with links.
LEMMA ShopCallInv ==
    ASSUME AccountInv, NEW v \in Visits, NEW r \in Visit, visit' = [visit EXCEPT ![v] = r],
           Belongs(r), r.what \in mailed \cup {Nothing}, KnowsShop(r)',
           r.at \notin {"save", "clear"}, visit[v].at \notin {"uncache", "mark"},
           user' \in [there : BOOLEAN, verified : BOOLEAN, shop : Shops \cup {Nothing}],
           shops \subseteq shops', shops' \subseteq Shops, \A s, t \in shops' : s = t,
           purged \/ user'.shop \in shops' \cup {Nothing},
           purged \/ (user.shop # Nothing => user'.shop # Nothing),
           codes' \in Seq(Codes), mailed \subseteq mailed', mailed' \subseteq Codes \cup Links,
           UNCHANGED <<links, used, linkHistory, purged>>
    PROVE  AccountInv'
<1> USE DEF linkHistory
<1>1. visit \in [Visits -> Visit]
    BY DEF AccountInv, AccountTypeOK
<1>2. visit'[v] = r /\ \A w \in Visits \ {v} : visit'[w] = visit[w]
    BY <1>1
<1>3. AccountTypeOK'
    BY <1>1 DEF AccountInv, AccountTypeOK, Elements
<1>4. MailIsFresh'
    BY DEF AccountInv, MailIsFresh, Elements
<1>5. VisitsFit'
  <2>1. SUFFICES ASSUME NEW w \in Visits PROVE Fits(visit[w])'
    BY DEF VisitsFit
  <2>2. CASE w = v
    BY <1>2, <2>2 DEF Fits, Belongs, KnowsShop, HoldsLink, Elements
  <2>3. CASE w # v
    <3>1. Fits(visit[w])
      BY DEF AccountInv, VisitsFit
    <3>2. purged \/ (user.shop \in shops => user'.shop \in shops')
      BY MailAssumption DEF AccountInv, AccountTypeOK
    <3> QED BY <1>2, <2>3, <3>1, <3>2 DEF Fits, Belongs, KnowsShop, HoldsLink, Elements
  <2> QED BY <2>2, <2>3
<1>6. OneShop' /\ SpentLinksAreDead'
    BY DEF AccountInv, OneShop, SpentLinksAreDead
<1>7. SpentIsMarked'
  <2>1. SUFFICES ASSUME NEW l \in spent, l \notin excused, l \notin used, l \in Elements(links)
                 PROVE  \E w \in Visits : Marking(visit'[w], l)
    BY DEF SpentIsMarked, Elements, Marking
  <2>2. PICK w \in Visits : Marking(visit[w], l)
    BY <2>1 DEF AccountInv, SpentIsMarked
  <2>3. w # v
    BY <2>2 DEF Marking
  <2> QED BY <1>2, <2>2, <2>3
<1> QED BY <1>3, <1>4, <1>5, <1>6, <1>7 DEF AccountInv

-----------------------------------------------------------------------------
(* Account: registration, verification and the merchant *)

LEMMA RegisterInv ==
    ASSUME AccountInv, NEW v \in Visits, Register(v)
    PROVE  AccountInv'
<1>1. visit[v] \in Visit /\ Fits(visit[v])
    BY DEF AccountInv, AccountTypeOK, VisitsFit
<1>2. PICK r \in Visit :
             /\ r = [visit[v] EXCEPT !.op = "register", !.at = "make"]
             /\ r.op = "register" /\ r.at = "make" /\ r.what = visit[v].what
             /\ r.mine = visit[v].mine /\ r.found = visit[v].found
  <2> DEFINE x == [visit[v] EXCEPT !.op = "register", !.at = "make"]
  <2>1. x \in Visit /\ x.op = "register" /\ x.at = "make" /\ x.what = visit[v].what
        /\ x.mine = visit[v].mine /\ x.found = visit[v].found
    BY <1>1 DEF Visit
  <2> QED BY <2>1
<1>3. visit' = [visit EXCEPT ![v] = r]
    BY <1>2 DEF Register
<1>4. visit[v].at = "idle" /\ user' = [user EXCEPT !.there = TRUE]
      /\ UNCHANGED <<shops, mailVars, linkHistory, purged>>
    BY DEF Register, VisitAt
<1>5. user'.shop = user.shop
      /\ user' \in [there : BOOLEAN, verified : BOOLEAN, shop : Shops \cup {Nothing}]
    BY <1>4 DEF AccountInv, AccountTypeOK
<1>6. Belongs(r) /\ r.what \in mailed \cup {Nothing} /\ KnowsShop(r)'
    BY <1>1, <1>2, <1>4, <1>5 DEF Fits, Belongs, KnowsShop
<1>7. /\ shops' \subseteq Shops /\ \A s, t \in shops' : s = t
      /\ purged \/ user'.shop \in shops' \cup {Nothing}
      /\ codes' \in Seq(Codes) /\ mailed' \subseteq Codes \cup Links
    BY <1>4, <1>5 DEF AccountInv, AccountTypeOK, OneShop, mailVars
<1> QED BY <1>2, <1>3, <1>4, <1>5, <1>6, <1>7, ShopCallInv DEF mailVars

LEMMA MakeCodeInv ==
    ASSUME AccountInv, NEW v \in Visits, MakeCode(v)
    PROVE  AccountInv'
<1>1. visit[v].at = "make" /\ GoTo(v, "ok") /\ UNCHANGED <<user, shops, links, used, linkHistory, purged>>
    BY DEF MakeCode, VisitAt
<1>2. PICK c \in Codes \ mailed : codes' = Append(codes, c) /\ mailed' = mailed \cup {c}
    BY DEF MakeCode
<1>3. Fits(visit[v])
    BY DEF AccountInv, VisitsFit
<1>4. PICK r \in Visit :
             /\ visit' = [visit EXCEPT ![v] = r]
             /\ r.at = "ok" /\ r.op = visit[v].op /\ r.what = visit[v].what
             /\ r.mine = visit[v].mine /\ r.found = visit[v].found
    BY <1>1, GoToIs DEF AccountInv, Stages
<1>5. Belongs(r) /\ r.what \in mailed \cup {Nothing} /\ KnowsShop(r)'
    BY <1>1, <1>3, <1>4 DEF Fits, Belongs, KnowsShop
<1>6. codes' \in Seq(Codes) /\ mailed' \subseteq Codes \cup Links
    BY <1>2, AppendAdds DEF AccountInv, AccountTypeOK
<1>7. /\ user' \in [there : BOOLEAN, verified : BOOLEAN, shop : Shops \cup {Nothing}]
      /\ shops' \subseteq Shops /\ \A s, t \in shops' : s = t
      /\ purged \/ user'.shop \in shops' \cup {Nothing}
    BY <1>1 DEF AccountInv, AccountTypeOK, OneShop
<1> QED BY <1>1, <1>2, <1>4, <1>5, <1>6, <1>7, ShopCallInv

LEMMA SaveVerifiedInv ==
    ASSUME AccountInv, NEW v \in Visits, SaveVerified(v)
    PROVE  AccountInv'
<1>1. /\ visit[v].at = "confirm" /\ GoTo(v, "uncache")
      /\ user' = [user EXCEPT !.verified = TRUE]
      /\ UNCHANGED <<shops, codes, links, used, mailed, linkHistory, purged>>
    BY DEF SaveVerified, VisitAt, mailVars
<1>2. user'.shop = user.shop
      /\ user' \in [there : BOOLEAN, verified : BOOLEAN, shop : Shops \cup {Nothing}]
    BY <1>1 DEF AccountInv, AccountTypeOK
<1>3. Fits(visit[v])
    BY DEF AccountInv, VisitsFit
<1>4. PICK r \in Visit :
             /\ visit' = [visit EXCEPT ![v] = r]
             /\ r.at = "uncache" /\ r.op = visit[v].op /\ r.what = visit[v].what
             /\ r.mine = visit[v].mine /\ r.found = visit[v].found
    BY <1>1, GoToIs DEF AccountInv, Stages
<1>5. Belongs(r) /\ r.what \in mailed \cup {Nothing} /\ KnowsShop(r)'
    BY <1>1, <1>2, <1>3, <1>4 DEF Fits, Belongs, KnowsShop
<1>6. /\ shops' \subseteq Shops /\ \A s, t \in shops' : s = t
      /\ purged \/ user'.shop \in shops' \cup {Nothing}
      /\ codes' \in Seq(Codes) /\ mailed' \subseteq Codes \cup Links
    BY <1>1, <1>2 DEF AccountInv, AccountTypeOK, OneShop
<1> QED BY <1>1, <1>2, <1>4, <1>5, <1>6, ShopCallInv

LEMMA DeleteCodesInv ==
    ASSUME AccountInv, NEW v \in Visits, DeleteCodes(v)
    PROVE  AccountInv'
<1>1. /\ visit[v].at = "tidy" /\ GoTo(v, "ok") /\ codes' = <<>>
      /\ UNCHANGED <<user, shops, links, used, mailed, linkHistory, purged>>
    BY DEF DeleteCodes, VisitAt
<1>2. Fits(visit[v])
    BY DEF AccountInv, VisitsFit
<1>3. PICK r \in Visit :
             /\ visit' = [visit EXCEPT ![v] = r]
             /\ r.at = "ok" /\ r.op = visit[v].op /\ r.what = visit[v].what
             /\ r.mine = visit[v].mine /\ r.found = visit[v].found
    BY <1>1, GoToIs DEF AccountInv, Stages
<1>4. Belongs(r) /\ r.what \in mailed \cup {Nothing} /\ KnowsShop(r)'
    BY <1>1, <1>2, <1>3 DEF Fits, Belongs, KnowsShop
<1>5. /\ user' \in [there : BOOLEAN, verified : BOOLEAN, shop : Shops \cup {Nothing}]
      /\ shops' \subseteq Shops /\ \A s, t \in shops' : s = t
      /\ purged \/ user'.shop \in shops' \cup {Nothing}
      /\ codes' \in Seq(Codes) /\ mailed' \subseteq Codes \cup Links
    BY <1>1 DEF AccountInv, AccountTypeOK, OneShop
<1> QED BY <1>1, <1>3, <1>4, <1>5, ShopCallInv

\* A merchant s that is found, or opened, is remembered; the user knows him already if
\* the call has read him from the user.
LEMMA NamedInv ==
    ASSUME AccountInv, NEW v \in Visits, visit[v].at \in {"shop", "open"}, NEW s \in shops', Named(v, s),
           shops \subseteq shops', shops' \subseteq Shops, \A t, u \in shops' : t = u,
           UNCHANGED <<user, mailVars, linkHistory, purged>>
    PROVE  AccountInv'
<1> DEFINE at == IF visit[v].mine = Nothing THEN "name"
                 ELSE IF visit[v].op = "verify" THEN "tidy" ELSE "ok"
<1>1. visit[v] \in Visit /\ Fits(visit[v]) /\ s \in Shops /\ s # Nothing
    BY MailAssumption DEF AccountInv, AccountTypeOK, VisitsFit
<1>2. at \in {"name", "tidy", "ok"}
    OBVIOUS
<1>3. PICK r \in Visit :
             /\ r = [visit[v] EXCEPT !.found = s, !.at = at]
             /\ r.op = visit[v].op /\ r.at = at /\ r.what = visit[v].what
             /\ r.mine = visit[v].mine /\ r.found = s
  <2> DEFINE x == [visit[v] EXCEPT !.found = s, !.at = at]
  <2>1. x \in Visit /\ x.op = visit[v].op /\ x.at = at /\ x.what = visit[v].what
        /\ x.mine = visit[v].mine /\ x.found = s
    BY ZenonT(30), <1>1, <1>2 DEF Visit
  <2> QED BY <2>1
<1>4. visit' = [visit EXCEPT ![v] = r]
    BY <1>3 DEF Named
<1>5. visit[v].mine # Nothing => purged \/ user.shop \in shops
    BY <1>1 DEF Fits, KnowsShop, AccountInv, OneShop
<1>6. /\ r.mine = Nothing => r.at = "name"
      /\ r.mine # Nothing => r.at = IF r.op = "verify" THEN "tidy" ELSE "ok"
    BY <1>3
<1> HIDE DEF at
<1>7. Belongs(r) /\ r.what \in mailed \cup {Nothing}
    BY <1>1, <1>2, <1>3, <1>6 DEF Fits, Belongs
<1>8. KnowsShop(r)'
    BY <1>1, <1>2, <1>3, <1>5, <1>6 DEF Fits, KnowsShop
<1>9. /\ user' \in [there : BOOLEAN, verified : BOOLEAN, shop : Shops \cup {Nothing}]
      /\ purged \/ user'.shop \in shops' \cup {Nothing}
      /\ codes' \in Seq(Codes) /\ mailed' \subseteq Codes \cup Links
    BY DEF AccountInv, AccountTypeOK, OneShop, mailVars
<1> QED BY <1>2, <1>3, <1>4, <1>7, <1>8, <1>9, ShopCallInv DEF mailVars

LEMMA FindShopInv ==
    ASSUME AccountInv, NEW v \in Visits, FindShop(v)
    PROVE  AccountInv'
<1>1. visit[v].at = "shop" /\ UNCHANGED <<user, shops, mailVars, linkHistory, purged>>
    BY DEF FindShop, VisitAt
<1>2. CASE shops = {}
  <2>1. GoTo(v, "open") /\ Fits(visit[v])
    BY <1>2 DEF FindShop, AccountInv, VisitsFit
  <2> QED BY <1>1, <2>1, GoesOn DEF Stages, Fits, Belongs
<1>3. CASE shops # {}
  <2>1. PICK s \in shops : Named(v, s)
    BY <1>3 DEF FindShop
  <2>2. shops' \subseteq Shops /\ \A t, u \in shops' : t = u
    BY <1>1 DEF AccountInv, AccountTypeOK, OneShop
  <2> QED BY <1>1, <2>1, <2>2, NamedInv
<1> QED BY <1>2, <1>3

LEMMA OpenShopInv ==
    ASSUME AccountInv, NEW v \in Visits, OpenShop(v)
    PROVE  AccountInv'
<1>1. visit[v].at = "open" /\ UNCHANGED <<user, mailVars, linkHistory, purged>>
    BY DEF OpenShop, VisitAt
<1>2. CASE shops # {}
  <2>1. GoTo(v, "failed") /\ UNCHANGED shops /\ Fits(visit[v])
    BY <1>2 DEF OpenShop, AccountInv, VisitsFit
  <2> QED BY <1>1, <2>1, GoesOn DEF Stages, Fits, Belongs
<1>3. CASE shops = {}
  <2>1. PICK s \in Shops : shops' = {s} /\ Named(v, s)
    BY <1>3 DEF OpenShop
  <2> QED BY <1>1, <1>3, <2>1, NamedInv
<1> QED BY <1>2, <1>3

LEMMA SaveShopInv ==
    ASSUME AccountInv, NEW v \in Visits, SaveShop(v)
    PROVE  AccountInv'
<1> DEFINE at == IF visit[v].op = "verify" THEN "tidy" ELSE "ok"
<1>1. /\ visit[v].at = "name" /\ GoTo(v, at)
      /\ user' = [user EXCEPT !.shop = visit[v].found]
      /\ UNCHANGED <<shops, codes, links, used, mailed, linkHistory, purged>>
    BY DEF SaveShop, VisitAt, mailVars
<1>2. visit[v] \in Visit /\ Fits(visit[v])
    BY DEF AccountInv, AccountTypeOK, VisitsFit
<1>3. user'.shop = visit[v].found
      /\ user' \in [there : BOOLEAN, verified : BOOLEAN, shop : Shops \cup {Nothing}]
    BY <1>1, <1>2 DEF AccountInv, AccountTypeOK, Visit
<1>4. at \in {"tidy", "ok"} /\ (at = "tidy" => visit[v].op = "verify")
    OBVIOUS
<1> HIDE DEF at
<1>5. PICK r \in Visit :
             /\ visit' = [visit EXCEPT ![v] = r]
             /\ r.at = at /\ r.op = visit[v].op /\ r.what = visit[v].what
             /\ r.mine = visit[v].mine /\ r.found = visit[v].found
    BY <1>1, <1>4, GoToIs DEF AccountInv, Stages
<1>6. purged \/ (user'.shop \in shops /\ user'.shop # Nothing)
    BY <1>1, <1>2, <1>3 DEF Fits, KnowsShop
<1>7. Belongs(r) /\ r.what \in mailed \cup {Nothing}
    BY <1>1, <1>2, <1>4, <1>5 DEF Fits, Belongs
<1>8. KnowsShop(r)'
  <2>1. purged' = purged /\ shops' = shops
    BY <1>1
  <2>2. purged \/ {visit[v].mine, visit[v].found} \subseteq shops \cup {Nothing}
    BY <1>2 DEF Fits, KnowsShop
  <2> QED BY <1>4, <1>5, <1>6, <2>1, <2>2 DEF KnowsShop
<1>9. /\ shops' \subseteq Shops /\ \A s, t \in shops' : s = t
      /\ purged \/ user'.shop \in shops' \cup {Nothing}
      /\ codes' \in Seq(Codes) /\ mailed' \subseteq Codes \cup Links
    BY <1>1, <1>6 DEF AccountInv, AccountTypeOK, OneShop
<1> QED BY <1>1, <1>3, <1>4, <1>5, <1>6, <1>7, <1>8, <1>9, ShopCallInv

\* A call that looks something up goes on, or is over.
LEMMA LookingInv ==
    ASSUME AccountInv, NEW v \in Visits, CheckCode(v) \/ ValidateShop(v) \/ CheckRecent(v)
    PROVE  AccountInv'
<1>1. UNCHANGED <<user, shops, mailVars, linkHistory, purged>>
    BY DEF CheckCode, ValidateShop, CheckRecent
<1>2. Fits(visit[v])
    BY DEF AccountInv, VisitsFit
<1>3. CASE CheckCode(v)
  <2>1. /\ visit[v].at = "look" /\ visit[v].op = "verify"
        /\ GoTo(v, "confirm") \/ GoTo(v, "failed")
    BY <1>3 DEF CheckCode, VisitAt
  <2> QED BY <1>1, <1>2, <2>1, GoesOn DEF Stages, Fits, Belongs
<1>4. CASE ValidateShop(v)
  <2>1. visit[v].at = "look" /\ visit[v].op = "ensure"
    BY <1>4 DEF ValidateShop, VisitAt
  <2>2. CASE visit[v].mine \in shops /\ GoTo(v, "ok")
    <3>1. visit[v].mine # Nothing
      BY <2>2, MailAssumption DEF AccountInv, AccountTypeOK
    <3>2. purged \/ user.shop \in shops
      BY <1>2, <3>1 DEF Fits, KnowsShop, AccountInv, OneShop
    <3> QED BY <1>1, <1>2, <2>1, <2>2, <3>2, GoesOn DEF Stages, Fits, Belongs
  <2>3. CASE GoTo(v, "failed")
    BY <1>1, <1>2, <2>1, <2>3, GoesOn DEF Stages, Fits, Belongs
  <2> QED BY <1>4, <2>2, <2>3 DEF ValidateShop
<1>5. CASE CheckRecent(v)
  <2>1. /\ visit[v].at = "recent" /\ visit[v].op \in {"resend", "forgot"}
        /\ \/ visit[v].op = "resend" /\ GoTo(v, "make")
           \/ visit[v].op = "forgot" /\ GoTo(v, "mail")
           \/ GoTo(v, "ok")
    BY <1>2, <1>5 DEF CheckRecent, VisitAt, Fits, Belongs
  <2> QED BY <1>1, <1>2, <2>1, GoesOn DEF Stages, Fits, Belongs
<1> QED BY <1>3, <1>4, <1>5

LEMMA BeginningInv ==
    ASSUME AccountInv, NEW v \in Visits,
           \/ EnsureMerchant(v) \/ Resend(v) \/ RequestReset(v) \/ ChangePassword(v)
           \/ \E c \in Codes : VerifyEmail(v, c)
           \/ \E l \in Links : ResetPassword(v, l)
    PROVE  AccountInv'
<1>1. UNCHANGED <<user, shops, mailVars, linkHistory, purged>>
    BY DEF EnsureMerchant, Resend, RequestReset, ChangePassword, VerifyEmail, ResetPassword
<1>2. ASSUME NEW at \in {"look", "shop", "failed"}, Arrive(v, "ensure", at, Nothing)
      PROVE  AccountInv'
  <2>1. \A r \in Visit : r.at = at /\ r.op = "ensure" /\ r.what = Nothing => Belongs(r)
    BY <1>2 DEF Belongs
  <2>2. at \in Stages
    BY <1>2 DEF Stages
  <2> QED BY <1>1, <1>2, <2>1, <2>2, ArriveInv
<1>3. ASSUME NEW at \in {"recent", "failed"}, Arrive(v, "resend", at, Nothing)
      PROVE  AccountInv'
  <2>1. \A r \in Visit : r.at = at /\ r.op = "resend" /\ r.what = Nothing => Belongs(r)
    BY <1>3 DEF Belongs
  <2>2. at \in Stages
    BY <1>3 DEF Stages
  <2> QED BY <1>1, <1>3, <2>1, <2>2, ArriveInv
<1>4. CASE Arrive(v, "forgot", "recent", Nothing)
  <2>1. \A r \in Visit : r.at = "recent" /\ r.op = "forgot" /\ r.what = Nothing => Belongs(r)
    BY <1>4 DEF Belongs
  <2>2. "recent" \in Stages
    BY <1>4 DEF Stages
  <2> QED BY <1>1, <1>4, <2>1, <2>2, ArriveInv
<1>5. ASSUME NEW at \in {"save", "failed"}, Arrive(v, "change", at, Nothing)
      PROVE  AccountInv'
  <2>1. \A r \in Visit : r.at = at /\ r.op = "change" /\ r.what = Nothing => Belongs(r)
    BY <1>5 DEF Belongs
  <2>2. at \in Stages
    BY <1>5 DEF Stages
  <2> QED BY <1>1, <1>5, <2>1, <2>2, ArriveInv
<1>6. ASSUME NEW c \in Codes, c \in mailed, Arrive(v, "verify", "look", c)
      PROVE  AccountInv'
  <2>1. \A r \in Visit : r.at = "look" /\ r.op = "verify" /\ r.what = c => Belongs(r)
    BY <1>6 DEF Belongs
  <2>2. "look" \in Stages
    BY <1>6 DEF Stages
  <2> QED BY <1>1, <1>6, <2>1, <2>2, ArriveInv
<1>7. ASSUME NEW l \in Links, l \in mailed, Arrive(v, "reset", "look", l)
      PROVE  AccountInv'
  <2>1. \A r \in Visit : r.at = "look" /\ r.op = "reset" /\ r.what = l => Belongs(r)
    BY <1>7 DEF Belongs
  <2>2. "look" \in Stages
    BY <1>7 DEF Stages
  <2> QED BY <1>1, <1>7, <2>1, <2>2, ArriveInv
<1>8. CASE EnsureMerchant(v)
  <2>1. \/ Arrive(v, "ensure", "look", Nothing)
        \/ Arrive(v, "ensure", "shop", Nothing)
        \/ Arrive(v, "ensure", "failed", Nothing)
    BY <1>8 DEF EnsureMerchant
  <2> QED BY <1>2, <2>1
<1>9. CASE Resend(v)
  <2>1. Arrive(v, "resend", "failed", Nothing) \/ Arrive(v, "resend", "recent", Nothing)
    BY <1>9 DEF Resend
  <2> QED BY <1>3, <2>1
<1> QED
    BY <1>4, <1>5, <1>6, <1>7, <1>8, <1>9
    DEF RequestReset, ChangePassword, VerifyEmail, ResetPassword

-----------------------------------------------------------------------------
(* Account: links *)

\* Behind the cache, a reset goes on to mark its link.
LEMMA UncacheInv ==
    ASSUME AccountInv, NEW v \in Visits, Uncache(v)
    PROVE  AccountInv'
<1>1. /\ visit[v].at = "uncache" /\ UNCHANGED <<user, shops, mailVars, linkHistory, purged>>
      /\ Fits(visit[v])
    BY DEF Uncache, VisitAt, AccountInv, VisitsFit
<1>2. CASE visit[v].op = "verify"
  <2>1. GoTo(v, "shop")
    BY <1>2 DEF Uncache
  <2> QED BY <1>1, <1>2, <2>1, GoesOn DEF Stages, Fits, Belongs
<1>3. CASE visit[v].op = "change"
  <2>1. GoTo(v, "clear")
    BY <1>3 DEF Uncache
  <2>2. PICK r \in Visit :
             /\ visit' = [visit EXCEPT ![v] = r]
             /\ r.at = "clear" /\ r.op = visit[v].op /\ r.what = visit[v].what
             /\ r.mine = visit[v].mine /\ r.found = visit[v].found
    BY <2>1, GoToIs DEF AccountInv, Stages
  <2>3. Belongs(r) /\ r.what \in mailed \cup {Nothing} /\ KnowsShop(r)
    BY <1>1, <1>3, <2>2 DEF Fits, Belongs, KnowsShop
  <2>4. (\A l \in Links : ~Marking(visit[v], l)) /\ excused' = excused /\ excused \subseteq Links
    BY <1>1, <1>3 DEF Marking, linkHistory, AccountInv, AccountTypeOK
  <2> QED BY <1>1, <1>3, <2>2, <2>3, <2>4, CallInv DEF linkHistory
<1>4. CASE visit[v].op = "reset"
  <2>1. GoTo(v, "mark")
    BY <1>4 DEF Uncache
  <2>2. PICK r \in Visit :
             /\ visit' = [visit EXCEPT ![v] = r]
             /\ r.at = "mark" /\ r.op = visit[v].op /\ r.what = visit[v].what
             /\ r.mine = visit[v].mine /\ r.found = visit[v].found
    BY <2>1, GoToIs DEF AccountInv, Stages
  <2>3. Belongs(r) /\ r.what \in mailed \cup {Nothing} /\ KnowsShop(r)
    BY <1>1, <1>4, <2>2 DEF Fits, Belongs, KnowsShop
  <2>4. /\ \A l \in Links : Marking(visit[v], l) => Marking(r, l)
        /\ excused' = excused /\ excused \subseteq Links
    BY <1>1, <2>2 DEF Marking, linkHistory, AccountInv, AccountTypeOK
  <2> QED BY <1>1, <1>4, <2>2, <2>3, <2>4, CallInv DEF linkHistory
<1> QED BY <1>1, <1>2, <1>3, <1>4 DEF Fits, Belongs

\* The latest unused link is there and not used: if it is spent, another reset is about
\* to mark it, and the two overlap.
LEMMA CheckLinkInv ==
    ASSUME AccountInv, NEW v \in Visits, CheckLink(v)
    PROVE  AccountInv'
<1> DEFINE l == visit[v].what
<1>1. /\ visit[v].at = "look" /\ visit[v].op = "reset" /\ Fits(visit[v]) /\ l \in Links
      /\ UNCHANGED <<user, shops, mailVars, spent, again, purged>>
      /\ excused' = IF l \in HeldAt(v, {"uncache", "mark"}) THEN excused \cup {l} ELSE excused
      /\ (IsLatest(l) /\ GoTo(v, "save")) \/ GoTo(v, "ok")
    BY DEF CheckLink, VisitAt, AccountInv, VisitsFit, Fits, Belongs
<1>2. excused \subseteq excused' /\ excused' \subseteq Links /\ \A k \in Links : ~Marking(visit[v], k)
    BY <1>1 DEF AccountInv, AccountTypeOK, Marking
<1>3. ASSUME NEW at \in {"save", "ok"}, GoTo(v, at), at = "save" => l \notin spent \ excused'
      PROVE  AccountInv'
  <2>1. PICK r \in Visit :
             /\ visit' = [visit EXCEPT ![v] = r]
             /\ r.at = at /\ r.op = visit[v].op /\ r.what = visit[v].what
             /\ r.mine = visit[v].mine /\ r.found = visit[v].found
    BY <1>3, GoToIs DEF AccountInv, Stages
  <2>2. Belongs(r) /\ r.what \in mailed \cup {Nothing} /\ KnowsShop(r)
    BY <1>1, <2>1 DEF Fits, Belongs, KnowsShop
  <2> QED BY <1>1, <1>2, <1>3, <2>1, <2>2, CallInv
<1>4. IsLatest(l) => l \notin spent \ excused'
  <2>1. SUFFICES ASSUME IsLatest(l), l \in spent, l \notin excused PROVE l \in excused'
    BY <1>2
  <2>2. l \in Elements(links) /\ l \notin used
    BY <2>1 DEF IsLatest, UnusedLinks, Elements
  <2>3. PICK w \in Visits : Marking(visit[w], l)
    BY <2>1, <2>2 DEF AccountInv, SpentIsMarked
  <2>4. w # v /\ visit[w].op = "reset" /\ visit[w].at \in {"uncache", "mark"} /\ visit[w].what = l
    BY <1>2, <1>1, <2>3 DEF Marking
  <2>5. l \in HeldAt(v, {"uncache", "mark"})
    BY <2>4 DEF HeldAt, Others
  <2> QED BY <1>1, <2>5
<1> QED BY <1>1, <1>3, <1>4

\* A reset that breaks between saving the password and marking its link excuses it.
LEMMA BreakInv ==
    ASSUME AccountInv, NEW v \in Visits, Break(v)
    PROVE  AccountInv'
<1>1. /\ Fits(visit[v]) /\ GoTo(v, "failed")
      /\ UNCHANGED <<user, shops, mailVars, spent, again, purged>>
      /\ excused' = IF visit[v].op = "reset" /\ visit[v].at \in {"uncache", "mark"}
                    THEN excused \cup {visit[v].what} ELSE excused
    BY DEF Break, AccountInv, VisitsFit
<1>2. PICK r \in Visit :
             /\ visit' = [visit EXCEPT ![v] = r]
             /\ r.at = "failed" /\ r.op = visit[v].op /\ r.what = visit[v].what
             /\ r.mine = visit[v].mine /\ r.found = visit[v].found
    BY <1>1, GoToIs DEF AccountInv, Stages
<1>3. Belongs(r) /\ r.what \in mailed \cup {Nothing} /\ KnowsShop(r)
    BY <1>1, <1>2 DEF Fits, Belongs, KnowsShop
<1>4. /\ \A l \in Links : Marking(visit[v], l) => l \in excused'
      /\ excused \subseteq excused' /\ excused' \subseteq Links
    BY <1>1 DEF Marking, AccountInv, AccountTypeOK, Fits, Belongs
<1> QED BY <1>1, <1>2, <1>3, <1>4, CallInv

\* Call v goes on as r and does something to links; what remains is about links alone.
LEMMA LinkCallInv ==
    ASSUME AccountInv, NEW v \in Visits, NEW r \in Visit, visit' = [visit EXCEPT ![v] = r],
           Belongs(r), r.what \in mailed \cup {Nothing}, KnowsShop(r),
           \A w \in Visits : HoldsLink(visit[w])',
           links' \in Seq(Links), used' \subseteq Elements(links)', MailIsFresh',
           spent' \cup again' \cup excused' \subseteq Links,
           mailed \subseteq mailed', mailed' \subseteq Codes \cup Links,
           SpentIsMarked', SpentLinksAreDead',
           UNCHANGED <<user, shops, codes, purged>>
    PROVE  AccountInv'
<1>1. visit \in [Visits -> Visit]
    BY DEF AccountInv, AccountTypeOK
<1>2. visit'[v] = r /\ \A w \in Visits \ {v} : visit'[w] = visit[w]
    BY <1>1
<1>3. AccountTypeOK'
    BY <1>1 DEF AccountInv, AccountTypeOK
<1>4. VisitsFit'
  <2>1. SUFFICES ASSUME NEW w \in Visits PROVE Fits(visit[w])'
    BY DEF VisitsFit
  <2>2. HoldsLink(visit[w])'
    OBVIOUS
  <2>3. CASE w = v
    BY <1>2, <2>2, <2>3 DEF Fits, Belongs, KnowsShop
  <2>4. CASE w # v
    <3>1. Fits(visit[w])
      BY DEF AccountInv, VisitsFit
    <3> QED BY <1>2, <2>2, <2>4, <3>1 DEF Fits, Belongs, KnowsShop
  <2> QED BY <2>3, <2>4
<1>5. OneShop'
    BY DEF AccountInv, OneShop
<1> QED BY <1>3, <1>4, <1>5 DEF AccountInv

\* A new link is not spent.
LEMMA MakeLinkInv ==
    ASSUME AccountInv, NEW v \in Visits, MakeLink(v)
    PROVE  AccountInv'
<1>1. /\ visit[v].at = "mail" /\ GoTo(v, "ok") /\ Fits(visit[v]) /\ visit[v].op = "forgot"
      /\ UNCHANGED <<user, shops, codes, used, spent, again, excused, purged>>
    BY DEF MakeLink, VisitAt, linkHistory, AccountInv, VisitsFit, Fits, Belongs
<1>2. PICK l \in Links \ mailed : links' = Append(links, l) /\ mailed' = mailed \cup {l}
    BY DEF MakeLink
<1>3. PICK r \in Visit :
             /\ visit' = [visit EXCEPT ![v] = r]
             /\ r.at = "ok" /\ r.op = visit[v].op /\ r.what = visit[v].what
             /\ r.mine = visit[v].mine /\ r.found = visit[v].found
    BY <1>1, GoToIs DEF AccountInv, Stages
<1>4. visit \in [Visits -> Visit] /\ links \in Seq(Links)
    BY DEF AccountInv, AccountTypeOK
<1>5. visit'[v] = r /\ \A w \in Visits \ {v} : visit'[w] = visit[w]
    BY <1>3, <1>4
<1>6. Belongs(r) /\ r.what \in mailed \cup {Nothing} /\ KnowsShop(r)
    BY <1>1, <1>3 DEF Fits, Belongs, KnowsShop
<1>7. links' \in Seq(Links) /\ Elements(links') = Elements(links) \cup {l}
    BY <1>2, <1>4, AppendAdds
<1>8. l \notin Elements(links) /\ l \notin spent /\ \A w \in Visits : visit[w].what # l
    BY <1>2, MailAssumption DEF AccountInv, MailIsFresh, VisitsFit, Fits
<1>9. MailIsFresh'
  <2>1. \A i \in DOMAIN links : links[i] # l
    BY <1>8 DEF Elements
  <2>2. /\ DOMAIN links = 1..Len(links) /\ Len(links) \in Nat
        /\ DOMAIN links' = 1..Len(links) + 1
        /\ \A i \in 1..Len(links) : links'[i] = links[i]
        /\ links'[Len(links) + 1] = l
    BY <1>2, <1>4
  <2>3. ASSUME NEW i \in DOMAIN links', NEW j \in DOMAIN links', links'[i] = links'[j]
        PROVE  i = j
    <3>1. (i \in DOMAIN links \/ i = Len(links) + 1) /\ (j \in DOMAIN links \/ j = Len(links) + 1)
      BY <2>2
    <3> QED BY <2>1, <2>2, <2>3, <3>1 DEF AccountInv, MailIsFresh
  <2>4. (Elements(links) \cup spent)' \subseteq mailed'
    BY <1>1, <1>2, <1>7 DEF AccountInv, MailIsFresh
  <2> QED BY <2>3, <2>4 DEF MailIsFresh
<1>10. ASSUME NEW w \in Visits PROVE HoldsLink(visit[w])'
  <2>1. Fits(visit[w])
    BY DEF AccountInv, VisitsFit
  <2>2. CASE w = v
    BY <1>1, <1>3, <1>5, <2>2 DEF HoldsLink
  <2>3. CASE w # v
    <3>1. HoldsLink(visit[w]) /\ visit'[w] = visit[w] /\ visit[w].what # l
      BY <1>5, <1>8, <2>1, <2>3 DEF Fits
    <3> QED BY <1>1, <1>7, <3>1 DEF HoldsLink
  <2> QED BY <2>2, <2>3
<1>11. SpentIsMarked'
  <2>1. SUFFICES ASSUME NEW k \in spent, k \notin excused, k \notin used, k \in Elements(links')
                 PROVE  \E w \in Visits : Marking(visit'[w], k)
    BY <1>1 DEF SpentIsMarked, Marking
  <2>2. k \in Elements(links)
    BY <1>7, <1>8, <2>1
  <2>3. PICK w \in Visits : Marking(visit[w], k)
    BY <2>1, <2>2 DEF AccountInv, SpentIsMarked
  <2> QED BY <1>1, <1>5, <2>3 DEF Marking
<1>12. /\ SpentLinksAreDead' /\ used' \subseteq Elements(links)'
       /\ spent' \cup again' \cup excused' \subseteq Links
       /\ mailed \subseteq mailed' /\ mailed' \subseteq Codes \cup Links
    BY <1>1, <1>2, <1>7 DEF AccountInv, SpentLinksAreDead, AccountTypeOK
<1> QED BY <1>1, <1>3, <1>6, <1>7, <1>9, <1>10, <1>11, <1>12, LinkCallInv

\* The link of a reset is spent with the password saved, and the reset is about to mark
\* it; another reset that holds it as well has overlapped.
LEMMA SavePasswordInv ==
    ASSUME AccountInv, NEW v \in Visits, SavePassword(v)
    PROVE  AccountInv'
<1> DEFINE l == visit[v].what
<1>1. /\ visit[v].at = "save" /\ GoTo(v, "uncache") /\ Fits(visit[v])
      /\ visit[v].op \in {"reset", "change"}
      /\ UNCHANGED <<user, shops, codes, links, used, mailed, purged>>
    BY DEF SavePassword, VisitAt, mailVars, AccountInv, VisitsFit, Fits, Belongs
<1>2. PICK r \in Visit :
             /\ visit' = [visit EXCEPT ![v] = r]
             /\ r.at = "uncache" /\ r.op = visit[v].op /\ r.what = visit[v].what
             /\ r.mine = visit[v].mine /\ r.found = visit[v].found
    BY <1>1, GoToIs DEF AccountInv, Stages
<1>3. visit \in [Visits -> Visit] /\ links \in Seq(Links) /\ used \subseteq Elements(links)
    BY DEF AccountInv, AccountTypeOK
<1>4. visit'[v] = r /\ \A w \in Visits \ {v} : visit'[w] = visit[w]
    BY <1>2, <1>3
<1>5. Belongs(r) /\ r.what \in mailed \cup {Nothing} /\ KnowsShop(r)
    BY <1>1, <1>2 DEF Fits, Belongs, KnowsShop
<1>6. CASE visit[v].op = "change"
  <2>1. (\A k \in Links : ~Marking(visit[v], k)) /\ UNCHANGED linkHistory
        /\ excused' = excused /\ excused \subseteq Links
    BY <1>1, <1>6 DEF SavePassword, Marking, linkHistory, AccountInv, AccountTypeOK
  <2> QED BY <1>1, <1>2, <1>5, <1>6, <2>1, CallInv DEF linkHistory, mailVars
<1>7. CASE visit[v].op = "reset"
  <2>1. /\ spent' = spent \cup {l}
        /\ again' = IF l \in spent THEN again \cup {l} ELSE again
        /\ excused' = IF l \in HeldAt(v, {"save"}) THEN excused \cup {l} ELSE excused
    BY <1>7 DEF SavePassword
  <2>2. l \in Links /\ l \in mailed /\ l \notin spent \ excused
    BY <1>1, <1>7, MailAssumption DEF Fits, Belongs, HoldsLink
  <2>3. excused \subseteq excused' /\ spent' \cup again' \cup excused' \subseteq Links
    BY <2>1, <2>2 DEF AccountInv, AccountTypeOK
  <2>4. ASSUME NEW w \in Visits PROVE HoldsLink(visit[w])'
    <3>1. CASE w = v
      BY <1>2, <1>4, <3>1 DEF HoldsLink
    <3>2. CASE w # v
      <4>1. HoldsLink(visit[w]) /\ visit'[w] = visit[w]
        BY <1>4, <3>2 DEF AccountInv, VisitsFit, Fits
      <4>2. visit[w].op = "reset" /\ visit[w].at = "save" /\ visit[w].what = l => l \in excused'
        BY <2>1, <3>2 DEF HeldAt, Others
      <4> QED BY <1>1, <2>1, <2>3, <4>1, <4>2 DEF HoldsLink, Elements
    <3> QED BY <3>1, <3>2
  <2>5. MailIsFresh'
    BY <1>1, <2>1, <2>2 DEF AccountInv, MailIsFresh, Elements
  <2>6. SpentIsMarked'
    <3>1. SUFFICES ASSUME NEW k \in spent', k \notin excused', k \notin used, k \in Elements(links)
                   PROVE  \E w \in Visits : Marking(visit'[w], k)
      BY <1>1 DEF SpentIsMarked, Marking, Elements
    <3>2. CASE k = l
      BY <1>2, <1>4, <1>7, <3>2 DEF Marking
    <3>3. CASE k # l
      <4>1. PICK w \in Visits : Marking(visit[w], k)
        BY <2>1, <2>3, <3>1, <3>3 DEF AccountInv, SpentIsMarked
      <4> QED BY <1>1, <1>4, <4>1 DEF Marking
    <3> QED BY <3>2, <3>3
  <2>7. SpentLinksAreDead'
    BY <2>1, <2>2, <2>3 DEF AccountInv, SpentLinksAreDead
  <2>8. links' \in Seq(Links) /\ used' \subseteq Elements(links)' /\ mailed' \subseteq Codes \cup Links
    BY <1>1, <1>3 DEF AccountInv, AccountTypeOK, Elements
  <2> QED BY <1>1, <1>2, <1>5, <2>3, <2>4, <2>5, <2>6, <2>7, <2>8, LinkCallInv
<1> QED BY <1>1, <1>6, <1>7

\* The link is marked, if it is still there.
LEMMA MarkUsedInv ==
    ASSUME AccountInv, NEW v \in Visits, MarkUsed(v)
    PROVE  AccountInv'
<1> DEFINE l == visit[v].what
<1>1. /\ visit[v].at = "mark" /\ GoTo(v, "clear") /\ Fits(visit[v]) /\ visit[v].op = "reset"
      /\ used' = used \cup ({l} \cap Elements(links))
      /\ UNCHANGED <<user, shops, codes, links, mailed, spent, again, excused, purged>>
    BY DEF MarkUsed, VisitAt, linkHistory, AccountInv, VisitsFit, Fits, Belongs
<1>2. PICK r \in Visit :
             /\ visit' = [visit EXCEPT ![v] = r]
             /\ r.at = "clear" /\ r.op = visit[v].op /\ r.what = visit[v].what
             /\ r.mine = visit[v].mine /\ r.found = visit[v].found
    BY <1>1, GoToIs DEF AccountInv, Stages
<1>3. visit \in [Visits -> Visit] /\ links \in Seq(Links) /\ used \subseteq Elements(links)
    BY DEF AccountInv, AccountTypeOK
<1>4. visit'[v] = r /\ \A w \in Visits \ {v} : visit'[w] = visit[w]
    BY <1>2, <1>3
<1>5. Belongs(r) /\ r.what \in mailed \cup {Nothing} /\ KnowsShop(r)
    BY <1>1, <1>2 DEF Fits, Belongs, KnowsShop
<1>6. ASSUME NEW w \in Visits PROVE HoldsLink(visit[w])'
  <2>1. CASE w = v
    BY <1>1, <1>2, <1>4, <2>1 DEF HoldsLink, Elements
  <2>2. CASE w # v
    <3>1. HoldsLink(visit[w]) /\ visit'[w] = visit[w]
      BY <1>4, <2>2 DEF AccountInv, VisitsFit, Fits
    <3> QED BY <1>1, <3>1 DEF HoldsLink, Elements
  <2> QED BY <2>1, <2>2
<1>7. SpentIsMarked'
  <2>1. SUFFICES ASSUME NEW k \in spent, k \notin excused, k \notin used', k \in Elements(links)
                 PROVE  \E w \in Visits : Marking(visit'[w], k)
    BY <1>1 DEF SpentIsMarked, Marking, Elements
  <2>2. PICK w \in Visits : Marking(visit[w], k)
    BY <1>1, <2>1 DEF AccountInv, SpentIsMarked
  <2>3. w # v
    BY <1>1, <2>1, <2>2 DEF Marking
  <2> QED BY <1>4, <2>2, <2>3
<1>8. /\ MailIsFresh' /\ SpentLinksAreDead' /\ used' \subseteq Elements(links)'
      /\ spent' \cup again' \cup excused' \subseteq Links /\ mailed' \subseteq Codes \cup Links
    BY <1>1, <1>3 DEF AccountInv, MailIsFresh, SpentLinksAreDead, AccountTypeOK, Elements
<1> QED BY <1>1, <1>2, <1>3, <1>5, <1>6, <1>7, <1>8, LinkCallInv

\* All links but one's own are deleted, and all that were there are spent; the resets that
\* were about to save with one of them have overlapped.
LEMMA ClearLinksInv ==
    ASSUME AccountInv, NEW v \in Visits, ClearLinks(v)
    PROVE  AccountInv'
<1> DEFINE l == visit[v].what
<1>1. /\ visit[v].at = "clear" /\ GoTo(v, "ok") /\ Fits(visit[v])
      /\ visit[v].op \in {"reset", "change"}
      /\ links' = IF l \in Elements(links) THEN <<l>> ELSE <<>>
      /\ used' = used \cap {l}
      /\ spent' = spent \cup Elements(links)
      /\ excused' = excused \cup (HeldAt(v, {"save"}) \cap Elements(links))
      /\ UNCHANGED <<user, shops, codes, mailed, again, purged>>
    BY DEF ClearLinks, VisitAt, AccountInv, VisitsFit, Fits, Belongs
<1>2. PICK r \in Visit :
             /\ visit' = [visit EXCEPT ![v] = r]
             /\ r.at = "ok" /\ r.op = visit[v].op /\ r.what = visit[v].what
             /\ r.mine = visit[v].mine /\ r.found = visit[v].found
    BY <1>1, GoToIs DEF AccountInv, Stages
<1>3. /\ visit \in [Visits -> Visit] /\ links \in Seq(Links) /\ used \subseteq Elements(links)
      /\ Elements(links) \subseteq Links
    BY DEF AccountInv, AccountTypeOK, Elements
<1>4. visit'[v] = r /\ \A w \in Visits \ {v} : visit'[w] = visit[w]
    BY <1>2, <1>3
<1>5. Belongs(r) /\ r.what \in mailed \cup {Nothing} /\ KnowsShop(r)
    BY <1>1, <1>2 DEF Fits, Belongs, KnowsShop
<1>6. /\ links' \in Seq(Links) /\ Elements(links') = Elements(links) \cap {l}
      /\ \A i, j \in DOMAIN links' : links'[i] = links'[j] => i = j
  <2>1. CASE l \in Elements(links)
    <3>1. l \in Links /\ links' = <<l>>
      BY <1>1, <1>3, <2>1
    <3>2. links' \in Seq(Links) /\ DOMAIN links' = {1} /\ links'[1] = l
      BY <3>1
    <3> QED BY <2>1, <3>2 DEF Elements
  <2>2. CASE l \notin Elements(links)
    <3>1. links' \in Seq(Links) /\ DOMAIN links' = {}
      BY <1>1, <2>2
    <3> QED BY <2>2, <3>1 DEF Elements
  <2> QED BY <2>1, <2>2
<1>7. ASSUME NEW w \in Visits PROVE HoldsLink(visit[w])'
  <2>1. CASE w = v
    BY <1>2, <1>4, <2>1 DEF HoldsLink
  <2>2. CASE w # v
    <3>1. HoldsLink(visit[w]) /\ visit'[w] = visit[w]
      BY <1>4, <2>2 DEF AccountInv, VisitsFit, Fits
    <3>2. visit[w].op = "reset" /\ visit[w].at = "save" /\ visit[w].what \in Elements(links)
             => visit[w].what \in excused'
      BY <1>1, <2>2 DEF HeldAt, Others
    <3> QED BY <1>1, <1>6, <3>1, <3>2 DEF HoldsLink
  <2> QED BY <2>1, <2>2
<1>8. SpentIsMarked'
  <2>1. SUFFICES ASSUME NEW k \in spent', k \notin used', k \in Elements(links') PROVE FALSE
    BY DEF SpentIsMarked
  <2>2. k = l /\ l \in Links /\ l \in Elements(links) /\ l \notin used
    BY <1>1, <1>3, <1>6, <2>1
  <2>3. visit[v].op = "reset"
    BY <1>1, <2>2, MailAssumption DEF Fits, Belongs
  <2> QED BY <1>1, <2>2, <2>3 DEF Fits, HoldsLink
<1>9. MailIsFresh'
    BY <1>1, <1>6 DEF AccountInv, MailIsFresh
<1>10. /\ SpentLinksAreDead' /\ used' \subseteq Elements(links)'
       /\ spent' \cup again' \cup excused' \subseteq Links /\ mailed' \subseteq Codes \cup Links
    BY <1>1, <1>3, <1>6 DEF AccountInv, SpentLinksAreDead, AccountTypeOK
<1> QED BY <1>1, <1>2, <1>5, <1>6, <1>7, <1>8, <1>9, <1>10, LinkCallInv

\* What expires is gone: a link is there once.
LEMMA ExpireInv ==
    ASSUME AccountInv, ExpireMail
    PROVE  AccountInv'
<1>1. UNCHANGED <<user, shops, mailed, visit, spent, again, excused, purged>>
    BY DEF ExpireMail, linkHistory
<1>2. /\ codes \in Seq(Codes) /\ links \in Seq(Links) /\ used \subseteq Elements(links)
      /\ \A i, j \in DOMAIN links : links[i] = links[j] => i = j
    BY DEF AccountInv, AccountTypeOK, MailIsFresh
<1>3. CASE codes # <<>> /\ codes' = Tail(codes) /\ UNCHANGED <<links, used>>
  <2>1. codes' \in Seq(Codes)
    BY <1>2, <1>3, TailDrops
  <2>2. AccountTypeOK' /\ MailIsFresh'
    BY <1>1, <1>3, <2>1 DEF AccountInv, AccountTypeOK, MailIsFresh, Elements
  <2>3. VisitsFit'
    BY <1>1, <1>3 DEF AccountInv, VisitsFit, Fits, Belongs, KnowsShop, HoldsLink, Elements
  <2>4. OneShop' /\ SpentIsMarked' /\ SpentLinksAreDead'
    BY <1>1, <1>3 DEF AccountInv, OneShop, SpentIsMarked, SpentLinksAreDead, Marking, Elements
  <2> QED BY <2>2, <2>3, <2>4 DEF AccountInv
<1>4. CASE links # <<>> /\ links' = Tail(links) /\ used' = used \ {Head(links)} /\ codes' = codes
  <2>1. /\ links' \in Seq(Links) /\ Head(links) = links[1] /\ 1 \in DOMAIN links
        /\ \A i \in DOMAIN links' : i + 1 \in DOMAIN links /\ links'[i] = links[i + 1] /\ i + 1 # 1
        /\ \A i, j \in DOMAIN links' : i + 1 = j + 1 => i = j
        /\ Elements(links') \subseteq Elements(links)
    BY <1>2, <1>4, TailDrops
  <2>2. Head(links) \notin Elements(links')
    BY <1>2, <2>1 DEF Elements
  <2>3. used' \subseteq Elements(links')
    <3>1. ASSUME NEW i \in DOMAIN links, i # 1 PROVE links[i] \in Elements(links')
      <4>1. i - 1 \in DOMAIN links' /\ links'[i - 1] = links[i]
        BY <1>2, <1>4, <3>1
      <4> QED BY <4>1 DEF Elements
    <3> QED BY <1>2, <1>4, <2>1, <3>1 DEF Elements
  <2>4. AccountTypeOK'
    BY <1>1, <1>4, <2>1, <2>3 DEF AccountInv, AccountTypeOK
  <2>5. MailIsFresh'
    <3>1. ASSUME NEW i \in DOMAIN links', NEW j \in DOMAIN links', links'[i] = links'[j]
          PROVE  i = j
      <4>1. i + 1 = j + 1
        BY <1>2, <2>1, <3>1
      <4> QED BY <2>1, <4>1
    <3> QED BY <1>1, <2>1, <3>1 DEF AccountInv, MailIsFresh
  <2>6. VisitsFit'
    <3>1. SUFFICES ASSUME NEW w \in Visits PROVE Fits(visit[w])'
      BY DEF VisitsFit
    <3>2. Fits(visit[w])
      BY DEF AccountInv, VisitsFit
    <3>3. HoldsLink(visit[w])'
      BY <1>1, <1>4, <2>1, <2>2, <3>2 DEF Fits, HoldsLink
    <3> QED BY <1>1, <3>2, <3>3 DEF Fits, Belongs, KnowsShop
  <2>7. SpentIsMarked'
    <3>1. SUFFICES ASSUME NEW k \in spent, k \notin excused, k \notin used', k \in Elements(links')
                   PROVE  \E w \in Visits : Marking(visit[w], k)
      BY <1>1 DEF SpentIsMarked, Marking
    <3>2. k \in Elements(links) /\ k \notin used
      BY <1>4, <2>1, <2>2, <3>1
    <3> QED BY <3>1, <3>2 DEF AccountInv, SpentIsMarked
  <2>8. OneShop' /\ SpentLinksAreDead'
    BY <1>1 DEF AccountInv, OneShop, SpentLinksAreDead
  <2> QED BY <2>4, <2>5, <2>6, <2>7, <2>8 DEF AccountInv
<1> QED BY <1>3, <1>4 DEF ExpireMail

LEMMA PurgeShopInv ==
    ASSUME AccountInv, PurgeShop
    PROVE  AccountInv'
<1>1. shops' = {} /\ purged' = TRUE
      /\ UNCHANGED <<user, codes, links, used, mailed, visit, spent, again, excused>>
    BY DEF PurgeShop, mailVars, linkHistory
<1>2. AccountTypeOK' /\ MailIsFresh'
    BY <1>1 DEF AccountInv, AccountTypeOK, MailIsFresh, Elements
<1>3. VisitsFit'
    BY <1>1 DEF AccountInv, VisitsFit, Fits, Belongs, KnowsShop, HoldsLink, Elements
<1>4. OneShop' /\ SpentIsMarked' /\ SpentLinksAreDead'
    BY <1>1 DEF AccountInv, OneShop, SpentIsMarked, SpentLinksAreDead, Marking, Elements
<1> QED BY <1>2, <1>3, <1>4 DEF AccountInv

-----------------------------------------------------------------------------
(* Account: theorems *)

LEMMA AccountSteps == AccountInv /\ [AccountNext]_accountVars => AccountInv'
<1> SUFFICES ASSUME AccountInv, [AccountNext]_accountVars PROVE AccountInv'
    OBVIOUS
<1>1. ASSUME NEW v \in Visits, VisitStep(v) PROVE AccountInv'
    BY <1>1, MakeCodeInv, LookingInv, SaveVerifiedInv, UncacheInv, DeleteCodesInv,
       FindShopInv, OpenShopInv, SaveShopInv, MakeLinkInv, CheckLinkInv, SavePasswordInv,
       MarkUsedInv, ClearLinksInv
    DEF VisitStep
<1>2. ASSUME NEW v \in Visits,
             \/ Break(v) \/ Register(v) \/ EnsureMerchant(v) \/ Resend(v)
             \/ RequestReset(v) \/ ChangePassword(v)
             \/ \E c \in Codes : VerifyEmail(v, c)
             \/ \E l \in Links : ResetPassword(v, l)
      PROVE  AccountInv'
    BY <1>2, BreakInv, RegisterInv, BeginningInv
<1>3. CASE ExpireMail \/ PurgeShop
    BY <1>3, ExpireInv, PurgeShopInv
<1>4. CASE UNCHANGED accountVars
    BY <1>4, AccountRests
<1> QED BY <1>1, <1>2, <1>3, <1>4 DEF AccountNext

\* The inductive invariant holds of every run.
THEOREM AccountHolds == AccountSpec => []AccountInv
<1> QED BY AccountStarts, AccountSteps, PTL DEF AccountSpec

\* Every variable keeps its type.
THEOREM AccountTypes == AccountSpec => []AccountTypeOK
<1>1. AccountInv => AccountTypeOK
    BY DEF AccountInv
<1> QED BY <1>1, AccountHolds, PTL

\* A link that set the password, or was there when a change of it was completed, sets it
\* no more, but for resets that overlap or break half-way (resetPassword, changePassword).
THEOREM LinksDie == AccountSpec => []SpentLinksAreDead
<1>1. AccountInv => SpentLinksAreDead
    BY DEF AccountInv
<1> QED BY <1>1, AccountHolds, PTL

\* verifyEmail and ensureMerchant leave the user with one merchant, and with his id,
\* however many of them find none at once.
THEOREM VerifiedHasOneShop == AccountSpec => []AnsweredHasMerchant
<1>1. ASSUME AccountInv PROVE Cardinality(shops) <= 1
  <2>1. shops = {} \/ \E s \in shops : shops = {s}
    BY <1>1 DEF AccountInv, OneShop
  <2>2. CASE shops = {}
    <3>1. Cardinality(shops) = 0
      BY <2>2, FS_EmptySet
    <3> QED BY <3>1
  <2>3. ASSUME NEW s \in shops, shops = {s} PROVE Cardinality(shops) <= 1
    <3>1. Cardinality({s}) = 1
      BY FS_Singleton
    <3> QED BY <2>3, <3>1
  <2> QED BY <2>1, <2>2, <2>3
<1>2. ASSUME AccountInv, NEW v \in Visits, visit[v].op \in {"verify", "ensure"}, VisitAt(v, "ok")
      PROVE  user.shop \in shops \/ purged
    BY <1>2 DEF AccountInv, VisitsFit, Fits, KnowsShop, VisitAt
<1>3. AccountInv => AnsweredHasMerchant
    BY <1>1, <1>2 DEF AnsweredHasMerchant
<1> QED BY <1>3, AccountHolds, PTL
=============================================================================
