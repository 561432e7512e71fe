---------------------------- MODULE MCChatIntake ----------------------------
(***************************************************************************)
(* ChatIntake on a small instance: one conversation, two updates, the      *)
(* first delivered twice, and an agent who replies.                        *)
(***************************************************************************)
EXTENDS ChatIntake, TLC

CONSTANTS d1, d2, d3, r1, c1, m1, m2, s1, s2

MCDeliveries == {d1, d2, d3}
MCReplies == {r1}
MCMessageOf == d1 :> m1 @@ d2 :> m1 @@ d3 :> m2
MCSourceOf == m1 :> s1 @@ m2 :> s2
MCRoleOf == r1 :> "agent"
MCChatOf == [w \in MCDeliveries \cup MCReplies |-> c1]
MCConversations == {m1 :> "text" @@ m2 :> "order"}
MCOthers == {m1 :> "text" @@ m2 :> k : k \in {"text", "media", "empty"}}
MCTwo == {d1, d3}
MCModes == {[tx |-> TRUE, call |-> TRUE, send |-> FALSE],
            [tx |-> FALSE, call |-> FALSE, send |-> TRUE]}
=============================================================================
