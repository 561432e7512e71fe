------------------------------ MODULE MCOutbox ------------------------------
(***************************************************************************)
(* Outbox on small instances.  Events are numbered in createdAt order; in  *)
(* MCSharedKey events 1 and 2 carry the same dedupeKey.                    *)
(***************************************************************************)
EXTENDS Outbox, TLC

CONSTANTS t1, t2, key

MCTicks == {t1, t2}
MCNoKeys == [e \in Events |-> NoKey]
MCSharedKey == [e \in Events |-> IF e <= 2 THEN key ELSE NoKey]
TickSymmetry == Permutations(MCTicks)
=============================================================================
