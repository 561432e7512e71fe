--------------------------- MODULE MCCategoryTree ---------------------------
(***************************************************************************)
(* The category tree by itself, to show how a loop comes about.            *)
(***************************************************************************)
EXTENDS CategoryTree, TLC

CONSTANTS c1, c2, c3, s1, s2

\* Two categories with one slug, and one with another.
MCSlugOf == c1 :> s1 @@ c2 :> s2 @@ c3 :> s1
=============================================================================
