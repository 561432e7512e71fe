---------------------------- MODULE CategoryTree ----------------------------
(***************************************************************************)
(* A merchant's categories.  Each document names its parent and carries    *)
(* the list of its ancestors, which is computed when it is created and     *)
(* which no update or move computes again; the guard against loops and the *)
(* removal of a subtree both rely on it.  Every call reads, awaits, and    *)
(* writes what it decided.                                                 *)
(*                                                                         *)
(* Sources: modules/categories/categories.service.ts,                      *)
(* repositories/mongo-categories.repository.ts, schemas/category.schema.ts *)
(* and the category of a product in modules/products.                      *)
(*                                                                         *)
(* Left out: the order among siblings, path and depth, which decide what a *)
(* list looks like and nothing here; the transaction of a move holds only  *)
(* the writes of orders, its change of parent is saved outside it.         *)
(***************************************************************************)
EXTENDS Naturals, FiniteSets

CONSTANTS
    Categories,   \* ids
    NoParent,
    Slugs,
    SlugOf,       \* unique among siblings
    Editors,      \* calls of CategoriesService
    Products      \* products that may be stored in a category

ASSUME ParentAssumption == NoParent \notin Categories
ASSUME CategoriesAssumption == IsFiniteSet(Categories)
ASSUME SlugsAssumption == SlugOf \in [Categories -> Slugs]

VARIABLES
    stored,      \* categories with a document
    parent,      \* parent[c], as its document says
    ancestors,   \* ancestors[c], as its document says, without their order
    category,    \* category[p] of product p, NoParent if it is not stored
    editor,      \* editor[e]: what call e does, see Editor
    gone,        \* categories whose document was deleted: an id is never given again
    moved,       \* categories whose parent was ever changed (history)
    late         \* categories and products stored where a removal had already looked,
                 \* or under what was gone (history)

treeVars == <<stored, parent, ancestors, category, editor, gone, moved, late>>

\* node, target: the category at hand and the parent it is to get; found: the ids or
\* ancestors that the call has read.
Editor == [at : {"idle", "insert", "descent", "siblings", "parent", "loop", "save",
                 "products", "delete", "done"},
           node : Categories \cup {NoParent}, target : Categories \cup {NoParent},
           found : SUBSET Categories, cascade : BOOLEAN]

TreeTypeOK ==
    /\ stored \subseteq Categories
    /\ parent \in [Categories -> Categories \cup {NoParent}]
    /\ ancestors \in [Categories -> SUBSET Categories]
    /\ category \in [Products -> Categories \cup {NoParent}]
    /\ editor \in [Editors -> Editor]
    /\ gone \subseteq Categories
    /\ moved \subseteq Categories
    /\ late \subseteq Categories \cup Products

\* The merchant begins with any tree that create alone has made.
TreeInit ==
    /\ stored \in SUBSET Categories
    /\ parent \in [Categories -> stored \cup {NoParent}]
    /\ ancestors \in [Categories -> SUBSET stored]
    /\ \A c \in Categories :
         /\ c \notin stored => parent[c] = NoParent
         /\ c \notin ancestors[c]
         /\ ancestors[c] = IF parent[c] = NoParent THEN {}
                           ELSE ancestors[parent[c]] \cup {parent[c]}
    /\ \A c, d \in stored :
         parent[c] = parent[d] /\ SlugOf[c] = SlugOf[d] => c = d
    /\ category = [p \in Products |-> NoParent]
    /\ editor = [e \in Editors |-> [at |-> "idle", node |-> NoParent, target |-> NoParent,
                                    found |-> {}, cascade |-> FALSE]]
    /\ gone = {}
    /\ moved = {}
    /\ late = {}

-----------------------------------------------------------------------------
(* Helpers *)

\* The repository's question: does the document of t list a among its ancestors?
IsDescendant(t, a) == t \in stored /\ a \in ancestors[t]

\* Mutation of Subtree: only the direct children.
Family(c) == {d \in stored : d = c \/ parent[d] = c}

\* findSubtreeIds
Subtree(c) == {d \in stored : d = c \/ c \in ancestors[d]}

\* The unique index on merchant, parent and slug.
SlugFree(c, p) == \A d \in stored \ {c} : ~(parent[d] = p /\ SlugOf[d] = SlugOf[c])

\* What the removals at one of these stages have listed.
Listed(stages) == UNION {editor[e].found : e \in {f \in Editors : editor[f].at \in stages}}

\* Too late for a removal: the parent is gone, or listed for it.
TooLate(c, stages) == c # NoParent /\ (c \notin stored \/ c \in Listed(stages))

BeginEdit(e, at, c, p, S, cascade) ==
    /\ editor[e].at = "idle"
    /\ editor' = [editor EXCEPT ![e] = [at |-> at, node |-> c, target |-> p,
                                        found |-> S, cascade |-> cascade]]

Proceed(e, at) == editor' = [editor EXCEPT ![e].at = at]
Ends(e) == editor' = [editor EXCEPT ![e] = [@ EXCEPT !.at = "done", !.found = {}]]

-----------------------------------------------------------------------------
(* create *)

\* computePathAncestors reads the parent.
CreateCategory(e, c, p) ==
    /\ c \notin stored \cup gone
    /\ \A f \in Editors : editor[f].node # c
    /\ p = NoParent \/ p \in stored
    /\ BeginEdit(e, "insert", c, p, IF p = NoParent THEN {} ELSE ancestors[p] \cup {p}, FALSE)
    /\ UNCHANGED <<stored, parent, ancestors, category, gone, moved, late>>

InsertCategory(e) ==
    LET c == editor[e].node
        p == editor[e].target
    IN  /\ editor[e].at = "insert"
        /\ SlugFree(c, p)
        /\ stored' = stored \cup {c}
        /\ parent' = [parent EXCEPT ![c] = p]
        /\ ancestors' = [ancestors EXCEPT ![c] = editor[e].found]
        /\ late' = IF TooLate(p, {"products", "delete"}) THEN late \cup {c} ELSE late
        /\ Ends(e)
        /\ UNCHANGED <<category, gone, moved>>

-----------------------------------------------------------------------------
(* move and update *)

\* move reads the category; without another parent it only changes orders.
Move(e, c, p) ==
    /\ c \in stored
    /\ p # parent[c]
    /\ BeginEdit(e, IF p = NoParent THEN "siblings" ELSE "descent", c, p, {}, FALSE)
    /\ UNCHANGED <<stored, parent, ancestors, category, gone, moved, late>>

CheckDescent(e) ==
    /\ editor[e].at = "descent"
    /\ IF IsDescendant(editor[e].target, editor[e].node)
       THEN Ends(e) ELSE Proceed(e, "siblings")
    /\ UNCHANGED <<stored, parent, ancestors, category, gone, moved, late>>

\* The new siblings are listed; the one to be placed next to may not be there.
ListSiblings(e) ==
    /\ editor[e].at = "siblings"
    /\ Ends(e) \/ Proceed(e, "parent")
    /\ UNCHANGED <<stored, parent, ancestors, category, gone, moved, late>>

\* PATCH begins where a move goes on: update reads the category by itself.
Update(e, c, p) ==
    /\ c \in stored
    /\ BeginEdit(e, "parent", c, p, {}, FALSE)
    /\ UNCHANGED <<stored, parent, ancestors, category, gone, moved, late>>

\* updateParent: not itself, and the new parent must exist.
CheckParent(e) ==
    LET c == editor[e].node
        p == editor[e].target
    IN  /\ editor[e].at = "parent"
        /\ IF c \notin stored \/ p = c \/ p \notin stored \cup {NoParent} THEN Ends(e)
           ELSE Proceed(e, IF p = NoParent THEN "save" ELSE "loop")
        /\ UNCHANGED <<stored, parent, ancestors, category, gone, moved, late>>

CheckLoop(e) ==
    /\ editor[e].at = "loop"
    /\ IF IsDescendant(editor[e].target, editor[e].node) THEN Ends(e) ELSE Proceed(e, "save")
    /\ UNCHANGED <<stored, parent, ancestors, category, gone, moved, late>>

\* save() writes the parent and nothing else.
Save(e) ==
    LET c == editor[e].node
        p == editor[e].target
    IN  /\ editor[e].at = "save"
        /\ c \in stored
        /\ SlugFree(c, p)
        /\ parent' = [parent EXCEPT ![c] = p]
        /\ moved' = IF p = parent[c] THEN moved ELSE moved \cup {c}
        /\ Ends(e)
        /\ UNCHANGED <<stored, ancestors, category, gone, late>>

\* The document is gone, or a sibling has the slug.
WriteRefused(e) ==
    /\ editor[e].at \in {"insert", "save"}
    /\ \/ ~SlugFree(editor[e].node, editor[e].target)
       \/ editor[e].at = "save" /\ editor[e].node \notin stored
    /\ Ends(e)
    /\ UNCHANGED <<stored, parent, ancestors, category, gone, moved, late>>

-----------------------------------------------------------------------------
(* remove *)

\* The category is found, then its subtree.
RemoveCategory(e, c, cascade) ==
    /\ c \in stored
    /\ BeginEdit(e, "products", c, NoParent, Subtree(c), cascade)
    /\ UNCHANGED <<stored, parent, ancestors, category, gone, moved, late>>

\* Mutation of CheckProducts: only the category itself is asked about.
CheckOwnProducts(e) ==
    /\ editor[e].at = "products"
    /\ IF \/ \E q \in Products : category[q] = editor[e].node
          \/ editor[e].found \ {editor[e].node} # {} /\ ~editor[e].cascade
       THEN Ends(e) ELSE Proceed(e, "delete")
    /\ UNCHANGED <<stored, parent, ancestors, category, gone, moved, late>>

\* Neither categories with products go, nor a subtree without ?cascade=true.
CheckProducts(e) ==
    /\ editor[e].at = "products"
    /\ IF \/ \E q \in Products : category[q] \in editor[e].found
          \/ editor[e].found \ {editor[e].node} # {} /\ ~editor[e].cascade
       THEN Ends(e) ELSE Proceed(e, "delete")
    /\ UNCHANGED <<stored, parent, ancestors, category, gone, moved, late>>

DeleteMany(e) ==
    /\ editor[e].at = "delete"
    /\ stored' = stored \ editor[e].found
    /\ gone' = gone \cup (stored \cap editor[e].found)
    /\ Ends(e)
    /\ UNCHANGED <<parent, ancestors, category, moved, late>>

\* A product is stored in a category that the client has seen; nothing asks whether it
\* is still there.
StoreProduct(q, c) ==
    /\ category[q] = NoParent
    /\ c \in (stored \cup {editor[e].node : e \in Editors}) \ {NoParent}
    /\ category' = [category EXCEPT ![q] = c]
    /\ late' = IF TooLate(c, {"delete"}) THEN late \cup {q} ELSE late
    /\ UNCHANGED <<stored, parent, ancestors, editor, gone, moved>>

-----------------------------------------------------------------------------
EditorStep(e) ==
    \/ InsertCategory(e) \/ CheckDescent(e) \/ ListSiblings(e) \/ CheckParent(e)
    \/ CheckLoop(e) \/ Save(e) \/ WriteRefused(e) \/ CheckProducts(e) \/ DeleteMany(e)

TreeNext ==
    \/ \E e \in Editors :
         \/ EditorStep(e)
         \/ \E c \in Categories :
              \/ \E p \in Categories \cup {NoParent} :
                   CreateCategory(e, c, p) \/ Move(e, c, p) \/ Update(e, c, p)
              \/ \E cascade \in BOOLEAN : RemoveCategory(e, c, cascade)
    \/ \E q \in Products, c \in Categories : StoreProduct(q, c)

TreeSpec == TreeInit /\ [][TreeNext]_treeVars

-----------------------------------------------------------------------------
(* Properties *)

\* Following the parents never leads round in a circle: every set of categories has
\* one whose parent is outside it.
NoLoop == \A S \in (SUBSET stored) \ {{}} : \E c \in S : parent[c] \notin S

\* The stale lists of ancestors can make a loop, and so can two moves at once, but not
\* as long as no more than one category was ever moved.
LoopTakesTwoMoves == Cardinality(moved) <= 1 => NoLoop

\* A removal leaves no category without its parent and no product without its category,
\* except a category that was moved, since its list of ancestors is not that of where it
\* is, and what was stored there after the removal had looked.
NothingIsCutOff ==
    /\ \A c \in stored : parent[c] \in stored \cup {NoParent} \/ c \in moved \cup late
    /\ \A q \in Products : category[q] \in stored \cup {NoParent} \/ q \in late

\* Both: the tree stays one tree.
TreeStaysWhole == LoopTakesTwoMoves /\ NothingIsCutOff
=============================================================================
