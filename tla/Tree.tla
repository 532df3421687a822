-------------------------------- MODULE Tree --------------------------------
(***************************************************************************)
(* src/consistent-hash/ring/src/tree_map.c: the red-black tree, after CLRS *)
(* chapter 13, with one shared nil node.  Here is what its functions do    *)
(* between two turns of a loop.  TreeLoops runs the loops turn by turn,    *)
(* TreeMap runs each to its end at once.                                   *)
(*                                                                         *)
(* A tree is a record of pointer maps; a node is named by the id it holds. *)
(* The mirrored halves of the C code are one definition that takes the     *)
(* side, "left" or "right", as an argument.                                *)
(***************************************************************************)
EXTENDS Integers, FiniteSets

CONSTANTS Ids, HashBound, Hash, Points  \* as in HashRing

nil == -1                               \* r->nil, whose cid and hv are -1

\* No two ids hash to the same position, as HashRing assumes too.
ASSUME TreeAssumption ==
    /\ nil \notin Ids
    /\ IsFiniteSet(Ids)
    /\ HashBound \in Nat
    /\ Hash \in [Ids -> 0..HashBound]
    /\ Points \subseteq 0..HashBound
    /\ \A i, j \in Ids : Hash[i] = Hash[j] => i = j

Nodes  == Ids \cup {nil}
Sides  == {"left", "right"}
Colors == {"RED", "BLACK"}

Trees ==
    [root : Nodes, size : Nat, left : [Ids -> Nodes], right : [Ids -> Nodes],
     parent : [Nodes -> Nodes], color : [Nodes -> Colors]]

hv(n) == IF n = nil THEN -1 ELSE Hash[n]

Other(side) == IF side = "left" THEN "right" ELSE "left"

\* The node n and everything below it.
Subtree(tree, n) ==
    LET S[m \in Nodes] ==
            IF m = nil THEN {} ELSE {m} \cup S[tree.left[m]] \cup S[tree.right[m]]
    IN  S[n]

Contents(tree) == Subtree(tree, tree.root)

-----------------------------------------------------------------------------
(* Shape changes. *)

new_rbt ==
    [root   |-> nil,
     size   |-> 0,
     left   |-> [n \in Ids |-> nil],
     right  |-> [n \in Ids |-> nil],
     parent |-> [n \in Nodes |-> nil],
     color  |-> [n \in Nodes |-> "BLACK"]]

Paint(tree, n, c) == [tree EXCEPT !.color[n] = c]

SideOf(tree, n) == IF n = tree.left[tree.parent[n]] THEN "left" ELSE "right"

\* Mutant of rbt_transplant: v does not learn its parent.
TransplantNoParent(tree, u, v) ==
    LET p == tree.parent[u]
    IN  IF p = nil THEN [tree EXCEPT !.root = v]
        ELSE IF u = tree.left[p] THEN [tree EXCEPT !.left[p] = v]
        ELSE [tree EXCEPT !.right[p] = v]

\* Put v where u hangs; nil's parent is written like any other node's.
rbt_transplant(tree, u, v) ==
    LET p == tree.parent[u]
        hung == IF p = nil THEN [tree EXCEPT !.root = v]
                ELSE IF u = tree.left[p] THEN [tree EXCEPT !.left[p] = v]
                ELSE [tree EXCEPT !.right[p] = v]
    IN  [hung EXCEPT !.parent[v] = p]

\* left_rotate is Rotate("left"), right_rotate is Rotate("right").
Rotate(tree, side, x) ==
    LET y == tree[Other(side)][x]
        inner == tree[side][y]
        moved == [tree EXCEPT ![Other(side)][x] = inner,
                              !.parent = IF inner # nil
                                         THEN [@ EXCEPT ![inner] = x] ELSE @]
        hung == rbt_transplant(moved, x, y)
    IN  [hung EXCEPT ![side][y] = x, !.parent[x] = y]

-----------------------------------------------------------------------------
(* Insertion. *)

\* Mutant of Turn: the ids are compared, not the hash values.
TurnById(z, n) == IF z < n THEN "left" ELSE "right"

\* The child of n under which rbt_insert goes on with z.
Turn(z, n) == IF hv(z) < hv(n) THEN "left" ELSE "right"

\* z becomes a red leaf under y, or the root.
Link(tree, z, y) ==
    LET placed == IF y = nil THEN [tree EXCEPT !.root = z]
                  ELSE [tree EXCEPT ![Turn(z, y)][y] = z]
    IN  [placed EXCEPT !.parent[z] = y,
                       !.left[z] = nil,
                       !.right[z] = nil,
                       !.color[z] = "RED"]

\* Red parent, red uncle: the red moves up to the grandparent.
PushBlackDown(tree, p, uncle, g) ==
    Paint(Paint(Paint(tree, p, "BLACK"), uncle, "BLACK"), g, "RED")

\* Red parent p, black uncle: the grandparent g comes down on the other side.
TurnOver(tree, side, p, g) ==
    Rotate(Paint(Paint(tree, p, "BLACK"), g, "RED"), Other(side), g)

\* One turn of the loop of rbt_insert_fixup: the tree and z after it.
InsertRound(tree, z) ==
    LET p == tree.parent[z]
        g == tree.parent[p]
        side == SideOf(tree, p)
        uncle == tree[Other(side)][g]
    IN  IF tree.color[uncle] = "RED"
        THEN <<PushBlackDown(tree, p, uncle, g), g>>
        ELSE IF z = tree[Other(side)][p]
        THEN <<TurnOver(Rotate(tree, side, p), side, z, g), p>>
        ELSE <<TurnOver(tree, side, p, g), z>>

-----------------------------------------------------------------------------
(* Deletion. *)

\* The two-children branch of rbt_delete: y, the least node on the right of
\* z, takes the place and the color of z.
Unlink(tree, z, y) ==
    LET x == tree.right[y]
        lifted == IF tree.parent[y] = z
                  THEN [tree EXCEPT !.parent[x] = y]
                  ELSE LET cut == rbt_transplant(tree, y, x)
                       IN  [cut EXCEPT !.right[y] = tree.right[z],
                                       !.parent[tree.right[z]] = y]
        hung == rbt_transplant(lifted, z, y)
    IN  [hung EXCEPT !.left[y] = tree.left[z],
                     !.parent[tree.left[z]] = y,
                     !.color[y] = tree.color[z]]

\* The child that takes the place of a node with at most one.
OnlyChild(tree, z) == IF tree.left[z] = nil THEN tree.right[z] ELSE tree.left[z]

\* Mutant of RaiseSibling: the parent stays black.
RaiseSiblingParentBlack(tree, side, p) ==
    Rotate(Paint(tree, tree[Other(side)][p], "BLACK"), side, p)

\* A red sibling is rotated above the parent first.
RaiseSibling(tree, side, p) ==
    Rotate(Paint(Paint(tree, tree[Other(side)][p], "BLACK"), p, "RED"), side, p)

\* The red nephew on the near side is rotated to the far side, above w.
TurnNephew(tree, side, w) ==
    Rotate(Paint(Paint(tree, tree[side][w], "BLACK"), w, "RED"), Other(side), w)

\* The far nephew is red: the sibling w takes the parent's place, and the
\* side of x gains the black node it lacks.
Settle(tree, side, p) ==
    LET w == tree[Other(side)][p]
        far == tree[Other(side)][w]
    IN  Rotate(Paint(Paint(Paint(tree, w, tree.color[p]), p, "BLACK"), far, "BLACK"),
               side, p)

\* One turn of the loop of rbt_delete_fixup: the tree and x after it.
DeleteRound(tree, x) ==
    LET p == tree.parent[x]
        side == SideOf(tree, x)
        far == Other(side)
        t1 == IF tree.color[tree[far][p]] = "RED" THEN RaiseSibling(tree, side, p)
                                                  ELSE tree
        w == t1[far][p]
        t2 == IF t1.color[t1[far][w]] = "BLACK" THEN TurnNephew(t1, side, w)
                                                ELSE t1
        t3 == Settle(t2, side, p)
    IN  IF \A s \in Sides : t1.color[t1[s][w]] = "BLACK"
        THEN <<Paint(t1, w, "RED"), p>>
        ELSE <<t3, t3.root>>

free(tree, z) ==
    [tree EXCEPT !.left[z] = nil, !.right[z] = nil,
                 !.parent[z] = nil, !.color[z] = "BLACK"]

-----------------------------------------------------------------------------
(* What makes a tree a red-black search tree. *)

\* The hash values on the left of a node are lower, on the right higher.
IsOrdered(tree) ==
    \A n \in Contents(tree) :
        /\ \A m \in Subtree(tree, tree.left[n]) : hv(m) < hv(n)
        /\ \A m \in Subtree(tree, tree.right[n]) : hv(m) > hv(n)

\* The parent pointers invert the child pointers.
IsLinked(tree) ==
    /\ tree.root # nil => tree.parent[tree.root] = nil
    /\ \A n \in Contents(tree), side \in Sides :
            tree[side][n] # nil => tree.parent[tree[side][n]] = n

\* How many black nodes there are on the leftmost path from n to nil.
BlackHeight(tree, n) ==
    LET h[m \in Nodes] ==
            IF m = nil THEN 1
            ELSE h[tree.left[m]] + (IF tree.color[m] = "BLACK" THEN 1 ELSE 0)
    IN  h[n]

\* No red node has a red child, and all paths down carry as many black nodes.
IsBalanced(tree) ==
    /\ tree.color[tree.root] = "BLACK" /\ tree.color[nil] = "BLACK"
    /\ \A n \in Contents(tree) :
            BlackHeight(tree, tree.left[n]) = BlackHeight(tree, tree.right[n])
    /\ \A n \in Contents(tree), side \in Sides :
            tree.color[n] = "RED" => tree.color[tree[side][n]] = "BLACK"
=============================================================================
