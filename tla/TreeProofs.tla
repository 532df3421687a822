----------------------------- MODULE TreeProofs -----------------------------
(***************************************************************************)
(* Proofs about the loops of the red-black tree (TreeLoops), for any       *)
(* number of ids at any positions.                                         *)
(***************************************************************************)
EXTENDS TreeLoops, FiniteSetTheorems, WellFoundedInduction, TLAPS

-----------------------------------------------------------------------------
(* The invariants of the loops.                                            *)
(*                                                                         *)
(* L is the set of nodes in the tree.  The nodes below n are those with a  *)
(* hash between lo[n] and hi[n]: the bounds are the hashes of ancestors,   *)
(* or those of the root, -1 and HashBound + 1.                             *)

Bounded(L, lo, hi) ==
    /\ L \in SUBSET Ids
    /\ lo \in [Ids -> Int] /\ hi \in [Ids -> Int]
    /\ \A n \in L : /\ -1 <= lo[n] /\ lo[n] < Hash[n]
                    /\ Hash[n] < hi[n] /\ hi[n] <= HashBound + 1

\* m is on the left or on the right of n.
Under(lo, hi, m, n) ==
    \/ lo[n] <= lo[m] /\ hi[m] <= Hash[n]
    \/ Hash[n] <= lo[m] /\ hi[m] <= hi[n]

Apart(lo, hi, m, n) == hi[m] <= lo[n] \/ hi[n] <= lo[m]

Nested(L, lo, hi) ==
    \A m, n \in L :
        m # n => Under(lo, hi, m, n) \/ Under(lo, hi, n, m) \/ Apart(lo, hi, m, n)

\* No node is between a and b.
None(L, a, b) == \A m \in L : ~ (a < Hash[m] /\ Hash[m] < b)

Rooted(tree, L, lo, hi) ==
    IF tree.root = nil THEN L = {}
    ELSE /\ tree.root \in L /\ tree.parent[tree.root] = nil
         /\ lo[tree.root] = -1 /\ hi[tree.root] = HashBound + 1

\* Where the nodes on side s of n are.
From(lo, n, s) == IF s = "left" THEN lo[n] ELSE Hash[n]
To(hi, n, s)   == IF s = "left" THEN Hash[n] ELSE hi[n]

Fits(tree, L, lo, hi, n, s) ==
    LET c == tree[s][n]
    IN  IF c = nil THEN None(L, From(lo, n, s), To(hi, n, s))
        ELSE c \in L /\ tree.parent[c] = n /\ lo[c] = From(lo, n, s) /\ hi[c] = To(hi, n, s)

Hangs(tree, L) ==
    \A n \in L : n # tree.root =>
        tree.parent[n] \in L /\ tree[SideOf(tree, n)][tree.parent[n]] = n

\* What is not in the tree points nowhere; or into it, if it was just cut off.
Outside(tree, L, n) ==
    \A m \in Ids \ L, side \in Sides :
        tree[side][m] = nil \/ (m = n /\ tree[side][m] \in L)

Shape(tree, L, lo, hi) ==
    /\ Bounded(L, lo, hi)
    /\ Nested(L, lo, hi)
    /\ Rooted(tree, L, lo, hi)
    /\ \A n \in L, s \in Sides : Fits(tree, L, lo, hi, n, s)
    /\ Hangs(tree, L)

\* b[n] is the number of black nodes on any path from n down, where the child
\* of p on side s counts for one more than there are (nil: no child does).
Black(tree, n) == IF tree.color[n] = "BLACK" THEN 1 ELSE 0
Lacks(n, side, p, s) == IF n = p /\ side = s THEN 1 ELSE 0

Heights(tree, L, b, p, s) ==
    /\ b \in [Nodes -> Nat]
    /\ b[nil] = 1
    /\ \A n \in L, side \in Sides :
         /\ b[n] > 0
         /\ b[n] = b[tree[side][n]] + Lacks(n, side, p, s) + Black(tree, n)

\* A red node has a black parent, but for a red v and the children of a red u.
Reds(tree, L, u, v) ==
    /\ tree.color[nil] = "BLACK"
    /\ \A n \in L : tree.color[n] = "RED" =>
            tree.color[tree.parent[n]] = "BLACK" \/ tree.parent[n] = u \/ n = v

RootBlack(tree, u) == tree.root = u \/ tree.color[tree.root] = "BLACK"

\* Between calls, and as long as a call only reads the tree.
Whole(tree, L, b) ==
    Heights(tree, L, b, nil, "left") /\ Reds(tree, L, nil, nil) /\ RootBlack(tree, nil)

\* At the fixup of an insertion: the red n may have a red parent.
Inserted(tree, L, b, n) ==
    /\ Heights(tree, L, b, nil, "left")
    /\ n \in L /\ tree.color[n] = "RED"
    /\ Reds(tree, L, nil, n) /\ RootBlack(tree, n)

\* At the fixup of a deletion: the paths through n lack a black node.
Deleted(tree, L, b, n) ==
    /\ n \in L \cup {nil}
    /\ n # tree.root => /\ tree.parent[n] \in L
                        /\ tree[SideOf(tree, n)][tree.parent[n]] = n
    /\ Heights(tree, L, b, IF n = tree.root THEN nil ELSE tree.parent[n], SideOf(tree, n))
    /\ Reds(tree, L, n, n) /\ RootBlack(tree, n)

\* Where the loops are.
Inserting(L, lo, hi) ==
    /\ z \in Ids \ L
    /\ \/ y = nil /\ x = t.root
       \/ y \in L /\ lo[y] < Hash[z] /\ Hash[z] < hi[y] /\ x = t[Turn(z, y)][y]

Finding(L, lo, hi) ==
    /\ \E i \in L : value = Hash[i]
    /\ x \in L /\ lo[x] < value /\ value < hi[x]

Cutting(L) ==
    /\ z \in L /\ y = z
    /\ t.left[z] = nil \/ t.right[z] = nil

Leasting(L, lo, hi) ==
    /\ z \in L /\ y \in L
    /\ t.left[z] # nil /\ t.right[z] # nil
    /\ lo[y] = Hash[z] /\ hi[y] <= hi[z]

Past(L) == \A m \in L : Hash[m] <= value

Lowering(L, lo) ==
    /\ y \in L
    /\ (Past(L) /\ lo[y] = -1) \/ (~ Past(L) /\ lo[y] = value)

Recurring(L, lo, hi) ==
    /\ ~ Past(L)
    /\ y \in L
    /\ IF x = nil THEN value < Hash[y] /\ None(L, value, Hash[y])
       ELSE /\ x \in L /\ lo[x] < value /\ value < hi[x]
            /\ hi[x] = HashBound + 1 \/ hi[x] = Hash[y]

LookingBack(L) ==
    /\ ~ Past(L)
    /\ y \in L
    /\ \E i \in L : Hash[i] = value /\ t.right[i] = nil

IsNext(L, n) ==
    IF Past(L) THEN \A m \in L : Hash[n] <= Hash[m]
    ELSE value < Hash[n] /\ None(L, value, Hash[n])

Finished(L) ==
    /\ y \in L
    /\ IsNext(L, y) \/ LookingBack(L)

At(L, lo, hi, b) ==
    /\ pc = "insert" => Inserting(L, lo, hi)
    /\ pc = "find" => Finding(L, lo, hi)
    /\ pc = "cut" => Cutting(L)
    /\ pc = "least" => Leasting(L, lo, hi)
    /\ pc = "delete_fixup" => z \in Ids \ L
    /\ pc = "highest" => x \in L /\ hi[x] = HashBound + 1
    /\ pc = "lowest" => Lowering(L, lo)
    /\ pc = "succ" => Recurring(L, lo, hi)
    /\ pc = "look_back" => LookingBack(L)
    /\ pc = "found" => Finished(L)
    /\ pc \in {"highest", "lowest", "succ", "look_back", "found"} => value \in Nat

Colored(L, b) ==
    IF pc = "insert_fixup" THEN Inserted(t, L, b, z)
    ELSE IF pc = "delete_fixup" THEN Deleted(t, L, b, x)
    ELSE Whole(t, L, b)

Sized(L) ==
    t.size = Cardinality(L) + (IF pc = "insert" THEN 1 ELSE 0)
                            - (IF pc \in {"cut", "least"} THEN 1 ELSE 0)

Inv(L, lo, hi, b) ==
    /\ Shape(t, L, lo, hi) /\ Outside(t, L, IF pc = "delete_fixup" THEN z ELSE nil)
    /\ Sized(L) /\ Colored(L, b) /\ At(L, lo, hi, b)

IInv == TypeOK /\ \E L, lo, hi, b : Inv(L, lo, hi, b)

-----------------------------------------------------------------------------
(* The pointers after each operation, one by one. *)

\* What the constants are.
LEMMA Constants ==
    /\ nil \notin Ids /\ nil \in Nodes
    /\ Ids \subseteq Nodes
    /\ \A n \in Nodes : n # nil => n \in Ids
    /\ \A n \in Ids : Hash[n] \in Nat /\ Hash[n] <= HashBound /\ hv(n) = Hash[n]
    /\ HashBound \in Nat /\ Points \subseteq Nat
    /\ \A i, j \in Ids : Hash[i] = Hash[j] => i = j
    /\ \A side \in Sides : Other(side) \in Sides /\ Other(side) # side
                           /\ Other(Other(side)) = side
BY TreeAssumption DEF Nodes, hv, Sides, Other

\* The types of the fields.
LEMMA Typed ==
    ASSUME NEW tree \in Trees
    PROVE  /\ tree.root \in Nodes /\ tree.size \in Nat
           /\ \A side \in Sides, n \in Ids : tree[side][n] \in Nodes
           /\ \A n \in Ids : tree.left[n] \in Nodes /\ tree.right[n] \in Nodes
           /\ \A n \in Nodes : tree.parent[n] \in Nodes /\ tree.color[n] \in Colors
BY DEF Trees, Sides

\* Only colors are other than in tree.
Recolored(tree, T) ==
    /\ T \in Trees
    /\ T.root = tree.root /\ T.size = tree.size
    /\ T.left = tree.left /\ T.right = tree.right /\ T.parent = tree.parent
    /\ \A side \in Sides : T[side] = tree[side]

\* T is tree with n painted c.
Painted(tree, n, c, T) ==
    /\ Recolored(tree, T)
    /\ \A m \in Nodes : T.color[m] = IF m = n THEN c ELSE tree.color[m]

\* What one assignment of a color does.
LEMMA PaintFacts ==
    ASSUME NEW tree \in Trees, NEW n \in Nodes, NEW c \in Colors
    PROVE  Painted(tree, n, c, Paint(tree, n, c))
BY DEF Painted, Recolored, Paint, Trees, Sides

\* Two colors, one after the other.
LEMMA PaintTwice ==
    ASSUME NEW tree \in Trees, NEW n \in Nodes, NEW c \in Colors,
           NEW m \in Nodes, NEW d \in Colors
    PROVE  /\ Recolored(tree, Paint(Paint(tree, n, c), m, d))
           /\ \A k \in Nodes :
                Paint(Paint(tree, n, c), m, d).color[k] =
                  IF k = m THEN d ELSE IF k = n THEN c ELSE tree.color[k]
<1> DEFINE T1 == Paint(tree, n, c)
           T == Paint(T1, m, d)
<1>1. Painted(tree, n, c, T1)
    BY PaintFacts
<1> HIDE DEF T1
<1>2. T1 \in Trees
    BY <1>1 DEF Painted, Recolored
<1>3. Painted(T1, m, d, T)
    BY <1>2, PaintFacts
<1> HIDE DEF T
<1>4. Recolored(tree, T)
    BY <1>1, <1>3 DEF Painted, Recolored
<1>5. \A k \in Nodes : T.color[k] = IF k = m THEN d ELSE IF k = n THEN c ELSE tree.color[k]
    BY <1>1, <1>3 DEF Painted
<1> QED
    BY <1>4, <1>5 DEF T, T1

\* Three colors, one after the other.
LEMMA PaintThrice ==
    ASSUME NEW tree \in Trees, NEW n \in Nodes, NEW c \in Colors,
           NEW m \in Nodes, NEW d \in Colors, NEW o \in Nodes, NEW e \in Colors
    PROVE  /\ Recolored(tree, Paint(Paint(Paint(tree, n, c), m, d), o, e))
           /\ \A k \in Nodes :
                Paint(Paint(Paint(tree, n, c), m, d), o, e).color[k] =
                  IF k = o THEN e ELSE IF k = m THEN d ELSE IF k = n THEN c
                  ELSE tree.color[k]
<1> DEFINE T1 == Paint(Paint(tree, n, c), m, d)
           T == Paint(T1, o, e)
<1>1. /\ Recolored(tree, T1)
      /\ \A k \in Nodes : T1.color[k] = IF k = m THEN d ELSE IF k = n THEN c ELSE tree.color[k]
    BY PaintTwice
<1> HIDE DEF T1
<1>2. T1 \in Trees
    BY <1>1 DEF Recolored
<1>3. Painted(T1, o, e, T)
    BY <1>2, PaintFacts
<1> HIDE DEF T
<1>4. Recolored(tree, T)
    BY <1>1, <1>3 DEF Painted, Recolored
<1>5. \A k \in Nodes : T.color[k] = IF k = o THEN e ELSE IF k = m THEN d ELSE IF k = n THEN c
                                    ELSE tree.color[k]
    BY <1>1, <1>3 DEF Painted
<1> QED
    BY <1>4, <1>5 DEF T, T1

\* T is tree with v where u hung.
Transplanted(tree, u, v, T) ==
    /\ T \in Trees
    /\ T.root = IF tree.parent[u] = nil THEN v ELSE tree.root
    /\ T.size = tree.size /\ T.color = tree.color
    /\ \A side \in Sides, n \in Ids :
         T[side][n] = IF n = tree.parent[u] /\ side = SideOf(tree, u)
                      THEN v ELSE tree[side][n]
    /\ \A n \in Nodes :
         T.parent[n] = IF n = v THEN tree.parent[u] ELSE tree.parent[n]

\* rbt_transplant, pointer by pointer.
LEMMA TransplantFacts ==
    ASSUME NEW tree \in Trees, NEW u \in Ids, NEW v \in Nodes
    PROVE  Transplanted(tree, u, v, rbt_transplant(tree, u, v))
<1> DEFINE T == rbt_transplant(tree, u, v)
           p == tree.parent[u]
           hung == IF p = nil THEN [tree EXCEPT !.root = v]
                   ELSE IF u = tree.left[p] THEN [tree EXCEPT !.left[p] = v]
                   ELSE [tree EXCEPT !.right[p] = v]
<1>1. p \in Nodes /\ (p # nil => p \in Ids)
    BY Constants, Typed
<1>2. T = [hung EXCEPT !.parent[v] = p]
    BY DEF rbt_transplant
<1> HIDE DEF p, T
<1>3. /\ hung \in Trees
      /\ hung.root = IF p = nil THEN v ELSE tree.root
      /\ hung.size = tree.size /\ hung.color = tree.color /\ hung.parent = tree.parent
    BY <1>1 DEF Trees
<1>4. /\ \A n \in Ids : hung.left[n] = IF n = p /\ u = tree.left[p] THEN v ELSE tree.left[n]
      /\ \A n \in Ids : hung.right[n] = IF n = p /\ u # tree.left[p] THEN v ELSE tree.right[n]
    BY <1>1, Constants DEF Trees
<1> HIDE DEF hung
<1>5. /\ T \in Trees
      /\ T.root = hung.root /\ T.size = hung.size /\ T.color = hung.color
      /\ T.left = hung.left /\ T.right = hung.right
      /\ \A n \in Nodes : T.parent[n] = IF n = v THEN p ELSE hung.parent[n]
    BY <1>1, <1>2, <1>3 DEF Trees
<1>6. \A side \in Sides, n \in Ids :
         T[side][n] = IF n = p /\ side = SideOf(tree, u) THEN v ELSE tree[side][n]
    BY <1>4, <1>5 DEF Sides, SideOf, p
<1> QED
    BY <1>3, <1>5, <1>6 DEF p, T, Transplanted

\* A child and a parent are assigned.
Assign(tree, side, a, b, c, d) == [tree EXCEPT ![side][a] = b, !.parent[c] = d]

Assigned(tree, side, a, b, c, d, T) ==
    /\ T \in Trees
    /\ T.root = tree.root /\ T.size = tree.size /\ T.color = tree.color
    /\ \A s \in Sides, n \in Ids :
         T[s][n] = IF n = a /\ s = side THEN b ELSE tree[s][n]
    /\ \A n \in Nodes : T.parent[n] = IF n = c THEN d ELSE tree.parent[n]

\* Assign, pointer by pointer.
LEMMA AssignFacts ==
    ASSUME NEW tree \in Trees, NEW side \in Sides, NEW a \in Ids, NEW b \in Nodes,
           NEW c \in Nodes, NEW d \in Nodes
    PROVE  Assigned(tree, side, a, b, c, d, Assign(tree, side, a, b, c, d))
<1>1. CASE side = "left"
    BY <1>1 DEF Trees, Sides, Assign, Assigned
<1>2. CASE side = "right"
    BY <1>2 DEF Trees, Sides, Assign, Assigned
<1> QED
    BY <1>1, <1>2 DEF Sides

\* The pointers of T are those of tree with v, the child of u on the other
\* side, rotated above u.
Turned(tree, side, u, v, T) ==
    /\ T \in Trees
    /\ T.root = IF tree.parent[u] = nil THEN v ELSE tree.root
    /\ T.size = tree.size
    /\ T[Other(side)][u] = tree[side][v]
    /\ T[side][u] = tree[side][u]
    /\ T[side][v] = u
    /\ T[Other(side)][v] = tree[Other(side)][v]
    /\ \A s \in Sides, n \in Ids \ {u, v} :
         T[s][n] = IF n = tree.parent[u] /\ s = SideOf(tree, u)
                   THEN v ELSE tree[s][n]
    /\ \A n \in Nodes :
         T.parent[n] = IF n = u THEN v
                       ELSE IF n = v THEN tree.parent[u]
                       ELSE IF n = tree[side][v] /\ n # nil THEN u
                       ELSE tree.parent[n]

Rotated(tree, side, u, v, T) ==
    Turned(tree, side, u, v, T) /\ T.color = tree.color

\* Rotate, pointer by pointer.
LEMMA RotateFacts ==
    ASSUME NEW tree \in Trees, NEW side \in Sides, NEW u \in Ids, NEW v \in Ids,
           v = tree[Other(side)][u],
           v # u, tree.parent[u] \notin {u, v}, tree[side][v] \notin {u, v}
    PROVE  Rotated(tree, side, u, v, Rotate(tree, side, u))
<1> DEFINE T == Rotate(tree, side, u)
           far == Other(side)
           inner == tree[side][v]
           q == IF inner # nil THEN u ELSE tree.parent[inner]
           moved == Assign(tree, far, u, inner, inner, q)
           hung == rbt_transplant(moved, u, v)
<1>1. inner \in Nodes /\ q \in Nodes /\ far \in Sides /\ far # side /\ tree.parent[u] \in Nodes
    BY Constants, Typed
<1>2. moved = [tree EXCEPT ![far][u] = inner,
                           !.parent = IF inner # nil
                                      THEN [@ EXCEPT ![inner] = u] ELSE @]
    <2>1. CASE side = "left"
        BY <1>1, <2>1 DEF Trees, Other, Assign
    <2>2. CASE side = "right"
        BY <1>1, <2>2 DEF Trees, Other, Assign
    <2> QED
        BY <2>1, <2>2 DEF Sides
<1>3. T = Assign(hung, side, v, u, u, v)
    BY <1>2 DEF Rotate, Assign
<1> HIDE DEF q, far, inner
<1>4. Assigned(tree, far, u, inner, inner, q, moved)
    BY <1>1, AssignFacts
<1> HIDE DEF moved
<1>5. /\ moved.parent[u] = tree.parent[u]
      /\ tree.parent[u] # nil => SideOf(moved, u) = SideOf(tree, u)
    BY <1>1, <1>4, Constants DEF SideOf, Sides, Assigned, inner
<1>6. Transplanted(moved, u, v, hung)
    BY <1>4, TransplantFacts, Constants DEF Assigned
<1> HIDE DEF hung
<1>7. Assigned(hung, side, v, u, u, v, T)
    <2>1. hung \in Trees
        BY <1>6 DEF Transplanted
    <2> QED
        BY <1>3, <2>1, AssignFacts, Constants
<1> HIDE DEF T
<1>8. \A s \in Sides, n \in Ids :
         T[s][n] = IF n = v /\ s = side THEN u
                   ELSE IF n = tree.parent[u] /\ s = SideOf(tree, u) THEN v
                   ELSE IF n = u /\ s = far THEN inner
                   ELSE tree[s][n]
    BY <1>4, <1>5, <1>6, <1>7, Constants DEF Assigned, Transplanted
<1>9. \A n \in Nodes :
         T.parent[n] = IF n = u THEN v
                       ELSE IF n = v THEN tree.parent[u]
                       ELSE IF n = inner /\ inner # nil THEN u
                       ELSE tree.parent[n]
    BY <1>1, <1>4, <1>5, <1>6, <1>7 DEF Assigned, Transplanted, q, inner
<1>10. /\ T \in Trees
       /\ T.root = IF tree.parent[u] = nil THEN v ELSE tree.root
       /\ T.size = tree.size /\ T.color = tree.color
    BY <1>4, <1>5, <1>6, <1>7 DEF Assigned, Transplanted
<1> QED
    BY <1>1, <1>8, <1>9, <1>10 DEF Rotated, Turned, far, inner, T

-----------------------------------------------------------------------------
(* What the shape of a tree says of its pointers. *)

Knit(tree, L) ==
    /\ L \subseteq Ids
    /\ tree.root \in L \cup {nil}
    /\ tree.root \in L => tree.parent[tree.root] = nil
    /\ \A n \in L : tree.parent[n] = nil => n = tree.root
    /\ \A n \in L, s \in Sides :
         /\ tree[s][n] \in L \cup {nil}
         /\ tree[s][n] # nil =>
              /\ tree.parent[tree[s][n]] = n
              /\ SideOf(tree, tree[s][n]) = s
              /\ tree[s][n] # n /\ tree[s][n] # tree.root
              /\ tree[s][n] # tree.parent[n]
              /\ tree[s][n] # tree[Other(s)][n]
    /\ \A n \in L : n # tree.root =>
         /\ tree.parent[n] \in L
         /\ tree[SideOf(tree, n)][tree.parent[n]] = n

\* SideOf is a side.
LEMMA SideOfSides ==
    \A tree, n : SideOf(tree, n) \in Sides
BY DEF SideOf, Sides

\* The types of the bounds.
LEMMA Bounds ==
    ASSUME NEW L, NEW lo, NEW hi, Bounded(L, lo, hi), NEW n \in L
    PROVE  /\ n \in Ids /\ n \in Nodes /\ n # nil
           /\ Hash[n] \in Int /\ lo[n] \in Int /\ hi[n] \in Int
           /\ -1 <= lo[n] /\ lo[n] < Hash[n] /\ Hash[n] < hi[n]
           /\ hi[n] <= HashBound + 1 /\ HashBound \in Nat
BY Constants DEF Bounded

\* Where the child of n on side s is, in terms of the bounds.
LEMMA ChildBounds ==
    ASSUME NEW tree \in Trees, NEW L, NEW lo, NEW hi, Shape(tree, L, lo, hi),
           NEW n \in L, NEW s \in Sides, tree[s][n] # nil
    PROVE  LET c == tree[s][n]
           IN  /\ c \in L /\ tree.parent[c] = n
               /\ lo[c] = From(lo, n, s) /\ hi[c] = To(hi, n, s)
               /\ hi[c] - lo[c] < hi[n] - lo[n]
<1>1. LET c == tree[s][n]
      IN  /\ c \in L /\ tree.parent[c] = n
          /\ lo[c] = From(lo, n, s) /\ hi[c] = To(hi, n, s)
    BY DEF Shape, Fits
<1> QED
    BY <1>1, Bounds DEF Sides, Shape, From, To

\* The shape of a tree knits it.
LEMMA ShapeKnit ==
    ASSUME NEW tree \in Trees, NEW L, NEW lo, NEW hi, Shape(tree, L, lo, hi)
    PROVE  Knit(tree, L)
<1>1. /\ L \subseteq Ids /\ nil \notin L
      /\ tree.root \in L \cup {nil}
      /\ tree.root \in L => tree.parent[tree.root] = nil
      /\ \A n \in L : n # tree.root =>
            tree.parent[n] \in L /\ tree[SideOf(tree, n)][tree.parent[n]] = n
    BY Constants DEF Shape, Bounded, Rooted, Hangs
<1>2. ASSUME NEW n \in L, NEW s \in Sides, tree[s][n] # nil
      PROVE  /\ tree[s][n] \in L
             /\ tree.parent[tree[s][n]] = n
             /\ tree[s][n] # n /\ tree[s][n] # tree.root
             /\ tree[s][n] # tree[Other(s)][n]
             /\ tree[s][n] # tree.parent[n]
             /\ SideOf(tree, tree[s][n]) = s
    <2> DEFINE c == tree[s][n]
    <2>1. c \in L /\ tree.parent[c] = n /\ hi[c] - lo[c] < hi[n] - lo[n]
        BY <1>2, ChildBounds
    <2>2. /\ n \in L /\ n # nil
          /\ lo[n] \in Int /\ hi[n] \in Int /\ lo[c] \in Int /\ hi[c] \in Int
        BY <2>1, Bounds, <1>2 DEF Shape
    <2>3. c # n
        BY <2>1, <2>2
    <2>4. c # tree.root
        BY <1>1, <2>1, <2>2
    <2>5. c # tree[Other(s)][n]
        <3>1. Other(s) \in Sides /\ (s = "left" => Other(s) = "right")
              /\ (s = "right" => Other(s) = "left")
            BY DEF Sides, Other
        <3>2. SUFFICES ASSUME c = tree[Other(s)][n]  PROVE FALSE
            OBVIOUS
        <3>3. Hash[n] = lo[c] \/ Hash[n] = hi[c]
            BY <1>2, ChildBounds DEF Sides, From, To
        <3>4. Hash[n] = lo[c] /\ Hash[n] = hi[c]
            BY <1>2, <3>1, <3>2, ChildBounds DEF Sides, From, To
        <3>5. lo[c] < hi[c] /\ lo[c] = hi[c]
            <4>1. lo[c] < Hash[c] /\ Hash[c] < hi[c] /\ Hash[c] \in Int
                BY <2>1, Bounds DEF Shape
            <4> QED  BY <3>4, <4>1, <2>2
        <3> QED
            BY <3>5, <2>2
    <2>6. c # tree.parent[n]
        <3>1. SUFFICES ASSUME c = tree.parent[n]  PROVE FALSE
            OBVIOUS
        <3>2. n # tree.root
            BY <3>1, <1>1, <2>1
        <3>3. tree[SideOf(tree, n)][c] = n
            BY <1>1, <3>1, <3>2, <1>2
        <3>4. hi[n] - lo[n] < hi[c] - lo[c]
            BY <3>3, <2>1, <2>2, SideOfSides, ChildBounds
        <3> QED
            BY <3>4, <2>1, <2>2
    <2>7. SideOf(tree, c) = s
        <3>1. CASE s = "left"
            BY <3>1, <2>1 DEF SideOf
        <3>2. CASE s = "right"
            BY <3>2, <2>1, <2>5 DEF SideOf, Other
        <3> QED
            BY <3>1, <3>2 DEF Sides
    <2> QED
        BY <2>1, <2>3, <2>4, <2>5, <2>6, <2>7
<1> QED
    BY <1>1, <1>2 DEF Knit

-----------------------------------------------------------------------------
(* A rotation keeps the shape. *)

RotateLo(side, lo, u, v) ==
    IF side = "left" THEN [lo EXCEPT ![v] = lo[u]] ELSE [lo EXCEPT ![u] = Hash[v]]

RotateHi(side, hi, u, v) ==
    IF side = "left" THEN [hi EXCEPT ![u] = Hash[v]] ELSE [hi EXCEPT ![v] = hi[u]]

\* A rotation nests the intervals of the two nodes the other way round.
LEMMA RotateNested ==
    ASSUME NEW L, NEW lo, NEW hi, Bounded(L, lo, hi), Nested(L, lo, hi),
           NEW side \in Sides, NEW u \in L, NEW v \in L, u # v,
           side = "left" => lo[v] = Hash[u] /\ hi[v] = hi[u],
           side = "right" => lo[v] = lo[u] /\ hi[v] = Hash[u]
    PROVE  /\ Bounded(L, RotateLo(side, lo, u, v), RotateHi(side, hi, u, v))
           /\ Nested(L, RotateLo(side, lo, u, v), RotateHi(side, hi, u, v))
<1> DEFINE lo2 == RotateLo(side, lo, u, v)
           hi2 == RotateHi(side, hi, u, v)
<1>1. /\ lo \in [Ids -> Int] /\ hi \in [Ids -> Int] /\ L \subseteq Ids
      /\ u \in Ids /\ v \in Ids /\ Hash[v] \in Int
    BY Bounds DEF Bounded
<1>2. /\ lo2 \in [Ids -> Int] /\ hi2 \in [Ids -> Int]
      /\ \A n \in Ids \ {u, v} : lo2[n] = lo[n] /\ hi2[n] = hi[n]
      /\ side = "left" => /\ lo2[v] = lo[u] /\ hi2[v] = hi[u]
                          /\ lo2[u] = lo[u] /\ hi2[u] = Hash[v]
      /\ side = "right" => /\ lo2[v] = lo[u] /\ hi2[v] = hi[u]
                           /\ lo2[u] = Hash[v] /\ hi2[u] = hi[u]
    BY <1>1 DEF RotateLo, RotateHi, Sides
<1> HIDE DEF lo2, hi2
<1>3. \A n \in L : lo[n] < Hash[n] /\ Hash[n] < hi[n] /\ -1 <= lo[n] /\ hi[n] <= HashBound + 1
                   /\ lo[n] \in Int /\ hi[n] \in Int /\ Hash[n] \in Int
    BY Bounds
<1>4. Bounded(L, lo2, hi2)
    <2>1. ASSUME NEW n \in L
          PROVE  -1 <= lo2[n] /\ lo2[n] < Hash[n] /\ Hash[n] < hi2[n] /\ hi2[n] <= HashBound + 1
        BY <1>1, <1>2, <1>3, Constants DEF Sides
    <2> QED
        BY <1>1, <1>2, <2>1 DEF Bounded
<1>5. ASSUME NEW m \in L \ {u, v}
      PROVE  /\ Under(lo2, hi2, m, u) \/ Under(lo2, hi2, u, m) \/ Apart(lo2, hi2, m, u)
             /\ Under(lo2, hi2, m, v) \/ Under(lo2, hi2, v, m) \/ Apart(lo2, hi2, m, v)
             /\ Under(lo2, hi2, u, m) \/ Under(lo2, hi2, m, u) \/ Apart(lo2, hi2, u, m)
             /\ Under(lo2, hi2, v, m) \/ Under(lo2, hi2, m, v) \/ Apart(lo2, hi2, v, m)
    <2>1. lo2[m] = lo[m] /\ hi2[m] = hi[m]
        BY <1>1, <1>2
    <2>2. /\ Under(lo, hi, m, u) \/ Under(lo, hi, u, m) \/ Apart(lo, hi, m, u)
          /\ Under(lo, hi, m, v) \/ Under(lo, hi, v, m) \/ Apart(lo, hi, m, v)
        BY DEF Nested
    <2>3. /\ lo[m] < Hash[m] /\ Hash[m] < hi[m] /\ lo[u] < Hash[u] /\ Hash[u] < hi[u]
          /\ lo[v] < Hash[v] /\ Hash[v] < hi[v]
          /\ lo[m] \in Int /\ hi[m] \in Int /\ Hash[m] \in Int
          /\ lo[u] \in Int /\ hi[u] \in Int /\ Hash[u] \in Int
          /\ lo[v] \in Int /\ hi[v] \in Int /\ Hash[v] \in Int
        BY <1>3
    <2>4. CASE side = "left"
        <3>1. /\ lo2[v] = lo[u] /\ hi2[v] = hi[u] /\ lo2[u] = lo[u] /\ hi2[u] = Hash[v]
              /\ lo[v] = Hash[u] /\ hi[v] = hi[u]
            BY <2>4, <1>2
        <3> QED
            BY <3>1, <2>1, <2>2, <2>3, SMTT(30) DEF Under, Apart
    <2>5. CASE side = "right"
        <3>1. /\ lo2[v] = lo[u] /\ hi2[v] = hi[u] /\ lo2[u] = Hash[v] /\ hi2[u] = hi[u]
              /\ lo[v] = lo[u] /\ hi[v] = Hash[u]
            BY <2>5, <1>2
        <3> QED
            BY <3>1, <2>1, <2>2, <2>3, SMTT(30) DEF Under, Apart
    <2> QED
        BY <2>4, <2>5 DEF Sides
<1>6. Under(lo2, hi2, u, v)
    <2>1. lo[u] \in Int /\ hi[u] \in Int /\ Hash[v] \in Int
        BY <1>3
    <2> QED
        BY <1>2, <2>1 DEF Under, Sides
<1>7. Nested(L, lo2, hi2)
    <2> SUFFICES ASSUME NEW m \in L, NEW n \in L, m # n
                 PROVE  Under(lo2, hi2, m, n) \/ Under(lo2, hi2, n, m) \/ Apart(lo2, hi2, m, n)
        BY DEF Nested
    <2>1. CASE m \notin {u, v} /\ n \notin {u, v}
        <3>1. lo2[m] = lo[m] /\ hi2[m] = hi[m] /\ lo2[n] = lo[n] /\ hi2[n] = hi[n]
            BY <2>1, <1>1, <1>2
        <3>2. Under(lo, hi, m, n) \/ Under(lo, hi, n, m) \/ Apart(lo, hi, m, n)
            BY DEF Nested
        <3> QED
            BY <3>1, <3>2 DEF Under, Apart
    <2>2. CASE m \in {u, v} /\ n \in {u, v}
        BY <2>2, <1>6
    <2>3. CASE m \notin {u, v} /\ n \in {u, v}
        BY <2>3, <1>5
    <2>4. CASE m \in {u, v} /\ n \notin {u, v}
        BY <2>4, <1>5
    <2> QED
        BY <2>1, <2>2, <2>3, <2>4
<1> QED
    BY <1>4, <1>7 DEF lo2, hi2

\* A node that is the child of its parent hangs from it.
LEMMA HangsFrom ==
    ASSUME NEW tree, NEW L \in SUBSET Ids, NEW lo, NEW hi,
           \A n \in L, s \in Sides : Fits(tree, L, lo, hi, n, s),
           \A n \in L : n # tree.root => \E m \in L, s \in Sides : tree[s][m] = n
    PROVE  Hangs(tree, L)
<1> SUFFICES ASSUME NEW n \in L, n # tree.root
             PROVE  tree.parent[n] \in L /\ tree[SideOf(tree, n)][tree.parent[n]] = n
    BY DEF Hangs
<1>1. PICK m \in L, s \in Sides : tree[s][m] = n
    OBVIOUS
<1>2. tree.parent[n] = m
    BY <1>1, Constants DEF Fits
<1>3. tree.left[m] = n \/ tree.right[m] = n
    BY <1>1 DEF Sides
<1> QED
    BY <1>2, <1>3 DEF SideOf

\* A rotation keeps the shape, with new intervals for the two nodes it turns.
LEMMA RotateShape ==
    ASSUME NEW tree \in Trees, NEW L, NEW lo, NEW hi, Shape(tree, L, lo, hi),
           NEW side \in Sides, NEW u \in L, NEW v, v = tree[Other(side)][u], v # nil
    PROVE  /\ Shape(Rotate(tree, side, u), L, RotateLo(side, lo, u, v), RotateHi(side, hi, u, v))
           /\ \A e : Outside(tree, L, e) => Outside(Rotate(tree, side, u), L, e)
           /\ Rotated(tree, side, u, v, Rotate(tree, side, u))
<1> DEFINE T == Rotate(tree, side, u)
           far == Other(side)
           inner == tree[side][v]
           lo2 == RotateLo(side, lo, u, v)
           hi2 == RotateHi(side, hi, u, v)
<1>1. /\ Knit(tree, L) /\ far \in Sides /\ far # side /\ Other(far) = side
      /\ L \subseteq Ids /\ nil \notin L
    BY ShapeKnit, Constants DEF Knit
<1>2. /\ v \in L /\ v # u /\ tree.parent[v] = u /\ v # tree.parent[u] /\ v # tree.root
      /\ u # tree.parent[u] /\ tree[side][u] # v
      /\ inner \notin {u, v} /\ inner \in L \cup {nil}
      /\ inner # nil => tree.parent[inner] = v
      /\ lo[v] = From(lo, u, far) /\ hi[v] = To(hi, u, far)
    <2>1. v \in L /\ tree.parent[v] = u /\ v # u /\ v # tree.parent[u] /\ v # tree.root
        BY <1>1 DEF Knit
    <2>2. u # tree.parent[u]
        BY <1>1, SideOfSides DEF Knit
    <2>3. inner \notin {u, v} /\ inner \in L \cup {nil} /\ (inner # nil => tree.parent[inner] = v)
        BY <1>1, <2>1 DEF Knit
    <2>4. tree[side][u] # v
        BY <1>1, <2>1 DEF Knit
    <2>5. lo[v] = From(lo, u, far) /\ hi[v] = To(hi, u, far)
        BY <1>1, ChildBounds
    <2> QED
        BY <2>1, <2>2, <2>3, <2>4, <2>5
<1>3. Rotated(tree, side, u, v, T)
    BY <1>1, <1>2, RotateFacts
<1> HIDE DEF T
<1>4. /\ side = "left" => lo[v] = Hash[u] /\ hi[v] = hi[u]
      /\ side = "right" => lo[v] = lo[u] /\ hi[v] = Hash[u]
    BY <1>2 DEF From, To, Sides, Other
<1>5. Bounded(L, lo2, hi2) /\ Nested(L, lo2, hi2)
    BY <1>2, <1>4, RotateNested DEF Shape
<1>6. /\ \A n \in L \ {u, v} : lo2[n] = lo[n] /\ hi2[n] = hi[n]
      /\ lo2[v] = lo[u] /\ hi2[v] = hi[u]
      /\ lo2[u] = From(lo2, v, side) /\ hi2[u] = To(hi2, v, side)
      /\ From(lo2, u, side) = From(lo, u, side) /\ To(hi2, u, side) = To(hi, u, side)
      /\ From(lo2, u, far) = From(lo, v, side) /\ To(hi2, u, far) = To(hi, v, side)
      /\ From(lo2, v, far) = From(lo, v, far) /\ To(hi2, v, far) = To(hi, v, far)
    <2>1. /\ lo \in [Ids -> Int] /\ hi \in [Ids -> Int] /\ u \in Ids /\ v \in Ids
        BY <1>1, <1>2 DEF Shape, Bounded
    <2>2. CASE side = "left"
        BY <1>1, <1>2, <1>4, <2>1, <2>2 DEF RotateLo, RotateHi, From, To, Other
    <2>3. CASE side = "right"
        BY <1>1, <1>2, <1>4, <2>1, <2>3 DEF RotateLo, RotateHi, From, To, Other
    <2> QED
        BY <2>2, <2>3 DEF Sides
<1> HIDE DEF lo2, hi2
<1>7. Rooted(T, L, lo2, hi2)
    <2>1. tree.root \in L /\ tree.parent[tree.root] = nil
          /\ lo[tree.root] = -1 /\ hi[tree.root] = HashBound + 1
        BY <1>1 DEF Shape, Rooted
    <2>2. CASE tree.parent[u] = nil
        <3>1. u = tree.root /\ T.root = v /\ T.parent[v] = nil
            BY <1>1, <1>2, <1>3, <2>2, Constants DEF Knit, Rotated, Turned
        <3> QED
            BY <1>1, <1>2, <1>6, <2>1, <3>1 DEF Rooted
    <2>3. CASE tree.parent[u] # nil
        <3>1. tree.root # u /\ T.root = tree.root
            BY <1>3, <2>1, <2>3 DEF Rotated, Turned
        <3>2. inner # tree.root
            BY <1>1, <1>2, <2>1 DEF Knit
        <3>3. T.parent[tree.root] = tree.parent[tree.root]
            BY <1>1, <1>2, <1>3, <2>1, <3>1, <3>2, Constants DEF Rotated, Turned
        <3> QED
            BY <1>1, <1>2, <1>6, <2>1, <3>1, <3>3 DEF Rooted
    <2> QED
        BY <2>2, <2>3
<1>8. ASSUME NEW n \in L, NEW s \in Sides  PROVE Fits(T, L, lo2, hi2, n, s)
    <2>1. CASE n = u /\ s = side
        <3>1. T[s][n] = tree[s][n] /\ From(lo2, n, s) = From(lo, n, s) /\ To(hi2, n, s) = To(hi, n, s)
            BY <2>1, <1>3, <1>6 DEF Rotated, Turned
        <3>2. Fits(tree, L, lo, hi, n, s)
            BY DEF Shape
        <3>3. CASE tree[s][n] = nil
            BY <3>1, <3>2, <3>3 DEF Fits
        <3>4. CASE tree[s][n] # nil
            <4> DEFINE c == tree[s][n]
            <4>1. c \in L /\ tree.parent[c] = n /\ lo[c] = From(lo, n, s) /\ hi[c] = To(hi, n, s)
                BY <3>2, <3>4 DEF Fits
            <4>2. c \notin {u, v} /\ c # inner
                BY <1>1, <1>2, <2>1, <3>4, <4>1 DEF Knit
            <4>3. T.parent[c] = tree.parent[c]
                BY <1>1, <1>3, <4>1, <4>2, Constants DEF Rotated, Turned
            <4> QED
                BY <3>1, <3>4, <4>1, <4>2, <4>3, <1>6 DEF Fits
        <3> QED
            BY <3>3, <3>4
    <2>2. CASE n = u /\ s = far
        <3>1. T[s][n] = inner /\ From(lo2, n, s) = From(lo, v, side) /\ To(hi2, n, s) = To(hi, v, side)
            BY <2>2, <1>3, <1>6 DEF Rotated, Turned
        <3>2. Fits(tree, L, lo, hi, v, side)
            BY <1>2 DEF Shape
        <3>3. CASE inner = nil
            BY <3>1, <3>2, <3>3 DEF Fits
        <3>4. CASE inner # nil
            <4>1. inner \in L /\ lo[inner] = From(lo, v, side) /\ hi[inner] = To(hi, v, side)
                BY <3>2, <3>4 DEF Fits
            <4>2. T.parent[inner] = u
                BY <1>1, <1>2, <1>3, <3>4, <4>1, Constants DEF Rotated, Turned
            <4> QED
                BY <1>2, <1>6, <2>2, <3>1, <4>1, <4>2, <3>4 DEF Fits
        <3> QED
            BY <3>3, <3>4
    <2>3. CASE n = v /\ s = side
        <3>1. T[s][n] = u /\ T.parent[u] = v
            BY <1>1, <1>2, <1>3, <2>3, Constants DEF Rotated, Turned
        <3> QED
            BY <2>3, <3>1, <1>1, <1>6 DEF Fits
    <2>4. CASE n = v /\ s = far
        <3>1. T[s][n] = tree[s][n] /\ From(lo2, n, s) = From(lo, n, s) /\ To(hi2, n, s) = To(hi, n, s)
            BY <2>4, <1>3, <1>6 DEF Rotated, Turned
        <3>2. Fits(tree, L, lo, hi, n, s)
            BY DEF Shape
        <3>3. CASE tree[s][n] = nil
            BY <3>1, <3>2, <3>3 DEF Fits
        <3>4. CASE tree[s][n] # nil
            <4> DEFINE c == tree[s][n]
            <4>1. c \in L /\ tree.parent[c] = n /\ lo[c] = From(lo, n, s) /\ hi[c] = To(hi, n, s)
                BY <3>2, <3>4 DEF Fits
            <4>2. c \notin {u, v} /\ c # inner
                BY <1>1, <1>2, <2>4, <3>4, <4>1 DEF Knit
            <4>3. T.parent[c] = tree.parent[c]
                BY <1>1, <1>3, <4>1, <4>2, Constants DEF Rotated, Turned
            <4> QED
                BY <3>1, <3>4, <4>1, <4>2, <4>3, <1>6 DEF Fits
        <3> QED
            BY <3>3, <3>4
    <2>5. CASE n \notin {u, v} /\ n = tree.parent[u] /\ s = SideOf(tree, u)
        <3>1. T[s][n] = v /\ T.parent[v] = n
            BY <1>1, <1>2, <1>3, <2>5, Constants DEF Rotated, Turned
        <3>2. u # tree.root /\ tree[s][n] = u
            BY <1>1, <2>5 DEF Knit
        <3>3. lo[u] = From(lo, n, s) /\ hi[u] = To(hi, n, s)
            BY <1>1, <3>2, ChildBounds
        <3>4. From(lo2, n, s) = From(lo, n, s) /\ To(hi2, n, s) = To(hi, n, s)
            BY <1>6, <2>5 DEF From, To
        <3> QED
            BY <1>1, <1>2, <1>6, <3>1, <3>3, <3>4 DEF Fits
    <2>6. CASE n \notin {u, v} /\ ~ (n = tree.parent[u] /\ s = SideOf(tree, u))
        <3>1. T[s][n] = tree[s][n]
            BY <1>1, <1>3, <2>6 DEF Rotated, Turned
        <3>2. From(lo2, n, s) = From(lo, n, s) /\ To(hi2, n, s) = To(hi, n, s)
            BY <1>6, <2>6 DEF From, To
        <3>3. Fits(tree, L, lo, hi, n, s)
            BY DEF Shape
        <3>4. CASE tree[s][n] = nil
            BY <3>1, <3>2, <3>3, <3>4 DEF Fits
        <3>5. CASE tree[s][n] # nil
            <4> DEFINE c == tree[s][n]
            <4>1. c \in L /\ tree.parent[c] = n /\ lo[c] = From(lo, n, s) /\ hi[c] = To(hi, n, s)
                BY <3>3, <3>5 DEF Fits
            <4>2. c # u
                BY <1>1, <2>6, <3>5 DEF Knit
            <4>3. c # v /\ c # inner
                BY <1>2, <2>6, <3>5, <4>1
            <4>4. T.parent[c] = tree.parent[c]
                BY <1>1, <1>3, <4>1, <4>2, <4>3, Constants DEF Rotated, Turned
            <4> QED
                BY <3>1, <3>2, <3>5, <4>1, <4>2, <4>3, <4>4, <1>6 DEF Fits
        <3> QED
            BY <3>4, <3>5
    <2> QED
        BY <1>1, <2>1, <2>2, <2>3, <2>4, <2>5, <2>6 DEF Sides
<1>9. Hangs(T, L)
    <2>1. ASSUME NEW n \in L, n # T.root  PROVE \E m \in L, s \in Sides : T[s][m] = n
        <3>1. CASE n = u
            BY <1>2, <1>3, <3>1 DEF Rotated, Turned
        <3>2. CASE n = v
            <4>1. tree.parent[u] # nil
                BY <1>3, <2>1, <3>2 DEF Rotated, Turned
            <4>2. u # tree.root
                BY <1>1, <4>1 DEF Knit
            <4>3. tree.parent[u] \in L /\ tree.parent[u] \notin {u, v}
                BY <1>1, <1>2, <4>2 DEF Knit
            <4>4. T[SideOf(tree, u)][tree.parent[u]] = v
                BY <1>1, <1>3, <4>3, SideOfSides DEF Rotated, Turned
            <4> QED
                BY <3>2, <4>3, <4>4, SideOfSides
        <3>3. CASE n \notin {u, v}
            <4>1. n # tree.root
                <5>1. SUFFICES ASSUME n = tree.root  PROVE FALSE
                    OBVIOUS
                <5>2. tree.parent[u] = nil
                    BY <1>3, <2>1, <5>1 DEF Rotated, Turned
                <5> QED
                    BY <1>1, <5>1, <5>2, <3>3 DEF Knit
            <4> DEFINE m == tree.parent[n]
                       s == SideOf(tree, n)
            <4>2. m \in L /\ s \in Sides /\ tree[s][m] = n
                BY <1>1, <4>1, SideOfSides DEF Knit
            <4>3. CASE n = inner
                BY <1>1, <1>3, <4>3 DEF Rotated, Turned
            <4>4. CASE n # inner /\ m \notin {u, v}
                <5>1. ~ (m = tree.parent[u] /\ s = SideOf(tree, u))
                    <6>1. SUFFICES ASSUME m = tree.parent[u], s = SideOf(tree, u)  PROVE FALSE
                        OBVIOUS
                    <6>2. u # tree.root
                        BY <1>1, <4>2, <6>1 DEF Knit
                    <6>3. tree[s][m] = u
                        BY <1>1, <6>1, <6>2 DEF Knit
                    <6> QED
                        BY <3>3, <4>2, <6>3
                <5>2. T[s][m] = n
                    BY <1>1, <1>3, <4>2, <4>4, <5>1 DEF Rotated, Turned
                <5> QED
                    BY <4>2, <5>2
            <4>5. CASE n # inner /\ m = u
                <5>1. s = side
                    BY <1>1, <3>3, <4>2, <4>5 DEF Sides
                <5> QED
                    BY <1>3, <4>2, <4>5, <5>1 DEF Rotated, Turned
            <4>6. CASE n # inner /\ m = v
                <5>1. s = far
                    BY <1>1, <3>3, <4>2, <4>6 DEF Sides
                <5> QED
                    BY <1>3, <4>2, <4>6, <5>1 DEF Rotated, Turned
            <4> QED
                BY <4>3, <4>4, <4>5, <4>6
        <3> QED
            BY <3>1, <3>2, <3>3
    <2> QED
        BY <1>1, <1>8, <2>1, HangsFrom
<1>10. \A e : Outside(tree, L, e) => Outside(T, L, e)
    <2> SUFFICES ASSUME NEW n \in Ids \ L, NEW s \in Sides  PROVE T[s][n] = tree[s][n]
        BY DEF Outside
    <2>1. n \notin {u, v} /\ n # tree.parent[u]
        BY <1>1, <1>2, Constants DEF Knit
    <2> QED
        BY <1>3, <2>1 DEF Rotated, Turned
<1> QED
    BY <1>3, <1>5, <1>7, <1>8, <1>9, <1>10 DEF Shape, lo2, hi2, T

-----------------------------------------------------------------------------
(* A new leaf. *)

\* T is tree with the red leaf n under p.
Linked(tree, n, p, T) ==
    /\ T \in Trees
    /\ T.root = IF p = nil THEN n ELSE tree.root
    /\ T.size = tree.size
    /\ \A s \in Sides, m \in Ids :
         T[s][m] = IF m = n THEN nil
                   ELSE IF m = p /\ s = Turn(n, p) THEN n ELSE tree[s][m]
    /\ \A m \in Nodes : T.parent[m] = IF m = n THEN p ELSE tree.parent[m]
    /\ \A m \in Nodes : T.color[m] = IF m = n THEN "RED" ELSE tree.color[m]

\* Link, pointer by pointer.
LEMMA LinkFacts ==
    ASSUME NEW tree \in Trees, NEW n \in Ids, NEW p \in Nodes
    PROVE  Linked(tree, n, p, Link(tree, n, p))
<1> DEFINE T == Link(tree, n, p)
           s == Turn(n, p)
           placed == IF p = nil THEN [tree EXCEPT !.root = n] ELSE [tree EXCEPT ![s][p] = n]
<1>1. T = [placed EXCEPT !.parent[n] = p, !.left[n] = nil, !.right[n] = nil, !.color[n] = "RED"]
    BY DEF Link
<1>2. s \in Sides
    BY DEF Turn, Sides
<1>3. n \in Nodes /\ nil \in Nodes /\ (p # nil => p \in Ids)
    BY Constants
<1> HIDE DEF T
<1>4. /\ placed \in Trees
      /\ placed.root = IF p = nil THEN n ELSE tree.root
      /\ placed.size = tree.size /\ placed.parent = tree.parent /\ placed.color = tree.color
      /\ \A m \in Ids : placed.left[m] = IF m = p /\ s = "left" THEN n ELSE tree.left[m]
      /\ \A m \in Ids : placed.right[m] = IF m = p /\ s = "right" THEN n ELSE tree.right[m]
    <2> HIDE DEF s
    <2>1. CASE s = "left"
        BY <1>3, <2>1, Constants DEF Trees
    <2>2. CASE s = "right"
        BY <1>3, <2>2, Constants DEF Trees
    <2> QED
        BY <1>2, <2>1, <2>2 DEF Sides
<1> HIDE DEF placed, s
<1>5. /\ T \in Trees /\ T.root = placed.root /\ T.size = placed.size
      /\ \A m \in Ids : T.left[m] = IF m = n THEN nil ELSE placed.left[m]
      /\ \A m \in Ids : T.right[m] = IF m = n THEN nil ELSE placed.right[m]
      /\ \A m \in Nodes : T.parent[m] = IF m = n THEN p ELSE placed.parent[m]
      /\ \A m \in Nodes : T.color[m] = IF m = n THEN "RED" ELSE placed.color[m]
    BY <1>1, <1>3, <1>4 DEF Trees, Colors
<1>6. \A r \in Sides, m \in Ids :
         T[r][m] = IF m = n THEN nil ELSE IF m = p /\ r = s THEN n ELSE tree[r][m]
    BY <1>2, <1>4, <1>5 DEF Sides
<1> QED
    BY <1>4, <1>5, <1>6 DEF Linked, T, s

LinkLo(lo, n, p) == [lo EXCEPT ![n] = IF p = nil THEN -1 ELSE From(lo, p, Turn(n, p))]
LinkHi(hi, n, p) ==
    [hi EXCEPT ![n] = IF p = nil THEN HashBound + 1 ELSE To(hi, p, Turn(n, p))]

\* A leaf linked where the descent ended makes a tree again.
LEMMA LinkShape ==
    ASSUME NEW tree \in Trees, NEW L, NEW lo, NEW hi, Shape(tree, L, lo, hi),
           NEW n \in Ids \ L, NEW p \in Nodes,
           \/ p = nil /\ tree.root = nil
           \/ p \in L /\ lo[p] < Hash[n] /\ Hash[n] < hi[p] /\ tree[Turn(n, p)][p] = nil
    PROVE  /\ Shape(Link(tree, n, p), L \cup {n}, LinkLo(lo, n, p), LinkHi(hi, n, p))
           /\ Outside(tree, L, nil) => Outside(Link(tree, n, p), L \cup {n}, nil)
<1> DEFINE T == Link(tree, n, p)
           s == Turn(n, p)
           L2 == L \cup {n}
           lo2 == LinkLo(lo, n, p)
           hi2 == LinkHi(hi, n, p)
<1>1. /\ L \subseteq Ids /\ L2 \subseteq Ids /\ nil \notin L2 /\ Knit(tree, L)
      /\ Hash[n] \in Int /\ 0 <= Hash[n] /\ Hash[n] <= HashBound /\ HashBound \in Nat
      /\ s \in Sides
    BY ShapeKnit, Constants DEF Knit, Turn, Sides
<1>2. Linked(tree, n, p, T)
    BY LinkFacts
<1> HIDE DEF T
<1>3. p = nil => L = {}
    BY <1>1 DEF Shape, Rooted
<1>4. p # nil => /\ p \in L /\ From(lo, p, s) < Hash[n] /\ Hash[n] < To(hi, p, s)
                 /\ From(lo, p, s) \in Int /\ To(hi, p, s) \in Int
                 /\ -1 <= From(lo, p, s) /\ To(hi, p, s) <= HashBound + 1
                 /\ None(L, From(lo, p, s), To(hi, p, s))
    <2> HAVE p # nil
    <2>1. p \in L /\ lo[p] < Hash[n] /\ Hash[n] < hi[p] /\ tree[s][p] = nil
        OBVIOUS
    <2>2. Fits(tree, L, lo, hi, p, s)
        BY <1>1, <2>1 DEF Shape
    <2>3. None(L, From(lo, p, s), To(hi, p, s))
        BY <2>1, <2>2 DEF Fits
    <2>4. /\ Hash[p] \in Int /\ lo[p] \in Int /\ hi[p] \in Int /\ Hash[p] # Hash[n]
          /\ -1 <= lo[p] /\ lo[p] < Hash[p] /\ Hash[p] < hi[p] /\ hi[p] <= HashBound + 1
        BY <1>1, <2>1, Bounds, Constants DEF Shape
    <2>5. s = IF Hash[n] < Hash[p] THEN "left" ELSE "right"
        BY <1>1, <2>1, Constants DEF Turn
    <2> QED
        BY <1>1, <2>1, <2>3, <2>4, <2>5 DEF From, To
<1>5. /\ lo2 \in [Ids -> Int] /\ hi2 \in [Ids -> Int]
      /\ \A m \in L : lo2[m] = lo[m] /\ hi2[m] = hi[m]
      /\ lo2[n] = IF p = nil THEN -1 ELSE From(lo, p, s)
      /\ hi2[n] = IF p = nil THEN HashBound + 1 ELSE To(hi, p, s)
    BY <1>1, <1>4 DEF LinkLo, LinkHi, Shape, Bounded
<1> HIDE DEF lo2, hi2
<1>6. Bounded(L2, lo2, hi2)
    <2>1. ASSUME NEW m \in L2
          PROVE  -1 <= lo2[m] /\ lo2[m] < Hash[m] /\ Hash[m] < hi2[m] /\ hi2[m] <= HashBound + 1
        <3>1. CASE m = n
            BY <1>1, <1>4, <1>5, <3>1
        <3>2. CASE m \in L
            BY <1>5, <3>2 DEF Shape, Bounded
        <3> QED
            BY <3>1, <3>2
    <2> QED
        BY <1>1, <1>5, <2>1 DEF Bounded
<1>7. ASSUME NEW m \in L
      PROVE  Under(lo2, hi2, n, m) \/ Apart(lo2, hi2, n, m)
    <2>1. p # nil
        BY <1>3
    <2>2. /\ lo2[n] = From(lo, p, s) /\ hi2[n] = To(hi, p, s)
          /\ lo2[m] = lo[m] /\ hi2[m] = hi[m]
        BY <1>5, <2>1
    <2>3. /\ lo[m] \in Int /\ hi[m] \in Int /\ Hash[m] \in Int
          /\ lo[m] < Hash[m] /\ Hash[m] < hi[m]
          /\ lo[p] \in Int /\ hi[p] \in Int /\ Hash[p] \in Int
          /\ lo[p] < Hash[p] /\ Hash[p] < hi[p]
        BY <1>4, <2>1, Bounds DEF Shape
    <2>4. ~ (From(lo, p, s) < Hash[m] /\ Hash[m] < To(hi, p, s))
        BY <1>4, <2>1 DEF None
    <2>5. CASE m = p
        BY <1>1, <2>2, <2>3, <2>5 DEF Under, From, To, Sides
    <2>6. CASE m # p
        <3>1. Under(lo, hi, m, p) \/ Under(lo, hi, p, m) \/ Apart(lo, hi, m, p)
            BY <1>4, <2>1, <2>6 DEF Shape, Nested
        <3> QED
            BY <1>1, <2>2, <2>3, <2>4, <3>1, SMTT(30) DEF Under, Apart, From, To, Sides
    <2> QED
        BY <2>5, <2>6
<1>8. Nested(L2, lo2, hi2)
    <2> SUFFICES ASSUME NEW k \in L2, NEW m \in L2, k # m
                 PROVE  Under(lo2, hi2, k, m) \/ Under(lo2, hi2, m, k) \/ Apart(lo2, hi2, k, m)
        BY DEF Nested
    <2>1. CASE k \in L /\ m \in L
        <3>1. Under(lo, hi, k, m) \/ Under(lo, hi, m, k) \/ Apart(lo, hi, k, m)
            BY <2>1 DEF Shape, Nested
        <3> QED
            BY <1>5, <2>1, <3>1 DEF Under, Apart
    <2>2. CASE k = n \/ m = n
        BY <1>7, <2>2 DEF Apart
    <2> QED
        BY <2>1, <2>2
<1>9. Rooted(T, L2, lo2, hi2)
    <2>1. CASE p = nil
        BY <1>1, <1>2, <1>5, <2>1, Constants DEF Rooted, Linked
    <2>2. CASE p # nil
        <3>1. tree.root \in L /\ tree.parent[tree.root] = nil
              /\ lo[tree.root] = -1 /\ hi[tree.root] = HashBound + 1
            BY <1>4, <2>2 DEF Shape, Rooted
        <3>2. T.root = tree.root /\ T.parent[tree.root] = tree.parent[tree.root]
            BY <1>1, <1>2, <2>2, <3>1, Constants DEF Linked
        <3> QED
            BY <1>1, <1>5, <3>1, <3>2 DEF Rooted
    <2> QED
        BY <2>1, <2>2
<1>10. ASSUME NEW m \in L2, NEW r \in Sides  PROVE Fits(T, L2, lo2, hi2, m, r)
    <2>1. CASE m = n
        <3>1. T[r][m] = nil
            BY <1>1, <1>2, <2>1 DEF Linked
        <3>2. ASSUME NEW k \in L2
              PROVE  ~ (From(lo2, n, r) < Hash[k] /\ Hash[k] < To(hi2, n, r))
            <4>1. CASE k = n
                BY <1>1, <4>1 DEF From, To, Sides
            <4>2. CASE k \in L
                <5>1. p # nil /\ lo2[n] = From(lo, p, s) /\ hi2[n] = To(hi, p, s)
                    BY <1>3, <1>5, <4>2
                <5>2. ~ (lo2[n] < Hash[k] /\ Hash[k] < hi2[n])
                    BY <1>4, <4>2, <5>1 DEF None
                <5>3. lo2[n] < Hash[n] /\ Hash[n] < hi2[n] /\ lo2[n] \in Int /\ hi2[n] \in Int
                      /\ Hash[k] \in Int
                    BY <1>1, <1>4, <1>5, <4>2, <5>1, Constants
                <5> QED
                    BY <1>1, <5>2, <5>3 DEF From, To, Sides
            <4> QED
                BY <4>1, <4>2
        <3> QED
            BY <2>1, <3>1, <3>2 DEF Fits, None
    <2>2. CASE m = p /\ r = s
        <3>1. p # nil /\ p \in L /\ m # n
            BY <1>1, <1>4, <2>2, Constants
        <3>2. T[r][m] = n /\ T.parent[n] = m
            BY <1>1, <1>2, <2>2, <3>1, Constants DEF Linked
        <3>3. From(lo2, m, r) = From(lo, p, s) /\ To(hi2, m, r) = To(hi, p, s)
            BY <1>5, <2>2, <3>1 DEF From, To
        <3> QED
            BY <1>1, <1>5, <3>1, <3>2, <3>3 DEF Fits
    <2>3. CASE m \in L /\ ~ (m = p /\ r = s)
        <3>1. T[r][m] = tree[r][m]
            BY <1>1, <1>2, <2>3 DEF Linked
        <3>2. From(lo2, m, r) = From(lo, m, r) /\ To(hi2, m, r) = To(hi, m, r)
            BY <1>5, <2>3 DEF From, To
        <3>3. Fits(tree, L, lo, hi, m, r)
            BY <2>3 DEF Shape
        <3>4. CASE tree[r][m] = nil
            <4>1. None(L, From(lo, m, r), To(hi, m, r))
                BY <3>3, <3>4 DEF Fits
            <4>2. p # nil /\ p \in L
                BY <1>3, <1>4, <2>3
            <4>3. ~ (From(lo, m, r) < Hash[n] /\ Hash[n] < To(hi, m, r))
                <5>1. /\ lo[m] \in Int /\ hi[m] \in Int /\ Hash[m] \in Int
                      /\ lo[m] < Hash[m] /\ Hash[m] < hi[m]
                      /\ lo[p] \in Int /\ hi[p] \in Int /\ Hash[p] \in Int
                      /\ lo[p] < Hash[p] /\ Hash[p] < hi[p]
                    BY <2>3, <4>2, Bounds DEF Shape
                <5>2. ~ (From(lo, m, r) < Hash[p] /\ Hash[p] < To(hi, m, r))
                    BY <4>1, <4>2 DEF None
                <5>3. /\ From(lo, p, s) < Hash[n] /\ Hash[n] < To(hi, p, s)
                      /\ ~ (From(lo, p, s) < Hash[m] /\ Hash[m] < To(hi, p, s))
                    BY <1>4, <2>3, <4>2 DEF None
                <5>4. CASE m = p
                    BY <1>1, <2>3, <5>1, <5>3, <5>4 DEF From, To, Sides
                <5>5. CASE m # p
                    <6>1. Under(lo, hi, m, p) \/ Under(lo, hi, p, m) \/ Apart(lo, hi, m, p)
                        BY <2>3, <4>2, <5>5 DEF Shape, Nested
                    <6> QED
                        BY <1>1, <5>1, <5>2, <5>3, <6>1, SMTT(30)
                        DEF Under, Apart, From, To, Sides
                <5> QED
                    BY <5>4, <5>5
            <4> QED
                BY <3>1, <3>2, <3>4, <4>1, <4>3 DEF Fits, None
        <3>5. CASE tree[r][m] # nil
            <4> DEFINE c == tree[r][m]
            <4>1. c \in L /\ tree.parent[c] = m /\ lo[c] = From(lo, m, r) /\ hi[c] = To(hi, m, r)
                BY <3>3, <3>5 DEF Fits
            <4>2. T.parent[c] = m
                BY <1>1, <1>2, <4>1, Constants DEF Linked
            <4> QED
                BY <1>5, <3>1, <3>2, <3>5, <4>1, <4>2 DEF Fits
        <3> QED
            BY <3>4, <3>5
    <2> QED
        BY <2>1, <2>2, <2>3, <1>1, <1>4, Constants
<1>11. \A m \in L2 : m # T.root => \E k \in L2, r \in Sides : T[r][k] = m
    <2> SUFFICES ASSUME NEW m \in L2, m # T.root
                 PROVE  \E k \in L2, r \in Sides : T[r][k] = m
        OBVIOUS
    <2>1. CASE m = n
        <3>1. p # nil /\ p \in L /\ p # n
            BY <1>2, <1>4, <2>1 DEF Linked
        <3>2. T[s][p] = n
            BY <1>1, <1>2, <3>1 DEF Linked
        <3> QED
            BY <1>1, <2>1, <3>1, <3>2
    <2>2. CASE m \in L
        <3>1. p # nil
            BY <1>3, <2>2
        <3>2. m # tree.root
            BY <1>2, <3>1 DEF Linked
        <3> DEFINE k == tree.parent[m]
                   r == SideOf(tree, m)
        <3>3. k \in L /\ r \in Sides /\ tree[r][k] = m
            BY <1>1, <2>2, <3>2, SideOfSides DEF Knit
        <3>4. ~ (k = p /\ r = s)
            BY <1>1, <3>1, <3>3, <2>2
        <3>5. T[r][k] = m
            BY <1>1, <1>2, <3>3, <3>4 DEF Linked
        <3> QED
            BY <3>3, <3>5
    <2> QED
        BY <2>1, <2>2
<1>12. Hangs(T, L2)
    <2> HIDE DEF L2
    <2>1. L2 \in SUBSET Ids
        BY <1>1
    <2> QED  BY <2>1, <1>10, <1>11, HangsFrom
<1>13. Outside(tree, L, nil) => Outside(T, L2, nil)
    <2> SUFFICES ASSUME NEW m \in Ids \ L2, NEW r \in Sides  PROVE T[r][m] = tree[r][m]
        BY DEF Outside
    <2>1. m # n /\ m # p
        BY <1>4, Constants
    <2> QED
        BY <1>2, <2>1 DEF Linked
<1> QED
    BY <1>6, <1>8, <1>9, <1>10, <1>12, <1>13 DEF Shape, T, lo2, hi2

-----------------------------------------------------------------------------
(* A node with at most one child is cut off: its interval closes on side s. *)

CutLo(s, lo, n) ==
    IF s = "left" THEN [m \in Ids |-> IF lo[m] = Hash[n] THEN lo[n] ELSE lo[m]] ELSE lo

CutHi(s, hi, n) ==
    IF s = "left" THEN hi ELSE [m \in Ids |-> IF hi[m] = Hash[n] THEN hi[n] ELSE hi[m]]

\* No bound is strictly between the hash of n and its bound on side s.
LEMMA CutGap ==
    ASSUME NEW tree \in Trees, NEW L, NEW lo, NEW hi, Shape(tree, L, lo, hi),
           NEW s \in Sides, NEW n \in L, tree[s][n] = nil, NEW m \in L, m # n
    PROVE  /\ s = "left" => /\ Hash[m] <= lo[n] \/ Hash[n] < Hash[m]
                            /\ lo[m] <= lo[n] \/ Hash[n] <= lo[m]
                            /\ hi[m] <= lo[n] \/ Hash[n] < hi[m]
           /\ s = "right" => /\ Hash[m] < Hash[n] \/ hi[n] <= Hash[m]
                             /\ lo[m] < Hash[n] \/ hi[n] <= lo[m]
                             /\ hi[m] <= Hash[n] \/ hi[n] <= hi[m]
<1>1. /\ lo[m] \in Int /\ hi[m] \in Int /\ Hash[m] \in Int
      /\ lo[m] < Hash[m] /\ Hash[m] < hi[m]
      /\ lo[n] \in Int /\ hi[n] \in Int /\ Hash[n] \in Int
      /\ lo[n] < Hash[n] /\ Hash[n] < hi[n] /\ Hash[m] # Hash[n]
    BY Bounds, Constants DEF Shape
<1>2. Under(lo, hi, m, n) \/ Under(lo, hi, n, m) \/ Apart(lo, hi, m, n)
    BY DEF Shape, Nested
<1>3. ~ (From(lo, n, s) < Hash[m] /\ Hash[m] < To(hi, n, s))
    BY DEF Shape, Fits, None
<1>4. CASE s = "left"
    BY <1>1, <1>2, <1>3, <1>4, SMTT(30) DEF Under, Apart, From, To
<1>5. CASE s = "right"
    BY <1>1, <1>2, <1>3, <1>5, SMTT(30) DEF Under, Apart, From, To
<1> QED
    BY <1>4, <1>5 DEF Sides

\* The intervals stay nested when that of a node closes.
LEMMA CutNested ==
    ASSUME NEW tree \in Trees, NEW L, NEW lo, NEW hi, Shape(tree, L, lo, hi),
           NEW s \in Sides, NEW n \in L, tree[s][n] = nil
    PROVE  /\ Bounded(L \ {n}, CutLo(s, lo, n), CutHi(s, hi, n))
           /\ Nested(L \ {n}, CutLo(s, lo, n), CutHi(s, hi, n))
<1> DEFINE lo2 == CutLo(s, lo, n)
           hi2 == CutHi(s, hi, n)
<1>1. /\ lo \in [Ids -> Int] /\ hi \in [Ids -> Int] /\ L \subseteq Ids
    BY DEF Shape, Bounded
<1>2. /\ lo2 \in [Ids -> Int] /\ hi2 \in [Ids -> Int]
      /\ s = "left" => \A m \in Ids : /\ lo2[m] = IF lo[m] = Hash[n] THEN lo[n] ELSE lo[m]
                                      /\ hi2[m] = hi[m]
      /\ s = "right" => \A m \in Ids : /\ lo2[m] = lo[m]
                                       /\ hi2[m] = IF hi[m] = Hash[n] THEN hi[n] ELSE hi[m]
    BY <1>1 DEF CutLo, CutHi
<1> HIDE DEF lo2, hi2
<1>3. \A m \in L : /\ lo[m] \in Int /\ hi[m] \in Int /\ Hash[m] \in Int
                   /\ lo[m] < Hash[m] /\ Hash[m] < hi[m]
                   /\ -1 <= lo[m] /\ hi[m] <= HashBound + 1
    BY Bounds DEF Shape
<1>4. HashBound \in Nat
    BY Constants
<1>5. ASSUME NEW m \in L \ {n}
      PROVE  -1 <= lo2[m] /\ lo2[m] < Hash[m] /\ Hash[m] < hi2[m] /\ hi2[m] <= HashBound + 1
    <2>1. CASE s = "left"
        BY <1>1, <1>2, <1>3, <1>4, <2>1
    <2>2. CASE s = "right"
        BY <1>1, <1>2, <1>3, <1>4, <2>2
    <2> QED
        BY <2>1, <2>2 DEF Sides
<1>6. ASSUME NEW k \in L \ {n}, NEW m \in L \ {n}, k # m
      PROVE  Under(lo2, hi2, k, m) \/ Under(lo2, hi2, m, k) \/ Apart(lo2, hi2, k, m)
    <2>1. Under(lo, hi, k, m) \/ Under(lo, hi, m, k) \/ Apart(lo, hi, k, m)
        BY <1>6 DEF Shape, Nested
    <2>2. /\ lo[m] \in Int /\ hi[m] \in Int /\ Hash[m] \in Int
          /\ lo[m] < Hash[m] /\ Hash[m] < hi[m]
          /\ lo[k] \in Int /\ hi[k] \in Int /\ Hash[k] \in Int
          /\ lo[k] < Hash[k] /\ Hash[k] < hi[k]
          /\ lo[n] \in Int /\ hi[n] \in Int /\ Hash[n] \in Int
          /\ lo[n] < Hash[n] /\ Hash[n] < hi[n]
          /\ m \in Ids /\ k \in Ids
        BY <1>1, <1>3
    <2>3. CASE s = "left"
        <3>1. /\ lo2[m] = IF lo[m] = Hash[n] THEN lo[n] ELSE lo[m]
              /\ lo2[k] = IF lo[k] = Hash[n] THEN lo[n] ELSE lo[k]
              /\ hi2[m] = hi[m] /\ hi2[k] = hi[k]
            BY <1>2, <2>2, <2>3
        <3>2. /\ Hash[m] <= lo[n] \/ Hash[n] < Hash[m]
              /\ lo[m] <= lo[n] \/ Hash[n] <= lo[m]
              /\ hi[m] <= lo[n] \/ Hash[n] < hi[m]
            BY CutGap, <2>3
        <3>3. /\ Hash[k] <= lo[n] \/ Hash[n] < Hash[k]
              /\ lo[k] <= lo[n] \/ Hash[n] <= lo[k]
              /\ hi[k] <= lo[n] \/ Hash[n] < hi[k]
            BY CutGap, <2>3
        <3> QED
            BY <2>1, <2>2, <3>1, <3>2, <3>3, SMTT(60) DEF Under, Apart
    <2>4. CASE s = "right"
        <3>1. /\ hi2[m] = IF hi[m] = Hash[n] THEN hi[n] ELSE hi[m]
              /\ hi2[k] = IF hi[k] = Hash[n] THEN hi[n] ELSE hi[k]
              /\ lo2[m] = lo[m] /\ lo2[k] = lo[k]
            BY <1>2, <2>2, <2>4
        <3>2. /\ Hash[m] < Hash[n] \/ hi[n] <= Hash[m]
              /\ lo[m] < Hash[n] \/ hi[n] <= lo[m]
              /\ hi[m] <= Hash[n] \/ hi[n] <= hi[m]
            BY CutGap, <2>4
        <3>3. /\ Hash[k] < Hash[n] \/ hi[n] <= Hash[k]
              /\ lo[k] < Hash[n] \/ hi[n] <= lo[k]
              /\ hi[k] <= Hash[n] \/ hi[n] <= hi[k]
            BY CutGap, <2>4
        <3> QED
            BY <2>1, <2>2, <3>1, <3>2, <3>3, SMTT(60) DEF Under, Apart
    <2> QED
        BY <2>3, <2>4 DEF Sides
<1>7. Bounded(L \ {n}, lo2, hi2)
    BY <1>1, <1>2, <1>5 DEF Bounded
<1>8. Nested(L \ {n}, lo2, hi2)
    BY <1>6 DEF Nested
<1> QED
    BY <1>7, <1>8 DEF lo2, hi2

\* rbt_transplant of a node with one child makes a tree without it.
LEMMA CutShape ==
    ASSUME NEW tree \in Trees, NEW L, NEW lo, NEW hi, Shape(tree, L, lo, hi),
           Outside(tree, L, nil),
           NEW s \in Sides, NEW n \in L, tree[s][n] = nil,
           NEW c, c = tree[Other(s)][n]
    PROVE  /\ Shape(rbt_transplant(tree, n, c), L \ {n}, CutLo(s, lo, n), CutHi(s, hi, n))
           /\ Outside(rbt_transplant(tree, n, c), L \ {n}, n)
           /\ Transplanted(tree, n, c, rbt_transplant(tree, n, c))
<1> DEFINE T == rbt_transplant(tree, n, c)
           L2 == L \ {n}
           lo2 == CutLo(s, lo, n)
           hi2 == CutHi(s, hi, n)
           far == Other(s)
<1>1. /\ Knit(tree, L) /\ L \subseteq Ids /\ nil \notin L /\ n \in Ids
      /\ far \in Sides /\ far # s /\ Other(far) = s
      /\ L2 \in SUBSET Ids /\ c \in Nodes
    BY ShapeKnit, Constants DEF Knit, Nodes
<1>2. Transplanted(tree, n, c, T)
    BY <1>1, TransplantFacts
<1> HIDE DEF T
<1>3. Bounded(L2, lo2, hi2) /\ Nested(L2, lo2, hi2)
    BY CutNested
<1>4. /\ lo \in [Ids -> Int] /\ hi \in [Ids -> Int]
    BY DEF Shape, Bounded
<1>5. /\ s = "left" => \A m \in Ids : /\ lo2[m] = IF lo[m] = Hash[n] THEN lo[n] ELSE lo[m]
                                      /\ hi2[m] = hi[m]
      /\ s = "right" => \A m \in Ids : /\ lo2[m] = lo[m]
                                       /\ hi2[m] = IF hi[m] = Hash[n] THEN hi[n] ELSE hi[m]
    BY <1>4 DEF CutLo, CutHi
<1> HIDE DEF lo2, hi2
<1>6. \A m \in L : /\ lo[m] \in Int /\ hi[m] \in Int /\ Hash[m] \in Int
                   /\ lo[m] < Hash[m] /\ Hash[m] < hi[m]
                   /\ -1 <= lo[m] /\ hi[m] <= HashBound + 1
                   /\ 0 <= Hash[m] /\ Hash[m] <= HashBound /\ HashBound \in Int
                   /\ m # n => Hash[m] # Hash[n]
    BY Bounds, Constants DEF Shape
<1>7. ASSUME c # nil
      PROVE  /\ c \in L2 /\ tree.parent[c] = n /\ c # tree.parent[n] /\ c # tree.root
             /\ lo2[c] = lo[n] /\ hi2[c] = hi[n]
    <2>1. /\ c \in L /\ tree.parent[c] = n /\ c # n /\ c # tree.parent[n] /\ c # tree.root
        BY <1>1, <1>7 DEF Knit
    <2>2. lo[c] = From(lo, n, far) /\ hi[c] = To(hi, n, far)
        BY <1>1, <1>7, ChildBounds
    <2>3. CASE s = "left"
        BY <1>1, <1>5, <1>6, <2>1, <2>2, <2>3 DEF From, To, Other
    <2>4. CASE s = "right"
        BY <1>1, <1>5, <1>6, <2>1, <2>2, <2>4 DEF From, To, Other
    <2> QED
        BY <2>1, <2>3, <2>4 DEF Sides
\* What the hash of a node, or a bound, becomes.
<1>8. ASSUME NEW m \in L2, NEW r \in Sides
      PROVE  /\ From(lo2, m, r) = IF s = "left" /\ From(lo, m, r) = Hash[n] THEN lo[n]
                                  ELSE From(lo, m, r)
             /\ To(hi2, m, r) = IF s = "right" /\ To(hi, m, r) = Hash[n] THEN hi[n]
                                ELSE To(hi, m, r)
    <2>1. m \in L /\ m # n /\ m \in Ids /\ Hash[m] # Hash[n]
        BY <1>1, <1>6
    <2>2. CASE s = "left"
        BY <1>5, <2>1, <2>2 DEF From, To
    <2>3. CASE s = "right"
        BY <1>5, <2>1, <2>3 DEF From, To
    <2> QED
        BY <2>2, <2>3 DEF Sides
<1>9. ASSUME NEW k \in L2, NEW m \in L2, NEW r \in Sides,
             None(L, From(lo, m, r), To(hi, m, r))
      PROVE  ~ (From(lo2, m, r) < Hash[k] /\ Hash[k] < To(hi2, m, r))
    <2>1. ~ (From(lo, m, r) < Hash[k] /\ Hash[k] < To(hi, m, r))
        BY <1>9 DEF None
    <2>2. /\ From(lo, m, r) \in Int /\ To(hi, m, r) \in Int /\ Hash[k] \in Int
          /\ lo[n] \in Int /\ hi[n] \in Int /\ Hash[n] \in Int
          /\ lo[n] < Hash[n] /\ Hash[n] < hi[n]
        BY <1>6 DEF From, To
    <2>3. /\ s = "left" => Hash[k] <= lo[n] \/ Hash[n] < Hash[k]
          /\ s = "right" => Hash[k] < Hash[n] \/ hi[n] <= Hash[k]
        BY CutGap
    <2>4. s = "left" \/ s = "right"
        BY DEF Sides
    <2> QED
        BY <1>8, <2>1, <2>2, <2>3, <2>4
<1>10. Rooted(T, L2, lo2, hi2)
    <2>1. tree.root \in L /\ tree.parent[tree.root] = nil
          /\ lo[tree.root] = -1 /\ hi[tree.root] = HashBound + 1
        BY <1>1 DEF Shape, Rooted
    <2>2. CASE tree.parent[n] = nil /\ c = nil
        <3>1. n = tree.root
            BY <1>1, <2>2 DEF Knit
        <3>2. None(L, lo[n], Hash[n]) /\ None(L, Hash[n], hi[n])
            <4>1. Fits(tree, L, lo, hi, n, s) /\ Fits(tree, L, lo, hi, n, far)
                BY <1>1 DEF Shape
            <4> QED
                BY <1>1, <2>2, <4>1 DEF Fits, From, To, Sides
        <3>3. L2 = {}
            <4> SUFFICES ASSUME NEW m \in L2  PROVE FALSE
                OBVIOUS
            <4>1. /\ ~ (lo[n] < Hash[m] /\ Hash[m] < Hash[n])
                  /\ ~ (Hash[n] < Hash[m] /\ Hash[m] < hi[n])
                BY <3>2 DEF None
            <4>2. /\ lo[n] = -1 /\ hi[n] = HashBound + 1 /\ Hash[m] # Hash[n]
                  /\ Hash[m] \in Int /\ Hash[n] \in Int
                  /\ 0 <= Hash[m] /\ Hash[m] <= HashBound /\ HashBound \in Int
                BY <1>6, <2>1, <3>1
            <4> QED
                BY <4>1, <4>2
        <3>4. T.root = nil
            BY <1>2, <2>2 DEF Transplanted
        <3> QED
            BY <3>3, <3>4 DEF Rooted
    <2>3. CASE tree.parent[n] = nil /\ c # nil
        <3>1. n = tree.root
            BY <1>1, <2>3 DEF Knit
        <3>2. T.root = c /\ T.parent[c] = nil
            BY <1>1, <1>2, <2>3 DEF Transplanted
        <3> QED
            BY <1>7, <2>1, <2>3, <3>1, <3>2 DEF Rooted
    <2>4. CASE tree.parent[n] # nil
        <3>1. n # tree.root /\ tree.root \in L2
            BY <2>1, <2>4
        <3>2. T.root = tree.root /\ tree.root # c
            BY <1>1, <1>2, <1>7, <2>1, <2>4 DEF Transplanted
        <3>3. T.parent[tree.root] = nil
            BY <1>1, <1>2, <2>1, <3>2, Constants DEF Transplanted
        <3>4. lo2[tree.root] = -1 /\ hi2[tree.root] = HashBound + 1
            <4>1. tree.root \in Ids /\ Hash[n] # -1 /\ Hash[n] # HashBound + 1
                BY <1>1, <1>6, <2>1
            <4> QED
                BY <1>5, <2>1, <4>1 DEF Sides
        <3> QED
            BY <1>1, <3>1, <3>2, <3>3, <3>4 DEF Rooted
    <2> QED
        BY <2>2, <2>3, <2>4
<1>11. ASSUME NEW m \in L2, NEW r \in Sides  PROVE Fits(T, L2, lo2, hi2, m, r)
    <2>1. Fits(tree, L, lo, hi, m, r)
        BY DEF Shape
    <2>2. CASE m = tree.parent[n] /\ r = SideOf(tree, n)
        <3>1. T[r][m] = c
            BY <1>1, <1>2, <2>2 DEF Transplanted
        <3>2. tree[r][m] = n
            BY <1>1, <2>2 DEF Knit
        <3>3. lo[n] = From(lo, m, r) /\ hi[n] = To(hi, m, r)
            BY <1>1, <2>1, <3>2 DEF Fits
        <3>4. From(lo2, m, r) = lo[n] /\ To(hi2, m, r) = hi[n]
            BY <1>8, <3>3
        <3>5. CASE c = nil
            <4>1. Fits(tree, L, lo, hi, n, s) /\ Fits(tree, L, lo, hi, n, far)
                BY <1>1 DEF Shape
            <4>2. None(L, lo[n], Hash[n]) /\ None(L, Hash[n], hi[n])
                BY <1>1, <3>5, <4>1 DEF Fits, From, To, Sides
            <4>3. None(L2, lo[n], hi[n])
                <5> SUFFICES ASSUME NEW k \in L2
                             PROVE  ~ (lo[n] < Hash[k] /\ Hash[k] < hi[n])
                    BY DEF None
                <5>1. /\ ~ (lo[n] < Hash[k] /\ Hash[k] < Hash[n])
                      /\ ~ (Hash[n] < Hash[k] /\ Hash[k] < hi[n])
                    BY <4>2 DEF None
                <5>2. Hash[k] # Hash[n] /\ Hash[k] \in Int /\ Hash[n] \in Int
                      /\ lo[n] \in Int /\ hi[n] \in Int
                    BY <1>6
                <5> QED
                    BY <5>1, <5>2
            <4> QED
                BY <3>1, <3>4, <3>5, <4>3 DEF Fits
        <3>6. CASE c # nil
            <4>1. T.parent[c] = m
                BY <1>1, <1>2, <2>2 DEF Transplanted
            <4> QED
                BY <1>7, <3>1, <3>4, <3>6, <4>1 DEF Fits
        <3> QED
            BY <3>5, <3>6
    <2>3. CASE ~ (m = tree.parent[n] /\ r = SideOf(tree, n))
        <3>1. T[r][m] = tree[r][m]
            BY <1>1, <1>2, <2>3 DEF Transplanted
        <3>2. CASE tree[r][m] = nil
            <4>1. None(L, From(lo, m, r), To(hi, m, r))
                BY <2>1, <3>2 DEF Fits
            <4> QED
                BY <1>9, <3>1, <3>2, <4>1 DEF Fits, None
        <3>3. CASE tree[r][m] # nil
            <4> DEFINE d == tree[r][m]
            <4>1. d \in L /\ tree.parent[d] = m /\ lo[d] = From(lo, m, r) /\ hi[d] = To(hi, m, r)
                BY <2>1, <3>3 DEF Fits
            <4>2. d # n
                BY <1>1, <2>3, <3>3 DEF Knit
            <4>3. d # c
                BY <1>7, <3>3, <4>1
            <4>4. T.parent[d] = m
                BY <1>1, <1>2, <4>1, <4>3, Constants DEF Transplanted
            <4>5. lo2[d] = From(lo2, m, r) /\ hi2[d] = To(hi2, m, r)
                <5>1. d \in Ids /\ (s = "left" \/ s = "right")
                    BY <1>1, <4>1 DEF Sides
                <5> HIDE DEF d
                <5> QED
                    BY <1>5, <1>8, <4>1, <5>1
            <4> QED
                BY <3>1, <3>3, <4>1, <4>2, <4>4, <4>5 DEF Fits
        <3> QED
            BY <3>2, <3>3
    <2> QED
        BY <2>2, <2>3
<1>12. ASSUME NEW m \in L2, m # T.root  PROVE \E k \in L2, r \in Sides : T[r][k] = m
    <2>1. CASE m = c
        <3>1. tree.parent[n] # nil
            BY <1>2, <1>12, <2>1 DEF Transplanted
        <3>2. tree.parent[n] \in L2 /\ SideOf(tree, n) \in Sides
            <4>1. n # tree.root
                BY <1>1, <3>1 DEF Knit
            <4>2. tree.parent[n] \in L /\ tree[SideOf(tree, n)][tree.parent[n]] = n
                BY <1>1, <4>1 DEF Knit
            <4> QED
                BY <1>1, <4>2, SideOfSides DEF Knit
        <3>3. T[SideOf(tree, n)][tree.parent[n]] = c
            BY <1>1, <1>2, <3>2 DEF Transplanted
        <3> QED
            BY <2>1, <3>2, <3>3
    <2>2. CASE m # c
        <3>1. m # tree.root
            <4>1. SUFFICES ASSUME m = tree.root  PROVE FALSE
                OBVIOUS
            <4>2. tree.parent[n] = nil
                BY <1>2, <1>12, <4>1 DEF Transplanted
            <4> QED
                BY <1>1, <4>1, <4>2 DEF Knit
        <3> DEFINE k == tree.parent[m]
                   r == SideOf(tree, m)
        <3>2. k \in L /\ r \in Sides /\ tree[r][k] = m
            BY <1>1, <3>1, SideOfSides DEF Knit
        <3>3. k # n
            BY <1>1, <2>2, <3>2 DEF Sides
        <3>4. ~ (k = tree.parent[n] /\ r = SideOf(tree, n))
            <4>1. SUFFICES ASSUME k = tree.parent[n], r = SideOf(tree, n)  PROVE FALSE
                OBVIOUS
            <4>2. n # tree.root
                BY <1>1, <3>2, <4>1 DEF Knit
            <4>3. tree[r][k] = n
                BY <1>1, <4>1, <4>2 DEF Knit
            <4> QED
                BY <3>2, <4>3
        <3>5. T[r][k] = m
            BY <1>1, <1>2, <3>2, <3>4 DEF Transplanted
        <3> QED
            BY <3>2, <3>3, <3>5
    <2> QED
        BY <2>1, <2>2
<1>13. Hangs(T, L2)
    <2> HIDE DEF L2
    <2> QED  BY <1>1, <1>11, <1>12, HangsFrom
<1>14. Outside(T, L2, n)
    <2> SUFFICES ASSUME NEW m \in Ids \ L2, NEW r \in Sides
                 PROVE  T[r][m] = nil \/ (m = n /\ T[r][m] \in L2)
        BY DEF Outside
    <2>1. m # tree.parent[n]
        <3>1. tree.parent[n] \in L2 \/ tree.parent[n] = nil
            <4>1. CASE n = tree.root
                BY <1>1, <4>1 DEF Knit
            <4>2. CASE n # tree.root
                BY <1>1, <4>2, SideOfSides DEF Knit
            <4> QED
                BY <4>1, <4>2
        <3> QED
            BY <3>1, Constants
    <2>2. T[r][m] = tree[r][m]
        BY <1>2, <2>1 DEF Transplanted
    <2>3. CASE m = n
        BY <1>1, <2>2, <2>3 DEF Knit
    <2>4. CASE m # n
        BY <2>2, <2>4, Constants DEF Outside
    <2> QED
        BY <2>3, <2>4
<1> QED
    BY <1>2, <1>3, <1>10, <1>11, <1>13, <1>14 DEF Shape, T, lo2, hi2

-----------------------------------------------------------------------------
(* A node with two children is cut off, and the least node k on its right  *)
(* takes its place.                                                        *)

Unlinked(tree, n, k, T) ==
    /\ T \in Trees
    /\ T.root = IF tree.parent[n] = nil THEN k ELSE tree.root
    /\ T.size = tree.size
    /\ T.left[k] = tree.left[n]
    /\ T.right[k] = IF tree.parent[k] = n THEN tree.right[k] ELSE tree.right[n]
    /\ \A s \in Sides : T[s][n] = tree[s][n]
    /\ \A s \in Sides, m \in Ids \ {n, k} :
         T[s][m] = IF m = tree.parent[n] /\ s = SideOf(tree, n) THEN k
                   ELSE IF m = tree.parent[k] /\ s = SideOf(tree, k) THEN tree.right[k]
                   ELSE tree[s][m]
    /\ \A m \in Nodes :
         T.parent[m] = IF m = k THEN tree.parent[n]
                       ELSE IF m = tree.left[n] THEN k
                       ELSE IF m = tree.right[n] /\ tree.parent[k] # n THEN k
                       ELSE IF m = tree.right[k]
                            THEN IF tree.parent[k] = n THEN k ELSE tree.parent[k]
                       ELSE tree.parent[m]
    /\ \A m \in Nodes : T.color[m] = IF m = k THEN tree.color[n] ELSE tree.color[m]

\* Unlink, pointer by pointer.
LEMMA UnlinkFacts ==
    ASSUME NEW tree \in Trees, NEW n \in Ids, NEW k \in Ids, k # n,
           tree.left[n] \notin {nil, k, tree.right[k]},
           tree.right[n] # nil, tree.right[k] \notin {n, k},
           n \notin {tree.left[n], tree.right[n]},
           k = tree.right[n] <=> tree.parent[k] = n,
           tree.parent[n] \notin {n, k, tree.parent[k]}, tree.parent[k] \notin {nil, k}
    PROVE  Unlinked(tree, n, k, Unlink(tree, n, k))
<1> DEFINE T == Unlink(tree, n, k)
           c == tree.right[k]
           q == tree.parent[k]
           cut == rbt_transplant(tree, k, c)
           lifted == IF q = n THEN [tree EXCEPT !.parent[c] = k]
                     ELSE [cut EXCEPT !.right[k] = tree.right[n], !.parent[tree.right[n]] = k]
           hung == rbt_transplant(lifted, n, k)
<1>1. T = [hung EXCEPT !.left[k] = tree.left[n],
                       !.parent[tree.left[n]] = k,
                       !.color[k] = tree.color[n]]
    BY DEF Unlink
<1>2. /\ c \in Nodes /\ q \in Nodes /\ q \in Ids
      /\ tree.left[n] \in Nodes /\ tree.right[n] \in Nodes /\ tree.left[n] \in Ids
      /\ tree.right[n] \in Ids /\ n \in Nodes /\ k \in Nodes
      /\ tree.color[n] \in Colors /\ tree.parent[n] \in Nodes
    BY Typed, Constants
<1>3. Transplanted(tree, k, c, cut)
    BY <1>2, TransplantFacts
<1> HIDE DEF T, cut
<1>4. ASSUME q # n
      PROVE  Assigned(cut, "right", k, tree.right[n], tree.right[n], k, lifted)
    <2>1. lifted = Assign(cut, "right", k, tree.right[n], tree.right[n], k)
        BY <1>4 DEF Assign
    <2>2. cut \in Trees /\ "right" \in Sides
        BY <1>3 DEF Transplanted, Sides
    <2> HIDE DEF lifted
    <2> QED
        BY <1>2, <2>1, <2>2, AssignFacts
<1>5. ASSUME q = n
      PROVE  /\ lifted \in Trees
             /\ lifted.root = tree.root /\ lifted.size = tree.size
             /\ lifted.color = tree.color
             /\ \A s \in Sides : lifted[s] = tree[s]
             /\ \A m \in Nodes : lifted.parent[m] = IF m = c THEN k ELSE tree.parent[m]
    <2>1. lifted = [tree EXCEPT !.parent[c] = k]
        BY <1>5
    <2> HIDE DEF lifted, c
    <2> QED
        BY <1>2, <2>1 DEF Trees, Sides
<1> HIDE DEF lifted
<1>6. /\ lifted \in Trees
      /\ lifted.root = tree.root /\ lifted.size = tree.size /\ lifted.color = tree.color
    BY <1>3, <1>4, <1>5 DEF Assigned, Transplanted
<1>7. ASSUME NEW s \in Sides, NEW m \in Ids
      PROVE  lifted[s][m] = IF q # n /\ m = q /\ s = SideOf(tree, k) THEN c
                            ELSE IF q # n /\ m = k /\ s = "right" THEN tree.right[n]
                            ELSE tree[s][m]
    <2>1. CASE q = n
        BY <1>5, <2>1
    <2>2. CASE q # n
        <3>1. lifted[s][m] = IF m = k /\ s = "right" THEN tree.right[n] ELSE cut[s][m]
            BY <1>4, <2>2 DEF Assigned
        <3>2. cut[s][m] = IF m = q /\ s = SideOf(tree, k) THEN c ELSE tree[s][m]
            BY <1>3 DEF Transplanted
        <3> QED
            BY <2>2, <3>1, <3>2
    <2> QED
        BY <2>1, <2>2
<1>8. ASSUME NEW m \in Nodes
      PROVE  lifted.parent[m] = IF m = tree.right[n] /\ q # n THEN k
                                ELSE IF m = c THEN (IF q = n THEN k ELSE q)
                                ELSE tree.parent[m]
    BY <1>3, <1>4, <1>5 DEF Assigned, Transplanted
<1>9. Transplanted(lifted, n, k, hung)
    BY <1>2, <1>6, TransplantFacts
<1>10. lifted.parent[n] = tree.parent[n]
    BY <1>2, <1>8
<1>11. tree.parent[n] # nil => SideOf(lifted, n) = SideOf(tree, n)
    <2> HAVE tree.parent[n] # nil
    <2>1. tree.parent[n] \in Ids /\ tree.parent[n] # k /\ tree.parent[n] # q
        BY <1>2, Constants
    <2>2. lifted.left[tree.parent[n]] = tree.left[tree.parent[n]]
        BY <1>7, <2>1 DEF Sides
    <2> QED
        BY <1>10, <2>2 DEF SideOf
<1> HIDE DEF hung
<1>12. /\ T \in Trees
       /\ T.root = hung.root /\ T.size = hung.size
       /\ T.right = hung.right
       /\ \A m \in Ids : T.left[m] = IF m = k THEN tree.left[n] ELSE hung.left[m]
       /\ \A m \in Nodes : T.parent[m] = IF m = tree.left[n] THEN k ELSE hung.parent[m]
       /\ \A m \in Nodes : T.color[m] = IF m = k THEN tree.color[n] ELSE hung.color[m]
    <2>1. hung \in Trees
        BY <1>9 DEF Transplanted
    <2> QED
        BY <1>1, <1>2, <2>1 DEF Trees, Colors
<1>13. ASSUME NEW s \in Sides, NEW m \in Ids
       PROVE  hung[s][m] = IF m = tree.parent[n] /\ s = SideOf(tree, n) THEN k
                           ELSE lifted[s][m]
    BY <1>9, <1>10, <1>11, Constants DEF Transplanted
<1>14. ASSUME NEW s \in Sides, NEW m \in Ids
       PROVE  T[s][m] = IF m = k /\ s = "left" THEN tree.left[n]
                        ELSE IF m = tree.parent[n] /\ s = SideOf(tree, n) THEN k
                        ELSE lifted[s][m]
    <2>1. T[s][m] = IF m = k /\ s = "left" THEN tree.left[n] ELSE hung[s][m]
        BY <1>12 DEF Sides
    <2> QED
        BY <1>13, <2>1
<1>15. ASSUME NEW m \in Nodes
       PROVE  T.parent[m] = IF m = k THEN tree.parent[n]
                            ELSE IF m = tree.left[n] THEN k
                            ELSE IF m = tree.right[n] /\ q # n THEN k
                            ELSE IF m = c THEN (IF q = n THEN k ELSE q)
                            ELSE tree.parent[m]
    <2>1. hung.parent[m] = IF m = k THEN tree.parent[n] ELSE lifted.parent[m]
        BY <1>9, <1>10 DEF Transplanted
    <2> QED
        BY <1>8, <1>12, <2>1
<1>16. T.root = IF tree.parent[n] = nil THEN k ELSE tree.root
    BY <1>6, <1>9, <1>10, <1>12 DEF Transplanted
<1>17. \A m \in Nodes : T.color[m] = IF m = k THEN tree.color[n] ELSE tree.color[m]
    BY <1>6, <1>9, <1>12 DEF Transplanted
<1>18. T.left[k] = tree.left[n]
       /\ T.right[k] = IF q = n THEN c ELSE tree.right[n]
    <2>1. T.left[k] = tree.left[n]
        BY <1>12
    <2>2. T.right[k] = lifted.right[k]
        BY <1>14 DEF Sides
    <2>3. lifted.right[k] = IF q # n THEN tree.right[n] ELSE c
        BY <1>7 DEF Sides
    <2> QED
        BY <2>1, <2>2, <2>3
<1>19. \A s \in Sides : T[s][n] = tree[s][n]
    BY <1>7, <1>14
<1>20. \A s \in Sides, m \in Ids \ {n, k} :
         T[s][m] = IF m = tree.parent[n] /\ s = SideOf(tree, n) THEN k
                   ELSE IF m = q /\ s = SideOf(tree, k) THEN c
                   ELSE tree[s][m]
    BY <1>7, <1>14
<1>21. T \in Trees /\ T.size = tree.size
    BY <1>6, <1>9, <1>12 DEF Transplanted
<1> HIDE DEF c, q
<1> QED
    BY <1>15, <1>16, <1>17, <1>18, <1>19, <1>20, <1>21 DEF Unlinked, T, c, q

UnlinkLo(lo, n, k) ==
    [m \in Ids |-> IF m = k THEN lo[n] ELSE IF lo[m] = Hash[n] THEN Hash[k] ELSE lo[m]]

UnlinkHi(hi, n, k) ==
    [m \in Ids |-> IF m = k THEN hi[n] ELSE IF hi[m] = Hash[n] THEN Hash[k] ELSE hi[m]]

\* The intervals stay nested when k takes that of the node cut off.
LEMMA UnlinkNested ==
    ASSUME NEW tree \in Trees, NEW L, NEW lo, NEW hi, Shape(tree, L, lo, hi),
           NEW n \in L, NEW k \in L, lo[k] = Hash[n], hi[k] <= hi[n], tree.left[k] = nil
    PROVE  /\ Bounded(L \ {n}, UnlinkLo(lo, n, k), UnlinkHi(hi, n, k))
           /\ Nested(L \ {n}, UnlinkLo(lo, n, k), UnlinkHi(hi, n, k))
<1> DEFINE lo2 == UnlinkLo(lo, n, k)
           hi2 == UnlinkHi(hi, n, k)
<1>1. /\ lo \in [Ids -> Int] /\ hi \in [Ids -> Int] /\ L \subseteq Ids
      /\ n \in Ids /\ k \in Ids /\ Hash[k] \in Int
    BY Bounds DEF Shape, Bounded
<1>2. /\ lo2 \in [Ids -> Int] /\ hi2 \in [Ids -> Int]
      /\ lo2[k] = lo[n] /\ hi2[k] = hi[n]
      /\ \A m \in Ids \ {k} : /\ lo2[m] = IF lo[m] = Hash[n] THEN Hash[k] ELSE lo[m]
                              /\ hi2[m] = IF hi[m] = Hash[n] THEN Hash[k] ELSE hi[m]
    BY <1>1 DEF UnlinkLo, UnlinkHi
<1> HIDE DEF lo2, hi2
<1>3. \A m \in L : /\ lo[m] \in Int /\ hi[m] \in Int /\ Hash[m] \in Int
                   /\ lo[m] < Hash[m] /\ Hash[m] < hi[m]
                   /\ -1 <= lo[m] /\ hi[m] <= HashBound + 1
    BY Bounds DEF Shape
<1>4. HashBound \in Nat
    BY Constants
<1>5. ASSUME NEW m \in L \ {n, k}
      PROVE  /\ Hash[m] <= Hash[n] \/ Hash[k] < Hash[m]
             /\ lo[m] <= Hash[n] \/ Hash[k] <= lo[m]
             /\ hi[m] <= Hash[n] \/ Hash[k] < hi[m]
             /\ Hash[m] # Hash[n]
             /\ Under(lo, hi, m, n) \/ Under(lo, hi, n, m) \/ Apart(lo, hi, m, n)
    <2>1. tree["left"][k] = nil /\ "left" \in Sides
        BY DEF Sides
    <2>2. Hash[m] # Hash[n]
        BY <1>1, Constants
    <2> QED
        BY <2>1, <2>2, CutGap DEF Shape, Nested
<1>6. ASSUME NEW m \in L \ {n}
      PROVE  -1 <= lo2[m] /\ lo2[m] < Hash[m] /\ Hash[m] < hi2[m] /\ hi2[m] <= HashBound + 1
    <2>1. /\ lo[n] \in Int /\ hi[n] \in Int /\ Hash[n] \in Int
          /\ lo[n] < Hash[n] /\ Hash[n] < hi[n] /\ -1 <= lo[n] /\ hi[n] <= HashBound + 1
          /\ lo[k] \in Int /\ hi[k] \in Int /\ Hash[k] \in Int
          /\ lo[k] < Hash[k] /\ Hash[k] < hi[k]
        BY <1>3
    <2>2. CASE m = k
        BY <1>2, <1>4, <2>1, <2>2
    <2>3. CASE m # k
        BY <1>1, <1>2, <1>3, <1>4, <1>5, <2>1, <2>3
    <2> QED
        BY <2>2, <2>3
<1>7. ASSUME NEW m \in L \ {n, k}
      PROVE  Under(lo2, hi2, k, m) \/ Under(lo2, hi2, m, k) \/ Apart(lo2, hi2, k, m)
    <2>1. /\ lo[n] \in Int /\ hi[n] \in Int /\ Hash[n] \in Int
          /\ lo[n] < Hash[n] /\ Hash[n] < hi[n]
          /\ hi[k] \in Int /\ Hash[k] \in Int
          /\ lo[k] < Hash[k] /\ Hash[k] < hi[k]
          /\ lo[m] \in Int /\ hi[m] \in Int /\ Hash[m] \in Int
          /\ lo[m] < Hash[m] /\ Hash[m] < hi[m]
        BY <1>3
    <2>2. /\ lo2[m] = IF lo[m] = Hash[n] THEN Hash[k] ELSE lo[m]
          /\ hi2[m] = IF hi[m] = Hash[n] THEN Hash[k] ELSE hi[m]
        BY <1>1, <1>2
    <2> QED
        BY <1>2, <1>5, <2>1, <2>2, SMTT(60) DEF Under, Apart
<1>8. ASSUME NEW j \in L \ {n, k}, NEW m \in L \ {n, k}, j # m
      PROVE  Under(lo2, hi2, j, m) \/ Under(lo2, hi2, m, j) \/ Apart(lo2, hi2, j, m)
    <2>1. /\ lo[n] \in Int /\ hi[n] \in Int /\ Hash[n] \in Int
          /\ hi[k] \in Int /\ Hash[k] \in Int /\ lo[k] < Hash[k]
          /\ lo[m] \in Int /\ hi[m] \in Int /\ Hash[m] \in Int
          /\ lo[m] < Hash[m] /\ Hash[m] < hi[m]
          /\ lo[j] \in Int /\ hi[j] \in Int /\ Hash[j] \in Int
          /\ lo[j] < Hash[j] /\ Hash[j] < hi[j]
        BY <1>3
    <2>2. /\ lo2[m] = IF lo[m] = Hash[n] THEN Hash[k] ELSE lo[m]
          /\ hi2[m] = IF hi[m] = Hash[n] THEN Hash[k] ELSE hi[m]
          /\ lo2[j] = IF lo[j] = Hash[n] THEN Hash[k] ELSE lo[j]
          /\ hi2[j] = IF hi[j] = Hash[n] THEN Hash[k] ELSE hi[j]
        BY <1>1, <1>2
    <2>3. Under(lo, hi, j, m) \/ Under(lo, hi, m, j) \/ Apart(lo, hi, j, m)
        BY <1>8 DEF Shape, Nested
    <2>4. /\ Hash[m] <= Hash[n] \/ Hash[k] < Hash[m]
          /\ lo[m] <= Hash[n] \/ Hash[k] <= lo[m]
          /\ hi[m] <= Hash[n] \/ Hash[k] < hi[m]
          /\ Hash[m] # Hash[n]
        BY <1>5
    <2>5. /\ Hash[j] <= Hash[n] \/ Hash[k] < Hash[j]
          /\ lo[j] <= Hash[n] \/ Hash[k] <= lo[j]
          /\ hi[j] <= Hash[n] \/ Hash[k] < hi[j]
          /\ Hash[j] # Hash[n]
        BY <1>5
    <2> QED
        BY <2>1, <2>2, <2>3, <2>4, <2>5, SMTT(60) DEF Under, Apart
<1>9. Bounded(L \ {n}, lo2, hi2)
    BY <1>1, <1>2, <1>6 DEF Bounded
<1>10. Nested(L \ {n}, lo2, hi2)
    <2> SUFFICES ASSUME NEW j \in L \ {n}, NEW m \in L \ {n}, j # m
                 PROVE  Under(lo2, hi2, j, m) \/ Under(lo2, hi2, m, j) \/ Apart(lo2, hi2, j, m)
        BY DEF Nested
    <2>1. CASE j = k
        BY <1>7, <2>1
    <2>2. CASE m = k
        BY <1>7, <2>2 DEF Apart
    <2>3. CASE j # k /\ m # k
        BY <1>8, <2>3
    <2> QED
        BY <2>1, <2>2, <2>3
<1> QED
    BY <1>9, <1>10 DEF lo2, hi2

\* k is the least node on the right of n.
LeastRight(tree, L, lo, hi, n, k) ==
    /\ n \in L /\ k \in L
    /\ tree.left[n] # nil /\ tree.right[n] # nil
    /\ lo[k] = Hash[n] /\ hi[k] <= hi[n]
    /\ tree.left[k] = nil

\* What the least node on the right looks like, and Unlink of it.
LEMMA LeastRightFacts ==
    ASSUME NEW tree \in Trees, NEW L, NEW lo, NEW hi, Shape(tree, L, lo, hi),
           NEW n, NEW k, LeastRight(tree, L, lo, hi, n, k)
    PROVE  /\ k # n /\ k # tree.left[n] /\ k # tree.root
           /\ tree.parent[k] \in L /\ tree[SideOf(tree, k)][tree.parent[k]] = k
           /\ SideOf(tree, k) = IF tree.parent[k] = n THEN "right" ELSE "left"
           /\ k = tree.right[n] <=> tree.parent[k] = n
           /\ tree.parent[n] \notin {k, tree.parent[k]}
           /\ Unlinked(tree, n, k, Unlink(tree, n, k))
<1>1. /\ Knit(tree, L) /\ L \subseteq Ids /\ nil \notin L /\ n \in L /\ k \in L
      /\ n \in Ids /\ k \in Ids /\ "left" \in Sides /\ "right" \in Sides
    BY ShapeKnit, Constants DEF Knit, LeastRight, Sides
<1>2. /\ lo[n] < Hash[n] /\ Hash[n] < hi[n] /\ lo[k] < Hash[k] /\ Hash[k] < hi[k]
      /\ lo[k] = Hash[n] /\ hi[k] <= hi[n]
      /\ lo[n] \in Int /\ hi[n] \in Int /\ Hash[n] \in Int
      /\ lo[k] \in Int /\ hi[k] \in Int /\ Hash[k] \in Int
      /\ -1 <= lo[n]
    BY <1>1, Bounds DEF Shape, LeastRight
<1>3. k # n
    BY <1>2
<1>4. k # tree.root
    BY <1>1, <1>2 DEF Shape, Rooted
<1> DEFINE q == tree.parent[k]
           s == SideOf(tree, k)
<1>5. q \in L /\ tree[s][q] = k /\ s \in Sides
    BY <1>1, <1>4, SideOfSides DEF Knit
<1>6. lo[k] = From(lo, q, s) /\ hi[k] = To(hi, q, s)
    BY <1>1, <1>5, ChildBounds
<1>7. k # tree.left[n]
    <2>1. k = tree["left"][n] => lo[k] = From(lo, n, "left")
        BY <1>1, ChildBounds
    <2> QED
        BY <1>2, <2>1 DEF From
<1>8. s = IF q = n THEN "right" ELSE "left"
    <2>1. CASE q = n
        BY <1>5, <1>7, <2>1 DEF Sides
    <2>2. CASE q # n /\ s = "right"
        BY <1>1, <1>2, <1>5, <1>6, <2>2, Constants DEF From
    <2> QED
        BY <1>5, <2>1, <2>2 DEF Sides
<1>9. k = tree.right[n] <=> q = n
    <2>1. k = tree["right"][n] => q = n
        BY <1>1 DEF Knit
    <2>2. q = n => k = tree["right"][n]
        BY <1>5, <1>8
    <2> QED
        BY <2>1, <2>2
<1>10. tree.parent[n] # k
    <2> SUFFICES ASSUME tree.parent[n] = k  PROVE FALSE
        OBVIOUS
    <2> DEFINE r == SideOf(tree, n)
    <2>1. n # tree.root
        BY <1>1 DEF Knit
    <2>2. tree[r][k] = n /\ r \in Sides
        BY <1>1, <2>1, SideOfSides DEF Knit
    <2>3. lo[n] = From(lo, k, r)
        BY <1>1, <2>2, ChildBounds
    <2> QED
        BY <1>2, <2>2, <2>3 DEF From, Sides
<1>11. tree.parent[n] # q
    <2> SUFFICES ASSUME tree.parent[n] = q  PROVE FALSE
        OBVIOUS
    <2> DEFINE r == SideOf(tree, n)
    <2>1. n # tree.root
        BY <1>1, <1>5 DEF Knit
    <2>2. tree[r][q] = n /\ r \in Sides
        BY <1>1, <2>1, SideOfSides DEF Knit
    <2>3. lo[n] = From(lo, q, r) /\ hi[n] = To(hi, q, r)
        BY <1>1, <1>5, <2>2, ChildBounds
    <2>4. r # s
        BY <1>3, <1>5, <2>2
    <2>5. Hash[q] \in Int /\ lo[q] \in Int /\ hi[q] \in Int
        BY <1>5, Bounds DEF Shape
    <2> QED
        BY <1>2, <1>5, <1>6, <2>2, <2>3, <2>4, <2>5 DEF From, To, Sides
<1>12. Unlinked(tree, n, k, Unlink(tree, n, k))
    <2> DEFINE c == tree.right[k]
    <2>1. /\ tree.left[n] # nil /\ tree.right[n] # nil
        BY DEF LeastRight
    <2>2. /\ tree["left"][n] # nil => tree.parent[tree["left"][n]] = n
          /\ tree["left"][n] # n /\ tree["right"][n] # n
        BY <1>1, Constants DEF Knit
    <2>3. /\ tree["right"][k] # nil => tree.parent[tree["right"][k]] = k
          /\ tree["right"][k] # k /\ (tree["right"][k] # nil => tree["right"][k] # tree.parent[k])
        BY <1>1, Constants DEF Knit
    <2>4. tree.left[n] # c
        BY <1>3, <2>1, <2>2, <2>3
    <2>5. c # n
        BY <1>1, <1>10, <2>3
    <2>6. c # k
        BY <2>3
    <2>7. tree.parent[n] # n
        <3>1. CASE n = tree.root
            BY <1>1, <3>1 DEF Knit
        <3>2. CASE n # tree.root
            BY <1>1, <3>2, SideOfSides DEF Knit
        <3> QED
            BY <3>1, <3>2
    <2>8. q # k
        BY <1>1, <1>5 DEF Knit
    <2>9. q # nil
        BY <1>1, <1>5
    <2> QED
        BY <1>1, <1>3, <1>7, <1>9, <1>10, <1>11, <2>1, <2>2, <2>4, <2>5, <2>6, <2>7, <2>8, <2>9,
           UnlinkFacts
<1> QED
    BY <1>3, <1>4, <1>5, <1>7, <1>8, <1>9, <1>10, <1>11, <1>12

\* Unlink makes a tree without the node.
LEMMA UnlinkShape ==
    ASSUME NEW tree \in Trees, NEW L, NEW lo, NEW hi, Shape(tree, L, lo, hi),
           Outside(tree, L, nil),
           NEW n, NEW k, LeastRight(tree, L, lo, hi, n, k)
    PROVE  /\ Shape(Unlink(tree, n, k), L \ {n}, UnlinkLo(lo, n, k), UnlinkHi(hi, n, k))
           /\ Outside(Unlink(tree, n, k), L \ {n}, n)
<1> DEFINE T == Unlink(tree, n, k)
           L2 == L \ {n}
           lo2 == UnlinkLo(lo, n, k)
           hi2 == UnlinkHi(hi, n, k)
           c == tree.right[k]
           q == tree.parent[k]
<1>1. /\ Knit(tree, L) /\ L \subseteq Ids /\ nil \notin L /\ n \in L /\ k \in L2
      /\ n \in Ids /\ k \in Ids /\ "left" \in Sides /\ "right" \in Sides
      /\ L2 \in SUBSET Ids
      /\ lo[k] = Hash[n] /\ hi[k] <= hi[n] /\ tree.left[k] = nil
      /\ tree.left[n] # nil /\ tree.right[n] # nil
    BY ShapeKnit, LeastRightFacts, Constants DEF Knit, LeastRight, Sides
<1>2. /\ k # n /\ k # tree.left[n] /\ k # tree.root
      /\ q \in L /\ tree[SideOf(tree, k)][q] = k
      /\ SideOf(tree, k) = IF q = n THEN "right" ELSE "left"
      /\ k = tree.right[n] <=> q = n
      /\ tree.parent[n] \notin {k, q}
      /\ Unlinked(tree, n, k, T)
    BY LeastRightFacts
<1> HIDE DEF T
<1>3. Bounded(L2, lo2, hi2) /\ Nested(L2, lo2, hi2)
    BY <1>1, UnlinkNested
<1>4. /\ lo2[k] = lo[n] /\ hi2[k] = hi[n]
      /\ \A m \in Ids \ {k} : /\ lo2[m] = IF lo[m] = Hash[n] THEN Hash[k] ELSE lo[m]
                              /\ hi2[m] = IF hi[m] = Hash[n] THEN Hash[k] ELSE hi[m]
    BY <1>1 DEF UnlinkLo, UnlinkHi
<1> HIDE DEF lo2, hi2
<1>5. \A m \in L : /\ lo[m] \in Int /\ hi[m] \in Int /\ Hash[m] \in Int
                   /\ lo[m] < Hash[m] /\ Hash[m] < hi[m]
                   /\ -1 <= lo[m] /\ hi[m] <= HashBound + 1
                   /\ 0 <= Hash[m] /\ Hash[m] <= HashBound /\ HashBound \in Int
                   /\ m # n => Hash[m] # Hash[n]
    BY <1>1, Bounds, Constants DEF Shape
<1>6. ASSUME NEW m \in L2, m # k, NEW r \in Sides
      PROVE  /\ From(lo2, m, r) = IF From(lo, m, r) = Hash[n] THEN Hash[k] ELSE From(lo, m, r)
             /\ To(hi2, m, r) = IF To(hi, m, r) = Hash[n] THEN Hash[k] ELSE To(hi, m, r)
    BY <1>1, <1>4, <1>5, <1>6 DEF From, To
<1>7. ASSUME NEW m \in L2, m # k
      PROVE  /\ Hash[m] <= Hash[n] \/ Hash[k] < Hash[m]
             /\ lo[m] <= Hash[n] \/ Hash[k] <= lo[m]
             /\ hi[m] <= Hash[n] \/ Hash[k] < hi[m]
    <2>1. tree["left"][k] = nil
        BY <1>1
    <2> QED
        BY <1>1, <1>2, <1>7, <2>1, CutGap
\* A child that stays where it is.
<1>8. ASSUME NEW m \in L2 \ {k}, NEW r \in Sides, T[r][m] = tree[r][m],
             tree[r][m] \notin {n, k}
      PROVE  Fits(T, L2, lo2, hi2, m, r)
    <2>1. Fits(tree, L, lo, hi, m, r)
        BY DEF Shape
    <2>2. CASE tree[r][m] = nil
        <3>1. None(L, From(lo, m, r), To(hi, m, r))
            BY <2>1, <2>2 DEF Fits
        <3>2. ASSUME NEW j \in L2
              PROVE  ~ (From(lo2, m, r) < Hash[j] /\ Hash[j] < To(hi2, m, r))
            <4>1. /\ ~ (From(lo, m, r) < Hash[j] /\ Hash[j] < To(hi, m, r))
                  /\ ~ (From(lo, m, r) < Hash[k] /\ Hash[k] < To(hi, m, r))
                BY <1>1, <3>1 DEF None
            <4>2. /\ From(lo, m, r) \in Int /\ To(hi, m, r) \in Int /\ Hash[j] \in Int
                  /\ Hash[n] \in Int /\ Hash[k] \in Int /\ Hash[n] < Hash[k]
                BY <1>1, <1>5 DEF From, To
            <4>3. j = k \/ Hash[j] <= Hash[n] \/ Hash[k] < Hash[j]
                BY <1>7
            <4>4. Hash[j] # Hash[n]
                BY <1>5
            <4> QED
                BY <1>6, <4>1, <4>2, <4>3, <4>4
        <3> QED
            BY <1>8, <2>2, <3>2 DEF Fits, None
    <2>3. CASE tree[r][m] # nil
        <3> DEFINE d == tree[r][m]
        <3>1. d \in L /\ tree.parent[d] = m /\ lo[d] = From(lo, m, r) /\ hi[d] = To(hi, m, r)
            BY <2>1, <2>3 DEF Fits
        <3>2. /\ d # tree.left[n] /\ d # tree.right[n]
            <4>1. tree["left"][n] # nil /\ tree["right"][n] # nil
                BY <1>1
            <4>2. tree.parent[tree["left"][n]] = n /\ tree.parent[tree["right"][n]] = n
                BY <1>1, <4>1 DEF Knit
            <4> QED
                BY <3>1, <4>2
        <3>3. d # c
            <4>1. tree["right"][k] # nil => tree.parent[tree["right"][k]] = k
                BY <1>1 DEF Knit
            <4> QED
                BY <2>3, <3>1, <4>1
        <3>4. T.parent[d] = m
            BY <1>1, <1>2, <1>8, <3>1, <3>2, <3>3, Constants DEF Unlinked
        <3>5. lo2[d] = From(lo2, m, r) /\ hi2[d] = To(hi2, m, r)
            <4>1. d \in Ids \ {k} /\ m \in L2 /\ m # k
                BY <1>1, <1>8, <3>1
            <4> HIDE DEF d
            <4> QED
                BY <1>4, <1>6, <3>1, <4>1
        <3> QED
            BY <1>8, <2>3, <3>1, <3>4, <3>5 DEF Fits
    <2> QED
        BY <2>2, <2>3
<1>9. Fits(T, L2, lo2, hi2, k, "left")
    <2> DEFINE d == tree.left[n]
    <2>1. T.left[k] = d /\ T.parent[d] = k
        <3>1. d \in Nodes
            BY <1>1, Typed
        <3> QED
            BY <1>2, <3>1 DEF Unlinked
    <2>2. tree["left"][n] # nil
        BY <1>1
    <2>3. d \in L /\ lo[d] = From(lo, n, "left") /\ hi[d] = To(hi, n, "left")
        BY <1>1, <2>2, ChildBounds
    <2>4. d # n /\ d # k
        BY <1>1, <1>2, <2>2 DEF Knit
    <2>5. lo2[d] = lo[n] /\ hi2[d] = Hash[k]
        BY <1>1, <1>4, <1>5, <2>3, <2>4 DEF From, To
    <2> HIDE DEF d
    <2> QED
        BY <1>1, <1>4, <2>1, <2>3, <2>4, <2>5 DEF Fits, From, To
<1>10. c # nil => /\ c \in L2 /\ c # k /\ tree.parent[c] = k /\ c # tree.left[n] /\ c # tree.right[n]
                  /\ c # q /\ c # tree.root
                  /\ lo[c] = Hash[k] /\ hi[c] = hi[k]
                  /\ lo2[c] = Hash[k] /\ hi2[c] = hi[k]
    <2> HAVE c # nil
    <2>1. tree["right"][k] # nil /\ tree["left"][n] # nil /\ tree["right"][n] # nil
        BY <1>1
    <2>2. c \in L /\ tree.parent[c] = k /\ c # k /\ c # q /\ c # tree.root
        BY <1>1, <2>1 DEF Knit
    <2>3. lo[c] = From(lo, k, "right") /\ hi[c] = To(hi, k, "right")
        BY <1>1, <2>1, ChildBounds
    <2>4. tree.parent[tree["left"][n]] = n /\ tree.parent[tree["right"][n]] = n
        BY <1>1, <2>1 DEF Knit
    <2>5. c # tree.left[n] /\ c # tree.right[n]
        BY <1>2, <2>2, <2>4
    <2>6. c # n
        BY <1>2, <2>2
    <2>7. lo[c] = Hash[k] /\ hi[c] = hi[k]
        BY <2>3 DEF From, To
    <2>8. Hash[k] # Hash[n] /\ hi[k] # Hash[n]
        BY <1>1, <1>5
    <2> HIDE DEF c
    <2> QED
        BY <1>1, <1>4, <2>2, <2>5, <2>6, <2>7, <2>8
<1>11. Fits(T, L2, lo2, hi2, k, "right")
    <2>1. From(lo2, k, "right") = Hash[k] /\ To(hi2, k, "right") = hi[n]
        BY <1>4 DEF From, To
    <2>2. CASE q = n
        <3>1. T.right[k] = c /\ (c # nil => T.parent[c] = k)
            <4>1. c \in Nodes
                BY <1>1, Typed
            <4>2. T.right[k] = c
                BY <1>2, <2>2 DEF Unlinked
            <4>3. c # nil => T.parent[c] = k
                BY <1>2, <1>10, <2>2, <4>1 DEF Unlinked
            <4> QED
                BY <4>2, <4>3
        <3>2. hi[k] = hi[n]
            <4>1. tree["right"][n] = k /\ tree["right"][n] # nil
                BY <1>1, <1>2, <2>2
            <4> QED
                BY <1>1, <4>1, ChildBounds DEF To
        <3>3. CASE c = nil
            <4>1. Fits(tree, L, lo, hi, k, "right") /\ tree["right"][k] = nil
                BY <1>1, <3>3 DEF Shape
            <4>2. None(L, Hash[k], hi[n])
                BY <3>2, <4>1 DEF Fits, From, To
            <4> QED
                BY <2>1, <3>1, <3>3, <4>2 DEF Fits, None
        <3>4. CASE c # nil
            BY <1>10, <2>1, <3>1, <3>2, <3>4 DEF Fits
        <3> QED
            BY <3>3, <3>4
    <2>3. CASE q # n
        <3> DEFINE d == tree.right[n]
        <3>1. d \in Nodes /\ d # nil /\ d # k /\ tree["right"][n] # nil
            BY <1>1, <1>2, <2>3, Typed
        <3>2. d \in L /\ d # n /\ d # tree.left[n]
              /\ lo[d] = From(lo, n, "right") /\ hi[d] = To(hi, n, "right")
            <4>1. d \in L /\ d # n /\ d # tree[Other("right")][n]
                BY <1>1, <3>1 DEF Knit
            <4> QED
                BY <1>1, <3>1, <4>1, ChildBounds DEF Other
        <3>3. T.right[k] = d /\ T.parent[d] = k
            BY <1>2, <2>3, <3>1, <3>2 DEF Unlinked
        <3>4. lo2[d] = Hash[k] /\ hi2[d] = hi[n]
            BY <1>1, <1>4, <1>5, <3>1, <3>2 DEF From, To
        <3> HIDE DEF d
        <3> QED
            BY <1>1, <2>1, <3>1, <3>2, <3>3, <3>4 DEF Fits
    <2> QED
        BY <2>2, <2>3
<1>12. ASSUME NEW m \in L2, NEW r \in Sides  PROVE Fits(T, L2, lo2, hi2, m, r)
    <2>1. CASE m = k
        BY <1>9, <1>11, <2>1 DEF Sides
    <2>2. CASE m # k /\ m = tree.parent[n] /\ r = SideOf(tree, n)
        <3>1. T[r][m] = k /\ T.parent[k] = m
            BY <1>1, <1>2, <2>2, Constants DEF Unlinked
        <3>2. tree[r][m] = n
            BY <1>1, <2>2 DEF Knit
        <3>3. lo[n] = From(lo, m, r) /\ hi[n] = To(hi, m, r)
            BY <1>1, <3>2, ChildBounds
        <3>4. lo[n] # Hash[n] /\ hi[n] # Hash[n]
            BY <1>1, <1>5
        <3>5. lo2[k] = From(lo2, m, r) /\ hi2[k] = To(hi2, m, r)
            BY <1>4, <1>6, <2>2, <3>3, <3>4
        <3> QED
            BY <1>1, <3>1, <3>5 DEF Fits
    <2>3. CASE m # k /\ m = q /\ r = SideOf(tree, k)
        <3>1. q # n /\ r = "left"
            BY <1>2, <2>3
        <3>2. T[r][m] = c
            BY <1>1, <1>2, <2>3 DEF Unlinked
        <3>3. tree[r][m] = k /\ tree[r][m] # nil
            BY <1>1, <1>2, <2>3
        <3>4. lo[k] = From(lo, m, r) /\ hi[k] = To(hi, m, r)
            BY <1>1, <3>3, ChildBounds
        <3>5. hi[k] # Hash[n]
            BY <1>1, <1>5
        <3>6. From(lo2, m, r) = Hash[k] /\ To(hi2, m, r) = hi[k]
            BY <1>1, <1>6, <2>3, <3>4, <3>5
        <3>7. CASE c = nil
            <4>1. Fits(tree, L, lo, hi, k, "right") /\ tree["right"][k] = nil
                BY <1>1, <3>7 DEF Shape
            <4>2. None(L, Hash[k], hi[k])
                BY <4>1 DEF Fits, From, To
            <4> QED
                BY <3>2, <3>6, <3>7, <4>2 DEF Fits, None
        <3>8. CASE c # nil
            <4>1. T.parent[c] = q
                BY <1>1, <1>2, <1>10, <3>1, <3>8, Constants DEF Unlinked
            <4> QED
                BY <1>10, <2>3, <3>2, <3>6, <3>8, <4>1 DEF Fits
        <3> QED
            BY <3>7, <3>8
    <2>4. CASE m # k /\ ~ (m = tree.parent[n] /\ r = SideOf(tree, n))
                     /\ ~ (m = q /\ r = SideOf(tree, k))
        <3>1. T[r][m] = tree[r][m]
            BY <1>1, <1>2, <2>4 DEF Unlinked
        <3>2. tree[r][m] # n
            BY <1>1, <2>4 DEF Knit
        <3>3. tree[r][m] # k
            BY <1>1, <2>4 DEF Knit
        <3> QED
            BY <1>8, <2>4, <3>1, <3>2, <3>3
    <2> QED
        BY <2>1, <2>2, <2>3, <2>4
<1>13. Rooted(T, L2, lo2, hi2)
    <2>1. tree.root \in L /\ tree.parent[tree.root] = nil
          /\ lo[tree.root] = -1 /\ hi[tree.root] = HashBound + 1
        BY <1>1 DEF Shape, Rooted
    <2>2. CASE tree.parent[n] = nil
        <3>1. n = tree.root
            BY <1>1, <2>2 DEF Knit
        <3>2. T.root = k /\ T.parent[k] = nil
            BY <1>1, <1>2, <2>2, Constants DEF Unlinked
        <3> QED
            BY <1>1, <1>4, <2>1, <3>1, <3>2 DEF Rooted
    <2>3. CASE tree.parent[n] # nil
        <3>1. n # tree.root /\ tree.root \in L2 /\ tree.root # nil
            BY <1>1, <2>1, <2>3
        <3>2. T.root = tree.root
            BY <1>2, <2>3 DEF Unlinked
        <3>3. tree.root # tree.left[n] /\ tree.root # tree.right[n] /\ tree.root # c
            <4>1. /\ tree["left"][n] # tree.root /\ tree["right"][n] # tree.root
                  /\ tree["right"][k] # tree.root
                BY <1>1, <3>1 DEF Knit
            <4> QED
                BY <4>1
        <3>4. T.parent[tree.root] = nil
            BY <1>1, <1>2, <2>1, <3>1, <3>3, Constants DEF Unlinked
        <3>5. lo2[tree.root] = -1 /\ hi2[tree.root] = HashBound + 1
            BY <1>1, <1>2, <1>4, <1>5, <2>1
        <3> QED
            BY <3>1, <3>2, <3>4, <3>5 DEF Rooted
    <2> QED
        BY <2>2, <2>3
<1>14. ASSUME NEW m \in L2, m # T.root  PROVE \E j \in L2, r \in Sides : T[r][j] = m
    <2>1. CASE m = k
        <3>1. tree.parent[n] # nil
            BY <1>2, <1>14, <2>1 DEF Unlinked
        <3>2. n # tree.root
            BY <1>1, <3>1 DEF Knit
        <3>3. tree.parent[n] \in L /\ tree.parent[n] # n /\ tree.parent[n] # k
            BY <1>1, <1>2, <3>2, SideOfSides DEF Knit
        <3>4. T[SideOf(tree, n)][tree.parent[n]] = k
            BY <1>1, <1>2, <3>3, SideOfSides DEF Unlinked
        <3> QED
            BY <2>1, <3>3, <3>4, SideOfSides
    <2>2. CASE m # k
        <3> DEFINE j == tree.parent[m]
                   r == SideOf(tree, m)
        <3>1. m # tree.root
            <4>1. SUFFICES ASSUME m = tree.root  PROVE FALSE
                OBVIOUS
            <4>2. tree.parent[n] = nil
                BY <1>2, <1>14, <4>1 DEF Unlinked
            <4> QED
                BY <1>1, <4>1, <4>2 DEF Knit
        <3>2. j \in L /\ r \in Sides /\ tree[r][j] = m
            BY <1>1, <3>1, SideOfSides DEF Knit
        <3>3. CASE j = n /\ r = "left"
            BY <1>1, <1>2, <3>2, <3>3 DEF Unlinked
        <3>4. CASE j = n /\ r = "right"
            <4>1. tree.right[n] = m
                BY <3>2, <3>4
            <4>2. T.right[k] = m
                BY <1>2, <2>2, <4>1 DEF Unlinked
            <4> QED
                BY <1>1, <4>2
        <3>5. CASE j = k
            <4>1. r = "right"
                BY <1>1, <3>2, <3>5 DEF Sides
            <4>2. m = c
                BY <3>2, <3>5, <4>1
            <4>3. CASE q = n
                BY <1>1, <1>2, <4>2, <4>3 DEF Unlinked
            <4>4. CASE q # n
                <5>1. q \in Ids \ {n, k}
                    BY <1>1, <1>2, <4>4 DEF Knit
                <5>2. T[SideOf(tree, k)][q] = c
                    BY <1>2, <5>1, SideOfSides DEF Unlinked
                <5> QED
                    BY <1>2, <4>2, <4>4, <5>1, <5>2, SideOfSides
            <4> QED
                BY <4>3, <4>4
        <3>6. CASE j \notin {n, k}
            <4>1. ~ (j = tree.parent[n] /\ r = SideOf(tree, n))
                <5>1. SUFFICES ASSUME j = tree.parent[n], r = SideOf(tree, n)  PROVE FALSE
                    OBVIOUS
                <5>2. n # tree.root
                    BY <1>1, <3>2, <5>1 DEF Knit
                <5>3. tree[r][j] = n
                    BY <1>1, <5>1, <5>2 DEF Knit
                <5> QED
                    BY <3>2, <5>3
            <4>2. ~ (j = q /\ r = SideOf(tree, k))
                BY <1>2, <2>2, <3>2
            <4>3. T[r][j] = m
                BY <1>1, <1>2, <3>2, <3>6, <4>1, <4>2 DEF Unlinked
            <4> QED
                BY <3>2, <3>6, <4>3
        <3> QED
            BY <3>2, <3>3, <3>4, <3>5, <3>6 DEF Sides
    <2> QED
        BY <2>1, <2>2
<1>15. Hangs(T, L2)
    <2> HIDE DEF L2
    <2> QED  BY <1>1, <1>12, <1>14, HangsFrom
<1>16. Outside(T, L2, n)
    <2> SUFFICES ASSUME NEW m \in Ids \ L2, NEW r \in Sides
                 PROVE  T[r][m] = nil \/ (m = n /\ T[r][m] \in L2)
        BY DEF Outside
    <2>1. CASE m = n
        <3>1. T[r][m] = tree[r][m]
            BY <1>2, <2>1 DEF Unlinked
        <3> QED
            BY <1>1, <2>1, <3>1 DEF Knit
    <2>2. CASE m # n
        <3>1. m # k /\ m \notin L /\ m # q
            BY <1>1, <1>2, <2>2
        <3>2. m # tree.parent[n]
            BY <1>1, <3>1, Constants DEF Knit
        <3>3. T[r][m] = tree[r][m]
            BY <1>2, <2>2, <3>1, <3>2 DEF Unlinked
        <3> QED
            BY <3>1, <3>3, Constants DEF Outside
    <2> QED
        BY <2>1, <2>2
<1> QED
    BY <1>3, <1>12, <1>13, <1>15, <1>16 DEF Shape, T, lo2, hi2

-----------------------------------------------------------------------------
(* Colors. *)

\* The colors are two.
LEMMA ColorFacts ==
    ASSUME NEW tree \in Trees, NEW n \in Nodes
    PROVE  /\ tree.color[n] = "RED" \/ tree.color[n] = "BLACK"
           /\ Black(tree, n) = IF tree.color[n] = "RED" THEN 0 ELSE 1
           /\ "RED" # "BLACK" /\ "RED" \in Colors /\ "BLACK" \in Colors
BY Typed DEF Colors, Black

\* Colors do not matter to the shape.
LEMMA RecolorShape ==
    ASSUME NEW tree \in Trees, NEW T, Recolored(tree, T), NEW L
    PROVE  /\ \A m : SideOf(T, m) = SideOf(tree, m)
           /\ Knit(tree, L) => Knit(T, L)
           /\ \A lo, hi : Shape(tree, L, lo, hi) => Shape(T, L, lo, hi)
           /\ \A e : Outside(tree, L, e) => Outside(T, L, e)
<1>1. \A m : SideOf(T, m) = SideOf(tree, m)
    BY DEF SideOf, Recolored
<1>2. Knit(tree, L) => Knit(T, L)
    BY <1>1, SideOfSides, Constants DEF Knit, Recolored
<1>3. ASSUME NEW lo, NEW hi, Shape(tree, L, lo, hi)  PROVE Shape(T, L, lo, hi)
    <2>1. Rooted(T, L, lo, hi)
        BY <1>3 DEF Shape, Rooted, Recolored
    <2>2. \A m \in L, s \in Sides : Fits(T, L, lo, hi, m, s)
        BY <1>3 DEF Shape, Fits, Recolored
    <2>3. Hangs(T, L)
        BY <1>1, <1>3, SideOfSides DEF Shape, Hangs, Recolored
    <2> QED
        BY <1>3, <2>1, <2>2, <2>3 DEF Shape
<1>4. \A e : Outside(tree, L, e) => Outside(T, L, e)
    BY DEF Outside, Recolored
<1> QED
    BY <1>1, <1>2, <1>3, <1>4

\* A rotation of a tree that was painted first.
LEMMA TurnedRecolored ==
    ASSUME NEW tree \in Trees, NEW P, Recolored(tree, P),
           NEW side \in Sides, NEW u \in Ids, NEW v \in Ids, NEW T,
           Turned(P, side, u, v, T)
    PROVE  Turned(tree, side, u, v, T)
<1>1. Other(side) \in Sides
    BY Constants
<1> QED
    BY <1>1 DEF Turned, Recolored, SideOf

\* The black heights at one node, where a child may lack one.
LEMMA HeightsAt ==
    ASSUME NEW tree \in Trees, NEW L, L \subseteq Ids, NEW b, NEW p, NEW s,
           Heights(tree, L, b, p, s), NEW n \in L, NEW r \in Sides
    PROVE  /\ b[n] \in Nat /\ b[n] > 0 /\ b[tree[r][n]] \in Nat
           /\ n \in Nodes /\ tree[r][n] \in Nodes
           /\ n # p \/ r # s => b[n] = b[tree[r][n]] + (IF tree.color[n] = "RED" THEN 0 ELSE 1)
           /\ n = p /\ r = s => b[n] = b[tree[r][n]] + 1 + (IF tree.color[n] = "RED" THEN 0 ELSE 1)
<1>1. n \in Ids /\ n \in Nodes /\ tree[r][n] \in Nodes /\ b \in [Nodes -> Nat]
    BY Constants, Typed DEF Heights
<1>2. b[n] \in Nat /\ b[tree[r][n]] \in Nat
    BY <1>1
<1>3. b[n] > 0 /\ b[n] = b[tree[r][n]] + Lacks(n, r, p, s) + Black(tree, n)
    BY DEF Heights
<1>4. Lacks(n, r, p, s) = IF n = p /\ r = s THEN 1 ELSE 0
    BY DEF Lacks
<1>5. Black(tree, n) = IF tree.color[n] = "RED" THEN 0 ELSE 1
    BY <1>1, ColorFacts
<1> QED
    BY <1>1, <1>2, <1>3, <1>4, <1>5

\* The black heights at one node when no child lacks any.
LEMMA EvenHeights ==
    ASSUME NEW tree \in Trees, NEW L, L \subseteq Ids, NEW b, Heights(tree, L, b, nil, "left"),
           NEW n \in L, NEW r \in Sides
    PROVE  /\ b[n] \in Nat /\ b[n] > 0 /\ b[tree[r][n]] \in Nat
           /\ n \in Nodes /\ tree[r][n] \in Nodes
           /\ tree.color[n] = "RED" => b[n] = b[tree[r][n]]
           /\ tree.color[n] = "BLACK" => b[n] = b[tree[r][n]] + 1
<1>1. n # nil /\ "RED" # "BLACK"
    BY Constants
<1>2. /\ b[n] \in Nat /\ b[n] > 0 /\ b[tree[r][n]] \in Nat
      /\ n \in Nodes /\ tree[r][n] \in Nodes
      /\ b[n] = b[tree[r][n]] + (IF tree.color[n] = "RED" THEN 0 ELSE 1)
    BY <1>1, HeightsAt
<1> QED
    BY <1>1, <1>2

\* The heights below a rotation.
LEMMA TurnedHeights ==
    ASSUME NEW tree \in Trees, NEW L, Knit(tree, L),
           NEW side \in Sides, NEW u \in L, NEW v \in L, v = tree[Other(side)][u],
           NEW T, Turned(tree, side, u, v, T), NEW p, NEW s,
           NEW b \in [Nodes -> Nat], b[nil] = 1, \A n \in L : b[n] > 0,
           \A n \in L \ {u, v}, r \in Sides :
             b[n] = b[IF tree[r][n] = u THEN v ELSE tree[r][n]] + Lacks(n, r, p, s) + Black(T, n),
           b[u] = b[tree[side][u]] + Lacks(u, side, p, s) + Black(T, u),
           b[u] = b[tree[side][v]] + Lacks(u, Other(side), p, s) + Black(T, u),
           b[v] = b[u] + Lacks(v, side, p, s) + Black(T, v),
           b[v] = b[tree[Other(side)][v]] + Lacks(v, Other(side), p, s) + Black(T, v)
    PROVE  Heights(T, L, b, p, s)
<1> SUFFICES ASSUME NEW n \in L, NEW r \in Sides
             PROVE  b[n] = b[T[r][n]] + Lacks(n, r, p, s) + Black(T, n)
    BY DEF Heights
<1>1. r = side \/ r = Other(side)
    BY DEF Sides, Other
<1>2. CASE n = u
    BY <1>1, <1>2 DEF Turned
<1>3. CASE n = v
    BY <1>1, <1>3 DEF Turned
<1>4. CASE n \notin {u, v}
    <2>1. n \in Ids
        BY DEF Knit
    <2>2. T[r][n] = IF n = tree.parent[u] /\ r = SideOf(tree, u) THEN v ELSE tree[r][n]
        BY <1>4, <2>1 DEF Turned
    <2>3. n = tree.parent[u] /\ r = SideOf(tree, u) <=> tree[r][n] = u
        <3>1. tree[r][n] = u => n = tree.parent[u] /\ r = SideOf(tree, u)
            BY Constants DEF Knit
        <3>2. n = tree.parent[u] /\ r = SideOf(tree, u) => tree[r][n] = u
            BY Constants DEF Knit
        <3> QED
            BY <3>1, <3>2
    <2>4. T[r][n] = IF tree[r][n] = u THEN v ELSE tree[r][n]
        BY <2>2, <2>3
    <2> QED
        BY <1>4, <2>4
<1> QED
    BY <1>2, <1>3, <1>4

\* The same when no height changes but those of u and v.
Swap(b, u, v, a) == [b EXCEPT ![u] = a, ![v] = b[u]]

\* The heights after a rotation, if those of the two nodes and of their children fit.
LEMMA SwappedHeights ==
    ASSUME NEW tree \in Trees, NEW L, Knit(tree, L),
           NEW side \in Sides, NEW u \in L, NEW v \in L, v = tree[Other(side)][u],
           NEW T, Turned(tree, side, u, v, T), NEW p, NEW s,
           NEW b, Heights(tree, L, b, p, s), NEW a \in Nat, a > 0,
           \A n \in L \ {u, v} : T.color[n] = tree.color[n],
           a = b[tree[side][u]] + Lacks(u, side, p, s) + Black(T, u),
           a = b[tree[side][v]] + Lacks(u, Other(side), p, s) + Black(T, u),
           b[u] = a + Lacks(v, side, p, s) + Black(T, v),
           b[u] = b[tree[Other(side)][v]] + Lacks(v, Other(side), p, s) + Black(T, v)
    PROVE  Heights(T, L, Swap(b, u, v, a), p, s)
<1> DEFINE b2 == Swap(b, u, v, a)
<1>1. L \subseteq Ids /\ L \subseteq Nodes /\ nil \notin L /\ Other(side) \in Sides /\ Other(side) # side
      /\ b \in [Nodes -> Nat] /\ b[nil] = 1
    BY Constants DEF Knit, Heights
<1>2. v # u
    BY <1>1 DEF Knit
<1>3. /\ b2 \in [Nodes -> Nat] /\ b2[u] = a /\ b2[v] = b[u]
      /\ \A n \in Nodes \ {u, v} : b2[n] = b[n]
    BY <1>1, <1>2 DEF Swap
<1> HIDE DEF b2
<1>4. \A n \in L : b2[n] > 0 /\ b2[n] \in Nat
    BY <1>1, <1>3 DEF Heights
<1>5. ASSUME NEW n \in L \ {u, v}, NEW r \in Sides
      PROVE  b2[n] = b2[IF tree[r][n] = u THEN v ELSE tree[r][n]] + Lacks(n, r, p, s) + Black(T, n)
    <2>1. b[n] = b[tree[r][n]] + Lacks(n, r, p, s) + Black(T, n)
        BY DEF Heights, Black
    <2>2. tree[r][n] # v
        BY <1>1 DEF Knit
    <2>3. tree[r][n] \in Nodes /\ n \in Nodes
        BY <1>1, Typed
    <2> QED
        BY <1>3, <2>1, <2>2, <2>3
<1>6. /\ tree[side][u] \in Nodes \ {u, v} /\ tree[side][v] \in Nodes \ {u, v}
      /\ tree[Other(side)][v] \in Nodes \ {u, v}
    <2>1. /\ tree[side][u] \in Nodes /\ tree[side][v] \in Nodes /\ tree[Other(side)][v] \in Nodes
        BY <1>1, Typed
    <2>2. tree.parent[v] = u /\ v # nil /\ u # nil /\ tree[side][u] # v
        BY <1>1 DEF Knit
    <2>3. tree[side][u] # u
        BY <2>2 DEF Knit
    <2>4. ASSUME NEW r \in Sides  PROVE tree[r][v] # v /\ tree[r][v] # u
        BY <2>2 DEF Knit
    <2> QED
        BY <1>1, <2>1, <2>2, <2>3, <2>4
<1>7. /\ b2[u] = b2[tree[side][u]] + Lacks(u, side, p, s) + Black(T, u)
      /\ b2[u] = b2[tree[side][v]] + Lacks(u, Other(side), p, s) + Black(T, u)
      /\ b2[v] = b2[u] + Lacks(v, side, p, s) + Black(T, v)
      /\ b2[v] = b2[tree[Other(side)][v]] + Lacks(v, Other(side), p, s) + Black(T, v)
    BY <1>3, <1>6
<1>8. b2[nil] = 1
    BY <1>1, <1>3, Constants
<1>9. Heights(T, L, b2, p, s)
    BY <1>3, <1>4, <1>5, <1>7, <1>8, TurnedHeights
<1> QED
    BY <1>9 DEF b2

-----------------------------------------------------------------------------
(* The fixup of an insertion. *)

\* The red n has the red parent p, and g is above.
RedPair(tree, L, n, p, g) ==
    /\ n \in L /\ p \in L /\ g \in L
    /\ n # p /\ n # g /\ p # g /\ n # tree.root /\ p # tree.root
    /\ p = tree.parent[n] /\ g = tree.parent[p]
    /\ tree.color[n] = "RED" /\ tree.color[p] = "RED" /\ tree.color[g] = "BLACK"
    /\ tree.color[nil] = "BLACK" /\ tree.color[tree.root] = "BLACK"
    /\ tree[SideOf(tree, n)][p] = n /\ tree[SideOf(tree, p)][g] = p

\* A red node with a red parent has a black grandparent.
LEMMA RedParent ==
    ASSUME NEW tree \in Trees, NEW L, Knit(tree, L), NEW b, NEW n, Inserted(tree, L, b, n),
           tree.color[tree.parent[n]] = "RED"
    PROVE  RedPair(tree, L, n, tree.parent[n], tree.parent[tree.parent[n]])
<1> DEFINE p == tree.parent[n]
           g == tree.parent[p]
<1>1. n \in L /\ tree.color[n] = "RED" /\ tree.color[nil] = "BLACK" /\ nil \notin L
      /\ RootBlack(tree, n) /\ L \subseteq Ids
    BY Constants DEF Inserted, Reds, Knit
<1>2. n # tree.root
    BY <1>1 DEF Knit
<1>3. p \in L /\ tree[SideOf(tree, n)][p] = n /\ SideOf(tree, n) \in Sides
    BY <1>1, <1>2, SideOfSides DEF Knit
<1>4. tree.color[tree.root] = "BLACK" /\ p # tree.root
    BY <1>1, <1>2 DEF RootBlack
<1>5. g \in L /\ tree[SideOf(tree, p)][g] = p /\ SideOf(tree, p) \in Sides
    BY <1>3, <1>4, SideOfSides DEF Knit
<1>6. n # p /\ n # g
    BY <1>1, <1>3 DEF Knit
<1>7. p # g
    BY <1>1, <1>3, <1>5 DEF Knit
<1>8. tree.color[g] = "BLACK"
    BY <1>1, <1>3, <1>5, <1>6, Constants DEF Inserted, Reds
<1> QED
    BY <1>1, <1>2, <1>3, <1>4, <1>5, <1>6, <1>7, <1>8 DEF RedPair

\* Red uncle.
LEMMA PushedDown ==
    ASSUME NEW tree \in Trees, NEW L, Knit(tree, L), NEW b, NEW n, Inserted(tree, L, b, n),
           NEW p, NEW g, RedPair(tree, L, n, p, g),
           NEW v, v = tree[Other(SideOf(tree, p))][g], tree.color[v] = "RED",
           NEW T, Recolored(tree, T),
           \A m \in Nodes : T.color[m] = IF m = g THEN "RED" ELSE IF m = v THEN "BLACK"
                                         ELSE IF m = p THEN "BLACK" ELSE tree.color[m]
    PROVE  \E b2 : Inserted(T, L, b2, g)
<1> DEFINE side == SideOf(tree, p)
           b2 == [b EXCEPT ![p] = @ + 1, ![v] = @ + 1]
<1>1. /\ n \in L /\ p \in L /\ g \in L
      /\ n # p /\ n # g /\ p # g /\ n # tree.root /\ p # tree.root
      /\ tree.color[n] = "RED" /\ tree.color[p] = "RED" /\ tree.color[g] = "BLACK"
      /\ tree.parent[p] = g /\ tree.parent[n] = p
      /\ tree[side][g] = p /\ tree.color[tree.root] = "BLACK" /\ tree.color[nil] = "BLACK"
    BY DEF RedPair
<1>2. /\ L \subseteq Ids /\ L \subseteq Nodes /\ nil \notin L
      /\ side \in Sides /\ Other(side) \in Sides /\ Other(side) # side
      /\ "RED" # "BLACK"
    BY SideOfSides, Constants DEF Knit
<1>3. v \in L /\ tree.parent[v] = g /\ v # p /\ v # g
    BY <1>1, <1>2 DEF Knit
<1>4. /\ T.root = tree.root /\ T.parent = tree.parent
      /\ \A s \in Sides : T[s] = tree[s]
    BY DEF Recolored
<1>5. b \in [Nodes -> Nat] /\ b[nil] = 1
    BY DEF Inserted, Heights
<1>6. /\ b2 \in [Nodes -> Nat]
      /\ b2[p] = b[p] + 1 /\ b2[v] = b[v] + 1
      /\ \A m \in Nodes \ {p, v} : b2[m] = b[m]
    <2>1. p \in Nodes /\ v \in Nodes /\ b[p] \in Nat /\ b[v] \in Nat
        BY <1>1, <1>2, <1>3, <1>5
    <2> QED
        BY <1>3, <1>5, <2>1
<1> HIDE DEF b2
<1>7. Heights(T, L, b2, nil, "left")
    <2>1. b2[nil] = 1 /\ nil \in Nodes
        BY <1>1, <1>2, <1>3, <1>5, <1>6, Constants
    <2>2. ASSUME NEW m \in L, NEW s \in Sides
          PROVE  b2[m] > 0 /\ b2[m] = b2[T[s][m]] + Lacks(m, s, nil, "left") + Black(T, m)
        <3>1. /\ b[m] > 0 /\ b[m] \in Nat /\ b[tree[s][m]] \in Nat
              /\ m \in Nodes /\ tree[s][m] \in Nodes
              /\ tree.color[m] = "RED" => b[m] = b[tree[s][m]]
              /\ tree.color[m] = "BLACK" => b[m] = b[tree[s][m]] + 1
              /\ tree.color[m] = "RED" \/ tree.color[m] = "BLACK"
            <4>1. Heights(tree, L, b, nil, "left")
                BY DEF Inserted
            <4> QED
                BY <1>2, <4>1, EvenHeights, ColorFacts
        <3>2. T[s][m] = tree[s][m] /\ Lacks(m, s, nil, "left") = 0
            BY <1>2, <1>4 DEF Lacks
        <3>3. Black(T, m) = IF T.color[m] = "RED" THEN 0 ELSE 1
            BY <3>1, ColorFacts DEF Recolored
        <3>4. CASE m = g
            <4>1. tree[s][m] \in {p, v}
                BY <1>1, <1>2, <3>4 DEF Sides, Other
            <4>2. b2[m] = b[m] /\ b2[tree[s][m]] = b[tree[s][m]] + 1
                BY <1>1, <1>2, <1>3, <1>6, <3>4, <4>1
            <4>3. tree.color[m] = "BLACK" /\ T.color[m] = "RED"
                BY <1>1, <1>2, <3>4
            <4> QED
                BY <1>2, <3>1, <3>2, <3>3, <4>2, <4>3
        <3>5. CASE m # g
            <4>1. tree[s][m] \notin {p, v}
                BY <1>1, <1>2, <1>3, <3>5 DEF Knit
            <4>2. b2[tree[s][m]] = b[tree[s][m]]
                BY <1>6, <3>1, <4>1
            <4>3. CASE m \in {p, v}
                <5>1. tree.color[m] = "RED" /\ T.color[m] = "BLACK" /\ b2[m] = b[m] + 1
                    BY <1>1, <1>2, <1>6, <3>1, <3>5, <4>3
                <5> QED
                    BY <1>2, <3>1, <3>2, <3>3, <4>2, <5>1
            <4>4. CASE m \notin {p, v}
                <5>1. tree.color[m] = T.color[m] /\ b2[m] = b[m]
                    BY <1>6, <3>1, <3>5, <4>4
                <5> QED
                    BY <3>1, <3>2, <3>3, <4>2, <5>1
            <4> QED
                BY <4>3, <4>4
        <3> QED
            BY <3>4, <3>5
    <2> QED
        BY <1>6, <2>1, <2>2 DEF Heights
<1>8. Reds(T, L, nil, g)
    <2>1. T.color[nil] = "BLACK"
        BY <1>1, <1>2, <1>3, <1>4, Constants
    <2>2. ASSUME NEW m \in L, T.color[m] = "RED"
          PROVE  T.color[T.parent[m]] = "BLACK" \/ T.parent[m] = nil \/ m = g
        <3> SUFFICES ASSUME m # g, tree.parent[m] # nil
                     PROVE  T.color[tree.parent[m]] = "BLACK"
            BY <1>4
        <3>1. m \notin {p, v} /\ tree.color[m] = "RED"
            BY <1>2, <1>4, <2>2
        <3>2. m # tree.root
            BY <1>1, <1>2, <3>1
        <3>3. tree.parent[m] \in L /\ tree[SideOf(tree, m)][tree.parent[m]] = m
            BY <3>2 DEF Knit
        <3>4. tree.parent[m] # g
            BY <1>1, <1>2, <3>1, <3>3, SideOfSides DEF Sides, Other
        <3>5. CASE tree.parent[m] \in {p, v}
            BY <1>2, <1>4, <3>3, <3>4, <3>5
        <3>6. CASE tree.parent[m] \notin {p, v}
            <4>1. m # n
                BY <1>1, <3>6
            <4>2. tree.color[tree.parent[m]] = "BLACK"
                BY <3>1, <4>1 DEF Inserted, Reds
            <4> QED
                BY <1>2, <1>4, <3>3, <3>4, <3>6, <4>2
        <3> QED
            BY <3>5, <3>6
    <2> QED
        BY <2>1, <2>2 DEF Reds
<1>9. RootBlack(T, g)
    <2>1. tree.root \in Nodes
        BY Typed
    <2> QED
        BY <1>1, <1>2, <1>4, <2>1 DEF RootBlack
<1>10. T.color[g] = "RED"
    BY <1>1, <1>2, <1>4
<1> QED
    BY <1>1, <1>7, <1>8, <1>9, <1>10 DEF Inserted

\* n and p are on the same side, and the uncle is black.
Outer(tree, side, far, n, p, g) ==
    /\ side \in Sides /\ far \in Sides /\ far = Other(side) /\ side = Other(far) /\ side # far
    /\ tree[side][g] = p /\ tree[side][p] = n /\ tree.color[tree[far][g]] = "BLACK"

\* Black uncle, n on the outside: p turns over g.
LEMMA TurnedOver ==
    ASSUME NEW tree \in Trees, NEW L, Knit(tree, L), NEW b, NEW n, Inserted(tree, L, b, n),
           NEW p, NEW g, RedPair(tree, L, n, p, g),
           NEW side, NEW far, Outer(tree, side, far, n, p, g),
           NEW T, Turned(tree, far, g, p, T),
           \A m \in Nodes : T.color[m] = IF m = g THEN "RED" ELSE IF m = p THEN "BLACK"
                                         ELSE tree.color[m]
    PROVE  \E b2 : Inserted(T, L, b2, n)
<1> DEFINE b2 == Swap(b, g, p, b[p])
<1>1. /\ n \in L /\ p \in L /\ g \in L
      /\ n # p /\ n # g /\ p # g /\ n # tree.root /\ p # tree.root
      /\ tree.color[n] = "RED" /\ tree.color[p] = "RED" /\ tree.color[g] = "BLACK"
      /\ tree.parent[p] = g /\ tree.parent[n] = p
      /\ tree.color[tree.root] = "BLACK" /\ tree.color[nil] = "BLACK"
    BY DEF RedPair
<1>2. /\ L \subseteq Ids /\ L \subseteq Nodes /\ nil \notin L /\ nil \in Nodes /\ "RED" # "BLACK"
    BY Constants DEF Knit
<1>3. /\ side \in Sides /\ far \in Sides /\ side # far /\ Other(far) = side /\ Other(side) = far
      /\ \A r \in Sides : r = side \/ r = far
    BY DEF Sides, Outer
<1>4. /\ b[p] \in Nat /\ b[p] > 0 /\ b[g] \in Nat
      /\ b[p] = b[tree[side][p]] /\ b[p] = b[tree[far][p]]
      /\ b[g] = b[p] + 1 /\ b[g] = b[tree[far][g]] + 1
      /\ b[tree[far][p]] \in Nat /\ b[tree[far][g]] \in Nat
    <2>1. Heights(tree, L, b, nil, "left")
        BY DEF Inserted
    <2>2. /\ b[p] \in Nat /\ b[p] > 0 /\ b[tree[side][p]] \in Nat /\ b[tree[far][p]] \in Nat
          /\ b[p] = b[tree[side][p]] /\ b[p] = b[tree[far][p]]
        BY <1>1, <1>2, <1>3, <2>1, EvenHeights
    <2>3. /\ b[g] \in Nat /\ b[tree[side][g]] \in Nat /\ b[tree[far][g]] \in Nat
          /\ b[g] = b[tree[side][g]] + 1 /\ b[g] = b[tree[far][g]] + 1
        BY <1>1, <1>2, <1>3, <2>1, EvenHeights
    <2>4. tree[side][g] = p
        BY DEF Outer
    <2> QED
        BY <2>2, <2>3, <2>4
<1>5. Heights(T, L, b2, nil, "left")
    <2>1. \A m \in L \ {g, p} : T.color[m] = tree.color[m]
        BY <1>2
    <2>2. \A m \in L, s \in Sides : Lacks(m, s, nil, "left") = 0
        BY <1>2 DEF Lacks
    <2>3. Black(T, g) = 0 /\ Black(T, p) = 1
        BY <1>1, <1>2 DEF Black
    <2>4. Heights(tree, L, b, nil, "left")
        BY DEF Inserted
    <2>5. /\ b[p] = b[tree[far][g]] + Lacks(g, far, nil, "left") + Black(T, g)
          /\ b[p] = b[tree[far][p]] + Lacks(g, Other(far), nil, "left") + Black(T, g)
          /\ b[g] = b[p] + Lacks(p, far, nil, "left") + Black(T, p)
          /\ b[g] = b[tree[Other(far)][p]] + Lacks(p, Other(far), nil, "left") + Black(T, p)
        <3>1. /\ Lacks(g, far, nil, "left") = 0 /\ Lacks(g, Other(far), nil, "left") = 0
              /\ Lacks(p, far, nil, "left") = 0 /\ Lacks(p, Other(far), nil, "left") = 0
            BY <1>1, <1>3, <2>2
        <3> QED
            BY <1>3, <1>4, <2>3, <3>1
    <2>6. p = tree[Other(far)][g]
        BY <1>3 DEF Outer
    <2>7. far \in Sides /\ g \in L /\ p \in L /\ b[p] \in Nat /\ b[p] > 0
        BY <1>1, <1>3, <1>4
    <2> QED
        BY <2>1, <2>4, <2>5, <2>6, <2>7, SwappedHeights
<1>6. /\ \A m \in Nodes :
           T.parent[m] = IF m = g THEN p ELSE IF m = p THEN tree.parent[g]
                         ELSE IF m = tree[far][p] /\ m # nil THEN g ELSE tree.parent[m]
      /\ T.root = IF tree.parent[g] = nil THEN p ELSE tree.root
    BY DEF Turned
<1>7. Reds(T, L, nil, n)
    <2>1. T.color[nil] = "BLACK"
        BY <1>1, <1>2
    <2>2. ASSUME NEW m \in L, T.color[m] = "RED", m # n
          PROVE  T.color[T.parent[m]] = "BLACK" \/ T.parent[m] = nil
        <3>1. CASE m = g
            BY <1>1, <1>2, <1>6, <3>1
        <3>2. CASE m # g
            <4>1. m # p /\ tree.color[m] = "RED"
                BY <1>2, <2>2, <3>2
            <4>2. m # tree.root
                BY <1>1, <1>2, <4>1
            <4>3. tree.parent[m] \in L /\ tree[SideOf(tree, m)][tree.parent[m]] = m
                BY <4>2 DEF Knit
            <4>4. tree.color[tree.parent[m]] = "BLACK"
                BY <1>2, <2>2, <4>1, <4>3 DEF Inserted, Reds
            <4>5. tree.parent[m] # p /\ m # tree[far][p]
                <5>1. tree.parent[m] # p
                    BY <1>1, <1>2, <4>4
                <5>2. m = tree[far][p] => tree.parent[m] = p
                    BY <1>1, <1>2, <1>3 DEF Knit
                <5> QED
                    BY <5>1, <5>2
            <4>6. tree.parent[m] # g
                BY <1>1, <1>2, <1>3, <2>2, <4>1, <4>3, SideOfSides DEF Outer
            <4>7. T.parent[m] = tree.parent[m]
                BY <1>2, <1>6, <3>2, <4>1, <4>5
            <4> QED
                BY <1>2, <4>3, <4>4, <4>5, <4>6, <4>7
        <3> QED
            BY <3>1, <3>2
    <2> QED
        BY <2>1, <2>2 DEF Reds
<1>8. RootBlack(T, n)
    <2>1. CASE tree.parent[g] = nil
        BY <1>1, <1>2, <1>6, <2>1 DEF RootBlack
    <2>2. CASE tree.parent[g] # nil
        <3>1. T.root = tree.root /\ tree.root # g /\ tree.root \in Nodes
            BY <1>1, <1>6, <2>2, Typed DEF Knit
        <3> QED
            BY <1>1, <1>2, <3>1 DEF RootBlack
    <2> QED
        BY <2>1, <2>2
<1>9. T.color[n] = "RED"
    BY <1>1, <1>2
<1> QED
    BY <1>1, <1>5, <1>7, <1>8, <1>9 DEF Inserted

\* A search tree on the nodes of L, whose pointers agree.
Sound(tree, L, e) ==
    /\ tree \in Trees
    /\ \E lo, hi : Shape(tree, L, lo, hi)
    /\ Outside(tree, L, e)

\* Colors do not matter to what Sound says.
LEMMA RecolorSound ==
    ASSUME NEW tree, NEW L, NEW e, Sound(tree, L, e), NEW T, Recolored(tree, T)
    PROVE  Sound(T, L, e)
BY RecolorShape DEF Sound, Recolored

\* A rotation keeps what Sound says.
LEMMA RotateSound ==
    ASSUME NEW tree, NEW L, NEW e, Sound(tree, L, e), NEW side \in Sides, NEW u \in L,
           tree[Other(side)][u] # nil
    PROVE  /\ Sound(Rotate(tree, side, u), L, e)
           /\ Rotated(tree, side, u, tree[Other(side)][u], Rotate(tree, side, u))
           /\ tree[Other(side)][u] \in L
<1> DEFINE v == tree[Other(side)][u]
           T == Rotate(tree, side, u)
<1>1. PICK lo, hi : Shape(tree, L, lo, hi)
    BY DEF Sound
<1>2. tree \in Trees
    BY DEF Sound
<1> HIDE DEF v
<1>3. /\ Shape(T, L, RotateLo(side, lo, u, v), RotateHi(side, hi, u, v))
      /\ \A d : Outside(tree, L, d) => Outside(T, L, d)
      /\ Rotated(tree, side, u, v, T)
    BY <1>1, <1>2, RotateShape DEF v
<1>4. Knit(tree, L)
    BY <1>1, <1>2, ShapeKnit
<1>5. v \in L
    BY <1>4, Constants DEF Knit, v
<1>6. Sound(T, L, e)
    BY <1>3 DEF Sound, Rotated, Turned
<1> QED
    BY <1>3, <1>5, <1>6 DEF v

\* A sound tree is knit.
LEMMA SoundKnit ==
    ASSUME NEW tree, NEW L, NEW e, Sound(tree, L, e)
    PROVE  Knit(tree, L) /\ tree \in Trees /\ L \subseteq Ids /\ nil \notin L /\ L \subseteq Nodes
<1>1. tree \in Trees /\ Knit(tree, L)
    BY ShapeKnit DEF Sound
<1> QED
    BY <1>1, Constants DEF Knit

\* TurnOver ends the fixup of an insertion.
LEMMA TurnOverKeeps ==
    ASSUME NEW tree, NEW L, Sound(tree, L, nil), NEW b, NEW n, Inserted(tree, L, b, n),
           NEW p, NEW g, RedPair(tree, L, n, p, g),
           NEW side, NEW far, Outer(tree, side, far, n, p, g)
    PROVE  /\ Sound(TurnOver(tree, side, p, g), L, nil)
           /\ TurnOver(tree, side, p, g).size = tree.size
           /\ \E b2 : Inserted(TurnOver(tree, side, p, g), L, b2, n)
<1> DEFINE P == Paint(Paint(tree, p, "BLACK"), g, "RED")
           T == Rotate(P, far, g)
<1>1. /\ Knit(tree, L) /\ tree \in Trees /\ L \subseteq Nodes /\ nil \notin L /\ L \subseteq Ids
    BY SoundKnit
<1>2. /\ p \in L /\ g \in L /\ p # g
    BY DEF RedPair
<1>3. /\ side \in Sides /\ far \in Sides /\ Other(far) = side /\ Other(side) = far
      /\ tree[side][g] = p
    BY DEF Outer
<1>4. /\ Recolored(tree, P)
      /\ \A k \in Nodes : P.color[k] = IF k = g THEN "RED" ELSE IF k = p THEN "BLACK"
                                       ELSE tree.color[k]
    BY <1>1, <1>2, PaintTwice DEF Colors
<1>5. TurnOver(tree, side, p, g) = T
    BY <1>3 DEF TurnOver
<1> HIDE DEF P, T
<1>6. Sound(P, L, nil)
    BY <1>4, RecolorSound
<1>7. P[Other(far)][g] = p
    BY <1>3, <1>4 DEF Recolored
<1>8. Sound(T, L, nil) /\ Rotated(P, far, g, p, T)
    BY <1>1, <1>2, <1>3, <1>6, <1>7, RotateSound DEF T
<1>9. Turned(tree, far, g, p, T)
    BY <1>1, <1>2, <1>3, <1>4, <1>8, TurnedRecolored DEF Rotated
<1>10. \A m \in Nodes : T.color[m] = IF m = g THEN "RED" ELSE IF m = p THEN "BLACK"
                                     ELSE tree.color[m]
    BY <1>4, <1>8 DEF Rotated
<1>11. \E b2 : Inserted(T, L, b2, n)
    BY <1>1, <1>9, <1>10, TurnedOver
<1>12. T.size = tree.size
    BY <1>9 DEF Turned
<1> QED
    BY <1>5, <1>8, <1>11, <1>12

\* n is on the inside: it is turned above p first.
Inner(tree, side, far, n, p, g) ==
    /\ side \in Sides /\ far \in Sides /\ Other(side) = far /\ Other(far) = side /\ side # far
    /\ tree[side][g] = p /\ tree[far][p] = n /\ tree.color[tree[far][g]] = "BLACK"

\* The rotation that comes before it, when z is on the inside.
LEMMA TurnedInside ==
    ASSUME NEW tree, NEW L, Sound(tree, L, nil), NEW b, NEW n, Inserted(tree, L, b, n),
           NEW p, NEW g, RedPair(tree, L, n, p, g),
           NEW side, NEW far, Inner(tree, side, far, n, p, g)
    PROVE  /\ Sound(Rotate(tree, side, p), L, nil)
           /\ Rotate(tree, side, p).size = tree.size
           /\ RedPair(Rotate(tree, side, p), L, p, n, g)
           /\ Outer(Rotate(tree, side, p), side, far, p, n, g)
           /\ \E b2 : Inserted(Rotate(tree, side, p), L, b2, p)
<1> DEFINE T == Rotate(tree, side, p)
           b2 == Swap(b, p, n, b[p])
<1>1. /\ Knit(tree, L) /\ tree \in Trees /\ L \subseteq Nodes /\ nil \notin L /\ nil \in Nodes
      /\ L \subseteq Ids /\ "RED" # "BLACK"
    BY SoundKnit, Constants
<1>2. /\ n \in L /\ p \in L /\ g \in L
      /\ n # p /\ n # g /\ p # g /\ n # tree.root /\ p # tree.root
      /\ tree.color[n] = "RED" /\ tree.color[p] = "RED" /\ tree.color[g] = "BLACK"
      /\ tree.parent[p] = g /\ tree.parent[n] = p
      /\ tree.color[tree.root] = "BLACK" /\ tree.color[nil] = "BLACK"
    BY DEF RedPair
<1>3. /\ side \in Sides /\ far \in Sides /\ side # far /\ SideOf(tree, p) = side
      /\ Other(side) = far /\ Other(far) = side
    BY <1>1, <1>2 DEF Knit, Inner
<1>4. Sound(T, L, nil) /\ Rotated(tree, side, p, n, T)
    BY <1>1, <1>2, <1>3, RotateSound DEF Inner
<1> HIDE DEF T
<1>5. Knit(T, L) /\ T \in Trees
    BY <1>4, SoundKnit
<1>6. /\ Turned(tree, side, p, n, T) /\ T.color = tree.color
      /\ T.root = tree.root /\ T.size = tree.size
      /\ T.parent[p] = n /\ T.parent[n] = g
      /\ \A m \in Nodes \ {p, n} :
           T.parent[m] = IF m = tree[side][n] /\ m # nil THEN p ELSE tree.parent[m]
      /\ T[side][g] = n /\ T[side][n] = p /\ T[far][g] = tree[far][g]
    <2>1. g \in Ids \ {p, n} /\ g # nil /\ p \in Nodes /\ n \in Nodes
        BY <1>1, <1>2
    <2> QED
        BY <1>2, <1>3, <1>4, <2>1 DEF Rotated, Turned
<1>7. Inserted(T, L, b2, p)
    <2>1. Heights(tree, L, b, nil, "left")
        BY DEF Inserted
    <2>2. /\ b[p] \in Nat /\ b[p] > 0 /\ b[p] = b[tree[side][p]] /\ b[p] = b[tree[far][p]]
        BY <1>1, <1>2, <1>3, <2>1, EvenHeights
    <2>3. /\ b[n] = b[tree[side][n]] /\ b[n] = b[tree[far][n]] /\ b[n] = b[p]
        <3>1. \A r \in Sides : b[n] = b[tree[r][n]]
            BY <1>1, <1>2, <2>1, EvenHeights
        <3>2. tree[far][p] = n
            BY DEF Inner
        <3> QED
            BY <1>3, <2>2, <3>1, <3>2
    <2>4. /\ b[p] = b[tree[side][p]] + Lacks(p, side, nil, "left") + Black(T, p)
          /\ b[p] = b[tree[side][n]] + Lacks(p, Other(side), nil, "left") + Black(T, p)
          /\ b[p] = b[p] + Lacks(n, side, nil, "left") + Black(T, n)
          /\ b[p] = b[tree[Other(side)][n]] + Lacks(n, Other(side), nil, "left") + Black(T, n)
        <3>1. /\ Lacks(p, side, nil, "left") = 0 /\ Lacks(p, Other(side), nil, "left") = 0
              /\ Lacks(n, side, nil, "left") = 0 /\ Lacks(n, Other(side), nil, "left") = 0
            BY <1>1, <1>2 DEF Lacks
        <3>2. Black(T, p) = 0 /\ Black(T, n) = 0
            BY <1>1, <1>2, <1>6 DEF Black
        <3> QED
            BY <1>3, <2>2, <2>3, <3>1, <3>2
    <2>5. \A m \in L \ {p, n} : T.color[m] = tree.color[m]
        BY <1>6
    <2>6. Heights(T, L, b2, nil, "left")
        <3>1. n = tree[Other(side)][p]
            BY <1>3 DEF Inner
        <3> QED
            BY <1>1, <1>2, <1>3, <1>6, <2>1, <2>2, <2>4, <2>5, <3>1, SwappedHeights
    <2>7. Reds(T, L, nil, p)
        <3> SUFFICES ASSUME NEW m \in L, T.color[m] = "RED", m # p
                     PROVE  T.color[T.parent[m]] = "BLACK" \/ T.parent[m] = nil
            BY <1>2, <1>6 DEF Reds
        <3>1. CASE m = n
            BY <1>2, <1>6, <3>1
        <3>2. CASE m # n
            <4>1. tree.color[m] = "RED"
                BY <1>6
            <4>2. tree.color[tree.parent[m]] = "BLACK" \/ tree.parent[m] = nil
                BY <3>2, <4>1 DEF Inserted, Reds
            <4>3. m = tree[side][n] => tree.parent[m] = n
                BY <1>1, <1>2, <1>3 DEF Knit
            <4>4. m # tree[side][n]
                BY <1>1, <1>2, <4>2, <4>3
            <4>5. T.parent[m] = tree.parent[m]
                BY <1>1, <1>6, <3>2, <4>4
            <4> QED
                BY <1>6, <4>2, <4>5
        <3> QED
            BY <3>1, <3>2
    <2>8. RootBlack(T, p)
        BY <1>2, <1>6 DEF RootBlack
    <2> HIDE DEF b2
    <2> QED
        BY <1>2, <1>6, <2>6, <2>7, <2>8 DEF Inserted
<1>8. RedPair(T, L, p, n, g)
    <2>1. T.color[T.parent[p]] = "RED"
        BY <1>2, <1>6
    <2> QED
        BY <1>5, <1>6, <1>7, <2>1, RedParent
<1>9. Outer(T, side, far, p, n, g)
    BY <1>3, <1>6 DEF Outer, Inner
<1> QED
    BY <1>4, <1>6, <1>7, <1>8, <1>9 DEF T

\* One turn of the loop of rbt_insert_fixup.
LEMMA InsertRoundKeeps ==
    ASSUME NEW tree, NEW L, Sound(tree, L, nil), NEW b, NEW n, Inserted(tree, L, b, n),
           tree.color[tree.parent[n]] = "RED"
    PROVE  /\ Sound(InsertRound(tree, n)[1], L, nil)
           /\ InsertRound(tree, n)[1].size = tree.size
           /\ \E b2 : Inserted(InsertRound(tree, n)[1], L, b2, InsertRound(tree, n)[2])
<1> DEFINE p == tree.parent[n]
           g == tree.parent[p]
           side == SideOf(tree, p)
           far == Other(side)
           v == tree[far][g]
<1>1. /\ Knit(tree, L) /\ tree \in Trees /\ L \subseteq Nodes /\ nil \notin L
    BY SoundKnit
<1>2. RedPair(tree, L, n, p, g)
    BY <1>1, RedParent
<1>3. /\ side \in Sides /\ far \in Sides /\ Other(far) = side /\ far # side
      /\ tree[side][g] = p
      /\ n \in L /\ p \in L /\ g \in L
    BY <1>2, SideOfSides, Constants DEF RedPair
<1>4. /\ tree[SideOf(tree, n)][p] = n /\ SideOf(tree, n) \in Sides
      /\ \A s \in Sides : s = side \/ s = far
    BY <1>2, SideOfSides DEF RedPair, Sides, Other
<1>5. v \in Nodes /\ (tree.color[v] = "RED" \/ tree.color[v] = "BLACK")
    BY <1>1, <1>3, Typed, ColorFacts DEF Knit
<1>6. InsertRound(tree, n) =
        IF tree.color[v] = "RED" THEN <<PushBlackDown(tree, p, v, g), g>>
        ELSE IF n = tree[far][p] THEN <<TurnOver(Rotate(tree, side, p), side, n, g), p>>
        ELSE <<TurnOver(tree, side, p, g), n>>
    BY DEF InsertRound
<1> HIDE DEF v, p, g, side, far
<1>7. CASE tree.color[v] = "RED"
    <2> DEFINE T == PushBlackDown(tree, p, v, g)
    <2>1. /\ Recolored(tree, T)
          /\ \A m \in Nodes : T.color[m] = IF m = g THEN "RED" ELSE IF m = v THEN "BLACK"
                                           ELSE IF m = p THEN "BLACK" ELSE tree.color[m]
        <3>1. /\ p \in Nodes /\ v \in Nodes /\ g \in Nodes
              /\ "BLACK" \in Colors /\ "RED" \in Colors
            BY <1>1, <1>3, <1>5 DEF Colors
        <3>2. T = Paint(Paint(Paint(tree, p, "BLACK"), v, "BLACK"), g, "RED")
            BY DEF PushBlackDown
        <3> DEFINE Q == Paint(Paint(Paint(tree, p, "BLACK"), v, "BLACK"), g, "RED")
        <3>3. /\ Recolored(tree, Q)
              /\ \A m \in Nodes : Q.color[m] = IF m = g THEN "RED" ELSE IF m = v THEN "BLACK"
                                               ELSE IF m = p THEN "BLACK" ELSE tree.color[m]
            BY <1>1, <3>1, PaintThrice
        <3> HIDE DEF T, Q
        <3> QED
            BY <3>2, <3>3 DEF Q
    <2>2. InsertRound(tree, n)[1] = T /\ InsertRound(tree, n)[2] = g
        BY <1>6, <1>7
    <2> HIDE DEF T
    <2>3. \E b2 : Inserted(T, L, b2, g)
        <3>1. v = tree[Other(SideOf(tree, p))][g]
            BY DEF v, far, side
        <3> QED
            BY <1>1, <1>2, <1>7, <2>1, <3>1, PushedDown
    <2>4. Sound(T, L, nil)
        BY <2>1, RecolorSound
    <2> QED
        BY <2>1, <2>2, <2>3, <2>4 DEF Recolored
<1>8. CASE tree.color[v] = "BLACK" /\ n = tree[far][p]
    <2>1. InsertRound(tree, n)[1] = TurnOver(Rotate(tree, side, p), side, n, g)
          /\ InsertRound(tree, n)[2] = p
        BY <1>6, <1>8, Constants
    <2> DEFINE R == Rotate(tree, side, p)
    <2>2. /\ Sound(R, L, nil) /\ R.size = tree.size
          /\ RedPair(R, L, p, n, g) /\ Outer(R, side, far, p, n, g)
          /\ \E b2 : Inserted(R, L, b2, p)
        <3>1. Inner(tree, side, far, n, p, g)
            BY <1>3, <1>8 DEF v, far, Inner
        <3> QED
            BY <1>2, <3>1, TurnedInside
    <2> HIDE DEF R
    <2>3. /\ Sound(TurnOver(R, side, n, g), L, nil)
          /\ TurnOver(R, side, n, g).size = R.size
          /\ \E b2 : Inserted(TurnOver(R, side, n, g), L, b2, p)
        BY <2>2, TurnOverKeeps
    <2> QED
        BY <2>1, <2>2, <2>3 DEF R
<1>9. CASE tree.color[v] = "BLACK" /\ n # tree[far][p]
    <2>1. InsertRound(tree, n)[1] = TurnOver(tree, side, p, g) /\ InsertRound(tree, n)[2] = n
        BY <1>6, <1>9, Constants
    <2>2. Outer(tree, side, far, n, p, g)
        <3>1. far = Other(side) /\ tree.color[tree[far][g]] = "BLACK"
            BY <1>9 DEF v, far
        <3>2. tree[side][p] = n
            BY <1>4, <1>9
        <3> QED
            BY <1>3, <3>1, <3>2 DEF Outer
    <2> QED
        BY <1>2, <2>1, <2>2, TurnOverKeeps
<1> QED
    BY <1>5, <1>7, <1>8, <1>9

\* The root can be painted black.
LEMMA BlackRootHeights ==
    ASSUME NEW tree \in Trees, NEW L, Knit(tree, L), NEW b, Heights(tree, L, b, nil, "left"),
           NEW T, Painted(tree, tree.root, "BLACK", T)
    PROVE  \E b2 : Heights(T, L, b2, nil, "left")
<1> DEFINE r == tree.root
           b2 == [b EXCEPT ![r] = @ + 1]
<1>1. /\ L \subseteq Ids /\ L \subseteq Nodes /\ nil \notin L /\ r \in Nodes /\ r \in L \cup {nil}
      /\ b \in [Nodes -> Nat] /\ b[nil] = 1 /\ "RED" # "BLACK" /\ nil \in Nodes
    BY Typed, Constants DEF Knit, Heights
<1>2. /\ T \in Trees /\ \A s \in Sides : T[s] = tree[s]
      /\ \A m \in Nodes : T.color[m] = IF m = r THEN "BLACK" ELSE tree.color[m]
    BY DEF Painted, Recolored
<1>3. \A m \in L, s \in Sides : Lacks(m, s, nil, "left") = 0
    BY <1>1 DEF Lacks
<1>4. CASE r \notin L \/ tree.color[r] = "BLACK"
    <2>1. \A m \in L : Black(T, m) = Black(tree, m)
        BY <1>1, <1>2, <1>4 DEF Black
    <2>2. Heights(T, L, b, nil, "left")
        BY <1>2, <2>1 DEF Heights
    <2> QED
        BY <2>2
<1>5. CASE r \in L /\ tree.color[r] = "RED"
    <2>1. b2 \in [Nodes -> Nat] /\ b2[r] = b[r] + 1 /\ (\A m \in Nodes \ {r} : b2[m] = b[m])
          /\ b2[nil] = 1
        BY <1>1, <1>5
    <2> HIDE DEF b2
    <2>2. ASSUME NEW m \in L, NEW s \in Sides
          PROVE  b2[m] > 0 /\ b2[m] = b2[T[s][m]] + Lacks(m, s, nil, "left") + Black(T, m)
        <3>1. /\ b[m] \in Nat /\ b[m] > 0 /\ b[tree[s][m]] \in Nat /\ tree[s][m] \in Nodes /\ m \in Nodes
              /\ tree.color[m] = "RED" => b[m] = b[tree[s][m]]
              /\ tree.color[m] = "BLACK" => b[m] = b[tree[s][m]] + 1
            <4>1. Heights(tree, L, b, nil, "left") /\ L \subseteq Ids
                BY <1>1
            <4> QED
                BY <4>1, EvenHeights
        <3>2. tree[s][m] # r
            BY <1>1, <1>5 DEF Knit
        <3>3. Black(T, m) = IF T.color[m] = "RED" THEN 0 ELSE 1
            BY <1>2, <3>1, ColorFacts
        <3>4. tree.color[m] = "RED" \/ tree.color[m] = "BLACK"
            BY <3>1, ColorFacts
        <3>5. b2[T[s][m]] = b[tree[s][m]]
            BY <1>2, <2>1, <3>1, <3>2
        <3>6. CASE m = r
            BY <1>1, <1>2, <1>3, <1>5, <2>1, <3>1, <3>3, <3>5, <3>6
        <3>7. CASE m # r
            BY <1>1, <1>2, <1>3, <2>1, <3>1, <3>3, <3>4, <3>5, <3>7
        <3> QED
            BY <3>6, <3>7
    <2>3. Heights(T, L, b2, nil, "left")
        BY <2>1, <2>2 DEF Heights
    <2> QED
        BY <2>3
<1>6. r \in L => tree.color[r] = "RED" \/ tree.color[r] = "BLACK"
    BY <1>1, ColorFacts
<1> QED
    BY <1>4, <1>5, <1>6

\* A black root ends the fixup.
LEMMA InsertDoneKeeps ==
    ASSUME NEW tree, NEW L, Sound(tree, L, nil), NEW b, NEW n, Inserted(tree, L, b, n),
           tree.color[tree.parent[n]] = "BLACK"
    PROVE  /\ Sound(Paint(tree, tree.root, "BLACK"), L, nil)
           /\ Paint(tree, tree.root, "BLACK").size = tree.size
           /\ \E b2 : Whole(Paint(tree, tree.root, "BLACK"), L, b2)
<1> DEFINE T == Paint(tree, tree.root, "BLACK")
<1>1. /\ Knit(tree, L) /\ tree \in Trees /\ L \subseteq Nodes /\ nil \notin L /\ tree.root \in Nodes
    BY SoundKnit, Typed
<1>2. Painted(tree, tree.root, "BLACK", T)
    BY <1>1, PaintFacts DEF Colors
<1> HIDE DEF T
<1>3. Sound(T, L, nil)
    BY <1>2, RecolorSound DEF Painted
<1>4. PICK b2 : Heights(T, L, b2, nil, "left")
    BY <1>1, <1>2, BlackRootHeights DEF Inserted
<1>5. /\ T.root = tree.root /\ T.parent = tree.parent /\ T.size = tree.size
      /\ \A m \in Nodes : T.color[m] = IF m = tree.root THEN "BLACK" ELSE tree.color[m]
    BY <1>2 DEF Painted, Recolored
<1>6. Reds(T, L, nil, nil)
    <2>1. T.color[nil] = "BLACK"
        BY <1>5, Constants DEF Inserted, Reds
    <2>2. ASSUME NEW m \in L, T.color[m] = "RED"
          PROVE  T.color[T.parent[m]] = "BLACK" \/ T.parent[m] = nil
        <3>1. tree.color[m] = "RED" /\ m \in Nodes
            BY <1>1, <1>5, <2>2
        <3>2. tree.color[tree.parent[m]] = "BLACK" \/ tree.parent[m] = nil
            BY <3>1 DEF Inserted, Reds
        <3>3. tree.parent[m] \in Nodes
            BY <1>1, <3>1, Typed
        <3> QED
            BY <1>5, <3>2, <3>3
    <2> QED
        BY <2>1, <2>2 DEF Reds
<1>7. RootBlack(T, nil)
    BY <1>1, <1>5 DEF RootBlack
<1> QED
    BY <1>3, <1>4, <1>5, <1>6, <1>7 DEF Whole, T

\* A leaf is linked in.
LEMMA LinkKeeps ==
    ASSUME NEW tree, NEW L, Sound(tree, L, nil), NEW b, Whole(tree, L, b),
           NEW n \in Ids \ L, NEW p \in L \cup {nil}, p = nil => tree.root = nil,
           NEW T, Linked(tree, n, p, T), p # nil => tree[Turn(n, p)][p] = nil
    PROVE  \E b2 : Inserted(T, L \cup {n}, b2, n)
<1> DEFINE b2 == [b EXCEPT ![n] = 1]
           L2 == L \cup {n}
<1>1. /\ Knit(tree, L) /\ tree \in Trees /\ L \subseteq Ids /\ L \subseteq Nodes /\ nil \notin L
      /\ n \in Nodes /\ n # nil /\ nil \in Nodes /\ "RED" # "BLACK"
    BY SoundKnit, Constants
<1>2. Heights(tree, L, b, nil, "left") /\ b \in [Nodes -> Nat] /\ b[nil] = 1
    BY DEF Whole, Heights
<1>3. /\ b2 \in [Nodes -> Nat] /\ b2[n] = 1 /\ b2[nil] = 1
      /\ \A m \in Nodes \ {n} : b2[m] = b[m]
    BY <1>1, <1>2
<1> HIDE DEF b2
<1>4. /\ T \in Trees /\ T.color[n] = "RED" /\ T.parent[n] = p
      /\ T.root = IF p = nil THEN n ELSE tree.root
      /\ \A m \in L : T.color[m] = tree.color[m] /\ T.parent[m] = tree.parent[m]
      /\ T.color[nil] = tree.color[nil]
      /\ \A s \in Sides : T[s][n] = nil
      /\ \A m \in L, s \in Sides : T[s][m] = IF m = p /\ s = Turn(n, p) THEN n ELSE tree[s][m]
    BY <1>1 DEF Linked
<1>5. ASSUME NEW m \in L2, NEW s \in Sides
      PROVE  b2[m] > 0 /\ b2[m] = b2[T[s][m]] + Lacks(m, s, nil, "left") + Black(T, m)
    <2>1. Lacks(m, s, nil, "left") = 0
        BY <1>1 DEF Lacks
    <2>2. CASE m = n
        BY <1>1, <1>3, <1>4, <2>1, <2>2 DEF Black
    <2>3. CASE m # n
        <3>1. m \in L /\ m \in Nodes
            BY <1>1, <2>3
        <3>2. /\ b[m] \in Nat /\ b[m] > 0 /\ b[tree[s][m]] \in Nat
              /\ tree.color[m] = "RED" => b[m] = b[tree[s][m]]
              /\ tree.color[m] = "BLACK" => b[m] = b[tree[s][m]] + 1
            <4>1. Heights(tree, L, b, nil, "left") /\ L \subseteq Ids /\ tree \in Trees
                BY <1>1, <1>2
            <4> QED
                BY <3>1, <4>1, EvenHeights
        <3>3. tree.color[m] = "RED" \/ tree.color[m] = "BLACK"
            BY <1>1, <3>1, ColorFacts
        <3>4. Black(T, m) = IF tree.color[m] = "RED" THEN 0 ELSE 1
            BY <1>4, <3>1, <3>3 DEF Black
        <3>5. tree[s][m] \in Nodes /\ tree[s][m] # n
            BY <1>1, <3>1, Typed DEF Knit
        <3>6. b2[T[s][m]] = b[tree[s][m]]
            <4>1. CASE m = p /\ s = Turn(n, p)
                BY <1>1, <1>2, <1>3, <1>4, <3>1, <4>1
            <4>2. CASE ~ (m = p /\ s = Turn(n, p))
                BY <1>3, <1>4, <3>1, <3>5, <4>2
            <4> QED
                BY <4>1, <4>2
        <3> QED
            BY <1>3, <2>1, <2>3, <3>1, <3>2, <3>3, <3>4, <3>6
    <2> QED
        BY <2>2, <2>3
<1>6. Heights(T, L2, b2, nil, "left")
    BY <1>3, <1>5 DEF Heights
<1>7. Reds(T, L2, nil, n)
    <2>1. tree.color[nil] = "BLACK"
        BY DEF Whole, Reds
    <2>2. ASSUME NEW m \in L2, T.color[m] = "RED", m # n
          PROVE  T.color[T.parent[m]] = "BLACK" \/ T.parent[m] = nil
        <3>1. m \in L /\ tree.color[m] = "RED"
            BY <1>4, <2>2
        <3>2. tree.color[tree.parent[m]] = "BLACK" \/ tree.parent[m] = nil
            BY <3>1 DEF Whole, Reds
        <3>3. tree.parent[m] \in L \cup {nil}
            BY <1>1, <3>1 DEF Knit
        <3> QED
            BY <1>4, <3>1, <3>2, <3>3
    <2> QED
        BY <1>4, <2>1, <2>2 DEF Reds
<1>8. RootBlack(T, n)
    <2>1. tree.root \in L \cup {nil} /\ (tree.root = nil \/ tree.color[tree.root] = "BLACK")
        BY <1>1 DEF Knit, Whole, RootBlack
    <2>2. tree.color[nil] = "BLACK"
        BY DEF Whole, Reds
    <2> QED
        BY <1>4, <2>1, <2>2 DEF RootBlack
<1> HIDE DEF L2
<1>9. n \in L2 /\ L2 = L \cup {n}
    BY DEF L2
<1> QED
    BY <1>4, <1>6, <1>7, <1>8, <1>9 DEF Inserted

-----------------------------------------------------------------------------
(* The fixup of a deletion. *)

\* At a node other than p no child lacks any.
LEMMA HeightsOff ==
    ASSUME NEW tree \in Trees, NEW L, L \subseteq Ids, NEW b, NEW p, NEW s,
           NEW n \in L, n # p, Heights(tree, L, b, p, s)
    PROVE  \A r \in Sides :
             /\ b[tree[r][n]] \in Nat /\ tree[r][n] \in Nodes
             /\ b[n] = b[tree[r][n]] + Black(tree, n)
<1>1. n \in Nodes
    BY Constants
<1>2. Black(tree, n) = IF tree.color[n] = "RED" THEN 0 ELSE 1
    BY <1>1, ColorFacts
<1> QED
    BY <1>2, HeightsAt

\* Which side of no node lacks a black node does not matter.
LEMMA NowhereLacking ==
    ASSUME NEW tree, NEW L, nil \notin L, NEW b, NEW s, NEW r, Heights(tree, L, b, nil, s)
    PROVE  Heights(tree, L, b, nil, r)
<1>1. \A n \in L, side \in Sides : Lacks(n, side, nil, s) = Lacks(n, side, nil, r)
    BY DEF Lacks
<1> QED
    BY <1>1 DEF Heights

\* The paths through n, which is black, lack a black node; w is its sibling.
Short(tree, L, n, p, side, far, w) ==
    /\ n \in L \cup {nil} /\ p \in L /\ w \in L
    /\ side \in Sides /\ far \in Sides /\ side # far
    /\ Other(side) = far /\ Other(far) = side
    /\ n # tree.root /\ w # tree.root /\ n # p /\ w # p /\ w # n
    /\ tree.parent[n] = p /\ tree.parent[w] = p
    /\ tree[side][p] = n /\ tree[far][p] = w
    /\ SideOf(tree, n) = side /\ SideOf(tree, w) = far
    /\ tree.color[n] = "BLACK" /\ tree.color[nil] = "BLACK"
    /\ tree.color[tree.root] = "BLACK"

\* What the heights are there.
ShortHeights(tree, L, b, n, p, side, w) ==
    /\ Heights(tree, L, b, p, side)
    /\ b[n] \in Nat /\ b[n] > 0 /\ b[w] = b[n] + 1
    /\ b[p] = b[w] + (IF tree.color[p] = "RED" THEN 0 ELSE 1)

\* What is there when a path lacks a black node: a parent and a sibling.
LEMMA ShortFacts ==
    ASSUME NEW tree \in Trees, NEW L, Knit(tree, L), NEW b, NEW n, Deleted(tree, L, b, n),
           n # tree.root, tree.color[n] = "BLACK"
    PROVE  LET p == tree.parent[n]
               side == SideOf(tree, n)
               far == Other(side)
               w == tree[far][p]
           IN  /\ Short(tree, L, n, p, side, far, w)
               /\ ShortHeights(tree, L, b, n, p, side, w)
<1> DEFINE p == tree.parent[n]
           side == SideOf(tree, n)
           far == Other(side)
           w == tree[far][p]
<1>1. /\ n \in L \cup {nil} /\ p \in L /\ tree[side][p] = n
      /\ Heights(tree, L, b, p, side)
      /\ tree.color[nil] = "BLACK" /\ RootBlack(tree, n)
    BY DEF Deleted, Reds
<1>2. /\ L \subseteq Ids /\ L \subseteq Nodes /\ nil \notin L /\ nil \in Nodes
      /\ side \in Sides /\ far \in Sides /\ far # side /\ Other(far) = side
    BY SideOfSides, Constants DEF Knit
<1>3. tree.color[tree.root] = "BLACK"
    BY <1>1 DEF RootBlack
<1> HIDE DEF side, far, p
<1>4. b \in [Nodes -> Nat] /\ b[nil] = 1 /\ n \in Nodes
    BY <1>1, <1>2 DEF Heights
<1>5. b[n] \in Nat /\ b[n] > 0
    <2>1. b[n] \in Nat
        BY <1>4
    <2>2. n \in L => b[n] > 0
        BY <1>1, <1>2 DEF Heights
    <2> QED
        BY <1>1, <1>4, <2>1, <2>2
<1>6. /\ b[p] \in Nat /\ b[w] \in Nat
      /\ b[p] = b[w] + (IF tree.color[p] = "RED" THEN 0 ELSE 1)
      /\ b[p] = b[n] + 1 + (IF tree.color[p] = "RED" THEN 0 ELSE 1)
    <2>1. p \in L /\ L \subseteq Ids /\ Heights(tree, L, b, p, side)
        BY <1>1, <1>2
    <2>2. /\ b[p] \in Nat /\ b[w] \in Nat
          /\ b[p] = b[w] + (IF tree.color[p] = "RED" THEN 0 ELSE 1)
        BY <1>2, <2>1, HeightsAt
    <2>3. b[p] = b[tree[side][p]] + 1 + (IF tree.color[p] = "RED" THEN 0 ELSE 1)
        BY <1>2, <2>1, HeightsAt
    <2> QED
        BY <1>1, <2>2, <2>3
<1>7. b[w] = b[n] + 1
    BY <1>5, <1>6
<1>8. w # nil
    BY <1>4, <1>5, <1>7
<1>9. /\ w \in L /\ tree.parent[w] = p /\ w # p /\ w # tree.root /\ w # n
      /\ SideOf(tree, w) = far
    BY <1>1, <1>2, <1>8 DEF Knit
<1>10. n # p
    BY <1>1, <1>2 DEF Knit
<1> HIDE DEF w
<1>11. tree.parent[n] = p /\ SideOf(tree, n) = side /\ Other(side) = far /\ tree[far][p] = w
    BY DEF p, side, far, w
<1>12. Short(tree, L, n, p, side, far, w)
    BY <1>1, <1>2, <1>3, <1>9, <1>10, <1>11 DEF Short
<1>13. ShortHeights(tree, L, b, n, p, side, w)
    BY <1>1, <1>5, <1>6, <1>7 DEF ShortHeights
<1> QED
    BY <1>12, <1>13 DEF p, side, far, w

\* Between the steps of a turn.
LEMMA ShortDeleted ==
    ASSUME NEW tree, NEW L, NEW b, NEW n, NEW p, NEW side, NEW far, NEW w,
           Short(tree, L, n, p, side, far, w), Heights(tree, L, b, p, side),
           Reds(tree, L, n, n)
    PROVE  Deleted(tree, L, b, n)
BY DEF Short, Deleted, RootBlack

\* A rotation that leaves n where it is.
LEMMA StillShort ==
    ASSUME NEW tree \in Trees, NEW L, Knit(tree, L), NEW b, NEW n, NEW p, NEW side, NEW far, NEW w,
           Short(tree, L, n, p, side, far, w),
           NEW T \in Trees, Knit(T, L), NEW v,
           T.parent[n] = p, T[side][p] = n, T[far][p] = v, v # nil, n # T.root,
           T.color[n] = "BLACK", T.color[nil] = "BLACK", T.color[T.root] = "BLACK"
    PROVE  Short(T, L, n, p, side, far, v)
<1>1. /\ n \in L \cup {nil} /\ p \in L /\ side \in Sides /\ far \in Sides /\ side # far
      /\ Other(side) = far /\ Other(far) = side
    BY DEF Short
<1>2. nil \notin L
    BY Constants DEF Knit
<1>3. /\ v \in L /\ T.parent[v] = p /\ v # p /\ v # T.root /\ v # n /\ SideOf(T, v) = far
    BY <1>1, <1>2 DEF Knit
<1>4. n # p
    BY <1>1, <1>2 DEF Knit
<1>5. SideOf(T, n) = side
    BY <1>1, <1>3 DEF SideOf, Sides
<1> QED
    BY <1>1, <1>3, <1>4, <1>5 DEF Short

\* What a sibling's subtree says: a red one has black children that are there.
LEMMA RedSibling ==
    ASSUME NEW tree \in Trees, NEW L, Knit(tree, L), NEW b, NEW n, NEW p, NEW side, NEW far, NEW w,
           Short(tree, L, n, p, side, far, w), ShortHeights(tree, L, b, n, p, side, w),
           Reds(tree, L, n, n), tree.color[w] = "RED"
    PROVE  /\ tree.color[p] = "BLACK" /\ b[p] = b[w] + 1
           /\ \A r \in Sides :
                /\ b[tree[r][w]] = b[w] /\ tree[r][w] \in L
                /\ tree.color[tree[r][w]] = "BLACK" /\ tree[r][w] # n
<1>1. /\ p \in L /\ w \in L /\ n # p /\ w # n /\ w # p
      /\ tree.parent[w] = p /\ tree.parent[n] = p
      /\ tree.color[n] = "BLACK" /\ tree.color[nil] = "BLACK"
    BY DEF Short
<1>2. /\ L \subseteq Ids /\ L \subseteq Nodes /\ nil \notin L /\ "RED" # "BLACK"
    BY Constants DEF Knit
<1>3. tree.color[p] = "BLACK"
    BY <1>1, <1>2 DEF Reds
<1>4. Heights(tree, L, b, p, side) /\ b[n] \in Nat /\ b[n] > 0 /\ b[w] = b[n] + 1
    BY DEF ShortHeights
<1>5. b[p] = b[w] + 1
    BY <1>2, <1>3 DEF ShortHeights
<1>6. ASSUME NEW r \in Sides
      PROVE  /\ b[tree[r][w]] = b[w] /\ tree[r][w] \in L
             /\ tree.color[tree[r][w]] = "BLACK" /\ tree[r][w] # n
    <2>1. /\ b[tree[r][w]] \in Nat /\ tree[r][w] \in Nodes
          /\ b[w] = b[tree[r][w]] + Black(tree, w)
        <3>1. w \in L /\ L \subseteq Ids /\ w # p /\ Heights(tree, L, b, p, side)
            BY <1>1, <1>2, <1>4
        <3> QED
            BY <3>1, HeightsOff
    <2>2. b[tree[r][w]] = b[w]
        <3>1. Black(tree, w) = 0
            BY <1>2 DEF Black
        <3> QED
            BY <2>1, <3>1
    <2>3. tree[r][w] # nil
        BY <1>4, <2>2 DEF Heights
    <2>4. tree[r][w] \in L /\ tree.parent[tree[r][w]] = w
        BY <1>1, <2>3 DEF Knit
    <2>5. tree[r][w] # n
        BY <1>1, <2>4
    <2>6. tree.color[tree[r][w]] = "BLACK"
        <3>1. tree[r][w] \in Nodes
            BY <1>2, <2>4
        <3>2. tree.color[tree[r][w]] = "RED" \/ tree.color[tree[r][w]] = "BLACK"
            BY <3>1, ColorFacts
        <3> QED
            BY <1>1, <1>2, <2>4, <2>5, <3>2 DEF Reds
    <2> QED
        BY <2>2, <2>4, <2>5, <2>6
<1> QED
    BY <1>3, <1>5, <1>6

\* A red sibling comes up.
LEMMA RaiseSiblingKeeps ==
    ASSUME NEW tree, NEW L, NEW e, Sound(tree, L, e), NEW b, NEW n, NEW p, NEW side, NEW far, NEW w,
           Short(tree, L, n, p, side, far, w), ShortHeights(tree, L, b, n, p, side, w),
           Reds(tree, L, n, n), tree.color[w] = "RED"
    PROVE  LET T == RaiseSibling(tree, side, p)
           IN  /\ Sound(T, L, e) /\ T.size = tree.size
               /\ Short(T, L, n, p, side, far, T[far][p])
               /\ T.color[T[far][p]] = "BLACK"
               /\ Reds(T, L, n, n)
               /\ \E b2 : Heights(T, L, b2, p, side)
<1> DEFINE P == Paint(Paint(tree, w, "BLACK"), p, "RED")
           T == Rotate(P, side, p)
           k == tree[side][w]
           b2 == Swap(b, p, w, b[w])
<1>1. /\ Knit(tree, L) /\ tree \in Trees /\ L \subseteq Nodes /\ nil \notin L /\ L \subseteq Ids
      /\ nil \in Nodes /\ "RED" # "BLACK"
    BY SoundKnit, Constants
<1>2. /\ n \in L \cup {nil} /\ p \in L /\ w \in L
      /\ n # tree.root /\ w # tree.root /\ n # p /\ w # p /\ w # n
      /\ tree.parent[n] = p /\ tree.parent[w] = p
      /\ tree.color[n] = "BLACK" /\ tree.color[nil] = "BLACK"
      /\ tree.color[tree.root] = "BLACK"
    BY DEF Short
<1>3. /\ side \in Sides /\ far \in Sides /\ side # far /\ Other(side) = far /\ Other(far) = side
      /\ \A r \in Sides : r = side \/ r = far
    BY DEF Short, Sides
<1>4. tree[side][p] = n /\ tree[far][p] = w
    BY DEF Short
<1>5. /\ tree.color[p] = "BLACK" /\ b[p] = b[w] + 1
      /\ \A r \in Sides :
           /\ b[tree[r][w]] = b[w] /\ tree[r][w] \in L
           /\ tree.color[tree[r][w]] = "BLACK" /\ tree[r][w] # n
    BY <1>1, RedSibling
<1>6. /\ k \in L /\ tree.color[k] = "BLACK" /\ k # n /\ tree.parent[k] = w /\ k # p /\ k # w
    <2>1. k \in L /\ tree.color[k] = "BLACK" /\ k # n /\ k # nil
        BY <1>1, <1>3, <1>5
    <2>2. tree.parent[k] = w /\ k # tree.parent[w] /\ k # w
        BY <1>1, <1>2, <1>3, <2>1 DEF Knit
    <2> QED
        BY <1>2, <2>1, <2>2
<1>7. /\ Recolored(tree, P)
      /\ \A m \in Nodes : P.color[m] = IF m = p THEN "RED" ELSE IF m = w THEN "BLACK"
                                       ELSE tree.color[m]
    BY <1>1, <1>2, PaintTwice DEF Colors
<1>8. RaiseSibling(tree, side, p) = T
    BY <1>3, <1>4 DEF RaiseSibling
<1> HIDE DEF P, T, k
<1>9. Sound(T, L, e) /\ Rotated(P, side, p, w, T)
    <2>1. Sound(P, L, e)
        BY <1>7, RecolorSound
    <2>2. P[Other(side)][p] = w
        BY <1>3, <1>4, <1>7 DEF Recolored
    <2> QED
        BY <1>1, <1>2, <1>3, <2>1, <2>2, RotateSound DEF T
<1>10. Turned(tree, side, p, w, T) /\ Knit(T, L) /\ T \in Trees
    BY <1>1, <1>2, <1>3, <1>7, <1>9, TurnedRecolored, SoundKnit DEF Rotated
<1>11. \A m \in Nodes : T.color[m] = IF m = p THEN "RED" ELSE IF m = w THEN "BLACK"
                                     ELSE tree.color[m]
    BY <1>7, <1>9 DEF Rotated
<1>12. /\ T.size = tree.size /\ T.parent[p] = w
       /\ T[side][p] = n /\ T[far][p] = k
       /\ T.root = w \/ (T.root = tree.root /\ tree.root # p)
       /\ \A m \in Nodes \ {p, w} : T.parent[m] = IF m = k THEN p ELSE tree.parent[m]
    <2>1. /\ T.size = tree.size /\ T.parent[p] = w
          /\ T[side][p] = n /\ T[far][p] = k
          /\ \A m \in Nodes \ {p, w} : T.parent[m] = IF m = k THEN p ELSE tree.parent[m]
        BY <1>1, <1>2, <1>3, <1>4, <1>6, <1>10 DEF Turned, k
    <2>2. T.root = IF tree.parent[p] = nil THEN w ELSE tree.root
        BY <1>10 DEF Turned
    <2>3. tree.parent[p] # nil => tree.root # p
        BY <1>1, <1>2 DEF Knit
    <2> QED
        BY <2>1, <2>2, <2>3
<1>13. /\ T.color[n] = "BLACK" /\ T.color[nil] = "BLACK" /\ T.color[k] = "BLACK"
       /\ T.color[T.root] = "BLACK" /\ T.color[w] = "BLACK" /\ T.color[p] = "RED"
       /\ n # T.root
    <2>1. tree.root \in Nodes
        BY <1>1, Typed
    <2>2. T.color[w] = "BLACK" /\ T.color[p] = "RED"
        BY <1>1, <1>2, <1>11
    <2>3. T.color[n] = "BLACK" /\ T.color[nil] = "BLACK" /\ T.color[k] = "BLACK"
        BY <1>1, <1>2, <1>6, <1>11
    <2>4. T.color[T.root] = "BLACK"
        BY <1>2, <1>11, <1>12, <2>1, <2>2
    <2>5. n # T.root
        BY <1>2, <1>12
    <2> QED
        BY <2>2, <2>3, <2>4, <2>5
<1>14. Short(T, L, n, p, side, far, k)
    <2>1. T.parent[n] = p
        BY <1>1, <1>2, <1>6, <1>12
    <2>2. k # nil
        BY <1>1, <1>6
    <2> QED
        BY <1>1, <1>10, <1>12, <1>13, <2>1, <2>2, StillShort
<1>15. Reds(T, L, n, n)
    <2> SUFFICES ASSUME NEW m \in L, T.color[m] = "RED", m # n, T.parent[m] # n
                 PROVE  T.color[T.parent[m]] = "BLACK"
        BY <1>13 DEF Reds
    <2>1. CASE m = p
        BY <1>12, <1>13, <2>1
    <2>2. CASE m # p
        <3>1. m # w /\ tree.color[m] = "RED"
            BY <1>1, <1>11, <2>2
        <3>2. m # k /\ m # tree.root
            BY <1>1, <1>2, <1>6, <3>1
        <3>3. T.parent[m] = tree.parent[m]
            BY <1>1, <1>12, <2>2, <3>1, <3>2
        <3>4. tree.color[tree.parent[m]] = "BLACK" /\ tree.parent[m] \in L
              /\ tree[SideOf(tree, m)][tree.parent[m]] = m
            BY <1>1, <3>1, <3>2, <3>3 DEF Reds, Knit
        <3>5. tree.parent[m] # p
            BY <1>3, <1>4, <3>1, <3>4, SideOfSides
        <3> QED
            BY <1>1, <1>11, <3>3, <3>4, <3>5
    <2> QED
        BY <2>1, <2>2
<1>16. Heights(T, L, b2, p, side)
    <2>1. Heights(tree, L, b, p, side) /\ b[n] \in Nat /\ b[w] = b[n] + 1
        BY DEF ShortHeights
    <2>2. /\ Lacks(p, side, p, side) = 1 /\ Lacks(p, far, p, side) = 0
          /\ Lacks(w, side, p, side) = 0 /\ Lacks(w, far, p, side) = 0
        BY <1>2, <1>3 DEF Lacks
    <2>3. Black(T, p) = 0 /\ Black(T, w) = 1
        BY <1>1, <1>13 DEF Black
    <2>4. \A r \in Sides : b[tree[r][w]] = b[w]
        BY <1>5
    <2>5. /\ b[w] \in Nat /\ b[w] > 0
          /\ b[w] = b[tree[side][p]] + Lacks(p, side, p, side) + Black(T, p)
          /\ b[w] = b[tree[side][w]] + Lacks(p, Other(side), p, side) + Black(T, p)
          /\ b[p] = b[w] + Lacks(w, side, p, side) + Black(T, w)
          /\ b[p] = b[tree[Other(side)][w]] + Lacks(w, Other(side), p, side) + Black(T, w)
        BY <1>3, <1>4, <1>5, <2>1, <2>2, <2>3, <2>4
    <2>6. \A m \in L \ {p, w} : T.color[m] = tree.color[m]
        BY <1>1, <1>11
    <2>7. w = tree[Other(side)][p]
        BY <1>3, <1>4
    <2> QED
        BY <1>1, <1>2, <1>3, <1>10, <2>1, <2>5, <2>6, <2>7, SwappedHeights
<1> QED
    BY <1>8, <1>9, <1>12, <1>13, <1>14, <1>15, <1>16

\* The children of a black sibling.
LEMMA BlackSibling ==
    ASSUME NEW tree \in Trees, NEW L, Knit(tree, L), NEW b, NEW n, NEW p, NEW side, NEW far, NEW w,
           Short(tree, L, n, p, side, far, w), ShortHeights(tree, L, b, n, p, side, w),
           tree.color[w] = "BLACK"
    PROVE  \A r \in Sides :
             /\ b[tree[r][w]] = b[n] /\ tree[r][w] \in L \cup {nil}
             /\ tree[r][w] # p /\ tree[r][w] # w
             /\ tree[r][w] # nil => tree.parent[tree[r][w]] = w /\ tree[r][w] # n
<1> SUFFICES ASSUME NEW r \in Sides
             PROVE  /\ b[tree[r][w]] = b[n] /\ tree[r][w] \in L \cup {nil}
                    /\ tree[r][w] # p /\ tree[r][w] # w
                    /\ tree[r][w] # nil => tree.parent[tree[r][w]] = w /\ tree[r][w] # n
    OBVIOUS
<1>1. /\ p \in L /\ w \in L /\ w # p
      /\ tree.parent[w] = p /\ tree.parent[n] = p
    BY DEF Short
<1>2. L \subseteq Ids /\ nil \notin L /\ "RED" # "BLACK"
    BY Constants DEF Knit
<1>3. Heights(tree, L, b, p, side) /\ b[n] \in Nat /\ b[w] = b[n] + 1
    BY DEF ShortHeights
<1>4. b[tree[r][w]] = b[n]
    <2>1. w \in L /\ L \subseteq Ids /\ w # p /\ Heights(tree, L, b, p, side)
        BY <1>1, <1>2, <1>3
    <2>2. /\ b[tree[r][w]] \in Nat
          /\ b[w] = b[tree[r][w]] + Black(tree, w)
        BY <2>1, HeightsOff
    <2>3. Black(tree, w) = 1
        BY DEF Black
    <2> QED
        BY <1>3, <2>2, <2>3
<1>5. tree[r][w] \in L \cup {nil} /\ tree[r][w] # p /\ tree[r][w] # w
    BY <1>1, <1>2 DEF Knit
<1>6. tree[r][w] # nil => tree.parent[tree[r][w]] = w
    BY <1>1 DEF Knit
<1> QED
    BY <1>1, <1>4, <1>5, <1>6

\* Both nephews are black: w is painted red, and what is above p lacks a node.
LEMMA BlackNephewsKeep ==
    ASSUME NEW tree, NEW L, NEW e, Sound(tree, L, e), NEW b, NEW n, NEW p, NEW side, NEW far, NEW w,
           Short(tree, L, n, p, side, far, w), ShortHeights(tree, L, b, n, p, side, w),
           Reds(tree, L, n, n), tree.color[w] = "BLACK",
           \A r \in Sides : tree.color[tree[r][w]] = "BLACK"
    PROVE  LET T == Paint(tree, w, "RED")
           IN  /\ Sound(T, L, e) /\ T.size = tree.size
               /\ \E b2 : Deleted(T, L, b2, p)
<1> DEFINE T == Paint(tree, w, "RED")
           b2 == [b EXCEPT ![w] = @ - 1, ![p] = @ - 1]
           q == IF p = tree.root THEN nil ELSE tree.parent[p]
           s == SideOf(tree, p)
<1>1. /\ Knit(tree, L) /\ tree \in Trees /\ L \subseteq Nodes /\ nil \notin L /\ L \subseteq Ids
      /\ nil \in Nodes /\ "RED" # "BLACK"
    BY SoundKnit, Constants
<1>2. /\ n \in L \cup {nil} /\ p \in L /\ w \in L
      /\ n # tree.root /\ w # tree.root /\ n # p /\ w # p /\ w # n
      /\ tree.parent[n] = p /\ tree.parent[w] = p
      /\ tree.color[n] = "BLACK" /\ tree.color[nil] = "BLACK"
      /\ tree.color[tree.root] = "BLACK"
    BY DEF Short
<1>3. /\ side \in Sides /\ far \in Sides /\ side # far
      /\ \A r \in Sides : r = side \/ r = far
      /\ tree[side][p] = n /\ tree[far][p] = w
    BY DEF Short, Sides
<1>4. Heights(tree, L, b, p, side) /\ b[n] \in Nat /\ b[n] > 0 /\ b[w] = b[n] + 1
      /\ b[p] = b[w] + (IF tree.color[p] = "RED" THEN 0 ELSE 1)
    BY DEF ShortHeights
<1>5. /\ b \in [Nodes -> Nat] /\ b[nil] = 1
      /\ b[w] \in Nat /\ b[w] > 1 /\ b[p] \in Nat /\ b[p] > 1
    BY <1>4 DEF Heights
<1>6. /\ b2 \in [Nodes -> Nat] /\ b2[w] = b[w] - 1 /\ b2[p] = b[p] - 1
      /\ \A m \in Nodes \ {w, p} : b2[m] = b[m]
    BY <1>1, <1>2, <1>5
<1>7. /\ Recolored(tree, T)
      /\ \A m \in Nodes : T.color[m] = IF m = w THEN "RED" ELSE tree.color[m]
    BY <1>1, <1>2, PaintFacts DEF Colors, Painted
<1> HIDE DEF T, b2
<1>8. /\ T \in Trees /\ T.root = tree.root /\ T.size = tree.size /\ T.parent = tree.parent
      /\ (\A r \in Sides : T[r] = tree[r])
      /\ SideOf(T, p) = s /\ Sound(T, L, e)
    BY <1>1, <1>7, RecolorShape, RecolorSound DEF Recolored
<1>9. /\ q # p /\ s \in Sides
      /\ p # tree.root => q \in L /\ tree[s][q] = p
    BY <1>1, <1>2, SideOfSides DEF Knit
<1>10. \A m \in L, r \in Sides : tree[r][m] = p => m = q /\ r = s
    <2> SUFFICES ASSUME NEW m \in L, NEW r \in Sides, tree[r][m] = p
                 PROVE  m = q /\ r = s
        OBVIOUS
    <2>1. p # nil
        BY <1>1, <1>2
    <2>2. tree.parent[p] = m /\ SideOf(tree, p) = r /\ p # tree.root
        BY <1>1, <2>1 DEF Knit
    <2> QED
        BY <2>2
<1> HIDE DEF q, s
<1>11. Heights(T, L, b2, q, s)
    <2>1. b2[nil] = 1
        BY <1>1, <1>2, <1>5, <1>6
    <2>2. ASSUME NEW m \in L, NEW r \in Sides
          PROVE  b2[m] > 0 /\ b2[m] = b2[T[r][m]] + Lacks(m, r, q, s) + Black(T, m)
        <3>1. /\ b[m] \in Nat /\ b[m] > 0 /\ b[tree[r][m]] \in Nat
              /\ m \in Nodes /\ tree[r][m] \in Nodes
              /\ m # p \/ r # side =>
                   b[m] = b[tree[r][m]] + (IF tree.color[m] = "RED" THEN 0 ELSE 1)
              /\ m = p /\ r = side =>
                   b[m] = b[tree[r][m]] + 1 + (IF tree.color[m] = "RED" THEN 0 ELSE 1)
            <4>1. L \subseteq Ids /\ Heights(tree, L, b, p, side) /\ tree \in Trees
                BY <1>1, <1>4
            <4> QED
                BY <4>1, HeightsAt
        <3>2. Black(T, m) = IF T.color[m] = "RED" THEN 0 ELSE 1
            BY <1>8, <3>1, ColorFacts
        <3>3. T[r][m] = tree[r][m] /\ T.color[m] = IF m = w THEN "RED" ELSE tree.color[m]
            BY <1>7, <1>8, <3>1
        <3>4. CASE m = p
            <4>1. Lacks(m, r, q, s) = 0
                BY <1>9, <3>4 DEF Lacks
            <4>2. b2[m] = b[m] - 1 /\ b[m] > 1
                BY <1>5, <1>6, <3>4
            <4>3. CASE r = side
                <5>1. b2[tree[r][m]] = b[tree[r][m]]
                    BY <1>1, <1>2, <1>3, <1>6, <3>4, <4>3
                <5> QED
                    BY <1>2, <3>1, <3>2, <3>3, <3>4, <4>1, <4>2, <4>3, <5>1
            <4>4. CASE r # side
                <5>1. tree[r][m] = w
                    BY <1>3, <3>4, <4>4
                <5>2. b2[tree[r][m]] = b[tree[r][m]] - 1
                    BY <1>6, <5>1
                <5> QED
                    BY <1>2, <3>1, <3>2, <3>3, <3>4, <4>1, <4>2, <4>4, <5>2
            <4> QED
                BY <4>3, <4>4
        <3>5. CASE m = w
            <4>1. Lacks(m, r, q, s) = 0
                <5>1. CASE p = tree.root
                    BY <1>1, <3>5, <5>1 DEF Lacks, q
                <5>2. CASE p # tree.root
                    <6>1. w # q
                        BY <1>1, <1>2, <1>3, <5>2 DEF Knit, q
                    <6> QED
                        BY <3>5, <6>1 DEF Lacks
                <5> QED
                    BY <5>1, <5>2
            <4>2. b2[m] = b[m] - 1 /\ b[m] > 1
                BY <1>5, <1>6, <3>5
            <4>3. b2[tree[r][m]] = b[tree[r][m]]
                <5>1. tree[r][w] # p /\ tree[r][w] # w
                    BY <1>1, BlackSibling
                <5> QED
                    BY <1>6, <3>1, <3>5, <5>1
            <4>4. tree.color[m] = "BLACK" /\ T.color[m] = "RED"
                BY <3>3, <3>5
            <4> QED
                BY <1>1, <1>2, <3>1, <3>2, <3>3, <3>5, <4>1, <4>2, <4>3, <4>4
        <3>6. CASE m \notin {p, w}
            <4>1. b2[m] = b[m] /\ T.color[m] = tree.color[m]
                BY <1>6, <3>1, <3>3, <3>6
            <4>2. tree[r][m] # w
                BY <1>1, <1>2, <3>6 DEF Knit
            <4>3. CASE tree[r][m] = p
                <5>1. m = q /\ r = s
                    BY <1>10, <4>3
                <5>2. Lacks(m, r, q, s) = 1
                    BY <5>1 DEF Lacks
                <5>3. b2[tree[r][m]] = b[tree[r][m]] - 1
                    BY <1>6, <4>3
                <5> QED
                    BY <3>1, <3>2, <3>3, <3>6, <4>1, <5>2, <5>3
            <4>4. CASE tree[r][m] # p
                <5>1. ~ (m = q /\ r = s)
                    <6>1. p = tree.root => q = nil
                        BY DEF q
                    <6> QED
                        BY <1>1, <1>9, <4>4, <6>1
                <5>2. Lacks(m, r, q, s) = 0
                    BY <5>1 DEF Lacks
                <5>3. b2[tree[r][m]] = b[tree[r][m]]
                    BY <1>6, <3>1, <4>2, <4>4
                <5> QED
                    BY <3>1, <3>2, <3>3, <3>6, <4>1, <5>2, <5>3
            <4> QED
                BY <4>3, <4>4
        <3> QED
            BY <3>4, <3>5, <3>6
    <2> QED
        BY <1>6, <2>1, <2>2 DEF Heights
<1>12. Reds(T, L, p, p)
    <2>1. T.color[nil] = "BLACK"
        BY <1>1, <1>2, <1>7
    <2>2. ASSUME NEW m \in L, T.color[m] = "RED", T.parent[m] # p, m # p
          PROVE  T.color[T.parent[m]] = "BLACK"
        <3>1. m # w /\ tree.color[m] = "RED" /\ m # tree.root /\ m # n
            BY <1>1, <1>2, <1>7, <1>8, <2>2
        <3>2. tree.parent[m] \in L /\ tree[SideOf(tree, m)][tree.parent[m]] = m
            BY <1>1, <3>1 DEF Knit
        <3>3. tree.color[tree.parent[m]] = "BLACK"
            BY <1>2, <3>1 DEF Reds
        <3>4. tree.parent[m] # w
            BY <1>1, <3>1, <3>2, SideOfSides
        <3> QED
            BY <1>1, <1>7, <1>8, <3>2, <3>3, <3>4
    <2> QED
        BY <2>1, <2>2 DEF Reds
<1>13. RootBlack(T, p)
    BY <1>1, <1>2, <1>7, <1>8, Typed DEF RootBlack
<1>14. Deleted(T, L, b2, p)
    <2>1. q = (IF p = T.root THEN nil ELSE T.parent[p]) /\ s = SideOf(T, p)
        BY <1>8 DEF q
    <2>2. p # T.root => T.parent[p] \in L /\ T[SideOf(T, p)][T.parent[p]] = p
        BY <1>8, <1>9, <2>1
    <2> QED
        BY <1>2, <1>11, <1>12, <1>13, <2>1, <2>2 DEF Deleted
<1> QED
    BY <1>8, <1>14 DEF T

\* The far nephew is black and the near one red: it comes up.
LEMMA TurnNephewKeeps ==
    ASSUME NEW tree, NEW L, NEW e, Sound(tree, L, e), NEW b, NEW n, NEW p, NEW side, NEW far, NEW w,
           Short(tree, L, n, p, side, far, w), ShortHeights(tree, L, b, n, p, side, w),
           Reds(tree, L, n, n), tree.color[w] = "BLACK",
           tree.color[tree[far][w]] = "BLACK", tree.color[tree[side][w]] = "RED"
    PROVE  LET T == TurnNephew(tree, side, w)
               k == T[far][p]
           IN  /\ Sound(T, L, e) /\ T.size = tree.size
               /\ Short(T, L, n, p, side, far, k)
               /\ T.color[k] = "BLACK" /\ T.color[T[far][k]] = "RED"
               /\ Reds(T, L, n, n)
               /\ \E b2 : Heights(T, L, b2, p, side)
<1> DEFINE k == tree[side][w]
           P == Paint(Paint(tree, k, "BLACK"), w, "RED")
           T == Rotate(P, far, w)
           b2 == Swap(b, w, k, b[k])
<1>1. /\ Knit(tree, L) /\ tree \in Trees /\ L \subseteq Nodes /\ nil \notin L /\ L \subseteq Ids
      /\ nil \in Nodes /\ "RED" # "BLACK"
    BY SoundKnit, Constants
<1>2. /\ n \in L \cup {nil} /\ p \in L /\ w \in L
      /\ n # tree.root /\ w # tree.root /\ n # p /\ w # p /\ w # n
      /\ tree.parent[n] = p /\ tree.parent[w] = p
      /\ tree.color[n] = "BLACK" /\ tree.color[nil] = "BLACK"
      /\ tree.color[tree.root] = "BLACK"
    BY DEF Short
<1>3. /\ side \in Sides /\ far \in Sides /\ side # far /\ Other(side) = far /\ Other(far) = side
      /\ SideOf(tree, w) = far
    BY DEF Short
<1>4. tree[side][p] = n /\ tree[far][p] = w
    BY DEF Short
<1>5. \A r \in Sides :
        /\ b[tree[r][w]] = b[n] /\ tree[r][w] \in L \cup {nil}
        /\ tree[r][w] # p /\ tree[r][w] # w
        /\ tree[r][w] # nil => tree.parent[tree[r][w]] = w /\ tree[r][w] # n
    BY <1>1, BlackSibling
<1>6. /\ k \in L /\ tree.color[k] = "RED" /\ k # n /\ tree.parent[k] = w /\ k # p /\ k # w
      /\ b[k] = b[n] /\ b[tree[far][w]] = b[n]
    BY <1>1, <1>2, <1>3, <1>5
<1>7. k # tree.root
    BY <1>1, <1>2, <1>6
<1>8. TurnNephew(tree, side, w) = T
    BY <1>3 DEF TurnNephew
<1> HIDE DEF P, T, b2
<1>9. /\ Recolored(tree, P)
      /\ \A m \in Nodes : P.color[m] = IF m = w THEN "RED" ELSE IF m = k THEN "BLACK"
                                       ELSE tree.color[m]
    BY <1>1, <1>2, <1>6, PaintTwice DEF Colors, P
<1>10. P[Other(far)][w] = k /\ k \in L
    BY <1>3, <1>6, <1>9 DEF Recolored
<1> HIDE DEF k
<1>11. Sound(T, L, e) /\ Rotated(P, far, w, k, T)
    <2>1. Sound(P, L, e)
        BY <1>9, RecolorSound
    <2> QED
        BY <1>1, <1>2, <1>3, <1>10, <2>1, RotateSound DEF T
<1>12. Turned(tree, far, w, k, T) /\ Knit(T, L) /\ T \in Trees
    BY <1>1, <1>2, <1>3, <1>6, <1>9, <1>11, TurnedRecolored, SoundKnit DEF Rotated
<1>13. \A m \in Nodes : T.color[m] = IF m = w THEN "RED" ELSE IF m = k THEN "BLACK"
                                     ELSE tree.color[m]
    BY <1>9, <1>11 DEF Rotated
<1>14. /\ T.size = tree.size /\ T.parent[w] = k /\ T.root = tree.root
       /\ T[far][k] = w /\ T[far][p] = k /\ T[side][p] = n
       /\ \A m \in Nodes \ {w, k} : T.parent[m] = IF m = tree[far][k] /\ m # nil THEN w
                                                  ELSE tree.parent[m]
    <2>1. /\ T.size = tree.size /\ T.parent[w] = k /\ T.root = tree.root /\ T[far][k] = w
          /\ \A m \in Nodes \ {w, k} : T.parent[m] = IF m = tree[far][k] /\ m # nil THEN w
                                                     ELSE tree.parent[m]
        BY <1>1, <1>2, <1>12 DEF Turned
    <2>2. p \in Ids \ {w, k} /\ p = tree.parent[w]
        BY <1>1, <1>2, <1>6
    <2>3. \A r \in Sides : T[r][p] = IF r = SideOf(tree, w) THEN k ELSE tree[r][p]
        BY <1>12, <2>2 DEF Turned
    <2> QED
        BY <1>3, <1>4, <2>1, <2>3
<1>15. \A m \in L : m = tree[far][k] => tree.parent[m] = k
    BY <1>1, <1>3, <1>6 DEF Knit
<1>16. /\ T.color[n] = "BLACK" /\ T.color[nil] = "BLACK" /\ T.color[k] = "BLACK"
       /\ T.color[T.root] = "BLACK" /\ T.color[w] = "RED" /\ n # T.root
    <2>1. tree.root \in Nodes
        BY <1>1, Typed
    <2> QED
        BY <1>1, <1>2, <1>6, <1>7, <1>13, <1>14, <2>1
<1>17. Short(T, L, n, p, side, far, k)
    <2>1. T.parent[n] = p
        BY <1>1, <1>2, <1>6, <1>14, <1>15
    <2>2. k # nil
        BY <1>1, <1>6
    <2> QED
        BY <1>1, <1>12, <1>14, <1>16, <2>1, <2>2, StillShort
<1>18. Reds(T, L, n, n)
    <2> SUFFICES ASSUME NEW m \in L, T.color[m] = "RED", m # n, T.parent[m] # n
                 PROVE  T.color[T.parent[m]] = "BLACK"
        BY <1>16 DEF Reds
    <2>1. CASE m = w
        BY <1>14, <1>16, <2>1
    <2>2. CASE m # w
        <3>1. m # k /\ tree.color[m] = "RED" /\ m # tree.root
            BY <1>1, <1>2, <1>13, <2>2
        <3>2. /\ tree.parent[m] \in L /\ tree[SideOf(tree, m)][tree.parent[m]] = m
              /\ SideOf(tree, m) \in Sides
            BY <1>1, <3>1, SideOfSides DEF Knit
        <3>3. tree.color[tree.parent[m]] = "BLACK" \/ tree.parent[m] = n
            BY <3>1 DEF Reds
        <3>4. m # tree[far][k]
            BY <1>1, <1>2, <1>6, <1>15, <3>3
        <3>5. T.parent[m] = tree.parent[m]
            BY <1>1, <1>14, <2>2, <3>1, <3>4
        <3>6. tree.parent[m] # w
            <4>1. SideOf(tree, m) = far \/ SideOf(tree, m) = side
                BY <1>3, <3>2 DEF Sides
            <4>2. tree.color[tree[far][w]] = "BLACK" /\ tree[side][w] = k
                BY DEF k
            <4> QED
                BY <1>1, <3>1, <3>2, <4>1, <4>2
        <3> QED
            BY <1>1, <1>13, <3>2, <3>3, <3>5, <3>6
    <2> QED
        BY <2>1, <2>2
<1>19. Heights(T, L, b2, p, side)
    <2>1. Heights(tree, L, b, p, side) /\ b[n] \in Nat /\ b[n] > 0 /\ b[w] = b[n] + 1
        BY DEF ShortHeights
    <2>2. \A r \in Sides : Lacks(w, r, p, side) = 0 /\ Lacks(k, r, p, side) = 0
        BY <1>2, <1>6 DEF Lacks
    <2>3. Black(T, k) = 1 /\ Black(T, w) = 0 /\ Black(tree, k) = 0
        BY <1>1, <1>6, <1>16 DEF Black
    <2>4. \A r \in Sides : b[tree[r][k]] = b[n]
        <3>1. k \in L /\ k # p /\ L \subseteq Ids
            BY <1>1, <1>6
        <3>2. \A r \in Sides : b[tree[r][k]] \in Nat /\ b[k] = b[tree[r][k]] + Black(tree, k)
            BY <1>1, <2>1, <3>1, HeightsOff
        <3> QED
            BY <1>6, <2>3, <3>2
    <2>5. /\ b[k] \in Nat /\ b[k] > 0
          /\ b[k] = b[tree[far][w]] + Lacks(w, far, p, side) + Black(T, w)
          /\ b[k] = b[tree[far][k]] + Lacks(w, Other(far), p, side) + Black(T, w)
          /\ b[w] = b[k] + Lacks(k, far, p, side) + Black(T, k)
          /\ b[w] = b[tree[Other(far)][k]] + Lacks(k, Other(far), p, side) + Black(T, k)
        BY <1>3, <1>6, <2>1, <2>2, <2>3, <2>4
    <2>6. \A m \in L \ {w, k} : T.color[m] = tree.color[m]
        BY <1>1, <1>13
    <2>7. k = tree[Other(far)][w]
        BY <1>3 DEF k
    <2> QED
        BY <1>1, <1>2, <1>3, <1>6, <1>12, <2>1, <2>5, <2>6, <2>7, SwappedHeights DEF b2
<1> QED
    BY <1>8, <1>11, <1>14, <1>16, <1>17, <1>18, <1>19

\* The far nephew is red: the sibling goes above p, and no side lacks a node.
LEMMA SettleKeeps ==
    ASSUME NEW tree, NEW L, NEW e, Sound(tree, L, e), NEW b, NEW n, NEW p, NEW side, NEW far, NEW w,
           Short(tree, L, n, p, side, far, w), ShortHeights(tree, L, b, n, p, side, w),
           Reds(tree, L, n, n), tree.color[w] = "BLACK",
           tree.color[tree[far][w]] = "RED"
    PROVE  LET T == Settle(tree, side, p)
           IN  /\ Sound(T, L, e) /\ T.size = tree.size
               /\ \E b2 : Deleted(T, L, b2, T.root)
<1> DEFINE f == tree[far][w]
           k == tree[side][w]
           P == Paint(Paint(Paint(tree, w, tree.color[p]), p, "BLACK"), f, "BLACK")
           T == Rotate(P, side, p)
           b2 == [b EXCEPT ![p] = b[n] + 1, ![f] = b[n] + 1, ![w] = b[p]]
<1>1. /\ Knit(tree, L) /\ tree \in Trees /\ L \subseteq Nodes /\ nil \notin L /\ L \subseteq Ids
      /\ nil \in Nodes /\ "RED" # "BLACK"
    BY SoundKnit, Constants
<1>2. /\ n \in L \cup {nil} /\ p \in L /\ w \in L
      /\ n # tree.root /\ w # tree.root /\ n # p /\ w # p /\ w # n
      /\ tree.parent[n] = p /\ tree.parent[w] = p
      /\ tree.color[n] = "BLACK" /\ tree.color[nil] = "BLACK"
      /\ tree.color[tree.root] = "BLACK"
    BY DEF Short
<1>3. /\ side \in Sides /\ far \in Sides /\ side # far /\ Other(side) = far /\ Other(far) = side
      /\ \A r \in Sides : r = side \/ r = far
    BY DEF Short, Sides
<1>4. tree[side][p] = n /\ tree[far][p] = w
    BY DEF Short
<1>5. \A r \in Sides :
        /\ b[tree[r][w]] = b[n] /\ tree[r][w] \in L \cup {nil}
        /\ tree[r][w] # p /\ tree[r][w] # w
        /\ tree[r][w] # nil => tree.parent[tree[r][w]] = w /\ tree[r][w] # n
    BY <1>1, BlackSibling
<1>6. /\ f \in L /\ tree.color[f] = "RED" /\ f # n /\ tree.parent[f] = w /\ f # p /\ f # w
      /\ b[f] = b[n]
    BY <1>1, <1>2, <1>3, <1>5
<1>7. /\ k \in L \cup {nil} /\ k # p /\ k # w /\ b[k] = b[n]
      /\ k # nil => k # f
    <2>1. k # nil => k # f
        BY <1>1, <1>2, <1>3 DEF Knit
    <2> QED
        BY <1>3, <1>5, <2>1
<1>8. Settle(tree, side, p) = T
    BY <1>3, <1>4 DEF Settle
<1> HIDE DEF P, T, f, k
<1>9. /\ Recolored(tree, P)
      /\ \A m \in Nodes : P.color[m] = IF m = f THEN "BLACK" ELSE IF m = p THEN "BLACK"
                                       ELSE IF m = w THEN tree.color[p] ELSE tree.color[m]
    <2>1. /\ w \in Nodes /\ p \in Nodes /\ f \in Nodes
          /\ tree.color[p] \in Colors /\ "BLACK" \in Colors
        BY <1>1, <1>2, <1>6, Typed DEF Colors
    <2>2. ASSUME NEW c \in Colors
          PROVE  LET Q == Paint(Paint(Paint(tree, w, c), p, "BLACK"), f, "BLACK")
                 IN  /\ Recolored(tree, Q)
                     /\ \A m \in Nodes : Q.color[m] = IF m = f THEN "BLACK"
                                                       ELSE IF m = p THEN "BLACK"
                                                       ELSE IF m = w THEN c ELSE tree.color[m]
        BY <1>1, <2>1, PaintThrice
    <2> QED
        BY <2>1, <2>2 DEF P
<1>10. Sound(T, L, e) /\ Rotated(P, side, p, w, T)
    <2>1. Sound(P, L, e)
        BY <1>9, RecolorSound
    <2>2. P[Other(side)][p] = w
        BY <1>3, <1>4, <1>9 DEF Recolored
    <2> QED
        BY <1>1, <1>2, <1>3, <2>1, <2>2, RotateSound DEF T
<1>11. Turned(tree, side, p, w, T) /\ Knit(T, L) /\ T \in Trees
    BY <1>1, <1>2, <1>3, <1>9, <1>10, TurnedRecolored, SoundKnit DEF Rotated
<1>12. \A m \in Nodes : T.color[m] = IF m = f THEN "BLACK" ELSE IF m = p THEN "BLACK"
                                     ELSE IF m = w THEN tree.color[p] ELSE tree.color[m]
    BY <1>9, <1>10 DEF Rotated
<1>13. /\ T.size = tree.size /\ T.parent[p] = w /\ T.parent[w] = tree.parent[p]
       /\ \A m \in Nodes \ {p, w} : T.parent[m] = IF m = k /\ m # nil THEN p ELSE tree.parent[m]
    BY <1>1, <1>2, <1>11 DEF Turned, k
<1>14. /\ T.color[nil] = "BLACK" /\ T.color[p] = "BLACK" /\ T.color[f] = "BLACK"
       /\ T.color[w] = tree.color[p]
    BY <1>1, <1>2, <1>6, <1>12
<1>15. Heights(T, L, b2, nil, "left")
    <2>1. Heights(tree, L, b, p, side) /\ b[n] \in Nat /\ b[n] > 0 /\ b[w] = b[n] + 1
          /\ b[p] = b[w] + (IF tree.color[p] = "RED" THEN 0 ELSE 1)
        BY DEF ShortHeights
    <2>2. b \in [Nodes -> Nat] /\ b[nil] = 1 /\ \A m \in L : b[m] > 0
        BY <1>3, <2>1 DEF Heights
    <2>3. /\ b2 \in [Nodes -> Nat]
          /\ b2[p] = b[n] + 1 /\ b2[f] = b[n] + 1 /\ b2[w] = b[p]
          /\ \A m \in Nodes \ {p, f, w} : b2[m] = b[m]
        BY <1>1, <1>2, <1>6, <2>1, <2>2
    <2> HIDE DEF b2
    <2>4. b2[nil] = 1 /\ \A m \in L : b2[m] > 0
        <3>1. b2[nil] = 1
            BY <1>1, <1>2, <1>6, <2>2, <2>3
        <3>2. \A m \in L : b2[m] > 0
            BY <1>1, <1>2, <2>1, <2>2, <2>3
        <3> QED
            BY <3>1, <3>2
    <2>5. \A m, r : m \in L => Lacks(m, r, nil, "left") = 0
        BY <1>1 DEF Lacks
    <2>6. ASSUME NEW m \in L \ {p, w}, NEW r \in Sides
          PROVE  b2[m] = b2[IF tree[r][m] = p THEN w ELSE tree[r][m]]
                            + Lacks(m, r, nil, "left") + Black(T, m)
        <3>1. /\ b[tree[r][m]] \in Nat /\ tree[r][m] \in Nodes
              /\ b[m] = b[tree[r][m]] + Black(tree, m)
            <4>1. L \subseteq Ids /\ m \in L /\ m # p
                BY <1>1
            <4> QED
                BY <1>1, <2>1, <4>1, HeightsOff
        <3>2. Lacks(m, r, nil, "left") = 0 /\ m \in Nodes
            BY <1>1, <2>5
        <3>3. tree[r][m] # w /\ tree[r][m] # f
            BY <1>1, <1>2, <1>6 DEF Knit
        <3>4. b2[IF tree[r][m] = p THEN w ELSE tree[r][m]] = b[tree[r][m]]
            BY <2>3, <3>1, <3>3
        <3>5. b2[m] = b[tree[r][m]] + Black(T, m)
            <4>1. CASE m = f
                <5>1. Black(T, m) = 1 /\ Black(tree, m) = 0
                    BY <1>1, <1>6, <1>14, <4>1 DEF Black
                <5> QED
                    BY <1>6, <2>1, <2>3, <3>1, <4>1, <5>1
            <4>2. CASE m # f
                <5>1. Black(T, m) = Black(tree, m)
                    BY <1>1, <1>12, <3>2, <4>2 DEF Black
                <5> QED
                    BY <2>3, <3>1, <3>2, <4>2, <5>1
            <4> QED
                BY <4>1, <4>2
        <3>6. Black(T, m) \in Nat
            BY DEF Black
        <3> QED
            BY <3>1, <3>2, <3>4, <3>5, <3>6
    <2>7. /\ b2[p] = b2[tree[side][p]] + Lacks(p, side, nil, "left") + Black(T, p)
          /\ b2[p] = b2[tree[side][w]] + Lacks(p, Other(side), nil, "left") + Black(T, p)
          /\ b2[w] = b2[p] + Lacks(w, side, nil, "left") + Black(T, w)
          /\ b2[w] = b2[tree[Other(side)][w]] + Lacks(w, Other(side), nil, "left") + Black(T, w)
        <3>1. \A r : Lacks(p, r, nil, "left") = 0 /\ Lacks(w, r, nil, "left") = 0
            BY <1>2, <2>5
        <3>2. Black(T, p) = 1 /\ Black(T, w) = IF tree.color[p] = "RED" THEN 0 ELSE 1
            <4>1. Black(T, p) = 1
                BY <1>14 DEF Black
            <4>2. Black(T, w) = IF T.color[w] = "RED" THEN 0 ELSE 1
                BY <1>1, <1>2, <1>11, ColorFacts
            <4> QED
                BY <1>14, <4>1, <4>2
        <3>3. b2[n] = b[n] /\ b2[k] = b[n]
            <4>1. k # f /\ n # f
                BY <1>1, <1>2, <1>6, <1>7
            <4> QED
                BY <1>1, <1>2, <1>7, <2>3, <4>1
        <3>4. tree[side][p] = n /\ tree[side][w] = k /\ tree[Other(side)][w] = f
            BY <1>3, <1>4 DEF k, f
        <3> QED
            BY <2>1, <2>3, <3>1, <3>2, <3>3, <3>4
    <2>8. w = tree[Other(side)][p]
        BY <1>3, <1>4
    <2> QED
        BY <1>1, <1>2, <1>3, <1>11, <2>3, <2>4, <2>6, <2>7, <2>8, TurnedHeights
<1>16. \A m \in L : T.color[m] = "RED" => T.color[T.parent[m]] = "BLACK" \/ m = T.root
    <2> SUFFICES ASSUME NEW m \in L, T.color[m] = "RED"
                 PROVE  T.color[T.parent[m]] = "BLACK"
        OBVIOUS
    <2>1. m # p /\ m # f
        BY <1>1, <1>14
    <2>2. CASE m = w
        <3>1. tree.color[p] = "RED" /\ p # tree.root
            BY <1>1, <1>2, <1>14, <2>2
        <3>2. tree.parent[p] \in L /\ tree[SideOf(tree, p)][tree.parent[p]] = p
            BY <1>1, <1>2, <3>1 DEF Knit
        <3>3. tree.parent[p] # n /\ tree.parent[p] # w
            <4>1. tree.parent[p] # w
                BY <1>1, <1>2, <1>3, <1>4 DEF Knit
            <4>2. tree.parent[p] # n
                BY <1>1, <1>2, <1>3, <1>4, <3>2 DEF Knit
            <4> QED
                BY <4>1, <4>2
        <3>4. tree.color[tree.parent[p]] = "BLACK"
            BY <1>2, <3>1, <3>3 DEF Reds
        <3> QED
            BY <1>1, <1>12, <1>13, <2>2, <3>2, <3>3, <3>4
    <2>3. CASE m # w
        <3>1. tree.color[m] = "RED" /\ m # n /\ m # tree.root /\ m # nil
            BY <1>1, <1>2, <1>12, <2>1, <2>3
        <3>2. /\ tree.parent[m] \in L /\ tree[SideOf(tree, m)][tree.parent[m]] = m
              /\ SideOf(tree, m) \in Sides
            BY <1>1, <3>1, SideOfSides DEF Knit
        <3>3. tree.color[tree.parent[m]] = "BLACK"
            BY <1>2, <3>1 DEF Reds
        <3>4. CASE m = k
            BY <1>1, <1>13, <1>14, <2>1, <2>3, <3>1, <3>4
        <3>5. CASE m # k
            <4>1. T.parent[m] = tree.parent[m]
                BY <1>1, <1>13, <2>1, <2>3, <3>5
            <4>2. tree.parent[m] # w
                BY <1>3, <2>1, <3>2, <3>5 DEF k, f
            <4> QED
                BY <1>1, <1>12, <3>2, <3>3, <4>1, <4>2
        <3> QED
            BY <3>4, <3>5
    <2> QED
        BY <2>2, <2>3
<1> HIDE DEF b2
<1>17. Deleted(T, L, b2, T.root)
    <2>1. T.root \in L \cup {nil}
        BY <1>11 DEF Knit
    <2>2. Heights(T, L, b2, nil, SideOf(T, T.root))
        BY <1>1, <1>15, NowhereLacking
    <2>3. Reds(T, L, T.root, T.root)
        BY <1>14, <1>16 DEF Reds
    <2> QED
        BY <2>1, <2>2, <2>3 DEF Deleted, RootBlack
<1> QED
    BY <1>8, <1>10, <1>13, <1>17

\* What ShortFacts says, from the parts of Deleted.
LEMMA ShortAgain ==
    ASSUME NEW tree \in Trees, NEW L, Knit(tree, L), NEW b, NEW n, NEW p, NEW side, NEW far, NEW w,
           Short(tree, L, n, p, side, far, w), Heights(tree, L, b, p, side), Reds(tree, L, n, n)
    PROVE  ShortHeights(tree, L, b, n, p, side, w)
<1>1. Deleted(tree, L, b, n)
    BY ShortDeleted
<1>2. /\ n # tree.root /\ tree.color[n] = "BLACK"
      /\ p = tree.parent[n] /\ side = SideOf(tree, n) /\ w = tree[Other(side)][p]
    BY DEF Short
<1>3. ShortHeights(tree, L, b, n, tree.parent[n], SideOf(tree, n),
                   tree[Other(SideOf(tree, n))][tree.parent[n]])
    BY <1>1, <1>2, ShortFacts
<1> QED
    BY <1>2, <1>3

\* The turn from where the sibling is black on.
BlackRound(tree, side, far, p, w) ==
    LET t2 == IF tree.color[tree[far][w]] = "BLACK" THEN TurnNephew(tree, side, w) ELSE tree
        t3 == Settle(t2, side, p)
    IN  IF \A s \in Sides : tree.color[tree[s][w]] = "BLACK"
        THEN <<Paint(tree, w, "RED"), p>>
        ELSE <<t3, t3.root>>

\* The rest of a round, once the sibling is black.
LEMMA BlackRoundKeeps ==
    ASSUME NEW tree, NEW L, NEW e, Sound(tree, L, e), NEW b, NEW n, NEW p, NEW side, NEW far, NEW w,
           Short(tree, L, n, p, side, far, w), Heights(tree, L, b, p, side),
           Reds(tree, L, n, n), tree.color[w] = "BLACK"
    PROVE  LET round == BlackRound(tree, side, far, p, w)
           IN  /\ Sound(round[1], L, e) /\ round[1].size = tree.size
               /\ \E b2 : Deleted(round[1], L, b2, round[2])
<1> DEFINE round == BlackRound(tree, side, far, p, w)
           f == tree[far][w]
           k == tree[side][w]
           N == TurnNephew(tree, side, w)
<1>1. /\ Knit(tree, L) /\ tree \in Trees /\ L \subseteq Nodes
    BY SoundKnit
<1>2. ShortHeights(tree, L, b, n, p, side, w)
    BY <1>1, ShortAgain
<1>3. /\ side \in Sides /\ far \in Sides /\ (\A s \in Sides : s = side \/ s = far) /\ w \in L
      /\ Other(side) = far
    BY DEF Short, Sides
<1>4. /\ tree.color[f] \in {"RED", "BLACK"} /\ tree.color[k] \in {"RED", "BLACK"}
      /\ "RED" # "BLACK"
    <2>1. f \in Nodes /\ k \in Nodes
        BY <1>1, <1>3, Typed DEF Knit
    <2> QED
        BY <1>1, <2>1, ColorFacts
<1>5. CASE \A s \in Sides : tree.color[tree[s][w]] = "BLACK"
    <2>1. round[1] = Paint(tree, w, "RED") /\ round[2] = p
        BY <1>5 DEF BlackRound
    <2>2. /\ Sound(Paint(tree, w, "RED"), L, e) /\ Paint(tree, w, "RED").size = tree.size
          /\ \E b2 : Deleted(Paint(tree, w, "RED"), L, b2, p)
        BY <1>2, <1>5, BlackNephewsKeep
    <2> QED
        BY <2>1, <2>2
<1>6. CASE tree.color[f] = "RED"
    <2>1. round[1] = Settle(tree, side, p) /\ round[2] = Settle(tree, side, p).root
        BY <1>3, <1>4, <1>6 DEF BlackRound
    <2>2. /\ Sound(Settle(tree, side, p), L, e) /\ Settle(tree, side, p).size = tree.size
          /\ \E b2 : Deleted(Settle(tree, side, p), L, b2, Settle(tree, side, p).root)
        BY <1>2, <1>6, SettleKeeps
    <2> QED
        BY <2>1, <2>2
<1>7. CASE tree.color[f] = "BLACK" /\ tree.color[k] = "RED"
    <2>1. round[1] = Settle(N, side, p) /\ round[2] = Settle(N, side, p).root
        BY <1>3, <1>4, <1>7 DEF BlackRound
    <2>2. PICK m : m = N[far][p]
        OBVIOUS
    <2>3. PICK b2 : Heights(N, L, b2, p, side)
        BY <1>2, <1>7, TurnNephewKeeps
    <2>4. /\ Sound(N, L, e) /\ N.size = tree.size
          /\ Short(N, L, n, p, side, far, m)
          /\ N.color[m] = "BLACK" /\ N.color[N[far][m]] = "RED"
          /\ Reds(N, L, n, n)
        BY <1>2, <1>7, <2>2, TurnNephewKeeps
    <2> HIDE DEF N
    <2>5. ShortHeights(N, L, b2, n, p, side, m)
        BY <2>3, <2>4, SoundKnit, ShortAgain
    <2>6. /\ Sound(Settle(N, side, p), L, e) /\ Settle(N, side, p).size = N.size
          /\ \E b3 : Deleted(Settle(N, side, p), L, b3, Settle(N, side, p).root)
        BY <2>4, <2>5, SettleKeeps
    <2> QED
        BY <2>1, <2>4, <2>6
<1>8. (\A s \in Sides : tree.color[tree[s][w]] = "BLACK") \/ tree.color[f] = "RED"
      \/ (tree.color[f] = "BLACK" /\ tree.color[k] = "RED")
    BY <1>3, <1>4
<1> QED
    BY <1>5, <1>6, <1>7, <1>8

\* One turn of the loop of rbt_delete_fixup.
LEMMA DeleteRoundKeeps ==
    ASSUME NEW tree, NEW L, NEW e, Sound(tree, L, e), NEW b, NEW n, Deleted(tree, L, b, n),
           n # tree.root, tree.color[n] = "BLACK"
    PROVE  LET round == DeleteRound(tree, n)
           IN  /\ Sound(round[1], L, e) /\ round[1].size = tree.size
               /\ \E b2 : Deleted(round[1], L, b2, round[2])
<1> DEFINE p == tree.parent[n]
           side == SideOf(tree, n)
           far == Other(side)
           w == tree[far][p]
           T == RaiseSibling(tree, side, p)
<1>1. /\ Knit(tree, L) /\ tree \in Trees /\ L \subseteq Nodes
    BY SoundKnit
<1>2. Short(tree, L, n, p, side, far, w) /\ ShortHeights(tree, L, b, n, p, side, w)
    BY <1>1, ShortFacts
<1>3. Reds(tree, L, n, n)
    BY DEF Deleted
<1>4. DeleteRound(tree, n) =
        IF tree.color[w] = "RED" THEN BlackRound(T, side, far, p, T[far][p])
                                 ELSE BlackRound(tree, side, far, p, w)
    BY DEF DeleteRound, BlackRound
<1> HIDE DEF p, side, far, w, T
<1>5. CASE tree.color[w] = "RED"
    <2>1. PICK m : m = T[far][p]
        OBVIOUS
    <2>2. PICK b2 : Heights(T, L, b2, p, side)
        BY <1>2, <1>3, <1>5, RaiseSiblingKeeps DEF T
    <2>3. /\ Sound(T, L, e) /\ T.size = tree.size
          /\ Short(T, L, n, p, side, far, m) /\ T.color[m] = "BLACK" /\ Reds(T, L, n, n)
        BY <1>2, <1>3, <1>5, <2>1, RaiseSiblingKeeps DEF T
    <2>4. DeleteRound(tree, n) = BlackRound(T, side, far, p, m)
        BY <1>4, <1>5, <2>1
    <2> QED
        BY <2>2, <2>3, <2>4, BlackRoundKeeps
<1>6. CASE tree.color[w] # "RED"
    <2>1. w \in Nodes
        BY <1>1, <1>2 DEF Short
    <2>2. tree.color[w] = "BLACK"
        BY <1>1, <1>6, <2>1, ColorFacts
    <2>3. Heights(tree, L, b, p, side)
        BY <1>2 DEF ShortHeights
    <2>4. DeleteRound(tree, n) = BlackRound(tree, side, far, p, w)
        BY <1>4, <1>6
    <2> QED
        BY <1>2, <1>3, <2>2, <2>3, <2>4, BlackRoundKeeps
<1> QED
    BY <1>5, <1>6

\* The node that is given back.
Freed(tree, n, T) ==
    /\ T \in Trees /\ T.root = tree.root /\ T.size = tree.size
    /\ \A s \in Sides, m \in Ids : T[s][m] = IF m = n THEN nil ELSE tree[s][m]
    /\ \A m \in Nodes : /\ T.parent[m] = IF m = n THEN nil ELSE tree.parent[m]
                        /\ T.color[m] = IF m = n THEN "BLACK" ELSE tree.color[m]

\* free, pointer by pointer.
LEMMA FreeFacts ==
    ASSUME NEW tree \in Trees, NEW n \in Ids
    PROVE  Freed(tree, n, free(tree, n))
<1> DEFINE T == free(tree, n)
<1>1. n \in Nodes /\ nil \in Nodes
    BY Constants
<1>2. /\ T \in Trees /\ T.root = tree.root /\ T.size = tree.size
      /\ \A m \in Ids : T.left[m] = IF m = n THEN nil ELSE tree.left[m]
      /\ \A m \in Ids : T.right[m] = IF m = n THEN nil ELSE tree.right[m]
      /\ \A m \in Nodes : /\ T.parent[m] = IF m = n THEN nil ELSE tree.parent[m]
                          /\ T.color[m] = IF m = n THEN "BLACK" ELSE tree.color[m]
    BY <1>1 DEF free, Trees, Colors
<1> HIDE DEF T
<1>3. \A s \in Sides, m \in Ids : T[s][m] = IF m = n THEN nil ELSE tree[s][m]
    BY <1>2 DEF Sides
<1> QED
    BY <1>2, <1>3 DEF T, Freed

\* The node that was cut off is freed, the tree stays as it is.
LEMMA FreeKeeps ==
    ASSUME NEW tree, NEW L, NEW n \in Ids \ L, Sound(tree, L, n), NEW b, Whole(tree, L, b)
    PROVE  /\ Sound(free(tree, n), L, nil) /\ free(tree, n).size = tree.size
           /\ Whole(free(tree, n), L, b)
<1> DEFINE T == free(tree, n)
<1>1. /\ Knit(tree, L) /\ tree \in Trees /\ L \subseteq Ids /\ L \subseteq Nodes /\ nil \notin L
      /\ n # nil /\ nil \in Nodes
    BY SoundKnit, Constants
<1>2. Freed(tree, n, T)
    BY <1>1, FreeFacts
<1> HIDE DEF T
<1>3. /\ T \in Trees /\ T.root = tree.root /\ T.size = tree.size
      /\ \A s \in Sides, m \in L : T[s][m] = tree[s][m]
      /\ \A m \in L \cup {nil} : T.parent[m] = tree.parent[m] /\ T.color[m] = tree.color[m]
    BY <1>1, <1>2 DEF Freed
<1>4. ASSUME NEW lo, NEW hi, Shape(tree, L, lo, hi)
      PROVE  Shape(T, L, lo, hi)
    <2>1. Rooted(T, L, lo, hi)
        BY <1>3, <1>4 DEF Shape, Rooted
    <2>2. \A m \in L, s \in Sides : Fits(T, L, lo, hi, m, s)
        BY <1>3, <1>4 DEF Shape, Fits
    <2>3. Hangs(T, L)
        <3> SUFFICES ASSUME NEW m \in L, m # T.root
                     PROVE  T.parent[m] \in L /\ T[SideOf(T, m)][T.parent[m]] = m
            BY DEF Hangs
        <3>1. tree.parent[m] \in L /\ tree[SideOf(tree, m)][tree.parent[m]] = m
            BY <1>3, <1>4 DEF Shape, Hangs
        <3>2. T.parent[m] = tree.parent[m] /\ \A s \in Sides : T[s][tree.parent[m]] = tree[s][tree.parent[m]]
            BY <1>3, <3>1
        <3>3. SideOf(T, m) = SideOf(tree, m) /\ SideOf(T, m) \in Sides
            BY <3>2, SideOfSides DEF SideOf, Sides
        <3> QED
            BY <3>1, <3>2, <3>3
    <2> QED
        BY <1>4, <2>1, <2>2, <2>3 DEF Shape
<1>5. Outside(T, L, nil)
    <2> SUFFICES ASSUME NEW m \in Ids \ L, NEW s \in Sides
                 PROVE  T[s][m] = nil
        BY DEF Outside
    <2>1. CASE m = n
        BY <1>2, <2>1 DEF Freed
    <2>2. CASE m # n
        BY <1>2, <2>2 DEF Freed, Sound, Outside
    <2> QED
        BY <2>1, <2>2
<1>6. Sound(T, L, nil)
    BY <1>3, <1>4, <1>5 DEF Sound
<1>7. Heights(T, L, b, nil, "left")
    BY <1>3 DEF Whole, Heights, Black
<1>8. Reds(T, L, nil, nil)
    <2>1. \A m \in L : tree.parent[m] \in L \cup {nil}
        BY <1>1 DEF Knit
    <2> QED
        BY <1>3, <2>1 DEF Whole, Reds
<1>9. RootBlack(T, nil)
    BY <1>1, <1>3 DEF Whole, RootBlack, Knit
<1> QED
    BY <1>3, <1>6, <1>7, <1>8, <1>9 DEF T, Whole

\* After the loop of rbt_delete_fixup.
LEMMA PaintedWhole ==
    ASSUME NEW tree, NEW L, NEW e, Sound(tree, L, e), NEW b, NEW n, Deleted(tree, L, b, n),
           n = tree.root \/ tree.color[n] = "RED"
    PROVE  LET T == Paint(tree, n, "BLACK")
           IN  /\ Sound(T, L, e) /\ T.size = tree.size
               /\ \E b2 : Whole(T, L, b2)
<1> DEFINE T == Paint(tree, n, "BLACK")
           p == tree.parent[n]
           side == SideOf(tree, n)
<1>1. /\ Knit(tree, L) /\ tree \in Trees /\ L \subseteq Nodes /\ nil \notin L /\ L \subseteq Ids
      /\ nil \in Nodes /\ "RED" # "BLACK"
    BY SoundKnit, Constants
<1>2. /\ n \in L \cup {nil} /\ tree.color[nil] = "BLACK" /\ n \in Nodes
      /\ Heights(tree, L, b, IF n = tree.root THEN nil ELSE tree.parent[n], SideOf(tree, n))
    BY <1>1 DEF Deleted, Reds
<1>3. Painted(tree, n, "BLACK", T)
    BY <1>1, <1>2, PaintFacts DEF Colors
<1> HIDE DEF T
<1>4. /\ Recolored(tree, T) /\ T.root = tree.root /\ T.size = tree.size /\ T.parent = tree.parent
      /\ (\A s \in Sides : T[s] = tree[s]) /\ T \in Trees
      /\ \A m \in Nodes : T.color[m] = IF m = n THEN "BLACK" ELSE tree.color[m]
    BY <1>3 DEF Painted, Recolored
<1>5. Sound(T, L, e)
    BY <1>4, RecolorSound
<1>6. Reds(T, L, nil, nil)
    <2> SUFFICES ASSUME NEW m \in L, T.color[m] = "RED"
                 PROVE  T.color[T.parent[m]] = "BLACK"
        BY <1>1, <1>2, <1>4 DEF Reds
    <2>1. m # n /\ tree.color[m] = "RED"
        BY <1>1, <1>4
    <2>2. tree.color[tree.parent[m]] = "BLACK" \/ tree.parent[m] = n
        BY <2>1 DEF Deleted, Reds
    <2>3. tree.parent[m] \in Nodes
        BY <1>1, Typed
    <2> QED
        BY <1>4, <2>2, <2>3
<1>7. RootBlack(T, nil)
    BY <1>1, <1>4, Typed DEF Deleted, RootBlack
<1>8. \E b2 : Heights(T, L, b2, nil, "left")
    <2>1. CASE n = tree.root
        <3>1. Heights(tree, L, b, nil, SideOf(tree, n))
            BY <1>2, <2>1
        <3>2. Heights(tree, L, b, nil, "left")
            BY <1>1, <3>1, NowhereLacking
        <3>3. Painted(tree, tree.root, "BLACK", T)
            BY <1>3, <2>1
        <3> QED
            BY <1>1, <3>2, <3>3, BlackRootHeights
    <2>2. CASE n # tree.root /\ tree.color[n] = "RED"
        <3> DEFINE b2 == [b EXCEPT ![n] = @ + 1]
        <3>1. /\ n \in L /\ p \in L /\ tree[side][p] = n /\ side \in Sides
              /\ Heights(tree, L, b, p, side) /\ SideOf(tree, n) = side /\ tree.parent[n] = p
            BY <1>1, <1>2, <2>2, SideOfSides DEF Deleted
        <3> HIDE DEF p, side
        <3>2. b \in [Nodes -> Nat] /\ b[nil] = 1
            BY <3>1 DEF Heights
        <3>3. /\ b2 \in [Nodes -> Nat] /\ b2[n] = b[n] + 1 /\ \A m \in Nodes \ {n} : b2[m] = b[m]
            BY <1>2, <3>2
        <3> HIDE DEF b2
        <3>4. b2[nil] = 1
            BY <1>1, <3>1, <3>2, <3>3
        <3>5. ASSUME NEW m \in L, NEW s \in Sides
              PROVE  b2[m] > 0 /\ b2[m] = b2[T[s][m]] + Lacks(m, s, nil, "left") + Black(T, m)
            <4>1. /\ b[m] \in Nat /\ b[m] > 0 /\ b[tree[s][m]] \in Nat
                  /\ m \in Nodes /\ tree[s][m] \in Nodes
                  /\ m # p \/ s # side =>
                       b[m] = b[tree[s][m]] + (IF tree.color[m] = "RED" THEN 0 ELSE 1)
                  /\ m = p /\ s = side =>
                       b[m] = b[tree[s][m]] + 1 + (IF tree.color[m] = "RED" THEN 0 ELSE 1)
                <5>1. L \subseteq Ids /\ Heights(tree, L, b, p, side) /\ tree \in Trees
                    BY <1>1, <3>1
                <5> QED
                    BY <5>1, HeightsAt
            <4>2. Black(T, m) = IF T.color[m] = "RED" THEN 0 ELSE 1
                BY <1>4, <4>1, ColorFacts
            <4>3. T[s][m] = tree[s][m] /\ T.color[m] = IF m = n THEN "BLACK" ELSE tree.color[m]
                BY <1>4, <4>1
            <4>4. Lacks(m, s, nil, "left") = 0
                BY <1>1 DEF Lacks
            <4>5. tree[s][m] = n <=> m = p /\ s = side
                <5>1. tree[s][m] = n => m = p /\ s = side
                    BY <1>1, <3>1 DEF Knit
                <5> QED
                    BY <3>1, <5>1
            <4>6. b2[tree[s][m]] = IF m = p /\ s = side THEN b[tree[s][m]] + 1 ELSE b[tree[s][m]]
                BY <3>3, <4>1, <4>5
            <4>7. n # p
                BY <1>1, <3>1 DEF Knit
            <4>8. CASE m = n
                BY <1>1, <2>2, <3>3, <4>1, <4>2, <4>3, <4>4, <4>6, <4>7, <4>8
            <4>9. CASE m # n
                BY <3>3, <4>1, <4>2, <4>3, <4>4, <4>6, <4>9
            <4> QED
                BY <4>8, <4>9
        <3>6. Heights(T, L, b2, nil, "left")
            BY <3>3, <3>4, <3>5 DEF Heights
        <3> QED
            BY <3>6
    <2> QED
        BY <2>1, <2>2
<1> QED
    BY <1>4, <1>5, <1>6, <1>7, <1>8 DEF T, Whole

\* The node at which the climb ends becomes black, and nothing lacks.
LEMMA DeleteDoneKeeps ==
    ASSUME NEW tree, NEW L, NEW e \in Ids \ L, Sound(tree, L, e),
           NEW b, NEW n, Deleted(tree, L, b, n),
           n = tree.root \/ tree.color[n] = "RED"
    PROVE  LET T == free(Paint(tree, n, "BLACK"), e)
           IN  /\ Sound(T, L, nil) /\ T.size = tree.size
               /\ \E b2 : Whole(T, L, b2)
<1> DEFINE P == Paint(tree, n, "BLACK")
<1>1. Sound(P, L, e) /\ P.size = tree.size
    BY PaintedWhole
<1>2. PICK b2 : Whole(P, L, b2)
    BY PaintedWhole
<1> HIDE DEF P
<1>3. Sound(free(P, e), L, nil) /\ free(P, e).size = P.size /\ Whole(free(P, e), L, b2)
    BY <1>1, <1>2, FreeKeeps
<1> QED
    BY <1>1, <1>3 DEF P

-----------------------------------------------------------------------------
(* What cutting a node off does to the colors. *)

\* After a cut: a black node that is gone is lacking at the child in its place.
CutOff(tree, L, b, black, n) ==
    IF black THEN Deleted(tree, L, b, n) ELSE Whole(tree, L, b)

\* The equation of the black heights at every node and side.
LEMMA HeightsEverywhere ==
    ASSUME NEW tree \in Trees, NEW L, Knit(tree, L), NEW b, Heights(tree, L, b, nil, "left")
    PROVE  \A m \in L, r \in Sides :
             /\ b[tree[r][m]] \in Nat /\ tree[r][m] \in Nodes
             /\ b[m] > 0 /\ b[m] = b[tree[r][m]] + Black(tree, m)
<1>1. L \subseteq Ids /\ \A m \in L : m # nil
    BY Constants DEF Knit
<1>2. \A m \in L, r \in Sides : b[m] > 0
    BY DEF Heights
<1> QED
    BY <1>1, <1>2, HeightsOff

\* The node cut off was black: its child lacks one.  It was red: nothing does.
LEMMA CutColors ==
    ASSUME NEW tree, NEW L, Sound(tree, L, nil), NEW b, Whole(tree, L, b),
           NEW s \in Sides, NEW n \in L, tree[s][n] = nil,
           NEW c, c = tree[Other(s)][n],
           NEW T, Transplanted(tree, n, c, T)
    PROVE  CutOff(T, L \ {n}, b, tree.color[n] = "BLACK", c)
<1> DEFINE q == tree.parent[n]
           side == SideOf(tree, n)
           L2 == L \ {n}
<1>1. /\ Knit(tree, L) /\ tree \in Trees /\ L \subseteq Nodes /\ nil \notin L /\ L \subseteq Ids
      /\ nil \in Nodes /\ "RED" # "BLACK" /\ n # nil
    BY SoundKnit, Constants
<1>2. /\ Other(s) \in Sides /\ \A r \in Sides : r = s \/ r = Other(s)
    BY Constants DEF Sides, Other
<1>3. /\ c \in L2 \cup {nil} /\ c # n /\ c \in Nodes
      /\ c # nil => tree.parent[c] = n /\ c # tree.root /\ c # q
    <2>1. \A r \in Sides :
            /\ tree[r][n] \in L \cup {nil}
            /\ tree[r][n] # nil => /\ tree.parent[tree[r][n]] = n /\ tree[r][n] # n
                                  /\ tree[r][n] # tree.root /\ tree[r][n] # q
        BY <1>1 DEF Knit
    <2> QED
        BY <1>1, <1>2, <2>1
<1>4. \A m \in L, r \in Sides :
        /\ b[tree[r][m]] \in Nat /\ tree[r][m] \in Nodes
        /\ b[m] > 0 /\ b[m] = b[tree[r][m]] + Black(tree, m)
    BY <1>1, HeightsEverywhere DEF Whole
<1>5. Heights(tree, L, b, nil, "left") /\ b \in [Nodes -> Nat] /\ b[nil] = 1
      /\ tree.color[nil] = "BLACK" /\ RootBlack(tree, nil)
    BY DEF Whole, Heights, Reds
<1>6. tree.color[tree.root] = "BLACK"
    BY <1>5 DEF RootBlack
<1>7. /\ T.root = IF q = nil THEN c ELSE tree.root
      /\ T.color = tree.color /\ T \in Trees
      /\ \A r \in Sides, m \in Ids : T[r][m] = IF m = q /\ r = side THEN c ELSE tree[r][m]
      /\ \A m \in Nodes : T.parent[m] = IF m = c THEN q ELSE tree.parent[m]
    BY DEF Transplanted
<1>8. /\ n # tree.root => q \in L2 /\ tree[side][q] = n
      /\ side \in Sides /\ (q = nil <=> n = tree.root) /\ q \in L \cup {nil} /\ q # n
    <2>1. n # tree.root => q \in L /\ tree[side][q] = n /\ q # n
        BY <1>1, SideOfSides DEF Knit
    <2>2. n = tree.root => q = nil
        BY <1>1 DEF Knit
    <2> QED
        BY <1>1, <2>1, <2>2, SideOfSides
<1> HIDE DEF q, side
<1>9. \A m \in L, r \in Sides : tree[r][m] = n <=> m = q /\ r = side
    <2>1. \A m \in L, r \in Sides : tree[r][m] = n => m = q /\ r = side
        BY <1>1 DEF Knit, q, side
    <2>2. n = tree.root => q \notin L
        BY <1>1, <1>8
    <2> QED
        BY <1>8, <2>1, <2>2
<1>10. \A m \in L, r \in Sides : tree.parent[m] = n => m = c
    <2> SUFFICES ASSUME NEW m \in L, tree.parent[m] = n  PROVE m = c
        OBVIOUS
    <2>1. m # tree.root
        BY <1>1 DEF Knit
    <2>2. tree[SideOf(tree, m)][n] = m /\ SideOf(tree, m) \in Sides
        BY <1>1, <2>1, SideOfSides DEF Knit
    <2> QED
        BY <1>1, <1>2, <2>2
<1>11. b[n] = b[c] + Black(tree, n) /\ b[c] \in Nat /\ Black(tree, n) \in Nat
    <2>2. b[tree[Other(s)][n]] \in Nat /\ b[n] = b[tree[Other(s)][n]] + Black(tree, n)
        BY <1>2, <1>4
    <2>3. Black(tree, n) \in Nat
        BY DEF Black
    <2> QED
        BY <2>2, <2>3
<1>12. ASSUME NEW m \in L2, NEW r \in Sides
       PROVE  b[m] > 0 /\ b[m] = b[T[r][m]] + (IF m = q /\ r = side THEN Black(tree, n) ELSE 0)
                                  + Black(T, m)
    <2>1. /\ b[tree[r][m]] \in Nat /\ b[m] = b[tree[r][m]] + Black(tree, m) /\ b[m] > 0
        BY <1>4
    <2>2. Black(T, m) = Black(tree, m) /\ Black(tree, m) \in Nat
        BY <1>7 DEF Black
    <2>3. CASE m = q /\ r = side
        <3>1. tree[r][m] = n /\ T[r][m] = c
            BY <1>1, <1>7, <1>9, <2>3
        <3> QED
            BY <1>11, <2>1, <2>2, <2>3, <3>1
    <2>4. CASE ~ (m = q /\ r = side)
        <3>1. T[r][m] = tree[r][m]
            BY <1>1, <1>7, <2>4
        <3> QED
            BY <2>1, <2>2, <2>4, <3>1
    <2> QED
        BY <2>3, <2>4
<1>13. ASSUME NEW m \in L2, tree.color[m] = "RED"
       PROVE  m = c \/ T.color[T.parent[m]] = "BLACK"
    <2> SUFFICES ASSUME m # c  PROVE T.color[T.parent[m]] = "BLACK"
        OBVIOUS
    <2>1. T.parent[m] = tree.parent[m]
        BY <1>1, <1>7
    <2>2. tree.color[tree.parent[m]] = "BLACK"
        BY <1>5, <1>13 DEF Whole, Reds
    <2> QED
        BY <1>7, <2>1, <2>2
<1>14. T.color[nil] = "BLACK" /\ (T.root = c \/ T.color[T.root] = "BLACK")
    BY <1>5, <1>6, <1>7
<1>15. CASE tree.color[n] = "BLACK"
    <2>1. Black(tree, n) = 1
        BY <1>15 DEF Black
    <2>2. Reds(T, L2, c, c) /\ RootBlack(T, c)
        BY <1>7, <1>13, <1>14 DEF Reds, RootBlack
    <2>3. CASE c = T.root
        <3>1. q = nil
            <4> SUFFICES ASSUME q # nil  PROVE FALSE
                BY <1>8
            <4>1. c = nil /\ tree.root = nil
                BY <1>3, <1>7, <2>3
            <4>2. L = {}
                BY <4>1 DEF Sound, Shape, Rooted
            <4> QED
                BY <4>2
        <3>2. \A m \in L2, r \in Sides : Lacks(m, r, nil, SideOf(T, c)) = 0 /\ m # q
            BY <1>1, <3>1 DEF Lacks
        <3>3. \A m \in L2, r \in Sides :
                b[m] > 0 /\ b[m] = b[T[r][m]] + Lacks(m, r, nil, SideOf(T, c)) + Black(T, m)
            BY <1>12, <3>2
        <3>4. Heights(T, L2, b, nil, SideOf(T, c))
            BY <1>5, <3>3 DEF Heights
        <3> QED
            BY <1>3, <1>15, <2>2, <2>3, <3>4 DEF Deleted, CutOff
    <2>4. CASE c # T.root
        <3>1. q # nil /\ q \in L2 /\ q \in Ids /\ tree[side][q] = n
            BY <1>1, <1>7, <1>8, <2>4
        <3>2. T.parent[c] = q /\ T[side][q] = c
            BY <1>3, <1>7, <1>8, <3>1
        <3>3. SideOf(T, c) = side
            <4>1. CASE side = "left"
                BY <3>2, <4>1 DEF SideOf
            <4>2. CASE side = "right"
                <5>1. T.left[q] = tree["left"][q] /\ "left" \in Sides /\ "left" # side
                    BY <1>7, <3>1, <4>2 DEF Sides
                <5>2. CASE c = nil
                    <6>1. b[q] = b[tree["left"][q]] + Black(tree, q) /\ b[tree["left"][q]] \in Nat
                          /\ b[q] = b[tree[side][q]] + Black(tree, q) /\ b[tree[side][q]] \in Nat
                        BY <1>8, <1>4, <3>1, <5>1
                    <6>2. Black(tree, q) \in Nat
                        BY DEF Black
                    <6>3. b[n] = 2
                        BY <1>5, <1>11, <2>1, <5>2
                    <6>4. b[tree["left"][q]] = 2
                        BY <3>1, <6>1, <6>2, <6>3
                    <6>5. tree["left"][q] # nil
                        BY <1>5, <6>4
                    <6> QED
                        BY <3>2, <4>2, <5>1, <5>2, <6>5 DEF SideOf
                <5>3. CASE c # nil
                    <6>1. tree["left"][q] # c
                        BY <1>1, <1>3, <1>8, <3>1, <5>1, <5>3 DEF Knit
                    <6> QED
                        BY <3>2, <4>2, <5>1, <6>1 DEF SideOf
                <5> QED
                    BY <5>2, <5>3
            <4> QED
                BY <1>8, <4>1, <4>2 DEF Sides
        <3>4. \A m \in L2, r \in Sides :
                b[m] > 0 /\ b[m] = b[T[r][m]] + Lacks(m, r, q, side) + Black(T, m)
            <4>1. \A m, r : Lacks(m, r, q, side) = IF m = q /\ r = side THEN 1 ELSE 0
                BY DEF Lacks
            <4> QED
                BY <1>12, <2>1, <4>1
        <3>5. Heights(T, L2, b, q, side)
            BY <1>5, <3>4 DEF Heights
        <3> HIDE DEF L2
        <3>6. Deleted(T, L2, b, c)
            BY <1>3, <2>2, <2>4, <3>1, <3>2, <3>3, <3>5 DEF Deleted
        <3> QED
            BY <1>15, <3>6 DEF CutOff, L2
    <2> QED
        BY <2>3, <2>4
<1>16. CASE tree.color[n] # "BLACK"
    <2>1. Black(tree, n) = 0
        BY <1>16 DEF Black
    <2>2. tree.color[n] = "RED"
        BY <1>1, <1>16, ColorFacts
    <2>3. n # tree.root /\ q # nil
        BY <1>6, <1>8, <1>16
    <2>4. c # nil => tree.color[c] # "RED"
        BY <1>1, <1>3, <1>16 DEF Whole, Reds
    <2>5. Reds(T, L2, nil, nil)
        BY <1>1, <1>7, <1>13, <1>14, <2>4 DEF Reds
    <2>6. RootBlack(T, nil)
        BY <1>6, <1>7, <2>3 DEF RootBlack
    <2>7. \A m \in L2, r \in Sides : Lacks(m, r, nil, "left") = 0
        BY <1>1 DEF Lacks
    <2>8. \A m \in L2, r \in Sides :
            b[m] > 0 /\ b[m] = b[T[r][m]] + Lacks(m, r, nil, "left") + Black(T, m)
        BY <1>12, <2>1, <2>7
    <2>9. Heights(T, L2, b, nil, "left")
        BY <1>5, <2>8 DEF Heights
    <2> QED
        BY <1>16, <2>5, <2>6, <2>9 DEF CutOff, Whole
<1> QED
    BY <1>15, <1>16

\* The same for the node that takes the place of one with two children.
LEMMA UnlinkColors ==
    ASSUME NEW tree, NEW L, NEW lo, NEW hi, tree \in Trees, Shape(tree, L, lo, hi),
           NEW b, Whole(tree, L, b),
           NEW n, NEW k, LeastRight(tree, L, lo, hi, n, k)
    PROVE  \E b2 : CutOff(Unlink(tree, n, k), L \ {n}, b2, tree.color[k] = "BLACK", tree.right[k])
<1> DEFINE T == Unlink(tree, n, k)
           c == tree["right"][k]
           q == tree.parent[k]
           o == tree.parent[n]
           L2 == L \ {n}
           p2 == IF q = n THEN k ELSE q
           side == IF q = n THEN "right" ELSE "left"
           b2 == [b EXCEPT ![k] = b[n]]
<1>1. /\ Knit(tree, L) /\ L \subseteq Nodes /\ nil \notin L /\ L \subseteq Ids
      /\ nil \in Nodes /\ "RED" # "BLACK" /\ "left" # "right"
      /\ "left" \in Sides /\ "right" \in Sides /\ \A s \in Sides : s = "left" \/ s = "right"
    BY ShapeKnit, Constants DEF Sides, Knit
<1>2. /\ k # n /\ k # tree["left"][n] /\ k # tree.root
      /\ q \in L /\ tree[SideOf(tree, k)][q] = k
      /\ SideOf(tree, k) = IF q = n THEN "right" ELSE "left"
      /\ k = tree["right"][n] <=> q = n
      /\ o \notin {k, q}
      /\ Unlinked(tree, n, k, T)
    BY LeastRightFacts
<1>3. /\ n \in L /\ k \in L /\ tree["left"][n] # nil /\ tree["right"][n] # nil
      /\ tree["left"][k] = nil
    BY DEF LeastRight
<1>4. /\ tree["left"][n] \in L2 /\ tree["right"][n] \in L2
      /\ tree.parent[tree["left"][n]] = n /\ tree.parent[tree["right"][n]] = n
      /\ tree["left"][n] # tree["right"][n]
    BY <1>1, <1>3, Constants DEF Knit, Other
<1>5. /\ c \in L2 \cup {nil} /\ c # k /\ c \in Nodes
      /\ c # nil => tree.parent[c] = k /\ c # tree.root
    <2>1. /\ c \in L \cup {nil} /\ c # k
          /\ c # nil => tree.parent[c] = k /\ c # tree.root
        BY <1>1, <1>3 DEF Knit
    <2>2. c # n
        BY <1>1, <1>2, <1>3, <2>1
    <2> QED
        BY <1>1, <1>3, <2>1, <2>2
<1>6. /\ b \in [Nodes -> Nat] /\ b[nil] = 1
      /\ tree.color[nil] = "BLACK" /\ tree.color[tree.root] = "BLACK"
    BY DEF Whole, Heights, Reds, RootBlack
<1>7. \A m \in L, r \in Sides :
        /\ b[tree[r][m]] \in Nat /\ tree[r][m] \in Nodes
        /\ b[m] > 0 /\ b[m] = b[tree[r][m]] + Black(tree, m)
    BY <1>1, HeightsEverywhere DEF Whole
<1>8. /\ n # tree.root => o \in L2 /\ tree[SideOf(tree, n)][o] = n
      /\ SideOf(tree, n) \in Sides /\ (o = nil <=> n = tree.root) /\ o \in L \cup {nil} /\ o # n
    <2>1. n # tree.root => o \in L /\ tree[SideOf(tree, n)][o] = n /\ o # n
        BY <1>1, <1>3, SideOfSides DEF Knit
    <2>2. n = tree.root => o = nil
        BY <1>1, <1>3 DEF Knit
    <2> QED
        BY <1>1, <1>3, <2>1, <2>2, SideOfSides
<1>9. /\ T \in Trees /\ T.root = IF o = nil THEN k ELSE tree.root
      /\ T["left"][k] = tree["left"][n]
      /\ T["right"][k] = IF q = n THEN c ELSE tree["right"][n]
      /\ \A s \in Sides, m \in L2 \ {k} :
           T[s][m] = IF m = o /\ s = SideOf(tree, n) THEN k
                     ELSE IF m = q /\ s = SideOf(tree, k) THEN c
                     ELSE tree[s][m]
      /\ \A m \in Nodes :
           T.parent[m] = IF m = k THEN o
                         ELSE IF m = tree["left"][n] THEN k
                         ELSE IF m = tree["right"][n] /\ q # n THEN k
                         ELSE IF m = c THEN IF q = n THEN k ELSE q
                         ELSE tree.parent[m]
      /\ \A m \in Nodes : T.color[m] = IF m = k THEN tree.color[n] ELSE tree.color[m]
    BY <1>1, <1>2 DEF Unlinked
<1>10. /\ b2 \in [Nodes -> Nat] /\ b2[k] = b[n] /\ \A m \in Nodes \ {k} : b2[m] = b[m]
    BY <1>1, <1>3, <1>6
<1> HIDE DEF T, c, q, o, b2
<1>11. /\ b[n] = b[tree["left"][n]] + Black(tree, n) /\ b[n] = b[tree["right"][n]] + Black(tree, n)
       /\ b[k] = b[c] + Black(tree, k) /\ b[n] > 0
       /\ b[tree["left"][n]] \in Nat /\ b[tree["right"][n]] \in Nat /\ b[c] \in Nat
    BY <1>1, <1>3, <1>7 DEF c
<1>12. \A m : Black(tree, m) \in Nat
    BY DEF Black
<1>13. ASSUME NEW m \in L2, NEW r \in Sides
       PROVE  b2[m] > 0 /\ b2[m] = b2[T[r][m]]
                                   + (IF m = p2 /\ r = side THEN Black(tree, k) ELSE 0)
                                   + Black(T, m)
    <2>1. CASE m = k
        <3>1. Black(T, m) = Black(tree, n)
            BY <1>1, <1>3, <1>9, <2>1 DEF Black
        <3>2. p2 = k <=> q = n
            <4>1. q # k
                BY <1>1, <1>2, SideOfSides DEF Knit
            <4> QED
                BY <1>2, <4>1
        <3>3. CASE r = "left"
            <4>1. b2[T[r][m]] = b[tree["left"][n]]
                BY <1>1, <1>2, <1>4, <1>9, <1>10, <2>1, <3>3
            <4>2. ~ (m = p2 /\ r = side)
                BY <1>1, <2>1, <3>2, <3>3
            <4> QED
                BY <1>10, <1>11, <1>12, <2>1, <3>1, <4>1, <4>2
        <3>4. CASE r = "right" /\ q = n
            <4>1. b2[T[r][m]] = b[c]
                BY <1>5, <1>9, <1>10, <2>1, <3>4
            <4>2. m = p2 /\ r = side
                BY <2>1, <3>2, <3>4
            <4>3. tree["right"][n] = k
                BY <1>2, <3>4
            <4>4. b[n] = b[c] + Black(tree, k) + Black(tree, n)
                BY <1>11, <1>12, <4>3
            <4> QED
                BY <1>10, <1>11, <1>12, <2>1, <3>1, <4>1, <4>2, <4>4
        <3>5. CASE r = "right" /\ q # n
            <4>1. b2[T[r][m]] = b[tree["right"][n]]
                BY <1>1, <1>2, <1>4, <1>9, <1>10, <2>1, <3>5
            <4>2. ~ (m = p2 /\ r = side)
                BY <2>1, <3>2, <3>5
            <4> QED
                BY <1>10, <1>11, <1>12, <2>1, <3>1, <4>1, <4>2
        <3> QED
            BY <1>1, <3>3, <3>4, <3>5
    <2>2. CASE m # k
        <3>1. /\ b[tree[r][m]] \in Nat /\ tree[r][m] \in Nodes /\ m \in Nodes
              /\ b[m] > 0 /\ b[m] = b[tree[r][m]] + Black(tree, m)
            BY <1>1, <1>7
        <3>2. Black(T, m) = Black(tree, m)
            BY <1>9, <2>2, <3>1 DEF Black
        <3>3. b2[m] = b[m]
            BY <1>10, <2>2, <3>1
        <3>4. m = p2 /\ r = side <=> m = q /\ r = SideOf(tree, k)
            BY <1>2, <2>2
        <3>5. CASE m = o /\ r = SideOf(tree, n)
            <4>1. T[r][m] = k /\ tree[r][m] = n
                BY <1>1, <1>8, <1>9, <2>2, <3>5
            <4>2. ~ (m = p2 /\ r = side)
                BY <1>2, <3>4, <3>5
            <4> QED
                BY <1>10, <1>12, <3>1, <3>2, <3>3, <4>1, <4>2
        <3>6. CASE m = q /\ r = SideOf(tree, k)
            <4>1. T[r][m] = c /\ tree[r][m] = k
                BY <1>2, <1>9, <2>2, <3>6
            <4>2. b2[c] = b[c]
                BY <1>5, <1>10
            <4> QED
                BY <1>11, <1>12, <3>1, <3>2, <3>3, <3>4, <3>6, <4>1, <4>2
        <3>7. CASE ~ (m = o /\ r = SideOf(tree, n)) /\ ~ (m = q /\ r = SideOf(tree, k))
            <4>1. T[r][m] = tree[r][m]
                BY <1>9, <2>2, <3>7
            <4>2. tree[r][m] # k
                BY <1>1, <1>3, <3>7 DEF Knit, q
            <4> QED
                BY <1>10, <1>12, <3>1, <3>2, <3>3, <3>4, <3>7, <4>1, <4>2
        <3> QED
            BY <3>5, <3>6, <3>7
    <2> QED
        BY <2>1, <2>2
<1>14. ASSUME NEW m \in L2, T.color[m] = "RED"
       PROVE  m = c \/ T.color[T.parent[m]] = "BLACK"
    <2> SUFFICES ASSUME m # c  PROVE T.color[T.parent[m]] = "BLACK"
        OBVIOUS
    <2>1. m \in Nodes /\ m \in L /\ m # n
        BY <1>1
    <2>2. \A i \in L : tree.color[i] = "RED" => tree.color[tree.parent[i]] = "BLACK"
        BY <1>6 DEF Whole, Reds
    <2>3. CASE m = k
        <3>1. tree.color[n] = "RED"
            BY <1>9, <2>1, <2>3, <1>14
        <3>2. tree.color[o] = "BLACK" /\ o # k /\ o \in Nodes
            BY <1>1, <1>2, <1>3, <1>8, <2>2, <3>1 DEF o
        <3> QED
            BY <1>9, <2>1, <2>3, <3>2
    <2>4. CASE m = tree["left"][n] /\ m # k
        <3>1. tree.color[n] = "BLACK"
            BY <1>4, <1>9, <1>14, <2>1, <2>2, <2>4
        <3>2. T.parent[m] = k
            BY <1>9, <2>1, <2>4
        <3> QED
            BY <1>1, <1>3, <1>9, <3>1, <3>2
    <2>5. CASE m = tree["right"][n] /\ m # k /\ m # tree["left"][n]
        <3>1. tree.color[n] = "BLACK"
            BY <1>4, <1>9, <1>14, <2>1, <2>2, <2>5
        <3>2. T.parent[m] = k
            BY <1>2, <1>9, <2>1, <2>5
        <3> QED
            BY <1>1, <1>3, <1>9, <3>1, <3>2
    <2>6. CASE m \notin {k, tree["left"][n], tree["right"][n]}
        <3>1. T.parent[m] = tree.parent[m]
            BY <1>9, <2>1, <2>6
        <3>2. tree.color[tree.parent[m]] = "BLACK"
            BY <1>9, <1>14, <2>1, <2>2, <2>6
        <3>3. tree.parent[m] # k
            <4>1. CASE m = tree.root
                BY <1>1, <1>3, <2>1, <4>1 DEF Knit
            <4>2. CASE m # tree.root
                <5>1. tree[SideOf(tree, m)][tree.parent[m]] = m /\ SideOf(tree, m) \in Sides
                    BY <1>1, <2>1, <4>2, SideOfSides DEF Knit
                <5> QED
                    BY <1>1, <1>3, <2>1, <5>1 DEF c
            <4> QED
                BY <4>1, <4>2
        <3>4. tree.parent[m] \in Nodes
            BY <2>1, Typed
        <3> QED
            BY <1>9, <3>1, <3>2, <3>3, <3>4
    <2> QED
        BY <2>3, <2>4, <2>5, <2>6
<1>15. T.color[nil] = "BLACK" /\ T.color[T.root] = "BLACK"
    <2>1. T.color[nil] = "BLACK" /\ tree.root \in Nodes
        BY <1>1, <1>3, <1>6, <1>9, Typed
    <2>2. CASE o = nil
        BY <1>1, <1>3, <1>6, <1>8, <1>9, <2>2
    <2>3. CASE o # nil
        BY <1>2, <1>6, <1>9, <2>1, <2>3
    <2> QED
        BY <2>1, <2>2, <2>3
<1>16. b2[nil] = 1
    BY <1>1, <1>3, <1>6, <1>10
<1>17. /\ p2 \in L2 /\ T[side][p2] = c /\ T.parent[c] = p2 /\ SideOf(T, c) = side /\ c # T.root
    <2>1. p2 \in L2 /\ T[side][p2] = c
        <3>1. CASE q = n
            BY <1>2, <1>3, <1>9, <3>1
        <3>2. CASE q # n
            <4>1. q # k
                BY <1>1, <1>2, SideOfSides DEF Knit
            <4> QED
                BY <1>1, <1>2, <1>9, <3>2, <4>1
        <3> QED
            BY <3>1, <3>2
    <2>2. c # tree["left"][n] /\ (q # n => c # tree["right"][n])
        <3>1. c # nil => tree.parent[c] = k /\ k # n
            BY <1>2, <1>5
        <3> QED
            BY <1>3, <1>4, <3>1
    <2>3. T.parent[c] = p2
        BY <1>2, <1>5, <1>9, <2>2
    <2>4. SideOf(T, c) = side
        <3>1. CASE q = n
            <4>1. T["left"][k] # c
                BY <1>9, <2>2
            <4> QED
                BY <2>3, <3>1, <4>1 DEF SideOf
        <3>2. CASE q # n
            BY <2>1, <2>3, <3>2 DEF SideOf
        <3> QED
            BY <3>1, <3>2
    <2>5. c # T.root
        <3>1. CASE o = nil
            BY <1>5, <1>9, <3>1
        <3>2. CASE o # nil
            <4>1. tree.root # nil
                BY <1>3 DEF Shape, Rooted
            <4> QED
                BY <1>5, <1>9, <3>2, <4>1
        <3> QED
            BY <3>1, <3>2
    <2> QED
        BY <2>1, <2>3, <2>4, <2>5
<1> HIDE DEF p2, side
<1>18. CASE tree.color[k] = "BLACK"
    <2>1. Black(tree, k) = 1
        BY <1>18 DEF Black
    <2>2. \A m \in L2, r \in Sides :
            b2[m] > 0 /\ b2[m] = b2[T[r][m]] + Lacks(m, r, p2, side) + Black(T, m)
        <3>1. \A m, r : Lacks(m, r, p2, side) = IF m = p2 /\ r = side THEN 1 ELSE 0
            BY DEF Lacks
        <3> QED
            BY <1>13, <2>1, <3>1
    <2>3. Heights(T, L2, b2, p2, side)
        BY <1>10, <1>16, <2>2 DEF Heights
    <2>4. Reds(T, L2, c, c) /\ RootBlack(T, c)
        BY <1>14, <1>15 DEF Reds, RootBlack
    <2> HIDE DEF L2
    <2>5. Deleted(T, L2, b2, c)
        BY <1>5, <1>17, <2>3, <2>4 DEF Deleted
    <2> QED
        BY <1>18, <2>5 DEF CutOff, L2, T, c
<1>19. CASE tree.color[k] # "BLACK"
    <2>1. Black(tree, k) = 0
        BY <1>19 DEF Black
    <2>2. tree.color[k] = "RED"
        BY <1>1, <1>3, <1>19, ColorFacts
    <2>3. c # nil => tree.color[c] # "RED"
        BY <1>1, <1>5, <1>19 DEF Whole, Reds
    <2>4. T.color[c] # "RED"
        BY <1>1, <1>5, <1>6, <1>9, <2>3
    <2>5. Reds(T, L2, nil, nil) /\ RootBlack(T, nil)
        BY <1>14, <1>15, <2>4 DEF Reds, RootBlack
    <2>6. \A m \in L2, r \in Sides : Lacks(m, r, nil, "left") = 0
        BY <1>1 DEF Lacks
    <2>7. \A m \in L2, r \in Sides :
            b2[m] > 0 /\ b2[m] = b2[T[r][m]] + Lacks(m, r, nil, "left") + Black(T, m)
        BY <1>13, <2>1, <2>6
    <2>8. Heights(T, L2, b2, nil, "left")
        BY <1>10, <1>16, <2>7 DEF Heights
    <2> HIDE DEF L2
    <2>9. Whole(T, L2, b2)
        BY <2>5, <2>8 DEF Whole
    <2> QED
        BY <1>19, <2>9 DEF CutOff, L2, T, c
<1> QED
    BY <1>18, <1>19

-----------------------------------------------------------------------------
(* What the recursive functions Subtree and BlackHeight are.               *)

\* A nonempty set of naturals has a least element.
LEMMA NatLeast ==
    ASSUME NEW T \in SUBSET Nat, T # {}
    PROVE  \E n \in T : \A m \in T : n <= m
<1>1. IsFiniteSet({}) /\ IsWellFoundedOn(StrictSubsetOrdering(Nat), FiniteSubsetsOf(Nat))
    BY FS_EmptySet, FS_StrictSubsetOrderingWellFounded
<1> DEFINE segments == {0..n : n \in T}
<1>2. segments \subseteq FiniteSubsetsOf(Nat) /\ segments # {}
    <2> SUFFICES ASSUME NEW n \in T  PROVE 0..n \in FiniteSubsetsOf(Nat)
        OBVIOUS
    <2> QED
        BY FS_Interval DEF FiniteSubsetsOf
<1> HIDE DEF segments
<1>3. PICK I \in segments : \A J \in segments : ~ (<<J, I>> \in StrictSubsetOrdering(Nat))
    BY <1>1, <1>2, WFMin
<1>4. PICK n \in T : I = 0..n
    BY DEF segments
<1>5. ASSUME NEW m \in T, m < n  PROVE FALSE
    <2>1. 0..m \in segments /\ n \in Nat /\ m \in Nat
        BY DEF segments
    <2>2. 0..m \in SUBSET Nat /\ 0..n \in SUBSET Nat /\ 0..m \subseteq 0..n
          /\ n \in 0..n /\ n \notin 0..m
        BY <1>5, <2>1
    <2>3. <<0..m, 0..n>> \in StrictSubsetOrdering(Nat)
        BY <2>2, Zenon DEF StrictSubsetOrdering
    <2> QED
        BY <1>3, <1>4, <2>1, <2>3
<1> QED
    BY <1>5

\* What a node has when its children have it, every node of the tree has.
LEMMA BottomUp ==
    ASSUME NEW tree \in Trees, NEW L, NEW lo, NEW hi, Shape(tree, L, lo, hi),
           NEW G,
           \A n \in L : (\A s \in Sides : tree[s][n] # nil => tree[s][n] \in G) => n \in G
    PROVE  L \subseteq G
<1> SUFFICES ASSUME NEW m0 \in L \ G  PROVE FALSE
    OBVIOUS
<1> DEFINE width(n) == hi[n] - lo[n]
           W == {width(n) : n \in L \ G}
<1>1. \A n \in L : width(n) \in Nat
    BY Bounds DEF Shape
<1>2. W \in SUBSET Nat /\ W # {}
    BY <1>1
<1> HIDE DEF W
<1>3. PICK d \in W : \A e \in W : d <= e
    BY <1>2, NatLeast
<1>4. PICK n \in L \ G : d = width(n)
    BY DEF W
<1>5. PICK s \in Sides : tree[s][n] # nil /\ tree[s][n] \notin G
    BY <1>4
<1>6. tree[s][n] \in L /\ width(tree[s][n]) < width(n)
    BY <1>4, <1>5, ChildBounds
<1>7. width(tree[s][n]) \in W
    BY <1>5, <1>6 DEF W
<1> QED
    BY <1>1, <1>3, <1>4, <1>6, <1>7

\* No node is where a node has no child.
LEMMA Gap ==
    ASSUME NEW tree, NEW L, NEW lo, NEW hi, Shape(tree, L, lo, hi),
           NEW n \in L, NEW s \in Sides, tree[s][n] = nil
    PROVE  None(L, From(lo, n, s), To(hi, n, s))
BY DEF Shape, Fits

\* The nodes at or below n.
Inside(L, lo, hi, n) ==
    IF n = nil THEN {} ELSE {k \in L : lo[n] <= lo[k] /\ hi[k] <= hi[n]}

\* The nodes at or below n are n and those below its two sides.
LEMMA InsideSplits ==
    ASSUME NEW tree \in Trees, NEW L, NEW lo, NEW hi, Shape(tree, L, lo, hi), NEW n \in L
    PROVE  Inside(L, lo, hi, n) = {n} \cup Inside(L, lo, hi, tree.left[n])
                                      \cup Inside(L, lo, hi, tree.right[n])
<1> DEFINE l == tree["left"][n]
           r == tree["right"][n]
           I(m) == Inside(L, lo, hi, m)
<1>1. "left" \in Sides /\ "right" \in Sides /\ Bounded(L, lo, hi) /\ Nested(L, lo, hi)
    BY DEF Sides, Shape
<1>2. \A m \in L : /\ m # nil /\ Hash[m] \in Int /\ lo[m] \in Int /\ hi[m] \in Int
                   /\ lo[m] < Hash[m] /\ Hash[m] < hi[m]
    BY <1>1, Bounds
<1>3. l = nil => None(L, lo[n], Hash[n])
    BY <1>1, Gap DEF From, To
<1>4. r = nil => None(L, Hash[n], hi[n])
    BY <1>1, Gap DEF From, To
<1>5. l # nil => l \in L /\ lo[l] = lo[n] /\ hi[l] = Hash[n]
    BY <1>1, ChildBounds DEF From, To
<1>6. r # nil => r \in L /\ lo[r] = Hash[n] /\ hi[r] = hi[n]
    BY <1>1, ChildBounds DEF From, To
<1>7. n \in I(n)
    BY <1>2 DEF Inside
<1> HIDE DEF l, r
<1>8. ASSUME NEW k \in I(n), k # n  PROVE k \in I(l) \cup I(r)
    <2>1. k \in L /\ lo[n] <= lo[k] /\ hi[k] <= hi[n]
        BY <1>2 DEF Inside
    <2>2. ~ Under(lo, hi, n, k) /\ ~ Apart(lo, hi, k, n)
        BY <1>2, <2>1 DEF Under, Apart
    <2>3. Under(lo, hi, k, n)
        BY <1>1, <1>8, <2>1, <2>2 DEF Nested
    <2>4. CASE lo[n] <= lo[k] /\ hi[k] <= Hash[n]
        <3>1. l # nil
            BY <1>2, <1>3, <2>1, <2>4 DEF None
        <3> QED
            BY <1>5, <2>1, <2>4, <3>1 DEF Inside
    <2>5. CASE Hash[n] <= lo[k] /\ hi[k] <= hi[n]
        <3>1. r # nil
            BY <1>2, <1>4, <2>1, <2>5 DEF None
        <3> QED
            BY <1>6, <2>1, <2>5, <3>1 DEF Inside
    <2> QED
        BY <2>3, <2>4, <2>5 DEF Under
<1>9. I(l) \subseteq I(n)
    <2>1. CASE l = nil
        BY <2>1 DEF Inside
    <2>2. CASE l # nil
        BY <1>2, <1>5, <2>2 DEF Inside
    <2> QED
        BY <2>1, <2>2
<1>10. I(r) \subseteq I(n)
    <2>1. CASE r = nil
        BY <2>1 DEF Inside
    <2>2. CASE r # nil
        BY <1>2, <1>6, <2>2 DEF Inside
    <2> QED
        BY <2>1, <2>2
<1>11. I(n) = {n} \cup I(l) \cup I(r)
    BY <1>7, <1>8, <1>9, <1>10
<1> QED
    BY <1>11 DEF l, r

\* S is a solution of the equation that defines Subtree.
Gathers(tree, S) ==
    S = [m \in Nodes |-> IF m = nil THEN {} ELSE {m} \cup S[tree.left[m]] \cup S[tree.right[m]]]

\* Subtree is such a solution, if there is one.
LEMMA SubtreeGathers ==
    ASSUME NEW tree, NEW S, Gathers(tree, S)
    PROVE  \E F : Gathers(tree, F) /\ \A n : Subtree(tree, n) = F[n]
<1> DEFINE F == CHOOSE f : Gathers(tree, f)
<1>1. Gathers(tree, F)
    OBVIOUS
<1>2. \A n : Subtree(tree, n) = F[n]
    BY DEF Subtree, Gathers
<1> QED
    BY <1>1, <1>2

\* The function Subtree gives the nodes in the interval of n.
LEMMA SubtreeIs ==
    ASSUME NEW tree \in Trees, NEW L, NEW lo, NEW hi, Shape(tree, L, lo, hi),
           NEW e, Outside(tree, L, e), NEW n \in L \cup {nil}
    PROVE  Subtree(tree, n) = Inside(L, lo, hi, n)
<1> DEFINE I(m) == Inside(L, lo, hi, m)
           S == [m \in Nodes |-> IF m \in L \cup {nil} THEN I(m)
                                 ELSE {m} \cup I(tree.left[m]) \cup I(tree.right[m])]
<1>1. /\ Knit(tree, L) /\ nil \in Nodes /\ L \subseteq Nodes /\ nil \notin L
      /\ \A m \in Nodes : m # nil => m \in Ids
      /\ "left" \in Sides /\ "right" \in Sides
    BY ShapeKnit, Constants DEF Knit, Sides
<1>2. \A m \in Nodes, s \in Sides : m # nil => tree[s][m] \in L \cup {nil}
    <2> SUFFICES ASSUME NEW m \in Nodes, NEW s \in Sides, m # nil
                 PROVE  tree[s][m] \in L \cup {nil}
        OBVIOUS
    <2>1. m \in L => tree[s][m] \in L \cup {nil}
        BY <1>1 DEF Knit
    <2>2. m \in Ids \ L => tree[s][m] \in L \cup {nil}
        BY DEF Outside
    <2> QED
        BY <1>1, <2>1, <2>2
<1>3. \A m \in Nodes : m # nil => tree.left[m] \in L \cup {nil} /\ tree.right[m] \in L \cup {nil}
    <2>1. \A m \in Nodes : m # nil => tree["left"][m] \in L \cup {nil}
                                      /\ tree["right"][m] \in L \cup {nil}
        BY <1>1, <1>2
    <2> QED
        BY <2>1
<1>4. \A m \in L : I(m) = {m} \cup I(tree.left[m]) \cup I(tree.right[m])
    BY InsideSplits
<1>5. I(nil) = {}
    BY DEF Inside
<1> HIDE DEF I
<1>6. \A m \in L \cup {nil} : S[m] = I(m)
    BY <1>1
<1>7. Gathers(tree, S)
    <2>1. ASSUME NEW m \in Nodes
          PROVE  S[m] = IF m = nil THEN {} ELSE {m} \cup S[tree.left[m]] \cup S[tree.right[m]]
        <3>1. CASE m = nil
            BY <1>5, <1>6, <3>1
        <3>2. CASE m # nil
            <4>1. S[tree.left[m]] = I(tree.left[m]) /\ S[tree.right[m]] = I(tree.right[m])
                BY <1>3, <1>6, <3>2
            <4>2. S[m] = {m} \cup I(tree.left[m]) \cup I(tree.right[m])
                BY <1>4, <3>2
            <4> QED
                BY <3>2, <4>1, <4>2
        <3> QED
            BY <3>1, <3>2
    <2> DEFINE R(m) == IF m = nil THEN {} ELSE {m} \cup S[tree.left[m]] \cup S[tree.right[m]]
    <2>2. S = [m \in Nodes |-> S[m]]
        OBVIOUS
    <2> HIDE DEF S
    <2>3. [m \in Nodes |-> S[m]] = [m \in Nodes |-> R(m)]
        BY <2>1
    <2> QED
        BY <2>2, <2>3 DEF Gathers
<1>8. PICK F : Gathers(tree, F) /\ \A m : Subtree(tree, m) = F[m]
    BY <1>7, SubtreeGathers
<1>9. \A m \in Nodes : F[m] = IF m = nil THEN {} ELSE {m} \cup F[tree.left[m]] \cup F[tree.right[m]]
    BY <1>8 DEF Gathers
<1> DEFINE G == {m \in L : F[m] = I(m)}
<1>10. ASSUME NEW m \in L, \A s \in Sides : tree[s][m] # nil => tree[s][m] \in G
       PROVE  m \in G
    <2>1. /\ tree["left"][m] # nil => F[tree.left[m]] = I(tree.left[m])
          /\ tree["right"][m] # nil => F[tree.right[m]] = I(tree.right[m])
        BY <1>1, <1>10
    <2>2. F[nil] = I(nil)
        BY <1>1, <1>5, <1>9
    <2>3. F[tree.left[m]] = I(tree.left[m]) /\ F[tree.right[m]] = I(tree.right[m])
        BY <2>1, <2>2
    <2>4. F[m] = {m} \cup F[tree.left[m]] \cup F[tree.right[m]]
        BY <1>1, <1>9
    <2> QED
        BY <1>4, <2>3, <2>4
<1> HIDE DEF G
<1>11. L \subseteq G
    BY <1>10, BottomUp
<1>12. F[nil] = I(nil)
    BY <1>1, <1>5, <1>9
<1> QED
    BY <1>8, <1>11, <1>12 DEF G, I

\* Contents is the set of the nodes in the tree.
LEMMA ContentsIs ==
    ASSUME NEW tree \in Trees, NEW L, NEW lo, NEW hi, Shape(tree, L, lo, hi),
           NEW e, Outside(tree, L, e)
    PROVE  Contents(tree) = L
<1>1. tree.root \in L \cup {nil}
    BY DEF Shape, Rooted
<1>2. Contents(tree) = Inside(L, lo, hi, tree.root)
    BY <1>1, SubtreeIs DEF Contents
<1>3. CASE tree.root = nil
    BY <1>2, <1>3 DEF Shape, Rooted, Inside
<1>4. CASE tree.root # nil
    BY <1>2, <1>4 DEF Shape, Rooted, Inside, Bounded
<1> QED
    BY <1>3, <1>4

\* The same for BlackHeight.
Counted(tree, h) ==
    h = [m \in Nodes |-> IF m = nil THEN 1
                         ELSE h[tree.left[m]] + (IF tree.color[m] = "BLACK" THEN 1 ELSE 0)]

\* BlackHeight solves its equation, if anything does.
LEMMA BlackHeightCounted ==
    ASSUME NEW tree, NEW h, Counted(tree, h)
    PROVE  \E F : Counted(tree, F) /\ \A n : BlackHeight(tree, n) = F[n]
<1> DEFINE F == CHOOSE f : Counted(tree, f)
<1>1. Counted(tree, F)
    OBVIOUS
<1>2. \A n : BlackHeight(tree, n) = F[n]
    BY DEF BlackHeight, Counted
<1> QED
    BY <1>1, <1>2

\* The function BlackHeight gives the height that the invariant has.
LEMMA BlackHeightIs ==
    ASSUME NEW tree \in Trees, NEW L, NEW lo, NEW hi, Shape(tree, L, lo, hi),
           NEW e, Outside(tree, L, e), NEW b, Heights(tree, L, b, nil, "left"),
           NEW n \in L \cup {nil}
    PROVE  BlackHeight(tree, n) = b[n]
<1> DEFINE h == [m \in Nodes |-> IF m \in L \cup {nil} THEN b[m]
                                 ELSE b[tree["left"][m]] + Black(tree, m)]
<1>1. /\ Knit(tree, L) /\ nil \in Nodes /\ L \subseteq Nodes /\ nil \notin L /\ "left" \in Sides
      /\ \A m \in Nodes : m # nil => m \in Ids
    BY ShapeKnit, Constants DEF Knit, Sides
<1>2. \A m \in Nodes : m # nil => tree["left"][m] \in L \cup {nil}
    <2> SUFFICES ASSUME NEW m \in Nodes, m # nil  PROVE tree["left"][m] \in L \cup {nil}
        OBVIOUS
    <2>1. m \in L => tree["left"][m] \in L \cup {nil}
        BY <1>1 DEF Knit
    <2>2. m \in Ids \ L => tree["left"][m] \in L \cup {nil}
        BY <1>1 DEF Outside
    <2> QED
        BY <1>1, <2>1, <2>2
<1>3. b[nil] = 1 /\ \A m \in L : b[m] = b[tree["left"][m]] + Black(tree, m)
    <2>1. b[nil] = 1
        BY DEF Heights
    <2> QED
        BY <1>1, <2>1, HeightsEverywhere
<1>4. \A m \in L \cup {nil} : h[m] = b[m]
    BY <1>1
<1>5. Counted(tree, h)
    <2> DEFINE R(m) == IF m = nil THEN 1
                       ELSE h[tree["left"][m]] + (IF tree.color[m] = "BLACK" THEN 1 ELSE 0)
    <2>1. ASSUME NEW m \in Nodes  PROVE h[m] = R(m)
        <3>1. CASE m = nil
            BY <1>3, <1>4, <3>1
        <3>2. CASE m # nil
            <4>1. h[tree["left"][m]] = b[tree["left"][m]]
                BY <1>2, <1>4, <3>2
            <4>2. h[m] = b[tree["left"][m]] + Black(tree, m)
                BY <1>3, <3>2
            <4> QED
                BY <3>2, <4>1, <4>2 DEF Black
        <3> QED
            BY <3>1, <3>2
    <2>2. h = [m \in Nodes |-> h[m]]
        OBVIOUS
    <2> HIDE DEF h
    <2>3. [m \in Nodes |-> h[m]] = [m \in Nodes |-> R(m)]
        BY <2>1
    <2> QED
        BY <2>2, <2>3 DEF Counted
<1>6. PICK F : Counted(tree, F) /\ \A m : BlackHeight(tree, m) = F[m]
    BY <1>5, BlackHeightCounted
<1>7. /\ F[nil] = 1
      /\ \A m \in L : F[m] = F[tree["left"][m]] + Black(tree, m)
    BY <1>1, <1>6 DEF Counted, Black
<1> DEFINE G == {m \in L : F[m] = b[m]}
<1>8. ASSUME NEW m \in L, \A s \in Sides : tree[s][m] # nil => tree[s][m] \in G
      PROVE  m \in G
    <2>1. tree["left"][m] # nil => F[tree["left"][m]] = b[tree["left"][m]]
        BY <1>1, <1>8
    <2> QED
        BY <1>3, <1>7, <2>1
<1> HIDE DEF G
<1>9. L \subseteq G
    BY <1>8, BottomUp
<1> QED
    BY <1>3, <1>6, <1>7, <1>9 DEF G

-----------------------------------------------------------------------------
(* The steps of succ. *)

\* The interval of the root.
LEMMA RootIs ==
    ASSUME NEW tree, NEW L, NEW lo, NEW hi, Shape(tree, L, lo, hi), tree.root # nil
    PROVE  /\ tree.root \in L /\ lo[tree.root] = -1 /\ hi[tree.root] = HashBound + 1
BY DEF Shape, Rooted

\* What the invariant says on the way of a lookup.
Reading == {"idle", "find", "highest", "lowest", "succ", "look_back", "found"}

\* A step that only reads keeps the invariant, if the loop is where it may be.
LEMMA ReadStep ==
    ASSUME NEW L, NEW lo, NEW hi, NEW b, Inv(L, lo, hi, b),
           UNCHANGED t, pc \in Reading, pc' \in Reading,
           At(L, lo, hi, b)'
    PROVE  Inv(L, lo, hi, b)'
BY DEF Inv, Sized, Colored, Reading

\* One turn of rbt_max.
LEMMA HighestStep ==
    ASSUME TypeOK, NEW L, NEW lo, NEW hi, NEW b, Inv(L, lo, hi, b), Highest
    PROVE  TypeOK' /\ Inv(L, lo, hi, b)'
<1>1. x \in L /\ hi[x] = HashBound + 1 /\ value \in Nat
    BY DEF Inv, At, Highest
<1>2. t \in Trees /\ Shape(t, L, lo, hi)
    BY DEF TypeOK, Inv
<1>3. x' = t["right"][x] /\ t["right"][x] # nil
    BY DEF Highest
<1>4. x' \in L /\ hi[x'] = To(hi, x, "right")
    BY <1>1, <1>2, <1>3, ChildBounds DEF Sides
<1>5. At(L, lo, hi, b)'
    BY <1>1, <1>4 DEF Highest, At, To
<1>6. Inv(L, lo, hi, b)'
    BY <1>5, ReadStep DEF Highest, Reading
<1>7. TypeOK'
    BY <1>2, <1>4, ShapeKnit, Constants DEF TypeOK, Highest, Knit
<1> QED
    BY <1>6, <1>7

\* succ begins at the root.
LEMMA SuccStep ==
    ASSUME TypeOK, NEW L, NEW lo, NEW hi, NEW b, Inv(L, lo, hi, b), NEW v \in Values, succ(v)
    PROVE  TypeOK' /\ Inv(L, lo, hi, b)'
<1>1. t \in Trees /\ Shape(t, L, lo, hi)
    BY DEF TypeOK, Inv
<1>2. t.root \in L /\ hi[t.root] = HashBound + 1
    BY <1>1, RootIs DEF succ
<1>3. value' \in Nat
    BY Constants DEF succ, Values
<1>4. At(L, lo, hi, b)'
    BY <1>2, <1>3 DEF succ, At
<1>5. Inv(L, lo, hi, b)'
    BY <1>4, ReadStep DEF succ, Reading
<1>6. TypeOK'
    BY <1>1, <1>3, Typed DEF TypeOK, succ
<1> QED
    BY <1>5, <1>6

\* The choice between wrapping round and descending.
LEMMA CompareStep ==
    ASSUME TypeOK, NEW L, NEW lo, NEW hi, NEW b, Inv(L, lo, hi, b), Compare
    PROVE  TypeOK' /\ Inv(L, lo, hi, b)'
<1>1. x \in L /\ hi[x] = HashBound + 1 /\ value \in Nat
    BY DEF Inv, At, Compare
<1>2. t \in Trees /\ Shape(t, L, lo, hi) /\ Bounded(L, lo, hi)
    BY DEF TypeOK, Inv, Shape
<1>3. t.root \in L /\ lo[t.root] = -1 /\ hi[t.root] = HashBound + 1
    BY <1>1, <1>2, RootIs DEF Shape, Rooted
<1>4. Hash[x] \in Nat /\ Hash[x] <= HashBound /\ HashBound \in Nat /\ hv(x) = Hash[x]
      /\ \A m \in L : Hash[m] \in Nat /\ Hash[m] <= HashBound
    BY <1>1, <1>2, Constants DEF Bounded
<1>5. None(L, Hash[x], HashBound + 1)
    <2>1. t["right"][x] = nil
        BY DEF Compare
    <2> QED
        BY <1>1, <1>2, <2>1, Gap DEF From, To, Sides
<1>6. CASE value >= Hash[x]
    <2>1. Past(L)
        BY <1>1, <1>4, <1>5, <1>6 DEF Past, None
    <2>2. pc' = "lowest" /\ value' = value /\ y' = t.root /\ x' = t.root
        BY <1>4, <1>6 DEF Compare
    <2>3. At(L, lo, hi, b)'
        BY <1>1, <1>3, <2>1, <2>2 DEF At, Lowering, Past
    <2> QED
        BY <1>2, <2>2, <2>3, ReadStep, Typed DEF Compare, Reading, TypeOK
<1>7. CASE ~ (value >= Hash[x])
    <2>1. ~ Past(L) /\ value < HashBound + 1
        BY <1>1, <1>4, <1>7 DEF Past
    <2>2. pc' = "succ" /\ value' = value /\ y' = t.root /\ x' = t.root
        BY <1>4, <1>7 DEF Compare
    <2>3. t.root # nil
        BY <1>2, <1>3, Bounds
    <2>4. At(L, lo, hi, b)'
        BY <1>1, <1>3, <2>1, <2>2, <2>3 DEF At, Recurring, Past
    <2> QED
        BY <1>2, <2>2, <2>4, ReadStep, Typed DEF Compare, Reading, TypeOK
<1> QED
    BY <1>6, <1>7

\* One turn of a descent to the left.
LEMMA LowestStep ==
    ASSUME TypeOK, NEW L, NEW lo, NEW hi, NEW b, Inv(L, lo, hi, b), Lowest
    PROVE  TypeOK' /\ Inv(L, lo, hi, b)'
<1>1. Lowering(L, lo) /\ y \in L /\ value \in Nat /\ (lo[y] = -1 \/ lo[y] = value)
    BY DEF Inv, At, Lowest, Lowering
<1>2. t \in Trees /\ Shape(t, L, lo, hi) /\ Bounded(L, lo, hi)
    BY DEF TypeOK, Inv, Shape
<1>3. CASE t.left[y] # nil
    <2>1. t["left"][y] \in L /\ lo[t["left"][y]] = lo[y]
        BY <1>1, <1>2, <1>3, ChildBounds DEF Sides, From
    <2>2. pc' = "lowest" /\ value' = value /\ y' = t["left"][y]
        BY <1>3 DEF Lowest
    <2>3. At(L, lo, hi, b)'
        BY <1>1, <2>1, <2>2 DEF At, Lowering, Past
    <2> QED
        BY <1>2, <2>1, <2>2, <2>3, ReadStep, Bounds DEF Lowest, Reading, TypeOK
<1>4. CASE t.left[y] = nil
    <2>1. pc' = "found" /\ value' = value /\ y' = y
        BY <1>4 DEF Lowest
    <2>2. None(L, lo[y], Hash[y])
        <3>1. t["left"][y] = nil
            BY <1>4
        <3> QED
            BY <1>1, <1>2, <3>1, Gap DEF From, To, Sides
    <2>3. Hash[y] \in Nat /\ lo[y] < Hash[y] /\ \A m \in L : Hash[m] \in Nat
        BY <1>1, <1>2, Constants DEF Bounded
    <2>4. IsNext(L, y)
        <3>1. CASE Past(L)
            BY <1>1, <2>2, <2>3, <3>1 DEF IsNext, None, Lowering
        <3>2. CASE ~ Past(L)
            BY <1>1, <2>2, <2>3, <3>2 DEF IsNext, Lowering
        <3> QED
            BY <3>1, <3>2
    <2>5. At(L, lo, hi, b)'
        BY <1>1, <2>1, <2>4 DEF At, Finished, IsNext, Past
    <2> QED
        BY <1>2, <2>1, <2>5, ReadStep DEF Lowest, Reading, TypeOK
<1> QED
    BY <1>3, <1>4

\* One call of recur_succ: y or what lies ahead holds the successor.
LEMMA RecurStep ==
    ASSUME TypeOK, NEW L, NEW lo, NEW hi, NEW b, Inv(L, lo, hi, b), Recur
    PROVE  TypeOK' /\ Inv(L, lo, hi, b)'
<1>1. /\ ~ Past(L) /\ y \in L /\ x \in L /\ lo[x] < value /\ value < hi[x]
      /\ hi[x] = HashBound + 1 \/ hi[x] = Hash[y]
      /\ value \in Nat
    BY DEF Inv, At, Recur, Recurring
<1>2. t \in Trees /\ Shape(t, L, lo, hi) /\ Bounded(L, lo, hi)
    BY DEF TypeOK, Inv, Shape
<1>3. /\ \A m \in L : Hash[m] \in Nat /\ Hash[m] <= HashBound
      /\ lo[x] \in Int /\ hi[x] \in Int /\ HashBound \in Nat /\ hv(x) = Hash[x]
      /\ \A m \in L : m \in Nodes /\ m # nil
    BY <1>1, <1>2, Constants, Bounds DEF Bounded
<1>4. pc' = "succ" /\ pc = "succ" /\ value' = value /\ UNCHANGED <<t, z>> /\ value # Hash[x]
    BY <1>3 DEF Recur
<1>5. CASE Hash[x] > value
    <2>1. y' = x /\ x' = t["left"][x]
        BY <1>3, <1>5 DEF Recur
    <2>2. CASE t["left"][x] = nil
        <3>1. None(L, lo[x], Hash[x])
            BY <1>1, <1>2, <2>2, Gap DEF From, To, Sides
        <3>2. None(L, value, Hash[x])
            BY <1>1, <1>3, <3>1 DEF None
        <3>3. At(L, lo, hi, b)'
            BY <1>1, <1>4, <1>5, <2>1, <2>2, <3>2 DEF At, Recurring, Past, None
        <3> QED
            BY <1>1, <1>2, <1>3, <1>4, <2>1, <2>2, <3>3, ReadStep, Constants DEF Reading, TypeOK
    <2>3. CASE t["left"][x] # nil
        <3>1. t["left"][x] \in L /\ lo[t["left"][x]] = lo[x] /\ hi[t["left"][x]] = Hash[x]
            BY <1>1, <1>2, <2>3, ChildBounds DEF Sides, From, To
        <3>2. At(L, lo, hi, b)'
            BY <1>1, <1>4, <1>5, <2>1, <2>3, <3>1 DEF At, Recurring, Past
        <3> QED
            BY <1>1, <1>2, <1>3, <1>4, <2>1, <3>1, <3>2, ReadStep DEF Reading, TypeOK
    <2> QED
        BY <2>2, <2>3
<1>6. CASE ~ (Hash[x] > value)
    <2>1. y' = y /\ x' = t["right"][x] /\ Hash[x] < value
        BY <1>1, <1>3, <1>4, <1>6 DEF Recur
    <2>2. CASE t["right"][x] = nil
        <3>1. None(L, Hash[x], hi[x])
            BY <1>1, <1>2, <2>2, Gap DEF From, To, Sides
        <3>2. hi[x] = Hash[y]
            <4> SUFFICES ASSUME hi[x] = HashBound + 1  PROVE FALSE
                BY <1>1
            <4>1. \A m \in L : ~ (Hash[x] < Hash[m] /\ Hash[m] < HashBound + 1)
                BY <3>1 DEF None
            <4>2. \A m \in L : Hash[m] <= value
                BY <1>1, <1>3, <2>1, <4>1
            <4> QED
                BY <1>1, <4>2 DEF Past
        <3>3. None(L, value, Hash[y]) /\ value < Hash[y]
            BY <1>1, <1>3, <2>1, <3>1, <3>2 DEF None
        <3>4. At(L, lo, hi, b)'
            BY <1>1, <1>4, <2>1, <2>2, <3>3 DEF At, Recurring, Past, None
        <3> QED
            BY <1>1, <1>2, <1>3, <1>4, <2>1, <2>2, <3>4, ReadStep, Constants DEF Reading, TypeOK
    <2>3. CASE t["right"][x] # nil
        <3>1. t["right"][x] \in L /\ lo[t["right"][x]] = Hash[x] /\ hi[t["right"][x]] = hi[x]
            BY <1>1, <1>2, <2>3, ChildBounds DEF Sides, From, To
        <3>2. At(L, lo, hi, b)'
            BY <1>1, <1>4, <2>1, <2>3, <3>1 DEF At, Recurring, Past
        <3> QED
            BY <1>1, <1>2, <1>3, <1>4, <2>1, <3>1, <3>2, ReadStep DEF Reading, TypeOK
    <2> QED
        BY <2>2, <2>3
<1> QED
    BY <1>5, <1>6

\* recur_succ meets the value.
LEMMA AtValueStep ==
    ASSUME TypeOK, NEW L, NEW lo, NEW hi, NEW b, Inv(L, lo, hi, b), AtValue
    PROVE  TypeOK' /\ Inv(L, lo, hi, b)'
<1>1. ~ Past(L) /\ y \in L /\ x \in L /\ value \in Nat
    BY DEF Inv, At, AtValue, Recurring
<1>2. t \in Trees /\ Shape(t, L, lo, hi) /\ Bounded(L, lo, hi)
    BY DEF TypeOK, Inv, Shape
<1>3. value = Hash[x] /\ \A m \in L : m \in Nodes
    BY <1>1, <1>2, Constants, Bounds DEF AtValue
<1>4. CASE t.right[x] = nil
    <2>1. pc' = "look_back" /\ y' = y /\ value' = value /\ UNCHANGED <<t, x, z>> /\ pc = "succ"
        BY <1>4 DEF AtValue
    <2>2. At(L, lo, hi, b)'
        BY <1>1, <1>3, <1>4, <2>1 DEF At, LookingBack, Past
    <2> QED
        BY <1>2, <2>1, <2>2, ReadStep DEF Reading, TypeOK
<1>5. CASE t.right[x] # nil
    <2>1. pc' = "lowest" /\ y' = t["right"][x] /\ value' = value /\ UNCHANGED <<t, x, z>> /\ pc = "succ"
        BY <1>5 DEF AtValue
    <2>2. t["right"][x] \in L /\ lo[t["right"][x]] = value
        BY <1>1, <1>2, <1>3, <1>5, ChildBounds DEF Sides, From
    <2>3. At(L, lo, hi, b)'
        BY <1>1, <2>1, <2>2 DEF At, Lowering, Past
    <2> QED
        BY <1>2, <1>3, <2>1, <2>2, <2>3, ReadStep DEF Reading, TypeOK
<1> QED
    BY <1>4, <1>5

\* recur_succ has gone past a leaf: y is the successor.
LEMMA NoneAtValueStep ==
    ASSUME TypeOK, NEW L, NEW lo, NEW hi, NEW b, Inv(L, lo, hi, b), NoneAtValue
    PROVE  TypeOK' /\ Inv(L, lo, hi, b)'
<1>1. ~ Past(L) /\ y \in L /\ value \in Nat /\ value < Hash[y] /\ None(L, value, Hash[y])
    BY DEF Inv, At, NoneAtValue, Recurring
<1>2. pc' = "found" /\ UNCHANGED <<t, x, y, z, value>> /\ pc = "succ"
    BY DEF NoneAtValue
<1>3. At(L, lo, hi, b)'
    BY <1>1, <1>2 DEF At, Finished, IsNext, Past, None
<1> QED
    BY <1>2, <1>3, ReadStep DEF Reading, TypeOK

\* One turn of the climb of recur_succ.
LEMMA LookBackStep ==
    ASSUME TypeOK, NEW L, NEW lo, NEW hi, NEW b, Inv(L, lo, hi, b), LookBack
    PROVE  TypeOK' /\ Inv(L, lo, hi, b)'
<1>1. LookingBack(L) /\ value \in Nat
    BY DEF Inv, At, LookBack
<1>2. t \in Trees /\ Knit(t, L) /\ \A m \in L : m \in Nodes
    BY ShapeKnit, Bounds DEF TypeOK, Inv, Shape
<1>3. /\ pc = "look_back" /\ UNCHANGED <<t, x, z, value>>
      /\ \/ y' = y /\ pc' = "found"
         \/ y' = t.parent[y] /\ t.parent[y] # nil /\ pc' = "look_back"
    BY DEF LookBack
<1>4. y' \in L
    BY <1>1, <1>2, <1>3 DEF LookingBack, Knit
<1>5. LookingBack(L)'
    BY <1>1, <1>3, <1>4 DEF LookingBack, Past
<1>6. At(L, lo, hi, b)'
    BY <1>1, <1>3, <1>4, <1>5 DEF At, Finished
<1> QED
    BY <1>2, <1>3, <1>4, <1>6, ReadStep DEF Reading, TypeOK

\* succ returns.
LEMMA ReturnFoundStep ==
    ASSUME TypeOK, NEW L, NEW lo, NEW hi, NEW b, Inv(L, lo, hi, b), ReturnFound
    PROVE  TypeOK' /\ Inv(L, lo, hi, b)'
<1>1. At(L, lo, hi, b)'
    BY DEF At, ReturnFound, Return
<1> QED
    BY <1>1, ReadStep, Constants DEF ReturnFound, Return, Reading, TypeOK

-----------------------------------------------------------------------------
(* The steps of insert_cache. *)

\* How many nodes there can be.
LEMMA Counts ==
    ASSUME NEW L, L \subseteq Ids
    PROVE  /\ Cardinality(L) \in Nat /\ Cardinality(L) <= Cardinality(Ids)
           /\ Cardinality(Ids) \in Nat
           /\ \A n \in Ids \ L : /\ Cardinality(L \cup {n}) = Cardinality(L) + 1
                                 /\ Cardinality(L \cup {n}) <= Cardinality(Ids)
           /\ \A n \in L : Cardinality(L \ {n}) = Cardinality(L) - 1 /\ Cardinality(L) > 0
<1>1. IsFiniteSet(Ids)
    BY TreeAssumption
<1>2. IsFiniteSet(L) /\ Cardinality(L) <= Cardinality(Ids)
    BY <1>1, FS_Subset
<1>3. Cardinality(L) \in Nat /\ Cardinality(Ids) \in Nat
    BY <1>1, <1>2, FS_CardinalityType
<1>4. ASSUME NEW n \in Ids \ L
      PROVE  /\ Cardinality(L \cup {n}) = Cardinality(L) + 1
             /\ Cardinality(L \cup {n}) <= Cardinality(Ids)
    <2>1. Cardinality(L \cup {n}) = Cardinality(L) + 1
        BY <1>2, FS_AddElement
    <2>2. L \cup {n} \subseteq Ids
        OBVIOUS
    <2> QED
        BY <1>1, <2>1, <2>2, FS_Subset
<1>5. ASSUME NEW n \in L
      PROVE  Cardinality(L \ {n}) = Cardinality(L) - 1 /\ Cardinality(L) > 0
    <2>1. Cardinality(L \ {n}) = Cardinality(L) - 1
        BY <1>2, FS_RemoveElement
    <2>2. Cardinality(L) # 0
        BY <1>2, FS_EmptySet
    <2> QED
        BY <1>3, <2>1, <2>2
<1> QED
    BY <1>2, <1>3, <1>4, <1>5

\* The tree between two turns, for the lemmas about one turn.
LEMMA SoundNow ==
    ASSUME TypeOK, NEW L, NEW lo, NEW hi, NEW b, Inv(L, lo, hi, b)
    PROVE  /\ t \in Trees /\ Shape(t, L, lo, hi) /\ Bounded(L, lo, hi) /\ Knit(t, L)
           /\ Sound(t, L, IF pc = "delete_fixup" THEN z ELSE nil)
           /\ L \subseteq Ids /\ L \subseteq Nodes /\ nil \notin L
<1>1. t \in Trees /\ Shape(t, L, lo, hi)
    BY DEF TypeOK, Inv
<1>2. Knit(t, L)
    BY <1>1, ShapeKnit
<1>3. Sound(t, L, IF pc = "delete_fixup" THEN z ELSE nil)
    BY <1>1 DEF Inv, Sound
<1>4. L \subseteq Ids /\ L \subseteq Nodes /\ nil \notin L
    BY <1>2, Constants DEF Knit
<1> QED
    BY <1>1, <1>2, <1>3, <1>4 DEF Shape

\* When a turn has made another tree.
LEMMA TurnStep ==
    ASSUME NEW L, Sound(t, L, IF pc = "delete_fixup" THEN z ELSE nil)',
           pc' \in {"idle", "insert_fixup", "delete_fixup"},
           t'.size = Cardinality(L),
           x' \in Nodes, y' \in Nodes, z' \in Nodes, value' \in Int,
           \E b : Colored(L, b)',
           pc' = "delete_fixup" => z' \in Ids \ L
    PROVE  TypeOK' /\ \E lo, hi, b : Inv(L, lo, hi, b)'
<1>1. PICK lo, hi : Shape(t', L, lo, hi)
    BY DEF Sound
<1>2. PICK b : Colored(L, b)'
    OBVIOUS
<1>3. t' \in Trees /\ Outside(t', L, IF pc' = "delete_fixup" THEN z' ELSE nil)
    BY DEF Sound
<1>4. At(L, lo, hi, b)'
    BY DEF At
<1>5. Sized(L)'
    <2>1. Cardinality(L) \in Nat
        BY <1>1, Counts DEF Shape, Bounded
    <2> QED
        BY <2>1 DEF Sized
<1>6. Inv(L, lo, hi, b)'
    BY <1>1, <1>2, <1>3, <1>4, <1>5 DEF Inv
<1>7. t'.size <= Cardinality(Ids)
    BY <1>1, Counts DEF Shape, Bounded
<1> QED
    BY <1>3, <1>6, <1>7 DEF TypeOK

\* One turn of the descent of rbt_insert.
LEMMA InsertDescendStep ==
    ASSUME TypeOK, NEW L, NEW lo, NEW hi, NEW b, Inv(L, lo, hi, b), InsertDescend
    PROVE  TypeOK' /\ Inv(L, lo, hi, b)'
<1>1. /\ pc = "insert" /\ x # nil /\ y' = x /\ x' = t[Turn(z, x)][x]
      /\ UNCHANGED <<t, pc, z, value>>
    BY DEF InsertDescend
<1>2. /\ t \in Trees /\ Shape(t, L, lo, hi) /\ Bounded(L, lo, hi) /\ Knit(t, L)
      /\ L \subseteq Ids /\ L \subseteq Nodes /\ nil \notin L
    BY SoundNow
<1>3. Inserting(L, lo, hi)
    BY <1>1 DEF Inv, At
<1>4. /\ z \in Ids \ L /\ Hash[z] \in Nat /\ Hash[z] <= HashBound /\ HashBound \in Nat
      /\ hv(z) = Hash[z]
    BY <1>3, Constants DEF Inserting
<1>5. x \in L /\ lo[x] < Hash[z] /\ Hash[z] < hi[x]
    <2>1. CASE y = nil /\ x = t.root
        BY <1>1, <1>2, <1>4, <2>1, RootIs
    <2>2. CASE /\ y \in L /\ lo[y] < Hash[z] /\ Hash[z] < hi[y]
               /\ x = t[Turn(z, y)][y]
        <3>1. /\ hv(y) = Hash[y] /\ Hash[y] \in Nat /\ Hash[y] # Hash[z]
              /\ "left" \in Sides /\ "right" \in Sides
            BY <1>2, <1>4, <2>2, Constants DEF Sides
        <3>2. CASE Hash[z] < Hash[y]
            <4>1. x = t["left"][y]
                BY <1>4, <2>2, <3>1, <3>2 DEF Turn
            <4>2. x \in L /\ lo[x] = lo[y] /\ hi[x] = Hash[y]
                BY <1>1, <1>2, <2>2, <3>1, <4>1, ChildBounds DEF From, To
            <4> QED
                BY <2>2, <3>2, <4>2
        <3>3. CASE ~ (Hash[z] < Hash[y])
            <4>1. x = t["right"][y]
                BY <1>4, <2>2, <3>1, <3>3 DEF Turn
            <4>2. x \in L /\ lo[x] = Hash[y] /\ hi[x] = hi[y]
                BY <1>1, <1>2, <2>2, <3>1, <4>1, ChildBounds DEF From, To
            <4> QED
                BY <1>4, <2>2, <3>1, <3>3, <4>2
        <3> QED
            BY <3>2, <3>3
    <2> QED
        BY <1>3, <2>1, <2>2 DEF Inserting
<1>6. At(L, lo, hi, b)'
    BY <1>1, <1>4, <1>5 DEF At, Inserting
<1>7. Inv(L, lo, hi, b)'
    BY <1>1, <1>6 DEF Inv, Sized, Colored
<1>8. x' \in Nodes
    BY <1>1, <1>2, <1>5, Typed DEF Turn, Sides
<1> QED
    BY <1>1, <1>2, <1>5, <1>7, <1>8 DEF TypeOK

\* The new leaf.
LEMMA InsertLinkStep ==
    ASSUME TypeOK, NEW L, NEW lo, NEW hi, NEW b, Inv(L, lo, hi, b), InsertLink,
           NEW L2, L2 = L \cup {z}
    PROVE  /\ z \in Ids \ L
           /\ TypeOK' /\ \E lo2, hi2, b2 : Inv(L2, lo2, hi2, b2)'
<1>1. /\ pc = "insert" /\ x = nil /\ t' = Link(t, z, y) /\ pc' = "insert_fixup"
      /\ UNCHANGED <<x, y, z, value>>
    BY DEF InsertLink
<1>2. /\ t \in Trees /\ Shape(t, L, lo, hi) /\ Outside(t, L, nil) /\ Sound(t, L, nil)
      /\ L \subseteq Ids /\ Knit(t, L)
    BY <1>1, SoundNow DEF Inv
<1>3. Inserting(L, lo, hi) /\ Whole(t, L, b) /\ t.size = Cardinality(L) + 1
    <2>1. Cardinality(L) \in Nat
        BY <1>2, Counts
    <2> QED
        BY <1>1, <2>1 DEF Inv, At, Colored, Sized
<1>4. /\ z \in Ids \ L
      /\ \/ y = nil /\ t.root = nil
         \/ y \in L /\ lo[y] < Hash[z] /\ Hash[z] < hi[y] /\ t[Turn(z, y)][y] = nil
      /\ y \in L \cup {nil} /\ y \in Nodes
    BY <1>1, <1>2, <1>3, SoundNow DEF Inserting, TypeOK
<1> DEFINE T == Link(t, z, y)
<1>5. Linked(t, z, y, T)
    BY <1>2, <1>4, LinkFacts
<1>6. /\ Shape(T, L2, LinkLo(lo, z, y), LinkHi(hi, z, y)) /\ Outside(T, L2, nil)
    BY <1>2, <1>4, LinkShape
<1>7. y = nil => t.root = nil
    BY <1>2, <1>4, Constants
<1>8. y # nil => t[Turn(z, y)][y] = nil
    BY <1>4
<1> HIDE DEF T
<1>9. \E b2 : Inserted(T, L2, b2, z)
    BY <1>2, <1>3, <1>4, <1>5, <1>7, <1>8, LinkKeeps
<1>10. Sound(T, L2, nil) /\ T.size = t.size
    BY <1>5, <1>6 DEF Sound, Linked
<1>11. Cardinality(L2) = Cardinality(L) + 1
    BY <1>2, <1>4, Counts
<1>12. \E b2 : Colored(L2, b2)'
    BY <1>1, <1>9 DEF Colored, T
<1>13. Sound(t, L2, IF pc = "delete_fixup" THEN z ELSE nil)'
    BY <1>1, <1>10 DEF T
<1>14. t'.size = Cardinality(L2)
    BY <1>1, <1>3, <1>10, <1>11 DEF T
<1> QED
    BY <1>1, <1>4, <1>12, <1>13, <1>14, TurnStep DEF TypeOK

\* One turn of the fixup of an insertion.
LEMMA InsertFixupStep ==
    ASSUME TypeOK, NEW L, NEW lo, NEW hi, NEW b, Inv(L, lo, hi, b), InsertFixup
    PROVE  TypeOK' /\ \E lo2, hi2, b2 : Inv(L, lo2, hi2, b2)'
<1>1. /\ pc = "insert_fixup" /\ t.color[t.parent[z]] = "RED"
      /\ t' = InsertRound(t, z)[1] /\ z' = InsertRound(t, z)[2]
      /\ UNCHANGED <<pc, x, y, value>>
    BY DEF InsertFixup
<1>2. Sound(t, L, nil) /\ L \subseteq Ids /\ L \subseteq Nodes
    BY <1>1, SoundNow
<1>3. Inserted(t, L, b, z) /\ t.size = Cardinality(L)
    <2>1. Cardinality(L) \in Nat
        BY <1>2, Counts
    <2> QED
        BY <1>1, <2>1 DEF Inv, Colored, Sized
<1>4. /\ Sound(t', L, nil) /\ t'.size = t.size /\ \E b2 : Inserted(t', L, b2, z')
    BY <1>1, <1>2, <1>3, InsertRoundKeeps
<1>5. \E b2 : Colored(L, b2)'
    BY <1>1, <1>4 DEF Colored
<1>6. z' \in Nodes
    BY <1>2, <1>4 DEF Inserted
<1>7. Sound(t, L, IF pc = "delete_fixup" THEN z ELSE nil)'
    BY <1>1, <1>4
<1> QED
    BY <1>1, <1>3, <1>4, <1>5, <1>6, <1>7, TurnStep DEF TypeOK

\* The end of that fixup.
LEMMA InsertDoneStep ==
    ASSUME TypeOK, NEW L, NEW lo, NEW hi, NEW b, Inv(L, lo, hi, b), InsertDone
    PROVE  TypeOK' /\ \E lo2, hi2, b2 : Inv(L, lo2, hi2, b2)'
<1>1. /\ pc = "insert_fixup" /\ t.color[t.parent[z]] = "BLACK"
      /\ t' = Paint(t, t.root, "BLACK")
      /\ pc' = "idle" /\ x' = nil /\ y' = nil /\ z' = nil /\ value' = -1
    BY DEF InsertDone, Return
<1>2. Sound(t, L, nil) /\ L \subseteq Ids
    BY <1>1, SoundNow
<1>3. Inserted(t, L, b, z) /\ t.size = Cardinality(L)
    <2>1. Cardinality(L) \in Nat
        BY <1>2, Counts
    <2> QED
        BY <1>1, <2>1 DEF Inv, Colored, Sized
<1>4. /\ Sound(t', L, nil) /\ t'.size = t.size /\ \E b2 : Whole(t', L, b2)
    BY <1>1, <1>2, <1>3, InsertDoneKeeps
<1>5. \E b2 : Colored(L, b2)'
    BY <1>1, <1>4 DEF Colored
<1>6. Sound(t, L, IF pc = "delete_fixup" THEN z ELSE nil)'
    BY <1>1, <1>4
<1> QED
    BY <1>1, <1>3, <1>4, <1>5, <1>6, Constants, TurnStep

-----------------------------------------------------------------------------
(* The steps of delete_entry. *)

\* One turn of get_node_with_hv: the node looked for is still ahead.
LEMMA FindStep ==
    ASSUME TypeOK, NEW L, NEW lo, NEW hi, NEW b, Inv(L, lo, hi, b), Find
    PROVE  TypeOK' /\ Inv(L, lo, hi, b)'
<1>1. /\ pc = "find" /\ pc' = "find" /\ UNCHANGED <<t, y, z, value>> /\ hv(x) # value
      /\ x' = IF hv(x) < value THEN t["right"][x] ELSE t["left"][x]
    BY DEF Find
<1>2. /\ t \in Trees /\ Shape(t, L, lo, hi) /\ Bounded(L, lo, hi)
      /\ L \subseteq Ids /\ L \subseteq Nodes
    BY SoundNow
<1>3. /\ x \in L /\ lo[x] < value /\ value < hi[x] /\ hv(x) = Hash[x] /\ Hash[x] \in Nat
      /\ "left" \in Sides /\ "right" \in Sides
    BY <1>1, <1>2, Constants DEF Inv, At, Finding, Sides
<1>4. PICK i \in L : value = Hash[i]
    BY <1>1 DEF Inv, At, Finding
<1>5. value \in Nat
    BY <1>2, <1>4, Constants
<1>6. x' \in L /\ lo[x'] < value /\ value < hi[x']
    <2>1. CASE Hash[x] < value
        <3>1. x' = t["right"][x]
            BY <1>1, <1>3, <2>1
        <3>2. t["right"][x] # nil
            <4>1. t["right"][x] = nil => None(L, Hash[x], hi[x])
                BY <1>2, <1>3, Gap DEF From, To
            <4> QED
                BY <1>3, <1>4, <2>1, <4>1 DEF None
        <3>3. x' \in L /\ lo[x'] = Hash[x] /\ hi[x'] = hi[x]
            BY <1>2, <1>3, <3>1, <3>2, ChildBounds DEF From, To
        <3> QED
            BY <1>3, <2>1, <3>3
    <2>2. CASE ~ (Hash[x] < value)
        <3>1. x' = t["left"][x] /\ value < Hash[x]
            BY <1>1, <1>3, <1>5, <2>2
        <3>2. t["left"][x] # nil
            <4>1. t["left"][x] = nil => None(L, lo[x], Hash[x])
                BY <1>2, <1>3, Gap DEF From, To
            <4> QED
                BY <1>3, <1>4, <3>1, <4>1 DEF None
        <3>3. x' \in L /\ lo[x'] = lo[x] /\ hi[x'] = Hash[x]
            BY <1>2, <1>3, <3>1, <3>2, ChildBounds DEF From, To
        <3> QED
            BY <1>3, <3>1, <3>3
    <2> QED
        BY <2>1, <2>2
<1>7. At(L, lo, hi, b)'
    BY <1>1, <1>4, <1>6 DEF At, Finding
<1> QED
    BY <1>1, <1>2, <1>6, <1>7, ReadStep DEF Reading, TypeOK

\* A tree of another size.
LEMMA Resized ==
    ASSUME NEW tree \in Trees, NEW d \in Nat
    PROVE  LET T == [tree EXCEPT !.size = d]
           IN  /\ T \in Trees /\ T.size = d /\ T.root = tree.root
               /\ T.left = tree.left /\ T.right = tree.right
               /\ T.parent = tree.parent /\ T.color = tree.color
               /\ \A s \in Sides : T[s] = tree[s]
BY DEF Trees, Sides

\* The size does not matter to the shape or the colors.
LEMMA ResizedSame ==
    ASSUME NEW tree, NEW T, T.root = tree.root,
           T.left = tree.left, T.right = tree.right,
           T.parent = tree.parent, T.color = tree.color,
           \A s \in Sides : T[s] = tree[s]
    PROVE  /\ \A L, lo, hi : Shape(tree, L, lo, hi) => Shape(T, L, lo, hi)
           /\ \A L, e : Outside(tree, L, e) => Outside(T, L, e)
           /\ \A L, b : Whole(tree, L, b) => Whole(T, L, b)
<1>1. \A n : SideOf(T, n) = SideOf(tree, n)
    BY DEF SideOf
<1>2. ASSUME NEW L, NEW lo, NEW hi, Shape(tree, L, lo, hi)  PROVE Shape(T, L, lo, hi)
    <2>1. Rooted(T, L, lo, hi)
        BY <1>2 DEF Shape, Rooted
    <2>2. \A m \in L, s \in Sides : Fits(T, L, lo, hi, m, s)
        BY <1>2 DEF Shape, Fits
    <2>3. Hangs(T, L)
        BY <1>1, <1>2, SideOfSides DEF Shape, Hangs
    <2> QED
        BY <1>2, <2>1, <2>2, <2>3 DEF Shape
<1>3. \A L, e : Outside(tree, L, e) => Outside(T, L, e)
    BY DEF Outside
<1>4. ASSUME NEW L, NEW b, Whole(tree, L, b)  PROVE Whole(T, L, b)
    <2>1. Heights(T, L, b, nil, "left")
        BY <1>4 DEF Whole, Heights, Black
    <2>2. Reds(T, L, nil, nil) /\ RootBlack(T, nil)
        BY <1>4 DEF Whole, Reds, RootBlack
    <2> QED
        BY <2>1, <2>2 DEF Whole
<1> QED
    BY <1>2, <1>3, <1>4

\* rbt_delete begins at the node found.
LEMMA FoundStep ==
    ASSUME TypeOK, NEW L, NEW lo, NEW hi, NEW b, Inv(L, lo, hi, b), Found
    PROVE  TypeOK' /\ Inv(L, lo, hi, b)'
<1>1. /\ pc = "find" /\ z' = x /\ t' = [t EXCEPT !.size = @ - 1]
      /\ IF t["left"][x] # nil /\ t["right"][x] # nil
         THEN pc' = "least" /\ y' = t["right"][x]
         ELSE pc' = "cut" /\ y' = x
      /\ UNCHANGED <<x, value>>
    BY DEF Found
<1>2. /\ t \in Trees /\ Shape(t, L, lo, hi) /\ Bounded(L, lo, hi) /\ Outside(t, L, nil)
      /\ L \subseteq Ids /\ L \subseteq Nodes
    BY <1>1, SoundNow DEF Inv
<1>3. /\ x \in L /\ Whole(t, L, b)
    BY <1>1 DEF Inv, At, Finding, Colored
<1>4. Cardinality(L) \in Nat /\ Cardinality(L) > 0 /\ Cardinality(L) <= Cardinality(Ids)
      /\ Cardinality(Ids) \in Nat
    BY <1>2, <1>3, Counts
<1>5. t.size = Cardinality(L)
    BY <1>1, <1>4 DEF Inv, Sized
<1>6. /\ t' \in Trees /\ t'.size = Cardinality(L) - 1 /\ t'.root = t.root
      /\ t'.left = t.left /\ t'.right = t.right /\ t'.parent = t.parent /\ t'.color = t.color
      /\ \A s \in Sides : t'[s] = t[s]
    BY <1>1, <1>2, <1>4, <1>5, Resized
<1>7. Shape(t', L, lo, hi) /\ Outside(t', L, nil) /\ Whole(t', L, b)
    BY <1>2, <1>3, <1>6, ResizedSame
<1>8. CASE t["left"][x] # nil /\ t["right"][x] # nil
    <2>1. pc' = "least" /\ y' = t["right"][x]
        BY <1>1, <1>8
    <2>2. y' \in L /\ lo[y'] = Hash[x] /\ hi[y'] = hi[x] /\ hi[x] \in Int
        BY <1>2, <1>3, <1>8, <2>1, ChildBounds, Bounds DEF From, To, Sides
    <2>3. At(L, lo, hi, b)'
        BY <1>1, <1>3, <1>6, <1>8, <2>1, <2>2 DEF At, Leasting
    <2>4. Inv(L, lo, hi, b)'
        BY <1>4, <1>6, <1>7, <2>1, <2>3 DEF Inv, Sized, Colored
    <2>5. TypeOK'
        BY <1>1, <1>2, <1>3, <1>4, <1>6, <2>1, <2>2 DEF TypeOK
    <2> QED
        BY <2>4, <2>5
<1>9. CASE ~ (t["left"][x] # nil /\ t["right"][x] # nil)
    <2>1. pc' = "cut" /\ y' = x
        BY <1>1, <1>9
    <2>2. At(L, lo, hi, b)'
        BY <1>1, <1>3, <1>6, <1>9, <2>1 DEF At, Cutting
    <2>3. Inv(L, lo, hi, b)'
        BY <1>4, <1>6, <1>7, <2>1, <2>2 DEF Inv, Sized, Colored
    <2>4. TypeOK'
        BY <1>1, <1>2, <1>3, <1>4, <1>6, <2>1 DEF TypeOK
    <2> QED
        BY <2>3, <2>4
<1> QED
    BY <1>8, <1>9

\* One turn of rbt_min: y stays on the right of z, with nothing between.
LEMMA LeastStep ==
    ASSUME TypeOK, NEW L, NEW lo, NEW hi, NEW b, Inv(L, lo, hi, b), Least
    PROVE  TypeOK' /\ Inv(L, lo, hi, b)'
<1>1. /\ pc = "least" /\ t["left"][y] # nil /\ y' = t["left"][y]
      /\ UNCHANGED <<t, pc, x, z, value>>
    BY DEF Least
<1>2. /\ t \in Trees /\ Shape(t, L, lo, hi) /\ Bounded(L, lo, hi) /\ L \subseteq Nodes
    BY SoundNow
<1>3. Leasting(L, lo, hi)
    BY <1>1 DEF Inv, At
<1>4. /\ y \in L /\ z \in L /\ hi[y] \in Int /\ hi[z] \in Int /\ Hash[y] \in Int /\ Hash[y] < hi[y]
    BY <1>2, <1>3, Bounds DEF Leasting
<1>5. y' \in L /\ lo[y'] = lo[y] /\ hi[y'] = Hash[y]
    BY <1>1, <1>2, <1>4, ChildBounds DEF From, To, Sides
<1>6. Leasting(L, lo, hi)'
    BY <1>1, <1>3, <1>4, <1>5 DEF Leasting
<1>7. At(L, lo, hi, b)'
    BY <1>1, <1>6 DEF At
<1>8. Inv(L, lo, hi, b)'
    BY <1>1, <1>7 DEF Inv, Sized, Colored
<1> QED
    BY <1>1, <1>2, <1>5, <1>8 DEF TypeOK

\* The common end of Cut and CutLeast.
LEMMA AfterCutStep ==
    ASSUME TypeOK, NEW L, NEW lo, NEW hi, NEW b, Inv(L, lo, hi, b), pc \in {"cut", "least"},
           NEW T, NEW c, AfterCut(T, c),
           Sound(T, L \ {z}, z), T.size = t.size, c \in Nodes, z \in L,
           NEW d, d = (t.color[y] = "BLACK"),
           \E b2 : CutOff(T, L \ {z}, b2, d, c),
           NEW L2, L2 = L \ {z}
    PROVE  TypeOK' /\ \E lo2, hi2, b2 : Inv(L2, lo2, hi2, b2)'
<1>1. L \subseteq Ids /\ z \in Ids \ L2 /\ Cardinality(L2) = Cardinality(L) - 1
      /\ Cardinality(L) \in Nat
    BY SoundNow, Counts
<1>2. T.size = Cardinality(L2)
    BY <1>1 DEF Inv, Sized
<1>3. CASE t.color[y] = "BLACK"
    <2>1. /\ t' = T /\ pc' = "delete_fixup" /\ x' = c /\ UNCHANGED <<y, z, value>>
        BY <1>3 DEF AfterCut
    <2>2. \E b2 : Deleted(T, L2, b2, c)
        BY <1>3 DEF CutOff
    <2>3. \E b2 : Colored(L2, b2)'
        BY <2>1, <2>2 DEF Colored
    <2>4. Sound(t, L2, IF pc = "delete_fixup" THEN z ELSE nil)'
        BY <2>1
    <2> QED
        BY <1>1, <1>2, <2>1, <2>3, <2>4, TurnStep DEF TypeOK
<1>4. CASE t.color[y] # "BLACK"
    <2>1. /\ t' = free(T, z) /\ pc' = "idle"
          /\ x' = nil /\ y' = nil /\ z' = nil /\ value' = -1
        BY <1>4 DEF AfterCut, Return
    <2>2. PICK b2 : Whole(T, L2, b2)
        BY <1>4 DEF CutOff
    <2>3. Sound(t', L2, nil) /\ t'.size = T.size /\ Whole(t', L2, b2)
        BY <1>1, <2>1, <2>2, FreeKeeps
    <2>4. \E b3 : Colored(L2, b3)'
        BY <2>1, <2>3 DEF Colored
    <2>5. Sound(t, L2, IF pc = "delete_fixup" THEN z ELSE nil)'
        BY <2>1, <2>3
    <2> QED
        BY <1>1, <1>2, <2>1, <2>3, <2>4, <2>5, Constants, TurnStep
<1> QED
    BY <1>3, <1>4

\* The node with one child at most is cut off.
LEMMA CutStep ==
    ASSUME TypeOK, NEW L, NEW lo, NEW hi, NEW b, Inv(L, lo, hi, b), Cut,
           NEW L2, L2 = L \ {z}
    PROVE  /\ z \in L
           /\ TypeOK' /\ \E lo2, hi2, b2 : Inv(L2, lo2, hi2, b2)'
<1> DEFINE c == OnlyChild(t, z)
           T == rbt_transplant(t, z, c)
<1>1. pc = "cut" /\ AfterCut(T, c)
    BY DEF Cut
<1>2. /\ t \in Trees /\ Shape(t, L, lo, hi) /\ Outside(t, L, nil) /\ Sound(t, L, nil)
      /\ L \subseteq Ids
    BY <1>1, SoundNow DEF Inv
<1>3. Whole(t, L, b) /\ z \in L /\ y = z /\ (t["left"][z] = nil \/ t["right"][z] = nil)
    BY <1>1 DEF Inv, At, Cutting, Colored
<1>4. PICK s \in Sides : t[s][z] = nil /\ c = t[Other(s)][z]
    <2>1. CASE t["left"][z] = nil
        BY <2>1 DEF OnlyChild, Sides, Other
    <2>2. CASE t["left"][z] # nil
        BY <1>3, <2>2 DEF OnlyChild, Sides, Other
    <2> QED
        BY <2>1, <2>2
<1>5. c \in Nodes
    BY <1>2, <1>3, <1>4, Typed, Constants
<1> HIDE DEF T, c
<1>6. /\ Shape(T, L \ {z}, CutLo(s, lo, z), CutHi(s, hi, z))
      /\ Outside(T, L \ {z}, z)
      /\ Transplanted(t, z, c, T)
    BY <1>2, <1>3, <1>4, CutShape DEF T
<1>7. Sound(T, L \ {z}, z) /\ T.size = t.size
    BY <1>6 DEF Sound, Transplanted
<1>8. CutOff(T, L \ {z}, b, t.color[z] = "BLACK", c)
    BY <1>2, <1>3, <1>4, <1>6, CutColors
<1>9. CutOff(T, L \ {z}, b, t.color[y] = "BLACK", c)
    BY <1>3, <1>8
<1> QED
    BY <1>1, <1>3, <1>5, <1>7, <1>9, AfterCutStep

\* The node with two children is cut off.
LEMMA CutLeastStep ==
    ASSUME TypeOK, NEW L, NEW lo, NEW hi, NEW b, Inv(L, lo, hi, b), CutLeast,
           NEW L2, L2 = L \ {z}
    PROVE  /\ z \in L
           /\ TypeOK' /\ \E lo2, hi2, b2 : Inv(L2, lo2, hi2, b2)'
<1> DEFINE c == t.right[y]
           T == Unlink(t, z, y)
<1>1. pc = "least" /\ t.left[y] = nil /\ AfterCut(T, c)
    BY DEF CutLeast
<1>2. /\ t \in Trees /\ Shape(t, L, lo, hi) /\ Outside(t, L, nil)
      /\ L \subseteq Ids
    BY <1>1, SoundNow DEF Inv
<1>3. Whole(t, L, b) /\ Leasting(L, lo, hi)
    BY <1>1 DEF Inv, At, Colored
<1>4. LeastRight(t, L, lo, hi, z, y) /\ z \in L /\ y \in L
    BY <1>1, <1>3 DEF Leasting, LeastRight
<1>5. c \in Nodes
    BY <1>2, <1>4, Typed
<1>6. /\ Shape(T, L \ {z}, UnlinkLo(lo, z, y), UnlinkHi(hi, z, y))
      /\ Outside(T, L \ {z}, z)
    BY <1>2, <1>4, UnlinkShape
<1>7. T \in Trees /\ T.size = t.size
    BY <1>2, <1>4, LeastRightFacts DEF Unlinked
<1>8. \E b2 : CutOff(T, L \ {z}, b2, t.color[y] = "BLACK", c)
    BY <1>2, <1>3, <1>4, UnlinkColors
<1> HIDE DEF T, c
<1>9. Sound(T, L \ {z}, z)
    BY <1>6, <1>7 DEF Sound
<1> QED
    BY <1>1, <1>4, <1>5, <1>7, <1>8, <1>9, AfterCutStep

\* One turn of the fixup of a deletion.
LEMMA DeleteFixupStep ==
    ASSUME TypeOK, NEW L, NEW lo, NEW hi, NEW b, Inv(L, lo, hi, b), DeleteFixup
    PROVE  TypeOK' /\ \E lo2, hi2, b2 : Inv(L, lo2, hi2, b2)'
<1>1. /\ pc = "delete_fixup" /\ x # t.root /\ t.color[x] = "BLACK"
      /\ t' = DeleteRound(t, x)[1] /\ x' = DeleteRound(t, x)[2]
      /\ UNCHANGED <<pc, y, z, value>>
    BY DEF DeleteFixup
<1>2. Sound(t, L, z) /\ L \subseteq Ids /\ L \subseteq Nodes
    BY <1>1, SoundNow
<1>3. Deleted(t, L, b, x) /\ t.size = Cardinality(L) /\ z \in Ids \ L
    <2>1. Cardinality(L) \in Nat
        BY <1>2, Counts
    <2> QED
        BY <1>1, <2>1 DEF Inv, At, Colored, Sized
<1>4. /\ Sound(t', L, z) /\ t'.size = t.size /\ \E b2 : Deleted(t', L, b2, x')
    BY <1>1, <1>2, <1>3, DeleteRoundKeeps
<1>5. \E b2 : Colored(L, b2)'
    BY <1>1, <1>4 DEF Colored
<1>6. x' \in Nodes
    BY <1>2, <1>4, Constants DEF Deleted
<1>7. Sound(t, L, IF pc = "delete_fixup" THEN z ELSE nil)'
    BY <1>1, <1>4
<1> QED
    BY <1>1, <1>3, <1>4, <1>5, <1>6, <1>7, TurnStep DEF TypeOK

\* The end of that fixup, and of the deletion.
LEMMA DeleteDoneStep ==
    ASSUME TypeOK, NEW L, NEW lo, NEW hi, NEW b, Inv(L, lo, hi, b), DeleteDone
    PROVE  TypeOK' /\ \E lo2, hi2, b2 : Inv(L, lo2, hi2, b2)'
<1>1. /\ pc = "delete_fixup" /\ (x = t.root \/ t.color[x] = "RED")
      /\ t' = free(Paint(t, x, "BLACK"), z)
      /\ pc' = "idle" /\ x' = nil /\ y' = nil /\ z' = nil /\ value' = -1
    BY DEF DeleteDone, Return
<1>2. Sound(t, L, z) /\ L \subseteq Ids
    BY <1>1, SoundNow
<1>3. Deleted(t, L, b, x) /\ t.size = Cardinality(L) /\ z \in Ids \ L
    <2>1. Cardinality(L) \in Nat
        BY <1>2, Counts
    <2> QED
        BY <1>1, <2>1 DEF Inv, At, Colored, Sized
<1>4. /\ Sound(t', L, nil) /\ t'.size = t.size /\ \E b2 : Whole(t', L, b2)
    BY <1>1, <1>2, <1>3, DeleteDoneKeeps
<1>5. \E b2 : Colored(L, b2)'
    BY <1>1, <1>4 DEF Colored
<1>6. Sound(t, L, IF pc = "delete_fixup" THEN z ELSE nil)'
    BY <1>1, <1>4
<1> QED
    BY <1>1, <1>3, <1>4, <1>5, <1>6, Constants, TurnStep

-----------------------------------------------------------------------------
(* The first states and the steps that begin a call.                       *)

\* What the nodes in the tree are.
LEMMA ContentsNow ==
    ASSUME TypeOK, NEW L, NEW lo, NEW hi, NEW b, Inv(L, lo, hi, b)
    PROVE  Contents(t) = L /\ L \subseteq Ids
BY SoundNow, ContentsIs DEF Inv

\* The empty tree.
LEMMA InitIInv == Init => IInv
<1> SUFFICES ASSUME Init  PROVE IInv
    OBVIOUS
<1> DEFINE L == {}
           lo == [n \in Ids |-> 0]
           b == [n \in Nodes |-> 1]
<1>1. t = new_rbt /\ pc = "idle" /\ x = nil /\ y = nil /\ z = nil /\ value = -1
    BY DEF Init
<1>2. /\ t \in Trees /\ t.root = nil /\ t.size = 0
      /\ \A n \in Nodes : t.color[n] = "BLACK"
      /\ \A n \in Ids, s \in Sides : t[s][n] = nil
    BY <1>1, Constants DEF new_rbt, Trees, Sides, Colors
<1>3. Cardinality({}) = 0 /\ Cardinality(Ids) \in Nat
    BY FS_EmptySet, FS_CardinalityType, TreeAssumption
<1>4. TypeOK
    BY <1>1, <1>2, <1>3, Constants DEF TypeOK
<1>5. Shape(t, L, lo, lo) /\ Outside(t, L, nil)
    <2>1. lo \in [Ids -> Int] /\ L \in SUBSET Ids /\ \A n : n \notin L
        OBVIOUS
    <2> HIDE DEF L, lo
    <2>2. Bounded(L, lo, lo) /\ Nested(L, lo, lo) /\ Rooted(t, L, lo, lo) /\ Hangs(t, L)
        BY <1>2, <2>1 DEF Bounded, Nested, Rooted, Hangs
    <2>3. Outside(t, L, nil)
        BY <1>2 DEF Outside
    <2> QED
        BY <2>1, <2>2, <2>3 DEF Shape
<1>6. Whole(t, L, b)
    BY <1>2, Constants DEF Whole, Heights, Reds, RootBlack
<1>7. Inv(L, lo, lo, b)
    BY <1>1, <1>2, <1>3, <1>5, <1>6 DEF Inv, Sized, Colored, At
<1> QED
    BY <1>4, <1>7 DEF IInv

\* insert_cache counts the node and begins at the root.
LEMMA InsertCacheStep ==
    ASSUME TypeOK, NEW L, NEW lo, NEW hi, NEW b, Inv(L, lo, hi, b),
           NEW i \in Ids, insert_cache(i)
    PROVE  TypeOK' /\ Inv(L, lo, hi, b)'
<1>1. /\ pc = "idle" /\ i \in Ids \ L /\ t' = [t EXCEPT !.size = @ + 1]
      /\ pc' = "insert" /\ z' = i /\ x' = t.root /\ y' = nil /\ value' = value
    BY ContentsNow DEF insert_cache
<1>2. /\ t \in Trees /\ Shape(t, L, lo, hi) /\ Outside(t, L, nil)
      /\ Whole(t, L, b) /\ L \subseteq Ids
    BY <1>1, SoundNow DEF Inv, Colored
<1>3. Cardinality(L) \in Nat /\ Cardinality(L) + 1 <= Cardinality(Ids)
    BY <1>1, <1>2, Counts
<1>4. t.size = Cardinality(L)
    BY <1>1, <1>3 DEF Inv, Sized
<1>5. /\ t' \in Trees /\ t'.size = Cardinality(L) + 1 /\ t'.root = t.root
      /\ t'.left = t.left /\ t'.right = t.right /\ t'.parent = t.parent /\ t'.color = t.color
      /\ \A s \in Sides : t'[s] = t[s]
    BY <1>1, <1>2, <1>3, <1>4, Resized
<1>6. Shape(t', L, lo, hi) /\ Outside(t', L, nil) /\ Whole(t', L, b)
    BY <1>2, <1>5, ResizedSame
<1>7. At(L, lo, hi, b)'
    BY <1>1, <1>5 DEF At, Inserting
<1>8. Inv(L, lo, hi, b)'
    BY <1>1, <1>3, <1>5, <1>6, <1>7 DEF Inv, Sized, Colored
<1>9. TypeOK'
    BY <1>1, <1>2, <1>3, <1>5, Typed, Constants DEF TypeOK
<1> QED
    BY <1>8, <1>9

\* delete_entry looks for a node that is there.
LEMMA DeleteEntryStep ==
    ASSUME TypeOK, NEW L, NEW lo, NEW hi, NEW b, Inv(L, lo, hi, b),
           NEW i \in Ids, delete_entry(i)
    PROVE  TypeOK' /\ Inv(L, lo, hi, b)'
<1>1. /\ pc = "idle" /\ i \in L /\ value' = Hash[i] /\ x' = t.root
      /\ pc' = "find" /\ UNCHANGED <<t, y, z>>
    BY ContentsNow DEF delete_entry
<1>2. t \in Trees /\ Shape(t, L, lo, hi) /\ Hash[i] \in Nat /\ Hash[i] <= HashBound
      /\ HashBound \in Nat
    BY SoundNow, Constants
<1>3. t.root # nil
    BY <1>1, <1>2 DEF Shape, Rooted
<1>4. t.root \in L /\ lo[t.root] = -1 /\ hi[t.root] = HashBound + 1
    BY <1>2, <1>3, RootIs
<1>5. At(L, lo, hi, b)'
    BY <1>1, <1>2, <1>4 DEF At, Finding
<1>6. Inv(L, lo, hi, b)'
    BY <1>1, <1>5, ReadStep DEF Reading
<1>7. TypeOK'
    BY <1>1, <1>2, Typed DEF TypeOK
<1> QED
    BY <1>6, <1>7

-----------------------------------------------------------------------------
(* The invariant, and what a step does to the set of nodes.                *)

\* The nodes in the tree are after the step those of L2.
Becomes(L2) == TypeOK' /\ \E lo, hi, b : Inv(L2, lo, hi, b)'

\* What a step may do to the set of nodes.
Changes(L, L2) ==
    \/ L2 = L
    \/ \E i \in Ids : i \notin L /\ L2 = L \cup {i}
    \/ \E i \in Ids : i \in L /\ L2 = L \ {i}

\* Every step keeps the invariant and changes the set of nodes by one at most.
LEMMA NextStep ==
    ASSUME TypeOK, NEW L, NEW lo, NEW hi, NEW b, Inv(L, lo, hi, b), [Next]_vars
    PROVE  \E L2 : Becomes(L2) /\ Changes(L, L2)
<1>1. CASE UNCHANGED vars
    <2>1. Inv(L, lo, hi, b)'
        BY <1>1 DEF vars, Inv, Sized, Colored, At, Inserting, Finding, Cutting, Leasting,
                    Lowering, Recurring, LookingBack, Finished, IsNext, Past
    <2>2. TypeOK'
        BY <1>1 DEF vars, TypeOK
    <2> QED
        BY <2>1, <2>2 DEF Becomes, Changes
<1>2. CASE Call
    <2>1. ASSUME NEW i \in Ids, insert_cache(i)  PROVE Becomes(L)
        BY <2>1, InsertCacheStep DEF Becomes
    <2>2. ASSUME NEW i \in Ids, delete_entry(i)  PROVE Becomes(L)
        BY <2>2, DeleteEntryStep DEF Becomes
    <2>3. ASSUME NEW v \in Values, succ(v)  PROVE Becomes(L)
        BY <2>3, SuccStep DEF Becomes
    <2> QED
        BY <1>2, <2>1, <2>2, <2>3 DEF Call, Changes
<1>3. CASE Insert
    <2>1. ASSUME InsertDescend  PROVE Becomes(L)
        BY <2>1, InsertDescendStep DEF Becomes
    <2>2. ASSUME InsertLink  PROVE \E L2 : Becomes(L2) /\ Changes(L, L2)
        <3>1. \A L2 : L2 = L \cup {z} => z \in Ids \ L /\ Becomes(L2)
            BY <2>2, InsertLinkStep DEF Becomes
        <3> QED
            BY <3>1 DEF Changes
    <2>3. ASSUME InsertFixup  PROVE Becomes(L)
        BY <2>3, InsertFixupStep DEF Becomes
    <2>4. ASSUME InsertDone  PROVE Becomes(L)
        BY <2>4, InsertDoneStep DEF Becomes
    <2> QED
        BY <1>3, <2>1, <2>2, <2>3, <2>4 DEF Insert, Changes
<1>4. CASE Delete
    <2>1. ASSUME Find  PROVE Becomes(L)
        BY <2>1, FindStep DEF Becomes
    <2>2. ASSUME Found  PROVE Becomes(L)
        BY <2>2, FoundStep DEF Becomes
    <2>3. ASSUME Least  PROVE Becomes(L)
        BY <2>3, LeastStep DEF Becomes
    <2>4. ASSUME Cut \/ CutLeast  PROVE \E L2 : Becomes(L2) /\ Changes(L, L2)
        <3>1. \A L2 : L2 = L \ {z} => z \in L /\ Becomes(L2)
            BY <2>4, CutStep, CutLeastStep DEF Becomes
        <3>2. L \subseteq Ids
            BY SoundNow
        <3> QED
            BY <3>1, <3>2 DEF Changes
    <2>5. ASSUME DeleteFixup  PROVE Becomes(L)
        BY <2>5, DeleteFixupStep DEF Becomes
    <2>6. ASSUME DeleteDone  PROVE Becomes(L)
        BY <2>6, DeleteDoneStep DEF Becomes
    <2> QED
        BY <1>4, <2>1, <2>2, <2>3, <2>4, <2>5, <2>6 DEF Delete, Changes
<1>5. CASE Lookup
    <2>1. ASSUME Lookup  PROVE Becomes(L)
        BY <2>1, HighestStep, CompareStep, LowestStep, RecurStep, AtValueStep,
           NoneAtValueStep, LookBackStep, ReturnFoundStep DEF Lookup, Becomes
    <2> QED
        BY <1>5, <2>1 DEF Changes
<1> QED
    BY <1>1, <1>2, <1>3, <1>4, <1>5 DEF Next

\* The invariant is inductive.
LEMMA IInvStep == IInv /\ [Next]_vars => IInv'
BY NextStep DEF IInv, Becomes

-----------------------------------------------------------------------------
(* What the invariant says of the tree.                                    *)

\* In an ordered tree every subtree lies between the hashes around it.
LEMMA Ordered == IInv => SearchTree
<1> SUFFICES ASSUME IInv  PROVE IsOrdered(t)
    BY DEF SearchTree
<1>1. PICK L, lo, hi, b : Inv(L, lo, hi, b)
    BY DEF IInv
<1>2. TypeOK /\ Contents(t) = L
    BY <1>1, ContentsNow DEF IInv
<1>3. PICK e : t \in Trees /\ Shape(t, L, lo, hi) /\ Bounded(L, lo, hi) /\ Outside(t, L, e)
               /\ L \subseteq Ids /\ nil \notin L
    BY <1>1, <1>2, SoundNow DEF Inv
<1>4. \A n \in L : /\ hv(n) = Hash[n] /\ Hash[n] \in Int /\ lo[n] \in Int /\ hi[n] \in Int
                   /\ lo[n] < Hash[n] /\ Hash[n] < hi[n]
    BY <1>3, Bounds, Constants
<1>5. ASSUME NEW n \in L, NEW s \in Sides, NEW m \in Subtree(t, t[s][n])
      PROVE  m \in L /\ From(lo, n, s) <= lo[m] /\ hi[m] <= To(hi, n, s)
    <2> DEFINE c == t[s][n]
    <2>1. c = nil \/ (c \in L /\ lo[c] = From(lo, n, s) /\ hi[c] = To(hi, n, s))
        BY <1>3, ChildBounds
    <2> HIDE DEF c
    <2>2. Subtree(t, c) = Inside(L, lo, hi, c)
        BY <1>3, <2>1, SubtreeIs
    <2>3. m \in Inside(L, lo, hi, c)
        BY <1>5, <2>2 DEF c
    <2> QED
        BY <1>3, <2>1, <2>3 DEF Inside
<1>6. ASSUME NEW n \in L, NEW m \in Subtree(t, t["left"][n])  PROVE hv(m) < hv(n)
    BY <1>4, <1>5, <1>6 DEF Sides, From, To
<1>7. ASSUME NEW n \in L, NEW m \in Subtree(t, t["right"][n])  PROVE hv(m) > hv(n)
    BY <1>4, <1>5, <1>7 DEF Sides, From, To
<1> QED
    BY <1>2, <1>6, <1>7 DEF IsOrdered

\* The links that the shape has, and the size.
LEMMA Agreed == IInv => LinksAgree
<1> SUFFICES ASSUME IInv  PROVE LinksAgree
    OBVIOUS
<1>1. PICK L, lo, hi, b : Inv(L, lo, hi, b)
    BY DEF IInv
<1>2. TypeOK /\ Contents(t) = L /\ L \subseteq Ids
    BY <1>1, ContentsNow DEF IInv
<1>3. t.root # nil => t.parent[t.root] = nil
    BY <1>1 DEF Inv, Shape, Rooted
<1>4. \A n \in L, side \in Sides : t[side][n] # nil => t.parent[t[side][n]] = n
    BY <1>1 DEF Inv, Shape, Fits
<1>5. pc = "idle" => t.size = Cardinality(L)
    BY <1>1, <1>2, Counts DEF Inv, Sized
<1> QED
    BY <1>2, <1>3, <1>4, <1>5 DEF LinksAgree, IsLinked

\* The heights of the two sides of a node are those the invariant has.
LEMMA Balanced == IInv => RedBlack
<1> SUFFICES ASSUME IInv, pc = "idle"  PROVE IsBalanced(t)
    BY DEF RedBlack
<1>1. PICK L, lo, hi, b : Inv(L, lo, hi, b)
    BY DEF IInv
<1>2. TypeOK /\ Contents(t) = L /\ t \in Trees /\ Knit(t, L) /\ L \subseteq Nodes
      /\ Shape(t, L, lo, hi) /\ Outside(t, L, nil)
    BY <1>1, ContentsNow, SoundNow DEF IInv, Inv
<1>3. Whole(t, L, b)
    BY <1>1 DEF Inv, Colored
<1>4. t.color[nil] = "BLACK" /\ t.color[t.root] = "BLACK"
    BY <1>3 DEF Whole, Reds, RootBlack
<1>5. ASSUME NEW n \in L  PROVE BlackHeight(t, t["left"][n]) = BlackHeight(t, t["right"][n])
    <2>1. /\ t["left"][n] \in L \cup {nil} /\ t["right"][n] \in L \cup {nil}
        BY <1>2 DEF Knit, Sides
    <2>2. /\ BlackHeight(t, t["left"][n]) = b[t["left"][n]]
          /\ BlackHeight(t, t["right"][n]) = b[t["right"][n]]
        BY <1>2, <1>3, <2>1, BlackHeightIs DEF Whole
    <2>3. b[t["left"][n]] = b[t["right"][n]]
        <3>1. \A s \in Sides : /\ b[t[s][n]] \in Nat
                              /\ b[n] = b[t[s][n]] + Black(t, n)
            BY <1>2, <1>3, HeightsEverywhere DEF Whole
        <3>2. Black(t, n) \in Nat
            BY DEF Black
        <3> QED
            BY <3>1, <3>2 DEF Sides
    <2> QED
        BY <2>2, <2>3
<1>6. ASSUME NEW n \in L, NEW side \in Sides, t.color[n] = "RED"
      PROVE  t.color[t[side][n]] = "BLACK"
    <2>1. CASE t[side][n] = nil
        BY <1>4, <2>1
    <2>2. CASE t[side][n] # nil
        <3> DEFINE c == t[side][n]
        <3>1. c \in L /\ t.parent[c] = n /\ n # nil
            BY <1>2, <2>2 DEF Shape, Fits, Knit
        <3> HIDE DEF c
        <3>2. c # nil /\ t.color[c] \in Colors
            BY <1>2, <2>2, <3>1, Typed DEF c
        <3> QED
            BY <1>3, <1>6, <3>1, <3>2 DEF Whole, Reds, Colors, c
    <2> QED
        BY <2>1, <2>2
<1> QED
    BY <1>2, <1>4, <1>5, <1>6 DEF IsBalanced

\* The lowest of a set of ids, as HashRing chooses it.
LEMMA LowestIs ==
    ASSUME NEW S \in SUBSET Ids, NEW n \in S, \A m \in S : Hash[n] <= Hash[m]
    PROVE  Ring!Lowest(S) = n
<1>1. \A k \in S : (\A m \in S : Hash[k] <= Hash[m]) => k = n
    <2> SUFFICES ASSUME NEW k \in S, \A m \in S : Hash[k] <= Hash[m]  PROVE k = n
        OBVIOUS
    <2>1. Hash[k] <= Hash[n] /\ Hash[n] <= Hash[k] /\ Hash[k] \in Nat /\ Hash[n] \in Nat
        BY Constants
    <2>2. Hash[k] = Hash[n]
        BY <2>1
    <2> QED
        BY <2>2, Constants
<1> QED
    BY <1>1 DEF Ring!Lowest

\* The node with nothing between it and the value is the one HashRing chooses.
LEMMA FoundNext == IInv => SuccIsNext
<1> SUFFICES ASSUME IInv, pc = "found",
                    \A i \in Contents(t) :
                        Hash[i] = value => \/ t.right[i] # nil
                                           \/ \A j \in Contents(t) : Hash[j] <= value
             PROVE  y = Ring!Succ(Contents(t), value)
    BY DEF SuccIsNext
<1>1. PICK L, lo, hi, b : Inv(L, lo, hi, b)
    BY DEF IInv
<1>2. Contents(t) = L /\ L \subseteq Ids
    BY <1>1, ContentsNow DEF IInv
<1>3. y \in L /\ value \in Nat /\ \A m \in L : Hash[m] \in Nat
    BY <1>1, <1>2, Constants DEF Inv, At, Finished
<1>4. IsNext(L, y)
    BY <1>1, <1>2 DEF Inv, At, Finished, LookingBack, Past
<1> DEFINE A == Ring!Above(L, value)
<1>5. A = {m \in L : Hash[m] > value}
    BY DEF Ring!Above
<1>6. CASE Past(L)
    <2>1. A = {}
        BY <1>3, <1>5, <1>6 DEF Past
    <2>2. Ring!Lowest(L) = y
        BY <1>2, <1>3, <1>4, <1>6, LowestIs DEF IsNext
    <2> QED
        BY <1>2, <2>1, <2>2 DEF Ring!Succ
<1>7. CASE ~ Past(L)
    <2>1. y \in A /\ \A m \in A : Hash[y] <= Hash[m]
        BY <1>3, <1>4, <1>5, <1>7 DEF IsNext, None
    <2>2. A \in SUBSET Ids
        BY <1>2, <1>5
    <2> HIDE DEF A
    <2>3. Ring!Lowest(A) = y
        BY <2>1, <2>2, LowestIs
    <2> QED
        BY <1>2, <2>1, <2>3 DEF Ring!Succ, A
<1> QED
    BY <1>6, <1>7

\* The ring is empty at first.
LEMMA RingInit == Init => Ring!Init
<1> SUFFICES ASSUME Init  PROVE Contents(t) = {}
    BY DEF Ring!Init
<1>1. t \in Trees /\ t.root = nil
    BY InitIInv DEF IInv, TypeOK, Init, new_rbt
<1>2. PICK L, lo, hi, b : Inv(L, lo, hi, b)
    BY InitIInv DEF IInv
<1>3. L = {}
    BY <1>1, <1>2 DEF Inv, Shape, Rooted
<1> QED
    BY <1>2, <1>3, InitIInv, ContentsNow DEF IInv

\* A step on the tree is a step on the ring, or none.
LEMMA RingStep == IInv /\ [Next]_vars => [Ring!Next]_(Contents(t))
<1> SUFFICES ASSUME IInv, [Next]_vars  PROVE Contents(t)' = Contents(t) \/ Ring!Next
    OBVIOUS
<1>1. PICK L, lo, hi, b : Inv(L, lo, hi, b)
    BY DEF IInv
<1>2. Contents(t) = L
    BY <1>1, ContentsNow DEF IInv
<1>3. PICK L2 : Becomes(L2) /\ Changes(L, L2)
    BY <1>1, NextStep DEF IInv
<1>4. PICK lo2, hi2, b2 : TypeOK' /\ Inv(L2, lo2, hi2, b2)'
    BY <1>3 DEF Becomes
<1>5. Contents(t)' = L2
    <2>1. t' \in Trees /\ Shape(t', L2, lo2, hi2) /\ \E e : Outside(t', L2, e)
        BY <1>4 DEF TypeOK, Inv
    <2>2. Contents(t') = L2
        BY <2>1, ContentsIs
    <2> QED
        BY <2>2
<1>6. CASE L2 = L
    BY <1>2, <1>5, <1>6
<1>7. CASE \E i \in Ids : i \notin L /\ L2 = L \cup {i}
    BY <1>2, <1>5, <1>7 DEF Ring!Next, Ring!insert_cache
<1>8. CASE \E i \in Ids : i \in L /\ L2 = L \ {i}
    BY <1>2, <1>5, <1>8 DEF Ring!Next, Ring!delete_entry
<1> QED
    BY <1>3, <1>6, <1>7, <1>8 DEF Changes

-----------------------------------------------------------------------------
(* The theorems.                                                          *)

(***************************************************************************)
(* The invariant of the loops holds between any two turns.                 *)
(***************************************************************************)
THEOREM Invariant == Spec => []IInv
BY InitIInv, IInvStep, PTL DEF Spec

(***************************************************************************)
(* Every pointer is to a node or nil, and size never exceeds the number of *)
(* ids there are.                                                          *)
(***************************************************************************)
THEOREM TypeCorrect == Spec => []TypeOK
<1>1. IInv => TypeOK
    BY DEF IInv
<1> QED
    BY <1>1, Invariant, PTL

(***************************************************************************)
(* The tree is ordered by the hash values between any two turns of the     *)
(* loops of rbt_insert, rbt_delete and their fixups, with any number of    *)
(* slaves at any positions.                                                *)
(***************************************************************************)
THEOREM AlwaysSearchTree == Spec => []SearchTree
BY Ordered, Invariant, PTL

(***************************************************************************)
(* So do the parent pointers agree with the child pointers; and after a    *)
(* call size is the number of nodes.                                       *)
(***************************************************************************)
THEOREM AlwaysLinksAgree == Spec => []LinksAgree
BY Agreed, Invariant, PTL

(***************************************************************************)
(* Whatever was inserted and deleted, the fixups leave a red-black tree.   *)
(***************************************************************************)
THEOREM AlwaysRedBlack == Spec => []RedBlack
BY Balanced, Invariant, PTL

(***************************************************************************)
(* Where recur_succ does not climb, succ returns the next slave on the     *)
(* ring, past the top the lowest one: for any tree, any value.             *)
(***************************************************************************)
THEOREM AlwaysSuccIsNext == Spec => []SuccIsNext
BY FoundNext, Invariant, PTL

(***************************************************************************)
(* The tree implements the ring: linking and cutting off are insert_cache  *)
(* and delete_entry of HashRing, and no other turn changes the ring.       *)
(***************************************************************************)
THEOREM EveryStepIsOfRing == Spec => RingSpec
BY RingInit, RingStep, Invariant, PTL DEF Spec, RingSpec, Ring!Spec
=============================================================================
