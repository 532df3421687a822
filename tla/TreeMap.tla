------------------------------ MODULE TreeMap -------------------------------
(***************************************************************************)
(* src/consistent-hash/ring/src/tree_map.c with every call as one step:    *)
(* the loops whose turns are in Tree run to their ends, and the lookups    *)
(* are functions of the tree.  The master calls the tree like this         *)
(* (ClusterTree), and TreeLoops has the same calls turn by turn.           *)
(***************************************************************************)
EXTENDS Tree

RECURSIVE rbt_min(_, _), rbt_max(_, _)

rbt_min(tree, x) ==
    IF tree.left[x] = nil THEN x ELSE rbt_min(tree, tree.left[x])
rbt_max(tree, x) ==
    IF tree.right[x] = nil THEN x ELSE rbt_max(tree, tree.right[x])

-----------------------------------------------------------------------------
(* Insertion and deletion. *)

RECURSIVE rbt_insert_fixup(_, _)
rbt_insert_fixup(tree, z) ==
    IF tree.color[tree.parent[z]] = "BLACK"
    THEN Paint(tree, tree.root, "BLACK")
    ELSE LET round == InsertRound(tree, z)
         IN  rbt_insert_fixup(round[1], round[2])

RECURSIVE LeafFor(_, _, _, _)
LeafFor(tree, z, x, y) ==
    IF x = nil THEN y ELSE LeafFor(tree, z, tree[Turn(z, x)][x], x)

rbt_insert(tree, z) ==
    LET counted == [tree EXCEPT !.size = @ + 1]
    IN  rbt_insert_fixup(Link(counted, z, LeafFor(tree, z, tree.root, nil)), z)

RECURSIVE rbt_delete_fixup(_, _)
rbt_delete_fixup(tree, x) ==
    IF x = tree.root \/ tree.color[x] = "RED"
    THEN Paint(tree, x, "BLACK")
    ELSE LET round == DeleteRound(tree, x)
         IN  rbt_delete_fixup(round[1], round[2])

rbt_delete(tree, z) ==
    LET two == tree.left[z] # nil /\ tree.right[z] # nil
        y == IF two THEN rbt_min(tree, tree.right[z]) ELSE z
        x == IF two THEN tree.right[y] ELSE OnlyChild(tree, z)
        cut == IF two THEN Unlink(tree, z, y) ELSE rbt_transplant(tree, z, x)
        done == IF tree.color[y] = "BLACK" THEN rbt_delete_fixup(cut, x)
                                           ELSE cut
    IN  free([done EXCEPT !.size = @ - 1], z)

-----------------------------------------------------------------------------
(* Lookups. *)

RECURSIVE LookBack(_, _, _), recur_succ(_, _, _, _)

\* pred's first loop: the node at value, and the last node it went right of.
Descend(tree, n, value) ==
    LET D[m \in Nodes, pr \in Nodes] ==
            IF hv(m) = value THEN <<m, pr>>
            ELSE IF value > hv(m) THEN D[tree.right[m], m]
            ELSE D[tree.left[m], pr]
    IN  D[n, nil]

pred(tree, value) ==
    LET found == Descend(tree, tree.root, value)
        n == found[1]
        pr == found[2]
    IN  IF n = rbt_min(tree, tree.root) THEN rbt_max(tree, tree.root)
        ELSE IF pr = nil THEN rbt_max(tree, tree.left[n])
        ELSE pr

\* "if right is nil, look back": up from suc while the parent is lower.
LookBack(tree, suc, value) ==
    LET up == tree.parent[suc]
    IN  IF up # nil /\ hv(up) < value THEN LookBack(tree, up, value) ELSE suc

recur_succ(tree, n, suc, value) ==
    IF n = nil THEN suc
    ELSE IF value = hv(n)
    THEN IF tree.right[n] = nil THEN LookBack(tree, suc, value)
                                ELSE rbt_min(tree, tree.right[n])
    ELSE IF hv(n) > value THEN recur_succ(tree, tree.left[n], n, value)
    ELSE recur_succ(tree, tree.right[n], suc, value)

\* Mutant of succ: no wrap past the highest node.
SuccNoWrap(tree, value) == recur_succ(tree, tree.root, tree.root, value)

succ(tree, value) ==
    IF value >= hv(rbt_max(tree, tree.root)) THEN rbt_min(tree, tree.root)
    ELSE recur_succ(tree, tree.root, tree.root, value)

ring_get_machines_for_vector(tree, h) ==
    LET primary == succ(tree, h)
    IN  <<primary, succ(tree, hv(primary) + 1)>>

\* Mutant of ring_get_succ_id: off by one, it finds i itself.
SuccIdTooLow(tree, i) == succ(tree, hv(i) - 1)

ring_get_succ_id(tree, i) == succ(tree, hv(i))

ring_get_pred_id(tree, i) == pred(tree, hv(i))
=============================================================================
