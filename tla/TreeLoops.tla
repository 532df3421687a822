------------------------------ MODULE TreeLoops -----------------------------
(***************************************************************************)
(* The calls of src/consistent-hash/ring/src/tree_map.c, one turn of a     *)
(* loop at a time: insert_cache (rbt_insert and its fixup), delete_entry   *)
(* (get_node_with_hv, rbt_delete and its fixup) and succ.  What holds      *)
(* between two turns is what makes the loops correct.                      *)
(***************************************************************************)
EXTENDS Tree

VARIABLES
    t,          \* chash_table
    pc,         \* the loop that is running, "idle" between two calls
    x, y, z,    \* the node pointers of these functions; suc of recur_succ is y
    value       \* the hash value looked for

vars == <<t, pc, x, y, z, value>>

\* Lookups are for the hashes of vectors, of ids, and just above a primary.
Values == Points \cup {Hash[i] : i \in Ids} \cup {Hash[i] + 1 : i \in Ids}

Init ==
    /\ t = new_rbt
    /\ pc = "idle"
    /\ x = nil /\ y = nil /\ z = nil
    /\ value = -1

Return ==
    /\ pc' = "idle"
    /\ x' = nil /\ y' = nil /\ z' = nil
    /\ value' = -1

-----------------------------------------------------------------------------
(* Insertion: one point on the ring for each slave, as                      *)
(* cptr->replication_factor is 1, and no slave twice.                       *)

insert_cache(i) ==
    /\ pc = "idle"
    /\ i \notin Contents(t)
    /\ t' = [t EXCEPT !.size = @ + 1]
    /\ pc' = "insert"
    /\ z' = i /\ x' = t.root /\ y' = nil
    /\ UNCHANGED value

InsertDescend ==
    /\ pc = "insert"
    /\ x # nil
    /\ y' = x /\ x' = t[Turn(z, x)][x]
    /\ UNCHANGED <<t, pc, z, value>>

\* Mutant of InsertLink: the fixup is left out.
InsertLinkOnly ==
    /\ pc = "insert"
    /\ x = nil
    /\ t' = Link(t, z, y)
    /\ Return

InsertLink ==
    /\ pc = "insert"
    /\ x = nil
    /\ t' = Link(t, z, y)
    /\ pc' = "insert_fixup"
    /\ UNCHANGED <<x, y, z, value>>

\* Mutant of InsertFixup: z is not turned to the outside.
InsertFixupNoTurn ==
    /\ pc = "insert_fixup"
    /\ t.color[t.parent[z]] = "RED"
    /\ LET p == t.parent[z]
           g == t.parent[p]
           side == SideOf(t, p)
           uncle == t[Other(side)][g]
       IN  IF t.color[uncle] = "RED" THEN t' = PushBlackDown(t, p, uncle, g) /\ z' = g
                                     ELSE t' = TurnOver(t, side, p, g) /\ z' = z
    /\ UNCHANGED <<pc, x, y, value>>

InsertFixup ==
    /\ pc = "insert_fixup"
    /\ t.color[t.parent[z]] = "RED"
    /\ LET round == InsertRound(t, z) IN t' = round[1] /\ z' = round[2]
    /\ UNCHANGED <<pc, x, y, value>>

InsertDone ==
    /\ pc = "insert_fixup"
    /\ t.color[t.parent[z]] = "BLACK"
    /\ t' = Paint(t, t.root, "BLACK")
    /\ Return

-----------------------------------------------------------------------------
(* Deletion of a slave that is in the tree. *)

delete_entry(i) ==
    /\ pc = "idle"
    /\ i \in Contents(t)
    /\ value' = Hash[i] /\ x' = t.root
    /\ pc' = "find"
    /\ UNCHANGED <<t, y, z>>

\* The loop of get_node_with_hv.
Find ==
    /\ pc = "find"
    /\ hv(x) # value
    /\ x' = IF hv(x) < value THEN t.right[x] ELSE t.left[x]
    /\ UNCHANGED <<t, pc, y, z, value>>

\* Mutant of Found: the node is not counted off.
FoundUncounted ==
    /\ pc = "find"
    /\ hv(x) = value
    /\ z' = x
    /\ IF t.left[x] # nil /\ t.right[x] # nil
       THEN pc' = "least" /\ y' = t.right[x]
       ELSE pc' = "cut" /\ y' = x
    /\ UNCHANGED <<t, x, value>>

\* get_node_with_hv has found it, rbt_delete begins.
Found ==
    /\ pc = "find"
    /\ hv(x) = value
    /\ z' = x
    /\ t' = [t EXCEPT !.size = @ - 1]
    /\ IF t.left[x] # nil /\ t.right[x] # nil
       THEN pc' = "least" /\ y' = t.right[x]
       ELSE pc' = "cut" /\ y' = x
    /\ UNCHANGED <<x, value>>

\* The place of a black node was given up: the fixup has to make up for it,
\* from the child on that went there.
AfterCut(tree, child) ==
    IF t.color[y] = "BLACK"
    THEN /\ t' = tree
         /\ pc' = "delete_fixup"
         /\ x' = child
         /\ UNCHANGED <<y, z, value>>
    ELSE /\ t' = free(tree, z)
         /\ Return

\* The node has one child at most.
Cut ==
    /\ pc = "cut"
    /\ LET child == OnlyChild(t, z) IN AfterCut(rbt_transplant(t, z, child), child)

\* The loop of rbt_min(t, z->right).
Least ==
    /\ pc = "least"
    /\ t.left[y] # nil
    /\ y' = t.left[y]
    /\ UNCHANGED <<t, pc, x, z, value>>

\* Mutant of CutLeast: the first node on the right is taken, least or not.
CutFirst ==
    /\ pc = "least"
    /\ AfterCut(Unlink(t, z, y), t.right[y])

CutLeast ==
    /\ pc = "least"
    /\ t.left[y] = nil
    /\ AfterCut(Unlink(t, z, y), t.right[y])

DeleteFixup ==
    /\ pc = "delete_fixup"
    /\ x # t.root /\ t.color[x] = "BLACK"
    /\ LET round == DeleteRound(t, x) IN t' = round[1] /\ x' = round[2]
    /\ UNCHANGED <<pc, y, z, value>>

DeleteDone ==
    /\ pc = "delete_fixup"
    /\ x = t.root \/ t.color[x] = "RED"
    /\ t' = free(Paint(t, x, "BLACK"), z)
    /\ Return

-----------------------------------------------------------------------------
(* succ, on a tree that is not empty. *)

succ(v) ==
    /\ pc = "idle"
    /\ t.root # nil
    /\ value' = v /\ x' = t.root
    /\ pc' = "highest"
    /\ UNCHANGED <<t, y, z>>

\* The loop of rbt_max(t, t->root).
Highest ==
    /\ pc = "highest"
    /\ t.right[x] # nil
    /\ x' = t.right[x]
    /\ UNCHANGED <<t, pc, y, z, value>>

\* Mutant of Compare: no wrap past the highest node.
CompareNever ==
    /\ pc = "highest"
    /\ t.right[x] = nil
    /\ pc' = "succ"
    /\ x' = t.root /\ y' = t.root
    /\ UNCHANGED <<t, z, value>>

Compare ==
    /\ pc = "highest"
    /\ t.right[x] = nil
    /\ pc' = IF value >= hv(x) THEN "lowest" ELSE "succ"
    /\ x' = t.root /\ y' = t.root
    /\ UNCHANGED <<t, z, value>>

\* The loops that go down to the left from y: rbt_min(t, t->root), and that
\* of recur_succ in a right subtree.
Lowest ==
    /\ pc = "lowest"
    /\ IF t.left[y] # nil THEN y' = t.left[y] /\ pc' = pc
                          ELSE y' = y /\ pc' = "found"
    /\ UNCHANGED <<t, x, z, value>>

\* A call of recur_succ that calls itself.
Recur ==
    /\ pc = "succ"
    /\ x # nil
    /\ value # hv(x)
    /\ IF hv(x) > value THEN y' = x /\ x' = t.left[x]
                        ELSE y' = y /\ x' = t.right[x]
    /\ UNCHANGED <<t, pc, z, value>>

\* A node sits at value.
AtValue ==
    /\ pc = "succ"
    /\ x # nil
    /\ value = hv(x)
    /\ IF t.right[x] = nil THEN pc' = "look_back" /\ y' = y
                           ELSE pc' = "lowest" /\ y' = t.right[x]
    /\ UNCHANGED <<t, x, z, value>>

NoneAtValue ==
    /\ pc = "succ"
    /\ x = nil
    /\ pc' = "found"
    /\ UNCHANGED <<t, x, y, z, value>>

LookBack ==
    /\ pc = "look_back"
    /\ LET up == t.parent[y]
       IN  IF up # nil /\ hv(up) < value THEN y' = up /\ pc' = pc
                                         ELSE y' = y /\ pc' = "found"
    /\ UNCHANGED <<t, x, z, value>>

ReturnFound ==
    /\ pc = "found"
    /\ Return
    /\ UNCHANGED t

-----------------------------------------------------------------------------
Insert == InsertDescend \/ InsertLink \/ InsertFixup \/ InsertDone

Delete ==
    Find \/ Found \/ Cut \/ Least \/ CutLeast \/ DeleteFixup \/ DeleteDone

Lookup ==
    \/ Highest \/ Compare \/ Lowest \/ Recur \/ AtValue \/ NoneAtValue
    \/ LookBack \/ ReturnFound

Call ==
    \/ \E i \in Ids : insert_cache(i) \/ delete_entry(i)
    \/ \E v \in Values : succ(v)

Next == Call \/ Insert \/ Delete \/ Lookup

\* A call that has begun goes on: the master does nothing else meanwhile.
Spec == Init /\ [][Next]_vars /\ WF_vars(Insert \/ Delete \/ Lookup)

-----------------------------------------------------------------------------
TypeOK ==
    /\ t \in Trees
    /\ t.size <= Cardinality(Ids)
    /\ pc \in {"idle", "insert", "insert_fixup", "find", "least", "cut",
               "delete_fixup", "highest", "lowest", "succ", "look_back", "found"}
    /\ x \in Nodes /\ y \in Nodes /\ z \in Nodes
    /\ value \in Int

(***************************************************************************)
(* The tree is a search tree on the hash values (bst_test in               *)
(* tree_map_test.c), also between two rotations and after a cut: every     *)
(* descent turns the right way at every node.                              *)
(***************************************************************************)
SearchTree == IsOrdered(t)

(***************************************************************************)
(* The parent pointers, which the fixups and recur_succ climb, invert the  *)
(* child pointers after every assignment that the loops make; between two  *)
(* calls, size counts the nodes.                                           *)
(***************************************************************************)
LinksAgree ==
    /\ IsLinked(t)
    /\ pc = "idle" => t.size = Cardinality(Contents(t))

(***************************************************************************)
(* Whatever the sequence of insertions and deletions, when a call returns  *)
(* the fixups have restored the balance of the tree: no red node has a red *)
(* child, the root and nil are black, and all paths down carry the same    *)
(* number of black nodes.                                                  *)
(***************************************************************************)
RedBlack == pc = "idle" => IsBalanced(t)

(***************************************************************************)
(* Insertions and deletions put on the ring, and take off it, the id they  *)
(* are asked to and lose or revive no other, in the one step that links it *)
(* or cuts it off; no rotation changes what is in the tree.                *)
(***************************************************************************)
Ring == INSTANCE HashRing WITH ring <- Contents(t)

RingSpec == Ring!Spec

(***************************************************************************)
(* The node that succ returns is the next slave on the ring, past the top  *)
(* the lowest one: for a position at which there is no slave, or the       *)
(* highest one, or one with a right subtree.  For the others, LookBack may *)
(* climb too far.                                                          *)
(***************************************************************************)
SuccIsNext ==
    /\ pc = "found"
    /\ \A i \in Contents(t) :
            Hash[i] = value =>
                \/ t.right[i] # nil
                \/ \A j \in Contents(t) : Hash[j] <= value
    => y = Ring!Succ(Contents(t), value)

(***************************************************************************)
(* Every loop ends, the fixups' climb to the root included: insert_cache,  *)
(* delete_entry and succ return.                                           *)
(***************************************************************************)
CallsReturn == pc # "idle" ~> pc = "idle"
=============================================================================
