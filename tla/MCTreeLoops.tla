----------------------------- MODULE MCTreeLoops ----------------------------
(* Ids at the even positions from 2, in an order unlike that of the ids.   *)
(* Lookups are at 0 and at every position from the lowest id's on.  Either *)
(* a few ids come and go in any order, or main() fills the ring in the     *)
(* order of the positions, until the tree is so deep that a fixup goes for *)
(* several rounds, and a few changes follow.                               *)
EXTENDS TreeLoops

CONSTANTS
    Count,      \* how many ids there are
    Few,        \* how many of them come and go in any order
    Filled,     \* how many are inserted in the order of the positions
    MaxChanges  \* bound on the insertions and deletions that follow those

MCIds == 0..(Count - 1)
MCHash == [i \in MCIds |-> 2 * ((7 * i) % Count) + 2]
MCHashBound == 2 * Count + 2
MCPoints == {0}

VARIABLES
    due,        \* the tree that the call in progress has to return, by TreeMap
    change      \* the number of the next change; 0 when a few come and go

Whole == INSTANCE TreeMap

Due ==
    IF pc # "idle" THEN due
    ELSE IF pc' = "insert" THEN Whole!rbt_insert(t, z')
    ELSE IF pc' = "find"
    THEN Whole!rbt_delete(t, CHOOSE i \in Ids : Hash[i] = value')
    ELSE t

MayChange ==
    \/ change = 0 /\ Contents(due') \subseteq 0..(Few - 1)
    \/ change \in 1..Filled /\ pc' = "insert" /\ Hash[z'] = 2 * change
    \/ change \in (Filled + 1)..(Filled + MaxChanges)

\* Lookups may come at any time.
Bounded ==
    IF due' = due THEN UNCHANGED change
    ELSE MayChange /\ change' = IF change = 0 THEN 0 ELSE change + 1

MCInit == Init /\ due = new_rbt /\ change \in {0, 1}

MCNext == Next /\ due' = Due /\ Bounded

MCSpec ==
    /\ MCInit /\ [][MCNext]_<<vars, due, change>>
    /\ WF_vars((Insert \/ Delete \/ Lookup) /\ due' = Due /\ UNCHANGED change)

(***************************************************************************)
(* The loops of TreeLoops and the recursive operators of TreeMap are the   *)
(* same functions: a call that goes turn by turn returns the tree, or the  *)
(* node, that TreeMap gives in one step.                                   *)
(***************************************************************************)
ReturnsWhole ==
    /\ pc = "idle" => t = due
    /\ pc = "found" => y = Whole!succ(t, value)

\* A lookup exactly at the position of i climbs too far: i has no right child,
\* and the next node on the ring, from which recur_succ looks back, is the
\* right child of a node that is below i.
LooksBackTooFar(i) ==
    LET s == Ring!SuccId(Contents(t), i)
    IN  t.right[i] = nil /\ \E p \in Contents(t) : t.right[p] = s

Placed(h) ==
    Whole!ring_get_machines_for_vector(t, h) =
        <<Ring!Primary(Contents(t), h), Ring!Backup(Contents(t), h)>>

(***************************************************************************)
(* ring_get_machines_for_vector places a vector on the two slaves the ring *)
(* assigns it, "the smallest hash_value hv such that n.hv > value"         *)
(* (tree_map.c:35-37) and the next one.  Vector ids and slave ids go       *)
(* through the same hash(), so a vector with the number of a slave lies    *)
(* exactly on that slave's node.  With at most three slaves all vectors    *)
(* are placed so.  From four on, precisely those vectors are misplaced     *)
(* that have the number of a slave whose lookup looks back too far.        *)
(***************************************************************************)
VectorsPlaced ==
    pc = "idle" /\ Contents(t) # {} =>
        /\ \A h \in 0..HashBound :
              Placed(h) <=>
                  ~ \E i \in Contents(t) : Hash[i] = h /\ LooksBackTooFar(i)
        /\ Cardinality(Contents(t)) <= 3 => \A h \in 0..HashBound : Placed(h)

(***************************************************************************)
(* With at most three slaves, ring_get_succ_id and ring_get_pred_id give   *)
(* the neighbours of a slave on the ring.                                  *)
(***************************************************************************)
NeighboursUpToThree ==
    pc = "idle" /\ Cardinality(Contents(t)) <= 3 =>
        \A i \in Contents(t) :
            /\ Whole!ring_get_succ_id(t, i) = Ring!SuccId(Contents(t), i)
            /\ Whole!ring_get_pred_id(t, i) = Ring!PredId(Contents(t), i)
=============================================================================
