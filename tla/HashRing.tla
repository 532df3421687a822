------------------------------ MODULE HashRing ------------------------------
(***************************************************************************)
(* The consistent-hashing ring the master places vectors with, as its      *)
(* callers see it: a set of cache (slave) ids, each at the position hash() *)
(* gives it, and the three questions the master asks of it.                *)
(*                                                                         *)
(* This is the abstract specification of src/consistent-hash/ring; the     *)
(* red-black tree that implements it is in Tree, TreeLoops and TreeMap.    *)
(***************************************************************************)
EXTENDS Integers, FiniteSets

CONSTANTS
    Ids,        \* the cache ids that may be put on the ring
    HashBound,  \* the largest position, 16^15 - 1 in the code
    Hash,       \* Hash[i]: the position of id i, tree_map.c's hash(i)
    Points      \* the positions lookups are asked for: the hashes of vectors

(***************************************************************************)
(* hash() is 60 bits of a SHA-1 digest.  Two ids at the same position, or  *)
(* at neighbouring ones, are assumed away: ring_get_machines_for_vector    *)
(* looks for the backup above "primary_node->hv + 1" and would step over a *)
(* node that sits exactly there.                                           *)
(***************************************************************************)
ASSUME RingAssumption ==
    /\ IsFiniteSet(Ids)
    /\ HashBound \in Nat
    /\ Hash \in [Ids -> 0..HashBound]
    /\ Points \subseteq 0..HashBound
    /\ \A i, j \in Ids : i # j => Hash[j] \notin {Hash[i], Hash[i] + 1}

VARIABLE ring   \* the ids on the ring

-----------------------------------------------------------------------------
(* Lookups. *)

Lowest(S) == CHOOSE i \in S : \A j \in S : Hash[i] <= Hash[j]

Highest(S) == CHOOSE i \in S : \A j \in S : Hash[i] >= Hash[j]

\* Mutant of Above: a node at h counts as above it.
AtOrAbove(r, h) == {i \in r : Hash[i] >= h}

Above(r, h) == {i \in r : Hash[i] > h}

Below(r, h) == {i \in r : Hash[i] < h}

\* The first node strictly above position h, the lowest one past the top.
Succ(r, h) == IF Above(r, h) # {} THEN Lowest(Above(r, h)) ELSE Lowest(r)

\* Mutant of Pred: past the bottom comes the lowest node again.
PredNoWrap(r, h) == IF Below(r, h) # {} THEN Highest(Below(r, h)) ELSE Lowest(r)

\* The last node strictly below position h, the highest one past the bottom.
Pred(r, h) == IF Below(r, h) # {} THEN Highest(Below(r, h)) ELSE Highest(r)

Primary(r, h) == Succ(r, h)

\* Mutant of Backup: it searches from just below the primary.
BackupTooLow(r, h) == Succ(r, Hash[Primary(r, h)] - 1)

Backup(r, h) == Succ(r, Hash[Primary(r, h)] + 1)

SuccId(r, i) == Succ(r, Hash[i])

PredId(r, i) == Pred(r, Hash[i])

-----------------------------------------------------------------------------
TypeOK == ring \subseteq Ids

Init == ring = {}

insert_cache(i) ==
    /\ i \notin ring
    /\ ring' = ring \cup {i}

delete_entry(i) ==
    /\ i \in ring
    /\ ring' = ring \ {i}

Next == \E i \in Ids : insert_cache(i) \/ delete_entry(i)

Spec == Init /\ [][Next]_ring

-----------------------------------------------------------------------------
(***************************************************************************)
(* With two slaves on the ring or more, the primary and the backup of a    *)
(* vector are two different slaves on the ring, wherever its hash falls    *)
(* (get_machines_for_vector's promise, master.c:380-381).                  *)
(***************************************************************************)
MachinesDiffer ==
    Cardinality(ring) >= 2 =>
        \A h \in Points : /\ Primary(ring, h) \in ring
                          /\ Backup(ring, h) \in ring
                          /\ Primary(ring, h) # Backup(ring, h)

(***************************************************************************)
(* What reallocate() relies on when it copies vectors around before it     *)
(* calls delete_entry: taking d off the ring moves the vectors of d to its *)
(* successor, with the successor's successor as their backup, gives those  *)
(* that d backed up to the successor of d, and moves no other vector.      *)
(***************************************************************************)
OnlyNeighboursMove(d) ==
    \A h \in Points :
        LET p == Primary(ring, h)
            b == Backup(ring, h)
            s == SuccId(ring, d)
        IN  /\ Primary(ring', h) = IF p = d THEN s ELSE p
            /\ Backup(ring', h)  = IF p = d THEN SuccId(ring, s)
                                   ELSE IF b = d THEN s ELSE b

\* A step that takes a node off a ring of three or more moves only the
\* vectors its neighbours hold already, or are handed by reallocate().
DeletionIsLocal ==
    [][\A d \in ring \ ring' :
            Cardinality(ring) >= 3 => OnlyNeighboursMove(d)]_ring

(***************************************************************************)
(* The vectors that d backs up are those whose primary is d's predecessor: *)
(* reallocate() looks for the vectors that lose their backup in the list   *)
(* of ring_get_pred_id(d) and nowhere else.                                *)
(***************************************************************************)
BackedUpByPredecessor ==
    \A h \in Points, d \in ring :
        Cardinality(ring) >= 2 /\ Backup(ring, h) = d
            => Primary(ring, h) = PredId(ring, d)
=============================================================================
