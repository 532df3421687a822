---------------------------- MODULE ClusterTree -----------------------------
(***************************************************************************)
(* The master over the red-black tree: Cluster.tla with the tree of        *)
(* TreeMap.tla in the place of the set of ids on the ring.  chash_table is *)
(* filled at startup in the order of the ids and loses the slaves that     *)
(* die.  reallocate (src/master/master.c) asks it for the neighbours of a  *)
(* dead slave while that slave is still in it, puts and range queries ask  *)
(* it for the machines of a vector.  Everything else the master and the    *)
(* slaves do is as in Cluster.                                             *)
(***************************************************************************)
EXTENDS Integers, Sequences, FiniteSets, Functions, SequencesExt

CONSTANTS Slaves, Slow, Vecs, HashBound, Hash, VecHash, MaxPuts, MaxCrashes

VARIABLES
    alive, store, crashes, pc, resume, unpinged, slavelist, num_slaves,
    replication_factor, dead_slave, list, detached, succ, copies, puts, vec,
    targets, stray, committed,      \* as in Cluster
    t                               \* chash_table

Tree == INSTANCE TreeMap WITH Ids <- Slaves, Points <- Range(VecHash)

C == INSTANCE Cluster WITH ring <- Tree!Contents(t)

vars ==
    <<alive, store, crashes, pc, resume, unpinged, slavelist, num_slaves,
      replication_factor, dead_slave, list, detached, succ, copies, puts, vec,
      targets, stray, committed, t>>

\* main() inserts the slaves as they come on slavelist.
FillRing == FoldLeft(Tree!rbt_insert, Tree!new_rbt, SetToSortSeq(Slaves, <))

Init == C!SetUp /\ t = FillRing

TreeSuccId(s) == Tree!ring_get_succ_id(t, s)

reallocate ==
    /\ pc = "reallocate"
    /\ LET succ_id == TreeSuccId(dead_slave)
       IN  C!Reallocate(Tree!ring_get_pred_id(t, dead_slave), succ_id,
                        TreeSuccId(succ_id))

TreeMachines(v) == Tree!ring_get_machines_for_vector(t, VecHash[v])

Put(v) == C!PutOn(v, TreeMachines(v)[1], TreeMachines(v)[2])

RangeQuery(lo, hi) ==
    /\ pc \in {"serve", "query"}
    /\ \E at \in C!Assignments(lo, hi) :
          /\ \A v \in DOMAIN at : at[v] \in C!Asked(TreeMachines(v))
          /\ C!Ask(at)

\* Mutant of TreeWithout: the right subtree of a node with two children is
\* lost.
TreeWithoutRight(s) ==
    Tree!rbt_delete([t EXCEPT !.right[s] = IF t.left[s] = Tree!nil THEN @ ELSE Tree!nil], s)

TreeWithout(s) == Tree!rbt_delete(t, s)     \* delete_entry

JoinLists ==
    /\ pc = "copy"
    /\ copies = <<>>
    /\ IF list[dead_slave] = <<>>
       THEN pc' = "segv_join" /\ UNCHANGED <<detached, t>>
       ELSE /\ pc' = "ping"
            /\ detached' = [detached EXCEPT ![succ] = TRUE]
            /\ t' = TreeWithout(dead_slave)
    /\ UNCHANGED <<alive, store, crashes, resume, unpinged, slavelist, num_slaves,
                   replication_factor, dead_slave, list, succ, copies, puts, vec,
                   targets, stray, committed>>

\* The steps that neither ask the tree nor change it.
Others ==
    \/ C!heartbeat \/ C!LeaveHeartbeat \/ C!Connected \/ C!Answered
    \/ C!Unanswered \/ C!remove_slave \/ C!ConnectSource \/ C!SendVector
    \/ C!SendFails \/ C!Idle \/ C!VotesCommit \/ C!VotesAbort
    \/ (\E s \in Slaves : C!Push(s)) \/ C!Committed \/ C!QueryDone
    \/ \E s \in Slaves : C!Crash(s)

Next ==
    \/ JoinLists
    \/ /\ t' = t
       /\ \/ reallocate
          \/ \E v \in Vecs : Put(v)
          \/ \E lo, hi \in Vecs : lo <= hi /\ RangeQuery(lo, hi)
          \/ Others

Spec == Init /\ [][Next]_vars

-----------------------------------------------------------------------------
(***************************************************************************)
(* Over any history of deaths, the tree is a correct ring for the master:  *)
(* every step of it is a step of Cluster on the set of the ids in the      *)
(* tree.  With three slaves or less the copies of reallocate, the puts and *)
(* the queries go where the ring says, also for a vector with the number   *)
(* of a slave.  With four the tree gives ids that Cluster allows for, and  *)
(* still loses no slave.  So Cluster's type invariant, MembershipAgrees    *)
(* and, up to three slaves, its other invariants hold here too.            *)
(***************************************************************************)
ImplementsCluster == C!Init /\ [][C!Next]_(C!vars)

(***************************************************************************)
(* master.c:282-284 of heartbeat: "perform a reallocation of the vectors   *)
(* it held to machines that don't already have them".  After one death,    *)
(* the slaves that the tree gives as the machines of a stored vector have  *)
(* its last version unless they are dead.  With four slaves the tree may   *)
(* name a wrong neighbour of the dead one.                                 *)
(***************************************************************************)
Replicated ==
    /\ pc = "serve"
    /\ Cardinality(C!Dead) <= 1
    => \A v \in Vecs : committed[v] > 0 =>
          \A s \in Range(TreeMachines(v)) \cap alive : store[s][v] = committed[v]
=============================================================================
