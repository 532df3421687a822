------------------------------ MODULE Cluster -------------------------------
(***************************************************************************)
(* The master's loop over a cluster of slaves: heartbeat, remove_slave and *)
(* reallocate (src/master/master.c), send_vector and is_alive              *)
(* (src/master/master_tpc_vector.c), puts, range queries, and the handlers *)
(* of src/slave/slave.c that these call.                                   *)
(*                                                                         *)
(* commit_vector is taken at the grain of its two phases, and a range      *)
(* query in one step per range: TwoPhaseCommit.tla and QueryPipe.tla open  *)
(* them up.  The tree is a set of ids here, and a lookup may give any id   *)
(* that the tree could: one id up to three slaves, and from four on, where *)
(* the tree can be wrong (see Exact), any that the code does not rule out. *)
(* ClusterTree.tla is this module over the tree itself.  What happens      *)
(* before the loop is in Startup.tla.  A crash of the master is a value of *)
(* pc that names the faulting call.                                        *)
(***************************************************************************)
EXTENDS Integers, Sequences, FiniteSets, Functions

CONSTANTS
    Slaves,         \* the ids of the slaves that main() set up
    Slow,           \* those that may take longer than an RPC's timeout
    Vecs,           \* vector ids, an interval of integers
    HashBound,
    Hash,           \* Hash[s]: the position of slave s on the ring
    VecHash,        \* VecHash[v]: the position of vector v, by the same hash()
    MaxPuts,        \* bound: how many puts arrive
    MaxCrashes      \* bound: how many slaves die of themselves

VARIABLES
    alive,              \* the slave processes that run
    store,              \* store[s][v]: which put wrote v_<v>.dat on s
    crashes,            \* how many slaves died of themselves
    pc,                 \* where the master is
    resume,             \* where the master goes when heartbeat() returns
    unpinged,           \* the slaves heartbeat() has yet to ask
    slavelist, num_slaves, replication_factor, dead_slave,
    ring,               \* the ids in chash_table
    list,               \* list[s]: the vectors from primary_vector_head on
    detached,           \* detached[s]: primary_vector_tail is not on list[s]
    succ,               \* reallocate's local
    copies,             \* the <<source, vector, destination>> yet to send
    puts,               \* how many puts arrived: the version of the last
    vec,                \* the vector being put
    targets,            \* the slaves it is voted on by, then pushed to
    stray,              \* an earlier put failed, its vote threads may run on
    committed           \* history: the version commit_vector last returned 0 for

Ring == INSTANCE HashRing WITH Ids <- Slaves, Points <- Range(VecHash)

NoSlave == -1       \* a pointer that points to no slave

ASSUME ClusterAssumption ==
    /\ IsFiniteSet(Slaves)
    /\ HashBound \in Nat
    /\ Hash \in [Slaves -> 0..HashBound]
    /\ \A s, q \in Slaves : s # q => Hash[q] \notin {Hash[s], Hash[s] + 1}
    /\ VecHash \in [Vecs -> 0..HashBound]
    /\ \A s \in Slaves \cap Vecs : VecHash[s] = Hash[s]
    /\ Slaves \subseteq Nat
    /\ Slaves # {}
    /\ Slow \subseteq Slaves
    /\ Vecs \subseteq Nat
    /\ MaxPuts \in Nat
    /\ MaxCrashes \in Nat

slaveVars == <<alive, store, crashes>>
beatVars  == <<resume, unpinged>>
nodeVars  == <<slavelist, num_slaves, replication_factor, dead_slave, ring>>
moveVars  == <<succ, copies>>
putVars   == <<puts, vec, targets, stray, committed>>
vars == <<slaveVars, pc, beatVars, nodeVars, list, detached, moveVars, putVars>>

\* What a slave holds under v_<v>.dat: no file, a file without a vector, or
\* the vector some put brought.
Absent == -1
Empty  == 0
Versions == 1..MaxPuts

\* The faults that end the master: is_alive, send_vector (without a reply, or
\* with a late one), the list join of reallocate, get_machines_for_vector,
\* init_coordinator_thread.
Segfaults == {"segv_ping", "segv_copy", "segv_late", "segv_join", "segv_list",
              "segv_query"}

Down == pc \in Segfaults

TypeOK ==
    /\ alive \subseteq Slaves
    /\ store \in [Slaves -> [Vecs -> {Absent, Empty} \cup Versions]]
    /\ crashes \in 0..MaxCrashes
    /\ pc \in {"loop", "ping", "pong", "reallocate", "copy", "send", "serve",
               "vote", "push", "query"} \cup Segfaults
    /\ resume \in {"loop", "serve"}
    /\ unpinged \subseteq slavelist
    /\ slavelist \subseteq Slaves
    /\ num_slaves \in 0..Cardinality(Slaves)
    /\ replication_factor \in {1, 2}
    /\ dead_slave \in Slaves \cup {NoSlave}
    /\ ring \subseteq Slaves
    /\ list \in [Slaves -> Seq(Vecs)]
    /\ detached \in [Slaves -> BOOLEAN]
    /\ succ \in Slaves \cup {NoSlave}
    /\ copies \in Seq(Slaves \X Vecs \X (Slaves \cup {NoSlave}))
    /\ puts \in 0..MaxPuts
    /\ vec \in Vecs \cup {-1}
    /\ targets \subseteq Slaves
    /\ stray \in BOOLEAN
    /\ committed \in [Vecs -> 0..MaxPuts]

\* main() has set up every slave.
SetUp ==
    /\ alive = Slaves
    /\ store = [s \in Slaves |-> [v \in Vecs |-> Absent]]
    /\ crashes = 0
    /\ pc = "loop"
    /\ resume = "serve"
    /\ unpinged = {}
    /\ slavelist = Slaves
    /\ num_slaves = Cardinality(Slaves)
    /\ replication_factor = IF num_slaves = 1 THEN 1 ELSE 2
    /\ dead_slave = NoSlave
    /\ list = [s \in Slaves |-> <<>>]
    /\ detached = [s \in Slaves |-> FALSE]
    /\ succ = NoSlave
    /\ copies = <<>>
    /\ puts = 0
    /\ vec = -1
    /\ targets = {}
    /\ stray = FALSE
    /\ committed = [v \in Vecs |-> 0]

\* The slaves are on the ring.
Init == SetUp /\ ring = Slaves

-----------------------------------------------------------------------------
(* heartbeat *)

\* The list is in the order of the ids.
next_slave == CHOOSE s \in unpinged : \A q \in unpinged : s <= q

\* Mutant of EnterHeartbeat: it walks slave_addresses, not slavelist.
BeatAllEver(then) ==
    /\ pc' = "ping"
    /\ resume' = then
    /\ unpinged' = Slaves

\* Mutant of EnterHeartbeat: it stops before the last node of slavelist.
BeatAllButLast(then) ==
    /\ pc' = "ping"
    /\ resume' = then
    /\ unpinged' = {s \in slavelist : \E q \in slavelist : s < q}

EnterHeartbeat(then) ==
    /\ pc' = "ping"
    /\ resume' = then
    /\ unpinged' = slavelist

heartbeat ==
    /\ pc = "loop"
    /\ EnterHeartbeat("serve")
    /\ UNCHANGED <<slaveVars, nodeVars, list, detached, moveVars, putVars>>

LeaveHeartbeat ==
    /\ pc = "ping"
    /\ unpinged = {}
    /\ pc' = resume
    /\ UNCHANGED <<slaveVars, beatVars, nodeVars, list, detached, moveVars, putVars>>

\* is_alive connected to the slave
Connected ==
    /\ pc = "ping"
    /\ unpinged # {}
    /\ next_slave \in alive
    /\ pc' = "pong"
    /\ UNCHANGED <<slaveVars, beatVars, nodeVars, list, detached, moveVars, putVars>>

Answered ==
    /\ pc = "pong"
    /\ next_slave \in alive
    /\ pc' = "ping"
    /\ unpinged' = unpinged \ {next_slave}
    /\ UNCHANGED <<slaveVars, resume, nodeVars, list, detached, moveVars, putVars>>

\* stayin_alive_1 returns NULL, and is_alive reads *res.
Unanswered ==
    /\ pc = "pong"
    /\ next_slave \notin alive \/ next_slave \in Slow
    /\ pc' = "segv_ping"
    /\ UNCHANGED <<slaveVars, beatVars, nodeVars, list, detached, moveVars, putVars>>

\* is_alive could not connect.  Without slaves heartbeat returns at once and
\* leaves the ring as it is.
remove_slave ==
    /\ pc = "ping"
    /\ unpinged # {}
    /\ next_slave \notin alive
    /\ slavelist' = slavelist \ {next_slave}
    /\ dead_slave' = next_slave
    /\ num_slaves' = num_slaves - 1
    /\ replication_factor' = IF num_slaves' = 1 THEN 1 ELSE replication_factor
    /\ unpinged' = unpinged \ {next_slave}
    /\ pc' = IF num_slaves' = 0 THEN resume ELSE "reallocate"
    /\ UNCHANGED <<slaveVars, resume, ring, list, detached, moveVars, putVars>>

-----------------------------------------------------------------------------
(***************************************************************************)
(* Lookups of chash_table.  The tree answers as the ring does if it holds  *)
(* three slaves or less, or if the position is not that of a slave in it.  *)
(* At a slave's position recur_succ may look back too far, and pred misses *)
(* a left subtree; neither gives the slave itself, nor one that is not in  *)
(* the tree.                                                               *)
(***************************************************************************)
Exact(h) == Cardinality(ring) <= 3 \/ \A s \in ring : Hash[s] # h

NotAt(h) == {s \in ring : Hash[s] # h}

SuccAt(h) == IF Exact(h) THEN {Ring!Succ(ring, h)} ELSE NotAt(h)

PredAt(h) == IF Exact(h) THEN {Ring!Pred(ring, h)} ELSE NotAt(h)

\* Mutant of Backup: it searches from just below the primary.
BackupTooLow(p) == Ring!Succ(ring, Hash[p] - 1)

\* No slave is at the position above that of p.
Backup(p) == Ring!Succ(ring, Hash[p] + 1)

\* The primary and the backup of v, ring_get_machines_for_vector.
Machines(v) == {<<p, Backup(p)>> : p \in SuccAt(VecHash[v])}

-----------------------------------------------------------------------------
(* reallocate *)

\* Mutant of Found: the search stops before the last node of slavelist.
FoundButLast(id) ==
    IF id \in slavelist /\ \E q \in slavelist : id < q
    THEN {id} ELSE Slaves \cup {NoSlave}

\* What the search of slavelist leaves in a local for a ring id: the slave,
\* or what was on the stack if the id is not listed.
Found(id) == IF id \in slavelist THEN {id} ELSE Slaves \cup {NoSlave}

\* Mutant of Sends: the loop stops at the node whose next is NULL.
SendsButLast(src, vecs, dst) ==
    [k \in 1..(Len(vecs) - 1) |-> <<src, vecs[k], dst>>]

Sends(src, vecs, dst) == [k \in DOMAIN vecs |-> <<src, vecs[k], dst>>]

\* What reallocate does once the tree has named the neighbours.
Reallocate(pred_id, succ_id, sucsuc_id) ==
    /\ \E sucsuc \in Found(sucsuc_id) :
          copies' = (IF pred_id = succ_id THEN <<>>
                     ELSE Sends(pred_id, list[pred_id], succ_id))
                    \o Sends(succ_id, list[dead_slave], sucsuc)
    /\ succ' = succ_id
    /\ pc' = "copy"
    /\ UNCHANGED <<slaveVars, beatVars, nodeVars, list, detached, putVars>>

reallocate ==
    /\ pc = "reallocate"
    /\ \E pred_id \in PredAt(Hash[dead_slave]), succ_id \in SuccAt(Hash[dead_slave]) :
          \E sucsuc_id \in SuccAt(Hash[succ_id]) :
              Reallocate(pred_id, succ_id, sucsuc_id)

\* send_vector connects to the source, and goes on without it if it cannot.
ConnectSource ==
    /\ pc = "copy"
    /\ copies # <<>>
    /\ IF Head(copies)[1] \in alive
       THEN pc' = "send" /\ copies' = copies
       ELSE pc' = "copy" /\ copies' = Tail(copies)
    /\ UNCHANGED <<slaveVars, beatVars, nodeVars, list, detached, succ, putVars>>

\* send_vec: a source that has no such file sends a vector of length 0.
SendVector ==
    /\ pc = "send"
    /\ LET src == Head(copies)[1]
           v   == Head(copies)[2]
           dst == Head(copies)[3]
       IN  /\ src \in alive
           /\ dst \in alive \ {src}
           /\ store' = [store EXCEPT ![dst][v] =
                            IF store[src][v] = Absent THEN Empty ELSE store[src][v]]
           /\ \/ pc' = "copy"
              \/ {src, dst} \cap Slow # {} /\ pc' = "segv_late"
    /\ copies' = Tail(copies)
    /\ UNCHANGED <<alive, crashes, beatVars, nodeVars, list, detached, succ, putVars>>

\* The master reads *res of a NULL reply, or the address of no slave.  A
\* source that cannot reach the destination, or is it, dies of such a read.
SendFails ==
    /\ pc = "send"
    /\ LET src == Head(copies)[1]
           dst == Head(copies)[3]
       IN  /\ src \notin alive \/ dst \notin alive \/ src = dst
           /\ alive' = IF dst = NoSlave THEN alive ELSE alive \ {src}
    /\ pc' = "segv_copy"
    /\ UNCHANGED <<store, crashes, beatVars, nodeVars, list, detached, moveVars, putVars>>

\* Mutant of delete_entry: the dead slave stays on the ring.
KeepEntry(s) == ring' = ring

delete_entry(s) == ring' = ring \ {s}

\* "join dead node's linked list with the successor", and delete_entry.  The
\* dead slave's head is read unconditionally.  The successor's tail is moved
\* to the dead slave's last node, which its own nodes do not lead to.
JoinLists ==
    /\ pc = "copy"
    /\ copies = <<>>
    /\ IF list[dead_slave] = <<>>
       THEN /\ pc' = "segv_join"
            /\ UNCHANGED <<detached, ring>>
       ELSE /\ pc' = "ping"
            /\ detached' = [detached EXCEPT ![succ] = TRUE]
            /\ delete_entry(dead_slave)
    /\ UNCHANGED <<slaveVars, beatVars, slavelist, num_slaves,
                   replication_factor, dead_slave, list, moveVars, putVars>>

-----------------------------------------------------------------------------
(* A request off the queue, or none. *)

Idle ==
    /\ pc = "serve"
    /\ pc' = "loop"
    /\ UNCHANGED <<slaveVars, beatVars, nodeVars, list, detached, moveVars, putVars>>

\* get_machines_for_vector(v, true): v goes behind the tail of its primary's
\* list, which may no longer be the end of what the head leads to.
PutOn(v, p, b) ==
    /\ pc = "serve"
    /\ puts < MaxPuts
    /\ IF p \notin slavelist
       THEN /\ pc' = "segv_list"
            /\ UNCHANGED <<list, detached, puts, vec, targets>>
       ELSE /\ pc' = "vote"
            /\ list' = [list EXCEPT ![p] =
                   IF @ # <<>> /\ detached[p] THEN @ ELSE Append(@, v)]
            /\ detached' = [detached EXCEPT ![p] = @ /\ list[p] # <<>>]
            /\ puts' = puts + 1
            /\ vec' = v
            /\ targets' = IF replication_factor = 1 THEN {p} ELSE {p, b}
    /\ UNCHANGED <<slaveVars, beatVars, nodeVars, moveVars, stray, committed>>

Put(v) == \E m \in Machines(v) : PutOn(v, m[1], m[2])

\* commit_vector, phase 1: every slave votes to commit.
VotesCommit ==
    /\ pc = "vote"
    /\ targets \subseteq alive
    /\ pc' = "push"
    /\ UNCHANGED <<slaveVars, beatVars, nodeVars, list, detached, moveVars, putVars>>

\* A vote is missing, or threads of an earlier put spoil the count: main
\* calls heartbeat and forgets the put.
VotesAbort ==
    /\ pc = "vote"
    /\ stray \/ targets \cap Slow # {} \/ ~ (targets \subseteq alive)
    /\ EnterHeartbeat("loop")
    /\ stray' = TRUE
    /\ targets' = {}
    /\ UNCHANGED <<slaveVars, nodeVars, list, detached, moveVars, puts, vec, committed>>

\* Phase 2, one thread per slave; a thread that cannot connect just ends.
Push(s) ==
    /\ pc = "push"
    /\ s \in targets
    /\ store' = IF s \in alive THEN [store EXCEPT ![s][vec] = puts] ELSE store
    /\ targets' = targets \ {s}
    /\ UNCHANGED <<alive, crashes, pc, beatVars, nodeVars, list, detached,
                   moveVars, puts, vec, stray, committed>>

Committed ==
    /\ pc = "push"
    /\ targets = {}
    /\ committed' = [committed EXCEPT ![vec] = puts]
    /\ pc' = "loop"
    /\ UNCHANGED <<slaveVars, beatVars, nodeVars, list, detached, moveVars,
                   puts, vec, targets, stray>>

-----------------------------------------------------------------------------
(***************************************************************************)
(* A range query asks, for each range, one machine per vector: the backups *)
(* for the first range, the primaries for the second (queries here have    *)
(* one or two).  The machines form a chain in the order of their ids.  The *)
(* result goes nowhere: init_range_query returns 0 whatever happened.      *)
(***************************************************************************)
VecsAt(at, m) == {v \in DOMAIN at : at[v] = m}

Coordinator(at) == CHOOSE m \in Range(at) : \A n \in Range(at) : m <= n

Reads(at, m) == m \in alive /\ \A v \in VecsAt(at, m) : store[m][v] # Absent

\* rq_pipe reads the vectors of m, finds the next machine down, and, if it
\* had one vector to read, goes on with a NULL result.
DiesInPipe(at, m) ==
    \E n \in Range(at) \ alive :
        /\ m < n
        /\ \A k \in Range(at) : k < n => k <= m /\ Reads(at, k)
        /\ Cardinality(VecsAt(at, m)) = 1

\* The slaves get_machines_for_vector(v, false) and the flip of starfish may
\* give for the machines m; the tuple has no second slave when
\* replication_factor is 1.
Asked(m) ==
    IF slavelist = {} \/ (pc = "serve" /\ replication_factor = 1)
    THEN Slaves \cup {NoSlave}
    ELSE {m[IF pc = "serve" THEN 2 ELSE 1]}

Assignments(lo, hi) ==
    [{v \in Vecs : lo <= v /\ v <= hi} -> Slaves \cup {NoSlave}]

\* One range, when at[v] is asked for v.
Ask(at) ==
    /\ IF NoSlave \in Range(at) \/ Coordinator(at) \notin alive
       THEN /\ pc' = "segv_query"
            /\ alive' = alive
       ELSE /\ pc' = IF pc = "serve" THEN "query" ELSE "loop"
            /\ alive' = {m \in alive : m \in Range(at) => ~ DiesInPipe(at, m)}
    /\ UNCHANGED <<store, crashes, beatVars, nodeVars, list, detached, moveVars, putVars>>

RangeQuery(lo, hi) ==
    /\ pc \in {"serve", "query"}
    /\ \E at \in Assignments(lo, hi) :
          /\ \A v \in DOMAIN at : \E m \in Machines(v) : at[v] \in Asked(m)
          /\ Ask(at)

\* The query had one range.
QueryDone ==
    /\ pc = "query"
    /\ pc' = "loop"
    /\ UNCHANGED <<slaveVars, beatVars, nodeVars, list, detached, moveVars, putVars>>

-----------------------------------------------------------------------------
Master ==
    \/ heartbeat \/ LeaveHeartbeat \/ Connected \/ Answered \/ Unanswered
    \/ remove_slave \/ reallocate \/ ConnectSource \/ SendVector \/ SendFails
    \/ JoinLists \/ Idle \/ VotesCommit \/ VotesAbort
    \/ (\E s \in Slaves : Push(s)) \/ Committed \/ QueryDone

Request ==
    \/ \E v \in Vecs : Put(v)
    \/ \E lo, hi \in Vecs : lo <= hi /\ RangeQuery(lo, hi)

\* A slave process dies.  Nothing restarts it.
Crash(s) ==
    /\ s \in alive
    /\ crashes < MaxCrashes
    /\ alive' = alive \ {s}
    /\ crashes' = crashes + 1
    /\ UNCHANGED <<store, pc, beatVars, nodeVars, list, detached, moveVars, putVars>>

Next == Master \/ Request \/ \E s \in Slaves : Crash(s)

(***************************************************************************)
(* The master's thread runs, and its calls return: every RPC has a         *)
(* timeout.  Requests and crashes need not happen.                         *)
(***************************************************************************)
Spec == Init /\ [][Next]_vars /\ WF_vars(Master)

-----------------------------------------------------------------------------
(***************************************************************************)
(* The three places that say which slaves are in the cluster agree: the    *)
(* linked list, its length and the ring, which keeps a removed slave until *)
(* the end of its reallocation (or for good if it was the last one).  No   *)
(* slave that runs is ever taken off the list.                             *)
(***************************************************************************)
MembershipAgrees ==
    /\ alive \subseteq slavelist
    /\ num_slaves = Cardinality(slavelist)
    /\ replication_factor = 1 <=> num_slaves <= 1
    /\ ring = slavelist \cup
          (IF pc \in {"reallocate", "copy", "send",
                     "segv_copy", "segv_late", "segv_join"}
              \/ num_slaves = 0
           THEN {dead_slave} ELSE {})

Dead == Slaves \ alive

(***************************************************************************)
(* While no more than one slave has died, a slave that runs holds every    *)
(* vector commit_vector reported as stored, in that version or in the one  *)
(* being pushed: whatever the moment of the death, in a heartbeat, between *)
(* the phases of a put, in the middle of a query or of a push.             *)
(***************************************************************************)
OneDeathLosesNothing ==
    Cardinality(Dead) <= 1 =>
        \A v \in Vecs : committed[v] > 0 =>
            \E s \in alive : store[s][v] >= committed[v]

(***************************************************************************)
(* When a request may be served, and at most one slave has died, the       *)
(* primary and the backup of a stored vector hold its last version unless  *)
(* they are dead, on the ring as it is now: once the dead slave is off the *)
(* ring, reallocate() has copied the vectors it held, and those it backed  *)
(* up, to where they belong.                                               *)
(***************************************************************************)
Replicated ==
    /\ pc = "serve"
    /\ Cardinality(Dead) <= 1
    => \A v \in Vecs : committed[v] > 0 =>
          \A m \in Machines(v) :
              \A s \in {m[1], m[2]} \cap alive : store[s][v] = committed[v]

(***************************************************************************)
(* The copies of a reallocation bring the master down only if they are     *)
(* late, or if a second slave died before they were done: with three       *)
(* slaves, reallocate() asks nothing of the slave it reallocates.          *)
(***************************************************************************)
LoneDeathIsCopied ==
    pc = "segv_copy" => Cardinality(Dead) >= 2

(***************************************************************************)
(* A slave that died is found out and taken off the ring, or the master    *)
(* has crashed, or it has no slave left.                                   *)
(***************************************************************************)
DeadAreTakenOff ==
    \A s \in Slaves :
        (s \notin alive) ~> (s \notin ring \/ Down \/ slavelist = {})

-----------------------------------------------------------------------------
(***************************************************************************)
(* master.h:12-13: "each slave will keep a linked list of vector IDs       *)
(* indicating which vector it has", and master.c:359, "join dead node's    *)
(* linked list with the successor".  When a request may be served after    *)
(* one death, a slave has the stored vectors it is the primary of on its   *)
(* list, those it took over included: the next reallocation copies what    *)
(* the list says, and nothing else.                                        *)
(***************************************************************************)
ListsItsPrimaries ==
    pc = "serve" /\ Cardinality(Dead) = 1 =>
        \A v \in Vecs :
            committed[v] > 0 =>
                \A m \in Machines(v) : m[1] \in alive => v \in Range(list[m[1]])
=============================================================================
