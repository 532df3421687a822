# A formal model of the distributed bitmap index

This directory holds TLA+ modules, TLC configurations and TLAPS proofs for the
program in `src/`: a master that spreads compressed bitmap vectors over slaves
with a consistent-hash ring, keeps two copies of each, repairs the placement
when a slave dies, and answers range queries by chains of calls from slave to
slave.

## The system

| Component | State | Operations | Talks to |
|---|---|---|---|
| DBMS front end (`dbms/dbms.c`) | queue id, the master's pid | fork the master; put, point query, range query | master, over a System V message queue (`ipc/messages.h`) |
| Master loop (`master/master.c: main`) | `slavelist`, `num_slaves`, `replication_factor`, `dead_slave`, `chash_table`, per slave the list of vectors it is primary for | take one request between two heartbeats | queue; slaves by RPC |
| Heartbeat and reallocation (`heartbeat`, `remove_slave`, `reallocate`, `is_alive`, `send_vector`) | the same | ping every slave, drop one that does not connect, have its vectors copied | slaves (`stayin_alive`, `send_vec`), ring |
| Ring (`consistent-hash/ring/src/tree_map.c`) | red-black tree of (hash, id) | insert, delete, machines for a vector, neighbours of a slave | called by the master only |
| Commit (`master_tpc_vector.c: commit_vector`) | global `successes`, `lock`; one thread per slave | vote, then push | slaves (`commit_msg`, `commit_vec`) |
| Query execution (`starfish`, `master_rq.c`, `slave.c: rq_pipe`) | none that outlives the query | plan the chain, call the first slave, each slave calls the next | slaves |
| Slave (`slave/slave.c`) | its id, the slave addresses, files `v_<id>.dat` | the handlers named above, `init_slave`, `kill_order` | other slaves for `send_vec` and `rq_pipe` |
| Startup (`master.c: main`, `util/slavelist.c`, `setup_slave`) | the file SLAVELIST, the table of addresses, the counter of ids | read the file, give out ids, link the slaves that answered, fill the ring | slaves (`init_slave`), ring |
| Centralized master (`master_cent.c`, `master_rq_cent.c`) | the global pointer `results`; one thread per range | run the queries of a file | vector files only |
| Vector files, stubs | files | read, generated | - |
| Jump hash, MST planner, experiments | - | outside the running system | - |

The master is one thread, apart from the threads of `commit_vector`. Slaves
are single-threaded RPC servers (a call that arrives while another is served
waits) that may stop at any moment and are never
restarted; RPC calls have a timeout of one second, except the pushes (the 25
seconds of rpcgen's stubs).

What is hard: threads that share a counter and outlive the call that made them;
a slave that dies between any two steps of the master (ping, vote, push, copy,
query); answers that come too late; the ring, the linked list, its length and
the replication factor being changed one after the other; vector lists that are
spliced through tail pointers; a search tree that must agree with an order on
hash values after any history of insertions and deletions.

What makes the parts correct:

* ring: primary and backup differ; removing a slave moves only what
  `reallocate` copies; the tree is a balanced search tree and answers as the
  set of ids would;
* commit: no vote is lost or counted twice, phase 2 only after all votes,
  success means that the living targets have the vector, the call returns;
* master and slaves: one death loses no vector, and after the reallocation
  both machines of every vector have it; the records of the membership agree;
  dead slaves are found;
* queries: a query ends; it succeeds only with a complete answer and fails only
  with a cause; slaves do not wait for each other in a circle, and a dead slave
  takes one other with it at most;
* session: messages arrive once and in order, the master never blocks on an
  empty queue, the queue is removed when the master is gone, and ids mean the
  same slave everywhere however the startup went;
* centralized queries: a thread's result ends in its own place.

`PROJECT.json` lists the hazards line by line.

## The modules

### HashRing: what the ring promises

The ring is a set of ids; `Hash[i]` stands for `hash(i)`, 60 bits of SHA-1, and
`Points` for the hashes of vectors. `Succ` and `Pred` are the nearest node above
and below a position, around the top; `Primary`/`Backup` are the two results of
`ring_get_machines_for_vector`, `SuccId`/`PredId` the neighbour lookups.
`RingAssumption` excludes two ids at equal or adjacent positions: two in 2^60
would collide, and the backup lookup starts at the primary's position *plus
one*, so that it steps over an id exactly there.

### Tree, TreeLoops and TreeMap: the red-black tree

`Tree` has `tree_map.c` with its parent and child pointers as functions from nodes
to nodes, `nil` included (its parent pointer is written during deletions, as in
the code), and what the functions do between two turns of a loop.
`left_rotate`/`right_rotate` and the mirrored halves of both fixups are one
operator with a side as an argument. `InsertRound` and `DeleteRound` are the bodies
of the two fixup loops; `Link` is the end of `rbt_insert`, `Unlink` the
two-children branch of `rbt_delete`; `free` resets the freed node.

`TreeLoops` is the program with its loops: one action per turn of a loop. `pc` says
which loop runs (`insert` the descent of `rbt_insert`, `find` that of
`get_node_with_hv`, `least` that of `rbt_min` in a deletion, `highest`, `succ`,
`lowest` and `look_back` those of a lookup), and `x`, `y`, `z`, `value` are the
local variables of the functions in progress. What must hold between two turns can
be stated there, and proved. `Ring == INSTANCE HashRing WITH ring <- Contents(t)`
is the refinement mapping: the nodes reachable from the root are the ring, which
changes in `InsertLink`, `Cut` and `CutLeast` alone.

`TreeMap` has the same functions as operators, recursive where the code loops, a
call in one step: this is how the master uses the tree (ClusterTree), and it adds
`pred` and the lookups of machines. `ReturnsWhole` (in MCTreeLoops) says that both
give the same tree and the same node for every call. `LookBack` and the missing
step to the left subtree in `pred` are as in the code, and wrong with four nodes or
more (below).

Vector ids and slave ids go through the same `hash()`: a vector with the number of
a slave, such as vector 1 of the repository's tests, lies exactly on that slave's
node, where `recur_succ` takes its branch for equal values. `VectorsPlaced` (in
MCTreeLoops) is about every position. Up to three slaves all vectors are placed as
HashRing says. From four on, those are misplaced, and only those, that have the
number of a slave whose lookup climbs too far (`LooksBackTooFar`).

### TwoPhaseCommit: `commit_vector`

The master's program counter goes through the statements of `commit_vector`;
`vote[<<r, s>>]` is the state of the thread that round `r` created for slave
`s`, `push[s]` that of a push thread. `successes++` is a load and a store;
`reg` is the thread's register. `pthread_mutex_init` frees the mutex whoever
holds it, `pthread_mutex_destroy` of a held mutex fails (EBUSY), locking a
destroyed one fails without an effect, and no return value is looked at: all
as glibc does it. `JoinVote` leaves at the first thread that could not connect,
as the code does, and the other threads live on into later rounds. `clean` is a
history variable: no such thread was left when the round began. `alive` and
`Crash` stand for the slave processes; `Slow` are slaves that may not answer
within `TIME_TO_VOTE`.

### Cluster: the master and its slaves

One action per step between which a slave may die: the connection and the call
of a ping, of a copy, the two phases of a put, each push. `slavelist` is the set
of listed slaves, walked in the order of their ids (`main` appends them so, and
nothing reorders them); `list[s]` is what can be reached from
`primary_vector_head`; `detached[s]` says that `primary_vector_tail` points
elsewhere, as it does after a list join. `store[s][v]` is the put whose vector
slave `s` has in `v_<v>.dat`, `Empty` for a file without a vector (`send_vec` of
a file that does not exist), `Absent` for no file. `copies` are the calls of
`send_vector` that the current `reallocate` has yet to make.

A fault of the master is a value of `pc`: `segv_ping` and `segv_late` (`*res`
of a NULL reply), `segv_copy` (the same after a slave died, or no destination),
`segv_join` (NULL head), `segv_list` (walk past the list), `segv_query` (NULL
client). A local that was not assigned (`sucsuc` on a ring of two, the second
slave of a tuple at replication factor 1) may be any slave or none. A slave
that reads through a NULL pointer dies: the source of a copy whose destination
is dead or is the source itself, and the slave of a query's chain that cannot
reach the next one after reading a single vector (after two or more,
`next_result` still holds the last one, and it survives).

Range queries ask for an interval of vectors, the backups for the first range,
the primaries for the second, and are one step per range: what they do to the
slaves and to the master, their result being thrown away by
`init_range_query`. QueryPipe has the same query call by call. Puts are taken
at the grain of the two phases; `stray` says that an earlier put failed, so
that its threads may spoil a later count, which TwoPhaseCommit shows in detail.

The tree is the set `ring` here, and a lookup gives one of the ids that the tree
may give (`SuccAt`, `PredAt`): what HashRing says if there are three slaves or less,
or if no slave is at the position looked for (`Exact`); otherwise any slave on the
ring but the one at that position. So from four slaves on Cluster allows for more
than any one tree does; that it allows for all that the tree does is
`ImplementsCluster` of ClusterTree. `Machines(v)`
are the pairs of slaves that `ring_get_machines_for_vector` may give, and vectors
with the number of a slave have its position (`ClusterAssumption`).

### ClusterTree: the master over the tree

Cluster with the tree `t` of TreeMap in the place of the set `ring`:
`C == INSTANCE Cluster WITH ring <- Tree!Contents(t)`. All that asks or changes the
tree asks this tree: `reallocate` the one that still holds the dead slave,
`Put` and `RangeQuery` for the machines of a vector; `JoinLists` deletes the dead
slave from it. Only the steps that do not touch the tree are Cluster's (`Others`).
`ImplementsCluster` is the refinement, checked with four slaves: each step is one
of Cluster. While the tree has three slaves or less this says that the master over the
tree is the master over the exact ring; with the fourth that its answers are among those
Cluster allows for. The run `FourSlaves` shows what becomes of the placement with
four: a stored vector without a copy where it belongs after a single death.

### Query and QueryPipe: a range query

`Query` is what a query promises: it succeeds, with all vectors of the last
range and only if their files exist; or fails, if a slave that was asked is
dead, slow or without a file; or brings the master down, if a coordinator is
dead. Meanwhile slaves may crash, and one that has a single vector to read may
be killed by a dead slave behind it.

`QueryPipe` is the code. `starfish` computes for each range the chain of
`<<machine, vector>>` pairs, sorted by machine. A call is `<<range, position>>`;
`inbox[m]` holds those that slave `m` has yet to take, `call[m]` and `phase[m]`
say which it serves and how far it is (`connect`, `call`, `wait`), `answer` what
each was answered with. `Own` are the vectors the loop of `rq_pipe_1_svc` reads
on the machine, `NextCall` the first pair of another machine. The master's part
asks one range after the other (`init_coordinator_thread` is called, not
spawned). `results[r]` is a pointer: to a structure of its own for a call that
failed, to the static `clnt_res` of the client stub otherwise; `Conclude` looks
through the pointers only at the end. The stub's static and its reset to zeros
are rpcgen's; the repository has the interface (`rpc/src/slave.x`) and the calls.

Timeouts. All calls have the same one, and a call gives up when it passes
(`Lost`): the process it waits for is gone, or some slave further down is slow,
or is busy with another call while this one is in its inbox. Whoever gave up
goes on; the abandoned call runs on in its slave, and its late answer reaches
nobody. A query has one behaviour here, from a cluster in which the ring has
every slave; membership changes are Cluster's.

### Startup and Dbms: a session

`Startup` is `main` up to the loop: the lines of SLAVELIST (addresses, comments,
a terminator, or no file), an id for each address, `setup_slave` and its three
outcomes (set up; not, with or without the slave having taken the id; a NULL
reply, which faults), the list that is linked on the way with a cell in advance
(`filled` tells whether the last cell got its slave), and the ring.

`Dbms` adds the process that forks the master and the queue. A DBMS sends a
`test`, blocks on a full queue, reaps and removes, or leaves before that when a
file is missing. The master's loop is `loop` (IPC_STAT, the kill of a slave),
`beat`, `receive`, `serve`; heartbeat, put and query return or take it down,
since Cluster and QueryPipe show what they do. `debug` is the compile-time
constant DEBUG, which `++qnum` depends on. A second master, `orphan`, may be in
its loop already, with messages in the queue: both are what a session that ended
early leaves. A queue that was removed makes `msgrcv` fail and leaves `buf` as
it was.

### CentralQuery: the centralized master

`main` runs its queries one after the other; `thread[<<q, r>>]` is the thread of
range `r` of query `q`. `results` is the global pointer, as the number of the
query whose array it points to; a thread reads it and writes through it in two
steps (`ReadPointer`, `WriteResult`). A query that finds a failure returns
without joining the rest. DEBUG is 1 in this program, so `Conclude` frees the
array and returns. `wild` says that a thread wrote to a freed array or past the
end of one, after which nothing is known of it.

### MC modules

`MCHashRing` (seven ids), `MCTreeLoops` (`Count` ids with scattered positions; either
`Few` of them come and go, or `Filled` are inserted in the order of their positions,
as many as make the tree deep, and `MaxChanges` changes follow; `due` is the tree that
TreeMap gives for the call, and the properties of TreeMap's operators are here),
`MCTwoPhaseCommit` (three slaves, `s3` slow), `MCCluster` and `MCClusterTree`
(`Count` slaves, on the ring in the order 0, 2, 1, the fourth between 2 and 1;
vectors between them with one primary each, and vectors with the number of a slave), `MCQueryPipe` (three slaves, queries whose
ranges overlap), `MCDbms` (slave files and tests), `MCCentralQuery` (three
workloads).

Definitions commented "Mutant of" are plausible mistakes in the code; replacing
the definition they name makes a property fail, which shows that the property
depends on it. They are used nowhere.

## The runs

| Run | Bounds | Shows |
|---|---|---|
| `HashRing.cfg` | 7 ids, 17 positions | all 128 rings: primary and backup differ, deletions are local, the predecessor holds what a node backs up |
| `TreeLoops.cfg` | 6 ids, any order of insertions, deletions and lookups; 9 ids in order and 2 more changes; turn by turn | 227 686 states: ordered, links agree, refinement of HashRing at every turn; red-black after every call; `succ` right where it does not climb; every call returns, with what TreeMap gives; every position placed as the ring says up to 3 nodes, and from 4 on all but exactly the slaves' positions at which the lookup climbs too far; neighbour lookups right up to 3 nodes |
| `TwoPhaseCommit.cfg` | 3 slaves, 2 puts, 2 crashes, one slow slave | types, unanimity, no lost vote, success means stored, the call returns |
| `StrayVote.cfg` | the same | violated: a thread of an aborted round votes in the next |
| `Cluster.cfg` | 3 slaves, one slow; 3 vectors, one with a slave's number, 3 puts, 3 deaths (and those that queries cause) | one death loses and misplaces nothing, membership agrees, dead slaves are taken off |
| `JoinLoses.cfg` | 3 slaves, 2 puts, 1 death | violated: the joined list has lost vectors |
| `ClusterTree.cfg` | 4 slaves, 3 vectors, two with a slave's number, 3 puts, 3 deaths | the master over the tree implements Cluster |
| `FourSlaves.cfg` | 4 slaves, 4 vectors, 3 puts, 1 death | violated: a vector is not replicated after one death |
| `QueryPipe.cfg` | 3 slaves, one slow; 3 queries of one or two ranges, any placement, 1 file missing, 2 deaths | refinement of Query with its liveness; no circle of waiting slaves; one more death per range at most |
| `QueryAnswer.cfg` | the same without any fault | violated: a query of two ranges has the result of the second only |
| `Dbms.cfg` | 2 addresses, a queue of 2, tests of 3 and 4 messages, 2 queries to a debugging master, an orphan and a leftover message | ids agree; delivery, count, end of the loop; what is sent is taken, the DBMS ends |
| `CentralQuery.cfg` | 3 workloads of 3 queries of 1 to 3 ranges, any files missing | results in their places, no stray write without a failed query |

Why the bounds suffice to be interesting. Six nodes give trees in which every case
of both fixups happens, on both sides, but none in which a fixup needs a second
round; the tree of nine that TreeLoops also fills is deep enough for that, in
insertions and in deletions. Two rounds are what a stray thread needs to meet a
later call, and two crashes abort one round and hit the next. Three slaves are the smallest ring on which a dead slave has a
predecessor, a successor and a successor's successor to copy between, and the
largest for which the tree's neighbour lookups are exact; three puts give every
slave a vector, or one vector three versions. ClusterTree begins with four,
the least for which lookups can be wrong, and needs three deaths to bring the tree
down to one node, through three and two, where they are exact. A chain of three machines is the
shortest with a machine that is neither first nor last, and two ranges are the
least that share slaves and the stub's static; the placement of vectors is
arbitrary there, so that machines with one vector and with several occur in
every position. A queue of two is full before the shortest test is sent. Three
queries let a thread of the first write into the array of the third. Deadlock
checking is off in the runs whose system may stop: the puts are bounded, a query
or a session ends, the master may have crashed, the DBMS may hang on a full
queue (which `DbmsReaps` names).

Fairness. TreeLoops: weak fairness of the call in progress, since the master is one
thread that does nothing else until it returns. TwoPhaseCommit: weak fairness of the
master and of each thread, since the operating system schedules them all and every
RPC ends in an answer or a timeout. Cluster: weak fairness of the master's own steps; requests and deaths
need not happen. QueryPipe: the master and each living slave, slow ones included
(slow is late, not stuck). Dbms: the DBMS, the starting master, and the loop of
each master; a blocked `msgsnd` or `msgrcv` is a step that is not enabled, and
when two masters wait, either may have the message. Under it
`CallsReturn`, `CommitReturns`, `DeadAreTakenOff`, the liveness of Query,
`SentIsTaken` and `DbmsReaps` hold. ClusterTree and CentralQuery state none: what is
said of them is about their steps only.

## Findings

* `recur_succ` looks back in the wrong direction: with four slaves or more,
  `reallocate` may copy to the wrong slave, and a stored vector is without a
  copy on its primary or backup after one death (`FourSlaves`). Vectors with the
  number of a slave can be placed on the wrong slaves by the same lookup
  (`VectorsPlaced` says which).
* An aborted `commit_vector` leaves vote threads that count in the next round
  (`StrayVote`). (`commit_msg_1` has a static result in its stub, too, which
  the vote threads share; it never holds anything but VOTE_COMMIT, zero.)
* All successful ranges of a query share one result, that of the last
  (`QueryAnswer`).
* The list join after a death leads to nothing the successor took over, so a
  second death is reallocated from an incomplete list (`JoinLoses`).

Other places where the model follows the code and the code differs from its
comments, without a run of their own:

* a late answer to a ping crashes the master (`Unanswered` of Cluster, NULL
  `*res` in `is_alive`) instead of starting a reallocation;
* the death of a slave that is nobody's primary (`JoinLists`, NULL head), or of
  one of two slaves (`reallocate`, `sucsuc` unassigned), crashes it;
* a put that failed stays on its primary's list, and a reallocation brings it
  back as an empty vector (`Put`, `VotesAbort`, `SendVector`);
* a query that reaches a dead slave can kill the slave before it (`ConnectNext`
  of QueryPipe), so that one failure becomes two; `OneDeathPerRange` shows that
  it does not become three;
* `starfish` reports success whatever happened, so that the retry at
  `master.c:168` never runs;
* the lookup of the predecessor in `tree_map.c` does not step into a left
  subtree, and errs as that of the successor does;
* the centralized master does not join the threads of a failed query
  (`master_rq_cent.c:190` says "Join each contributing thread"), so that they
  may write into a later query's array or past its end: `OwnResults` and
  `NoWildWrite` say that nothing goes wrong before a first failure;
* `kill_random_slave` is meant for one death, and is repeated in every turn of
  the loop until the next query is counted;
* a slave that could not be set up is still counted in `num_slaves`.

## The proofs

`HashRingProofs` proves the properties of HashRing for all finite sets of ids
and all positions. `NatLeast` (a nonempty set of naturals has a least element)
turns the CHOOSE of `Lowest` and `Highest` into facts; `SuccIsSucc`,
`PredIsPred` and the two uniqueness lemmas then describe the lookups without
CHOOSE (`IsSucc`, `IsPred`), and the rest is reasoning about three nodes.
`RingAssumption` is used throughout; `DeletionIsLocal` needs three members.

`TwoPhaseCommitProofs` proves type correctness and the three safety properties
for any number of slaves, rounds and crashes. The inductive invariant `IInv`
has, besides the types, nine parts: which arguments a call may have, which
threads exist and which have been joined, that in a clean round only this
round's threads run, that the lock is then held by exactly the thread between
`Lock` and `Unlock` and not destroyed under it, that `successes` is the number
of threads past their store, what the votes are after the check, and what the
push threads have written. Unanimity alone is not inductive: it follows at
the check from the exactness of the count, which rests on mutual exclusion,
which holds only in clean rounds.

`ClusterProofs` proves, for any number of slaves, vectors, puts and deaths, the
types of Cluster and that the records of the membership agree: whichever slaves the
lookups give, if the tree can give them. The inductive
invariant adds two facts to these: from `remove_slave` to `delete_entry` the
dead slave is a slave that is off the list while the ring still has it, the
cluster is not empty and `succ` is on the list (`Removed`), and a put that is
voted on has a vector and a version (`Putting`). `MembershipAgrees` alone is
not inductive: `delete_entry` makes the ring equal to the list only if the dead
slave was not on it. That the lookups of a put and of `reallocate` return slaves
of the ring comes from HashRingProofs, instantiated for the cluster's slaves
(`RP`, `Lookups`), and for inexact ones from `NotAt`; that the successor of a dead slave is another one, hence
listed, from `SuccIsAnother`. Steps that change none of these records are taken
together (`QuietSteps`), the others have a lemma each.

`CentralQueryProofs` proves the types and the three safety invariants of
CentralQuery for any workload, any missing files and any order of the threads.
Its invariant says where the global `results` points (`Pointers`), which threads
exist and which value of the global each has read (`Created`), that what was
joined has ended (`JoinedSoFar`) and what has ended has written (`Written`), and
that before the first failure only threads of the current query run, and what
they wrote stands (`Undisturbed`). `OwnResults` follows only with the last: a
thread that outlives its query reads `results` late, and writes for another.

`ReplicationProofs` extends ClusterProofs by what one death does to the vectors, for
any ring positions, vectors and puts, and for as many slaves as the tree's lookups
are exact for. The theorems assume this themselves: `AlwaysReplicated` three slaves at
most, `OneDeathNeverLoses` two or three, `LoneDeathIsAlwaysCopied` three. The last two are
false below these bounds: with one slave the death takes every vector along, and of
two the dead one is its successor's successor, is no longer on the list, and leaves
`sucsuc` unassigned. Above them the code does not do it: a misnamed neighbour gets
copies that belong elsewhere (`FourSlaves`), and Cluster allows for such neighbours.
`FewAreExact` and `FewMachines` turn the bound into exact answers. That the tree is
exact up to three slaves is what TLC checks (`VectorsPlaced`, `NeighboursUpToThree`,
`ImplementsCluster`); it is not proved. The invariant holds beside that of
ClusterProofs. `Placed` says where the stored vectors are, and is not inductive
across `delete_entry`: the slave that becomes primary or backup at that moment
must have the vector already, or the copy must be the next to be made (`Owed`).
That the copies do this rests on the lists naming the primaries' vectors
(`Listed`, true until two lists are joined, which is why one death is all that
can be promised; `JoinLoses` shows the rest) and on what was put into `copies`
(`Carried`). `Voted` covers a put that a death cuts into. The lemmas about the
ring with and without a slave (whose primary, backup and successor change, and
to whom) come from HashRingProofs.

`DbmsProofs` proves the types and the four invariants of Dbms for a queue of any
capacity, any tests, files and leftovers. The parts of the invariant are: the
slaves set up so far have the ids given so far (`Numbered`); the queue exists
from `msgget` until the DBMS has removed it, and it removes it only when its
master is gone (`Ordered`); the count of IPC_STAT is no more than what the queue
holds while no orphan reads it (`Trusted`); `qnum` is the number of range
queries taken, but for the one being served (`Tallied`). `CountIsTrue` alone is
not inductive, since between the count and `msgrcv` lie a kill and a heartbeat;
`StopsAfterItsQueries` needs `DeliveredInOrder` to know what was taken.

`QueryPipeProofs` proves the types, `NoSlaveWaitsForItself`, `OneDeathPerRange`
and that every step is one of Query or none, for any number of slaves, any ring,
placement and queries, any number of missing files, slow slaves and deaths.

* The chain. `Sorted` is a CHOOSE of the ordered sequence of a range's pairs; that
  there is one is shown by ranks (`SortedPairs`: how many pairs come before),
  without induction. Every machine of a range is then one stretch of its chain
  (`OwnIndex`), and the next call goes to the next higher id (`NextProper`).
* The calls. `Held` are those a slave has, `Front` those of them it has not passed
  on. `Addressed`: a call is at the machine it is for, unanswered. `Foremost`: of a
  range, only one call is at the front; everything else of it lies before it in
  the chain, and nothing behind it has been answered. This is what makes a
  passed call new to the one it is passed to, also after timeouts.
* The answers. `Answered`: a success has read what the rest of the chain asks for,
  and all of it exists; a failure has its reason (`Trouble`). `Smooth`: while there
  is no such reason nothing is given up, hence all calls are of the range being
  asked. Without it a timeout need not have a cause: a slave could be busy with an
  abandoned call (`LateIsTrouble`).
* The deaths. A slave that falls has the front of its range, and the range is then
  `Spent`: it has no front any more, and will get none. `Deaths` counts these.

Circles are excluded by the order of the ids alone: in a group, the slave with
the highest id waits for none of it. The queries that `QueryAssumption` admits
have ranges whose end is not below their start, as the tests of the repository
have; what `starfish` does with a reversed one (its length wraps) is listed under
hazards. Each range's length is bounded by `Vecs`, and the number of ranges by
`MaxRanges`, for any value of these.

`TreeProofs` proves, for any number of ids at any distinct positions, the types, the
search order, the agreement of the links, the red-black balance, what `succ`
returns, and that every turn is a step of HashRing or none.

* The shape. The invariant has a set `L` of the nodes in the tree and an interval
  `lo[n]..hi[n]` for each, the positions that a descent arrives at `n` for
  (`Shape`): the root has all positions, each child one half of its parent's
  interval, and where there is no child there is no node of `L` in that half. This
  replaces reachability, which is recursive and which no prover here could do
  induction on; the intervals bring that down to facts about one node. A rotation
  changes the intervals of two nodes (`RotateShape`), a cut closes one
  (`CutShape`), a deletion with two children gives one to the least node on the
  right (`UnlinkShape`), a new leaf splits an empty half (`LinkShape`).
* The balance. `b[n]` is the black height of `n`, by one equation per node and side
  (`Heights`), and the shared nil has height 1. In a deletion's fixup the equation
  lacks one black node on the side of `x` (`Deleted`), in an insertion's the red `z`
  may have a red parent (`Inserted`); a round keeps that with `x` or `z` moved, or
  ends it (`InsertRoundKeeps`, `DeleteRoundKeeps`). `RedBlack` alone says nothing
  between two calls' ends, and `Heights` is why a red sibling has black children,
  why `w` is never nil, and why the last round leaves nothing lacking.
* The way back to the recursive functions. `Subtree` and `BlackHeight` are functions
  by CHOOSE; `SubtreeIs` and `BlackHeightIs` show that the intervals and `b` solve
  their equations, and that every solution agrees with them below the root, since
  the intervals shrink on the way down (`BottomUp`, from `NatLeast`). Hence
  `Contents(t) = L`.
* The loops. `At` says where each is: the position looked for lies in the interval of
  `x`; between the value and `y` there is no node but below `x`.

The assumptions are those of `TreeAssumption`: finitely many ids, no two at the same
position. `SuccIsNext` excludes the values at which `recur_succ` climbs, where the
code is wrong (`FourSlaves`).

Not provable with this prover, and left to TLC: the liveness properties (with them
the fairness of `QuerySpec`, whose steps are proved, and `CallsReturn`); and what is
about the recursive operators of TreeMap, which ClusterTree uses: `ReturnsWhole`,
`VectorsPlaced`, `NeighboursUpToThree` and `ImplementsCluster`.

## Not modelled

Compression and the words of vectors, so also the stack arrays that results
point to after their function returned (`slave.c:102`, `slave.c:183`); file
formats and the parsing of query strings; point queries (no caller, and an empty
case in the master); the JUMP_CH and STATIC_PARTITION branches (the partition is
fixed) and the other query plans (empty cases); in SLAVELIST, a last line
without a newline, and an address that occurs twice; the arithmetic on
`num_slaves` after a startup that lost a slave, since Cluster begins with all of
them; the averages and deallocations at the end of `main`; the jump hash, the
MST planner and the experiments, which the system does not call.

Over-approximations: in Startup, any slave may fail to be set up, whether it
would accept the connection or not; in Dbms, heartbeat, put and query may take
the master down at any time, of which Cluster and QueryPipe show when.

## Plan

1. *(done)* HashRing, the tree, TwoPhaseCommit, Cluster, with their runs.
2. *(done)* Query and QueryPipe, Startup and Dbms, CentralQuery, ClusterTree.
3. *(done)* Proofs for CentralQuery, QueryPipe (with the steps of Query) and Dbms.
4. *(done)* Proofs of `Replicated`, `OneDeathLosesNothing` and `LoneDeathIsCopied`
   for up to three slaves, for which the tree's lookups are exact, from the facts of
   HashRingProofs.
5. *(done)* The tree's loops as steps (TreeLoops) and the proofs about them.
6. Open: proofs that TreeMap's recursive operators are the loops of TreeLoops, which
   need induction over the data, so that ClusterTree could be proved as well.
