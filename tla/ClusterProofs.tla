---------------------------- MODULE ClusterProofs ---------------------------
(* Proofs about Cluster: its types, and the records of the membership.     *)
EXTENDS Cluster, FiniteSetTheorems, TLAPS

RP == INSTANCE HashRingProofs WITH Ids <- Slaves, Points <- Range(VecHash)

-----------------------------------------------------------------------------
(* The lookups of HashRingProofs, on this ring. *)

\* The cluster's constants are a ring's.
LEMMA RingAssumed == RP!RingAssumption
<1>1. RP!IsFiniteSet(Slaves)
    <2>1. IsFiniteSet(Slaves)
        BY ClusterAssumption
    <2> QED  BY <2>1 DEF IsFiniteSet, RP!IsFiniteSet
<1>2. Range(VecHash) \subseteq 0..HashBound
    BY ClusterAssumption DEF Range
<1> QED  BY ClusterAssumption, <1>1, <1>2 DEF RP!RingAssumption

\* Looking up on a ring with slaves on it finds one of them.
LEMMA SuccOnRing ==
    ASSUME NEW r \in SUBSET Slaves, r # {}, NEW h \in Nat
    PROVE  Ring!Succ(r, h) \in r
<1>1. RP!IsSucc(r, h, RP!Succ(r, h))
    BY RingAssumed, RP!SuccIsSucc
<1> QED  BY <1>1 DEF RP!IsSucc, RP!Succ, Ring!Succ, RP!Above, Ring!Above,
                     RP!Lowest, Ring!Lowest

\* Looking down on a ring with slaves on it finds one of them.
LEMMA PredOnRing ==
    ASSUME NEW r \in SUBSET Slaves, r # {}, NEW h \in Nat
    PROVE  Ring!Pred(r, h) \in r
<1>1. RP!IsPred(r, h, RP!Pred(r, h))
    BY RingAssumed, RP!PredIsPred
<1> QED  BY <1>1 DEF RP!IsPred, RP!Pred, Ring!Pred, RP!Below, Ring!Below,
                     RP!Highest, Ring!Highest

\* The neighbours of a slave, and the machines of a vector, are on the ring.
LEMMA Lookups ==
    ASSUME NEW r \in SUBSET Slaves, r # {}
    PROVE  /\ \A s \in Slaves : Ring!SuccId(r, s) \in r /\ Ring!PredId(r, s) \in r
           /\ \A h \in Nat : Ring!Primary(r, h) \in r /\ Ring!Backup(r, h) \in r
<1>1. \A s \in Slaves : Hash[s] \in Nat
    BY ClusterAssumption
<1>2. \A s \in Slaves : Ring!SuccId(r, s) \in r /\ Ring!PredId(r, s) \in r
    BY <1>1, SuccOnRing, PredOnRing DEF Ring!SuccId, Ring!PredId
<1>3. ASSUME NEW h \in Nat
      PROVE  Ring!Primary(r, h) \in r /\ Ring!Backup(r, h) \in r
    <2>1. Ring!Primary(r, h) \in r
        BY SuccOnRing DEF Ring!Primary
    <2>2. Hash[Ring!Primary(r, h)] + 1 \in Nat
        BY <2>1, <1>1
    <2> QED  BY <2>1, <2>2, SuccOnRing DEF Ring!Backup
<1> QED  BY <1>2, <1>3

\* On a ring with another slave, a slave is not its own successor.
LEMMA SuccIsAnother ==
    ASSUME NEW r \in SUBSET Slaves, NEW d \in r, r # {d}
    PROVE  Ring!SuccId(r, d) \in r \ {d}
<1>1. Hash \in [Slaves -> Nat]
    BY ClusterAssumption
<1>2. RP!IsSucc(r, Hash[d], RP!Succ(r, Hash[d]))
    BY <1>1, RingAssumed, RP!SuccIsSucc
<1>3. Ring!SuccId(r, d) = RP!Succ(r, Hash[d])
    BY DEF Ring!SuccId, RP!Succ, Ring!Succ, RP!Above, Ring!Above,
           RP!Lowest, Ring!Lowest
<1>4. PICK q \in r : q # d
    OBVIOUS
<1>5. Hash[q] # Hash[d]
    BY <1>4, ClusterAssumption
<1> QED  BY <1>1, <1>2, <1>3, <1>4, <1>5 DEF RP!IsSucc

\* Whatever a lookup of the tree answers is a slave in the tree.
LEMMA AnswersOnRing ==
    ASSUME ring \in SUBSET Slaves, ring # {}, NEW h \in Nat
    PROVE  SuccAt(h) \subseteq ring /\ PredAt(h) \subseteq ring
BY SuccOnRing, PredOnRing DEF SuccAt, PredAt, NotAt

\* If another slave is in the tree, a slave is not named as its own successor.
LEMMA AnswersAreOthers ==
    ASSUME ring \in SUBSET Slaves, NEW d \in ring, ring # {d}
    PROVE  SuccAt(Hash[d]) \subseteq ring \ {d}
BY SuccIsAnother DEF SuccAt, NotAt, Ring!SuccId

\* The machines of a vector are slaves in the tree.
LEMMA MachinesOnRing ==
    ASSUME ring \in SUBSET Slaves, ring # {}, NEW v \in Vecs, NEW m \in Machines(v)
    PROVE  m[1] \in ring /\ m[2] \in ring
<1>1. PICK p \in SuccAt(VecHash[v]) : m = <<p, Backup(p)>>
    BY DEF Machines
<1>2. p \in ring
    BY AnswersOnRing, ClusterAssumption
<1>3. Hash[p] + 1 \in Nat
    BY <1>2, ClusterAssumption
<1>4. Backup(p) \in ring
    BY <1>3, SuccOnRing DEF Backup
<1> QED  BY <1>1, <1>2, <1>4

\* heartbeat goes on with a slave it has not asked yet.
LEMMA NextSlave ==
    ASSUME unpinged \subseteq Slaves, unpinged # {}
    PROVE  next_slave \in unpinged
<1>1. unpinged \in SUBSET Nat
    BY ClusterAssumption
<1>2. \E s \in unpinged : \A q \in unpinged : s <= q
    BY <1>1, RP!NatLeast, RingAssumed
<1> QED  BY <1>2 DEF next_slave

-----------------------------------------------------------------------------
(* The inductive invariant. *)

\* From the removal of a slave to the end of its reallocation.
Moving == pc \in {"reallocate", "copy", "send", "segv_copy", "segv_late",
                  "segv_join"}

\* The slave that moves was listed and is no more, and others are.
Removed ==
    /\ Moving => num_slaves # 0
    /\ Moving \/ num_slaves = 0 => dead_slave \in Slaves \ slavelist
    /\ pc \in {"copy", "send"} => succ \in slavelist
    /\ pc = "send" => copies # <<>>

\* A put that is voted on has a vector and a version.
Putting == pc \in {"vote", "push"} => vec \in Vecs /\ puts # 0

IInv == TypeOK /\ MembershipAgrees /\ Removed /\ Putting

\* Sets of slaves are finite, and their sizes naturals.
LEMMA SlavesFinite ==
    ASSUME NEW S \in SUBSET Slaves
    PROVE  /\ IsFiniteSet(S)
           /\ Cardinality(S) \in Nat
           /\ Cardinality(S) <= Cardinality(Slaves)
           /\ Cardinality(S) = 0 <=> S = {}
BY ClusterAssumption, FS_Subset, FS_CardinalityType, FS_EmptySet

\* The copies of a list are calls of send_vector.
LEMMA SendsType ==
    ASSUME NEW src \in Slaves, NEW vecs \in Seq(Vecs),
           NEW dst \in Slaves \cup {NoSlave}
    PROVE  Sends(src, vecs, dst) \in Seq(Slaves \X Vecs \X (Slaves \cup {NoSlave}))
BY DEF Sends

\* The invariant holds at first.
LEMMA InitIInv == Init => IInv
<1> SUFFICES ASSUME Init  PROVE IInv
    OBVIOUS
<1>1. IsFiniteSet(Slaves) /\ Cardinality(Slaves) \in Nat \ {0}
    BY SlavesFinite, ClusterAssumption
<1>2. <<>> \in Seq(Vecs) /\ <<>> \in Seq(Slaves \X Vecs \X (Slaves \cup {NoSlave}))
    OBVIOUS
<1>3. TypeOK
    <2>1. store \in [Slaves -> [Vecs -> {Absent, Empty} \cup Versions]]
        BY DEF Init, SetUp, Absent
    <2>2. num_slaves \in 0..Cardinality(Slaves) /\ replication_factor \in {1, 2}
        BY <1>1 DEF Init, SetUp
    <2>3. list \in [Slaves -> Seq(Vecs)] /\ detached \in [Slaves -> BOOLEAN]
        BY <1>2 DEF Init, SetUp
    <2>4. copies \in Seq(Slaves \X Vecs \X (Slaves \cup {NoSlave}))
        BY <1>2 DEF Init, SetUp
    <2>5. /\ crashes \in 0..MaxCrashes
          /\ puts \in 0..MaxPuts
          /\ committed \in [Vecs -> 0..MaxPuts]
        BY ClusterAssumption DEF Init, SetUp
    <2>6. /\ pc \in {"loop", "ping", "pong", "reallocate", "copy", "send",
                    "serve", "vote", "push", "query"} \cup Segfaults
          /\ resume \in {"loop", "serve"}
          /\ stray \in BOOLEAN
        BY DEF Init, SetUp
    <2>7. /\ alive \subseteq Slaves
          /\ unpinged \subseteq slavelist
          /\ slavelist \subseteq Slaves
          /\ dead_slave \in Slaves \cup {NoSlave}
          /\ ring \subseteq Slaves
          /\ succ \in Slaves \cup {NoSlave}
          /\ vec \in Vecs \cup {-1}
          /\ targets \subseteq Slaves
        BY DEF Init, SetUp
    <2> QED  BY <2>1, <2>2, <2>3, <2>4, <2>5, <2>6, <2>7 DEF TypeOK
<1>4. MembershipAgrees /\ Removed /\ Putting
    BY <1>1 DEF Init, SetUp, MembershipAgrees, Removed, Moving, Putting
<1> QED  BY <1>3, <1>4 DEF IInv

-----------------------------------------------------------------------------
(* One lemma for each part of the invariant. *)

\* Everything but the master's place, the walk of heartbeat, and who runs.
rest == <<store, nodeVars, list, detached, moveVars, putVars>>

\* Steps that change nothing of the rest.
LEMMA QuietSteps ==
    ASSUME TypeOK,
           \/ heartbeat \/ LeaveHeartbeat \/ Connected \/ Answered \/ Unanswered
           \/ Idle \/ VotesCommit \/ QueryDone
           \/ (\E lo, hi \in Vecs : lo <= hi /\ RangeQuery(lo, hi))
           \/ (\E s \in Slaves : Crash(s)) \/ SendFails \/ vars' = vars
    PROVE  /\ UNCHANGED rest
           /\ alive' \subseteq alive
           /\ crashes' \in 0..MaxCrashes
           /\ resume' \in {"loop", "serve"}
           /\ unpinged' \subseteq slavelist
           /\ pc' = "push" => pc \in {"vote", "push"}
           /\ \/ pc' = pc
              \/ pc' = "segv_copy" /\ pc = "send"
              \/ /\ pc \notin {"reallocate", "copy", "send"} \cup Segfaults
                 /\ pc' \in {"loop", "ping", "pong", "serve", "push", "query",
                             "segv_ping", "segv_query"}
<1> USE DEF rest, slaveVars, beatVars, nodeVars, moveVars, putVars, Segfaults
<1>1. CASE heartbeat
    BY <1>1 DEF TypeOK, heartbeat, EnterHeartbeat
<1>2. CASE LeaveHeartbeat
    BY <1>2 DEF TypeOK, LeaveHeartbeat
<1>3. CASE Connected
    BY <1>3 DEF TypeOK, Connected
<1>4. CASE Answered
    BY <1>4 DEF TypeOK, Answered
<1>5. CASE Unanswered
    BY <1>5 DEF TypeOK, Unanswered
<1>6. CASE Idle
    BY <1>6 DEF TypeOK, Idle
<1>7. CASE VotesCommit
    BY <1>7 DEF TypeOK, VotesCommit
<1>8. CASE QueryDone
    BY <1>8 DEF TypeOK, QueryDone
<1>9. ASSUME NEW lo \in Vecs, NEW hi \in Vecs, RangeQuery(lo, hi)
      PROVE  /\ UNCHANGED <<store, crashes, beatVars, nodeVars, list, detached,
                            moveVars, putVars>>
             /\ alive' \subseteq alive
             /\ pc \in {"serve", "query"}
             /\ pc' \in {"query", "loop", "segv_query"}
    BY <1>9 DEF RangeQuery, Ask
<1>10. CASE \E lo, hi \in Vecs : lo <= hi /\ RangeQuery(lo, hi)
    BY <1>9, <1>10 DEF TypeOK
<1>11. ASSUME NEW s \in Slaves, Crash(s)
       PROVE  /\ UNCHANGED <<store, pc, beatVars, nodeVars, list, detached,
                             moveVars, putVars>>
              /\ alive' \subseteq alive
              /\ crashes' \in 0..MaxCrashes
    BY <1>11, ClusterAssumption DEF TypeOK, Crash
<1>12. CASE \E s \in Slaves : Crash(s)
    BY <1>11, <1>12 DEF TypeOK
<1>13. CASE SendFails
    BY <1>13 DEF TypeOK, SendFails
<1>14. CASE vars' = vars
    BY <1>14 DEF TypeOK, vars
<1> QED  BY <1>1, <1>2, <1>3, <1>4, <1>5, <1>6, <1>7, <1>8, <1>10, <1>12,
            <1>13, <1>14

\* The invariant survives the quiet steps.
LEMMA QuietIInv ==
    ASSUME IInv, UNCHANGED rest,
           alive' \subseteq alive,
           crashes' \in 0..MaxCrashes,
           resume' \in {"loop", "serve"},
           unpinged' \subseteq slavelist,
           pc' = "push" => pc \in {"vote", "push"},
           \/ pc' = pc
           \/ pc' = "segv_copy" /\ pc = "send"
           \/ /\ pc \notin {"reallocate", "copy", "send"} \cup Segfaults
              /\ pc' \in {"loop", "ping", "pong", "serve", "push", "query",
                          "segv_ping", "segv_query"}
    PROVE  IInv'
<1> USE DEF rest, nodeVars, moveVars, putVars, Segfaults
<1>1. TypeOK'
    BY DEF IInv, TypeOK
<1>2. MembershipAgrees'
    BY DEF IInv, MembershipAgrees
<1>3. Removed'
    BY DEF IInv, Removed, Moving
<1>4. Putting'
    BY DEF IInv, Putting
<1> QED  BY <1>1, <1>2, <1>3, <1>4 DEF IInv

\* The steps that change a version of a vector, or the walk, and no record
\* of the membership.
LEMMA SameRecords ==
    ASSUME IInv, TypeOK', Putting', UNCHANGED <<alive, nodeVars, succ>>,
           pc' \in {"copy", "send", "segv_late"} => Moving /\ pc # "reallocate",
           pc' \notin {"reallocate", "copy", "send", "segv_late"} => ~ Moving,
           pc' # "reallocate",
           pc' = "send" => copies' # <<>>,
           pc \notin Segfaults,
           pc' \notin {"segv_copy", "segv_join"}
    PROVE  IInv'
<1> USE DEF nodeVars, Segfaults, Moving
<1>1. MembershipAgrees'
    BY DEF IInv, MembershipAgrees
<1>2. Removed'
    BY DEF IInv, Removed
<1> QED  BY <1>1, <1>2 DEF IInv

\* ConnectSource
LEMMA ConnectIInv == ASSUME IInv, ConnectSource  PROVE IInv'
<1> USE DEF ConnectSource, slaveVars, beatVars, nodeVars, putVars
<1>1. Tail(copies) \in Seq(Slaves \X Vecs \X (Slaves \cup {NoSlave}))
    BY DEF IInv, TypeOK
<1>2. copies' \in Seq(Slaves \X Vecs \X (Slaves \cup {NoSlave}))
    BY <1>1 DEF IInv, TypeOK
<1>3. TypeOK'
    BY <1>2 DEF IInv, TypeOK
<1> QED  BY <1>3, SameRecords DEF Moving, Segfaults, IInv, Putting

\* SendVector
LEMMA SendIInv == ASSUME IInv, SendVector  PROVE IInv'
<1> USE DEF SendVector, beatVars, nodeVars, putVars
<1> DEFINE src == Head(copies)[1]
           v   == Head(copies)[2]
           dst == Head(copies)[3]
           val == IF store[src][v] = Absent THEN Empty ELSE store[src][v]
<1>1. copies # <<>> /\ copies \in Seq(Slaves \X Vecs \X (Slaves \cup {NoSlave}))
    BY DEF IInv, TypeOK, Removed
<1>2. /\ Tail(copies) \in Seq(Slaves \X Vecs \X (Slaves \cup {NoSlave}))
      /\ Head(copies) \in Slaves \X Vecs \X (Slaves \cup {NoSlave})
    BY <1>1
<1>3. src \in Slaves /\ v \in Vecs
    BY <1>2
<1>4. val \in {Absent, Empty} \cup Versions
    BY <1>3 DEF IInv, TypeOK
<1>5. dst \in alive \ {src} /\ store' = [store EXCEPT ![dst][v] = val]
    OBVIOUS
<1> HIDE DEF val, dst, v, src
<1>6. store' \in [Slaves -> [Vecs -> {Absent, Empty} \cup Versions]]
    <2>1. store \in [Slaves -> [Vecs -> {Absent, Empty} \cup Versions]]
        BY DEF IInv, TypeOK
    <2> DEFINE V == {Absent, Empty} \cup Versions
    <2>2. store \in [Slaves -> [Vecs -> V]] /\ val \in V
        BY <2>1, <1>4
    <2> HIDE DEF V
    <2>3. dst \in Slaves => [store[dst] EXCEPT ![v] = val] \in [Vecs -> V]
        BY <2>2, <1>3
    <2>4. store' \in [Slaves -> [Vecs -> V]]
        BY <2>2, <2>3, <1>5
    <2> QED  BY <2>4 DEF V
<1>7. TypeOK'
    BY <1>2, <1>6 DEF IInv, TypeOK, Segfaults
<1> QED  BY <1>7, SameRecords DEF Moving, Segfaults, IInv, Putting

\* Push
LEMMA PushIInv == ASSUME IInv, NEW s \in Slaves, Push(s)  PROVE IInv'
<1> USE DEF Push, beatVars, nodeVars, moveVars
<1>1. store' \in [Slaves -> [Vecs -> {Absent, Empty} \cup Versions]]
    <2> DEFINE V == {Absent, Empty} \cup Versions
    <2>1. store \in [Slaves -> [Vecs -> V]] /\ puts \in V /\ vec \in Vecs
        BY ClusterAssumption DEF IInv, TypeOK, Putting, Versions
    <2> HIDE DEF V
    <2>2. [store[s] EXCEPT ![vec] = puts] \in [Vecs -> V]
        BY <2>1
    <2>3. store' \in [Slaves -> [Vecs -> V]]
        BY <2>1, <2>2
    <2> QED  BY <2>3 DEF V
<1>2. TypeOK'
    BY <1>1 DEF IInv, TypeOK
<1> QED  BY <1>2, SameRecords DEF Moving, Segfaults, IInv, Putting

\* Committed
LEMMA CommittedIInv == ASSUME IInv, Committed  PROVE IInv'
<1> USE DEF Committed, slaveVars, beatVars, nodeVars, moveVars
<1>1. committed' \in [Vecs -> 0..MaxPuts]
    BY DEF IInv, TypeOK
<1>2. TypeOK'
    BY <1>1 DEF IInv, TypeOK
<1> QED  BY <1>2, SameRecords DEF Moving, Segfaults, IInv, Putting

\* VotesAbort, and the heartbeat it calls
LEMMA AbortIInv == ASSUME IInv, VotesAbort  PROVE IInv'
<1> USE DEF VotesAbort, EnterHeartbeat, slaveVars, nodeVars, moveVars
<1>1. TypeOK'
    BY DEF IInv, TypeOK
<1> QED  BY <1>1, SameRecords DEF Moving, Segfaults, IInv, Putting

\* get_machines_for_vector
LEMMA PutIInv == ASSUME IInv, NEW v \in Vecs, Put(v)  PROVE IInv'
<1> USE DEF PutOn, slaveVars, beatVars, nodeVars, moveVars
<1>0. PICK m \in Machines(v) : PutOn(v, m[1], m[2])
    BY DEF Put
<1>1. ring # {} /\ ring \subseteq Slaves /\ pc \notin Segfaults /\ ~ Moving
    <2>1. ~ Moving /\ pc \notin Segfaults
        BY <1>0 DEF Moving, Segfaults
    <2>2. CASE num_slaves = 0
        <3>1. ring = slavelist \cup {dead_slave} /\ ring \subseteq Slaves
            BY <2>2 DEF IInv, TypeOK, MembershipAgrees
        <3>2. ring # {}
            BY <3>1
        <3> QED  BY <2>1, <3>1, <3>2
    <2>3. CASE num_slaves # 0
        BY <2>1, <2>3, SlavesFinite DEF IInv, TypeOK, MembershipAgrees
    <2> QED  BY <2>1, <2>2, <2>3 DEF IInv, TypeOK
<1> DEFINE p == m[1]
           b == m[2]
<1>2. p \in Slaves /\ b \in Slaves
    BY <1>1, MachinesOnRing
<1>3. CASE p \notin slavelist
    <2>1. TypeOK'
        BY <1>0, <1>3 DEF IInv, TypeOK, Segfaults
    <2> QED  BY <1>0, <1>1, <1>3, <2>1, SameRecords DEF IInv, Putting, Moving
<1>4. CASE p \in slavelist
    <2>1. /\ list' = [list EXCEPT ![p] =
                        IF @ # <<>> /\ detached[p] THEN @ ELSE Append(@, v)]
          /\ detached' = [detached EXCEPT ![p] = @ /\ list[p] # <<>>]
          /\ puts' = puts + 1
          /\ puts < MaxPuts
          /\ vec' = v
          /\ targets' \subseteq {p, b}
          /\ pc' = "vote"
          /\ UNCHANGED <<slaveVars, beatVars, nodeVars, moveVars, stray, committed>>
        BY <1>0, <1>4
    <2>2. p \in Slaves /\ p \in slavelist /\ targets' \subseteq Slaves
        BY <1>2, <1>4, <2>1
    <2> HIDE DEF p, b, PutOn
    <2>3. list' \in [Slaves -> Seq(Vecs)]
        <3>1. list \in [Slaves -> Seq(Vecs)]
            BY DEF IInv, TypeOK
        <3>2. Append(list[p], v) \in Seq(Vecs)
            BY <3>1, <2>2
        <3> QED  BY <3>1, <3>2, <2>1, <2>2
    <2>4. detached' \in [Slaves -> BOOLEAN]
        BY <2>1, <2>2 DEF IInv, TypeOK
    <2>5. puts' \in 0..MaxPuts /\ puts' # 0
        BY <2>1, ClusterAssumption DEF IInv, TypeOK
    <2>6. TypeOK'
        BY <2>1, <2>2, <2>3, <2>4, <2>5 DEF IInv, TypeOK
    <2>7. Putting'
        BY <2>1, <2>5 DEF Putting
    <2> QED  BY <1>1, <2>1, <2>6, <2>7, SameRecords DEF Moving
<1> QED  BY <1>3, <1>4

\* remove_slave
LEMMA RemoveIInv == ASSUME IInv, remove_slave  PROVE IInv'
<1> USE DEF remove_slave, slaveVars, moveVars, putVars
<1>1. /\ next_slave \in unpinged
      /\ next_slave \in slavelist
      /\ next_slave \in Slaves \ alive
    BY NextSlave DEF IInv, TypeOK
<1>2. /\ slavelist' \in SUBSET Slaves
      /\ slavelist' = slavelist \ {next_slave}
      /\ IsFiniteSet(slavelist)
      /\ Cardinality(slavelist) \in Nat
      /\ Cardinality(slavelist) <= Cardinality(Slaves)
      /\ Cardinality(Slaves) \in Nat
    BY SlavesFinite DEF IInv, TypeOK
<1>3. Cardinality(slavelist') = Cardinality(slavelist) - 1
    BY <1>1, <1>2, FS_RemoveElement
<1>4. num_slaves' = Cardinality(slavelist') /\ num_slaves' \in Nat /\ num_slaves # 0
    BY <1>1, <1>2, <1>3, SlavesFinite DEF IInv, TypeOK, MembershipAgrees
<1> DEFINE n == next_slave
<1>5. /\ dead_slave' = n
      /\ num_slaves' = num_slaves - 1
      /\ replication_factor' = IF num_slaves' = 1 THEN 1 ELSE replication_factor
      /\ unpinged' = unpinged \ {n}
      /\ pc = "ping"
      /\ pc' = IF num_slaves' = 0 THEN resume ELSE "reallocate"
      /\ UNCHANGED <<slaveVars, resume, ring, list, detached, moveVars, putVars>>
    OBVIOUS
<1> HIDE DEF n
<1>6. n \in slavelist /\ n \in Slaves \ alive
    BY <1>1 DEF n
<1>7. slavelist' = slavelist \ {n}
    BY <1>2 DEF n
<1> HIDE DEF remove_slave
<1>8. TypeOK'
    BY <1>2, <1>4, <1>5, <1>6, <1>7 DEF IInv, TypeOK, MembershipAgrees, Segfaults
<1>9. ring = slavelist
    BY <1>4, <1>5 DEF IInv, MembershipAgrees
<1>10. MembershipAgrees'
    <2>1. alive' \subseteq slavelist'
        BY <1>5, <1>6, <1>7 DEF IInv, MembershipAgrees
    <2>2. replication_factor' = 1 <=> num_slaves' <= 1
        BY <1>2, <1>4, <1>5 DEF IInv, MembershipAgrees
    <2>3. resume \notin {"reallocate", "copy", "send", "segv_copy",
                          "segv_late", "segv_join"}
        BY DEF IInv, TypeOK
    <2>4. ring' = slavelist' \cup {dead_slave'}
        BY <1>5, <1>6, <1>7, <1>9
    <2> QED  BY <1>4, <1>5, <2>1, <2>2, <2>3, <2>4 DEF MembershipAgrees
<1>11. Removed'
    BY <1>5, <1>6, <1>7 DEF IInv, TypeOK, Removed, Moving
<1>12. Putting'
    BY <1>5 DEF IInv, TypeOK, Putting
<1> QED  BY <1>8, <1>10, <1>11, <1>12 DEF IInv

\* reallocate, up to the copies
LEMMA ReallocateIInv == ASSUME IInv, reallocate  PROVE IInv'
<1> USE DEF slaveVars, beatVars, nodeVars, putVars
<1> DEFINE Copy == Slaves \X Vecs \X (Slaves \cup {NoSlave})
<1>a. PICK pred_id \in PredAt(Hash[dead_slave]), succ_id \in SuccAt(Hash[dead_slave]) :
          \E sucsuc_id \in SuccAt(Hash[succ_id]) :
              Reallocate(pred_id, succ_id, sucsuc_id)
    BY DEF reallocate
<1>0. PICK sucsuc_id \in SuccAt(Hash[succ_id]) : Reallocate(pred_id, succ_id, sucsuc_id)
    BY <1>a
<1>1. /\ dead_slave \in Slaves \ slavelist
      /\ ring = slavelist \cup {dead_slave}
      /\ ring \in SUBSET Slaves
      /\ slavelist # {}
      /\ pc = "reallocate"
    BY SlavesFinite DEF IInv, TypeOK, MembershipAgrees, Removed, Moving, reallocate
<1>2. succ_id \in slavelist
    BY <1>1, AnswersAreOthers
<1>3. pred_id \in Slaves /\ succ_id \in Slaves
    <2>1. Hash[dead_slave] \in Nat
        BY <1>1, ClusterAssumption
    <2> QED  BY <1>1, <1>2, <2>1, AnswersOnRing
<1>4. copies' \in Seq(Copy)
    <2>1. PICK sucsuc \in Found(sucsuc_id) :
             copies' = (IF pred_id = succ_id THEN <<>>
                        ELSE Sends(pred_id, list[pred_id], succ_id))
                       \o Sends(succ_id, list[dead_slave], sucsuc)
        BY <1>0 DEF Reallocate
    <2>2. sucsuc \in Slaves \cup {NoSlave}
        BY <2>1 DEF Found, IInv, TypeOK
    <2>3. list[pred_id] \in Seq(Vecs) /\ list[dead_slave] \in Seq(Vecs)
        BY <1>1, <1>3 DEF IInv, TypeOK
    <2>4. Sends(pred_id, list[pred_id], succ_id) \in Seq(Copy)
        BY <1>3, <2>3, SendsType
    <2>5. Sends(succ_id, list[dead_slave], sucsuc) \in Seq(Copy)
        BY <1>3, <2>2, <2>3, SendsType
    <2> HIDE DEF Copy
    <2>6. <<>> \in Seq(Copy)
        OBVIOUS
    <2> QED  BY <2>1, <2>4, <2>5, <2>6
<1>5. /\ succ' = succ_id
      /\ pc = "reallocate" /\ pc' = "copy"
      /\ UNCHANGED <<slaveVars, beatVars, nodeVars, list, detached, putVars>>
    BY <1>0, <1>1 DEF Reallocate
<1>6. TypeOK'
    BY <1>3, <1>4, <1>5 DEF IInv, TypeOK
<1>7. MembershipAgrees'
    BY <1>5 DEF IInv, MembershipAgrees
<1>8. Removed'
    BY <1>2, <1>5 DEF IInv, Removed, Moving
<1>9. Putting'
    BY <1>5 DEF Putting
<1> QED  BY <1>6, <1>7, <1>8, <1>9 DEF IInv

\* The end of reallocate, and delete_entry
LEMMA JoinIInv == ASSUME IInv, JoinLists  PROVE IInv'
<1> USE DEF JoinLists, slaveVars, beatVars, moveVars, putVars
<1>1. /\ dead_slave \in Slaves \ slavelist
      /\ ring = slavelist \cup {dead_slave}
      /\ succ \in Slaves
      /\ num_slaves # 0
    BY DEF IInv, TypeOK, MembershipAgrees, Removed, Moving
<1>2. CASE list[dead_slave] = <<>>
    <2>1. TypeOK'
        BY <1>2 DEF IInv, TypeOK, Segfaults
    <2>2. MembershipAgrees'
        BY <1>2 DEF IInv, MembershipAgrees
    <2>3. Removed'
        BY <1>2 DEF IInv, Removed, Moving
    <2>4. Putting'
        BY <1>2 DEF Putting
    <2> QED  BY <2>1, <2>2, <2>3, <2>4 DEF IInv
<1>3. CASE list[dead_slave] # <<>>
    <2>1. ring' = slavelist /\ pc' = "ping"
        BY <1>1, <1>3 DEF delete_entry
    <2>2. detached' \in [Slaves -> BOOLEAN]
        BY <1>1, <1>3 DEF IInv, TypeOK
    <2>3. TypeOK'
        BY <2>1, <2>2 DEF IInv, TypeOK
    <2>4. MembershipAgrees'
        BY <1>1, <2>1 DEF IInv, MembershipAgrees
    <2>5. Removed'
        BY <1>1, <2>1 DEF IInv, Removed, Moving
    <2>6. Putting'
        BY <2>1 DEF Putting
    <2> QED  BY <2>3, <2>4, <2>5, <2>6 DEF IInv
<1> QED  BY <1>2, <1>3

-----------------------------------------------------------------------------
(* Every step, and the theorems. *)

\* The invariant is inductive.
LEMMA NextIInv == ASSUME IInv, [Next]_vars  PROVE IInv'
<1> DEFINE Quiet ==
        \/ heartbeat \/ LeaveHeartbeat \/ Connected \/ Answered \/ Unanswered
        \/ Idle \/ VotesCommit \/ QueryDone
        \/ (\E lo, hi \in Vecs : lo <= hi /\ RangeQuery(lo, hi))
        \/ (\E s \in Slaves : Crash(s)) \/ SendFails \/ vars' = vars
<1>1. CASE Quiet
    <2>1. TypeOK
        BY DEF IInv
    <2> QED  BY <1>1, <2>1, QuietSteps, QuietIInv
<1>2. CASE remove_slave
    BY <1>2, RemoveIInv
<1>3. CASE reallocate
    BY <1>3, ReallocateIInv
<1>4. CASE ConnectSource
    BY <1>4, ConnectIInv
<1>5. CASE SendVector
    BY <1>5, SendIInv
<1>6. CASE JoinLists
    BY <1>6, JoinIInv
<1>7. CASE VotesAbort
    BY <1>7, AbortIInv
<1>8. CASE \E s \in Slaves : Push(s)
    BY <1>8, PushIInv
<1>9. CASE Committed
    BY <1>9, CommittedIInv
<1>10. CASE \E v \in Vecs : Put(v)
    BY <1>10, PutIInv
<1> QED  BY <1>1, <1>2, <1>3, <1>4, <1>5, <1>6, <1>7, <1>8, <1>9, <1>10
         DEF Next, Master, Request

\* The invariant holds in every reachable state.
LEMMA SpecIInv == Spec => []IInv
BY InitIInv, NextIInv, PTL DEF Spec

(***************************************************************************)
(* Whatever the slaves, their places on the ring and the vectors, the      *)
(* master's records and the slaves' stores keep their types: no machine a  *)
(* put votes on is other than a slave, num_slaves is never negative, and   *)
(* heartbeat only asks slaves on the list.                                 *)
(***************************************************************************)
THEOREM ClusterTypeCorrect == Spec => []TypeOK
<1>1. IInv => TypeOK
    BY DEF IInv
<1> QED  BY <1>1, SpecIInv, PTL

(***************************************************************************)
(* However slaves die, in whatever number and at whatever moment of a      *)
(* heartbeat, a reallocation, a put or a query: slavelist, num_slaves,     *)
(* replication_factor and the ring agree, the ring being at most one slave *)
(* behind (remove_slave, reallocate, delete_entry), and no slave that runs *)
(* is off the list.                                                        *)
(***************************************************************************)
THEOREM MembershipAlwaysAgrees == Spec => []MembershipAgrees
<1>1. IInv => MembershipAgrees
    BY DEF IInv
<1> QED  BY <1>1, SpecIInv, PTL
=============================================================================
