-------------------------- MODULE ReplicationProofs -------------------------
(***************************************************************************)
(* Cluster loses and misplaces nothing in one death: with up to three      *)
(* slaves, wherever they are on the ring, and any vectors.  Up to three    *)
(* slaves the tree answers every lookup as the ring does; from four on it  *)
(* does not, and what is proved here is false (FourSlaves.cfg).  The types *)
(* and the membership are those of ClusterProofs, for any slaves.          *)
(***************************************************************************)
EXTENDS ClusterProofs

-----------------------------------------------------------------------------
(* The inductive invariant *)

\* So few slaves that all lookups are exact
Few == Cardinality(Slaves) <= 3

\* No more than one slave has died, and there were three or more, said
\* without counting.
Lone  == \A a, b \in Dead : a = b
Three == \E a, b, c \in Slaves : a # b /\ a # c /\ b # c

\* The machines of vector v on ring r
First(r, v)   == Ring!Primary(r, VecHash[v])
Second(r, v)  == Ring!Backup(r, VecHash[v])
Holders(r, v) == {First(r, v), Second(r, v)}

Copying == pc \in {"copy", "send"}

\* The version that is stored is one that was put.
Counted == \A v \in Vecs : committed[v] <= puts

\* A put is voted on by both its machines, and when it is pushed, a machine
\* that runs has it or is yet to get it.
Voted ==
    /\ pc = "vote" => Holders(ring, vec) \subseteq targets
    /\ pc = "push" => \A s \in Holders(ring, vec) \cap alive :
                          s \in targets \/ store[s][vec] = puts

\* Until the first join of two lists, the lists tell each vector's primary.
Listed ==
    ring = Slaves =>
        /\ \A s \in Slaves : ~ detached[s]
        /\ \A s \in Slaves : \A v \in Range(list[s]) : First(ring, v) = s
        /\ \A v \in Vecs :
              committed[v] > 0 \/ (pc \in {"vote", "push"} /\ vec = v)
                  => v \in Range(list[First(ring, v)])

\* In the first reallocation, a vector is copied from a machine that has it,
\* to another slave.
Carried ==
    Copying /\ ring = Slaves =>
        /\ succ = Ring!SuccId(ring, dead_slave)
        /\ \A c \in Range(copies) :
              /\ c[1] \in Holders(ring, c[2]) \cap slavelist
              /\ Three => c[3] \in slavelist \ {c[1]}

\* The machines of a stored vector that run have it, on the ring as it is.
Placed ==
    Lone =>
        \A v \in Vecs : committed[v] > 0 =>
            \A s \in Holders(ring, v) \cap alive :
                \/ store[s][v] = committed[v]
                \/ pc = "push" /\ vec = v /\ store[s][v] = puts

\* A copy that is yet to be made, or has been made
Handed(src, v, dst) ==
    <<src, v, dst>> \in Range(copies) \/ store[dst][v] = committed[v]

\* During a reallocation, those that will be a vector's machines have it or
\* are about to get it.
Owed ==
    Lone /\ Three /\ Copying =>
        \A v \in Vecs : committed[v] > 0 =>
            /\ First(ring, v) = dead_slave =>
                  Handed(succ, v, Ring!SuccId(ring, succ))
            /\ Second(ring, v) = dead_slave => Handed(First(ring, v), v, succ)

\* A copy does not fail of one death.
Late == Lone /\ Three => pc # "segv_copy"

RInv ==
    /\ Counted
    /\ Voted
    /\ Listed
    /\ Carried
    /\ Placed
    /\ Owed
    /\ Late

-----------------------------------------------------------------------------
(* What reallocate relies on: the ring with and without a slave *)

\* The two instances of HashRing look up alike.
LEMMA SameRing ==
    ASSUME NEW r, NEW h
    PROVE  Ring!Succ(r, h) = RP!Succ(r, h) /\ Ring!Pred(r, h) = RP!Pred(r, h)
BY DEF Ring!Succ, RP!Succ, Ring!Above, RP!Above, Ring!Lowest, RP!Lowest,
       Ring!Pred, RP!Pred, Ring!Below, RP!Below, Ring!Highest, RP!Highest

LEMMA SameNeighbours ==
    ASSUME NEW r, NEW i
    PROVE  Ring!SuccId(r, i) = RP!SuccId(r, i) /\ Ring!PredId(r, i) = RP!PredId(r, i)
BY SameRing DEF Ring!SuccId, RP!SuccId, Ring!PredId, RP!PredId

LEMMA SameMachines ==
    ASSUME NEW r, NEW h
    PROVE  Ring!Primary(r, h) = RP!Primary(r, h) /\ Ring!Backup(r, h) = RP!Backup(r, h)
<1>1. Ring!Primary(r, h) = RP!Primary(r, h)
  BY SameRing DEF Ring!Primary, RP!Primary
<1> QED
  BY <1>1, SameRing DEF Ring!Backup, RP!Backup

\* The backup is the primary's successor.
LEMMA BackupIsSucc ==
    ASSUME NEW r \in SUBSET Slaves, r # {}, NEW h \in Nat
    PROVE  Ring!Backup(r, h) = Ring!SuccId(r, Ring!Primary(r, h))
<1>1. RP!Backup(r, h) = RP!SuccId(r, RP!Primary(r, h))
  BY RingAssumed, RP!PrimaryBackup
<1> QED
  BY <1>1, SameMachines, SameNeighbours

\* With another slave on the ring, primary and backup differ.
LEMMA MachinesTwo ==
    ASSUME NEW r \in SUBSET Slaves, NEW h \in Nat, NEW a \in r, NEW b \in r, a # b
    PROVE  Ring!Backup(r, h) # Ring!Primary(r, h)
<1>1. Ring!Primary(r, h) \in r
  BY Lookups
<1>2. r # {Ring!Primary(r, h)}
  OBVIOUS
<1> QED
  BY <1>1, <1>2, SuccIsAnother, BackupIsSucc

\* The slave that a slave backs up is its predecessor.
LEMMA BackedUpIsPred ==
    ASSUME NEW r \in SUBSET Slaves, NEW h \in Nat, NEW a \in r, NEW b \in r, a # b
    PROVE  Ring!PredId(r, Ring!Backup(r, h)) = Ring!Primary(r, h)
<1> DEFINE p == Ring!Primary(r, h)
           d == Ring!Backup(r, h)
<1>1. p \in r /\ d \in r /\ p # d
  BY Lookups, MachinesTwo
<1>2. Ring!SuccId(r, p) = d
  BY BackupIsSucc
<1>3. RP!SuccId(r, p) = d
  BY <1>2, SameNeighbours
<1> HIDE DEF p, d
<1>4. p = RP!PredId(r, d)
  BY <1>1, <1>3, RingAssumed, RP!SuccOfPred
<1>5. p = Ring!PredId(r, d)
  BY <1>4, SameNeighbours
<1> QED
  BY <1>5 DEF p, d

LEMMA PredIsAnother ==
    ASSUME NEW r \in SUBSET Slaves, NEW d \in r, r # {d}
    PROVE  Ring!PredId(r, d) \in r \ {d}
<1>1. Hash \in [Slaves -> Nat]
  BY ClusterAssumption
<1>2. RP!IsPred(r, Hash[d], RP!Pred(r, Hash[d]))
  BY <1>1, RingAssumed, RP!PredIsPred
<1>3. Ring!PredId(r, d) = RP!Pred(r, Hash[d])
  BY SameRing DEF Ring!PredId
<1>4. PICK q \in r : q # d
  OBVIOUS
<1>5. Hash[q] # Hash[d]
  BY <1>4, ClusterAssumption
<1> QED
  BY <1>1, <1>2, <1>3, <1>4, <1>5 DEF RP!IsPred

\* Among three slaves, the successor of a slave's successor is another one.
LEMMA SuccOfSucc ==
    ASSUME NEW d \in Slaves, Three
    PROVE  /\ Ring!SuccId(Slaves, d) \in Slaves \ {d}
           /\ Ring!SuccId(Slaves, Ring!SuccId(Slaves, d))
                 \in Slaves \ {d, Ring!SuccId(Slaves, d)}
<1>1. PICK e \in Slaves, f \in Slaves : d # e /\ d # f /\ e # f
  BY DEF Three
<1>2. Slaves \in SUBSET Slaves
  OBVIOUS
<1>3. RP!SuccId(Slaves, RP!SuccId(Slaves, d)) # d
  BY <1>1, <1>2, RingAssumed, RP!ThreeInARow
<1> DEFINE s == Ring!SuccId(Slaves, d)
<1>4. s \in Slaves \ {d}
  BY <1>1, <1>2, SuccIsAnother
<1>5. Ring!SuccId(Slaves, s) # d
  BY <1>3, SameNeighbours
<1> HIDE DEF s
<1>6. Slaves # {s}
  BY <1>1
<1>7. Ring!SuccId(Slaves, s) \in Slaves \ {s}
  BY <1>2, <1>4, <1>6, SuccIsAnother
<1> QED
  BY <1>4, <1>5, <1>7 DEF s

\* Without d, a lookup that found d finds its successor.
LEMMA SuccWithout ==
    ASSUME NEW r \in SUBSET Slaves, NEW d \in r, NEW e \in r, d # e, NEW h \in Nat
    PROVE  Ring!Succ(r \ {d}, h) =
              IF Ring!Succ(r, h) = d THEN Ring!SuccId(r, d) ELSE Ring!Succ(r, h)
<1>1. RP!Succ(r \ {d}, h) =
         IF RP!Succ(r, h) = d THEN RP!SuccId(r, d) ELSE RP!Succ(r, h)
  BY RingAssumed, RP!SuccAfterDelete
<1> QED
  BY <1>1, SameRing, SameNeighbours

\* Taking d off the ring of all slaves moves the vectors of d to its
\* successor, and the copies d had to the successor of those that had them.
LEMMA WithoutSlave ==
    ASSUME NEW d \in Slaves, Three, NEW h \in Nat
    PROVE  LET p == Ring!Primary(Slaves, h)
               b == Ring!Backup(Slaves, h)
               s == Ring!SuccId(Slaves, d)
           IN  /\ Ring!Primary(Slaves \ {d}, h) = IF p = d THEN s ELSE p
               /\ Ring!Backup(Slaves \ {d}, h) =
                     IF p = d THEN Ring!SuccId(Slaves, s)
                     ELSE IF b = d THEN s ELSE b
<1> DEFINE r == Slaves \ {d}
           p == Ring!Primary(Slaves, h)
           b == Ring!Backup(Slaves, h)
           s == Ring!SuccId(Slaves, d)
           q == Ring!Primary(r, h)
<1>1. PICK e \in Slaves : d # e
  BY DEF Three
<1>2. Slaves \in SUBSET Slaves /\ r \in SUBSET Slaves /\ r # {}
  BY <1>1
<1>3. ASSUME NEW k \in Nat
      PROVE  Ring!Succ(r, k) = IF Ring!Succ(Slaves, k) = d THEN s
                               ELSE Ring!Succ(Slaves, k)
  BY <1>1, <1>2, SuccWithout
<1>4. q = IF p = d THEN s ELSE p
  BY <1>3 DEF Ring!Primary
<1>5. q \in r /\ p \in Slaves /\ s \in Slaves
  BY <1>2, Lookups
<1>6. Hash[q] \in Nat
  <2> HIDE DEF q
  <2> QED
    BY <1>5, ClusterAssumption
<1>7. Ring!Backup(r, h) = Ring!Succ(r, Hash[q])
  BY <1>2, BackupIsSucc DEF Ring!SuccId
<1>8. Ring!Backup(r, h) = IF Ring!SuccId(Slaves, q) = d THEN s
                          ELSE Ring!SuccId(Slaves, q)
  BY <1>3, <1>6, <1>7 DEF Ring!SuccId
<1>9. CASE p = d
  BY <1>4, <1>8, <1>9, SuccOfSucc
<1>10. CASE p # d
  <2>1. Ring!SuccId(Slaves, q) = b
    BY <1>2, <1>4, <1>5, <1>10, BackupIsSucc
  <2> QED
    BY <1>4, <1>8, <1>10, <2>1
<1> QED
  BY <1>9, <1>10

\* The same, for the machines of a vector.
LEMMA MachinesOfVec ==
    ASSUME NEW r \in SUBSET Slaves, r # {}, NEW v \in Vecs
    PROVE  /\ First(r, v) \in r
           /\ Second(r, v) \in r
           /\ Second(r, v) = Ring!SuccId(r, First(r, v))
           /\ (\E a, b \in r : a # b) =>
                 /\ Second(r, v) # First(r, v)
                 /\ Ring!PredId(r, Second(r, v)) = First(r, v)
<1>1. VecHash[v] \in Nat
  BY ClusterAssumption
<1>2. First(r, v) \in r /\ Second(r, v) \in r
  BY <1>1, Lookups DEF First, Second
<1>3. Second(r, v) = Ring!SuccId(r, First(r, v))
  BY <1>1, BackupIsSucc DEF First, Second
<1>4. ASSUME NEW a \in r, NEW b \in r, a # b
      PROVE  /\ Second(r, v) # First(r, v)
             /\ Ring!PredId(r, Second(r, v)) = First(r, v)
  BY <1>1, <1>4, MachinesTwo, BackedUpIsPred DEF First, Second
<1> QED
  BY <1>2, <1>3, <1>4

LEMMA MachinesWithout ==
    ASSUME NEW d \in Slaves, Three, NEW v \in Vecs
    PROVE  /\ First(Slaves \ {d}, v) =
                 IF First(Slaves, v) = d THEN Ring!SuccId(Slaves, d)
                                         ELSE First(Slaves, v)
           /\ Second(Slaves \ {d}, v) =
                 IF First(Slaves, v) = d
                 THEN Ring!SuccId(Slaves, Ring!SuccId(Slaves, d))
                 ELSE IF Second(Slaves, v) = d THEN Ring!SuccId(Slaves, d)
                                               ELSE Second(Slaves, v)
<1>1. VecHash[v] \in Nat
  BY ClusterAssumption
<1> QED
  BY <1>1, WithoutSlave DEF First, Second

\* Few slaves are looked up as on the ring.
LEMMA FewAreExact ==
    ASSUME IInv, Few, NEW h
    PROVE  SuccAt(h) = {Ring!Succ(ring, h)} /\ PredAt(h) = {Ring!Pred(ring, h)}
<1>1. /\ Cardinality(ring) \in Nat
      /\ Cardinality(Slaves) \in Nat
      /\ Cardinality(ring) <= Cardinality(Slaves)
  BY SlavesFinite DEF IInv, TypeOK
<1>2. Cardinality(ring) <= 3
  BY <1>1 DEF Few
<1> QED
  BY <1>2 DEF SuccAt, PredAt, Exact

\* So are the machines of a vector.
LEMMA FewMachines ==
    ASSUME IInv, Few, NEW v \in Vecs
    PROVE  Machines(v) = {<<First(ring, v), Second(ring, v)>>}
<1>1. SuccAt(VecHash[v]) = {First(ring, v)}
  BY FewAreExact DEF First, Ring!Primary
<1>2. Backup(First(ring, v)) = Second(ring, v)
  BY DEF Backup, First, Second, Ring!Backup
<1> QED
  BY <1>1, <1>2 DEF Machines

-----------------------------------------------------------------------------
(* What is in a sequence *)

LEMMA RangeOfAppend ==
    ASSUME NEW S, NEW l \in Seq(S), NEW e \in S
    PROVE  Range(Append(l, e)) = Range(l) \cup {e}
<1>1. /\ DOMAIN l = 1..Len(l)
      /\ Len(l) \in Nat
      /\ DOMAIN Append(l, e) = 1..(Len(l) + 1)
      /\ \A k \in 1..Len(l) : Append(l, e)[k] = l[k]
      /\ Append(l, e)[Len(l) + 1] = e
  OBVIOUS
<1> QED
  BY <1>1 DEF Range

LEMMA RangeOfTail ==
    ASSUME NEW S, NEW l \in Seq(S), l # <<>>
    PROVE  Range(l) = {Head(l)} \cup Range(Tail(l))
<1>1. /\ DOMAIN l = 1..Len(l)
      /\ Len(l) \in Nat \ {0}
      /\ DOMAIN Tail(l) = 1..(Len(l) - 1)
      /\ \A k \in 1..(Len(l) - 1) : Tail(l)[k] = l[k + 1]
      /\ Head(l) = l[1]
  OBVIOUS
<1>2. ASSUME NEW k \in 1..Len(l)
      PROVE  l[k] \in {Head(l)} \cup Range(Tail(l))
  <2>1. CASE k = 1
    BY <1>1, <2>1
  <2>2. CASE k # 1
    <3>1. k - 1 \in 1..(Len(l) - 1) /\ Tail(l)[k - 1] = l[k]
      BY <1>1, <2>2
    <3> QED
      BY <1>1, <3>1 DEF Range
  <2> QED
    BY <2>1, <2>2
<1>3. ASSUME NEW k \in 1..(Len(l) - 1)
      PROVE  Tail(l)[k] \in Range(l)
  <2>1. k + 1 \in 1..Len(l) /\ Tail(l)[k] = l[k + 1]
    BY <1>1
  <2> QED
    BY <1>1, <2>1 DEF Range
<1>4. Head(l) \in Range(l)
  BY <1>1 DEF Range
<1> QED
  BY <1>1, <1>2, <1>3, <1>4 DEF Range

LEMMA RangeOfConcat ==
    ASSUME NEW S, NEW l \in Seq(S), NEW m \in Seq(S)
    PROVE  Range(l \o m) = Range(l) \cup Range(m)
<1>1. /\ DOMAIN l = 1..Len(l)
      /\ DOMAIN m = 1..Len(m)
      /\ Len(l) \in Nat /\ Len(m) \in Nat
      /\ DOMAIN (l \o m) = 1..(Len(l) + Len(m))
      /\ \A k \in 1..(Len(l) + Len(m)) :
            (l \o m)[k] = IF k <= Len(l) THEN l[k] ELSE m[k - Len(l)]
  OBVIOUS
<1>2. ASSUME NEW k \in 1..Len(m)
      PROVE  m[k] \in Range(l \o m)
  <2>1. k + Len(l) \in 1..(Len(l) + Len(m)) /\ (l \o m)[k + Len(l)] = m[k]
    BY <1>1
  <2> QED
    BY <1>1, <2>1 DEF Range
<1>3. ASSUME NEW k \in 1..Len(l)
      PROVE  l[k] \in Range(l \o m)
  <2>1. k \in 1..(Len(l) + Len(m)) /\ (l \o m)[k] = l[k]
    BY <1>1
  <2> QED
    BY <1>1, <2>1 DEF Range
<1>4. ASSUME NEW k \in 1..(Len(l) + Len(m))
      PROVE  (l \o m)[k] \in Range(l) \cup Range(m)
  BY <1>1 DEF Range
<1> QED
  BY <1>1, <1>2, <1>3, <1>4 DEF Range

LEMMA RangeOfSends ==
    ASSUME NEW src, NEW vecs, NEW dst
    PROVE  Range(Sends(src, vecs, dst)) = {<<src, v, dst>> : v \in Range(vecs)}
BY DEF Sends, Range

-----------------------------------------------------------------------------
(* The membership while a slave is reallocated *)

LEMMA WhileMoving ==
    ASSUME IInv, Moving
    PROVE  /\ dead_slave \in Slaves \ slavelist
           /\ ring = slavelist \cup {dead_slave}
           /\ slavelist \in SUBSET Slaves
           /\ slavelist # {}
           /\ alive \subseteq slavelist
BY SlavesFinite DEF IInv, TypeOK, MembershipAgrees, Removed, Moving

\* If it is the only one that died, all others run and are listed.
LEMMA LoneSurvivors ==
    ASSUME IInv, Moving, Lone
    PROVE  /\ ring = Slaves
           /\ alive = Slaves \ {dead_slave}
           /\ slavelist = alive
<1>1. dead_slave \in Dead
  BY WhileMoving DEF Dead
<1>2. \A s \in Slaves \ {dead_slave} : s \in alive
  BY <1>1 DEF Lone, Dead
<1> QED
  BY <1>2, WhileMoving

\* The dead stay dead.
LEMMA LoneBefore ==
    ASSUME alive' \subseteq alive, Lone'
    PROVE  Lone
BY DEF Lone, Dead

LEMMA InitRInv == Init => RInv
<1> SUFFICES ASSUME Init PROVE RInv
  OBVIOUS
<1>1. /\ pc = "loop" /\ puts = 0
      /\ \A v \in Vecs : committed[v] = 0
      /\ \A s \in Slaves : ~ detached[s] /\ Range(list[s]) = {}
  BY DEF Init, SetUp, Range
<1> QED
  BY <1>1 DEF RInv, Counted, Voted, Listed, Carried, Copying, Placed, Owed, Late

-----------------------------------------------------------------------------
(* One lemma for each action, or for those that do the same to the parts *)

\* A quiet step does not leave a push.
LEMMA QuietPush ==
    ASSUME pc = "push",
           \/ heartbeat \/ LeaveHeartbeat \/ Connected \/ Answered \/ Unanswered
           \/ Idle \/ VotesCommit \/ QueryDone
           \/ (\E lo, hi \in Vecs : lo <= hi /\ RangeQuery(lo, hi))
           \/ (\E s \in Slaves : Crash(s)) \/ SendFails \/ vars' = vars
    PROVE  pc' = "push"
BY DEF heartbeat, LeaveHeartbeat, Connected, Answered, Unanswered, Idle,
       VotesCommit, QueryDone, RangeQuery, Crash, SendFails, vars

LEMMA QuietRInv ==
    ASSUME IInv, RInv, UNCHANGED rest,
           alive' \subseteq alive,
           pc' \in {"copy", "send"} => Copying,
           pc' = "vote" => pc = "vote",
           pc' = "push" => pc \in {"vote", "push"},
           pc = "push" => pc' = "push",
           pc' = "segv_copy" => pc = "segv_copy" \/ ~ (Lone' /\ Three)
    PROVE  RInv'
<1> USE DEF rest, nodeVars, moveVars, putVars
<1>1. Counted'
  BY DEF RInv, Counted
<1>2. Voted'
  BY DEF RInv, Voted
<1>3. Listed'
  BY DEF RInv, Listed
<1>4. Carried'
  BY DEF RInv, Carried, Copying
<1>5. Placed'
  <2>1. SUFFICES ASSUME Lone', NEW v \in Vecs, committed[v] > 0,
                        NEW s \in Holders(ring, v) \cap alive'
                 PROVE  \/ store[s][v] = committed[v]
                        \/ pc' = "push" /\ vec = v /\ store[s][v] = puts
    BY DEF Placed
  <2> QED
    BY <2>1, LoneBefore DEF RInv, Placed
<1>6. Owed'
  BY LoneBefore DEF RInv, Owed, Copying, Handed
<1>7. Late'
  BY LoneBefore DEF RInv, Late
<1> QED
  BY <1>1, <1>2, <1>3, <1>4, <1>5, <1>6, <1>7 DEF RInv

\* A copy fails only if its source or its destination has died, and in the
\* reallocation of the first dead slave of three they are two others.
LEMMA SendFailsNotAlone ==
    ASSUME IInv, RInv, SendFails, Three
    PROVE  ~ Lone'
<1> SUFFICES ASSUME Lone' PROVE FALSE
  OBVIOUS
<1> DEFINE c == Head(copies)
<1>1. /\ pc = "send"
      /\ c[1] \notin alive \/ c[3] \notin alive \/ c[1] = c[3]
      /\ alive' \subseteq alive
  BY DEF SendFails
<1>2. Moving /\ Copying /\ Lone
  BY <1>1, LoneBefore DEF Moving, Copying
<1>3. c \in Range(copies)
  <2>1. copies # <<>> /\ copies \in Seq(Slaves \X Vecs \X (Slaves \cup {NoSlave}))
    BY <1>1 DEF IInv, TypeOK, Removed
  <2> QED
    BY <2>1, RangeOfTail
<1> HIDE DEF c
<1>4. c[1] \in slavelist /\ c[3] \in slavelist \ {c[1]}
  BY <1>2, <1>3, LoneSurvivors DEF RInv, Carried
<1> QED
  BY <1>1, <1>2, <1>4, LoneSurvivors

\* Steps that touch neither vectors nor lists nor the ring, and lead to where
\* nothing is put or copied
LEMMA StaticRInv ==
    ASSUME RInv, UNCHANGED <<alive, store, ring, list, detached, puts, committed>>,
           pc # "push",
           pc' \notin {"vote", "push", "copy", "send", "segv_copy"}
    PROVE  RInv'
BY DEF RInv, Counted, Voted, Listed, Carried, Copying, Placed, Owed, Late, Lone, Dead

\* reallocate finds what is on the lists of the dead slave and of its
\* predecessor, and its own neighbours' neighbours.
LEMMA ReallocateRInv == ASSUME IInv, RInv, Few, reallocate  PROVE RInv'
<1> USE DEF slaveVars, beatVars, nodeVars, putVars
<1> DEFINE d == dead_slave
           s == Ring!SuccId(ring, d)
           p == Ring!PredId(ring, d)
<1>0. pc = "reallocate" /\ Reallocate(p, s, Ring!SuccId(ring, s))
  BY FewAreExact DEF reallocate, Ring!SuccId, Ring!PredId
<1>1. /\ pc = "reallocate" /\ pc' = "copy"
      /\ succ' = s
      /\ UNCHANGED <<alive, store, ring, slavelist, dead_slave, list, detached,
                     puts, vec, targets, committed>>
  BY <1>0 DEF Reallocate
<1>2. PICK q \in Found(Ring!SuccId(ring, s)) :
         copies' = (IF p = s THEN <<>> ELSE Sends(p, list[p], s))
                   \o Sends(s, list[d], q)
  BY <1>0 DEF Reallocate
<1>3. /\ d \in Slaves \ slavelist
      /\ ring = slavelist \cup {d}
      /\ ring \in SUBSET Slaves
      /\ slavelist # {}
  BY <1>1, WhileMoving DEF Moving
<1>4. s \in slavelist /\ p \in Slaves
  <2>1. s \in ring \ {d}
    BY <1>3, SuccIsAnother
  <2>2. p \in ring
    BY <1>3, Lookups
  <2> QED
    BY <1>3, <2>1, <2>2
<1>5. s \in Slaves /\ q \in Slaves \cup {NoSlave}
  BY <1>2, <1>3, <1>4 DEF Found
<1> DEFINE Copy == Slaves \X Vecs \X (Slaves \cup {NoSlave})
           toSucc == IF p = s THEN {} ELSE {<<p, v, s>> : v \in Range(list[p])}
           fromSucc == {<<s, v, q>> : v \in Range(list[d])}
<1>6. Range(copies') = toSucc \cup fromSucc
  <2> HIDE DEF d, s, p
  <2>1. list[p] \in Seq(Vecs) /\ list[d] \in Seq(Vecs)
    BY <1>3, <1>4 DEF IInv, TypeOK
  <2>2. /\ Sends(p, list[p], s) \in Seq(Copy)
        /\ Sends(s, list[d], q) \in Seq(Copy)
    BY <1>4, <1>5, <2>1, SendsType
  <2> DEFINE front == IF p = s THEN <<>> ELSE Sends(p, list[p], s)
             back == Sends(s, list[d], q)
  <2>3. <<>> \in Seq(Copy) /\ Range(<<>>) = {}
    BY DEF Range
  <2>4. front \in Seq(Copy) /\ back \in Seq(Copy) /\ copies' = front \o back
    BY <1>2, <2>2, <2>3
  <2>5. /\ Range(Sends(p, list[p], s)) = {<<p, v, s>> : v \in Range(list[p])}
        /\ Range(Sends(s, list[d], q)) = {<<s, v, q>> : v \in Range(list[d])}
    BY RangeOfSends
  <2>6. Range(front) = toSucc
    BY <2>3, <2>5, Zenon
  <2>7. Range(back) = fromSucc
    BY <2>5, Zenon
  <2> HIDE DEF front, back, Copy, toSucc, fromSucc
  <2> QED
    BY <2>4, <2>6, <2>7, RangeOfConcat
<1> HIDE DEF toSucc, fromSucc
\* Whose vectors are on the two lists, when this is the first reallocation
<1>7. ASSUME ring = Slaves
      PROVE  /\ \A v \in Range(list[d]) : v \in Vecs /\ First(ring, v) = d
             /\ \A v \in Range(list[p]) : v \in Vecs /\ First(ring, v) = p
             /\ \A v \in Vecs : First(ring, v) = d => Second(ring, v) = s
             /\ \A v \in Vecs : Second(ring, v) = d => First(ring, v) = p
             /\ Three => q \in slavelist \ {s} /\ q = Ring!SuccId(ring, s)
  <2>1. list \in [Slaves -> Seq(Vecs)]
    BY DEF IInv, TypeOK
  <2>2. /\ \A v \in Range(list[d]) : v \in Vecs /\ First(ring, v) = d
        /\ \A v \in Range(list[p]) : v \in Vecs /\ First(ring, v) = p
    <3> HIDE DEF p, d
    <3>1. \A t \in Slaves : \A v \in Range(list[t]) : v \in Vecs
      BY <2>1 DEF Range
    <3>2. \A t \in Slaves : \A v \in Range(list[t]) : First(ring, v) = t
      BY <1>7 DEF RInv, Listed
    <3> QED
      BY <1>3, <1>4, <3>1, <3>2
  <2>3. \A v \in Vecs : First(ring, v) = d => Second(ring, v) = s
    BY <1>3, MachinesOfVec
  <2>4. \A v \in Vecs : Second(ring, v) = d => First(ring, v) = p
    <3>1. d \in ring /\ s \in ring /\ d # s
      BY <1>3, <1>4
    <3> QED
      BY <1>3, <3>1, MachinesOfVec
  <2>5. ASSUME Three
        PROVE  q \in slavelist \ {s} /\ q = Ring!SuccId(ring, s)
    <3>1. Ring!SuccId(ring, s) \in Slaves \ {d, s}
      BY <1>3, <1>7, <2>5, SuccOfSucc
    <3>2. Ring!SuccId(ring, s) \in slavelist
      BY <1>3, <1>7, <3>1
    <3> QED
      BY <1>2, <3>1, <3>2 DEF Found
  <2> QED
    BY <2>2, <2>3, <2>4, <2>5
<1>8. Counted' /\ Voted' /\ Listed' /\ Placed' /\ Late'
  BY <1>1 DEF RInv, Counted, Voted, Listed, Placed, Late, Lone, Dead
<1>9. Carried'
  <2>1. SUFFICES ASSUME ring = Slaves, NEW c \in Range(copies')
                 PROVE  /\ c[1] \in Holders(ring, c[2]) \cap slavelist
                        /\ Three => c[3] \in slavelist \ {c[1]}
    BY <1>1 DEF Carried
  <2>2. CASE c \in fromSucc
    BY <1>4, <1>7, <2>1, <2>2 DEF fromSucc, Holders
  <2>3. CASE c \in toSucc
    <3>1. p # s /\ c \in {<<p, v, s>> : v \in Range(list[p])}
      BY <2>3 DEF toSucc
    <3>2. p \in slavelist
      <4>1. p \in ring \ {d}
        BY <1>3, PredIsAnother
      <4> QED
        BY <1>3, <4>1
    <3> QED
      BY <1>4, <1>7, <2>1, <3>1, <3>2 DEF Holders
  <2> QED
    BY <1>6, <2>1, <2>2, <2>3
<1>10. Owed'
  <2>1. ASSUME Lone', Three, NEW v \in Vecs, committed[v] > 0
        PROVE  /\ First(ring, v) = d =>
                     <<s, v, Ring!SuccId(ring, s)>> \in Range(copies')
               /\ Second(ring, v) = d =>
                     \/ <<First(ring, v), v, s>> \in Range(copies')
                     \/ store[s][v] = committed[v]
    <3>1. Lone /\ ring = Slaves /\ slavelist = alive
      BY <1>1, <2>1, LoneSurvivors, LoneBefore DEF Moving
    <3>2. v \in Range(list[First(ring, v)])
      BY <2>1, <3>1 DEF RInv, Listed
    <3>3. ASSUME First(ring, v) = d
          PROVE  <<s, v, Ring!SuccId(ring, s)>> \in Range(copies')
      <4>1. v \in Range(list[d]) /\ q = Ring!SuccId(ring, s)
        BY <1>7, <2>1, <3>1, <3>2, <3>3
      <4> HIDE DEF d, s
      <4>2. <<s, v, q>> \in fromSucc
        BY <4>1 DEF fromSucc
      <4> QED
        BY <1>6, <4>1, <4>2
    <3>4. ASSUME Second(ring, v) = d, p # s
          PROVE  <<First(ring, v), v, s>> \in Range(copies')
      <4>1. First(ring, v) = p
        BY <1>7, <3>1, <3>4
      <4>2. v \in Range(list[p])
        BY <3>2, <4>1
      <4> HIDE DEF d, s, p
      <4>3. <<p, v, s>> \in toSucc
        BY <3>4, <4>2 DEF toSucc
      <4> QED
        BY <1>6, <4>1, <4>3
    <3>5. ASSUME Second(ring, v) = d, p = s
          PROVE  store[s][v] = committed[v]
      <4>1. s \in Holders(ring, v) \cap alive
        BY <1>4, <1>7, <3>1, <3>5 DEF Holders
      <4> QED
        BY <1>1, <2>1, <3>1, <4>1 DEF RInv, Placed
    <3> QED
      BY <3>3, <3>4, <3>5
  <2> HIDE DEF s, p, d
  <2>2. succ' = s /\ ring' = ring /\ dead_slave' = d /\ store' = store
        /\ committed' = committed
    BY <1>1 DEF d
  <2> QED
    BY <2>1, <2>2 DEF Owed, Handed
<1> QED
  BY <1>8, <1>9, <1>10 DEF RInv

\* send_vector skips a source that it cannot reach, which is not one of the
\* sources while a single slave is dead.
LEMMA ConnectRInv == ASSUME IInv, RInv, ConnectSource  PROVE RInv'
<1> USE DEF slaveVars, beatVars, nodeVars, putVars
<1>1. /\ pc = "copy" /\ pc' \in {"copy", "send"}
      /\ copies # <<>>
      /\ copies' \in {copies, Tail(copies)}
      /\ Head(copies)[1] \in alive => copies' = copies
      /\ UNCHANGED <<alive, store, ring, slavelist, dead_slave, succ, list,
                     detached, puts, vec, targets, committed>>
  BY DEF ConnectSource
<1>2. copies \in Seq(Slaves \X Vecs \X (Slaves \cup {NoSlave}))
  BY DEF IInv, TypeOK
<1>3. Head(copies) \in Range(copies) /\ Range(copies') \subseteq Range(copies)
  BY <1>1, <1>2, RangeOfTail
<1>4. Copying /\ Moving /\ Copying'
  BY <1>1 DEF Copying, Moving
<1>5. Counted' /\ Voted' /\ Listed' /\ Placed' /\ Late'
  BY <1>1 DEF RInv, Counted, Voted, Listed, Placed, Late, Lone, Dead
<1>6. Carried'
  BY <1>1, <1>3, <1>4 DEF RInv, Carried
<1>7. Owed'
  <2>1. SUFFICES ASSUME Lone'  PROVE Owed'
    BY DEF Owed
  <2>2. Lone /\ ring = Slaves /\ slavelist = alive
    BY <1>1, <1>4, <2>1, LoneBefore, LoneSurvivors
  <2>3. copies' = copies
    BY <1>1, <1>3, <1>4, <2>2 DEF RInv, Carried
  <2> QED
    BY <1>1, <1>4, <2>2, <2>3 DEF RInv, Owed, Handed
<1> QED
  BY <1>5, <1>6, <1>7 DEF RInv

\* A copy brings the version that is stored.
LEMMA SendRInv == ASSUME IInv, RInv, SendVector  PROVE RInv'
<1> USE DEF beatVars, nodeVars, putVars
<1> DEFINE src == Head(copies)[1]
           v   == Head(copies)[2]
           dst == Head(copies)[3]
           val == IF store[src][v] = Absent THEN Empty ELSE store[src][v]
<1>1. /\ pc = "send" /\ pc' \in {"copy", "segv_late"}
      /\ dst \in alive \ {src}
      /\ store' = [store EXCEPT ![dst][v] = val]
      /\ copies' = Tail(copies)
      /\ UNCHANGED <<alive, ring, slavelist, dead_slave, succ, list, detached,
                     puts, vec, targets, committed>>
  BY DEF SendVector
<1>2. /\ copies # <<>>
      /\ copies \in Seq(Slaves \X Vecs \X (Slaves \cup {NoSlave}))
  BY <1>1 DEF IInv, TypeOK, Removed
<1>3. /\ Range(copies) = {<<src, v, dst>>} \cup Range(copies')
      /\ src \in Slaves /\ v \in Vecs
  <2>1. Range(copies) = {Head(copies)} \cup Range(Tail(copies))
    BY <1>2, RangeOfTail
  <2>2. Head(copies) \in Slaves \X Vecs \X (Slaves \cup {NoSlave})
    BY <1>2
  <2>3. Head(copies) = <<src, v, dst>>
    BY <2>2
  <2> QED
    BY <1>1, <2>1, <2>2, <2>3
<1>4. Copying /\ Moving
  BY <1>1 DEF Copying, Moving
<1>5. dst \in Slaves
  BY <1>1 DEF IInv, TypeOK
<1> HIDE DEF src, dst, v
<1>6. \A s \in Slaves, w \in Vecs :
         store'[s][w] = IF s = dst /\ w = v THEN val ELSE store[s][w]
  <2> HIDE DEF val
  <2>1. TypeOK /\ store' = [store EXCEPT ![dst][v] = val]
    BY <1>1 DEF IInv
  <2>2. store \in [Slaves -> [Vecs -> {Absent, Empty} \cup Versions]]
    BY <2>1 DEF TypeOK
  <2>3. ASSUME NEW s \in Slaves
        PROVE  store'[s] = IF s = dst THEN [store[dst] EXCEPT ![v] = val] ELSE store[s]
    BY <1>5, <2>1, <2>2
  <2>4. \A s \in Slaves : DOMAIN store[s] = Vecs
    BY <2>2
  <2> QED
    BY <1>3, <1>5, <2>3, <2>4
<1>7. ASSUME Lone, committed[v] > 0
      PROVE  val = committed[v]
  <2>1. ring = Slaves /\ slavelist = alive
    BY <1>4, <1>7, LoneSurvivors
  <2>2. <<src, v, dst>>[1] = src /\ <<src, v, dst>>[2] = v
    OBVIOUS
  <2>3. src \in Holders(ring, v) \cap alive
    BY <1>3, <1>4, <2>1, <2>2 DEF RInv, Carried
  <2>4. store[src][v] = committed[v]
    BY <1>1, <1>3, <1>7, <2>3 DEF RInv, Placed
  <2> QED
    BY <1>7, <2>4 DEF Absent
<1> HIDE DEF val
<1>8. Counted' /\ Voted' /\ Listed' /\ Late'
  BY <1>1 DEF RInv, Counted, Voted, Listed, Late
<1>9. Carried'
  BY <1>1, <1>3, <1>4 DEF RInv, Carried
<1>10. Lone' => Lone
  BY <1>1, LoneBefore
<1>11. Placed'
  <2>1. SUFFICES ASSUME Lone, NEW w \in Vecs, committed[w] > 0,
                        NEW s \in Holders(ring, w) \cap alive
                 PROVE  store'[s][w] = committed[w]
    BY <1>1, <1>10 DEF Placed
  <2>2. store[s][w] = committed[w]
    BY <1>1, <2>1 DEF RInv, Placed
  <2>3. s \in Slaves
    BY DEF IInv, TypeOK
  <2> QED
    BY <1>6, <1>7, <2>1, <2>2, <2>3
<1>12. Owed'
  <2>1. ASSUME Lone, Three, NEW w \in Vecs, committed[w] > 0,
               NEW from, NEW to \in Slaves, Handed(from, w, to)
        PROVE  <<from, w, to>> \in Range(copies') \/ store'[to][w] = committed[w]
    <3>1. CASE <<from, w, to>> \in Range(copies')
      BY <3>1
    <3>2. CASE store[to][w] = committed[w]
      BY <1>6, <1>7, <2>1, <3>2
    <3>3. CASE <<from, w, to>> = <<src, v, dst>>
      BY <1>6, <1>7, <2>1, <3>3
    <3> QED
      BY <1>3, <2>1, <3>1, <3>2, <3>3 DEF Handed
  <2>2. succ \in Slaves /\ ring \in SUBSET Slaves /\ ring # {}
    BY <1>4, WhileMoving DEF IInv, TypeOK, Removed, Copying
  <2>3. Ring!SuccId(ring, succ) \in Slaves
    BY <2>2, Lookups
  <2>4. SUFFICES ASSUME Lone, Three, NEW w \in Vecs, committed[w] > 0
                 PROVE  /\ First(ring, w) = dead_slave =>
                              \/ <<succ, w, Ring!SuccId(ring, succ)>> \in Range(copies')
                              \/ store'[Ring!SuccId(ring, succ)][w] = committed[w]
                        /\ Second(ring, w) = dead_slave =>
                              \/ <<First(ring, w), w, succ>> \in Range(copies')
                              \/ store'[succ][w] = committed[w]
    BY <1>1, <1>10 DEF Owed, Handed
  <2> QED
    BY <1>4, <2>1, <2>2, <2>3, <2>4 DEF RInv, Owed
<1> QED
  BY <1>8, <1>9, <1>11, <1>12 DEF RInv

\* When the first dead slave leaves the ring, its successor and the
\* successor's successor have what they are the machines of.
LEMMA JoinRInv == ASSUME IInv, RInv, JoinLists  PROVE RInv'
<1> USE DEF slaveVars, beatVars, moveVars, putVars
<1> DEFINE d == dead_slave
<1>1. /\ pc = "copy" /\ copies = <<>>
      /\ UNCHANGED <<alive, store, list, puts, vec, targets, committed>>
  BY DEF JoinLists
<1>2. CASE list[d] = <<>>
  <2>1. pc' = "segv_join" /\ UNCHANGED <<detached, ring>>
    BY <1>2 DEF JoinLists
  <2> QED
    BY <1>1, <2>1, StaticRInv
<1>3. CASE list[d] # <<>>
  <2>1. pc' = "ping" /\ ring' = ring \ {d}
    BY <1>3 DEF JoinLists, delete_entry
  <2>2. Copying /\ Moving
    BY <1>1 DEF Copying, Moving
  <2>3. d \in Slaves \ slavelist /\ slavelist # {} /\ slavelist \in SUBSET Slaves
    BY <2>2, WhileMoving
  <2>4. ring' # Slaves
    BY <2>1, <2>3
  <2>5. Counted' /\ Voted' /\ Listed' /\ Carried' /\ Owed' /\ Late'
    BY <1>1, <2>1, <2>4 DEF RInv, Counted, Voted, Listed, Carried, Copying, Owed, Late
  <2>6. ASSUME Lone', NEW v \in Vecs, committed[v] > 0,
               NEW s \in Holders(ring', v) \cap alive
        PROVE  store[s][v] = committed[v]
    <3>1. Lone
      BY <1>1, <2>6, LoneBefore
    <3>2. ring = Slaves /\ alive = Slaves \ {d} /\ slavelist = alive
      BY <2>2, <3>1, LoneSurvivors
    <3>3. \A m \in Holders(ring, v) \cap alive : store[m][v] = committed[v]
      BY <1>1, <2>6, <3>1 DEF RInv, Placed
    <3>4. s \in {First(Slaves \ {d}, v), Second(Slaves \ {d}, v)}
      BY <2>1, <2>6, <3>2 DEF Holders
    <3>5. CASE Three
      <4>1. succ = Ring!SuccId(Slaves, d)
        BY <2>2, <3>2 DEF RInv, Carried
      <4>2. Range(copies) = {}
        BY <1>1 DEF Range
      <4>3. /\ First(Slaves, v) = d =>
                  store[Ring!SuccId(Slaves, succ)][v] = committed[v]
            /\ Second(Slaves, v) = d => store[succ][v] = committed[v]
        BY <2>2, <2>6, <3>1, <3>2, <3>5, <4>2 DEF RInv, Owed, Handed
      <4>4. First(Slaves, v) = d => Second(Slaves, v) = succ
        BY <4>1, MachinesOfVec, ClusterAssumption
      <4> HIDE DEF d
      <4>5. s \in Holders(ring, v) \/ store[s][v] = committed[v]
        BY <2>3, <3>2, <3>4, <3>5, <4>1, <4>3, <4>4, MachinesWithout DEF Holders, d
      <4> QED
        BY <2>6, <3>3, <4>5
    <3>6. CASE ~ Three
      <4>1. PICK e \in Slaves : e # d
        BY <2>3
      <4>2. /\ First(Slaves, v) \in Slaves /\ Second(Slaves, v) \in Slaves
            /\ First(Slaves, v) # Second(Slaves, v)
        <5>1. Slaves \in SUBSET Slaves /\ Slaves # {}
          BY <4>1
        <5> QED
          BY <2>3, <4>1, <5>1, MachinesOfVec
      <4>3. s \in Slaves /\ s # d
        BY <2>6, <3>2
      <4>4. s \in Holders(ring, v)
        BY <3>2, <3>6, <4>2, <4>3 DEF Three, Holders
      <4> QED
        BY <2>6, <3>3, <4>4
    <3> QED
      BY <3>5, <3>6
  <2>7. Placed'
    BY <1>1, <2>1, <2>6 DEF Placed
  <2> QED
    BY <2>5, <2>7 DEF RInv
<1> QED
  BY <1>2, <1>3

LEMMA PushRInv == ASSUME IInv, RInv, NEW s \in Slaves, Push(s)  PROVE RInv'
<1> USE DEF beatVars, nodeVars, moveVars
<1>1. /\ pc = "push" /\ pc' = "push"
      /\ targets' = targets \ {s}
      /\ store' = IF s \in alive THEN [store EXCEPT ![s][vec] = puts] ELSE store
      /\ UNCHANGED <<alive, ring, list, detached, puts, vec, committed>>
  BY DEF Push
<1>2. vec \in Vecs /\ alive \subseteq Slaves
      /\ store \in [Slaves -> [Vecs -> {Absent, Empty} \cup Versions]]
  BY <1>1 DEF IInv, TypeOK, Putting
<1>3. \A m \in alive, w \in Vecs :
         store'[m][w] = IF m = s /\ w = vec THEN puts ELSE store[m][w]
  <2>1. ASSUME NEW m \in alive
        PROVE  store'[m] = IF m = s THEN [store[s] EXCEPT ![vec] = puts] ELSE store[m]
    BY <1>1, <1>2
  <2>2. \A m \in Slaves : DOMAIN store[m] = Vecs
    BY <1>2
  <2> QED
    BY <1>2, <2>1, <2>2
<1>4. Counted' /\ Listed' /\ Carried' /\ Owed' /\ Late'
  BY <1>1 DEF RInv, Counted, Listed, Carried, Copying, Owed, Late
<1>5. Voted'
  BY <1>1, <1>2, <1>3 DEF RInv, Voted
<1>6. Placed'
  <2>1. SUFFICES ASSUME Lone, NEW w \in Vecs, committed[w] > 0,
                        NEW m \in Holders(ring, w) \cap alive
                 PROVE  \/ store'[m][w] = committed[w]
                        \/ vec = w /\ store'[m][w] = puts
    BY <1>1 DEF Placed, Lone, Dead
  <2> QED
    BY <1>1, <1>3, <2>1 DEF RInv, Placed
<1> QED
  BY <1>4, <1>5, <1>6 DEF RInv

LEMMA CommittedRInv == ASSUME IInv, RInv, Committed  PROVE RInv'
<1> USE DEF slaveVars, beatVars, nodeVars, moveVars
<1>1. /\ pc = "push" /\ pc' = "loop" /\ targets = {}
      /\ committed' = [committed EXCEPT ![vec] = puts]
      /\ UNCHANGED <<alive, store, ring, list, detached, puts, vec>>
  BY DEF Committed
<1>2. vec \in Vecs /\ committed \in [Vecs -> 0..MaxPuts] /\ puts \in Nat
  BY <1>1, ClusterAssumption DEF IInv, TypeOK, Putting
<1>3. \A v \in Vecs : committed'[v] = IF v = vec THEN puts ELSE committed[v]
  BY <1>1, <1>2
<1>4. Counted'
  BY <1>1, <1>2, <1>3 DEF RInv, Counted
<1>5. Listed'
  BY <1>1, <1>3 DEF RInv, Listed
<1>6. Voted' /\ Carried' /\ Owed' /\ Late'
  BY <1>1 DEF Voted, Carried, Copying, Owed, Late
<1>7. Placed'
  <2>1. SUFFICES ASSUME Lone, NEW v \in Vecs, committed'[v] > 0,
                        NEW m \in Holders(ring, v) \cap alive
                 PROVE  store[m][v] = committed'[v]
    BY <1>1 DEF Placed, Lone, Dead
  <2>2. CASE v = vec
    BY <1>1, <1>3, <2>1, <2>2 DEF RInv, Voted
  <2>3. CASE v # vec
    BY <1>3, <2>1, <2>3 DEF RInv, Placed
  <2> QED
    BY <2>2, <2>3
<1> QED
  BY <1>4, <1>5, <1>6, <1>7 DEF RInv

\* A put finds its machines on the ring; when one slave is listed, they are
\* this one.
LEMMA PutRInv == ASSUME IInv, RInv, Few, NEW v \in Vecs, Put(v)  PROVE RInv'
<1> USE DEF slaveVars, beatVars, nodeVars, moveVars
<1> DEFINE p == First(ring, v)
<1>1. PutOn(v, p, Second(ring, v))
  BY FewMachines DEF Put
<1>2. /\ pc = "serve"
      /\ UNCHANGED <<alive, store, ring, slavelist, replication_factor, committed>>
  BY <1>1 DEF PutOn
<1>3. CASE p \notin slavelist
  <2>1. pc' = "segv_list" /\ UNCHANGED <<list, detached, puts>>
    BY <1>1, <1>3 DEF PutOn
  <2> QED
    BY <1>2, <2>1, StaticRInv
<1>4. CASE p \in slavelist
  <2> HIDE DEF p
  <2>1. /\ pc' = "vote"
        /\ list' = [list EXCEPT ![p] =
                      IF @ # <<>> /\ detached[p] THEN @ ELSE Append(@, v)]
        /\ detached' = [detached EXCEPT ![p] = @ /\ list[p] # <<>>]
        /\ puts' = puts + 1
        /\ vec' = v
        /\ targets' = IF replication_factor = 1 THEN {p} ELSE {p, Second(ring, v)}
    BY <1>1, <1>4 DEF PutOn
  <2>2. /\ slavelist \in SUBSET Slaves /\ p \in Slaves
        /\ list \in [Slaves -> Seq(Vecs)]
        /\ detached \in [Slaves -> BOOLEAN]
        /\ committed \in [Vecs -> Nat] /\ puts \in Nat
    <3>1. TypeOK /\ MaxPuts \in Nat
      BY ClusterAssumption DEF IInv
    <3>2. committed \in [Vecs -> 0..MaxPuts] /\ puts \in 0..MaxPuts
      BY <3>1 DEF TypeOK
    <3>3. committed \in [Vecs -> Nat] /\ puts \in Nat
      BY <3>1, <3>2
    <3>4. slavelist \in SUBSET Slaves
      BY <3>1 DEF TypeOK
    <3> QED
      BY <1>4, <3>1, <3>3, <3>4 DEF TypeOK
  <2>3. /\ Cardinality(slavelist) \in Nat /\ num_slaves = Cardinality(slavelist)
        /\ num_slaves # 0 /\ ring = slavelist
    BY <1>2, <1>4, <2>2, SlavesFinite DEF IInv, MembershipAgrees
  <2>4. ASSUME replication_factor = 1
        PROVE  Second(ring, v) = p
    <3>1. Cardinality(slavelist) <= 1
      BY <2>3, <2>4 DEF IInv, MembershipAgrees
    <3>2. Cardinality(slavelist \ {p}) = Cardinality(slavelist) - 1
      BY <1>4, <2>2, SlavesFinite, FS_RemoveElement
    <3>3. Cardinality(slavelist \ {p}) \in Nat /\ slavelist \ {p} \in SUBSET Slaves
      BY <2>2, SlavesFinite
    <3>4. slavelist \ {p} = {}
      BY <2>3, <3>1, <3>2, <3>3, SlavesFinite
    <3>5. Second(ring, v) \in slavelist
      BY <1>4, <2>2, <2>3, MachinesOfVec
    <3> QED
      BY <3>4, <3>5
  <2>5. Counted'
    BY <1>2, <2>1, <2>2 DEF RInv, Counted
  <2>6. Voted'
    BY <1>2, <2>1, <2>4 DEF Voted, Holders, p
  <2>7. Carried' /\ Owed' /\ Late'
    BY <2>1 DEF Carried, Copying, Owed, Late
  <2>8. Placed'
    BY <1>2, <2>1 DEF RInv, Placed, Lone, Dead
  <2>9. Listed'
    <3>1. SUFFICES ASSUME ring = Slaves  PROVE Listed'
      BY <1>2 DEF Listed
    <3>2. \A s \in Slaves : ~ detached[s]
      BY <3>1 DEF RInv, Listed
    <3>3. \A s \in Slaves : ~ detached'[s]
      BY <2>1, <2>2, <3>2
    <3>4. ASSUME NEW s \in Slaves
          PROVE  Range(list'[s]) = IF s = p THEN Range(list[s]) \cup {v}
                                            ELSE Range(list[s])
      <4>1. list'[s] = IF s = p THEN Append(list[s], v) ELSE list[s]
        BY <2>1, <2>2, <3>2
      <4>2. list[s] \in Seq(Vecs)
        BY <2>2
      <4>3. Range(Append(list[s], v)) = Range(list[s]) \cup {v}
        BY <4>2, RangeOfAppend
      <4> QED
        BY <4>1, <4>3
    <3>5. \A s \in Slaves : \A w \in Range(list[s]) : First(ring, w) = s
      BY <3>1 DEF RInv, Listed
    <3>6. \A s \in Slaves : \A w \in Range(list'[s]) : First(ring, w) = s
      BY <3>4, <3>5 DEF p
    <3>7. ASSUME NEW w \in Vecs, committed[w] > 0 \/ w = v
          PROVE  w \in Range(list'[First(ring, w)])
      <4>1. First(ring, w) \in Slaves
        BY <2>2, <2>3, <1>4, MachinesOfVec
      <4>2. CASE w = v
        BY <3>4, <4>1, <4>2 DEF p
      <4>3. CASE committed[w] > 0
        <5>1. w \in Range(list[First(ring, w)])
          BY <3>1, <4>3 DEF RInv, Listed
        <5> QED
          BY <3>4, <4>1, <5>1
      <4> QED
        BY <3>7, <4>2, <4>3
    <3> QED
      BY <1>2, <2>1, <3>3, <3>6, <3>7 DEF Listed
  <2> QED
    BY <2>5, <2>6, <2>7, <2>8, <2>9 DEF RInv
<1> QED
  BY <1>3, <1>4

-----------------------------------------------------------------------------
(* Every step, and the theorems *)

LEMMA NextRInv == ASSUME IInv, RInv, Few, [Next]_vars  PROVE RInv'
<1> DEFINE Quiet ==
        \/ heartbeat \/ LeaveHeartbeat \/ Connected \/ Answered \/ Unanswered
        \/ Idle \/ VotesCommit \/ QueryDone
        \/ (\E lo, hi \in Vecs : lo <= hi /\ RangeQuery(lo, hi))
        \/ (\E s \in Slaves : Crash(s)) \/ SendFails \/ vars' = vars
<1>1. CASE Quiet
  <2>1. TypeOK
    BY DEF IInv
  <2>2. /\ UNCHANGED rest
        /\ alive' \subseteq alive
        /\ pc' = "push" => pc \in {"vote", "push"}
        /\ \/ pc' = pc
           \/ pc' = "segv_copy" /\ pc = "send"
           \/ /\ pc \notin {"reallocate", "copy", "send"} \cup Segfaults
              /\ pc' \in {"loop", "ping", "pong", "serve", "push", "query",
                          "segv_ping", "segv_query"}
    BY <1>1, <2>1, QuietSteps
  <2>3. pc = "push" => pc' = "push"
    BY <1>1, QuietPush
  <2>4. CASE SendFails
    BY <2>2, <2>3, <2>4, SendFailsNotAlone, QuietRInv DEF Copying
  <2>5. CASE ~ SendFails
    <3>1. pc' = "segv_copy" => pc = "segv_copy"
      BY <1>1, <2>5 DEF heartbeat, EnterHeartbeat, LeaveHeartbeat, Connected,
             Answered, Unanswered, Idle, VotesCommit, QueryDone, RangeQuery, Ask,
             Crash, vars, IInv, TypeOK
    <3> QED
      BY <2>2, <2>3, <3>1, QuietRInv DEF Copying
  <2> QED
    BY <2>4, <2>5
<1>2. CASE remove_slave
  <2>1. /\ pc = "ping" /\ pc' \in {resume, "reallocate"}
        /\ UNCHANGED <<alive, store, ring, list, detached, puts, committed>>
    BY <1>2 DEF remove_slave, slaveVars, putVars
  <2>2. resume \in {"loop", "serve"}
    BY DEF IInv, TypeOK
  <2> QED
    BY <2>1, <2>2, StaticRInv
<1>3. CASE reallocate
  BY <1>3, ReallocateRInv
<1>4. CASE ConnectSource
  BY <1>4, ConnectRInv
<1>5. CASE SendVector
  BY <1>5, SendRInv
<1>6. CASE JoinLists
  BY <1>6, JoinRInv
<1>7. CASE VotesAbort
  <2>1. /\ pc = "vote" /\ pc' = "ping"
        /\ UNCHANGED <<alive, store, ring, list, detached, puts, committed>>
    BY <1>7 DEF VotesAbort, EnterHeartbeat, slaveVars, nodeVars
  <2> QED
    BY <2>1, StaticRInv
<1>8. CASE \E s \in Slaves : Push(s)
  BY <1>8, PushRInv
<1>9. CASE Committed
  BY <1>9, CommittedRInv
<1>10. CASE \E v \in Vecs : Put(v)
  BY <1>10, PutRInv
<1> QED
  BY <1>1, <1>2, <1>3, <1>4, <1>5, <1>6, <1>7, <1>8, <1>9, <1>10
  DEF Next, Master, Request

LEMMA SpecRInv == ASSUME Few  PROVE Spec => [](IInv /\ RInv)
BY InitIInv, InitRInv, NextIInv, NextRInv, PTL DEF Spec

\* Lone and Three, counted
LEMMA CountedDead ==
    ASSUME Cardinality(Dead) <= 1
    PROVE  Lone
<1> SUFFICES ASSUME NEW a \in Dead, NEW b \in Dead, a # b
             PROVE  Cardinality(Dead) >= 2
  BY SlavesFinite DEF Lone, Dead
<1>1. IsFiniteSet(Dead) /\ Cardinality(Dead) \in Nat
  BY SlavesFinite DEF Dead
<1>2. /\ Cardinality(Dead \ {a}) = Cardinality(Dead) - 1
      /\ IsFiniteSet(Dead \ {a})
  BY <1>1, FS_RemoveElement
<1>3. Cardinality(Dead \ {a}) \in Nat /\ Cardinality(Dead \ {a}) # 0
  BY <1>2, FS_CardinalityType, FS_EmptySet
<1> QED
  BY <1>1, <1>2, <1>3

LEMMA CountedSlaves ==
    ASSUME Cardinality(Slaves) >= 3
    PROVE  Three
<1>1. PICK d \in Slaves : TRUE
  BY ClusterAssumption
<1>2. \E e, f \in Slaves : e # d /\ f # d /\ e # f
  <2>1. Slaves \in SUBSET Slaves
    OBVIOUS
  <2>2. IsFiniteSet(Slaves) /\ Cardinality(Slaves) \in Nat
    BY ClusterAssumption, FS_CardinalityType
  <2>3. /\ Cardinality(Slaves \ {d}) = Cardinality(Slaves) - 1
        /\ IsFiniteSet(Slaves \ {d})
    BY <1>1, <2>2, FS_RemoveElement
  <2>4. PICK e \in Slaves \ {d} : TRUE
    BY <2>2, <2>3, FS_EmptySet
  <2> DEFINE others == Slaves \ {d}
  <2>5. /\ Cardinality(others \ {e}) = Cardinality(Slaves) - 2
        /\ IsFiniteSet(others \ {e})
    <3>1. IsFiniteSet(others) /\ e \in others
      BY <2>3, <2>4
    <3>2. Cardinality(others) = Cardinality(Slaves) - 1
      BY <2>3
    <3> HIDE DEF others
    <3> QED
      BY <2>2, <3>1, <3>2, FS_RemoveElement
  <2>6. PICK f \in others \ {e} : TRUE
    BY <2>2, <2>5, FS_EmptySet
  <2> QED
    BY <2>4, <2>6
<1> QED
  BY <1>1, <1>2 DEF Three

(***************************************************************************)
(* With up to three slaves, wherever they and the vectors are on the ring: *)
(* when a request may be served and at most one slave has died, the        *)
(* primary and the backup of every stored vector hold its last version     *)
(* unless they are dead; the put, the push, the heartbeat or the           *)
(* reallocation may have been interrupted by the death at any step         *)
(* (reallocate and get_machines_for_vector of master.c, commit_vector).    *)
(* The bound is the code's: with four slaves it is false.                  *)
(***************************************************************************)
THEOREM AlwaysReplicated ==
    ASSUME Cardinality(Slaves) <= 3
    PROVE  Spec => []Replicated
<1>1. IInv /\ RInv => Replicated
  <2>1. SUFFICES ASSUME IInv, RInv, pc = "serve", Lone, NEW v \in Vecs,
                        committed[v] > 0, NEW m \in Machines(v),
                        NEW s \in {m[1], m[2]} \cap alive
                 PROVE  store[s][v] = committed[v]
    BY CountedDead DEF Replicated
  <2>2. s \in Holders(ring, v) \cap alive
    BY <2>1, FewMachines DEF Few, Holders
  <2> QED
    BY <2>1, <2>2 DEF RInv, Placed
<1>2. Spec => [](IInv /\ RInv)
  BY SpecRInv DEF Few
<1> QED
  BY <1>1, <1>2, PTL

(***************************************************************************)
(* With two or three slaves, wherever they are on the ring, no single      *)
(* death takes a stored vector with it: at any moment, a slave that runs   *)
(* has it, in the version that commit_vector reported or in the one it is  *)
(* pushing.                                                                *)
(***************************************************************************)
THEOREM OneDeathNeverLoses ==
    ASSUME Cardinality(Slaves) \in 2..3
    PROVE  Spec => []OneDeathLosesNothing
<1>1. IInv /\ RInv => OneDeathLosesNothing
  <2>1. SUFFICES ASSUME IInv, RInv, Lone, NEW v \in Vecs, committed[v] > 0
                 PROVE  \E s \in alive : store[s][v] >= committed[v]
    BY CountedDead DEF OneDeathLosesNothing
  <2> DEFINE p == First(ring, v)
             b == Second(ring, v)
  <2>2. alive \subseteq Slaves /\ alive \subseteq ring /\ ring \in SUBSET Slaves
    BY <2>1 DEF IInv, TypeOK, MembershipAgrees
  <2>3. PICK x \in Slaves, y \in Slaves : x # y
    <3>1. PICK x \in Slaves : TRUE
      BY ClusterAssumption
    <3>2. IsFiniteSet(Slaves) /\ Cardinality(Slaves) \in Nat
      BY ClusterAssumption, FS_CardinalityType
    <3>3. /\ Cardinality(Slaves \ {x}) = Cardinality(Slaves) - 1
          /\ IsFiniteSet(Slaves \ {x})
      BY <3>2, FS_RemoveElement
    <3>4. Slaves \ {x} # {}
      BY <3>2, <3>3, FS_EmptySet
    <3> QED
      BY <3>4
  <2>4. PICK a \in alive : TRUE
    BY <2>1, <2>3 DEF Lone, Dead
  <2>5. p \in ring /\ b \in ring /\ (a # p => b # p)
    BY <2>2, <2>4, MachinesOfVec
  <2> HIDE DEF p, b
  <2>6. PICK s \in {p, b} : s \in alive
    <3>1. CASE a = p
      BY <2>4, <3>1
    <3>2. CASE a # p
      BY <2>1, <2>2, <2>5, <3>2 DEF Lone, Dead
    <3> QED
      BY <3>1, <3>2
  <2>7. s \in Holders(ring, v) \cap alive
    BY <2>6 DEF Holders, p, b
  <2>8. store[s][v] = committed[v] \/ store[s][v] = puts
    BY <2>1, <2>7 DEF RInv, Placed
  <2>9. committed[v] \in Nat /\ committed[v] <= puts
    <3>1. committed \in [Vecs -> 0..MaxPuts]
      BY <2>1 DEF IInv, TypeOK
    <3> QED
      BY <2>1, <3>1 DEF RInv, Counted
  <2>10. puts \in Nat
    BY <2>1, ClusterAssumption DEF IInv, TypeOK
  <2> QED
    BY <2>6, <2>8, <2>9, <2>10
<1>2. Spec => [](IInv /\ RInv)
  BY SpecRInv DEF Few
<1> QED
  BY <1>1, <1>2, PTL

(***************************************************************************)
(* With three slaves, wherever they are on the ring, a copy brings the     *)
(* master down only when it is late or a second slave has died: in the     *)
(* first reallocation, send_vector is only ever asked to copy from one     *)
(* living slave to another.                                                *)
(***************************************************************************)
THEOREM LoneDeathIsAlwaysCopied ==
    ASSUME Cardinality(Slaves) = 3
    PROVE  Spec => []LoneDeathIsCopied
<1>1. IInv /\ RInv => LoneDeathIsCopied
  <2>1. SUFFICES ASSUME IInv, RInv, pc = "segv_copy"
                 PROVE  Cardinality(Dead) >= 2
    BY DEF LoneDeathIsCopied
  <2>2. ~ Lone
    BY <2>1, CountedSlaves DEF RInv, Late
  <2>3. Cardinality(Dead) \in Nat
    BY SlavesFinite DEF Dead
  <2> QED
    BY <2>2, <2>3, CountedDead
<1>2. Spec => [](IInv /\ RInv)
  BY SpecRInv DEF Few
<1> QED
  BY <1>1, <1>2, PTL
=============================================================================
