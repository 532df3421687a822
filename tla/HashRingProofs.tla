--------------------------- MODULE HashRingProofs ---------------------------
(* Theorems about the ring for any set of ids and any hash positions.      *)
EXTENDS HashRing, FiniteSetTheorems, WellFoundedInduction, TLAPS

(* A nonempty set of naturals has a least element. *)
LEMMA NatLeast ==
    ASSUME NEW T \in SUBSET Nat, T # {}
    PROVE  \E x \in T : \A y \in T : x <= y
<1> DEFINE F == {0..y : y \in T}
<1>1. F \subseteq FiniteSubsetsOf(Nat)
    <2>1. SUFFICES ASSUME NEW y \in T  PROVE 0..y \in FiniteSubsetsOf(Nat)
        OBVIOUS
    <2>2. IsFiniteSet(0..y)
        BY FS_Interval
    <2> QED  BY <2>2 DEF FiniteSubsetsOf
<1>2. F # {}
    OBVIOUS
<1>3. IsWellFoundedOn(StrictSubsetOrdering(Nat), FiniteSubsetsOf(Nat))
    BY FS_StrictSubsetOrderingWellFounded
<1> HIDE DEF F
<1>4. \E I \in F : \A J \in F : ~ (<<J, I>> \in StrictSubsetOrdering(Nat))
    BY <1>1, <1>2, <1>3, WFMin
<1>5. PICK x \in T : \A J \in F : ~ (<<J, 0..x>> \in StrictSubsetOrdering(Nat))
    BY <1>4 DEF F
<1>6. ASSUME NEW y \in T, y < x  PROVE FALSE
    <2>1. 0..y \in F
        BY DEF F
    <2>2. x \in Nat /\ y \in Nat
        OBVIOUS
    <2>3. 0..y \subseteq 0..x /\ x \notin 0..y /\ x \in 0..x
        BY <1>6, <2>2
    <2>4. 0..x \in SUBSET Nat
        BY <2>2
    <2>5. <<0..y, 0..x>> \in StrictSubsetOrdering(Nat)
        BY <2>3, <2>4, Zenon DEF StrictSubsetOrdering
    <2> QED  BY <1>5, <2>1, <2>5
<1> QED  BY <1>6

(* CHOOSE finds the lowest id of a nonempty set.                          *)
LEMMA LowestIsLeast ==
    ASSUME NEW S \in SUBSET Ids, S # {}
    PROVE  /\ Lowest(S) \in S
           /\ \A j \in S : Hash[Lowest(S)] <= Hash[j]
<1> DEFINE T == {Hash[i] : i \in S}
<1>1. T \in SUBSET Nat /\ T # {}
    BY RingAssumption
<1> HIDE DEF T
<1>2. PICK x \in T : \A y \in T : x <= y
    BY <1>1, NatLeast
<1>3. \E i \in S : \A j \in S : Hash[i] <= Hash[j]
    BY <1>2 DEF T
<1> QED  BY <1>3 DEF Lowest

\* CHOOSE finds the highest id of a nonempty set.
LEMMA HighestIsGreatest ==
    ASSUME NEW S \in SUBSET Ids, S # {}
    PROVE  /\ Highest(S) \in S
           /\ \A j \in S : Hash[Highest(S)] >= Hash[j]
<1> DEFINE T == {HashBound - Hash[i] : i \in S}
<1>1. T \in SUBSET Nat /\ T # {}
    BY RingAssumption
<1> HIDE DEF T
<1>2. PICK x \in T : \A y \in T : x <= y
    BY <1>1, NatLeast
<1>3. \E i \in S : \A j \in S : Hash[i] >= Hash[j]
    <2>1. PICK i \in S : x = HashBound - Hash[i]
        BY DEF T
    <2>2. ASSUME NEW j \in S  PROVE Hash[i] >= Hash[j]
        <3>1. HashBound - Hash[j] \in T
            BY DEF T
        <3>2. HashBound - Hash[i] <= HashBound - Hash[j]
            BY <1>2, <2>1, <3>1
        <3> QED  BY <3>2, RingAssumption
    <2> QED  BY <2>2
<1> QED  BY <1>3 DEF Highest

-----------------------------------------------------------------------------
(* What Succ and Pred return, without CHOOSE, and that it is unique.       *)

IsSucc(r, h, s) ==
    /\ s \in r
    /\ \/ /\ Hash[s] > h
          /\ \A j \in r : Hash[j] > h => Hash[s] <= Hash[j]
       \/ \A j \in r : Hash[j] <= h /\ Hash[s] <= Hash[j]

IsPred(r, h, s) ==
    /\ s \in r
    /\ \/ /\ Hash[s] < h
          /\ \A j \in r : Hash[j] < h => Hash[s] >= Hash[j]
       \/ \A j \in r : Hash[j] >= h /\ Hash[s] >= Hash[j]

\* Succ answers as its description, IsSucc, says.
LEMMA SuccIsSucc ==
    ASSUME NEW r \in SUBSET Ids, r # {}, NEW h \in Nat
    PROVE  IsSucc(r, h, Succ(r, h))
<1>1. CASE Above(r, h) # {}
    <2>1. Above(r, h) \in SUBSET Ids
        BY DEF Above
    <2>2. /\ Lowest(Above(r, h)) \in Above(r, h)
          /\ \A j \in Above(r, h) : Hash[Lowest(Above(r, h))] <= Hash[j]
        BY <1>1, <2>1, LowestIsLeast
    <2> QED  BY <1>1, <2>2 DEF Succ, IsSucc, Above
<1>2. CASE Above(r, h) = {}
    <2>1. /\ Lowest(r) \in r
          /\ \A j \in r : Hash[Lowest(r)] <= Hash[j]
        BY LowestIsLeast
    <2>2. \A j \in r : Hash[j] <= h
        BY <1>2, RingAssumption DEF Above
    <2> QED  BY <1>2, <2>1, <2>2 DEF Succ, IsSucc
<1> QED  BY <1>1, <1>2

\* Pred answers as its description, IsPred, says.
LEMMA PredIsPred ==
    ASSUME NEW r \in SUBSET Ids, r # {}, NEW h \in Nat
    PROVE  IsPred(r, h, Pred(r, h))
<1>1. CASE Below(r, h) # {}
    <2>1. Below(r, h) \in SUBSET Ids
        BY DEF Below
    <2>2. /\ Highest(Below(r, h)) \in Below(r, h)
          /\ \A j \in Below(r, h) : Hash[Highest(Below(r, h))] >= Hash[j]
        BY <1>1, <2>1, HighestIsGreatest
    <2> QED  BY <1>1, <2>2 DEF Pred, IsPred, Below
<1>2. CASE Below(r, h) = {}
    <2>1. /\ Highest(r) \in r
          /\ \A j \in r : Hash[Highest(r)] >= Hash[j]
        BY HighestIsGreatest
    <2>2. \A j \in r : Hash[j] >= h
        BY <1>2, RingAssumption DEF Below
    <2> QED  BY <1>2, <2>1, <2>2 DEF Pred, IsPred
<1> QED  BY <1>1, <1>2

\* At most one node is the successor of a position.
LEMMA SuccUnique ==
    ASSUME NEW r \in SUBSET Ids, NEW h \in Nat, NEW s, IsSucc(r, h, s)
    PROVE  s = Succ(r, h)
<1>1. r # {}
    BY DEF IsSucc
<1>2. IsSucc(r, h, Succ(r, h))
    BY <1>1, SuccIsSucc
<1>3. Hash[s] = Hash[Succ(r, h)]
    BY <1>2, RingAssumption DEF IsSucc
<1> QED  BY <1>2, <1>3, RingAssumption DEF IsSucc

\* At most one node is the predecessor of a position.
LEMMA PredUnique ==
    ASSUME NEW r \in SUBSET Ids, NEW h \in Nat, NEW s, IsPred(r, h, s)
    PROVE  s = Pred(r, h)
<1>1. r # {}
    BY DEF IsPred
<1>2. IsPred(r, h, Pred(r, h))
    BY <1>1, PredIsPred
<1>3. Hash[s] = Hash[Pred(r, h)]
    BY <1>2, RingAssumption DEF IsPred
<1> QED  BY <1>2, <1>3, RingAssumption DEF IsPred

-----------------------------------------------------------------------------
(* The backup is the node after the primary: adding one to its position    *)
(* steps over no node.                                                     *)

LEMMA PrimaryBackup ==
    ASSUME NEW r \in SUBSET Ids, r # {}, NEW h \in Nat
    PROVE  /\ IsSucc(r, h, Primary(r, h))
           /\ IsSucc(r, Hash[Primary(r, h)], Backup(r, h))
           /\ Backup(r, h) = SuccId(r, Primary(r, h))
<1> DEFINE p == Primary(r, h)
           b == Backup(r, h)
<1>1. IsSucc(r, h, p)
    BY SuccIsSucc DEF Primary
<1>2. p \in Ids /\ Hash[p] \in Nat
    BY <1>1, RingAssumption DEF IsSucc
<1>3. IsSucc(r, Hash[p] + 1, b)
    BY <1>2, SuccIsSucc DEF Backup
<1>4. \A j \in r : Hash[j] # Hash[p] + 1 /\ Hash[j] \in Nat
    BY <1>1, <1>2, RingAssumption DEF IsSucc
<1>5. IsSucc(r, Hash[p], b)
    <2>1. CASE Hash[b] > Hash[p] + 1 /\ \A j \in r : Hash[j] > Hash[p] + 1 => Hash[b] <= Hash[j]
        BY <1>2, <1>3, <1>4, <2>1 DEF IsSucc
    <2>2. CASE \A j \in r : Hash[j] <= Hash[p] + 1 /\ Hash[b] <= Hash[j]
        BY <1>2, <1>3, <1>4, <2>2 DEF IsSucc
    <2> QED  BY <1>3, <2>1, <2>2 DEF IsSucc
<1>6. b = SuccId(r, p)
    BY <1>2, <1>5, SuccUnique DEF SuccId
<1> HIDE DEF p, b
<1> QED  BY <1>1, <1>5, <1>6 DEF p, b

(* The successor of a node is another node as long as there is one.        *)
LEMMA SuccIdDiffers ==
    ASSUME NEW r \in SUBSET Ids, NEW d \in r, NEW e \in r, d # e
    PROVE  /\ IsSucc(r, Hash[d], SuccId(r, d))
           /\ SuccId(r, d) # d
<1>1. Hash[d] \in Nat /\ Hash[e] \in Nat /\ Hash[d] # Hash[e]
    BY RingAssumption
<1>2. IsSucc(r, Hash[d], SuccId(r, d))
    BY <1>1, SuccIsSucc DEF SuccId
<1> QED  BY <1>1, <1>2 DEF IsSucc

(* On a ring of three the successor's successor is a third node.           *)
LEMMA ThreeInARow ==
    ASSUME NEW r \in SUBSET Ids, NEW d \in r, NEW e \in r, NEW f \in r,
           d # e, d # f, e # f
    PROVE  SuccId(r, SuccId(r, d)) # d
<1> DEFINE s == SuccId(r, d)
<1>1. IsSucc(r, Hash[d], s) /\ s # d
    BY SuccIdDiffers
<1>2. PICK g \in r : g # d /\ g # s
    OBVIOUS
<1>3. s \in r
    BY <1>1 DEF IsSucc
<1> HIDE DEF s
<1>4. IsSucc(r, Hash[s], SuccId(r, s))
    BY <1>1, <1>3, SuccIdDiffers
<1>5. ASSUME SuccId(r, s) = d  PROVE FALSE
    <2>1. /\ Hash[d] \in Nat /\ Hash[s] \in Nat /\ Hash[g] \in Nat
          /\ Hash[d] # Hash[s] /\ Hash[d] # Hash[g] /\ Hash[s] # Hash[g]
        BY <1>1, <1>2, <1>3, RingAssumption
    <2> QED  BY <1>1, <1>2, <1>3, <1>4, <1>5, <2>1 DEF IsSucc
<1> QED  BY <1>5 DEF s

(* Taking d off the ring changes the answers that were d, and no other.    *)
LEMMA SuccAfterDelete ==
    ASSUME NEW r \in SUBSET Ids, NEW d \in r, NEW e \in r, d # e,
           NEW h \in Nat
    PROVE  Succ(r \ {d}, h) = IF Succ(r, h) = d THEN SuccId(r, d)
                                              ELSE Succ(r, h)
<1>1. IsSucc(r, h, Succ(r, h))
    BY SuccIsSucc
<1>2. IsSucc(r, Hash[d], SuccId(r, d)) /\ SuccId(r, d) # d
    BY SuccIdDiffers
<1>3. \A i \in r : Hash[i] \in Nat
    BY RingAssumption
<1>4. CASE Succ(r, h) # d
    <2>1. IsSucc(r \ {d}, h, Succ(r, h))
        BY <1>1, <1>3, <1>4 DEF IsSucc
    <2> QED  BY <1>4, <2>1, SuccUnique
<1>5. CASE Succ(r, h) = d
    <2>1. \A j \in r \ {d} : Hash[j] # Hash[d]
        BY RingAssumption
    <2>2. IsSucc(r \ {d}, h, SuccId(r, d))
        BY <1>1, <1>2, <1>3, <1>5, <2>1 DEF IsSucc
    <2> QED  BY <1>5, <2>2, SuccUnique
<1> QED  BY <1>4, <1>5

(* A node's successor has it as its predecessor.                           *)
LEMMA SuccOfPred ==
    ASSUME NEW r \in SUBSET Ids, NEW p \in r, NEW d \in r, p # d,
           SuccId(r, p) = d
    PROVE  p = PredId(r, d)
<1>1. \A i \in r : Hash[i] \in Nat
    BY RingAssumption
<1>2. IsSucc(r, Hash[p], d)
    BY SuccIdDiffers
<1>3. \A j \in r : j # d => Hash[j] # Hash[d]
    BY RingAssumption
<1>4. \A j \in r : j # p => Hash[j] # Hash[p]
    BY RingAssumption
<1>5. IsPred(r, Hash[d], p)
    BY <1>1, <1>2, <1>3, <1>4 DEF IsSucc, IsPred
<1> QED  BY <1>1, <1>5, PredUnique DEF PredId

-----------------------------------------------------------------------------
(* Members that a cardinality promises.                                    *)
LEMMA AnotherMember ==
    ASSUME NEW r \in SUBSET Ids, Cardinality(r) >= 2, NEW d
    PROVE  \E e \in r : e # d
<1>1. IsFiniteSet(r)
    BY RingAssumption, FS_Subset
<1>2. r # {} /\ r # {d}
    BY <1>1, FS_EmptySet, FS_Singleton
<1> QED  BY <1>2

\* A ring of three has two nodes besides a given one.
LEMMA TwoOthers ==
    ASSUME NEW r \in SUBSET Ids, Cardinality(r) >= 3, NEW d \in r
    PROVE  \E e, f \in r : e # d /\ f # d /\ e # f
<1>1. IsFiniteSet(r)
    BY RingAssumption, FS_Subset
<1>2. Cardinality(r \ {d}) = Cardinality(r) - 1
    BY <1>1, FS_RemoveElement
<1>3. Cardinality(r) \in Nat
    BY <1>1, FS_CardinalityType
<1>4. Cardinality(r \ {d}) >= 2 /\ r \ {d} \in SUBSET Ids
    BY <1>2, <1>3
<1>5. PICK e \in r \ {d} : e # d
    BY <1>4, AnotherMember
<1>6. PICK f \in r \ {d} : f # e
    BY <1>4, AnotherMember
<1> QED  BY <1>5, <1>6

-----------------------------------------------------------------------------
(* Only ids are ever on the ring.                                          *)
THEOREM RingTypeCorrect == Spec => []TypeOK
<1>1. Init => TypeOK
    BY DEF Init, TypeOK
<1>2. TypeOK /\ [Next]_ring => TypeOK'
    BY DEF TypeOK, Next, insert_cache, delete_entry
<1> QED  BY <1>1, <1>2, PTL DEF Spec

(* The primary and the backup of a vector are two slaves of the ring       *)
(* whenever there are two (master.c:380-381).                              *)
THEOREM MachinesAlwaysDiffer == Spec => []MachinesDiffer
<1>1. TypeOK => MachinesDiffer
    <2>1. SUFFICES ASSUME TypeOK, Cardinality(ring) >= 2, NEW h \in Points
                   PROVE  /\ Primary(ring, h) \in ring
                          /\ Backup(ring, h) \in ring
                          /\ Primary(ring, h) # Backup(ring, h)
        BY DEF MachinesDiffer
    <2>2. ring \in SUBSET Ids /\ h \in Nat
        BY <2>1, RingAssumption DEF TypeOK
    <2>3. ring # {}
        BY <2>1, <2>2, AnotherMember
    <2>4. /\ Primary(ring, h) \in ring
          /\ Backup(ring, h) = SuccId(ring, Primary(ring, h))
          /\ IsSucc(ring, Hash[Primary(ring, h)], Backup(ring, h))
        BY <2>2, <2>3, PrimaryBackup DEF IsSucc
    <2>5. PICK e \in ring : e # Primary(ring, h)
        BY <2>1, <2>2, AnotherMember
    <2>6. Backup(ring, h) # Primary(ring, h)
        BY <2>2, <2>4, <2>5, SuccIdDiffers
    <2> QED  BY <2>4, <2>6 DEF IsSucc
<1> QED  BY <1>1, RingTypeCorrect, PTL

(* The list of the predecessor names every vector a node backs up.         *)
THEOREM PredecessorIsBackedUp == Spec => []BackedUpByPredecessor
<1>1. TypeOK => BackedUpByPredecessor
    <2>1. SUFFICES ASSUME TypeOK, NEW h \in Points, NEW d \in ring,
                          Cardinality(ring) >= 2, Backup(ring, h) = d
                   PROVE  Primary(ring, h) = PredId(ring, d)
        BY DEF BackedUpByPredecessor
    <2>2. ring \in SUBSET Ids /\ h \in Nat
        BY <2>1, RingAssumption DEF TypeOK
    <2>3. /\ Primary(ring, h) \in ring
          /\ Backup(ring, h) = SuccId(ring, Primary(ring, h))
        BY <2>2, PrimaryBackup DEF IsSucc
    <2>4. PICK e \in ring : e # Primary(ring, h)
        BY <2>1, <2>2, AnotherMember
    <2>5. d # Primary(ring, h)
        BY <2>1, <2>2, <2>3, <2>4, SuccIdDiffers
    <2> QED  BY <2>1, <2>2, <2>3, <2>5, SuccOfPred
<1> QED  BY <1>1, RingTypeCorrect, PTL

(* What reallocate() counts on: with three slaves or more, removing one    *)
(* moves only its own vectors and those it backed up, to its successor and *)
(* its successor's successor.                                              *)
THEOREM DeletionIsAlwaysLocal == Spec => DeletionIsLocal
<1>1. TypeOK /\ [Next]_ring =>
        [\A d \in ring \ ring' :
            Cardinality(ring) >= 3 => OnlyNeighboursMove(d)]_ring
    <2>1. SUFFICES ASSUME TypeOK, Next, NEW d \in ring \ ring',
                          Cardinality(ring) >= 3, NEW h \in Points
                   PROVE  LET p == Primary(ring, h)
                              b == Backup(ring, h)
                              s == SuccId(ring, d)
                          IN  /\ Primary(ring', h) = IF p = d THEN s ELSE p
                              /\ Backup(ring', h)  =
                                    IF p = d THEN SuccId(ring, s)
                                    ELSE IF b = d THEN s ELSE b
        BY DEF OnlyNeighboursMove
    <2> DEFINE p == Primary(ring, h)
               b == Backup(ring, h)
               s == SuccId(ring, d)
    <2>2. /\ ring \in SUBSET Ids /\ h \in Nat
          /\ \A i \in ring : Hash[i] \in Nat
        BY <2>1, RingAssumption DEF TypeOK
    <2>3. ring' = ring \ {d}
        BY <2>1 DEF Next, insert_cache, delete_entry
    <2>4. PICK e, f \in ring : e # d /\ f # d /\ e # f
        BY <2>1, <2>2, TwoOthers
    <2>5. p \in ring /\ b = SuccId(ring, p)
        BY <2>2, PrimaryBackup DEF IsSucc
    <2>6. s # d /\ s \in ring
        BY <2>2, <2>4, SuccIdDiffers DEF IsSucc
    <2>7. Primary(ring', h) = IF p = d THEN s ELSE p
        BY <2>2, <2>3, <2>4, SuccAfterDelete DEF Primary
    <2>8. \A q \in ring' : SuccId(ring', q) =
                 IF SuccId(ring, q) = d THEN s ELSE SuccId(ring, q)
        BY <2>2, <2>3, <2>4, SuccAfterDelete DEF SuccId
    <2>9. /\ ring' \in SUBSET Ids /\ ring' # {}
          /\ Primary(ring', h) \in ring'
        BY <2>2, <2>3, <2>4, <2>5, <2>6, <2>7
    <2>10. Backup(ring', h) = SuccId(ring', Primary(ring', h))
        BY <2>2, <2>9, PrimaryBackup
    <2>11. SuccId(ring, s) # d
        BY <2>2, <2>4, ThreeInARow
    <2> HIDE DEF p, b, s
    <2>12. Backup(ring', h) = IF p = d THEN SuccId(ring, s)
                              ELSE IF b = d THEN s ELSE b
        BY <2>5, <2>7, <2>8, <2>9, <2>10, <2>11
    <2> QED  BY <2>7, <2>12 DEF p, b, s
<1> QED  BY <1>1, RingTypeCorrect, PTL DEF Spec, DeletionIsLocal
=============================================================================
