-------------------------- MODULE QueryPipeProofs --------------------------
(***************************************************************************)
(* A range query call by call, for any number of slaves, any ring and any  *)
(* query: the types, the two invariants of the run of QueryPipe, and every *)
(* step of it a step of Query or none.                                     *)
(***************************************************************************)
EXTENDS QueryPipe, FiniteSetTheorems, WellFoundedInduction, TLAPS

-----------------------------------------------------------------------------
(* The inductive invariant *)

\* The calls that slave m has and has not finished, and those of them that it
\* has not passed on.
Held(m)  == inbox[m] \cup ({call[m]} \ {None})
Front(m) == inbox[m] \cup (IF phase[m] = "wait" THEN {} ELSE {call[m]} \ {None})

\* The coordinator of range r has been called.
Called(r) == r < cur \/ (r = cur /\ pc \in {"wait", "conclude", "done"})

\* A call begins where the chain comes to another machine.
Proper(c) ==
    /\ c[1] \in DOMAIN query
    /\ c[2] \in DOMAIN chain[c[1]]
    /\ \A j \in 1..(c[2] - 1) : chain[c[1]][j][1] < MachineOf(c)

\* The vectors that c asks for, of its own machine and of those behind it, and
\* that they all have a file.
Asked(c)    == {chain[c[1]][j][2] : j \in c[2]..Len(chain[c[1]])}
Complete(c) == \A j \in c[2]..Len(chain[c[1]]) : chain[c[1]][j] \notin absent

Planned ==
    IF pc = "plan" THEN cur = 1
    ELSE chain = [r \in DOMAIN query |-> Sorted(AskedFor(r))]

\* A call is held by the machine it is for, and has no answer yet.  One that is served is not the
\* last of its range, and its own vectors were found.
Addressed ==
    \A m \in Slaves :
        /\ \A c \in Held(m) :
              /\ m \in alive /\ answer[c] = <<>>
              /\ Proper(c) /\ MachineOf(c) = m /\ Called(c[1])
        /\ phase[m] # "connect" => call[m] # None
        /\ call[m] # None =>
              /\ ~ IsLast(call[m])
              /\ \A v \in Own(call[m]) : <<m, v>> \notin absent

\* A call that was not passed on is the furthest of its range, and the only
\* such call; nothing from it on has been answered.
Foremost ==
    \A m \in Slaves : \A c \in Front(m) :
        /\ call[m] = c => c \notin inbox[m]
        /\ \A n \in Slaves : \A d \in Held(n) :
              d[1] = c[1] /\ d # c => d[2] < c[2] /\ d \notin Front(n)
        /\ \A d \in Calls :
              d[1] = c[1] /\ answer[d] # <<>> => d[2] < c[2]

\* What can go wrong, as Query says it.
Trouble ==
    \E r \in DOMAIN query : \E v \in query[r][1]..query[r][2] :
        LET m == AskedFor(r)[v]
        IN  m \in Slow \/ m \notin alive \/ <<m, v>> \in absent

\* An answer is complete, or there is a reason that it is not.
Answered ==
    \A d \in Calls : answer[d] # <<>> =>
        /\ Proper(d)
        /\ Called(d[1])
        /\ LET res == Head(answer[d])
           IN  IF res.ok
               THEN res.read = Asked(d) /\ Complete(d)
               ELSE Trouble

\* While nothing is wrong no call is given up: all belong to the range being
\* asked, and what was answered has ended.
Smooth ==
    ~ Trouble =>
        \A m \in Slaves : \A c \in Held(m) :
            /\ c[1] = cur /\ pc = "wait"
            /\ \A d \in Calls : d[1] = c[1] /\ answer[d] # <<>> => c[2] < d[2]

Stored ==
    /\ Len(results) = IF pc \in {"conclude", "done"} THEN cur ELSE cur - 1
    /\ pc \in {"conclude", "done"} => cur = Len(query)
    /\ \A r \in DOMAIN results : results[r] = "own" => Trouble
    /\ ~ clnt_res.ok => Trouble
    /\ pc = "conclude" /\ results[cur] = "clnt_res" => answer[<<cur, 1>>] = <<clnt_res>>

\* The ranges in which no slave can die any more.
Spent == {r \in DOMAIN query :
            Called(r) /\ \A m \in Slaves : \A c \in Front(m) : c[1] # r}

Deaths == Cardinality(Slaves \ alive) <= crashes + Cardinality(Spent)

IInv ==
    /\ TypeOK
    /\ Planned
    /\ Addressed
    /\ Foremost
    /\ Answered
    /\ Smooth
    /\ Stored
    /\ Deaths

-----------------------------------------------------------------------------
(* Sets of integers, and sorted pairs *)

\* A finite set of integers has a least and a greatest element.
LEMMA Extremes ==
    ASSUME NEW G \in SUBSET Int, IsFiniteSet(G), G # {}
    PROVE  /\ \E x \in G : \A y \in G : x <= y
           /\ \E x \in G : \A y \in G : y <= x
<1> DEFINE Under(x) == {y \in G : y < x}
           Over(x)  == {y \in G : y > x}
<1>i. \A x \in G : x \in Int
    OBVIOUS
<1>1. IsWellFoundedOn(StrictSubsetOrdering(G), FiniteSubsetsOf(G))
    BY FS_StrictSubsetOrderingWellFounded
<1>2. \E x \in G : \A y \in G : ~ (<<Under(y), Under(x)>> \in StrictSubsetOrdering(G))
    <2> DEFINE F == {Under(x) : x \in G}
    <2>1. F \subseteq FiniteSubsetsOf(G) /\ F # {}
        <3>1. ASSUME NEW x \in G PROVE Under(x) \in FiniteSubsetsOf(G)
            <4>1. Under(x) \in SUBSET G
                OBVIOUS
            <4>2. IsFiniteSet(Under(x))
                BY <4>1, FS_Subset
            <4> QED
                BY <4>1, <4>2 DEF FiniteSubsetsOf
        <3> HIDE DEF Under
        <3> QED
            BY <3>1
    <2> HIDE DEF F
    <2>2. PICK I \in F : \A J \in F : ~ (<<J, I>> \in StrictSubsetOrdering(G))
        BY <1>1, <2>1, WFMin
    <2> QED
        BY <2>2 DEF F
<1>3. \E x \in G : \A y \in G : ~ (<<Over(y), Over(x)>> \in StrictSubsetOrdering(G))
    <2> DEFINE F == {Over(x) : x \in G}
    <2>1. F \subseteq FiniteSubsetsOf(G) /\ F # {}
        <3>1. ASSUME NEW x \in G PROVE Over(x) \in FiniteSubsetsOf(G)
            <4>1. Over(x) \in SUBSET G
                OBVIOUS
            <4>2. IsFiniteSet(Over(x))
                BY <4>1, FS_Subset
            <4> QED
                BY <4>1, <4>2 DEF FiniteSubsetsOf
        <3> HIDE DEF Over
        <3> QED
            BY <3>1
    <2> HIDE DEF F
    <2>2. PICK I \in F : \A J \in F : ~ (<<J, I>> \in StrictSubsetOrdering(G))
        BY <1>1, <2>1, WFMin
    <2> QED
        BY <2>2 DEF F
<1>4. ASSUME NEW x \in G, NEW y \in G, y < x
      PROVE  <<Under(y), Under(x)>> \in StrictSubsetOrdering(G)
    <2>1. /\ \A z \in G : z < y => z < x
          /\ y < x /\ ~ (y < y)
        BY <1>4, <1>i
    <2>2. Under(x) \subseteq G /\ Under(y) \subseteq G
        OBVIOUS
    <2> QED
        BY <2>1, <2>2, Zenon DEF StrictSubsetOrdering
<1>5. ASSUME NEW x \in G, NEW y \in G, y > x
      PROVE  <<Over(y), Over(x)>> \in StrictSubsetOrdering(G)
    <2>1. /\ \A z \in G : z > y => z > x
          /\ y > x /\ ~ (y > y)
        BY <1>5, <1>i
    <2>2. Over(x) \subseteq G /\ Over(y) \subseteq G
        OBVIOUS
    <2> QED
        BY <2>1, <2>2, Zenon DEF StrictSubsetOrdering
<1> HIDE DEF Under, Over
<1>6. \E x \in G : \A y \in G : x <= y
    <2>1. PICK x \in G : \A y \in G : ~ (<<Under(y), Under(x)>> \in StrictSubsetOrdering(G))
        BY <1>2
    <2>2. \A y \in G : ~ (y < x)
        BY <2>1, <1>4
    <2> QED
        BY <2>2, <1>i
<1>7. \E x \in G : \A y \in G : y <= x
    <2>1. PICK x \in G : \A y \in G : ~ (<<Over(y), Over(x)>> \in StrictSubsetOrdering(G))
        BY <1>3
    <2>2. \A y \in G : ~ (y > x)
        BY <2>1, <1>5
    <2> QED
        BY <2>2, <1>i
<1> QED
    BY <1>6, <1>7

LEMMA CountTo ==
    ASSUME NEW n \in Nat
    PROVE  IsFiniteSet(1..n) /\ Cardinality(1..n) = n
BY FS_Interval

\* The pairs of an interval can be sorted, and Sorted does.
LEMMA SortedPairs ==
    ASSUME NEW lo \in Int, NEW hi \in Int, lo <= hi, NEW f \in [lo..hi -> Nat]
    PROVE  /\ Sorted(f) \in [1..(hi - lo + 1) -> Pairs(f)]
           /\ \A i, j \in 1..(hi - lo + 1) : i < j => Before(Sorted(f)[i], Sorted(f)[j])
           /\ \A p \in Pairs(f) : \E i \in 1..(hi - lo + 1) : Sorted(f)[i] = p
<1> DEFINE P == Pairs(f)
           n == hi - lo + 1
<1>n. n \in Nat
    OBVIOUS
<1>1. IsFiniteSet(P) /\ Cardinality(P) = n
    <2> DEFINE g == [v \in lo..hi |-> <<f[v], v>>]
    <2>1. g \in Surjection(lo..hi, P)
        BY DEF Surjection, Pairs
    <2>2. g \in Injection(lo..hi, P)
        BY <2>1 DEF Surjection, Injection, IsInjective
    <2>3. IsFiniteSet(lo..hi) /\ Cardinality(lo..hi) = n
        BY FS_Interval
    <2> HIDE DEF g, P
    <2> QED
        BY <2>1, <2>2, <2>3, FS_Surjection
<1>2. \A p, q \in P : p # q => Before(p, q) \/ Before(q, p)
    BY DEF Pairs, Before
<1>3. \A p, q, r \in P : Before(p, q) /\ Before(q, r) => Before(p, r)
    BY DEF Pairs, Before
<1>4. \A p \in P : ~ Before(p, p)
    BY DEF Pairs, Before
<1> HIDE DEF P, n
\* The rank of a pair: how many come before it, itself included.
<1> DEFINE UpTo(p) == {q \in P : q = p \/ Before(q, p)}
           rank == [p \in P |-> Cardinality(UpTo(p))]
<1>5. rank \in [P -> 1..n]
    <2> SUFFICES ASSUME NEW p \in P PROVE Cardinality(UpTo(p)) \in 1..n
        OBVIOUS
    <2>1. IsFiniteSet(UpTo(p)) /\ Cardinality(UpTo(p)) <= n
        BY <1>1, FS_Subset
    <2>2. Cardinality(UpTo(p)) # 0
        <3>1. UpTo(p) # {}
            OBVIOUS
        <3> HIDE DEF UpTo
        <3> QED
            BY <2>1, <3>1, FS_EmptySet
    <2>3. Cardinality(UpTo(p)) \in Nat
        BY <2>1, FS_CardinalityType
    <2> QED
        BY <2>1, <2>2, <2>3, <1>n
<1>6. \A p, q \in P : Before(p, q) => rank[p] < rank[q]
    <2> SUFFICES ASSUME NEW p \in P, NEW q \in P, Before(p, q)
                 PROVE  Cardinality(UpTo(p)) < Cardinality(UpTo(q))
        OBVIOUS
    <2>1. UpTo(p) \subseteq UpTo(q)
        BY <1>3
    <2>2. q \in UpTo(q) /\ q \notin UpTo(p)
        BY <1>3, <1>4
    <2>3. IsFiniteSet(UpTo(q))
        BY <1>1, FS_Subset
    <2> HIDE DEF UpTo
    <2>4. UpTo(p) # UpTo(q)
        BY <2>2
    <2>5. /\ Cardinality(UpTo(p)) <= Cardinality(UpTo(q))
          /\ Cardinality(UpTo(q)) # Cardinality(UpTo(p))
          /\ IsFiniteSet(UpTo(p))
        BY <2>1, <2>3, <2>4, FS_Subset
    <2>6. Cardinality(UpTo(p)) \in Nat /\ Cardinality(UpTo(q)) \in Nat
        BY <2>3, <2>5, FS_CardinalityType
    <2> QED
        BY <2>5, <2>6
<1> HIDE DEF rank
<1>7. rank \in Injection(P, 1..n)
    BY <1>2, <1>5, <1>6 DEF Injection, IsInjective
<1>8. rank \in Surjection(P, 1..n)
    <2>1. IsFiniteSet(1..n) /\ Cardinality(1..n) = n
        BY <1>n, CountTo
    <2> QED
        BY <1>1, <1>7, <2>1, FS_Injection
<1> DEFINE s == [i \in 1..n |-> CHOOSE p \in P : rank[p] = i]
<1>9. \A i \in 1..n : s[i] \in P /\ rank[s[i]] = i
    BY <1>8 DEF Surjection
<1> HIDE DEF s
<1>10. \A i, j \in 1..n : i < j => Before(s[i], s[j])
    <2> SUFFICES ASSUME NEW i \in 1..n, NEW j \in 1..n, i < j
                 PROVE  Before(s[i], s[j])
        OBVIOUS
    <2>1. /\ s[i] \in P /\ s[j] \in P
          /\ rank[s[i]] = i /\ rank[s[j]] = j
        BY <1>9
    <2>2. s[i] # s[j]
        BY <2>1
    <2>3. ~ Before(s[j], s[i])
        BY <2>1, <1>6, <1>n
    <2> QED
        BY <1>2, <2>1, <2>2, <2>3
<1> DEFINE ch == Sorted(f)
<1>11. /\ ch \in [1..n -> P]
       /\ \A i, j \in 1..n : i < j => Before(ch[i], ch[j])
    <2>1. s \in [1..n -> P]
        BY <1>9 DEF s
    <2>2. \E t \in [1..Cardinality(P) -> P] :
              \A i, j \in DOMAIN t : i < j => Before(t[i], t[j])
        BY <1>1, <1>10, <2>1
    <2>3. /\ ch \in [1..Cardinality(P) -> P]
          /\ \A i, j \in DOMAIN ch : i < j => Before(ch[i], ch[j])
        BY <2>2 DEF Sorted, P
    <2> QED
        BY <1>1, <2>3
<1> HIDE DEF ch
<1>12. ch \in Injection(1..n, P)
    <2>1. \A i, j \in 1..n : ch[i] = ch[j] => i = j
        BY <1>4, <1>11, <1>n
    <2> QED
        BY <1>11, <2>1 DEF Injection, IsInjective
<1>13. ch \in Surjection(1..n, P)
    <2>1. IsFiniteSet(1..n) /\ Cardinality(1..n) = n
        BY <1>n, CountTo
    <2> QED
        BY <1>1, <1>12, <2>1, FS_Injection
<1>14. \A p \in P : \E i \in 1..n : ch[i] = p
    BY <1>13 DEF Surjection
<1> QED
    BY <1>11, <1>14 DEF ch, P, n

-----------------------------------------------------------------------------
(* The chain of a range *)

LEMMA Constants ==
    /\ Slaves \subseteq Nat /\ IsFiniteSet(Slaves)
    /\ \A s \in Slaves : After[s] \in Slaves
    /\ MaxRanges \in Nat /\ MaxCrashes \in Nat
BY QueryAssumption

LEMMA RangeOK ==
    ASSUME TypeOK, NEW r \in DOMAIN query
    PROVE  /\ query \in Seq(Int \X Int)
           /\ r \in 1..MaxRanges
           /\ query[r][1] \in Int /\ query[r][2] \in Int
           /\ query[r][1] <= query[r][2]
           /\ query[r][1]..query[r][2] \subseteq Vecs
           /\ AskedFor(r) \in [query[r][1]..query[r][2] -> Slaves]
<1>1. /\ query \in Seq(Int \X Int) /\ Len(query) \in 1..MaxRanges
      /\ query[r][1] <= query[r][2]
      /\ query[r][1]..query[r][2] \subseteq Vecs
    BY QueryAssumption DEF TypeOK
<1>2. r \in 1..Len(query)
    BY <1>1
<1>3. query[r] \in Int \X Int /\ r \in 1..MaxRanges
    BY <1>1, <1>2, Constants
<1>4. \A v \in query[r][1]..query[r][2] : primary[v] \in Slaves /\ After[primary[v]] \in Slaves
    BY <1>1, Constants DEF TypeOK
<1> QED
    BY <1>1, <1>3, <1>4 DEF AskedFor

\* What a chain is: the pairs of its range, each once, by machine.
Chains(r, ch) ==
    /\ ch \in Seq(Slaves \X Vecs)
    /\ Len(ch) \in 1..Cardinality(Vecs)
    /\ \A i \in 1..Len(ch) :
          /\ ch[i][2] \in query[r][1]..query[r][2]
          /\ ch[i][1] = AskedFor(r)[ch[i][2]]
    /\ \A v \in query[r][1]..query[r][2] : \E i \in 1..Len(ch) : ch[i] = <<AskedFor(r)[v], v>>
    /\ \A i, j \in 1..Len(ch) : i < j => ch[i][1] <= ch[j][1]
    /\ \A i, j \in 1..Len(ch) : ch[i][2] = ch[j][2] => i = j

LEMMA SortedChains ==
    ASSUME TypeOK, NEW r \in DOMAIN query
    PROVE  Chains(r, Sorted(AskedFor(r)))
<1> DEFINE f == AskedFor(r)
           lo == query[r][1]
           hi == query[r][2]
           n == hi - lo + 1
           ch == Sorted(f)
<1>1. /\ lo \in Int /\ hi \in Int /\ lo <= hi
      /\ lo..hi \subseteq Vecs
      /\ f \in [lo..hi -> Slaves]
    BY RangeOK
<1> HIDE DEF f, lo, hi
<1>2. f \in [lo..hi -> Nat] /\ n \in Nat /\ n >= 1
    <2>1. \A v \in lo..hi : f[v] \in Nat
        BY <1>1, Constants
    <2>2. n \in Nat /\ n >= 1
        BY <1>1
    <2> QED
        BY <1>1, <2>1, <2>2
<1>3. /\ ch \in [1..n -> Pairs(f)]
      /\ \A i, j \in 1..n : i < j => Before(ch[i], ch[j])
      /\ \A p \in Pairs(f) : \E i \in 1..n : ch[i] = p
    BY <1>1, <1>2, SortedPairs
<1> HIDE DEF ch
<1>4. \A i \in 1..n : /\ ch[i][2] \in lo..hi
                      /\ ch[i][1] = f[ch[i][2]]
                      /\ ch[i] = <<f[ch[i][2]], ch[i][2]>>
    BY <1>1, <1>3 DEF Pairs
<1>5. ch \in Seq(Slaves \X Vecs) /\ Len(ch) = n
    <2>1. Pairs(f) \subseteq Slaves \X Vecs
        BY <1>1 DEF Pairs
    <2>2. ch \in [1..n -> Slaves \X Vecs]
        BY <2>1, <1>3
    <2> HIDE DEF n
    <2> QED
        BY <1>2, <2>2
<1>6. n <= Cardinality(Vecs) /\ Cardinality(Vecs) \in Nat
    <2>1. Cardinality(lo..hi) = n
        BY <1>1, FS_Interval
    <2> QED
        BY <1>1, <2>1, QueryAssumption, FS_Subset, FS_CardinalityType
<1>7. \A v \in lo..hi : \E i \in 1..n : ch[i] = <<f[v], v>>
    BY <1>1, <1>3 DEF Pairs
<1>8. \A i \in 1..n : ch[i][1] \in Nat /\ ch[i][2] \in Int
    BY <1>1, <1>2, <1>4
<1>9. \A i, j \in 1..n : i < j => ch[i][1] <= ch[j][1]
    BY <1>3, <1>8 DEF Before
<1>10. \A i, j \in 1..n : ch[i][2] = ch[j][2] => i = j
    <2> SUFFICES ASSUME NEW i \in 1..n, NEW j \in 1..n, i < j, ch[i][2] = ch[j][2]
                 PROVE  FALSE
        BY <1>2
    <2>1. ch[i][1] = ch[j][1]
        BY <1>4
    <2> QED
        BY <2>1, <1>3, <1>8 DEF Before
<1> HIDE DEF n
<1> QED
    BY <1>2, <1>4, <1>5, <1>6, <1>7, <1>9, <1>10 DEF Chains, ch, f, lo, hi

\* After the plan, every range has its chain.
LEMMA ChainLaid ==
    ASSUME TypeOK, Planned, pc # "plan", NEW r \in DOMAIN query
    PROVE  Chains(r, chain[r])
BY SortedChains DEF Planned

\* What a proper call is made of.
LEMMA ProperCall ==
    ASSUME TypeOK, Planned, pc # "plan", NEW c \in Calls, Proper(c)
    PROVE  /\ c = <<c[1], c[2]>>
           /\ c[1] \in DOMAIN query
           /\ Chains(c[1], chain[c[1]])
           /\ DOMAIN chain[c[1]] = 1..Len(chain[c[1]])
           /\ c[2] \in 1..Len(chain[c[1]])
           /\ Len(chain[c[1]]) \in Nat
           /\ c[2] \in Nat
           /\ MachineOf(c) \in Slaves
           /\ \A j \in 1..Len(chain[c[1]]) : chain[c[1]][j][1] \in Slaves
           /\ c # None
<1>1. c[1] \in DOMAIN query /\ c[2] \in DOMAIN chain[c[1]]
    BY DEF Proper
<1>2. Chains(c[1], chain[c[1]])
    BY <1>1, ChainLaid
<1>3. /\ c[2] \in 1..Len(chain[c[1]]) /\ Len(chain[c[1]]) \in Nat
      /\ DOMAIN chain[c[1]] = 1..Len(chain[c[1]])
      /\ \A j \in 1..Len(chain[c[1]]) : chain[c[1]][j] \in Slaves \X Vecs
    BY <1>1, <1>2 DEF Chains
<1>4. c = <<c[1], c[2]>> /\ c[2] \in Nat
    BY <1>3 DEF Calls
<1> QED
    BY <1>1, <1>2, <1>3, <1>4 DEF MachineOf, None

\* A machine is asked once in a range.
LEMMA OneCallPerMachine ==
    ASSUME TypeOK, Planned, pc # "plan", NEW c \in Calls, NEW d \in Calls, Proper(c), Proper(d),
           c[1] = d[1], MachineOf(c) = MachineOf(d)
    PROVE  c = d
<1>1. /\ c = <<c[1], c[2]>> /\ d = <<d[1], d[2]>>
      /\ c[2] \in 1..Len(chain[c[1]]) /\ d[2] \in 1..Len(chain[c[1]])
      /\ Len(chain[c[1]]) \in Nat
      /\ MachineOf(c) \in Nat
    BY ProperCall, Constants
<1>2. ~ (c[2] < d[2]) /\ ~ (d[2] < c[2])
    BY <1>1 DEF Proper, MachineOf
<1>3. c[2] = d[2]
    BY <1>1, <1>2
<1> QED
    BY <1>1, <1>3

\* The next call: it too is proper, to a higher machine, and none is between.
LEMMA NextProper ==
    ASSUME TypeOK, Planned, pc # "plan", NEW c \in Calls, Proper(c), ~ IsLast(c)
    PROVE  /\ NextCall(c) \in Calls
           /\ Proper(NextCall(c))
           /\ NextCall(c)[1] = c[1]
           /\ c[2] < NextCall(c)[2]
           /\ MachineOf(c) < MachineOf(NextCall(c))
           /\ \A j \in c[2]..(NextCall(c)[2] - 1) : chain[c[1]][j][1] = MachineOf(c)
           /\ \A d \in Calls : Proper(d) /\ d[1] = c[1] /\ c[2] < d[2] => NextCall(c)[2] <= d[2]
<1> DEFINE ch == chain[c[1]]
           n == Len(ch)
           K == {j \in 1..n : j > c[2] /\ ch[j][1] # MachineOf(c)}
<1>1. /\ c[1] \in DOMAIN query /\ c[2] \in 1..n /\ n \in Nat /\ c[2] \in Nat
      /\ Chains(c[1], ch)
      /\ \A j \in 1..n : ch[j][1] \in Nat
      /\ DOMAIN ch = 1..n
    <2>1. /\ c[1] \in DOMAIN query /\ c[2] \in 1..n /\ n \in Nat /\ c[2] \in Nat
          /\ Chains(c[1], ch)
          /\ \A j \in 1..n : ch[j][1] \in Slaves
        BY ProperCall
    <2>2. DOMAIN ch = 1..n
        BY <2>1 DEF Chains
    <2> QED
        BY <2>1, <2>2, Constants
<1>2. Others(c) = {<<c[1], k>> : k \in K}
    BY <1>1 DEF Others
<1>3. K # {} /\ IsFiniteSet(K) /\ K \in SUBSET Int
    <2>1. K # {}
        BY <1>2 DEF IsLast
    <2>2. K \in SUBSET (1..n) /\ K \in SUBSET Int
        BY <1>1
    <2> HIDE DEF K
    <2> QED
        BY <1>1, <2>1, <2>2, CountTo, FS_Subset
<1>4. PICK k \in K : \A j \in K : k <= j
    BY <1>3, Extremes
<1>5. NextCall(c) = <<c[1], k>>
    <2>1. <<c[1], k>> \in Others(c) /\ \A e \in Others(c) : <<c[1], k>>[2] <= e[2]
        BY <1>2, <1>4
    <2>2. NextCall(c) \in Others(c) /\ \A e \in Others(c) : NextCall(c)[2] <= e[2]
        BY <2>1 DEF NextCall
    <2>3. PICK j \in K : NextCall(c) = <<c[1], j>>
        BY <1>2, <2>2
    <2>4. j <= k /\ k <= j
        BY <1>4, <2>1, <2>2, <2>3
    <2> QED
        BY <1>1, <2>3, <2>4
<1>6. /\ k \in 1..n /\ k > c[2] /\ ch[k][1] # MachineOf(c)
      /\ \A j \in c[2]..(k - 1) : ch[j][1] = MachineOf(c)
    <2>1. k \in 1..n /\ k > c[2] /\ ch[k][1] # MachineOf(c)
        OBVIOUS
    <2>2. ASSUME NEW j \in c[2]..(k - 1) PROVE ch[j][1] = MachineOf(c)
        <3>1. CASE j = c[2]
            BY <3>1 DEF MachineOf
        <3>2. CASE j > c[2]
            <4>1. j \in 1..n /\ j \notin K
                BY <1>1, <1>4, <2>1, <3>2
            <4> QED
                BY <3>2, <4>1
        <3> QED
            BY <1>1, <2>1, <3>1, <3>2
    <2> QED
        BY <2>1, <2>2
<1>7. MachineOf(c) < ch[k][1] /\ MachineOf(c) = ch[c[2]][1]
    BY <1>1, <1>6 DEF Chains, MachineOf
<1>8. \A j \in 1..(k - 1) : ch[j][1] < ch[k][1]
    <2> TAKE j \in 1..(k - 1)
    <2>1. CASE j < c[2]
        <3>1. j \in 1..(c[2] - 1) /\ j \in 1..n
            BY <1>1, <1>6, <2>1
        <3>2. ch[j][1] < MachineOf(c)
            BY <3>1 DEF Proper
        <3> QED
            BY SMTT(30), <1>1, <1>6, <1>7, <3>1, <3>2
    <2>2. CASE j >= c[2]
        BY <1>1, <1>6, <1>7, <2>2
    <2> QED
        BY <1>1, <1>6, <2>1, <2>2
<1>9. <<c[1], k>> \in Calls
    <2>1. c[1] \in 1..MaxRanges
        BY <1>1, RangeOK
    <2>2. k \in 1..Cardinality(Vecs)
        <3>1. n \in 1..Cardinality(Vecs) /\ Cardinality(Vecs) \in Nat
            BY <1>1, QueryAssumption, FS_CardinalityType DEF Chains
        <3> QED
            BY <1>6, <3>1
    <2> QED
        BY <2>1, <2>2 DEF Calls
<1>10. Proper(<<c[1], k>>) /\ MachineOf(<<c[1], k>>) = ch[k][1]
    BY <1>1, <1>6, <1>8 DEF Proper, MachineOf
<1>11. ASSUME NEW d \in Calls, Proper(d), d[1] = c[1], c[2] < d[2]
       PROVE  k <= d[2]
    <2>1. d[2] \in 1..n /\ d[2] \in Nat
        BY <1>11, ProperCall
    <2>2. ch[c[2]][1] < ch[d[2]][1]
        BY <1>1, <1>11, <2>1 DEF Proper, MachineOf
    <2>3. d[2] \in K
        BY <1>1, <1>7, <1>11, <2>1, <2>2
    <2> QED
        BY <2>3, <1>4
<1> HIDE DEF ch, n, K
<1> QED
    BY <1>1, <1>5, <1>6, <1>7, <1>9, <1>10, <1>11 DEF ch

\* A slave reads the vectors that the range asks from it: its part of the
\* chain is what is between its call and the next.
LEMMA OwnIndex ==
    ASSUME TypeOK, Planned, pc # "plan", NEW c \in Calls, Proper(c),
           NEW j \in 1..Len(chain[c[1]])
    PROVE  chain[c[1]][j][1] = MachineOf(c)
               <=> j >= c[2] /\ (~ IsLast(c) => j < NextCall(c)[2])
<1> DEFINE ch == chain[c[1]]
           n == Len(ch)
<1>1. /\ c[1] \in DOMAIN query /\ c[2] \in 1..n /\ n \in Nat /\ c[2] \in Nat
      /\ Chains(c[1], ch)
      /\ \A i \in 1..n : ch[i][1] \in Nat
      /\ MachineOf(c) = ch[c[2]][1]
      /\ DOMAIN ch = 1..n
    <2>1. /\ c[1] \in DOMAIN query /\ c[2] \in 1..n /\ n \in Nat /\ c[2] \in Nat
          /\ Chains(c[1], ch)
          /\ \A i \in 1..n : ch[i][1] \in Slaves
        BY ProperCall
    <2>2. DOMAIN ch = 1..n
        BY <2>1 DEF Chains
    <2> QED
        BY <2>1, <2>2, Constants DEF MachineOf
<1>2. CASE j < c[2]
    <2>1. ch[j][1] < MachineOf(c)
        BY <1>1, <1>2 DEF Proper
    <2> QED
        BY <1>1, <1>2, <2>1
<1>3. CASE j >= c[2] /\ IsLast(c)
    <2>1. \A i \in DOMAIN ch : ~ (i > c[2] /\ ch[i][1] # MachineOf(c))
        BY <1>3 DEF IsLast, Others
    <2> QED
        BY <1>1, <1>3, <2>1
<1>4. CASE j >= c[2] /\ ~ IsLast(c)
    <2>1. /\ NextCall(c)[1] = c[1]
          /\ Proper(NextCall(c)) /\ NextCall(c) \in Calls
          /\ MachineOf(c) < MachineOf(NextCall(c))
          /\ \A i \in c[2]..(NextCall(c)[2] - 1) : ch[i][1] = MachineOf(c)
        BY <1>4, NextProper
    <2>2. NextCall(c)[2] \in 1..n /\ MachineOf(NextCall(c)) = ch[NextCall(c)[2]][1]
        BY <2>1, ProperCall DEF MachineOf
    <2>3. CASE j < NextCall(c)[2]
        BY <1>1, <1>4, <2>1, <2>2, <2>3
    <2>4. CASE j >= NextCall(c)[2]
        <3>1. ch[NextCall(c)[2]][1] <= ch[j][1]
            BY <1>1, <2>2, <2>4 DEF Chains
        <3> QED
            BY SMTT(30), <1>1, <1>4, <2>1, <2>2, <2>4, <3>1
    <2> QED
        BY <1>1, <2>2, <2>3, <2>4
<1> QED
    BY <1>1, <1>2, <1>3, <1>4

LEMMA OwnVectors ==
    ASSUME TypeOK, Planned, pc # "plan", NEW c \in Calls, Proper(c)
    PROVE  Own(c) = {v \in query[c[1]][1]..query[c[1]][2] : AskedFor(c[1])[v] = MachineOf(c)}
<1> DEFINE ch == chain[c[1]]
           n == Len(ch)
<1>1. Chains(c[1], ch) /\ DOMAIN ch = 1..n
    BY ProperCall
<1>2. Own(c) = {ch[j][2] : j \in {i \in 1..n : ch[i][1] = MachineOf(c)}}
    BY <1>1, OwnIndex DEF Own
<1>3. ASSUME NEW v \in Own(c)
      PROVE  v \in query[c[1]][1]..query[c[1]][2] /\ AskedFor(c[1])[v] = MachineOf(c)
    BY <1>1, <1>2 DEF Chains
<1>4. ASSUME NEW v \in query[c[1]][1]..query[c[1]][2], AskedFor(c[1])[v] = MachineOf(c)
      PROVE  v \in Own(c)
    <2>1. PICK i \in 1..n : ch[i] = <<AskedFor(c[1])[v], v>>
        BY <1>1 DEF Chains
    <2> QED
        BY <1>2, <1>4, <2>1
<1> QED
    BY <1>3, <1>4

\* The end of a chain.
LEMMA LastAnswers ==
    ASSUME TypeOK, Planned, pc # "plan", NEW c \in Calls, Proper(c), IsLast(c)
    PROVE  /\ Own(c) = Asked(c)
           /\ (\A v \in Own(c) : <<MachineOf(c), v>> \notin absent) => Complete(c)
<1> DEFINE ch == chain[c[1]]
           n == Len(ch)
<1>1. /\ Chains(c[1], ch) /\ DOMAIN ch = 1..n
      /\ c[2] \in 1..n /\ n \in Nat
    BY ProperCall DEF Chains
<1>2. Own(c) = Asked(c)
    BY <1>1 DEF Own, Asked
<1>3. ASSUME NEW j \in c[2]..n
      PROVE  ch[j] = <<MachineOf(c), ch[j][2]>> /\ ch[j][2] \in Asked(c)
    <2>1. ch[j] \in Slaves \X Vecs
        BY <1>1 DEF Chains
    <2>2. ch[j][1] = MachineOf(c)
        BY <1>1, OwnIndex
    <2> QED
        BY <2>1, <2>2 DEF Asked
<1> QED
    BY <1>2, <1>3 DEF Complete

\* The rest of the chain.
LEMMA NextAnswersRest ==
    ASSUME TypeOK, Planned, pc # "plan", NEW c \in Calls, Proper(c), ~ IsLast(c)
    PROVE  /\ Own(c) \cup Asked(NextCall(c)) = Asked(c)
           /\ (\A v \in Own(c) : <<MachineOf(c), v>> \notin absent) /\ Complete(NextCall(c))
                  => Complete(c)
<1> DEFINE ch == chain[c[1]]
           n == Len(ch)
           k == NextCall(c)[2]
<1>1. /\ Chains(c[1], ch) /\ DOMAIN ch = 1..n
      /\ c[2] \in 1..n /\ n \in Nat
      /\ NextCall(c)[1] = c[1]
      /\ k \in 1..n /\ c[2] < k
      /\ \A j \in c[2]..(k - 1) : ch[j][1] = MachineOf(c)
    <2>1. /\ NextCall(c) \in Calls /\ Proper(NextCall(c)) /\ NextCall(c)[1] = c[1]
          /\ c[2] < k
          /\ \A j \in c[2]..(k - 1) : ch[j][1] = MachineOf(c)
        BY NextProper
    <2>2. k \in 1..n
        BY <2>1, ProperCall
    <2>3. /\ Chains(c[1], ch) /\ DOMAIN ch = 1..n
          /\ c[2] \in 1..n /\ n \in Nat
        BY ProperCall
    <2> QED
        BY <2>1, <2>2, <2>3
<1> HIDE DEF k
<1>2. Own(c) = {ch[j][2] : j \in c[2]..(k - 1)}
    BY <1>1 DEF Own, k
<1>3. Asked(NextCall(c)) = {ch[j][2] : j \in k..n}
    BY <1>1 DEF Asked, k
<1>4. Own(c) \cup Asked(NextCall(c)) = Asked(c)
    <2>1. \A j \in c[2]..n : j \in c[2]..(k - 1) \/ j \in k..n
        BY <1>1
    <2>2. \A j \in c[2]..(k - 1) : j \in c[2]..n
        BY <1>1
    <2>3. \A j \in k..n : j \in c[2]..n
        BY <1>1
    <2> QED
        BY <1>2, <1>3, <2>1, <2>2, <2>3 DEF Asked
<1>5. ASSUME \A v \in Own(c) : <<MachineOf(c), v>> \notin absent, Complete(NextCall(c)),
             NEW j \in c[2]..n
      PROVE  ch[j] \notin absent
    <2>1. CASE j < k
        <3>1. ch[j] \in Slaves \X Vecs /\ j \in c[2]..(k - 1)
            BY <1>1, <2>1 DEF Chains
        <3>2. ch[j] = <<MachineOf(c), ch[j][2]>> /\ ch[j][2] \in Own(c)
            BY <1>1, <1>2, <3>1
        <3> QED
            BY <1>5, <3>2
    <2>2. CASE j >= k
        BY <1>1, <1>5, <2>2 DEF Complete, k
    <2> QED
        BY <1>1, <2>1, <2>2
<1> QED
    BY <1>4, <1>5 DEF Complete

-----------------------------------------------------------------------------
(* What goes wrong stays wrong *)

LEMMA TroubleLasts ==
    Trouble /\ UNCHANGED queryVars /\ alive' \subseteq alive => Trouble'
<1> SUFFICES ASSUME Trouble, UNCHANGED queryVars, alive' \subseteq alive PROVE Trouble'
    OBVIOUS
<1>1. \A r \in DOMAIN query : AskedFor(r)' = AskedFor(r)
    BY DEF queryVars, AskedFor
<1> QED
    BY <1>1, Zenon DEF Trouble, queryVars

LEMMA TroubleAt ==
    ASSUME TypeOK, Planned, pc # "plan", NEW r \in DOMAIN query, NEW j \in 1..Len(chain[r]),
           \/ chain[r][j][1] \in Slow
           \/ chain[r][j][1] \notin alive
           \/ chain[r][j] \in absent
    PROVE  Trouble
<1>1. Chains(r, chain[r])
    BY ChainLaid
<1> DEFINE v == chain[r][j][2]
<1>2. /\ v \in query[r][1]..query[r][2]
      /\ chain[r][j][1] = AskedFor(r)[v]
      /\ chain[r][j] = <<AskedFor(r)[v], v>>
    <2>1. chain[r][j] \in Slaves \X Vecs
        BY <1>1 DEF Chains
    <2> QED
        BY <1>1, <2>1 DEF Chains
<1> HIDE DEF v
<1> QED
    BY <1>2 DEF Trouble

LEMMA TroubleOfOwn ==
    ASSUME TypeOK, Planned, pc # "plan", NEW c \in Calls, Proper(c),
           NEW v \in Own(c), <<MachineOf(c), v>> \in absent
    PROVE  Trouble
BY OwnVectors, ProperCall DEF Trouble

LEMMA TroubleOfDead ==
    ASSUME TypeOK, Planned, pc # "plan", NEW c \in Calls, Proper(c), MachineOf(c) \notin alive
    PROVE  Trouble
BY ProperCall, TroubleAt DEF MachineOf

-----------------------------------------------------------------------------
(* The steps of a slave, by what they do to its calls *)

LEMMA HeldCall ==
    ASSUME TypeOK, Planned, Addressed, NEW m \in Slaves, NEW c \in Held(m)
    PROVE  /\ c \in Calls /\ c # None
           /\ c[1] \in Nat /\ c[2] \in Nat /\ c = <<c[1], c[2]>>
           /\ Proper(c) /\ MachineOf(c) = m /\ Called(c[1])
           /\ m \in alive /\ answer[c] = <<>>
           /\ pc # "plan"
<1>1. c \in Calls
    BY DEF TypeOK, Held
<1>2. /\ Proper(c) /\ MachineOf(c) = m /\ Called(c[1])
      /\ m \in alive /\ answer[c] = <<>>
    BY DEF Addressed
<1>3. c[1] \in Nat \ {0} /\ c[2] \in Nat /\ c = <<c[1], c[2]>>
    <2>1. \A S \in SUBSET Nat, T \in SUBSET Nat : c \in S \X T => c[1] \in S /\ c[2] \in T
        OBVIOUS
    <2> QED
        BY <1>1, Constants DEF Calls
<1>4. pc # "plan"
    BY <1>2, <1>3 DEF Planned, Called
<1> QED
    BY <1>1, <1>2, <1>3, <1>4 DEF None

\* An answer is late only if something is wrong: while all is well a slave has
\* one call at a time.
LEMMA LateIsTrouble ==
    ASSUME TypeOK, Planned, Addressed, Foremost, Smooth, pc # "plan",
           NEW c \in Calls, Proper(c), Late(c)
    PROVE  Trouble
<1>1. PICK m \in alive, k \in c[2]..Cardinality(Vecs) :
         \/ m \in Slow /\ (<<c[1], k>> \in inbox[m] \/ <<c[1], k>> = call[m])
         \/ <<c[1], k>> \in inbox[m] /\ call[m] # None
    BY DEF Late
<1> DEFINE d == <<c[1], k>>
<1>2. m \in Slaves
    BY DEF TypeOK
<1>3. d # None
    BY ProperCall, RangeOK DEF None
<1>4. d \in Held(m)
    BY <1>1, <1>3 DEF Held
<1>5. /\ d \in Calls /\ Proper(d) /\ MachineOf(d) = m
    BY <1>2, <1>4, HeldCall
<1>6. CASE m \in Slow
    BY <1>5, <1>6, ProperCall, TroubleAt DEF MachineOf
<1>7. CASE d \in inbox[m] /\ call[m] # None
    <2> SUFFICES ASSUME ~ Trouble PROVE FALSE
        OBVIOUS
    <2>1. call[m] \in Held(m) /\ d \in Front(m)
        BY <1>7 DEF Held, Front
    <2>2. d[1] = cur /\ call[m][1] = cur
        BY <1>2, <1>4, <2>1 DEF Smooth
    <2>3. call[m] \in Calls /\ Proper(call[m]) /\ MachineOf(call[m]) = m
        BY <1>2, <2>1, HeldCall
    <2>4. call[m] = d
        BY <1>5, <2>2, <2>3, OneCallPerMachine
    <2> QED
        BY <1>2, <1>7, <2>1, <2>4 DEF Foremost
<1> QED
    BY <1>1, <1>6, <1>7

LEMMA LostIsTrouble ==
    ASSUME TypeOK, Planned, Addressed, Foremost, Smooth, pc # "plan",
           NEW c \in Calls, Proper(c), Lost(c)
    PROVE  Trouble
BY LateIsTrouble, TroubleOfDead DEF Lost

\* Slave m answers call c and is rid of it.
Right(c, res) ==
    /\ res \in Result
    /\ IF res.ok THEN res.read = Asked(c) /\ Complete(c) ELSE Trouble

Finish(m, c) ==
    /\ c \in Held(m)
    /\ call[m] \in {None, c}
    /\ inbox' = [inbox EXCEPT ![m] = @ \ {c}]
    /\ call' = [call EXCEPT ![m] = None]
    /\ phase' = [phase EXCEPT ![m] = "connect"]
    /\ \E res \in Result : Right(c, res) /\ answer' = [answer EXCEPT ![c] = <<res>>]
    /\ ~ Trouble => \A n \in Slaves : \A d \in Held(n) : d[1] = c[1] => d[2] <= c[2]
    /\ UNCHANGED <<queryVars, slaveVars, masterVars>>

Take(m, c) ==
    /\ c \in inbox[m]
    /\ call[m] = None
    /\ phase[m] = "connect"
    /\ ~ IsLast(c)
    /\ \A v \in Own(c) : <<m, v>> \notin absent
    /\ inbox' = [inbox EXCEPT ![m] = @ \ {c}]
    /\ call' = [call EXCEPT ![m] = c]
    /\ UNCHANGED <<queryVars, slaveVars, masterVars, phase, answer>>

Ready(m) ==
    /\ call[m] # None
    /\ phase[m] = "connect"
    /\ phase' = [phase EXCEPT ![m] = "call"]
    /\ UNCHANGED <<queryVars, slaveVars, masterVars, inbox, call, answer>>

Pass(m) ==
    /\ call[m] # None
    /\ phase[m] = "call"
    /\ LET next == NextCall(call[m])
       IN  /\ MachineOf(next) \in alive
           /\ inbox' = [inbox EXCEPT ![MachineOf(next)] = @ \cup {next}]
    /\ phase' = [phase EXCEPT ![m] = "wait"]
    /\ UNCHANGED <<queryVars, slaveVars, masterVars, call, answer>>

\* It dies of the dead slave behind it.
Fall(m) ==
    /\ call[m] # None
    /\ phase[m] = "connect"
    /\ MachineOf(NextCall(call[m])) \notin alive
    /\ Cardinality(Own(call[m])) = 1
    /\ Gone(m)
    /\ UNCHANGED <<queryVars, masterVars, crashes, answer>>

LEMMA SlaveStep ==
    ASSUME TypeOK, Planned, Addressed, Foremost, Answered, Smooth,
           NEW m \in Slaves, Slave(m)
    PROVE  \/ \E c \in Calls : Finish(m, c)
           \/ \E c \in Calls : Take(m, c)
           \/ Ready(m)
           \/ Pass(m)
           \/ Fall(m)
<1>t. /\ inbox \in [Slaves -> SUBSET Calls]
      /\ call \in [Slaves -> Calls \cup {None}]
      /\ phase \in [Slaves -> {"connect", "call", "wait"}]
      /\ m \in alive
    BY DEF TypeOK, Slave
<1>r. \A vs \in SUBSET Vecs : Success(vs) \in Result /\ Success(vs).ok /\ Success(vs).read = vs
    BY DEF Success, Result
<1>f. Failure \in Result /\ ~ Failure.ok
    BY DEF Failure, Result
\* When m gives up its call.
<1>g. ASSUME call[m] # None, Reply(call[m], Failure), Free(m), inbox' = inbox, Trouble,
             UNCHANGED <<queryVars, slaveVars, masterVars>>
      PROVE  \E c \in Calls : Finish(m, c)
    <2>1. call[m] \in Held(m) /\ call[m] \in Calls
        BY <1>g, <1>t DEF Held
    <2>2. inbox[m] \ {call[m]} = inbox[m]
        <3>1. call[m] \notin inbox[m]
            BY <1>t DEF Foremost, Front
        <3> QED
            BY <3>1
    <2>3. inbox' = [inbox EXCEPT ![m] = @ \ {call[m]}]
        BY <1>g, <1>t, <2>2
    <2>4. Right(call[m], Failure)
        BY <1>f, <1>g DEF Right
    <2>5. Finish(m, call[m])
        BY <1>f, <1>g, <2>1, <2>3, <2>4 DEF Finish, Reply, Free
    <2> QED
        BY <2>1, <2>5
<1>1. ASSUME NEW c \in Calls, ReadOwn(m, c)
      PROVE  \E d \in Calls : Finish(m, d) \/ Take(m, d)
    <2>1. /\ call[m] = None /\ c \in inbox[m]
          /\ inbox' = [inbox EXCEPT ![m] = @ \ {c}]
          /\ UNCHANGED <<queryVars, slaveVars, masterVars>>
        BY <1>1 DEF ReadOwn
    <2>2. c \in Held(m) /\ phase[m] = "connect"
        BY <2>1 DEF Held, Addressed
    <2>3. Proper(c) /\ MachineOf(c) = m /\ pc # "plan"
        BY <2>2, HeldCall
    <2>4. /\ [call EXCEPT ![m] = None] = call
          /\ [phase EXCEPT ![m] = "connect"] = phase
        BY <2>1, <2>2, <1>t
    <2>5. CASE \E v \in Own(c) : <<m, v>> \in absent
        <3>1. Trouble
            BY <2>3, <2>5, TroubleOfOwn
        <3>2. Reply(c, Failure) /\ UNCHANGED <<call, phase>>
            BY <1>1, <2>5 DEF ReadOwn
        <3>3. Right(c, Failure)
            BY <1>f, <3>1 DEF Right
        <3>4. Finish(m, c)
            BY <1>f, <2>1, <2>2, <2>4, <3>1, <3>2, <3>3 DEF Finish, Reply
        <3> QED
            BY <3>4
    <2>6. CASE ~ (\E v \in Own(c) : <<m, v>> \in absent) /\ IsLast(c)
        <3>1. Reply(c, Success(Own(c))) /\ UNCHANGED <<call, phase>>
            BY <1>1, <2>6 DEF ReadOwn
        <3>2. Own(c) = Asked(c) /\ Complete(c)
            BY <2>3, <2>6, LastAnswers
        <3>3. Own(c) \in SUBSET Vecs
            BY <2>3, OwnVectors, ProperCall, RangeOK
        <3>4. Right(c, Success(Own(c)))
            BY <1>r, <3>2, <3>3 DEF Right
        <3>5. ASSUME NEW n \in Slaves, NEW d \in Held(n), d[1] = c[1]
              PROVE  d[2] <= c[2]
            <4>1. d \in Calls /\ Proper(d) /\ d[2] \in Nat /\ c[2] \in Nat
                BY <2>2, HeldCall
            <4>2. /\ chain[c[1]][c[2]][1] = MachineOf(c) /\ MachineOf(c) \in Nat
                  /\ d[2] \in 1..Len(chain[c[1]])
                  /\ c[2] \in 1..Len(chain[c[1]])
                BY <2>3, <3>5, <4>1, ProperCall, Constants DEF MachineOf
            <4>3. d[2] > c[2] => chain[c[1]][d[2]][1] = MachineOf(c)
                BY <2>3, <2>6, <4>1, <4>2, OwnIndex
            <4>4. d[2] > c[2] => chain[c[1]][c[2]][1] < chain[c[1]][d[2]][1]
                BY <3>5, <4>1, <4>2 DEF Proper, MachineOf
            <4> QED
                BY <4>1, <4>2, <4>3, <4>4
        <3>6. Finish(m, c)
            BY <1>r, <2>1, <2>2, <2>4, <3>1, <3>3, <3>4, <3>5 DEF Finish, Reply
        <3> QED
            BY <3>6
    <2>7. CASE ~ (\E v \in Own(c) : <<m, v>> \in absent) /\ ~ IsLast(c)
        <3>1. call' = [call EXCEPT ![m] = c] /\ UNCHANGED <<phase, answer>>
            BY <1>1, <2>7 DEF ReadOwn
        <3>2. Take(m, c)
            BY <2>1, <2>2, <2>7, <3>1 DEF Take
        <3> QED
            BY <3>2
    <2> QED
        BY <2>5, <2>6, <2>7
<1> DEFINE c == call[m]
           next == NextCall(c)
<1>h. ASSUME call[m] # None
      PROVE  /\ c \in Held(m) /\ c \in Calls /\ Proper(c) /\ MachineOf(c) = m /\ pc # "plan"
             /\ c[2] \in Nat
             /\ ~ IsLast(c)
             /\ \A v \in Own(c) : <<m, v>> \notin absent
             /\ next \in Calls /\ Proper(next) /\ next[1] = c[1]
    <2>1. c \in Held(m)
        BY <1>h DEF Held
    <2>2. c \in Calls /\ Proper(c) /\ MachineOf(c) = m /\ pc # "plan" /\ c[2] \in Nat
        BY <2>1, HeldCall
    <2>3. ~ IsLast(c) /\ \A v \in Own(c) : <<m, v>> \notin absent
        BY <1>h DEF Addressed
    <2> QED
        BY <2>1, <2>2, <2>3, NextProper
<1>2. CASE ConnectNext(m)
    <2>1. call[m] # None /\ phase[m] = "connect" /\ UNCHANGED <<queryVars, crashes, masterVars>>
        BY <1>2 DEF ConnectNext
    <2>2. CASE MachineOf(next) \in alive
        <3>1. Ready(m)
            BY <1>2, <2>1, <2>2 DEF ConnectNext, Ready, slaveVars
        <3> QED
            BY <3>1
    <2>3. CASE MachineOf(next) \notin alive /\ Cardinality(Own(c)) = 1
        <3>1. Fall(m)
            BY <1>2, <2>1, <2>3 DEF ConnectNext, Fall
        <3> QED
            BY <3>1
    <2>4. CASE MachineOf(next) \notin alive /\ Cardinality(Own(c)) # 1
        <3>1. Reply(c, Failure) /\ Free(m) /\ UNCHANGED <<alive, inbox>>
            BY <1>2, <2>4 DEF ConnectNext
        <3>2. Trouble
            BY <1>h, <2>1, <2>4, TroubleOfDead
        <3> QED
            BY <1>g, <2>1, <3>1, <3>2 DEF slaveVars
    <2> QED
        BY <2>2, <2>3, <2>4
<1>3. CASE CallNext(m)
    <2>1. call[m] # None /\ phase[m] = "call" /\ UNCHANGED <<queryVars, crashes, masterVars>>
        BY <1>3 DEF CallNext, Addressed
    <2>2. CASE MachineOf(next) \in alive
        <3>1. Pass(m)
            BY <1>3, <2>1, <2>2 DEF CallNext, Pass, slaveVars
        <3> QED
            BY <3>1
    <2>3. CASE MachineOf(next) \notin alive
        <3>1. Reply(c, Failure) /\ Free(m) /\ UNCHANGED <<alive, inbox>>
            BY <1>3, <2>3 DEF CallNext, NoResult
        <3>2. Trouble
            BY <1>h, <2>1, <2>3, TroubleOfDead
        <3> QED
            BY <1>g, <2>1, <3>1, <3>2 DEF slaveVars
    <2> QED
        BY <2>2, <2>3
<1>4. CASE NextAnswers(m)
    <2>1. /\ phase[m] = "wait" /\ call[m] # None
          /\ answer[next] # <<>>
          /\ Reply(c, Combined(Head(answer[next]), Own(c)))
          /\ Free(m)
          /\ inbox' = inbox
          /\ UNCHANGED <<queryVars, slaveVars, masterVars>>
        BY <1>4 DEF NextAnswers, Addressed
    <2> DEFINE res == Head(answer[next])
    <2>2. /\ res \in Result
          /\ IF res.ok THEN res.read = Asked(next) /\ Complete(next) ELSE Trouble
        <3>1. res \in Result
            BY <1>h, <2>1 DEF TypeOK
        <3> QED
            BY <1>h, <2>1, <3>1 DEF Answered, Complete
    <2>3. CASE ~ res.ok
        BY <1>g, <2>1, <2>2, <2>3 DEF Combined
    <2>4. CASE res.ok
        <3>1. Own(c) \cup Asked(next) = Asked(c) /\ Complete(c)
            BY <1>h, <2>1, <2>2, <2>4, NextAnswersRest
        <3>2. Combined(res, Own(c)) = Success(Asked(c))
            BY <2>2, <2>4, <3>1 DEF Combined
        <3>3. Asked(c) \in SUBSET Vecs
            <4>1. Own(c) \in SUBSET Vecs
                BY <1>h, <2>1, OwnVectors, ProperCall, RangeOK
            <4>2. Asked(next) \in SUBSET Vecs
                BY <2>2, <2>4 DEF Result
            <4> QED
                BY <3>1, <4>1, <4>2
        <3>4. Right(c, Success(Asked(c)))
            BY <1>r, <3>1, <3>3 DEF Right
        <3>5. inbox' = [inbox EXCEPT ![m] = @ \ {c}]
            <4>1. c \notin inbox[m]
                BY <1>t DEF Foremost, Front
            <4>2. inbox[m] \ {c} = inbox[m]
                BY <4>1
            <4> QED
                BY <2>1, <1>t, <4>2
        <3>6. ASSUME ~ Trouble, NEW n \in Slaves, NEW d \in Held(n), d[1] = c[1]
              PROVE  d[2] <= c[2]
            <4>1. d \in Calls /\ Proper(d) /\ d[2] \in Nat
                BY HeldCall
            <4>2. d[2] < next[2]
                BY <1>h, <2>1, <3>6 DEF Smooth
            <4>3. ~ (c[2] < d[2])
                BY <1>h, <2>1, <3>6, <4>1, <4>2, NextProper, ProperCall
            <4> QED
                BY <1>h, <2>1, <4>1, <4>3
        <3>7. Finish(m, c)
            BY <1>h, <1>r, <2>1, <3>2, <3>3, <3>4, <3>5, <3>6 DEF Finish, Reply, Free
        <3> QED
            BY <1>h, <2>1, <3>7
    <2> QED
        BY <2>3, <2>4
<1>5. CASE NextLost(m)
    <2>1. /\ phase[m] = "wait" /\ call[m] # None
          /\ Lost(next)
          /\ Reply(c, Failure) /\ Free(m) /\ UNCHANGED <<alive, inbox>>
          /\ UNCHANGED <<queryVars, crashes, masterVars>>
        BY <1>5 DEF NextLost, NoResult, Addressed
    <2>2. Trouble
        BY <1>h, <2>1, LostIsTrouble
    <2> QED
        BY <1>g, <2>1, <2>2 DEF slaveVars
<1> QED
    BY <1>1, <1>2, <1>3, <1>4, <1>5 DEF Slave

-----------------------------------------------------------------------------
(* What every step relies on *)

LEMMA QueryOK ==
    ASSUME TypeOK
    PROVE  /\ DOMAIN query = 1..Len(query) /\ Len(query) \in 1..MaxRanges /\ Len(query) \in Nat
           /\ cur \in DOMAIN query /\ cur \in Nat /\ cur >= 1
           /\ Len(results) \in Nat
           /\ Cardinality(Vecs) \in Nat
<1>1. query \in Seq(Int \X Int) /\ Len(query) \in 1..MaxRanges /\ cur \in DOMAIN query
    BY QueryAssumption DEF TypeOK
<1>2. Len(query) \in Nat /\ DOMAIN query = 1..Len(query)
    BY <1>1
<1>3. results \in Seq({"clnt_res", "own"})
    BY DEF TypeOK
<1>4. Cardinality(Vecs) \in Nat
    BY QueryAssumption, FS_CardinalityType
<1> QED
    BY <1>1, <1>2, <1>3, <1>4

\* A call says the same as long as the query and the plan stay.
LEMMA SameCalls ==
    ASSUME UNCHANGED <<queryVars, chain>>
    PROVE  \A c \in Calls :
              /\ Proper(c)' = Proper(c)
              /\ MachineOf(c)' = MachineOf(c)
              /\ IsLast(c)' = IsLast(c)
              /\ NextCall(c)' = NextCall(c)
              /\ Own(c)' = Own(c)
              /\ Asked(c)' = Asked(c)
              /\ Complete(c)' = Complete(c)
<1> TAKE c \in Calls
<1>1. MachineOf(c)' = MachineOf(c)
    BY DEF queryVars, MachineOf
<1>2. Others(c)' = Others(c)
    BY <1>1 DEF queryVars, Others
<1>3. IsLast(c)' = IsLast(c) /\ NextCall(c)' = NextCall(c)
    BY <1>2 DEF IsLast, NextCall
<1>4. Own(c)' = Own(c)
    BY <1>3 DEF queryVars, Own
<1>5. Proper(c)' = Proper(c)
    BY <1>1 DEF queryVars, Proper
<1>6. Asked(c)' = Asked(c) /\ Complete(c)' = Complete(c)
    BY DEF queryVars, Asked, Complete
<1> QED
    BY <1>1, <1>3, <1>4, <1>5, <1>6

LEMMA SamePlan ==
    ASSUME Planned, pc # "plan", pc' # "plan", UNCHANGED <<queryVars, chain>>
    PROVE  Planned'
<1>1. \A r \in DOMAIN query : Sorted(AskedFor(r))' = Sorted(AskedFor(r))
    <2> TAKE r \in DOMAIN query
    <2>1. AskedFor(r)' = AskedFor(r)
        BY DEF queryVars, AskedFor
    <2> QED
        BY <2>1 DEF Sorted, Pairs, Before
<1> QED
    BY <1>1 DEF Planned, queryVars

LEMMA TroubleEnds ==
    ASSUME UNCHANGED <<queryVars, alive>>
    PROVE  Trouble' = Trouble
<1>1. \A r \in DOMAIN query : AskedFor(r)' = AskedFor(r)
    BY DEF queryVars, AskedFor
<1> QED
    BY <1>1, Zenon DEF Trouble, queryVars

\* A call is at one machine.
LEMMA HeldOnce ==
    ASSUME TypeOK, Planned, Addressed, NEW m \in Slaves, NEW n \in Slaves,
           NEW c \in Held(m), c \in Held(n)
    PROVE  m = n
BY HeldCall

LEMMA FrontHeld ==
    ASSUME NEW m \in Slaves, NEW c \in Front(m)
    PROVE  c \in Held(m)
BY DEF Front, Held

LEMMA Gained ==
    ASSUME TypeOK
    PROVE  IsFiniteSet(Spent) /\ Cardinality(Spent) \in Nat
<1>1. IsFiniteSet(1..Len(query))
    BY QueryOK, CountTo
<1>2. Spent \subseteq 1..Len(query)
    BY QueryOK DEF Spent
<1> QED
    BY <1>1, <1>2, FS_Subset, FS_CardinalityType

\* A range that can cost no slave any more stays so.
LEMMA SpentStays ==
    ASSUME TypeOK, TypeOK', query' = query, Deaths, alive' = alive, crashes' = crashes,
           Spent \subseteq Spent'
    PROVE  Deaths'
<1>1. IsFiniteSet(Spent') /\ Cardinality(Spent) \in Nat /\ Cardinality(Spent') \in Nat
    <2>1. IsFiniteSet(Spent)' /\ (Cardinality(Spent) \in Nat)'
        BY Gained, PTL
    <2> QED
        BY <2>1, Gained
<1>2. Cardinality(Spent) <= Cardinality(Spent')
    BY <1>1, FS_Subset
<1>3. Cardinality(Slaves \ alive) \in Nat /\ crashes \in Nat
    BY Constants, FS_Subset, FS_CardinalityType DEF TypeOK
<1> QED
    BY <1>1, <1>2, <1>3 DEF Deaths

-----------------------------------------------------------------------------
(* The initial states *)

\* The invariant holds before starfish plans the query.
THEOREM InitOK == Init => IInv
<1> SUFFICES ASSUME Init PROVE IInv
    OBVIOUS
<1>1. query \in Queries /\ Queries \subseteq Seq(Int \X Int) /\ Len(query) \in 1..MaxRanges
    BY QueryAssumption DEF Init
<1>2. 1 \in DOMAIN query
    BY <1>1
<1>3. TypeOK
    <2>1. clnt_res \in Result
        BY DEF Init, Result, Success
    <2>2. outcome.ok \in BOOLEAN /\ outcome.reads \in Seq(SUBSET Vecs)
        BY DEF Init
    <2>3. crashes \in 0..MaxCrashes
        BY Constants DEF Init
    <2>4. /\ inbox \in [Slaves -> SUBSET Calls]
          /\ call \in [Slaves -> Calls \cup {None}]
          /\ phase \in [Slaves -> {"connect", "call", "wait"}]
          /\ answer \in [Calls -> {<<>>} \cup {<<res>> : res \in Result}]
        BY DEF Init
    <2>5. absent \subseteq Slaves \X Vecs
        BY DEF Init
    <2>6. /\ chain \in Seq(Seq(Slaves \X Vecs)) /\ cur \in DOMAIN query
          /\ results \in Seq({"clnt_res", "own"})
        BY <1>2 DEF Init
    <2> QED
        BY <2>1, <2>2, <2>3, <2>4, <2>5, <2>6 DEF TypeOK, Init
<1>4. \A m \in Slaves : Held(m) = {} /\ Front(m) = {}
    BY DEF Init, Held, Front
<1>5. Planned /\ Addressed
    <2>1. \A m \in Slaves : phase[m] = "connect" /\ call[m] = None
        BY DEF Init
    <2> QED
        BY <1>4, <2>1 DEF Planned, Addressed, Init
<1>6. Foremost /\ Smooth
    BY <1>4 DEF Foremost, Smooth
<1>7. Answered
    BY DEF Answered, Init
<1>8. Stored
    BY DEF Stored, Init, Success
<1>9. Deaths
    <2>1. Slaves \ alive = {} /\ crashes = 0
        BY DEF Init
    <2>2. Cardinality(Slaves \ alive) = 0
        BY <2>1, FS_EmptySet
    <2> QED
        BY <1>3, <2>1, <2>2, Gained DEF Deaths
<1> QED
    BY <1>3, <1>5, <1>6, <1>7, <1>8, <1>9 DEF IInv

-----------------------------------------------------------------------------
(* The types *)

LEMMA StoreTypes ==
    ASSUME TypeOK, NEW p \in {"clnt_res", "own"}, Store(p)
    PROVE  cur' \in DOMAIN query /\ results' \in Seq({"clnt_res", "own"})
           /\ pc' \in {"connect", "conclude"}
<1>1. results' = Append(results, p) /\ results \in Seq({"clnt_res", "own"})
    BY DEF TypeOK, Store
<1> QED
    BY <1>1, QueryOK DEF Store

LEMMA Coordinators ==
    ASSUME TypeOK, Planned, pc # "plan"
    PROVE  /\ Coordinator \in Calls /\ Proper(Coordinator)
           /\ Coordinator[1] = cur /\ Coordinator[2] = 1
           /\ MachineOf(Coordinator) \in Slaves
<1>1. Chains(cur, chain[cur]) /\ cur \in 1..MaxRanges
    BY QueryOK, ChainLaid, RangeOK
<1>2. 1 \in DOMAIN chain[cur] /\ 1 \in 1..Cardinality(Vecs)
    BY <1>1, QueryOK DEF Chains
<1>3. Coordinator \in Calls /\ Coordinator[1] = cur /\ Coordinator[2] = 1
    BY <1>1, <1>2 DEF Coordinator, Calls
<1>4. Proper(Coordinator)
    BY <1>2, <1>3, QueryOK DEF Proper
<1> QED
    BY <1>3, <1>4, ProperCall

LEMMA MasterTypes ==
    ASSUME TypeOK, Planned, Master
    PROVE  TypeOK'
<1>1. CASE starfish
    <2>1. \A r \in DOMAIN query : Sorted(AskedFor(r)) \in Seq(Slaves \X Vecs)
        BY SortedChains DEF Chains
    <2>2. [r \in DOMAIN query |-> Sorted(AskedFor(r))] \in Seq(Seq(Slaves \X Vecs))
        BY <2>1, QueryOK
    <2>3. chain' \in Seq(Seq(Slaves \X Vecs)) /\ pc' = "connect"
        BY <1>1, <2>2 DEF starfish
    <2> QED
        BY <1>1, <2>3 DEF TypeOK, starfish, queryVars, slaveVars, pipeVars
<1>2. CASE ConnectCoordinator
    BY <1>2 DEF TypeOK, ConnectCoordinator, queryVars, slaveVars, pipeVars
<1>3. CASE CallCoordinator
    <2>1. pc # "plan"
        BY <1>3 DEF CallCoordinator
    <2>2. Success({}) \in Result
        BY DEF Success, Result
    <2>3. CASE MachineOf(Coordinator) \in alive
        <3>1. inbox' \in [Slaves -> SUBSET Calls] /\ pc' = "wait" /\ UNCHANGED <<cur, results>>
            BY <1>3, <2>1, <2>3, Coordinators DEF CallCoordinator, TypeOK
        <3> QED
            BY <1>3, <2>2, <3>1 DEF TypeOK, CallCoordinator, queryVars, slaveVars
    <2>4. CASE MachineOf(Coordinator) \notin alive
        <3>1. Store("own") /\ UNCHANGED inbox
            BY <1>3, <2>4 DEF CallCoordinator
        <3>2. /\ cur' \in DOMAIN query /\ results' \in Seq({"clnt_res", "own"})
              /\ pc' \in {"connect", "conclude"}
            BY <3>1, StoreTypes
        <3> QED
            BY <1>3, <2>2, <3>1, <3>2 DEF TypeOK, CallCoordinator, queryVars, slaveVars
    <2> QED
        BY <2>3, <2>4
<1>4. CASE CoordinatorAnswers
    <2>1. /\ cur' \in DOMAIN query /\ results' \in Seq({"clnt_res", "own"})
          /\ pc' \in {"connect", "conclude"}
        BY <1>4, StoreTypes DEF CoordinatorAnswers
    <2>2. clnt_res' \in Result
        <3>1. Coordinator \in Calls /\ answer[Coordinator] # <<>>
            BY <1>4, Coordinators DEF CoordinatorAnswers
        <3> QED
            BY <1>4, <3>1 DEF CoordinatorAnswers, TypeOK
    <2> QED
        BY <1>4, <2>1, <2>2 DEF TypeOK, CoordinatorAnswers, queryVars, slaveVars, pipeVars
<1>5. CASE CoordinatorLost
    <2>1. /\ cur' \in DOMAIN query /\ results' \in Seq({"clnt_res", "own"})
          /\ pc' \in {"connect", "conclude"}
        BY <1>5, StoreTypes DEF CoordinatorLost
    <2> QED
        BY <1>5, <2>1 DEF TypeOK, CoordinatorLost, queryVars, slaveVars, pipeVars
<1>6. CASE Conclude
    <2>1. \A r \in DOMAIN results : Deref(results[r]).read \in SUBSET Vecs
        BY DEF Deref, Failure, TypeOK, Result
    <2>2. [r \in DOMAIN results |-> Deref(results[r]).read] \in Seq(SUBSET Vecs)
        <3>1. DOMAIN results = 1..Len(results) /\ Len(results) \in Nat
            BY DEF TypeOK
        <3> QED
            BY <2>1, <3>1
    <2>3. outcome'.ok \in BOOLEAN /\ outcome'.reads \in Seq(SUBSET Vecs)
        BY <1>6, <2>2 DEF Conclude
    <2> QED
        BY <1>6, <2>3 DEF TypeOK, Conclude, queryVars, slaveVars, pipeVars
<1> QED
    BY <1>1, <1>2, <1>3, <1>4, <1>5, <1>6 DEF Master

LEMMA GoneTypes ==
    ASSUME TypeOK, NEW m \in Slaves, Gone(m), UNCHANGED <<queryVars, masterVars, answer>>,
           crashes' \in 0..MaxCrashes
    PROVE  TypeOK'
<1>1. /\ inbox' \in [Slaves -> SUBSET Calls]
      /\ call' \in [Slaves -> Calls \cup {None}]
      /\ phase' \in [Slaves -> {"connect", "call", "wait"}]
      /\ alive' \subseteq Slaves
    BY DEF TypeOK, Gone, Free
<1> QED
    BY <1>1 DEF TypeOK, queryVars, masterVars

LEMMA SlaveTypes ==
    ASSUME TypeOK, Planned, Addressed, Foremost, Answered, Smooth, NEW m \in Slaves, Slave(m)
    PROVE  TypeOK'
<1>1. ASSUME NEW c \in Calls, Finish(m, c) PROVE TypeOK'
    <2>1. /\ inbox' \in [Slaves -> SUBSET Calls]
          /\ call' \in [Slaves -> Calls \cup {None}]
          /\ phase' \in [Slaves -> {"connect", "call", "wait"}]
        BY <1>1 DEF TypeOK, Finish
    <2>2. answer' \in [Calls -> {<<>>} \cup {<<res>> : res \in Result}]
        BY <1>1 DEF TypeOK, Finish
    <2> QED
        BY <1>1, <2>1, <2>2 DEF TypeOK, Finish, queryVars, slaveVars, masterVars
<1>2. ASSUME NEW c \in Calls, Take(m, c) PROVE TypeOK'
    <2>1. /\ inbox' \in [Slaves -> SUBSET Calls]
          /\ call' \in [Slaves -> Calls \cup {None}]
        BY <1>2 DEF TypeOK, Take
    <2> QED
        BY <1>2, <2>1 DEF TypeOK, Take, queryVars, slaveVars, masterVars
<1>3. CASE Ready(m)
    BY <1>3 DEF TypeOK, Ready, queryVars, slaveVars, masterVars
<1>4. CASE Pass(m)
    <2>1. call[m] \in Held(m) /\ call[m] # None
        BY <1>4 DEF Pass, Held
    <2>2. NextCall(call[m]) \in Calls
        BY <2>1, HeldCall, NextProper DEF Addressed
    <2>3. inbox' \in [Slaves -> SUBSET Calls] /\ phase' \in [Slaves -> {"connect", "call", "wait"}]
        BY <1>4, <2>2 DEF TypeOK, Pass
    <2> QED
        BY <1>4, <2>3 DEF TypeOK, Pass, queryVars, slaveVars, masterVars
<1>5. CASE Fall(m)
    <2>1. crashes' \in 0..MaxCrashes
        BY <1>5 DEF TypeOK, Fall
    <2> QED
        BY <1>5, <2>1, GoneTypes DEF Fall
<1> QED
    BY <1>1, <1>2, <1>3, <1>4, <1>5, SlaveStep

-----------------------------------------------------------------------------
(* The steps of the master *)

\* The plan: nothing was asked before.
LEMMA PlanStep ==
    ASSUME IInv, TypeOK', starfish
    PROVE  IInv'
<1> USE DEF IInv
<1>1. /\ pc = "plan" /\ pc' = "connect" /\ cur = 1 /\ cur' = 1
      /\ UNCHANGED <<queryVars, slaveVars, results, clnt_res, pipeVars>>
    BY DEF starfish, Planned
<1>2. \A m \in Slaves : Held(m) = {}
    BY <1>1, HeldCall
<1>3. \A m \in Slaves : Held(m)' = {} /\ Front(m)' = {}
    BY <1>1, <1>2, Zenon DEF Held, Front, pipeVars
<1>4. \A d \in Calls : answer[d] = <<>>
    <2> SUFFICES ASSUME NEW d \in Calls, answer[d] # <<>> PROVE FALSE
        OBVIOUS
    <2>1. d[1] < cur /\ d[1] \in DOMAIN query
        BY <1>1 DEF Answered, Called, Proper
    <2> QED
        BY <1>1, <2>1, QueryOK
<1>5. Planned'
    <2>1. \A r \in DOMAIN query : Sorted(AskedFor(r))' = Sorted(AskedFor(r))
        <3> TAKE r \in DOMAIN query
        <3>1. AskedFor(r)' = AskedFor(r)
            BY <1>1 DEF queryVars, AskedFor
        <3> QED
            BY <3>1 DEF Sorted, Pairs, Before
    <2>2. chain' = [r \in DOMAIN query |-> Sorted(AskedFor(r))] /\ query' = query
        BY <1>1 DEF starfish, queryVars
    <2> QED
        BY <1>1, <2>1, <2>2 DEF Planned
<1>6. Addressed' /\ Foremost' /\ Smooth'
    <2>1. \A m \in Slaves : phase'[m] = "connect" /\ call'[m] = None
        <3>1. \A m \in Slaves : call'[m] = None
            BY <1>1, <1>2 DEF Held, pipeVars
        <3> QED
            BY <1>1, <3>1 DEF Addressed, TypeOK, pipeVars
    <2> QED
        BY <1>3, <2>1 DEF Addressed, Foremost, Smooth
<1>7. Answered'
    BY <1>1, <1>4 DEF Answered, pipeVars
<1>8. Stored'
    <2>1. Len(results') = 0 /\ results' \in Seq({"clnt_res", "own"})
        BY <1>1 DEF Stored, TypeOK
    <2>2. DOMAIN results' = {}
        BY <2>1
    <2>3. ~ clnt_res.ok => Trouble'
        BY <1>1, TroubleLasts DEF Stored, slaveVars
    <2> QED
        BY <1>1, <2>1, <2>2, <2>3 DEF Stored
<1>9. Deaths'
    <2>1. Spent \subseteq Spent'
        <3>1. Spent = {}
            BY <1>1, QueryOK DEF Spent, Called
        <3> QED
            BY <3>1
    <2> QED
        BY <1>1, <2>1, SpentStays DEF queryVars, slaveVars
<1> QED
    BY <1>5, <1>6, <1>7, <1>8, <1>9

\* The master moves on, and calls nobody: of the calls nothing changes.
MovesOn ==
    /\ pc # "plan" /\ pc' # "plan"
    /\ \A r \in DOMAIN query : Called(r) => Called(r)'
    /\ ~ Trouble => \A m \in Slaves : Held(m) = {}
    /\ UNCHANGED <<queryVars, slaveVars, pipeVars, chain>>

LEMMA MovesOnStep ==
    ASSUME IInv, TypeOK', MovesOn
    PROVE  Planned' /\ Addressed' /\ Foremost' /\ Answered' /\ Smooth' /\ Deaths'
<1> USE DEF IInv
<1>1. /\ UNCHANGED <<queryVars, chain>> /\ UNCHANGED <<queryVars, alive>>
      /\ alive' = alive /\ inbox' = inbox /\ call' = call /\ phase' = phase /\ answer' = answer
      /\ query' = query /\ absent' = absent /\ crashes' = crashes
      /\ \A r \in DOMAIN query : Called(r) => Called(r)'
    BY DEF MovesOn, slaveVars, pipeVars, queryVars
<1>2. \A m \in Slaves : Held(m)' = Held(m) /\ Front(m)' = Front(m)
    BY <1>1, Zenon DEF Held, Front
<1>3. Planned'
    BY <1>1, SamePlan DEF MovesOn
<1>4. Trouble' = Trouble
    BY <1>1, TroubleEnds
<1>5. \A c \in Calls : /\ Proper(c)' = Proper(c)
                       /\ MachineOf(c)' = MachineOf(c)
                       /\ IsLast(c)' = IsLast(c)
                       /\ Own(c)' = Own(c)
                       /\ Asked(c)' = Asked(c)
                       /\ Complete(c)' = Complete(c)
    BY <1>1, SameCalls
<1>6. Addressed'
    <2> SUFFICES ASSUME NEW m \in Slaves
                 PROVE  /\ \A c \in Held(m)' :
                              /\ m \in alive' /\ answer'[c] = <<>>
                              /\ Proper(c)' /\ MachineOf(c)' = m /\ Called(c[1])'
                        /\ phase'[m] # "connect" => call'[m] # None
                        /\ call'[m] # None =>
                              /\ ~ IsLast(call[m])'
                              /\ \A v \in Own(call[m])' : <<m, v>> \notin absent'
        BY DEF Addressed
    <2>1. ASSUME NEW c \in Held(m)
          PROVE  /\ m \in alive' /\ answer'[c] = <<>>
                 /\ Proper(c)' /\ MachineOf(c)' = m /\ Called(c[1])'
        <3>1. c \in Calls /\ Proper(c) /\ MachineOf(c) = m /\ Called(c[1])
              /\ m \in alive /\ answer[c] = <<>>
            BY HeldCall
        <3>2. c[1] \in DOMAIN query
            BY <3>1 DEF Proper
        <3> QED
            BY <3>1, <3>2, <1>1, <1>5
    <2>2. ASSUME call[m] # None
          PROVE  /\ ~ IsLast(call[m])'
                 /\ \A v \in Own(call[m])' : <<m, v>> \notin absent'
        <3>1. call[m] \in Calls
            BY <2>2 DEF TypeOK
        <3>2. IsLast(call[m])' = IsLast(call[m]) /\ Own(call[m])' = Own(call[m])
            BY <1>1, <1>5, <3>1, Zenon DEF IsLast, Own
        <3> QED
            BY <2>2, <3>2, <1>1 DEF Addressed
    <2> QED
        BY <2>1, <2>2, <1>1, <1>2 DEF Addressed
<1>7. Foremost'
    BY <1>1, <1>2 DEF Foremost
<1>8. Answered'
    <2> SUFFICES ASSUME NEW d \in Calls, answer[d] # <<>>
                 PROVE  /\ Proper(d)'
                        /\ Called(d[1])'
                        /\ LET res == Head(answer[d])
                           IN  IF res.ok
                               THEN res.read = Asked(d)' /\ Complete(d)'
                               ELSE Trouble'
        BY <1>1 DEF Answered
    <2>1. Proper(d) /\ Called(d[1]) /\ d[1] \in DOMAIN query
        BY DEF Answered, Proper
    <2>2. LET res == Head(answer[d])
          IN  IF res.ok THEN res.read = Asked(d) /\ Complete(d) ELSE Trouble
        BY DEF Answered
    <2> QED
        BY <1>1, <1>4, <1>5, <2>1, <2>2
<1>9. Smooth'
    BY <1>2, <1>4 DEF Smooth, MovesOn
<1>10. Deaths'
    <2>1. Spent \subseteq Spent'
        BY <1>1, <1>2, Zenon DEF Spent
    <2> QED
        BY <1>1, <2>1, SpentStays
<1> QED
    BY <1>3, <1>6, <1>7, <1>8, <1>9, <1>10

\* A result is stored, and the next range is asked, or all have been.
LEMMA StoreStep ==
    ASSUME IInv, NEW p \in {"clnt_res", "own"}, Store(p), pc \in {"call", "wait"},
           UNCHANGED <<queryVars, slaveVars>>,
           p = "own" => Trouble,
           ~ clnt_res'.ok => Trouble,
           p = "clnt_res" => answer'[<<cur, 1>>] = <<clnt_res'>>
    PROVE  /\ Stored'
           /\ pc' # "plan"
           /\ \A r \in DOMAIN query : Called(r) => Called(r)'
<1> USE DEF IInv
<1>1. /\ results' = Append(results, p) /\ results \in Seq({"clnt_res", "own"})
      /\ Len(results) = cur - 1 /\ cur \in Nat /\ cur <= Len(query) /\ Len(query) \in Nat
      /\ query' = query /\ UNCHANGED <<queryVars, alive>>
      /\ DOMAIN query = 1..Len(query)
    BY QueryOK DEF Store, Stored, TypeOK, queryVars, slaveVars
<1>2. Trouble' = Trouble
    BY <1>1, TroubleEnds
<1>3. /\ Len(results') = cur
      /\ \A r \in 1..cur : results'[r] = IF r = cur THEN p ELSE results[r]
      /\ DOMAIN results' = 1..cur /\ DOMAIN results = 1..(cur - 1)
    BY <1>1
<1>4. \A r \in DOMAIN results' : results'[r] = "own" => Trouble
    <2> SUFFICES ASSUME NEW r \in 1..cur, results'[r] = "own" PROVE Trouble
        BY <1>3
    <2>1. CASE r = cur
        BY <1>3, <2>1
    <2>2. CASE r # cur
        <3>1. r \in DOMAIN results /\ results[r] = "own"
            BY <1>1, <1>3, <2>2
        <3> QED
            BY <3>1 DEF Stored
    <2> QED
        BY <2>1, <2>2
<1>5. CASE cur < Len(query)
    <2>1. pc' = "connect" /\ cur' = cur + 1
        BY <1>5 DEF Store
    <2>2. Stored'
        <3>1. Len(results') = cur' - 1 /\ pc' \notin {"conclude", "done"}
            BY <1>1, <1>3, <2>1
        <3>2. (\A r \in DOMAIN results' : results'[r] = "own" => Trouble')
              /\ (~ clnt_res'.ok => Trouble')
            BY <1>2, <1>4
        <3> QED
            BY <2>1, <3>1, <3>2 DEF Stored
    <2> QED
        BY <1>1, <2>1, <2>2 DEF Called
<1>6. CASE ~ (cur < Len(query))
    <2>1. pc' = "conclude" /\ cur' = cur /\ cur = Len(query)
        <3>1. pc' = "conclude" /\ cur' = cur
            BY <1>6 DEF Store
        <3> HIDE DEF IInv
        <3>2. cur \in Nat /\ Len(query) \in Nat /\ cur <= Len(query)
            BY <1>1
        <3>3. cur = Len(query)
            BY <3>2, <1>6
        <3> QED
            BY <3>1, <3>3
    <2>2. results'[cur'] = "clnt_res" => answer'[<<cur', 1>>] = <<clnt_res'>>
        BY <1>1, <1>3, <2>1, QueryOK
    <2>3. Stored'
        BY <1>1, <1>2, <1>3, <1>4, <2>1, <2>2 DEF Stored
    <2> QED
        BY <1>1, <2>1, <2>3 DEF Called
<1> QED
    BY <1>5, <1>6

LEMMA ConnectCoordinatorStep ==
    ASSUME IInv, TypeOK', ConnectCoordinator
    PROVE  IInv'
<1> USE DEF IInv
<1>1. /\ pc = "connect" /\ pc' \in {"call", "segv"} /\ cur' = cur
      /\ UNCHANGED <<queryVars, slaveVars, pipeVars, chain, results, clnt_res>>
      /\ UNCHANGED <<queryVars, alive>>
    BY DEF ConnectCoordinator, slaveVars
<1>2. MovesOn
    BY <1>1 DEF MovesOn, Called, Smooth
<1>3. Stored'
    <2>1. Trouble' = Trouble
        BY <1>1, TroubleEnds
    <2> QED
        BY <1>1, <2>1 DEF Stored, queryVars
<1> QED
    BY <1>2, <1>3, MovesOnStep

LEMMA ConcludeStep ==
    ASSUME IInv, TypeOK', Conclude
    PROVE  IInv'
<1> USE DEF IInv
<1>1. /\ pc = "conclude" /\ pc' = "done" /\ cur' = cur
      /\ UNCHANGED <<queryVars, slaveVars, pipeVars, chain, results, clnt_res>>
      /\ UNCHANGED <<queryVars, alive>>
    BY DEF Conclude, slaveVars
<1>2. MovesOn
    BY <1>1 DEF MovesOn, Called, Smooth
<1>3. Stored'
    <2>1. Trouble' = Trouble
        BY <1>1, TroubleEnds
    <2> QED
        BY <1>1, <2>1 DEF Stored, queryVars
<1> QED
    BY <1>2, <1>3, MovesOnStep

LEMMA CoordinatorAnswersStep ==
    ASSUME IInv, TypeOK', CoordinatorAnswers
    PROVE  IInv'
<1> USE DEF IInv
<1>1. /\ pc = "wait" /\ answer[Coordinator] # <<>>
      /\ clnt_res' = Head(answer[Coordinator]) /\ Store("clnt_res")
      /\ UNCHANGED <<queryVars, slaveVars, pipeVars, chain>>
      /\ answer' = answer
    BY DEF CoordinatorAnswers, pipeVars
<1>2. /\ Coordinator \in Calls /\ Coordinator = <<cur, 1>>
      /\ Coordinator[1] = cur /\ Coordinator[2] = 1
    BY <1>1, Coordinators DEF Coordinator
<1>3. ~ clnt_res'.ok => Trouble
    BY <1>1, <1>2 DEF Answered
<1>4. answer[Coordinator] = <<clnt_res'>>
    <2>1. answer[Coordinator] \in {<<>>} \cup {<<res>> : res \in Result}
        BY <1>2 DEF TypeOK
    <2>2. PICK res \in Result : answer[Coordinator] = <<res>>
        BY <1>1, <2>1
    <2> QED
        BY <1>1, <2>2
<1>5. /\ Stored' /\ pc' # "plan"
      /\ \A r \in DOMAIN query : Called(r) => Called(r)'
    BY <1>1, <1>2, <1>3, <1>4, StoreStep
<1>6. ~ Trouble => \A m \in Slaves : Held(m) = {}
    <2> SUFFICES ASSUME ~ Trouble, NEW m \in Slaves, NEW c \in Held(m) PROVE FALSE
        OBVIOUS
    <2>1. c[1] = cur /\ c[2] < 1
        BY <1>1, <1>2 DEF Smooth
    <2>2. c[2] \in 1..Cardinality(Vecs)
        BY HeldCall DEF Calls
    <2> QED
        BY <2>1, <2>2, QueryOK
<1>7. MovesOn
    BY <1>1, <1>5, <1>6 DEF MovesOn
<1> QED
    BY <1>5, <1>7, MovesOnStep

LEMMA CoordinatorLostStep ==
    ASSUME IInv, TypeOK', CoordinatorLost
    PROVE  IInv'
<1> USE DEF IInv
<1>1. /\ pc = "wait" /\ Lost(Coordinator) /\ Store("own") /\ clnt_res' = clnt_res
      /\ UNCHANGED <<queryVars, slaveVars, pipeVars, chain>>
    BY DEF CoordinatorLost
<1>2. Trouble
    BY <1>1, Coordinators, LostIsTrouble
<1>3. /\ Stored' /\ pc' # "plan"
      /\ \A r \in DOMAIN query : Called(r) => Called(r)'
    BY <1>1, <1>2, StoreStep
<1>4. MovesOn
    BY <1>1, <1>2, <1>3 DEF MovesOn
<1> QED
    BY <1>3, <1>4, MovesOnStep

\* The first machine of the chain is called: nobody has a call of this range,
\* and nothing of it was answered.
LEMMA CallCoordinatorStep ==
    ASSUME IInv, TypeOK', CallCoordinator
    PROVE  IInv'
<1> USE DEF IInv
<1>1. /\ pc = "call" /\ clnt_res' = Success({})
      /\ UNCHANGED <<queryVars, slaveVars, chain, outcome, call, phase, answer>>
      /\ UNCHANGED <<queryVars, alive>> /\ UNCHANGED <<queryVars, chain>>
      /\ answer' = answer /\ call' = call /\ phase' = phase
      /\ alive' = alive /\ query' = query /\ absent' = absent /\ crashes' = crashes
    BY DEF CallCoordinator, slaveVars, queryVars
<1>k. /\ Coordinator \in Calls /\ Proper(Coordinator) /\ Coordinator = <<cur, 1>>
      /\ Coordinator[1] = cur /\ Coordinator[2] = 1 /\ MachineOf(Coordinator) \in Slaves
    BY <1>1, Coordinators DEF Coordinator
<1>p. PICK k \in Calls, h \in Slaves : k = Coordinator /\ h = MachineOf(Coordinator)
    BY <1>k
<1>2. /\ Proper(k) /\ k[1] = cur /\ k[2] = 1 /\ k = <<cur, 1>> /\ MachineOf(k) = h
      /\ k # None
    BY <1>k, <1>p, <1>1, ProperCall
<1>3. clnt_res'.ok
    BY <1>1 DEF Success
<1>4. ~ Trouble => \A m \in Slaves : Held(m) = {}
    BY <1>1 DEF Smooth
<1>5. CASE h \notin alive
    <2>1. Store("own") /\ inbox' = inbox
        BY <1>1, <1>5, <1>p DEF CallCoordinator
    <2>2. Trouble
        BY <1>1, <1>2, <1>5, TroubleOfDead
    <2>3. /\ Stored' /\ pc' # "plan"
          /\ \A r \in DOMAIN query : Called(r) => Called(r)'
        BY <1>1, <1>3, <2>1, <2>2, StoreStep
    <2>4. MovesOn
        BY <1>1, <2>1, <2>2, <2>3 DEF MovesOn, pipeVars
    <2> QED
        BY <2>3, <2>4, MovesOnStep
<1>6. CASE h \in alive
    <2>1. /\ inbox' = [inbox EXCEPT ![h] = @ \cup {k}]
          /\ pc' = "wait" /\ cur' = cur /\ results' = results
        BY <1>1, <1>6, <1>p DEF CallCoordinator
    <2>2. ~ Called(cur)
        BY <1>1, QueryOK DEF Called
    <2>3. Called(cur)' /\ \A r : Called(r) => Called(r)'
        BY <1>1, <2>1, QueryOK DEF Called
    <2>4. \A m \in Slaves : \A c \in Held(m) : c[1] # cur /\ c # k
        BY <1>2, <2>2, HeldCall
    <2>5. \A d \in Calls : answer[d] # <<>> => d[1] # cur
        BY <2>2 DEF Answered
    <2>6. \A m \in Slaves :
              /\ inbox'[m] = IF m = h THEN inbox[m] \cup {k} ELSE inbox[m]
              /\ Held(m)' = IF m = h THEN Held(m) \cup {k} ELSE Held(m)
              /\ Front(m)' = IF m = h THEN Front(m) \cup {k} ELSE Front(m)
        <3> TAKE m \in Slaves
        <3>1. inbox'[m] = IF m = h THEN inbox[m] \cup {k} ELSE inbox[m]
            BY <1>2, <2>1 DEF TypeOK
        <3>2. Held(m)' = inbox'[m] \cup ({call[m]} \ {None})
            BY <1>1 DEF Held
        <3>3. Front(m)' = inbox'[m] \cup (IF phase[m] = "wait" THEN {} ELSE {call[m]} \ {None})
            BY <1>1 DEF Front
        <3> QED
            BY <3>1, <3>2, <3>3 DEF Held, Front
    <2>i. \A m \in Slaves :
              /\ \A c \in inbox'[m] : c \in inbox[m] \/ (m = h /\ c = k)
              /\ \A c \in Held(m)' : c \in Held(m) \/ (m = h /\ c = k)
              /\ \A c \in Front(m)' : c \in Front(m) \/ (m = h /\ c = k)
        <3> TAKE m \in Slaves
        <3>1. CASE m = h
            BY <2>6, <3>1
        <3>2. CASE m # h
            BY <2>6, <3>2
        <3> QED
            BY <3>1, <3>2
    <2>7. Planned'
        BY <1>1, <2>1, SamePlan
    <2>8. Trouble' = Trouble
        BY <1>1, TroubleEnds
    <2>9. \A c \in Calls : /\ Proper(c)' = Proper(c)
                           /\ MachineOf(c)' = MachineOf(c)
                           /\ IsLast(c)' = IsLast(c)
                           /\ Own(c)' = Own(c)
                           /\ Asked(c)' = Asked(c)
                           /\ Complete(c)' = Complete(c)
        BY <1>1, SameCalls
    <2>10. Addressed'
        <3> SUFFICES ASSUME NEW m \in Slaves
                     PROVE  /\ \A c \in Held(m)' :
                                  /\ m \in alive' /\ answer'[c] = <<>>
                                  /\ Proper(c)' /\ MachineOf(c)' = m /\ Called(c[1])'
                            /\ phase'[m] # "connect" => call'[m] # None
                            /\ call'[m] # None =>
                                  /\ ~ IsLast(call[m])'
                                  /\ \A v \in Own(call[m])' : <<m, v>> \notin absent'
            BY DEF Addressed
        <3>1. ASSUME NEW c \in Held(m)
              PROVE  /\ m \in alive' /\ answer'[c] = <<>>
                     /\ Proper(c)' /\ MachineOf(c)' = m /\ Called(c[1])'
            <4>1. c \in Calls /\ Proper(c) /\ MachineOf(c) = m /\ Called(c[1])
                  /\ m \in alive /\ answer[c] = <<>>
                BY HeldCall
            <4> QED
                BY <4>1, <1>1, <2>3, <2>9
        <3>2. ASSUME m = h
              PROVE  /\ m \in alive' /\ answer'[k] = <<>>
                     /\ Proper(k)' /\ MachineOf(k)' = m /\ Called(k[1])'
            <4>1. MachineOf(k) = m
                BY <1>2, <3>2
            <4>2. answer[k] = <<>>
                BY <1>2, <2>5
            <4>3. Called(k[1])'
                BY <1>2, <2>1, <2>3
            <4> QED
                BY <1>1, <1>2, <1>6, <2>9, <3>2, <4>1, <4>2, <4>3
        <3>3. ASSUME call[m] # None
              PROVE  /\ ~ IsLast(call[m])'
                     /\ \A v \in Own(call[m])' : <<m, v>> \notin absent'
            <4>1. call[m] \in Calls
                BY <3>3 DEF TypeOK
            <4>2. IsLast(call[m])' = IsLast(call[m]) /\ Own(call[m])' = Own(call[m])
                BY <1>1, <2>9, <4>1, Zenon
            <4> QED
                BY <3>3, <4>2, <1>1 DEF Addressed
        <3> QED
            BY <3>1, <3>2, <3>3, <1>1, <2>i DEF Addressed
    <2>11. Foremost'
        <3> SUFFICES ASSUME NEW m \in Slaves, NEW c \in Front(m)'
                     PROVE  /\ call[m] = c => c \notin inbox'[m]
                            /\ \A n \in Slaves : \A d \in Held(n)' :
                                  d[1] = c[1] /\ d # c => d[2] < c[2] /\ d \notin Front(n)'
                            /\ \A d \in Calls :
                                  d[1] = c[1] /\ answer[d] # <<>> => d[2] < c[2]
            BY <1>1 DEF Foremost
        <3>1. CASE c = k
            <4>1. call[m] # k
                BY <1>2, <2>4 DEF Held
            <4>2. \A n \in Slaves : \A d \in Held(n)' : d[1] = k[1] => d = k
                BY <1>2, <2>4, <2>i
            <4> QED
                BY <1>2, <2>5, <3>1, <4>1, <4>2
        <3>2. CASE c # k
            <4>1. c \in Front(m) /\ c[1] # cur
                BY <2>4, <2>i, <3>2, FrontHeld
            <4>2. call[m] = c => c \notin inbox'[m]
                BY <2>i, <3>2, <4>1 DEF Foremost
            <4>3. ASSUME NEW n \in Slaves, NEW d \in Held(n)', d[1] = c[1], d # c
                  PROVE  d[2] < c[2] /\ d \notin Front(n)'
                <5>1. d # k /\ d \in Held(n)
                    BY <1>2, <2>i, <4>1, <4>3
                <5> QED
                    BY <2>i, <4>1, <4>3, <5>1 DEF Foremost
            <4> QED
                BY <4>1, <4>2, <4>3 DEF Foremost
        <3> QED
            BY <3>1, <3>2
    <2>12. Answered'
        <3> SUFFICES ASSUME NEW d \in Calls, answer[d] # <<>>
                     PROVE  /\ Proper(d)'
                            /\ Called(d[1])'
                            /\ LET res == Head(answer[d])
                               IN  IF res.ok
                                   THEN res.read = Asked(d)' /\ Complete(d)'
                                   ELSE Trouble'
            BY <1>1 DEF Answered
        <3>1. Proper(d) /\ Called(d[1])
            BY DEF Answered
        <3>2. LET res == Head(answer[d])
              IN  IF res.ok THEN res.read = Asked(d) /\ Complete(d) ELSE Trouble
            BY DEF Answered
        <3> QED
            BY <2>3, <2>8, <2>9, <3>1, <3>2
    <2>13. Smooth'
        <3> SUFFICES ASSUME ~ Trouble, NEW m \in Slaves, NEW c \in Held(m)'
                     PROVE  /\ c[1] = cur
                            /\ \A d \in Calls : d[1] = c[1] /\ answer[d] # <<>> => c[2] < d[2]
            BY <1>1, <2>1, <2>8 DEF Smooth
        <3>1. c = k
            BY <1>4, <2>i
        <3> QED
            BY <1>2, <2>5, <3>1
    <2>14. Stored'
        BY <1>1, <1>3, <2>1, <2>8 DEF Stored
    <2>15. Deaths'
        <3>1. Spent \subseteq Spent'
            <4> SUFFICES ASSUME NEW r \in Spent PROVE r \in Spent'
                OBVIOUS
            <4>1. r \in DOMAIN query /\ Called(r) /\ r # cur
                  /\ \A m \in Slaves : \A c \in Front(m) : c[1] # r
                BY <2>2 DEF Spent
            <4>2. \A m \in Slaves : \A c \in Front(m)' : c[1] # r
                BY <1>2, <2>6, <4>1
            <4> QED
                BY <1>1, <2>3, <4>1, <4>2 DEF Spent
        <3> QED
            BY <1>1, <3>1, SpentStays
    <2> QED
        BY <2>7, <2>10, <2>11, <2>12, <2>13, <2>14, <2>15
<1> QED
    BY <1>5, <1>6

-----------------------------------------------------------------------------
(* The steps of the slaves *)

\* The master stands, and no answer is taken back.
LEMMA MasterStands ==
    ASSUME IInv, UNCHANGED <<queryVars, masterVars>>, alive' \subseteq alive,
           \A d \in Calls : answer[d] # <<>> => answer'[d] = answer[d]
    PROVE  /\ Planned' /\ Stored'
           /\ \A r : Called(r)' = Called(r)
           /\ Trouble => Trouble'
           /\ pc' = pc /\ cur' = cur /\ query' = query /\ absent' = absent
           /\ UNCHANGED <<queryVars, chain>>
<1> USE DEF IInv
<1>1. /\ pc' = pc /\ cur' = cur /\ query' = query /\ absent' = absent
      /\ results' = results /\ clnt_res' = clnt_res
      /\ UNCHANGED <<queryVars, chain>>
    BY DEF queryVars, masterVars
<1>2. \A r : Called(r)' = Called(r)
    BY <1>1, Zenon DEF Called
<1>3. Trouble => Trouble'
    BY <1>1, TroubleLasts
<1>4. Planned'
    BY <1>1, SamePlan DEF Planned
<1>5. pc = "conclude" /\ results[cur] = "clnt_res" => answer'[<<cur, 1>>] = <<clnt_res>>
    <2> SUFFICES ASSUME pc = "conclude", results[cur] = "clnt_res"
                 PROVE  answer'[<<cur, 1>>] = <<clnt_res>>
        OBVIOUS
    <2>1. <<cur, 1>> \in Calls
        BY Coordinators DEF Coordinator
    <2>2. answer[<<cur, 1>>] = <<clnt_res>>
        BY DEF Stored
    <2>3. answer[<<cur, 1>>] # <<>>
        BY <2>2
    <2> QED
        BY <2>1, <2>2, <2>3
<1>6. Stored'
    BY <1>1, <1>3, <1>5 DEF Stored
<1> QED
    BY <1>1, <1>2, <1>3, <1>4, <1>6

LEMMA FinishStep ==
    ASSUME IInv, TypeOK', NEW m \in Slaves, NEW c \in Calls, Finish(m, c)
    PROVE  IInv'
<1> USE DEF IInv
<1>1. /\ c \in Held(m) /\ call[m] \in {None, c}
      /\ UNCHANGED <<queryVars, slaveVars, masterVars>>
      /\ UNCHANGED <<queryVars, alive>>
      /\ alive' = alive /\ crashes' = crashes
    BY DEF Finish, slaveVars
<1>2. /\ c # None /\ Proper(c) /\ MachineOf(c) = m /\ Called(c[1]) /\ answer[c] = <<>>
      /\ c = <<c[1], c[2]>> /\ c[1] \in Nat /\ c[2] \in Nat /\ pc # "plan"
    BY <1>1, HeldCall
<1>3. PICK res \in Result : Right(c, res) /\ answer' = [answer EXCEPT ![c] = <<res>>]
    BY DEF Finish
<1>4. \A d \in Calls : answer'[d] = IF d = c THEN <<res>> ELSE answer[d]
    BY <1>3 DEF TypeOK
<1>5. /\ Planned' /\ Stored'
      /\ \A r : Called(r)' = Called(r)
      /\ pc' = pc /\ cur' = cur /\ query' = query /\ absent' = absent
      /\ UNCHANGED <<queryVars, chain>>
    <2>1. \A d \in Calls : answer[d] # <<>> => answer'[d] = answer[d]
        BY <1>2, <1>4
    <2> QED
        BY <1>1, <2>1, MasterStands
<1>6. Trouble' = Trouble
    BY <1>1, TroubleEnds
<1>7. \A d \in Calls : /\ Proper(d)' = Proper(d)
                       /\ MachineOf(d)' = MachineOf(d)
                       /\ IsLast(d)' = IsLast(d)
                       /\ Own(d)' = Own(d)
                       /\ Asked(d)' = Asked(d)
                       /\ Complete(d)' = Complete(d)
    BY <1>5, SameCalls
<1>8. \A n \in Slaves :
          /\ inbox'[n] = IF n = m THEN inbox[n] \ {c} ELSE inbox[n]
          /\ call'[n] = IF n = m THEN None ELSE call[n]
          /\ phase'[n] = IF n = m THEN "connect" ELSE phase[n]
    BY DEF Finish, TypeOK
<1>9. \A n \in Slaves :
          /\ \A d \in Held(n)' : d \in Held(n) /\ d # c
          /\ \A d \in Front(n)' : d \in Front(n)
    <2> TAKE n \in Slaves
    <2>1. Held(n)' = inbox'[n] \cup ({call'[n]} \ {None})
        BY DEF Held
    <2>2. Front(n)' = inbox'[n] \cup (IF phase'[n] = "wait" THEN {} ELSE {call'[n]} \ {None})
        BY DEF Front
    <2>3. CASE n = m
        <3>1. Held(n)' = inbox[n] \ {c} /\ Front(n)' = inbox[n] \ {c}
            BY <1>8, <2>1, <2>2, <2>3
        <3> QED
            BY <3>1 DEF Held, Front
    <2>4. CASE n # m
        <3>1. inbox'[n] = inbox[n] /\ call'[n] = call[n] /\ phase'[n] = phase[n]
            BY <1>8, <2>4
        <3>2. Held(n)' = Held(n) /\ Front(n)' = Front(n)
            BY <2>1, <2>2, <3>1, Zenon DEF Held, Front
        <3>3. c \notin Held(n)
            BY <1>1, <2>4, HeldOnce
        <3> QED
            BY <3>2, <3>3
    <2> QED
        BY <2>3, <2>4
<1>10. Addressed'
    <2> SUFFICES ASSUME NEW n \in Slaves
                 PROVE  /\ \A d \in Held(n)' :
                              /\ n \in alive' /\ answer'[d] = <<>>
                              /\ Proper(d)' /\ MachineOf(d)' = n /\ Called(d[1])'
                        /\ phase'[n] # "connect" => call'[n] # None
                        /\ call'[n] # None =>
                              /\ ~ IsLast(call[n])'
                              /\ \A v \in Own(call[n])' : <<n, v>> \notin absent'
        BY DEF Addressed
    <2>1. ASSUME NEW d \in Held(n)'
          PROVE  /\ n \in alive' /\ answer'[d] = <<>>
                 /\ Proper(d)' /\ MachineOf(d)' = n /\ Called(d[1])'
        <3>1. d \in Held(n) /\ d # c
            BY <1>9, <2>1
        <3>2. d \in Calls /\ Proper(d) /\ MachineOf(d) = n /\ Called(d[1])
              /\ n \in alive /\ answer[d] = <<>>
            BY <3>1, HeldCall
        <3> QED
            BY <1>1, <1>4, <1>5, <1>7, <3>1, <3>2
    <2>2. phase'[n] # "connect" => call'[n] # None
        BY <1>8 DEF Addressed
    <2>3. ASSUME call'[n] # None
          PROVE  /\ ~ IsLast(call[n])'
                 /\ \A v \in Own(call[n])' : <<n, v>> \notin absent'
        <3>1. call'[n] = call[n] /\ call[n] \in Calls /\ call[n] # None
            BY <1>8, <2>3 DEF TypeOK
        <3>2. IsLast(call[n])' = IsLast(call[n]) /\ Own(call[n])' = Own(call[n])
            <4>1. PICK d \in Calls : d = call[n]
                BY <3>1
            <4>2. call'[n] = d
                BY <3>1, <4>1
            <4>3. IsLast(call[n])' = IsLast(d)' /\ Own(call[n])' = Own(d)'
                BY <4>2
            <4> QED
                BY <1>7, <4>1, <4>3
        <3> QED
            BY <3>1, <3>2, <1>5 DEF Addressed
    <2> QED
        BY <2>1, <2>2, <2>3
<1>11. Foremost'
    <2> SUFFICES ASSUME NEW n \in Slaves, NEW d \in Front(n)'
                 PROVE  /\ call'[n] = d => d \notin inbox'[n]
                        /\ \A o \in Slaves : \A e \in Held(o)' :
                              e[1] = d[1] /\ e # d => e[2] < d[2] /\ e \notin Front(o)'
                        /\ \A e \in Calls :
                              e[1] = d[1] /\ answer'[e] # <<>> => e[2] < d[2]
        BY DEF Foremost
    <2>1. d \in Front(n) /\ d \in Held(n) /\ d # None
        BY <1>9, FrontHeld, HeldCall
    <2>2. d # c
        <3>1. d \in Held(n)'
            BY DEF Front, Held
        <3> QED
            BY <1>9, <3>1
    <2>3. call'[n] = d => d \notin inbox'[n]
        BY <1>8, <2>1 DEF Foremost
    <2>4. ASSUME NEW o \in Slaves, NEW e \in Held(o)', e[1] = d[1], e # d
          PROVE  e[2] < d[2] /\ e \notin Front(o)'
        <3>1. e \in Held(o)
            BY <1>9
        <3> QED
            BY <1>9, <2>1, <2>4, <3>1 DEF Foremost
    <2>5. ASSUME NEW e \in Calls, e[1] = d[1], answer'[e] # <<>>
          PROVE  e[2] < d[2]
        BY <1>1, <1>4, <2>1, <2>2, <2>5 DEF Foremost
    <2> QED
        BY <2>3, <2>4, <2>5
<1>12. Answered'
    <2> SUFFICES ASSUME NEW d \in Calls, answer'[d] # <<>>
                 PROVE  /\ Proper(d)'
                        /\ Called(d[1])'
                        /\ LET a == Head(answer'[d])
                           IN  IF a.ok
                               THEN a.read = Asked(d)' /\ Complete(d)'
                               ELSE Trouble'
        BY DEF Answered
    <2>1. CASE d = c
        <3>1. Head(answer'[d]) = res
            BY <1>4, <2>1
        <3> QED
            BY <1>2, <1>3, <1>5, <1>6, <1>7, <2>1, <3>1 DEF Right
    <2>2. CASE d # c
        <3>1. answer'[d] = answer[d]
            BY <1>4, <2>2
        <3>2. Proper(d) /\ Called(d[1])
            BY <3>1 DEF Answered
        <3>3. LET a == Head(answer'[d])
              IN  IF a.ok THEN a.read = Asked(d) /\ Complete(d) ELSE Trouble
            BY <3>1 DEF Answered
        <3> QED
            BY <1>5, <1>6, <1>7, <3>2, <3>3
    <2> QED
        BY <2>1, <2>2
<1>13. Smooth'
    <2> SUFFICES ASSUME ~ Trouble, NEW n \in Slaves, NEW d \in Held(n)'
                 PROVE  /\ d[1] = cur /\ pc = "wait"
                        /\ \A e \in Calls : e[1] = d[1] /\ answer'[e] # <<>> => d[2] < e[2]
        BY <1>5, <1>6 DEF Smooth
    <2>1. d \in Held(n) /\ d # c /\ d = <<d[1], d[2]>> /\ d[2] \in Nat
        BY <1>9, HeldCall
    <2>2. d[1] = c[1] => d[2] < c[2]
        <3>1. d[1] = c[1] => d[2] <= c[2]
            BY <2>1 DEF Finish
        <3>2. d[1] = c[1] => d[2] # c[2]
            BY <1>2, <2>1
        <3> QED
            BY <1>2, <2>1, <3>1, <3>2
    <2> QED
        BY <1>4, <2>1, <2>2 DEF Smooth
<1>14. Deaths'
    <2>1. Spent \subseteq Spent'
        BY <1>5, <1>9 DEF Spent
    <2> QED
        BY <1>1, <1>5, <2>1, SpentStays
<1> QED
    BY <1>5, <1>10, <1>11, <1>12, <1>13, <1>14

\* No slave gets a call or is rid of one, or passes one on.
LEMMA KeepsStep ==
    ASSUME IInv, TypeOK', UNCHANGED <<queryVars, slaveVars, masterVars, answer>>,
           \A n \in Slaves : Held(n)' = Held(n) /\ Front(n)' = Front(n),
           \A n \in Slaves :
              /\ phase'[n] # "connect" => call'[n] # None
              /\ call'[n] # None =>
                    /\ ~ IsLast(call'[n])
                    /\ \A v \in Own(call'[n]) : <<n, v>> \notin absent
              /\ call'[n] \notin inbox'[n]
    PROVE  IInv'
<1> USE DEF IInv
<1>1. /\ UNCHANGED <<queryVars, alive>>
      /\ alive' = alive /\ crashes' = crashes /\ answer' = answer
    BY DEF slaveVars
<1>5. /\ Planned' /\ Stored'
      /\ \A r : Called(r)' = Called(r)
      /\ pc' = pc /\ cur' = cur /\ query' = query /\ absent' = absent
      /\ UNCHANGED <<queryVars, chain>>
    BY <1>1, MasterStands
<1>6. Trouble' = Trouble
    BY <1>1, TroubleEnds
<1>7. \A d \in Calls : /\ Proper(d)' = Proper(d)
                       /\ MachineOf(d)' = MachineOf(d)
                       /\ IsLast(d)' = IsLast(d)
                       /\ Own(d)' = Own(d)
                       /\ Asked(d)' = Asked(d)
                       /\ Complete(d)' = Complete(d)
    BY <1>5, SameCalls
<1>8. Addressed'
    <2> SUFFICES ASSUME NEW n \in Slaves
                 PROVE  /\ \A d \in Held(n)' :
                              /\ n \in alive' /\ answer'[d] = <<>>
                              /\ Proper(d)' /\ MachineOf(d)' = n /\ Called(d[1])'
                        /\ phase'[n] # "connect" => call'[n] # None
                        /\ call'[n] # None =>
                              /\ ~ IsLast(call[n])'
                              /\ \A v \in Own(call[n])' : <<n, v>> \notin absent'
        BY DEF Addressed
    <2>1. ASSUME NEW d \in Held(n)'
          PROVE  /\ n \in alive' /\ answer'[d] = <<>>
                 /\ Proper(d)' /\ MachineOf(d)' = n /\ Called(d[1])'
        <3>1. d \in Held(n)
            OBVIOUS
        <3>2. d \in Calls /\ Proper(d) /\ MachineOf(d) = n /\ Called(d[1])
              /\ n \in alive /\ answer[d] = <<>>
            BY <3>1, HeldCall
        <3> QED
            BY <1>1, <1>5, <1>7, <3>2
    <2>2. ASSUME call'[n] # None
          PROVE  /\ ~ IsLast(call[n])'
                 /\ \A v \in Own(call[n])' : <<n, v>> \notin absent'
        <3>1. PICK d \in Calls : d = call'[n]
            BY <2>2 DEF TypeOK
        <3>2. ~ IsLast(d) /\ \A v \in Own(d) : <<n, v>> \notin absent
            BY <2>2, <3>1
        <3>3. IsLast(call[n])' = IsLast(d)' /\ Own(call[n])' = Own(d)'
            BY <3>1
        <3> QED
            BY <1>5, <1>7, <3>2, <3>3
    <2> QED
        BY <2>1, <2>2
<1>9. Foremost'
    <2> SUFFICES ASSUME NEW n \in Slaves, NEW d \in Front(n)
                 PROVE  /\ call'[n] = d => d \notin inbox'[n]
                        /\ \A o \in Slaves : \A e \in Held(o) :
                              e[1] = d[1] /\ e # d => e[2] < d[2] /\ e \notin Front(o)
                        /\ \A e \in Calls :
                              e[1] = d[1] /\ answer[e] # <<>> => e[2] < d[2]
        BY <1>1 DEF Foremost
    <2> QED
        BY DEF Foremost
<1>10. Answered'
    <2> SUFFICES ASSUME NEW d \in Calls, answer[d] # <<>>
                 PROVE  /\ Proper(d)'
                        /\ Called(d[1])'
                        /\ LET a == Head(answer[d])
                           IN  IF a.ok
                               THEN a.read = Asked(d)' /\ Complete(d)'
                               ELSE Trouble'
        BY <1>1 DEF Answered
    <2>1. Proper(d) /\ Called(d[1])
        BY DEF Answered
    <2>2. LET a == Head(answer[d])
          IN  IF a.ok THEN a.read = Asked(d) /\ Complete(d) ELSE Trouble
        BY DEF Answered
    <2> QED
        BY <1>5, <1>6, <1>7, <2>1, <2>2
<1>11. Smooth'
    BY <1>1, <1>5, <1>6 DEF Smooth
<1>12. Deaths'
    <2>1. Spent \subseteq Spent'
        BY <1>5 DEF Spent
    <2> QED
        BY <1>1, <1>5, <2>1, SpentStays
<1> QED
    BY <1>5, <1>8, <1>9, <1>10, <1>11, <1>12

LEMMA TakeStep ==
    ASSUME IInv, TypeOK', NEW m \in Slaves, NEW c \in Calls, Take(m, c)
    PROVE  IInv'
<1> USE DEF IInv
<1>1. \A n \in Slaves :
          /\ inbox'[n] = IF n = m THEN inbox[n] \ {c} ELSE inbox[n]
          /\ call'[n] = IF n = m THEN c ELSE call[n]
          /\ phase'[n] = phase[n]
    BY DEF Take, TypeOK
<1>2. /\ c \in inbox[m] /\ call[m] = None /\ phase[m] = "connect" /\ c # None
      /\ UNCHANGED <<queryVars, slaveVars, masterVars, answer>>
      /\ ~ IsLast(c) /\ \A v \in Own(c) : <<m, v>> \notin absent
    <2>1. c \in Held(m)
        BY DEF Take, Held
    <2> QED
        BY <2>1, HeldCall DEF Take
<1>3. \A n \in Slaves : Held(n)' = Held(n) /\ Front(n)' = Front(n)
    <2> TAKE n \in Slaves
    <2>1. Held(n)' = inbox'[n] \cup ({call'[n]} \ {None})
        BY DEF Held
    <2>2. Front(n)' = inbox'[n] \cup (IF phase'[n] = "wait" THEN {} ELSE {call'[n]} \ {None})
        BY DEF Front
    <2>3. CASE n = m
        <3>1. Held(n)' = (inbox[n] \ {c}) \cup {c} /\ Front(n)' = (inbox[n] \ {c}) \cup {c}
            BY <1>1, <1>2, <2>1, <2>2, <2>3
        <3>2. Held(n) = inbox[n] /\ Front(n) = inbox[n]
            BY <1>2, <2>3 DEF Held, Front
        <3> QED
            BY <1>2, <2>3, <3>1, <3>2
    <2>4. CASE n # m
        <3>1. inbox'[n] = inbox[n] /\ call'[n] = call[n] /\ phase'[n] = phase[n]
            BY <1>1, <2>4
        <3> QED
            BY <2>1, <2>2, <3>1, Zenon DEF Held, Front
    <2> QED
        BY <2>3, <2>4
<1>4. ASSUME NEW n \in Slaves
      PROVE  /\ phase'[n] # "connect" => call'[n] # None
             /\ call'[n] # None =>
                   /\ ~ IsLast(call'[n])
                   /\ \A v \in Own(call'[n]) : <<n, v>> \notin absent
             /\ call'[n] \notin inbox'[n]
    <2>1. CASE n = m
        <3>1. call'[n] = c /\ c \notin inbox'[n]
            BY <1>1, <2>1
        <3> QED
            BY <1>2, <2>1, <3>1
    <2>2. CASE n # m
        <3>1. inbox'[n] = inbox[n] /\ call'[n] = call[n] /\ phase'[n] = phase[n]
            BY <1>1, <2>2
        <3>2. call[n] \notin inbox[n]
            <4> SUFFICES ASSUME call[n] \in inbox[n] PROVE FALSE
                OBVIOUS
            <4>1. call[n] \in Front(n)
                BY DEF Front
            <4> QED
                BY <4>1 DEF Foremost
        <3> QED
            BY <3>1, <3>2 DEF Addressed
    <2> QED
        BY <2>1, <2>2
<1> QED
    BY <1>2, <1>3, <1>4, KeepsStep

LEMMA ReadyStep ==
    ASSUME IInv, TypeOK', NEW m \in Slaves, Ready(m)
    PROVE  IInv'
<1> USE DEF IInv
<1>1. /\ inbox' = inbox /\ call' = call
      /\ \A n \in Slaves : phase'[n] = IF n = m THEN "call" ELSE phase[n]
      /\ call[m] # None /\ phase[m] = "connect"
      /\ UNCHANGED <<queryVars, slaveVars, masterVars, answer>>
    BY DEF Ready, TypeOK
<1>2. \A n \in Slaves : Held(n)' = Held(n) /\ Front(n)' = Front(n)
    <2> TAKE n \in Slaves
    <2>1. Held(n)' = inbox[n] \cup ({call[n]} \ {None})
        BY <1>1 DEF Held
    <2>2. Front(n)' = inbox[n] \cup (IF phase'[n] = "wait" THEN {} ELSE {call[n]} \ {None})
        BY <1>1 DEF Front
    <2>3. phase'[n] = "wait" <=> phase[n] = "wait"
        BY <1>1
    <2> QED
        BY <2>1, <2>2, <2>3 DEF Held, Front
<1>3. ASSUME NEW n \in Slaves
      PROVE  /\ phase'[n] # "connect" => call'[n] # None
             /\ call'[n] # None =>
                   /\ ~ IsLast(call'[n])
                   /\ \A v \in Own(call'[n]) : <<n, v>> \notin absent
             /\ call'[n] \notin inbox'[n]
    <2>1. call[n] \notin inbox[n]
        <3> SUFFICES ASSUME call[n] \in inbox[n] PROVE FALSE
            OBVIOUS
        <3>1. call[n] \in Front(n)
            BY DEF Front
        <3> QED
            BY <3>1 DEF Foremost
    <2> QED
        BY <1>1, <2>1 DEF Addressed
<1> QED
    BY <1>1, <1>2, <1>3, KeepsStep

\* The call goes down the chain: nobody further down has one, and nobody
\* further down has answered.
LEMMA PassStep ==
    ASSUME IInv, TypeOK', NEW m \in Slaves, Pass(m)
    PROVE  IInv'
<1> USE DEF IInv
<1>c. /\ call[m] \in Calls /\ call[m] \in Held(m) /\ call[m] # None /\ phase[m] = "call"
      /\ call[m] \in Front(m) /\ call[m] \notin inbox[m]
    <2>1. call[m] # None /\ phase[m] = "call"
        BY DEF Pass
    <2>2. call[m] \in Held(m) /\ call[m] \in Front(m) /\ call[m] \in Calls
        BY <2>1 DEF Held, Front, TypeOK
    <2> QED
        BY <2>1, <2>2 DEF Foremost
<1>p. PICK c \in Calls : c = call[m]
    BY <1>c
<1>1. /\ c \in Held(m) /\ c \in Front(m) /\ c # None /\ c \notin inbox[m]
      /\ Proper(c) /\ MachineOf(c) = m /\ Called(c[1])
      /\ c[1] \in Nat /\ c[2] \in Nat /\ ~ IsLast(c) /\ pc # "plan"
    <2>1. c \in Held(m) /\ c \in Front(m) /\ c # None /\ c \notin inbox[m]
        BY <1>c, <1>p
    <2>2. /\ Proper(c) /\ MachineOf(c) = m /\ Called(c[1])
          /\ c[1] \in Nat /\ c[2] \in Nat /\ pc # "plan"
        BY <2>1, HeldCall
    <2>3. ~ IsLast(c)
        BY <1>p, <2>1 DEF Addressed
    <2> QED
        BY <2>1, <2>2, <2>3
<1>2. /\ NextCall(c) \in Calls /\ Proper(NextCall(c)) /\ NextCall(c)[1] = c[1]
      /\ c[2] < NextCall(c)[2] /\ MachineOf(c) < MachineOf(NextCall(c))
      /\ MachineOf(NextCall(c)) \in alive /\ MachineOf(NextCall(c)) \in Slaves
    BY <1>1, <1>p, NextProper DEF Pass, TypeOK
<1>q. PICK d \in Calls, h \in Slaves : d = NextCall(c) /\ h = MachineOf(d)
    BY <1>2
<1>3. /\ Proper(d) /\ d[1] = c[1] /\ c[2] < d[2] /\ d[2] \in Nat /\ d # None
      /\ MachineOf(d) = h /\ h \in alive /\ h # m /\ d # c
    <2>1. d[2] \in Nat /\ d # None
        BY <1>1, <1>2, <1>q, ProperCall
    <2>2. m \in Nat
        BY Constants
    <2> QED
        BY <1>1, <1>2, <1>q, <2>1, <2>2
<1>4. /\ UNCHANGED <<queryVars, slaveVars, masterVars>> /\ UNCHANGED <<queryVars, alive>>
      /\ alive' = alive /\ crashes' = crashes /\ answer' = answer /\ call' = call
      /\ \A n \in Slaves :
            /\ inbox'[n] = IF n = h THEN inbox[n] \cup {d} ELSE inbox[n]
            /\ phase'[n] = IF n = m THEN "wait" ELSE phase[n]
    BY <1>p, <1>q DEF Pass, slaveVars, TypeOK
<1>5. /\ Planned' /\ Stored'
      /\ \A r : Called(r)' = Called(r)
      /\ pc' = pc /\ cur' = cur /\ query' = query /\ absent' = absent
      /\ UNCHANGED <<queryVars, chain>>
    BY <1>4, MasterStands
<1>6. Trouble' = Trouble
    BY <1>4, TroubleEnds
<1>7. \A e \in Calls : /\ Proper(e)' = Proper(e)
                       /\ MachineOf(e)' = MachineOf(e)
                       /\ IsLast(e)' = IsLast(e)
                       /\ Own(e)' = Own(e)
                       /\ Asked(e)' = Asked(e)
                       /\ Complete(e)' = Complete(e)
    BY <1>5, SameCalls
\* c was the furthest of its range.
<1>8. /\ \A n \in Slaves : \A e \in Held(n) :
            e[1] = c[1] /\ e # c => e[2] < c[2] /\ e \notin Front(n)
      /\ \A e \in Calls : e[1] = c[1] /\ answer[e] # <<>> => e[2] < c[2]
    BY <1>1 DEF Foremost
<1>9. /\ answer[d] = <<>>
      /\ \A n \in Slaves : d \notin Held(n)
    <2>1. answer[d] = <<>>
        <3>1. answer[d] # <<>> => d[2] < c[2]
            BY <1>3, <1>8
        <3> QED
            BY <1>1, <1>3, <3>1
    <2>2. ASSUME NEW n \in Slaves, d \in Held(n) PROVE FALSE
        <3>1. d[2] < c[2]
            BY <1>3, <1>8, <2>2
        <3> QED
            BY <1>1, <1>3, <3>1
    <2> QED
        BY <2>1, <2>2
<1>10. \A n \in Slaves :
          /\ \A e \in inbox'[n] : e \in inbox[n] \/ (n = h /\ e = d)
          /\ \A e \in Held(n)' : e \in Held(n) \/ (n = h /\ e = d)
          /\ \A e \in Front(n)' : (e \in Front(n) /\ e # c) \/ (n = h /\ e = d)
    <2> TAKE n \in Slaves
    <2>1. Held(n)' = inbox'[n] \cup ({call[n]} \ {None})
        BY <1>4 DEF Held
    <2>2. Front(n)' = inbox'[n] \cup (IF phase'[n] = "wait" THEN {} ELSE {call[n]} \ {None})
        BY <1>4 DEF Front
    <2>3. \A e \in inbox'[n] : e \in inbox[n] \/ (n = h /\ e = d)
        BY <1>4
    <2>4. \A e \in Held(n)' : e \in Held(n) \/ (n = h /\ e = d)
        BY <2>1, <2>3 DEF Held
    <2>5. CASE n = m
        <3>1. Front(n)' = inbox[n]
            BY <1>3, <1>4, <2>2, <2>5
        <3> QED
            BY <1>1, <2>3, <2>4, <2>5, <3>1 DEF Front
    <2>6. CASE n # m
        <3>1. Front(n)' = inbox'[n] \cup (IF phase[n] = "wait" THEN {} ELSE {call[n]} \ {None})
            BY <1>4, <2>2, <2>6
        <3>2. c \notin Front(n)
            BY <1>1, <2>6, FrontHeld, HeldOnce
        <3>3. \A e \in Front(n)' : e \in Front(n) \/ (n = h /\ e = d)
            BY <2>3, <3>1 DEF Front
        <3> QED
            BY <2>3, <2>4, <3>2, <3>3
    <2> QED
        BY <2>5, <2>6
<1>11. Addressed'
    <2> SUFFICES ASSUME NEW n \in Slaves
                 PROVE  /\ \A e \in Held(n)' :
                              /\ n \in alive' /\ answer'[e] = <<>>
                              /\ Proper(e)' /\ MachineOf(e)' = n /\ Called(e[1])'
                        /\ phase'[n] # "connect" => call'[n] # None
                        /\ call'[n] # None =>
                              /\ ~ IsLast(call[n])'
                              /\ \A v \in Own(call[n])' : <<n, v>> \notin absent'
        BY DEF Addressed
    <2>1. ASSUME NEW e \in Held(n)
          PROVE  /\ n \in alive' /\ answer'[e] = <<>>
                 /\ Proper(e)' /\ MachineOf(e)' = n /\ Called(e[1])'
        <3>1. e \in Calls /\ Proper(e) /\ MachineOf(e) = n /\ Called(e[1])
              /\ n \in alive /\ answer[e] = <<>>
            BY HeldCall
        <3> QED
            BY <3>1, <1>4, <1>5, <1>7
    <2>2. /\ h \in alive' /\ answer'[d] = <<>>
          /\ Proper(d)' /\ MachineOf(d)' = h /\ Called(d[1])'
        BY <1>1, <1>3, <1>4, <1>5, <1>7, <1>9
    <2>3. phase'[n] # "connect" => call'[n] # None
        BY <1>1, <1>4, <1>p DEF Addressed
    <2>4. ASSUME call[n] # None
          PROVE  /\ ~ IsLast(call[n])'
                 /\ \A v \in Own(call[n])' : <<n, v>> \notin absent'
        <3>1. PICK e \in Calls : e = call[n]
            BY <2>4 DEF TypeOK
        <3>2. ~ IsLast(e) /\ \A v \in Own(e) : <<n, v>> \notin absent
            BY <2>4, <3>1 DEF Addressed
        <3>3. IsLast(call[n])' = IsLast(e)' /\ Own(call[n])' = Own(e)'
            BY <1>4, <3>1
        <3> QED
            BY <1>5, <1>7, <3>2, <3>3
    <2> QED
        BY <1>4, <1>10, <2>1, <2>2, <2>3, <2>4
<1>12. Foremost'
    <2> SUFFICES ASSUME NEW n \in Slaves, NEW e \in Front(n)'
                 PROVE  /\ call[n] = e => e \notin inbox'[n]
                        /\ \A o \in Slaves : \A f \in Held(o)' :
                              f[1] = e[1] /\ f # e => f[2] < e[2] /\ f \notin Front(o)'
                        /\ \A f \in Calls :
                              f[1] = e[1] /\ answer[f] # <<>> => f[2] < e[2]
        BY <1>4 DEF Foremost
    <2>1. CASE e = d
        <3>1. call[n] # d
            <4>1. d \notin Held(n)
                BY <1>9
            <4> QED
                BY <1>3, <4>1 DEF Held
        <3>2. ASSUME NEW o \in Slaves, NEW f \in Held(o)', f[1] = d[1], f # d
              PROVE  f[2] < d[2] /\ f \notin Front(o)'
            <4>1. f \in Held(o)
                BY <1>10, <3>2
            <4>2. f[2] \in Nat
                BY <4>1, HeldCall
            <4>3. CASE f = c
                BY <1>3, <1>10, <4>3
            <4>4. CASE f # c
                <5>1. f[2] < c[2] /\ f \notin Front(o)
                    BY <1>3, <1>8, <3>2, <4>1, <4>4
                <5> QED
                    BY <1>1, <1>3, <1>10, <3>2, <4>2, <5>1
            <4> QED
                BY <4>3, <4>4
        <3>3. ASSUME NEW f \in Calls, f[1] = d[1], answer[f] # <<>>
              PROVE  f[2] < d[2]
            <4>1. f[2] < c[2] /\ f[2] \in Nat
                BY <1>3, <1>8, <3>3, ProperCall, <1>1 DEF Answered
            <4> QED
                BY <1>1, <1>3, <4>1
        <3> QED
            BY <2>1, <3>1, <3>2, <3>3
    <2>2. CASE e # d
        <3>1. e \in Front(n) /\ e # c /\ e \in Held(n)
            BY <1>10, <2>2, FrontHeld
        <3>2. e[1] # c[1]
            BY <1>8, <3>1
        <3>3. call[n] = e => e \notin inbox'[n]
            BY <1>10, <2>2, <3>1 DEF Foremost
        <3>4. ASSUME NEW o \in Slaves, NEW f \in Held(o)', f[1] = e[1], f # e
              PROVE  f[2] < e[2] /\ f \notin Front(o)'
            <4>1. f # d /\ f \in Held(o)
                BY <1>3, <1>10, <3>2, <3>4
            <4> QED
                BY <1>10, <3>1, <3>4, <4>1 DEF Foremost
        <3> QED
            BY <3>1, <3>3, <3>4 DEF Foremost
    <2> QED
        BY <2>1, <2>2
<1>13. Answered'
    <2> SUFFICES ASSUME NEW e \in Calls, answer[e] # <<>>
                 PROVE  /\ Proper(e)'
                        /\ Called(e[1])'
                        /\ LET a == Head(answer[e])
                           IN  IF a.ok
                               THEN a.read = Asked(e)' /\ Complete(e)'
                               ELSE Trouble'
        BY <1>4 DEF Answered
    <2>1. Proper(e) /\ Called(e[1])
        BY DEF Answered
    <2>2. LET a == Head(answer[e])
          IN  IF a.ok THEN a.read = Asked(e) /\ Complete(e) ELSE Trouble
        BY DEF Answered
    <2> QED
        BY <1>5, <1>6, <1>7, <2>1, <2>2
<1>14. Smooth'
    <2> SUFFICES ASSUME ~ Trouble, NEW n \in Slaves, NEW e \in Held(n)'
                 PROVE  /\ e[1] = cur /\ pc = "wait"
                        /\ \A f \in Calls : f[1] = e[1] /\ answer[f] # <<>> => e[2] < f[2]
        BY <1>4, <1>5, <1>6 DEF Smooth
    <2>1. CASE e \in Held(n)
        BY <2>1 DEF Smooth
    <2>2. CASE e = d
        <3>1. c[1] = cur /\ pc = "wait"
            BY <1>1 DEF Smooth
        <3>2. ASSUME NEW f \in Calls, f[1] = c[1], answer[f] # <<>> PROVE FALSE
            <4>1. f[2] < c[2] /\ c[2] < f[2]
                BY <1>1, <1>8, <3>2 DEF Smooth
            <4>2. f[2] \in Nat
                BY <1>1, <3>2, ProperCall DEF Answered
            <4> QED
                BY <1>1, <4>1, <4>2
        <3> QED
            BY <1>3, <2>2, <3>1, <3>2
    <2> QED
        BY <1>10, <2>1, <2>2
<1>15. Deaths'
    <2>1. Spent \subseteq Spent'
        <3> SUFFICES ASSUME NEW r \in Spent PROVE r \in Spent'
            OBVIOUS
        <3>1. r \in DOMAIN query /\ Called(r) /\ \A n \in Slaves : \A e \in Front(n) : e[1] # r
            BY DEF Spent
        <3>2. r # c[1]
            BY <1>1, <3>1
        <3>3. \A n \in Slaves : \A e \in Front(n)' : e[1] # r
            BY <1>3, <1>10, <3>1, <3>2
        <3> QED
            BY <1>5, <3>1, <3>3 DEF Spent
    <2> QED
        BY <1>4, <1>5, <2>1, SpentStays
<1> QED
    BY <1>5, <1>11, <1>12, <1>13, <1>14, <1>15

\* A slave ends, and its calls with it.
LEMMA GoneStep ==
    ASSUME IInv, TypeOK', NEW m \in Slaves, m \in alive, Gone(m),
           UNCHANGED <<queryVars, masterVars, answer>>
    PROVE  /\ Planned' /\ Addressed' /\ Foremost' /\ Answered' /\ Smooth' /\ Stored'
           /\ \A n \in Slaves : \A d \in Front(n)' : d \in Front(n) /\ n # m
           /\ \A r : Called(r)' = Called(r)
           /\ query' = query
           /\ Cardinality(Slaves \ alive') = Cardinality(Slaves \ alive) + 1
           /\ Cardinality(Slaves \ alive) \in Nat
<1> USE DEF IInv
<1>1. /\ UNCHANGED <<queryVars, masterVars>>
      /\ alive' = alive \ {m} /\ answer' = answer
      /\ \A n \in Slaves :
            /\ inbox'[n] = IF n = m THEN {} ELSE inbox[n]
            /\ call'[n] = IF n = m THEN None ELSE call[n]
            /\ phase'[n] = IF n = m THEN "connect" ELSE phase[n]
    BY DEF Gone, Free, TypeOK
<1>2. /\ Planned' /\ Stored'
      /\ \A r : Called(r)' = Called(r)
      /\ Trouble => Trouble'
      /\ pc' = pc /\ cur' = cur /\ query' = query /\ absent' = absent
      /\ UNCHANGED <<queryVars, chain>>
    BY <1>1, MasterStands
<1>3. \A d \in Calls : /\ Proper(d)' = Proper(d)
                       /\ MachineOf(d)' = MachineOf(d)
                       /\ IsLast(d)' = IsLast(d)
                       /\ Own(d)' = Own(d)
                       /\ Asked(d)' = Asked(d)
                       /\ Complete(d)' = Complete(d)
    BY <1>2, SameCalls
<1>4. \A n \in Slaves :
          /\ \A d \in Held(n)' : d \in Held(n) /\ n # m
          /\ \A d \in Front(n)' : d \in Front(n) /\ n # m
    <2> TAKE n \in Slaves
    <2>1. Held(n)' = inbox'[n] \cup ({call'[n]} \ {None})
        BY DEF Held
    <2>2. Front(n)' = inbox'[n] \cup (IF phase'[n] = "wait" THEN {} ELSE {call'[n]} \ {None})
        BY DEF Front
    <2>3. CASE n = m
        <3>1. Held(n)' = {} /\ Front(n)' = {}
            BY <1>1, <2>1, <2>2, <2>3
        <3> QED
            BY <3>1
    <2>4. CASE n # m
        <3>1. inbox'[n] = inbox[n] /\ call'[n] = call[n] /\ phase'[n] = phase[n]
            BY <1>1, <2>4
        <3>2. Held(n)' = Held(n) /\ Front(n)' = Front(n)
            BY <2>1, <2>2, <3>1, Zenon DEF Held, Front
        <3> QED
            BY <2>4, <3>2
    <2> QED
        BY <2>3, <2>4
<1>5. Addressed'
    <2> SUFFICES ASSUME NEW n \in Slaves
                 PROVE  /\ \A d \in Held(n)' :
                              /\ n \in alive' /\ answer'[d] = <<>>
                              /\ Proper(d)' /\ MachineOf(d)' = n /\ Called(d[1])'
                        /\ phase'[n] # "connect" => call'[n] # None
                        /\ call'[n] # None =>
                              /\ ~ IsLast(call[n])'
                              /\ \A v \in Own(call[n])' : <<n, v>> \notin absent'
        BY DEF Addressed
    <2>1. ASSUME NEW d \in Held(n)'
          PROVE  /\ n \in alive' /\ answer'[d] = <<>>
                 /\ Proper(d)' /\ MachineOf(d)' = n /\ Called(d[1])'
        <3>1. d \in Held(n) /\ n # m
            BY <1>4, <2>1
        <3>2. d \in Calls /\ Proper(d) /\ MachineOf(d) = n /\ Called(d[1])
              /\ n \in alive /\ answer[d] = <<>>
            BY <3>1, HeldCall
        <3> QED
            BY <1>1, <1>2, <1>3, <3>1, <3>2
    <2>2. phase'[n] # "connect" => call'[n] # None
        BY <1>1 DEF Addressed
    <2>3. ASSUME call'[n] # None
          PROVE  /\ ~ IsLast(call[n])'
                 /\ \A v \in Own(call[n])' : <<n, v>> \notin absent'
        <3>1. call'[n] = call[n] /\ call[n] \in Calls /\ call[n] # None
            BY <1>1, <2>3 DEF TypeOK
        <3>2. PICK d \in Calls : d = call[n]
            BY <3>1
        <3>3. ~ IsLast(d) /\ \A v \in Own(d) : <<n, v>> \notin absent
            BY <3>1, <3>2 DEF Addressed
        <3>4. IsLast(call[n])' = IsLast(d)' /\ Own(call[n])' = Own(d)'
            BY <3>1, <3>2
        <3> QED
            BY <1>2, <1>3, <3>3, <3>4
    <2> QED
        BY <2>1, <2>2, <2>3
<1>6. Foremost'
    <2> SUFFICES ASSUME NEW n \in Slaves, NEW d \in Front(n)'
                 PROVE  /\ call'[n] = d => d \notin inbox'[n]
                        /\ \A o \in Slaves : \A e \in Held(o)' :
                              e[1] = d[1] /\ e # d => e[2] < d[2] /\ e \notin Front(o)'
                        /\ \A e \in Calls :
                              e[1] = d[1] /\ answer[e] # <<>> => e[2] < d[2]
        BY <1>1 DEF Foremost
    <2>1. d \in Front(n) /\ n # m
        BY <1>4
    <2>2. call'[n] = d => d \notin inbox'[n]
        BY <1>1, <2>1 DEF Foremost
    <2>3. ASSUME NEW o \in Slaves, NEW e \in Held(o)', e[1] = d[1], e # d
          PROVE  e[2] < d[2] /\ e \notin Front(o)'
        <3>1. e \in Held(o)
            BY <1>4
        <3> QED
            BY <1>4, <2>1, <2>3, <3>1 DEF Foremost
    <2> QED
        BY <2>1, <2>2, <2>3 DEF Foremost
<1>7. Answered'
    <2> SUFFICES ASSUME NEW d \in Calls, answer[d] # <<>>
                 PROVE  /\ Proper(d)'
                        /\ Called(d[1])'
                        /\ LET a == Head(answer[d])
                           IN  IF a.ok
                               THEN a.read = Asked(d)' /\ Complete(d)'
                               ELSE Trouble'
        BY <1>1 DEF Answered
    <2>1. Proper(d) /\ Called(d[1])
        BY DEF Answered
    <2>2. LET a == Head(answer[d])
          IN  IF a.ok THEN a.read = Asked(d) /\ Complete(d) ELSE Trouble
        BY DEF Answered
    <2> QED
        BY <1>2, <1>3, <2>1, <2>2
<1>8. Smooth'
    <2> SUFFICES ASSUME ~ Trouble, NEW n \in Slaves, NEW d \in Held(n)'
                 PROVE  /\ d[1] = cur /\ pc = "wait"
                        /\ \A e \in Calls : e[1] = d[1] /\ answer[e] # <<>> => d[2] < e[2]
        BY <1>1, <1>2 DEF Smooth
    <2>1. d \in Held(n)
        BY <1>4
    <2> QED
        BY <2>1 DEF Smooth
<1>9. /\ Cardinality(Slaves \ alive') = Cardinality(Slaves \ alive) + 1
      /\ Cardinality(Slaves \ alive) \in Nat
    <2>1. IsFiniteSet(Slaves \ alive)
        BY Constants, FS_Subset
    <2>2. Slaves \ alive' = (Slaves \ alive) \cup {m} /\ m \notin Slaves \ alive
        BY <1>1
    <2> QED
        BY <2>1, <2>2, FS_AddElement, FS_CardinalityType
<1> QED
    BY <1>2, <1>4, <1>5, <1>6, <1>7, <1>8, <1>9

LEMMA CrashStep ==
    ASSUME IInv, NEW m \in alive, Crash(m)
    PROVE  IInv'
<1> USE DEF IInv
<1>1. /\ m \in Slaves /\ Gone(m) /\ crashes' = crashes + 1 /\ crashes \in Nat
      /\ UNCHANGED <<queryVars, masterVars, answer>>
      /\ crashes' \in 0..MaxCrashes
    BY Constants DEF Crash, TypeOK
<1>2. TypeOK'
    BY <1>1, GoneTypes
<1>3. /\ Planned' /\ Addressed' /\ Foremost' /\ Answered' /\ Smooth' /\ Stored'
      /\ \A n \in Slaves : \A d \in Front(n)' : d \in Front(n) /\ n # m
      /\ \A r : Called(r)' = Called(r)
      /\ query' = query
      /\ Cardinality(Slaves \ alive') = Cardinality(Slaves \ alive) + 1
      /\ Cardinality(Slaves \ alive) \in Nat
    BY <1>1, <1>2, GoneStep
<1>4. Spent \subseteq Spent'
    BY <1>3 DEF Spent
<1>5. IsFiniteSet(Spent') /\ Cardinality(Spent) \in Nat /\ Cardinality(Spent') \in Nat
    <2>1. IsFiniteSet(Spent)' /\ (Cardinality(Spent) \in Nat)'
        BY <1>2, Gained, PTL
    <2> QED
        BY <1>2, <2>1, Gained
<1>6. Cardinality(Spent) <= Cardinality(Spent')
    BY <1>4, <1>5, FS_Subset
<1>7. Deaths'
    BY <1>1, <1>3, <1>5, <1>6 DEF Deaths
<1> QED
    BY <1>2, <1>3, <1>7

\* The call of a slave that dies of the next was the furthest of its range:
\* the range ends with it.
LEMMA FallStep ==
    ASSUME IInv, NEW m \in alive, Fall(m)
    PROVE  IInv'
<1> USE DEF IInv
<1>1. /\ m \in Slaves /\ Gone(m) /\ crashes' = crashes /\ crashes \in Nat
      /\ UNCHANGED <<queryVars, masterVars, answer>>
      /\ crashes' \in 0..MaxCrashes
    BY Constants DEF Fall, TypeOK
<1>2. TypeOK'
    BY <1>1, GoneTypes
<1>3. /\ Planned' /\ Addressed' /\ Foremost' /\ Answered' /\ Smooth' /\ Stored'
      /\ \A n \in Slaves : \A d \in Front(n)' : d \in Front(n) /\ n # m
      /\ \A r : Called(r)' = Called(r)
      /\ query' = query
      /\ Cardinality(Slaves \ alive') = Cardinality(Slaves \ alive) + 1
      /\ Cardinality(Slaves \ alive) \in Nat
    BY <1>1, <1>2, GoneStep
<1>4. PICK c \in Calls : c = call[m] /\ c \in Front(m)
    <2>1. call[m] # None /\ phase[m] = "connect"
        BY DEF Fall
    <2>2. call[m] \in Calls /\ call[m] \in Front(m)
        BY <1>1, <2>1 DEF Front, TypeOK
    <2> QED
        BY <2>2
<1>5. c \in Held(m) /\ c[1] \in DOMAIN query /\ Called(c[1])
    BY <1>1, <1>4, FrontHeld, HeldCall DEF Proper
<1>6. c[1] \notin Spent
    BY <1>1, <1>4 DEF Spent
<1>7. c[1] \in Spent'
    <2>1. ASSUME NEW n \in Slaves, NEW d \in Front(n)', d[1] = c[1] PROVE FALSE
        <3>1. d \in Front(n) /\ n # m /\ d \in Held(n)
            BY <1>3, FrontHeld
        <3>2. d # c
            BY <1>1, <1>5, <3>1, HeldOnce
        <3> QED
            BY <1>1, <1>4, <2>1, <3>1, <3>2 DEF Foremost
    <2> QED
        BY <1>3, <1>5, <2>1 DEF Spent
<1>8. Spent \cup {c[1]} \subseteq Spent'
    <2>1. Spent \subseteq Spent'
        BY <1>3 DEF Spent
    <2> QED
        BY <1>7, <2>1
<1>9. /\ IsFiniteSet(Spent') /\ Cardinality(Spent') \in Nat
      /\ IsFiniteSet(Spent) /\ Cardinality(Spent) \in Nat
    <2>1. IsFiniteSet(Spent)' /\ (Cardinality(Spent) \in Nat)'
        BY <1>2, Gained, PTL
    <2> QED
        BY <1>2, <2>1, Gained
<1>10. Cardinality(Spent) + 1 <= Cardinality(Spent')
    <2>1. Cardinality(Spent \cup {c[1]}) = Cardinality(Spent) + 1
        BY <1>6, <1>9, FS_AddElement
    <2>2. Cardinality(Spent \cup {c[1]}) <= Cardinality(Spent')
        BY <1>8, <1>9, FS_Subset
    <2> QED
        BY <2>1, <2>2
<1>11. Deaths'
    BY <1>1, <1>3, <1>9, <1>10 DEF Deaths
<1> QED
    BY <1>2, <1>3, <1>11

LEMMA Stutter ==
    ASSUME IInv, UNCHANGED vars
    PROVE  IInv'
<1> USE DEF IInv
<1>1. /\ UNCHANGED <<queryVars, slaveVars, masterVars, answer>>
      /\ inbox' = inbox /\ call' = call /\ phase' = phase
    BY DEF vars, pipeVars
<1>2. TypeOK'
    BY <1>1 DEF TypeOK, queryVars, slaveVars, masterVars
<1>3. \A n \in Slaves : Held(n)' = Held(n) /\ Front(n)' = Front(n)
    BY <1>1, Zenon DEF Held, Front
<1>4. ASSUME NEW n \in Slaves PROVE call[n] \notin inbox[n]
    <2> SUFFICES ASSUME call[n] \in inbox[n] PROVE FALSE
        OBVIOUS
    <2>1. call[n] \in Front(n)
        BY DEF Front
    <2> QED
        BY <2>1 DEF Foremost
<1>5. ASSUME NEW n \in Slaves
      PROVE  /\ phase'[n] # "connect" => call'[n] # None
             /\ call'[n] # None =>
                   /\ ~ IsLast(call'[n])
                   /\ \A v \in Own(call'[n]) : <<n, v>> \notin absent
             /\ call'[n] \notin inbox'[n]
    BY <1>1, <1>4 DEF Addressed
<1> QED
    BY <1>1, <1>2, <1>3, <1>5, KeepsStep

LEMMA MasterStep ==
    ASSUME IInv, Master
    PROVE  IInv'
<1>1. TypeOK'
    BY MasterTypes DEF IInv
<1> QED
    BY <1>1, PlanStep, ConnectCoordinatorStep, CallCoordinatorStep, CoordinatorAnswersStep,
       CoordinatorLostStep, ConcludeStep DEF Master

LEMMA SlavesStep ==
    ASSUME IInv, NEW m \in Slaves, Slave(m)
    PROVE  IInv'
<1>1. TypeOK' /\ m \in alive
    BY SlaveTypes DEF IInv, Slave
<1>2. \/ \E c \in Calls : Finish(m, c)
      \/ \E c \in Calls : Take(m, c)
      \/ Ready(m)
      \/ Pass(m)
      \/ Fall(m)
    BY SlaveStep DEF IInv
<1> QED
    BY <1>1, <1>2, FinishStep, TakeStep, ReadyStep, PassStep, FallStep

\* It is kept by every step of the master and of the slaves, those that die
\* included.
THEOREM Inductive == IInv /\ [Next]_vars => IInv'
BY MasterStep, SlavesStep, CrashStep, Stutter DEF Next

LEMMA AlwaysIInv == Spec => []IInv
BY InitOK, Inductive, PTL DEF Spec

-----------------------------------------------------------------------------
(* What the invariant gives *)

\* TypeOK, for any slaves, ring and query: the calls that pass between the
\* master and the slaves, and what each of them has of the query.
THEOREM TypeCorrect == Spec => []TypeOK
<1>1. IInv => TypeOK
    BY DEF IInv
<1> QED
    BY AlwaysIInv, <1>1, PTL

\* A slave waits for one with a higher id only, so in a group the one with the
\* highest waits for none of it.
THEOREM NeverWaitInACircle == Spec => []NoSlaveWaitsForItself
<1>1. ASSUME TypeOK, Planned, Addressed, NEW group \in SUBSET Slaves, group # {}
      PROVE  \E m \in group : \A n \in group : ~ Waits(m, n)
    <2>1. group \in SUBSET Int /\ IsFiniteSet(group) /\ group # {} /\ group \subseteq Slaves
        <3>1. IsFiniteSet(group)
            BY Constants, FS_Subset
        <3>2. group \in SUBSET Int
            BY Constants
        <3> QED
            BY <1>1, <3>1, <3>2
    <2>2. PICK m \in group : \A n \in group : n <= m
        BY <2>1, Extremes
    <2>3. ASSUME NEW n \in group, Waits(m, n) PROVE FALSE
        <3>1. m \in Slaves /\ n \in Slaves /\ m \in Nat /\ n \in Nat
            BY <2>1, Constants
        <3>2. phase[m] = "wait" /\ NextCall(call[m]) \in inbox[n] \cup {call[n]}
            BY <2>3 DEF Waits
        <3>3. call[m] # None /\ call[m] \in Held(m)
            BY <1>1, <3>1, <3>2 DEF Addressed, Held
        <3>4. PICK c \in Calls : c = call[m]
            BY <1>1, <3>1, <3>3, HeldCall
        <3>5. Proper(c) /\ MachineOf(c) = m /\ ~ IsLast(c) /\ pc # "plan"
            BY <1>1, <3>1, <3>3, <3>4, HeldCall DEF Addressed
        <3>6. /\ NextCall(c) \in Calls /\ Proper(NextCall(c))
              /\ MachineOf(c) < MachineOf(NextCall(c))
            BY <1>1, <3>5, NextProper
        <3>7. NextCall(c) # None
            BY <1>1, <3>5, <3>6, ProperCall
        <3>8. NextCall(c) \in Held(n)
            BY <3>2, <3>4, <3>7 DEF Held
        <3>9. MachineOf(NextCall(c)) = n
            BY <1>1, <3>1, <3>8, HeldCall
        <3> QED
            BY <2>2, <3>1, <3>5, <3>6, <3>9
    <2> QED
        BY <2>2, <2>3
<1>2. IInv => NoSlaveWaitsForItself
    BY <1>1 DEF NoSlaveWaitsForItself, IInv
<1> QED
    BY AlwaysIInv, <1>2, PTL

\* A range costs one slave at most, besides those that die of themselves.
THEOREM AlwaysOneDeathPerRange == Spec => []OneDeathPerRange
<1>1. ASSUME IInv PROVE OneDeathPerRange
    <2> USE <1>1 DEF IInv
    <2>1. /\ cur \in Nat /\ crashes \in Nat /\ IsFiniteSet(Spent) /\ Cardinality(Spent) \in Nat
          /\ Cardinality(Slaves \ alive) \in Nat
        BY SMTT(30), QueryOK, Gained, Constants, FS_Subset, FS_CardinalityType DEF TypeOK
    <2>2. CASE pc = "plan"
        <3>1. Spent = {}
            BY <2>2, QueryOK DEF Planned, Spent, Called
        <3>2. Cardinality(Spent) = 0
            BY <3>1, FS_EmptySet
        <3> QED
            BY <2>1, <2>2, <3>2 DEF Deaths, OneDeathPerRange
    <2>3. CASE pc # "plan"
        <3>1. Spent \subseteq 1..cur
            <4> SUFFICES ASSUME NEW r \in Spent PROVE r \in 1..cur
                OBVIOUS
            <4>1. r \in 1..Len(query) /\ Called(r) /\ Len(query) \in Nat
                BY QueryOK DEF Spent
            <4> QED
                BY <2>1, <4>1 DEF Called
        <3>2. Cardinality(Spent) <= cur
            <4>1. IsFiniteSet(1..cur) /\ Cardinality(1..cur) = cur
                BY <2>1, CountTo
            <4>2. \A S, T : IsFiniteSet(T) /\ S \subseteq T => Cardinality(S) <= Cardinality(T)
                BY FS_Subset
            <4> QED
                BY <3>1, <4>1, <4>2
        <3> QED
            BY <2>1, <2>3, <3>2 DEF Deaths, OneDeathPerRange
    <2> QED
        BY <2>2, <2>3
<1> QED
    BY AlwaysIInv, <1>1, PTL

-----------------------------------------------------------------------------
(* Query: what the state is to the caller *)

At     == [r \in DOMAIN query |-> AskedFor(r)]
Status == CASE pc = "done" -> IF outcome.ok THEN "success" ELSE "failure"
            [] pc = "segv" -> "down"
            [] OTHER       -> "asked"
Got    == IF pc = "done" /\ outcome.ok THEN outcome.reads[Len(query)] ELSE {}

SlavesOf(r) == {AskedFor(r)[v] : v \in query[r][1]..query[r][2]}

LEMMA AbstractVars == Q!vars = <<At, absent, alive, crashes, Status, Got>>
BY DEF Q!vars, At, Status, Got

LEMMA Statuses ==
    /\ pc = "done" => Status = IF outcome.ok THEN "success" ELSE "failure"
    /\ pc = "segv" => Status = "down"
    /\ pc \notin {"done", "segv"} => Status = "asked" /\ Got = {}
    /\ pc = "segv" => Got = {}
BY DEF Status, Got

LEMMA AtOf ==
    ASSUME TypeOK
    PROVE  /\ DOMAIN At = DOMAIN query /\ Len(At) = Len(query)
           /\ Len(query) \in DOMAIN query
           /\ \A r \in DOMAIN query :
                 /\ At[r] = AskedFor(r)
                 /\ DOMAIN At[r] = query[r][1]..query[r][2]
                 /\ Q!Range(At[r]) = SlavesOf(r)
<1>1. DOMAIN At = DOMAIN query /\ \A r \in DOMAIN query : At[r] = AskedFor(r)
    BY DEF At
<1>2. Len(At) = Len(query) /\ Len(query) \in DOMAIN query
    BY <1>1, QueryOK DEF At
<1>3. ASSUME NEW r \in DOMAIN query
      PROVE  DOMAIN At[r] = query[r][1]..query[r][2] /\ Q!Range(At[r]) = SlavesOf(r)
    BY <1>1, RangeOK DEF Q!Range, SlavesOf
<1> QED
    BY <1>1, <1>2, <1>3

LEMMA SameAt ==
    ASSUME UNCHANGED queryVars
    PROVE  At' = At
BY DEF queryVars, At, AskedFor

LEMMA SameQuery ==
    ASSUME UNCHANGED <<queryVars, slaveVars, outcome>>,
           pc' = pc \/ {pc, pc'} \cap {"done", "segv"} = {}
    PROVE  UNCHANGED Q!vars
<1>1. At' = At /\ absent' = absent /\ alive' = alive /\ crashes' = crashes
    BY SameAt DEF queryVars, slaveVars
<1>2. Status' = Status /\ Got' = Got
    BY DEF Status, Got, queryVars
<1>3. (Q!vars = <<At, absent, alive, crashes, Status, Got>>)'
    BY AbstractVars, PTL
<1> QED
    BY <1>1, <1>2, <1>3, AbstractVars

LEMMA AbstractTrouble ==
    ASSUME TypeOK, Trouble
    PROVE  Q!Trouble
<1>r. PICK r \in DOMAIN query : \E v \in query[r][1]..query[r][2] :
          \/ AskedFor(r)[v] \in Slow
          \/ AskedFor(r)[v] \notin alive
          \/ <<AskedFor(r)[v], v>> \in absent
    BY DEF Trouble
<1>1. PICK v \in query[r][1]..query[r][2] :
          \/ AskedFor(r)[v] \in Slow
          \/ AskedFor(r)[v] \notin alive
          \/ <<AskedFor(r)[v], v>> \in absent
    BY <1>r
<1>2. /\ r \in DOMAIN At /\ v \in DOMAIN At[r] /\ At[r][v] = AskedFor(r)[v]
      /\ AskedFor(r)[v] \in Q!Range(At[r])
    BY AtOf DEF SlavesOf
<1> DEFINE asked == UNION {Q!Range(At[s]) : s \in DOMAIN At}
<1>3. AskedFor(r)[v] \in asked
    BY <1>2
<1>4. \/ asked \cap Slow # {}
      \/ ~ (asked \subseteq alive)
      \/ \E s \in DOMAIN At : \E w \in DOMAIN At[s] : <<At[s][w], w>> \in absent
    BY <1>1, <1>2, <1>3
<1> QED
    BY <1>4 DEF Q!Trouble, Q!AskedSlaves, At

LEMMA LowestIs ==
    ASSUME NEW S \in SUBSET Nat, NEW m \in S, \A n \in S : m <= n
    PROVE  Q!Lowest(S) = m
<1>1. Q!Lowest(S) \in S /\ \A n \in S : Q!Lowest(S) <= n
    BY DEF Q!Lowest
<1>2. Q!Lowest(S) <= m /\ m <= Q!Lowest(S) /\ Q!Lowest(S) \in Nat /\ m \in Nat
    BY <1>1
<1> QED
    BY <1>2

\* The first machine of a chain is the lowest of its range.
LEMMA LowestOfRange ==
    ASSUME TypeOK, Planned, pc # "plan"
    PROVE  Q!Lowest(SlavesOf(cur)) = MachineOf(Coordinator)
<1>1. /\ Chains(cur, chain[cur]) /\ cur \in DOMAIN query
      /\ MachineOf(Coordinator) = chain[cur][1][1]
    BY QueryOK, ChainLaid DEF MachineOf, Coordinator
<1> DEFINE ch == chain[cur]
           n == Len(ch)
<1>2. /\ n \in Nat /\ n >= 1
      /\ \A i \in 1..n : ch[i][1] \in Nat
    <2>1. n \in Nat /\ n >= 1 /\ \A i \in 1..n : ch[i][1] \in Slaves
        BY <1>1, QueryOK DEF Chains
    <2> QED
        BY <2>1, Constants
<1>3. \A i \in 1..n : ch[1][1] <= ch[i][1]
    BY <1>1, <1>2 DEF Chains
<1>4. ASSUME NEW m \in SlavesOf(cur) PROVE m \in Nat /\ ch[1][1] <= m
    <2>1. PICK v \in query[cur][1]..query[cur][2] : m = AskedFor(cur)[v]
        BY DEF SlavesOf
    <2>2. PICK i \in 1..n : ch[i] = <<AskedFor(cur)[v], v>>
        BY <1>1 DEF Chains
    <2> QED
        BY <1>2, <1>3, <2>1, <2>2
<1>5. ch[1][1] \in SlavesOf(cur)
    BY <1>1, <1>2 DEF Chains, SlavesOf
<1>6. SlavesOf(cur) \in SUBSET Nat
    BY <1>4
<1> HIDE DEF ch
<1>7. Q!Lowest(SlavesOf(cur)) = ch[1][1]
    BY <1>4, <1>5, <1>6, LowestIs
<1> QED
    BY <1>1, <1>7 DEF ch

LEMMA SucceedIs ==
    ASSUME TypeOK, Status = "asked",
           \A v \in DOMAIN AskedFor(Len(query)) : <<AskedFor(Len(query))[v], v>> \notin absent,
           Status' = "success", Got' = DOMAIN AskedFor(Len(query)),
           UNCHANGED <<At, absent, alive, crashes>>
    PROVE  Q!Succeed
<1>1. Len(At) = Len(query) /\ At[Len(At)] = AskedFor(Len(query))
    BY AtOf
<1>2. /\ Status = "asked"
      /\ \A v \in DOMAIN At[Len(At)] : <<At[Len(At)][v], v>> \notin absent
      /\ Status' = "success"
      /\ Got' = DOMAIN At[Len(At)]
      /\ UNCHANGED <<At, absent, alive, crashes>>
    BY <1>1
<1> QED
    BY <1>2, Zenon DEF Q!Succeed, At, Status, Got

LEMMA FailIs ==
    ASSUME TypeOK, Trouble, Status = "asked", Status' = "failure",
           UNCHANGED <<At, absent, alive, crashes, Got>>
    PROVE  Q!Fail
<1>1. Q!Trouble
    BY AbstractTrouble
<1> QED
    BY <1>1, Zenon DEF Q!Fail, At, Status, Got

\* The answer to the last range is complete; or something was wrong.
LEMMA ConcludeIs ==
    ASSUME IInv, Conclude
    PROVE  Q!Next
<1> USE DEF IInv
<1>1. /\ pc = "conclude" /\ pc' = "done" /\ cur = Len(query) /\ cur \in DOMAIN query
      /\ Len(results) = cur /\ results \in Seq({"clnt_res", "own"}) /\ cur \in Nat /\ cur >= 1
      /\ UNCHANGED queryVars /\ query' = query /\ absent' = absent
      /\ alive' = alive /\ crashes' = crashes
    BY QueryOK DEF Conclude, Stored, TypeOK, queryVars, slaveVars
<1>2. /\ outcome'.ok = (\A r \in DOMAIN results : Deref(results[r]).ok)
      /\ outcome'.reads = [r \in DOMAIN results |-> Deref(results[r]).read]
    BY DEF Conclude
<1>3. DOMAIN results = 1..cur /\ \A r \in 1..cur : results[r] \in {"clnt_res", "own"}
    BY <1>1
<1>4. At' = At
    BY <1>1, SameAt
<1>5. Status = "asked" /\ Got = {}
    BY <1>1, Statuses
<1>6. Status' = (IF outcome'.ok THEN "success" ELSE "failure")
    BY <1>1 DEF Status
<1>7. Got' = IF outcome'.ok THEN outcome'.reads[cur] ELSE {}
    BY <1>1 DEF Got
<1>8. CASE \A r \in DOMAIN results : Deref(results[r]).ok
    <2>1. outcome'.ok
        BY <1>2, <1>8
    <2>2. Deref(results[cur]).ok /\ results[cur] = "clnt_res" /\ clnt_res.ok
        <3>1. Deref(results[cur]).ok /\ results[cur] \in {"clnt_res", "own"}
            BY <1>1, <1>3, <1>8
        <3>2. ~ Failure.ok
            BY DEF Failure
        <3> QED
            BY <3>1, <3>2 DEF Deref
    <2>3. outcome'.reads[cur] = clnt_res.read
        BY <1>1, <1>2, <1>3, <2>2 DEF Deref
    <2>4. PICK k \in Calls : k = <<cur, 1>> /\ Proper(k)
        BY <1>1, Coordinators DEF Coordinator
    <2>5. answer[k] = <<clnt_res>>
        BY <1>1, <2>2, <2>4 DEF Stored
    <2>6. answer[k] # <<>> /\ Head(answer[k]) = clnt_res
        BY <2>5
    <2>7. clnt_res.read = Asked(k) /\ Complete(k)
        BY <2>2, <2>6 DEF Answered
    <2> DEFINE ch == chain[cur]
               n == Len(ch)
    <2>8. Chains(cur, ch) /\ n \in Nat
        BY <1>1, <2>4, ProperCall
    <2>9. Asked(k) = {ch[j][2] : j \in 1..n}
        BY <2>4 DEF Asked
    <2>10. \A j \in 1..n : ch[j] \notin absent
        BY <2>4, <2>7 DEF Complete
    <2>11. DOMAIN AskedFor(cur) = query[cur][1]..query[cur][2]
        BY <1>1, RangeOK
    <2>12. Asked(k) = query[cur][1]..query[cur][2]
        <3>1. \A x \in Asked(k) : x \in query[cur][1]..query[cur][2]
            BY <2>8, <2>9 DEF Chains
        <3>2. ASSUME NEW x \in query[cur][1]..query[cur][2] PROVE x \in Asked(k)
            <4>1. PICK i \in 1..n : ch[i] = <<AskedFor(cur)[x], x>>
                BY <2>8 DEF Chains
            <4> QED
                BY <2>9, <4>1
        <3> QED
            BY <3>1, <3>2
    <2>13. ASSUME NEW v \in DOMAIN AskedFor(cur) PROVE <<AskedFor(cur)[v], v>> \notin absent
        <3>1. PICK i \in 1..n : ch[i] = <<AskedFor(cur)[v], v>>
            BY <2>8, <2>11 DEF Chains
        <3> QED
            BY <2>10, <3>1
    <2>14. Status' = "success" /\ Got' = DOMAIN AskedFor(cur)
        BY <1>6, <1>7, <2>1, <2>3, <2>7, <2>11, <2>12
    <2>15. Q!Succeed
        BY <1>1, <1>4, <1>5, <2>13, <2>14, SucceedIs
    <2> QED
        BY <2>15 DEF Q!Next, Q!End
<1>9. CASE ~ (\A r \in DOMAIN results : Deref(results[r]).ok)
    <2>1. PICK r \in DOMAIN results : ~ Deref(results[r]).ok
        BY <1>9
    <2>2. Trouble
        <3>1. CASE results[r] = "own"
            BY <2>1, <3>1 DEF Stored
        <3>2. CASE results[r] # "own"
            BY <2>1, <3>2 DEF Stored, Deref
        <3> QED
            BY <3>1, <3>2
    <2>3. Status' = "failure" /\ Got' = Got
        BY <1>2, <1>5, <1>6, <1>7, <1>9
    <2>4. Q!Fail
        BY <1>1, <1>4, <1>5, <2>2, <2>3, FailIs
    <2> QED
        BY <2>4 DEF Q!Next, Q!End
<1> QED
    BY <1>8, <1>9

\* The master is down: the coordinator it did not get a client for is dead.
LEMMA DownIs ==
    ASSUME IInv, ConnectCoordinator, MachineOf(Coordinator) \notin alive
    PROVE  Q!Next
<1> USE DEF IInv
<1>1. /\ pc = "connect" /\ pc' = "segv" /\ UNCHANGED queryVars
      /\ absent' = absent /\ alive' = alive /\ crashes' = crashes
    BY DEF ConnectCoordinator, queryVars, slaveVars
<1>2. At' = At /\ Status = "asked" /\ Status' = "down" /\ Got' = Got
    BY <1>1, SameAt, Statuses DEF Status, Got
<1>3. Q!Lowest(Q!Range(At[cur])) = MachineOf(Coordinator) /\ cur \in DOMAIN At
    BY <1>1, LowestOfRange, AtOf, QueryOK
<1>4. ~ ({Q!Lowest(Q!Range(At[r])) : r \in DOMAIN At} \subseteq alive)
    BY <1>3
<1>5. Q!GoDown
    BY <1>1, <1>2, <1>4 DEF Q!GoDown, Q!Coordinators, At, Status, Got
<1> QED
    BY <1>5 DEF Q!Next, Q!End

LEMMA CrashIs ==
    ASSUME IInv, NEW m \in alive, Crash(m)
    PROVE  Q!Next
<1>1. /\ m \in Slaves /\ alive' = alive \ {m} /\ crashes' = crashes + 1 /\ absent' = absent
      /\ UNCHANGED <<queryVars, masterVars>>
    BY DEF Crash, Gone, IInv, TypeOK, queryVars
<1>2. At' = At /\ Status' = Status /\ Got' = Got
    BY <1>1, SameAt DEF Status, Got, masterVars, queryVars
<1>3. Q!Crash(m)
    BY <1>1, <1>2 DEF Q!Crash, At, Status, Got
<1> QED
    BY <1>1, <1>3 DEF Q!Next

\* The same Cardinality, as the instance of Query has it.
LEMMA SameSize == \A S : Q!Cardinality(S) = Cardinality(S)
BY Zenon DEF Q!Cardinality, Cardinality

\* The slave that is not there is the next of the range, and m has one vector
\* of it.
LEMMA FallIs ==
    ASSUME IInv, NEW m \in alive, Fall(m)
    PROVE  Q!Next
<1> USE DEF IInv
<1>1. /\ m \in Slaves /\ m \in Nat /\ alive' = alive \ {m} /\ crashes' = crashes /\ absent' = absent
      /\ UNCHANGED <<queryVars, masterVars>>
    BY Constants DEF Fall, Gone, TypeOK, queryVars
<1>2. At' = At /\ Status' = Status /\ Got' = Got
    BY <1>1, SameAt DEF Status, Got, masterVars, queryVars
<1>3. PICK c \in Calls : c = call[m] /\ c # None
    BY <1>1 DEF Fall, TypeOK
<1>4. /\ c \in Held(m) /\ ~ IsLast(c)
    BY <1>1, <1>3 DEF Held, Addressed
<1>5. Proper(c) /\ MachineOf(c) = m /\ pc # "plan"
    BY <1>1, <1>4, HeldCall
<1> DEFINE r == c[1]
           ch == chain[r]
           n == Len(ch)
           d == NextCall(c)
           higher == {x \in SlavesOf(r) : m < x}
<1>6. /\ d \in Calls /\ Proper(d) /\ d[1] = r /\ m < MachineOf(d)
      /\ c[2] < d[2]
      /\ \A j \in c[2]..(d[2] - 1) : ch[j][1] = m
    BY <1>4, <1>5, NextProper
<1>7. /\ r \in DOMAIN query /\ Chains(r, ch) /\ n \in Nat
      /\ c[2] \in 1..n /\ d[2] \in 1..n
      /\ MachineOf(d) = ch[d[2]][1]
      /\ \A j \in 1..n : ch[j][1] \in Slaves
    BY <1>5, <1>6, ProperCall DEF MachineOf
<1>8. \A j \in 1..(c[2] - 1) : ch[j][1] < m
    BY <1>5 DEF Proper
<1>9. MachineOf(d) \notin alive /\ Cardinality(Own(c)) = 1
    BY <1>3 DEF Fall
<1> HIDE DEF d
<1>10. MachineOf(d) \in SlavesOf(r) /\ MachineOf(d) \in Nat
    <2>1. MachineOf(d) \in SlavesOf(r)
        <3>1. /\ ch[d[2]][2] \in query[r][1]..query[r][2]
              /\ ch[d[2]][1] = AskedFor(r)[ch[d[2]][2]]
            BY <1>7 DEF Chains
        <3> QED
            BY <1>7, <3>1 DEF SlavesOf
    <2> QED
        BY <1>7, <2>1, Constants
<1>11. ASSUME NEW x \in SlavesOf(r) PROVE x \in Nat /\ (m < x => MachineOf(d) <= x)
    <2>1. PICK v \in query[r][1]..query[r][2] : x = AskedFor(r)[v]
        BY DEF SlavesOf
    <2>2. PICK i \in 1..n : ch[i] = <<AskedFor(r)[v], v>>
        BY <1>7 DEF Chains
    <2>3. x = ch[i][1] /\ x \in Nat
        <3>1. x = ch[i][1] /\ ch[i][1] \in Slaves
            BY <1>7, <2>1, <2>2
        <3> QED
            BY <3>1, Constants
    <2>4. CASE i < c[2]
        <3>1. x < m
            BY <1>7, <1>8, <2>3, <2>4
        <3> QED
            BY <1>1, <2>3, <3>1
    <2>5. CASE i >= c[2] /\ i < d[2]
        <3>1. x = m
            BY <1>6, <1>7, <2>3, <2>5
        <3> QED
            BY <1>1, <2>3, <3>1
    <2>6. CASE i >= d[2]
        <3>1. ch[d[2]][1] <= ch[i][1] \/ i = d[2]
            BY SMTT(30), <1>7, <2>6 DEF Chains
        <3> QED
            BY <1>7, <1>10, <2>3, <3>1
    <2> QED
        BY <1>7, <2>4, <2>5, <2>6
<1>12. Q!Lowest(higher) = MachineOf(d) /\ higher # {}
    <2>1. MachineOf(d) \in higher
        BY <1>6, <1>10
    <2>2. higher \in SUBSET Nat /\ \A x \in higher : MachineOf(d) <= x
        BY <1>11
    <2> HIDE DEF higher
    <2> QED
        BY <2>1, <2>2, LowestIs
<1>13. Own(c) = {v \in query[r][1]..query[r][2] : AskedFor(r)[v] = m}
    BY <1>5, OwnVectors
<1>14. /\ r \in DOMAIN At
       /\ Q!Range(At[r]) = SlavesOf(r)
       /\ {v \in DOMAIN At[r] : At[r][v] = m} = Own(c)
    BY <1>7, <1>13, AtOf
<1> HIDE DEF r
<1>15. \E s \in DOMAIN At :
          LET hi == {x \in Q!Range(At[s]) : m < x}
          IN  /\ Q!Cardinality({v \in DOMAIN At[s] : At[s][v] = m}) = 1
              /\ hi # {}
              /\ Q!Lowest(hi) \notin alive
    <2>1. {x \in Q!Range(At[r]) : m < x} = higher
        BY <1>14
    <2>2. Q!Cardinality(Own(c)) = 1
        BY <1>9, SameSize
    <2> QED
        BY <1>9, <1>12, <1>14, <2>1, <2>2
<1>u. UNCHANGED <<At, absent, crashes, Status, Got>>
    BY <1>1, <1>2
<1>16. Q!Kill(m)
    BY <1>1, <1>u, <1>15, Zenon DEF Q!Kill, At, Status, Got
<1> QED
    BY <1>1, <1>16 DEF Q!Next

LEMMA StepIs ==
    ASSUME IInv, [Next]_vars
    PROVE  [Q!Next]_(Q!vars)
<1>1. CASE UNCHANGED vars
    <2>1. UNCHANGED <<queryVars, slaveVars, outcome>> /\ pc' = pc
        BY <1>1 DEF vars, masterVars
    <2> QED
        BY <2>1, SameQuery
<1>2. CASE Master
    <2>1. CASE Conclude
        BY <2>1, ConcludeIs
    <2>2. CASE ConnectCoordinator /\ MachineOf(Coordinator) \notin alive
        BY <2>2, DownIs
    <2>3. CASE ConnectCoordinator /\ MachineOf(Coordinator) \in alive
        <3>1. UNCHANGED <<queryVars, slaveVars, outcome>> /\ pc = "connect" /\ pc' = "call"
            BY <2>3 DEF ConnectCoordinator
        <3> QED
            BY <3>1, SameQuery
    <2>4. CASE starfish
        <3>1. UNCHANGED <<queryVars, slaveVars, outcome>> /\ pc = "plan" /\ pc' = "connect"
            BY <2>4 DEF starfish
        <3> QED
            BY <3>1, SameQuery
    <2>5. CASE CallCoordinator
        <3>1. /\ UNCHANGED <<queryVars, slaveVars, outcome>>
              /\ pc = "call" /\ pc' \in {"wait", "connect", "conclude"}
            BY <2>5 DEF CallCoordinator, Store
        <3> QED
            BY <3>1, SameQuery
    <2>6. CASE CoordinatorAnswers
        <3>1. /\ UNCHANGED <<queryVars, slaveVars, outcome>>
              /\ pc = "wait" /\ pc' \in {"connect", "conclude"}
            BY <2>6 DEF CoordinatorAnswers, Store
        <3> QED
            BY <3>1, SameQuery
    <2>7. CASE CoordinatorLost
        <3>1. /\ UNCHANGED <<queryVars, slaveVars, outcome>>
              /\ pc = "wait" /\ pc' \in {"connect", "conclude"}
            BY <2>7 DEF CoordinatorLost, Store
        <3> QED
            BY <3>1, SameQuery
    <2> QED
        BY <1>2, <2>1, <2>2, <2>3, <2>4, <2>5, <2>6, <2>7 DEF Master
<1>3. ASSUME NEW m \in Slaves, Slave(m) PROVE [Q!Next]_(Q!vars)
    <2>1. \/ \E c \in Calls : Finish(m, c)
          \/ \E c \in Calls : Take(m, c)
          \/ Ready(m)
          \/ Pass(m)
          \/ Fall(m)
        BY <1>3, SlaveStep DEF IInv
    <2>2. CASE Fall(m)
        BY <1>3, <2>2, FallIs DEF Slave
    <2>3. CASE ~ Fall(m)
        <3>1. UNCHANGED <<queryVars, slaveVars, masterVars>>
            BY <2>1, <2>3 DEF Finish, Take, Ready, Pass
        <3>2. UNCHANGED <<queryVars, slaveVars, outcome>> /\ pc' = pc
            BY <3>1 DEF masterVars
        <3> QED
            BY <3>2, SameQuery
    <2> QED
        BY <2>2, <2>3
<1>4. ASSUME NEW m \in alive, Crash(m) PROVE [Q!Next]_(Q!vars)
    BY <1>4, CrashIs
<1> QED
    BY <1>1, <1>2, <1>3, <1>4 DEF Next

LEMMA InitIs ==
    ASSUME Init
    PROVE  Q!Init
<1>1. TypeOK
    BY InitOK DEF IInv
<1>2. At # <<>>
    <2>1. Len(query) \in Nat /\ DOMAIN query = 1..Len(query) /\ Len(query) >= 1
        BY <1>1, QueryOK
    <2>2. DOMAIN At # {}
        BY <2>1 DEF At
    <2> QED
        BY <2>2
<1>3. \A r \in DOMAIN At : Q!Range(At[r]) \subseteq Slaves
    <2> SUFFICES ASSUME NEW r \in DOMAIN At PROVE Q!Range(At[r]) \subseteq Slaves
        OBVIOUS
    <2>1. r \in DOMAIN query /\ Q!Range(At[r]) = SlavesOf(r)
        BY <1>1, AtOf
    <2>2. AskedFor(r) \in [query[r][1]..query[r][2] -> Slaves]
        BY <1>1, <2>1, RangeOK
    <2>3. SlavesOf(r) \subseteq Slaves
        BY <2>2 DEF SlavesOf
    <2> QED
        BY <2>1, <2>3
<1>4. alive = Slaves /\ crashes = 0 /\ Status = "asked" /\ Got = {}
    BY Statuses DEF Init
<1> QED
    BY <1>2, <1>3, <1>4, Zenon DEF Q!Init, At, Status, Got

\* Whatever the order of the calls, every step is one of Query or none: a
\* success is complete and read from files that exist, a failure has its
\* reason, and so has the death of the master or of a slave.
THEOREM EveryStepIsOfQuery == Spec => Q!Init /\ [][Q!Next]_(Q!vars)
<1>1. Init => Q!Init
    BY InitIs
<1>2. IInv /\ [Next]_vars => [Q!Next]_(Q!vars)
    BY StepIs
<1> QED
    BY AlwaysIInv, <1>1, <1>2, PTL DEF Spec
=============================================================================
