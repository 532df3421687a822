------------------------- MODULE CentralQueryProofs -------------------------
(***************************************************************************)
(* CentralQuery for any workload, any missing files and any order of the   *)
(* threads: the types, and the three invariants of its run.                *)
(***************************************************************************)
EXTENDS CentralQuery, TLAPS

-----------------------------------------------------------------------------
(* The inductive invariant *)

\* The array of the query that runs, while it runs.
Open == pc \in {"create", "join", "check"}

\* results points to the array of the query that runs, or, before it is
\* allocated, to that of the query before; what is freed is older.
Pointers ==
    /\ results = IF pc = "query" THEN query - 1 ELSE query
    /\ Open => query \notin freed /\ Len(array[query]) = LastRange
    /\ \A q \in freed : q <= query
    /\ pc = "query" => query \notin freed

\* The threads that exist are those of the queries so far, and of the ranges
\* so far of the query that runs.  A thread read a pointer that was current
\* after its creation.
Created ==
    \A t \in Threads : thread[t] # "none" =>
        /\ t[1] \in DOMAIN workload
        /\ t[2] \in DOMAIN workload[t[1]]
        /\ t[1] <= query
        /\ t[1] = query => pc # "query" /\ (pc = "create" => t[2] < i)
        /\ thread[t] # "started" => t[1] <= base[t] /\ base[t] <= query

\* The threads that have been joined have ended.
JoinedSoFar ==
    /\ pc = "join" => \A r \in 1..(i - 1) : thread[<<query, r>>] = "ended"
    /\ pc = "check" => \A r \in 1..i : thread[<<query, r>>] = "ended"

\* A thread of the query that runs has written into its place.
Written ==
    Open /\ ~ wild =>
        \A t \in Threads : t[1] = query /\ thread[t] = "ended" =>
            array[query][t[2]] # NoThread

\* Before a failure only the threads of the query that runs do, and what they
\* wrote is as they left it.
Undisturbed ==
    failures = {} =>
        /\ ~ wild
        /\ \A t \in Threads : thread[t] \in {"started", "writing"} =>
              t[1] = query /\ Open
        /\ Open => \A t \in Threads : t[1] = query /\ thread[t] = "ended" =>
              array[query][t[2]] = t

IInv ==
    /\ TypeOK
    /\ Pointers
    /\ Created
    /\ JoinedSoFar
    /\ Written
    /\ Undisturbed

-----------------------------------------------------------------------------
(* Facts about workloads and threads *)

LEMMA WorkloadShape ==
    ASSUME workload \in Workloads
    PROVE  /\ Len(workload) \in Nat \ {0}
           /\ DOMAIN workload = 1..Len(workload)
           /\ \A q \in DOMAIN workload :
                 /\ Len(workload[q]) \in Nat \ {0}
                 /\ DOMAIN workload[q] = 1..Len(workload[q])
<1>1. workload \in Seq(Seq(Vecs \X Vecs)) /\ workload # <<>>
  BY CentralAssumption
<1>2. ASSUME NEW q \in DOMAIN workload
      PROVE  workload[q] \in Seq(Vecs \X Vecs) /\ workload[q] # <<>>
  BY <1>1, CentralAssumption
<1> QED
  BY <1>1, <1>2

LEMMA ThreadShape ==
    \A t \in Threads : /\ t = <<t[1], t[2]>>
                       /\ t[1] \in Nat \ {0}
                       /\ t[2] \in Nat \ {0}
                       /\ t # NoThread
<1> SUFFICES ASSUME NEW t \in Threads
             PROVE  /\ t = <<t[1], t[2]>>
                    /\ t[1] \in Nat \ {0}
                    /\ t[2] \in Nat \ {0}
                    /\ t # NoThread
  OBVIOUS
<1>1. PICK w \in Workloads : \E q \in DOMAIN w : \E r \in DOMAIN w[q] : t = <<q, r>>
  BY DEF Threads
<1>2. PICK q \in DOMAIN w : \E r \in DOMAIN w[q] : t = <<q, r>>
  BY <1>1
<1>3. PICK r \in DOMAIN w[q] : t = <<q, r>>
  BY <1>2
<1>4. w \in Seq(Seq(Vecs \X Vecs))
  BY CentralAssumption
<1>5. q \in Nat \ {0} /\ w[q] \in Seq(Vecs \X Vecs)
  BY <1>2, <1>4
<1>6. r \in Nat \ {0}
  BY <1>3, <1>5
<1> QED
  BY <1>3, <1>5, <1>6 DEF NoThread

LEMMA ThreadsOfWorkload ==
    ASSUME workload \in Workloads,
           NEW q \in DOMAIN workload, NEW r \in DOMAIN workload[q]
    PROVE  <<q, r>> \in Threads
BY DEF Threads

-----------------------------------------------------------------------------
(* Types *)

LEMMA InitTypeOK == Init => TypeOK
<1> SUFFICES ASSUME Init PROVE TypeOK
  OBVIOUS
<1>1. /\ 1 \in DOMAIN workload
      /\ 1 \in DOMAIN workload[1]
  BY WorkloadShape DEF Init
<1>2. <<>> \in Seq(Threads \cup {NoThread})
  OBVIOUS
<1>3. array \in [DOMAIN workload -> Seq(Threads \cup {NoThread})]
  BY <1>2 DEF Init
<1>4. /\ thread \in [Threads -> {"none", "started", "writing", "ended"}]
      /\ base \in [Threads -> {0} \cup DOMAIN workload]
  BY DEF Init
<1> QED
  BY <1>1, <1>3, <1>4 DEF Init, TypeOK

LEMMA NextTypeOK ==
    ASSUME TypeOK, Created, [Next]_vars
    PROVE  TypeOK'
<1> USE DEF TypeOK
<1>1. CASE starfish
  <2>1. [r \in 1..LastRange |-> NoThread] \in Seq(Threads \cup {NoThread})
    BY WorkloadShape DEF LastRange
  <2>2. 1 \in DOMAIN workload[query]
    BY WorkloadShape
  <2> QED
    BY <1>1, <2>1, <2>2 DEF starfish
<1>2. CASE CreateThread
  <2>1. <<query, i>> \in Threads
    BY ThreadsOfWorkload
  <2>2. i' \in DOMAIN workload[query]
    BY <1>2, WorkloadShape DEF CreateThread, LastCreated, LastRange
  <2> QED
    BY <1>2, <2>1, <2>2 DEF CreateThread
<1>3. CASE pthread_join
  BY <1>3 DEF pthread_join
<1>4. ASSUME NextQuery, workload' = workload
      PROVE  query' \in DOMAIN workload /\ i' \in DOMAIN workload[query']
  BY <1>4, WorkloadShape DEF NextQuery
<1>5. CASE ReportFailure
  BY <1>4, <1>5 DEF ReportFailure, NextQuery
<1>6. CASE CheckNext
  <2>1. i + 1 \in DOMAIN workload[query]
    BY <1>6, WorkloadShape DEF CheckNext, LastRange
  <2> QED
    BY <1>6, <2>1 DEF CheckNext
<1>7. CASE Conclude
  BY <1>4, <1>7 DEF Conclude, NextQuery
<1>8. ASSUME NEW t \in Threads, ReadPointer(t)
      PROVE  TypeOK'
  BY <1>8 DEF ReadPointer
<1>9. ASSUME NEW t \in Threads, WriteResult(t)
      PROVE  TypeOK'
  <2>1. CASE base[t] \in freed \/ Index(t) > Len(array[base[t]])
    BY <1>9, <2>1 DEF WriteResult
  <2>2. CASE ~ (base[t] \in freed \/ Index(t) > Len(array[base[t]]))
    <3>1. base[t] \in DOMAIN workload
      <4>1. t[1] <= base[t] /\ t[1] \in Nat \ {0}
        BY <1>9, ThreadShape DEF WriteResult, Created
      <4>2. base[t] \in {0} \cup DOMAIN workload
        OBVIOUS
      <4> QED
        BY <4>1, <4>2, WorkloadShape
    <3>2. Index(t) \in 1..Len(array[base[t]])
      BY <2>2, <3>1, ThreadShape DEF Index
    <3>3. [array[base[t]] EXCEPT ![Index(t)] = t] \in Seq(Threads \cup {NoThread})
      BY <3>1, <3>2
    <3>4. array' = [array EXCEPT ![base[t]] = [array[base[t]] EXCEPT ![Index(t)] = t]]
      BY <1>9, <2>2 DEF WriteResult
    <3>5. array' \in [DOMAIN workload -> Seq(Threads \cup {NoThread})]
      BY <3>1, <3>3, <3>4
    <3> QED
      BY <1>9, <2>2, <3>5 DEF WriteResult
  <2> QED
    BY <2>1, <2>2
<1>10. CASE UNCHANGED vars
  BY <1>10 DEF vars
<1> QED
  BY <1>1, <1>2, <1>3, <1>5, <1>6, <1>7, <1>8, <1>9, <1>10 DEF Next, Main, Thread

-----------------------------------------------------------------------------
(* The other parts, action by action *)

Parts == Pointers /\ Created /\ JoinedSoFar /\ Written /\ Undisturbed

\* A query that begins has no threads yet.
LEMMA StarfishKeeps ==
    ASSUME IInv, starfish
    PROVE  Parts'
<1> USE DEF IInv, TypeOK, starfish
<1>1. \A t \in Threads : thread[t] # "none" => t[1] # query
  BY DEF Created
<1>2. Pointers'
  <2>1. Len(array'[query]) = LastRange
    BY WorkloadShape DEF LastRange
  <2> QED
    BY <2>1 DEF Pointers, Open, LastRange
<1>3. Created'
  BY <1>1 DEF Created
<1>4. JoinedSoFar'
  BY DEF JoinedSoFar
<1>5. Written'
  BY <1>1 DEF Written
<1>6. Undisturbed'
  BY <1>1 DEF Undisturbed, Open
<1> QED
  BY <1>2, <1>3, <1>4, <1>5, <1>6 DEF Parts

LEMMA CreateThreadKeeps ==
    ASSUME IInv, CreateThread
    PROVE  Parts'
<1> USE DEF IInv, TypeOK, CreateThread
<1>1. <<query, i>> \in Threads
  BY ThreadsOfWorkload
<1>2. /\ thread'[<<query, i>>] = "started"
      /\ \A t \in Threads : t # <<query, i>> => thread'[t] = thread[t]
  BY <1>1
<1>3. i \in Nat /\ query \in Nat
  BY WorkloadShape
<1>4. \/ pc' = "join" /\ i' = 1
      \/ pc' = "create" /\ i' = i + 1
  BY DEF LastCreated
<1>5. Pointers'
  BY <1>4 DEF Pointers, Open, LastRange
<1>6. Created'
  <2> SUFFICES ASSUME NEW t \in Threads, thread'[t] # "none"
               PROVE  /\ t[1] \in DOMAIN workload
                      /\ t[2] \in DOMAIN workload[t[1]]
                      /\ t[1] <= query
                      /\ t[1] = query => pc' # "query" /\ (pc' = "create" => t[2] < i')
                      /\ thread'[t] # "started" => t[1] <= base[t] /\ base[t] <= query
    BY DEF Created
  <2>1. CASE t = <<query, i>>
    BY <2>1, <1>2, <1>3, <1>4
  <2>2. CASE t # <<query, i>>
    <3>1. thread[t] # "none"
      BY <2>2, <1>2
    <3>2. t[1] = query => t[2] < i /\ t[2] \in Nat
      BY <3>1, ThreadShape DEF Created
    <3> QED
      BY <2>2, <3>1, <3>2, <1>2, <1>3, <1>4 DEF Created
  <2> QED
    BY <2>1, <2>2
<1>7. JoinedSoFar'
  BY <1>4 DEF JoinedSoFar
<1>8. Written'
  BY <1>2, <1>4 DEF Written, Open
<1>9. Undisturbed'
  BY <1>2, <1>4 DEF Undisturbed, Open
<1> QED
  BY <1>5, <1>6, <1>7, <1>8, <1>9 DEF Parts

LEMMA JoinKeeps ==
    ASSUME IInv, pthread_join
    PROVE  Parts'
<1> USE DEF IInv, TypeOK, pthread_join
<1>1. \A r \in 1..i : thread[<<query, r>>] = "ended"
  <2> SUFFICES ASSUME NEW r \in 1..i PROVE thread[<<query, r>>] = "ended"
    OBVIOUS
  <2>1. i \in Nat
    BY WorkloadShape
  <2>2. r = i \/ r \in 1..(i - 1)
    BY <2>1
  <2> QED
    BY <2>2 DEF Joined, JoinedSoFar
<1>2. Pointers' /\ Created' /\ JoinedSoFar'
  BY <1>1 DEF Pointers, Open, LastRange, Created, JoinedSoFar
<1>3. Written' /\ Undisturbed'
  BY DEF Written, Undisturbed, Open
<1> QED
  BY <1>2, <1>3 DEF Parts

LEMMA CheckNextKeeps ==
    ASSUME IInv, CheckNext
    PROVE  Parts'
<1> USE DEF IInv, TypeOK, CheckNext
<1>1. JoinedSoFar'
  <2>1. i \in Nat /\ i' - 1 = i
    BY WorkloadShape
  <2> QED
    BY <2>1 DEF JoinedSoFar
<1>2. Pointers' /\ Created'
  BY DEF Pointers, Open, LastRange, Created
<1>3. Written' /\ Undisturbed'
  BY DEF Written, Undisturbed, Open
<1> QED
  BY <1>1, <1>2, <1>3 DEF Parts

\* What a query leaves behind, whether it failed or not.
LEMMA NextQueryKeeps ==
    ASSUME IInv, pc = "check", NextQuery,
           freed' \in {freed, freed \cup {query}},
           UNCHANGED <<workload, results, thread, base>>
    PROVE  Pointers' /\ Created' /\ JoinedSoFar' /\ Written' /\ ~ Open'
<1> USE DEF IInv, TypeOK
<1>1. query \in Nat /\ \A q \in freed : q \in Nat /\ q <= query
  BY WorkloadShape DEF Pointers
<1>2. \/ pc' = "exit" /\ query' = query
      \/ pc' = "query" /\ query' = query + 1
  BY DEF NextQuery
<1>3. results = query
  BY DEF Pointers
<1>4. Pointers'
  <2>1. \A q \in freed' : q \in Nat /\ q <= query
    BY <1>1
  <2>2. query' >= query /\ (pc' = "query" => query' > query)
    BY <1>1, <1>2
  <2>3. \A q \in freed' : q <= query' /\ (pc' = "query" => q # query')
    BY <1>1, <1>2, <2>1, <2>2
  <2>4. results' = IF pc' = "query" THEN query' - 1 ELSE query'
    BY <1>1, <1>2, <1>3
  <2> QED
    BY <1>2, <2>3, <2>4 DEF Pointers, Open
<1>5. Created'
  <2>1. \A t \in Threads : t[1] \in Nat
    BY ThreadShape
  <2>2. \A t \in Threads : base[t] \in Nat
    BY WorkloadShape
  <2> QED
    BY <1>1, <1>2, <2>1, <2>2 DEF Created
<1>6. JoinedSoFar' /\ Written' /\ ~ Open'
  BY <1>2 DEF JoinedSoFar, Written, Open
<1> QED
  BY <1>4, <1>5, <1>6

LEMMA ReportFailureKeeps ==
    ASSUME IInv, ReportFailure
    PROVE  Parts'
<1>1. failures' # {}
  BY DEF ReportFailure
<1>2. Pointers' /\ Created' /\ JoinedSoFar' /\ Written'
  BY NextQueryKeeps DEF ReportFailure
<1> QED
  BY <1>1, <1>2 DEF Parts, Undisturbed

\* All threads of a query that succeeds have been joined.
LEMMA ConcludeKeeps ==
    ASSUME IInv, Conclude
    PROVE  Parts'
<1>1. Pointers' /\ Created' /\ JoinedSoFar' /\ Written' /\ ~ Open'
  BY NextQueryKeeps DEF Conclude
<1>2. Undisturbed'
  <2> SUFFICES ASSUME failures = {}
               PROVE  ~ wild /\ \A t \in Threads : thread[t] \notin {"started", "writing"}
    BY <1>1 DEF Undisturbed, Conclude
  <2>1. ~ wild
    BY DEF IInv, Undisturbed
  <2>2. ASSUME NEW t \in Threads, thread[t] \in {"started", "writing"}
        PROVE  FALSE
    <3>1. t = <<query, t[2]>>
      BY <2>2, ThreadShape DEF IInv, Undisturbed
    <3>2. t[2] \in 1..LastRange
      BY <2>2, <3>1, WorkloadShape DEF IInv, TypeOK, Created, LastRange
    <3>3. thread[<<query, t[2]>>] = "ended"
      BY <3>2 DEF IInv, JoinedSoFar, Conclude
    <3> QED
      BY <2>2, <3>1, <3>3
  <2> QED
    BY <2>1, <2>2
<1> QED
  BY <1>1, <1>2 DEF Parts

\* results is then at the thread's own query, or a later one.
LEMMA ReadPointerKeeps ==
    ASSUME IInv, pc # "exit", NEW t \in Threads, ReadPointer(t)
    PROVE  Parts'
<1> USE DEF IInv, TypeOK, ReadPointer
<1>1. /\ thread'[t] = "writing" /\ base'[t] = results
      /\ \A u \in Threads : u # t => thread'[u] = thread[u] /\ base'[u] = base[u]
  OBVIOUS
<1>2. t[1] <= results /\ results <= query
  <2>1. t[1] <= query /\ (t[1] = query => pc # "query")
    BY DEF Created
  <2>2. t[1] \in Nat /\ query \in Nat
    BY WorkloadShape, ThreadShape
  <2> QED
    BY <2>1, <2>2 DEF Pointers
<1>3. Pointers'
  BY DEF Pointers, Open, LastRange
<1>4. Created'
  <2> SUFFICES ASSUME NEW u \in Threads, thread'[u] # "none"
               PROVE  /\ u[1] \in DOMAIN workload
                      /\ u[2] \in DOMAIN workload[u[1]]
                      /\ u[1] <= query
                      /\ u[1] = query => pc # "query" /\ (pc = "create" => u[2] < i)
                      /\ thread'[u] # "started" => u[1] <= base'[u] /\ base'[u] <= query
    BY DEF Created
  <2>1. CASE u = t
    BY <2>1, <1>1, <1>2 DEF Created
  <2>2. CASE u # t
    BY <2>2, <1>1 DEF Created
  <2> QED
    BY <2>1, <2>2
<1>5. JoinedSoFar'
  <2>1. \A u : thread[u] = "ended" => thread'[u] = "ended"
    OBVIOUS
  <2> QED
    BY <2>1 DEF JoinedSoFar
<1>6. Written' /\ Undisturbed'
  BY <1>1 DEF Written, Undisturbed, Open
<1> QED
  BY <1>3, <1>4, <1>5, <1>6 DEF Parts

\* A thread of the query that runs writes into its own place.  Others do so
\* only after a failure, and never a NULL.
LEMMA WriteResultKeeps ==
    ASSUME IInv, pc # "exit", NEW t \in Threads, WriteResult(t)
    PROVE  Parts'
<1> USE DEF IInv, TypeOK, WriteResult
<1> DEFINE Stray == base[t] \in freed \/ Index(t) > Len(array[base[t]])
<1>1. /\ thread'[t] = "ended"
      /\ \A u \in Threads : u # t => thread'[u] = thread[u]
  OBVIOUS
<1>2. /\ query \in Nat /\ query \in DOMAIN workload
      /\ t = <<t[1], t[2]>> /\ t[1] \in Nat \ {0} /\ t[2] \in Nat \ {0} /\ t # NoThread
      /\ t[1] <= base[t] /\ base[t] <= query /\ t[1] <= query
  BY WorkloadShape, ThreadShape DEF Created
<1>3. base[t] \in DOMAIN workload
  <2>1. base[t] \in {0} \cup DOMAIN workload
    OBVIOUS
  <2> QED
    BY <1>2, <2>1, WorkloadShape
<1>4. base[t] \in Nat
  BY <1>3, WorkloadShape
<1>5. t[1] = query => base[t] = query /\ Open /\ ~ Stray
  <2> SUFFICES ASSUME t[1] = query
               PROVE  base[t] = query /\ Open /\ ~ Stray
    OBVIOUS
  <2>1. base[t] = query
    BY <1>2, <1>4
  <2>2. Open
    BY DEF Created, Open
  <2>3. t[2] <= LastRange
    BY WorkloadShape DEF Created, LastRange
  <2>4. ~ (t[2] > LastRange)
    BY <1>2, <2>3, WorkloadShape DEF LastRange
  <2> QED
    BY <2>1, <2>2, <2>4 DEF Pointers, Index
<1>6. CASE Stray
  <2>1. wild' /\ array' = array
    BY <1>6
  <2>2. t[1] # query
    BY <1>5, <1>6
  <2>3. failures # {}
    BY <2>2 DEF Undisturbed
  <2>4. Pointers' /\ Created' /\ JoinedSoFar'
    BY <2>1, <1>1 DEF Pointers, Open, LastRange, Created, JoinedSoFar
  <2> QED
    BY <2>1, <2>3, <2>4 DEF Parts, Written, Undisturbed
<1>7. CASE ~ Stray
  <2>1. wild' = wild /\ array' = [array EXCEPT ![base[t]][t[2]] = t]
    BY <1>7 DEF Index
  <2>2. /\ \A q \in DOMAIN workload : q # base[t] => array'[q] = array[q]
        /\ array'[base[t]] = [array[base[t]] EXCEPT ![t[2]] = t]
    BY <2>1, <1>3
  <2>3. /\ array[base[t]] \in Seq(Threads \cup {NoThread})
        /\ t[2] \in 1..Len(array[base[t]])
    BY <1>2, <1>3, <1>7 DEF Index
  <2>4. /\ Len(array'[base[t]]) = Len(array[base[t]])
        /\ array'[base[t]][t[2]] = t
        /\ \A r \in Nat : r # t[2] => array'[base[t]][r] = array[base[t]][r]
    BY <2>2, <2>3
  <2>5. Pointers'
    BY <1>2, <1>3, <2>2, <2>4 DEF Pointers, Open, LastRange
  <2>6. Created' /\ JoinedSoFar'
    BY <1>1 DEF Created, JoinedSoFar
  <2>7. Written'
    <3> SUFFICES ASSUME Open, ~ wild, NEW u \in Threads, u[1] = query, thread'[u] = "ended"
                 PROVE  array'[query][u[2]] # NoThread
      BY <2>1 DEF Written, Open
    <3>1. CASE u = t
      BY <3>1, <1>2, <1>5, <2>4
    <3>2. CASE u # t
      <4>1. array[query][u[2]] # NoThread /\ u[2] \in Nat
        BY <3>2, <1>1, ThreadShape DEF Written
      <4> QED
        BY <4>1, <1>2, <2>2, <2>4
    <3> QED
      BY <3>1, <3>2
  <2>8. Undisturbed'
    <3> SUFFICES ASSUME failures = {}
                 PROVE  Undisturbed'
      BY DEF Undisturbed
    <3>1. t[1] = query /\ base[t] = query /\ Open /\ ~ wild
      BY <1>5 DEF Undisturbed
    <3>2. ASSUME NEW u \in Threads, u[1] = query, thread'[u] = "ended"
          PROVE  array'[query][u[2]] = u
      <4>1. CASE u = t
        BY <4>1, <2>4, <3>1
      <4>2. CASE u # t
        <5>1. array[query][u[2]] = u
          BY <3>1, <3>2, <4>2, <1>1 DEF Undisturbed
        <5>2. u = <<query, u[2]>> /\ u[2] \in Nat
          BY <3>2, ThreadShape
        <5>3. u[2] # t[2]
          BY <4>2, <5>2, <3>1, <1>2
        <5> QED
          BY <5>1, <5>2, <5>3, <2>4, <3>1
      <4> QED
        BY <4>1, <4>2
    <3> QED
      BY <1>1, <2>1, <3>1, <3>2 DEF Undisturbed, Open
  <2> QED
    BY <2>5, <2>6, <2>7, <2>8 DEF Parts
<1> QED
  BY <1>6, <1>7

-----------------------------------------------------------------------------
(* The theorems *)

LEMMA InitIInv == Init => IInv
<1> SUFFICES ASSUME Init PROVE IInv
  OBVIOUS
<1>1. TypeOK
  BY InitTypeOK
<1>2. Pointers /\ Written /\ JoinedSoFar /\ Undisturbed /\ Created
  BY DEF Init, Pointers, Open, Written, JoinedSoFar, Undisturbed, Created
<1> QED
  BY <1>1, <1>2 DEF IInv

LEMMA NextIInv == IInv /\ [Next]_vars => IInv'
<1> SUFFICES ASSUME IInv, [Next]_vars PROVE IInv'
  OBVIOUS
<1>1. TypeOK'
  BY NextTypeOK DEF IInv
<1>2. Parts'
  <2>1. CASE Main
    BY <2>1, StarfishKeeps, CreateThreadKeeps, JoinKeeps, ReportFailureKeeps,
       CheckNextKeeps, ConcludeKeeps DEF Main
  <2>2. ASSUME NEW t \in Threads, Thread(t) PROVE Parts'
    BY <2>2, ReadPointerKeeps, WriteResultKeeps DEF Thread
  <2>3. CASE UNCHANGED vars
    BY <2>3 DEF vars, IInv, Parts, Pointers, Open, LastRange, Created,
                JoinedSoFar, Written, Undisturbed
  <2> QED
    BY <2>1, <2>2, <2>3 DEF Next
<1> QED
  BY <1>1, <1>2 DEF IInv, Parts

LEMMA AlwaysIInv == Spec => []IInv
BY InitIInv, NextIInv, PTL DEF Spec

(***************************************************************************)
(* The types of the centralized master's variables.                        *)
(***************************************************************************)
THEOREM CentralTypeCorrect == Spec => []TypeOK
<1>1. IInv => TypeOK
  BY DEF IInv
<1> QED
  BY <1>1, AlwaysIInv, PTL

(***************************************************************************)
(* Whatever order the threads run in, and whatever threads failed queries  *)
(* left behind, main never reads a NULL in results, nor a freed array,     *)
(* unless a thread has written outside of the arrays.                      *)
(***************************************************************************)
THEOREM ResultsAreAlwaysThere == Spec => []ResultIsThere
<1>1. IInv => ResultIsThere
  <2> SUFFICES ASSUME IInv, pc = "check", ~ wild
               PROVE  results \notin freed /\ Found # NoThread
    BY DEF ResultIsThere
  <2>1. results = query /\ query \notin freed
    BY DEF IInv, Pointers, Open
  <2>2. <<query, i>> \in Threads /\ i \in 1..i
    BY ThreadsOfWorkload, WorkloadShape DEF IInv, TypeOK
  <2>3. thread[<<query, i>>] = "ended"
    BY <2>2 DEF IInv, JoinedSoFar
  <2> QED
    BY <2>1, <2>2, <2>3 DEF IInv, Written, Open, Found
<1> QED
  BY <1>1, AlwaysIInv, PTL

(***************************************************************************)
(* Until a query fails, what main reads for a range was found for that     *)
(* range of that query.                                                    *)
(***************************************************************************)
THEOREM ResultsAreOwn == Spec => []OwnResults
<1>1. IInv => OwnResults
  <2> SUFFICES ASSUME IInv, pc = "check", failures = {}
               PROVE  Found = <<query, i>>
    BY DEF OwnResults
  <2>1. results = query
    BY DEF IInv, Pointers
  <2>2. <<query, i>> \in Threads /\ i \in 1..i
    BY ThreadsOfWorkload, WorkloadShape DEF IInv, TypeOK
  <2>3. thread[<<query, i>>] = "ended"
    BY <2>2 DEF IInv, JoinedSoFar
  <2> QED
    BY <2>1, <2>2, <2>3 DEF IInv, Undisturbed, Open, Found
<1> QED
  BY <1>1, AlwaysIInv, PTL

(***************************************************************************)
(* Only threads that a failed query left behind write outside of the       *)
(* arrays.                                                                 *)
(***************************************************************************)
THEOREM WritesStayInside == Spec => []NoWildWrite
<1>1. IInv => NoWildWrite
  BY DEF IInv, Undisturbed, NoWildWrite
<1> QED
  BY <1>1, AlwaysIInv, PTL
=============================================================================
