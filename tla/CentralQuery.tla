---------------------------- MODULE CentralQuery ----------------------------
(***************************************************************************)
(* The centralized master (src/master/master_cent.c, master_rq_cent.c), to *)
(* which the distributed one is compared: one process with all the vector  *)
(* files, which answers its queries one after the other, each with a       *)
(* thread per range.                                                       *)
(*                                                                         *)
(* The threads leave what they found in an array that they reach by a      *)
(* global pointer.  A query that meets a failure returns at once, and the  *)
(* threads it has not joined run on into the following queries.            *)
(***************************************************************************)
EXTENDS Integers, Sequences, FiniteSets

CONSTANTS
    Vecs,           \* vector ids
    Workloads       \* what main() reads: sequences of queries, each a sequence
                    \* of ranges <<lo, hi>>

ASSUME CentralAssumption ==
    /\ Vecs \subseteq Nat
    /\ Workloads \subseteq Seq(Seq(Vecs \X Vecs))
    /\ \A w \in Workloads : w # <<>> /\ \A q \in DOMAIN w : w[q] # <<>>

VARIABLES
    workload,
    absent,         \* the vectors without a file
    pc,             \* where main is
    query,          \* the query it runs
    i,              \* the local of rq_range_root: a range of that query
    array,          \* array[q]: the array of query q, which thread's result in
                    \* each place, NoThread for NULL
    freed,          \* the queries whose array was freed
    results,        \* the global: the query whose array it points to
    thread,         \* thread[t]: where a thread <<query, range>> is
    base,           \* base[t]: the value of results that t has read
    wild,           \* t wrote to a freed array, or past the end of one
    failures        \* history: the queries that reported a failure

vars == <<workload, absent, pc, query, i, array, freed, results, thread, base,
          wild, failures>>

NoThread == <<0, 0>>
Threads ==
    UNION {UNION {{<<q, r>> : r \in DOMAIN w[q]} : q \in DOMAIN w} : w \in Workloads}

TypeOK ==
    /\ workload \in Workloads
    /\ absent \subseteq Vecs
    /\ pc \in {"query", "create", "join", "check", "exit"}
    /\ query \in DOMAIN workload
    /\ i \in DOMAIN workload[query]
    /\ array \in [DOMAIN workload -> Seq(Threads \cup {NoThread})]
    /\ freed \subseteq DOMAIN workload
    /\ results \in {0} \cup DOMAIN workload
    /\ thread \in [Threads -> {"none", "started", "writing", "ended"}]
    /\ base \in [Threads -> {0} \cup DOMAIN workload]
    /\ wild \in BOOLEAN
    /\ failures \subseteq DOMAIN workload

Init ==
    /\ workload \in Workloads
    /\ absent \in SUBSET Vecs
    /\ pc = "query"
    /\ query = 1
    /\ i = 1
    /\ array = [q \in DOMAIN workload |-> <<>>]
    /\ freed = {}
    /\ results = 0
    /\ thread = [t \in Threads |-> "none"]
    /\ base = [t \in Threads |-> 0]
    /\ wild = FALSE
    /\ failures = {}

LastRange == Len(workload[query])

-----------------------------------------------------------------------------
(* main *)

\* starfish lists the vectors of each range, and rq_range_root allocates
\* the array and sets it to NULLs.
starfish ==
    /\ pc = "query"
    /\ array' = [array EXCEPT ![query] = [r \in 1..LastRange |-> NoThread]]
    /\ results' = query
    /\ i' = 1
    /\ pc' = "create"
    /\ UNCHANGED <<workload, absent, query, freed, thread, base, wild, failures>>

LastCreated == i = LastRange

CreateThread ==
    /\ pc = "create"
    /\ thread' = [thread EXCEPT ![<<query, i>>] = "started"]
    /\ IF LastCreated THEN pc' = "join" /\ i' = 1 ELSE pc' = pc /\ i' = i + 1
    /\ UNCHANGED <<workload, absent, query, array, freed, results, base, wild, failures>>

\* Mutant of Joined: the threads are not waited for.
JoinedAtOnce == thread[<<query, i>>] # "none"

Joined == thread[<<query, i>>] = "ended"

pthread_join ==
    /\ pc = "join"
    /\ Joined
    /\ pc' = "check"
    /\ UNCHANGED <<workload, absent, query, i, array, freed, results, thread,
                   base, wild, failures>>

\* rq_pipe_1_cent: only the first vector of the range is looked at.
FirstVector(t) == workload[t[1]][t[2]][1]

Fails(t) == FirstVector(t) \in absent

Found == array[results][i]

\* Mutant of NextQuery: one query more than there are.
NextQueryPastLast ==
    /\ i' = 1
    /\ IF query > Len(workload) THEN pc' = "exit" /\ query' = query
                                ELSE pc' = "query" /\ query' = query + 1

\* When main returns, all threads end.
NextQuery ==
    /\ i' = 1
    /\ IF query = Len(workload) THEN pc' = "exit" /\ query' = query
                                ELSE pc' = "query" /\ query' = query + 1

\* results[i] is a failure: the query returns, the array stays allocated.
ReportFailure ==
    /\ pc = "check"
    /\ Found # NoThread
    /\ Fails(Found)
    /\ failures' = failures \cup {query}
    /\ NextQuery
    /\ UNCHANGED <<workload, absent, array, freed, results, thread, base, wild>>

CheckNext ==
    /\ pc = "check"
    /\ Found # NoThread
    /\ ~ Fails(Found)
    /\ i < LastRange
    /\ i' = i + 1
    /\ pc' = "join"
    /\ UNCHANGED <<workload, absent, query, array, freed, results, thread, base,
                   wild, failures>>

\* All results found; the array is freed, but results still points to it.
Conclude ==
    /\ pc = "check"
    /\ Found # NoThread
    /\ ~ Fails(Found)
    /\ i = LastRange
    /\ freed' = freed \cup {query}
    /\ NextQuery
    /\ UNCHANGED <<workload, absent, array, results, thread, base, wild, failures>>

Main ==
    \/ starfish \/ CreateThread \/ pthread_join \/ ReportFailure \/ CheckNext
    \/ Conclude

-----------------------------------------------------------------------------
(***************************************************************************)
(* init_coordinator_thread: results[index] = rq_pipe_1_cent(...).  C does  *)
(* not say whether results is read before the call or after it; the call   *)
(* changes nothing that is shared.                                         *)
(***************************************************************************)
ReadPointer(t) ==
    /\ thread[t] = "started"
    /\ base' = [base EXCEPT ![t] = results]
    /\ thread' = [thread EXCEPT ![t] = "writing"]
    /\ UNCHANGED <<workload, absent, pc, query, i, array, freed, results, wild, failures>>

\* Mutant of Index: all threads get the address of the loop's i.
IndexNow(t) == i

\* Mutant of Index: it counts from one.
IndexFromOne(t) == t[2] + 1

Index(t) == t[2]        \* args->query_result_index

WriteResult(t) ==
    /\ thread[t] = "writing"
    /\ thread' = [thread EXCEPT ![t] = "ended"]
    /\ IF base[t] \in freed \/ Index(t) > Len(array[base[t]])
       THEN wild' = TRUE /\ array' = array
       ELSE wild' = wild /\ array' = [array EXCEPT ![base[t]][Index(t)] = t]
    /\ UNCHANGED <<workload, absent, pc, query, i, freed, results, base, failures>>

Thread(t) == pc # "exit" /\ (ReadPointer(t) \/ WriteResult(t))

Next == Main \/ \E t \in Threads : Thread(t)

Spec == Init /\ [][Next]_vars

-----------------------------------------------------------------------------
(***************************************************************************)
(* Whatever the threads of earlier queries write into the array, main      *)
(* finds a result in every place it reads, and not the NULL it would fault *)
(* on, as long as none of them has written outside of the arrays.          *)
(***************************************************************************)
ResultIsThere ==
    pc = "check" /\ ~ wild => results \notin freed /\ Found # NoThread

(***************************************************************************)
(* As long as no query has failed, what main reads in a place is what its  *)
(* own thread for that range left there.  (A failed query leaves threads   *)
(* behind that may overwrite a place, at any later time.)                  *)
(***************************************************************************)
OwnResults == pc = "check" /\ failures = {} => Found = <<query, i>>

(***************************************************************************)
(* Freed memory, and memory past an array, is written only by a thread     *)
(* that a failed query left behind.  (malloc may hand a freed array out    *)
(* again, and the write then lands in the array of a later query.)         *)
(***************************************************************************)
NoWildWrite == wild => failures # {}
=============================================================================
