----------------------------- MODULE QueryPipe ------------------------------
(***************************************************************************)
(* One range query, call by call: starfish (src/master/master.c) plans a   *)
(* chain of slaves for each range, rq_range_root and                       *)
(* init_coordinator_thread (src/master/master_rq.c) call the first slave   *)
(* of one chain after the other, and every slave, in rq_pipe_1_svc         *)
(* (src/slave/slave.c), reads its vectors and calls the next.              *)
(*                                                                         *)
(* A slave serves one call at a time, also while it waits for the answer   *)
(* of the next slave.  All calls have the same timeout; one that was given *)
(* up runs on in the slave.  A result is whether its exit_code is          *)
(* EXIT_SUCCESS, and which vectors were OR'ed into it.                     *)
(***************************************************************************)
EXTENDS Integers, Sequences, FiniteSets

CONSTANTS
    Slaves,         \* ids of slaves
    Slow,           \* those that may take longer than an RPC's timeout
    Vecs,           \* vector ids, an interval of integers
    After,          \* After[s]: the slave next to s on the ring
    Queries,        \* the queries: each a sequence of ranges <<lo, hi>>
    MaxRanges,      \* bound: how many ranges a query has
    MaxAbsent,      \* bound: how many files may be missing
    MaxCrashes      \* bound: how many slaves die of themselves

VARIABLES
    query,          \* the ranges asked for
    primary,        \* primary[v]: what the ring says of v
    absent,         \* the <<slave, vector>> without a file
    alive,
    crashes,        \* how many slaves died of themselves
    pc,             \* where the master is
    chain,          \* chain[r]: range_array's <<machine, vector>> of range r
    cur,            \* the range being asked
    results,        \* what results[r] points to
    clnt_res,       \* the static in the master's stub of rq_pipe
    outcome,        \* res of init_range_query, a vector set for each range
    inbox,          \* inbox[m]: the calls that m has yet to take
    call,           \* call[m]: the call m serves, None if it serves none
    phase,          \* phase[m]: where m is in that call
    answer          \* answer[c]: <<>>, or the result call c was answered with

ASSUME QueryAssumption ==
    /\ Slaves \subseteq Nat
    /\ After \in [Slaves -> Slaves]
    /\ \A s \in Slaves : After[s] # s
    /\ Slow \subseteq Slaves
    /\ IsFiniteSet(Slaves)
    /\ Vecs \subseteq Int
    /\ IsFiniteSet(Vecs)
    /\ Queries \subseteq Seq(Int \X Int)
    /\ \A q \in Queries :
          /\ Len(q) \in 1..MaxRanges
          /\ \A r \in DOMAIN q :
                q[r][1] <= q[r][2] /\ q[r][1]..q[r][2] \subseteq Vecs
    /\ MaxRanges \in Nat
    /\ MaxCrashes \in Nat

queryVars  == <<query, primary, absent>>
slaveVars  == <<alive, crashes>>
masterVars == <<pc, chain, cur, results, clnt_res, outcome>>
pipeVars   == <<inbox, call, phase, answer>>
vars == <<queryVars, slaveVars, masterVars, pipeVars>>

\* A call <<r, k>> asks a slave for range r from the k-th pair of its chain on.
Calls == (1..MaxRanges) \X (1..Cardinality(Vecs))
None  == <<0, 0>>

Success(vs) == [ok |-> TRUE, read |-> vs]
Failure     == [ok |-> FALSE, read |-> {}]
Result      == [ok : BOOLEAN, read : SUBSET Vecs]

TypeOK ==
    /\ query \in Queries
    /\ primary \in [Vecs -> Slaves]
    /\ absent \subseteq Slaves \X Vecs
    /\ alive \subseteq Slaves
    /\ crashes \in 0..MaxCrashes
    /\ pc \in {"plan", "connect", "call", "wait", "conclude", "done", "segv"}
    /\ chain \in Seq(Seq(Slaves \X Vecs))
    /\ cur \in DOMAIN query
    /\ results \in Seq({"clnt_res", "own"})
    /\ clnt_res \in Result
    /\ outcome.ok \in BOOLEAN
    /\ outcome.reads \in Seq(SUBSET Vecs)
    /\ inbox \in [Slaves -> SUBSET Calls]
    /\ call \in [Slaves -> Calls \cup {None}]
    /\ phase \in [Slaves -> {"connect", "call", "wait"}]
    /\ answer \in [Calls -> {<<>>} \cup {<<res>> : res \in Result}]

\* Slaves and master between two heartbeats: the ring has every slave, and
\* a file may be missing, of a put that failed or never came.
Init ==
    /\ query \in Queries
    /\ primary \in [Vecs -> Slaves]
    /\ absent \in {a \in SUBSET (Slaves \X Vecs) : Cardinality(a) <= MaxAbsent}
    /\ alive = Slaves
    /\ crashes = 0
    /\ pc = "plan"
    /\ chain = <<>>
    /\ cur = 1
    /\ results = <<>>
    /\ clnt_res = Success({})
    /\ outcome = [ok |-> FALSE, reads |-> <<>>]
    /\ inbox = [m \in Slaves |-> {}]
    /\ call = [m \in Slaves |-> None]
    /\ phase = [m \in Slaves |-> "connect"]
    /\ answer = [c \in Calls |-> <<>>]

-----------------------------------------------------------------------------
(* starfish *)

\* The flip of starfish: the backups for the first range, the primaries for
\* the second.
AskedFor(r) ==
    [v \in query[r][1]..query[r][2] |->
        IF r % 2 = 1 THEN After[primary[v]] ELSE primary[v]]

Pairs(f) == {<<f[v], v>> : v \in DOMAIN f}

\* Mutant of Sorted: qsort is forgotten.
InOrderOfVectors(f) ==
    CHOOSE ch \in [1..Cardinality(Pairs(f)) -> Pairs(f)] :
        \A i, j \in DOMAIN ch : i < j => ch[i][2] < ch[j][2]

\* compare_machine_vec_tuple looks at the machines; of the pairs of one, which
\* are read into one result in any order, the vectors decide here.
Before(p, q) == p[1] < q[1] \/ (p[1] = q[1] /\ p[2] < q[2])

\* qsort: all pairs, each before the next.
Sorted(f) ==
    CHOOSE ch \in [1..Cardinality(Pairs(f)) -> Pairs(f)] :
        \A i, j \in DOMAIN ch : i < j => Before(ch[i], ch[j])

starfish ==
    /\ pc = "plan"
    /\ chain' = [r \in DOMAIN query |-> Sorted(AskedFor(r))]
    /\ pc' = "connect"
    /\ UNCHANGED <<queryVars, slaveVars, cur, results, clnt_res, outcome, pipeVars>>

-----------------------------------------------------------------------------
(* What a slave finds in the arguments of a call. *)

MachineOf(c) == chain[c[1]][c[2]][1]

\* The pairs of the chain from c on that are for other machines.
Others(c) ==
    {<<c[1], k>> : k \in {j \in DOMAIN chain[c[1]] :
        j > c[2] /\ chain[c[1]][j][1] # MachineOf(c)}}

IsLast(c) == Others(c) = {}

NextCall(c) == CHOOSE d \in Others(c) : \A e \in Others(c) : d[2] <= e[2]

\* The vectors that the machine of c reads itself.
Own(c) ==
    {chain[c[1]][j][2] : j \in {i \in DOMAIN chain[c[1]] :
        i >= c[2] /\ (~ IsLast(c) => i < NextCall(c)[2])}}

\* The answer to c is late: a slave that c leads to is slow, or is busy with
\* another call when this one arrives.
Late(c) ==
    \E m \in alive, k \in c[2]..Cardinality(Vecs) :
        LET d == <<c[1], k>>
        IN  \/ m \in Slow /\ (d \in inbox[m] \/ d = call[m])
            \/ d \in inbox[m] /\ call[m] # None

\* The stub returns NULL: the connection broke, or the timeout passed.
Lost(c) == answer[c] = <<>> /\ (MachineOf(c) \notin alive \/ Late(c))

-----------------------------------------------------------------------------
(* rq_range_root and init_coordinator_thread; there are no threads *)

Coordinator == <<cur, 1>>

\* clnt_control of the NULL that clnt_create returned
ConnectCoordinator ==
    /\ pc = "connect"
    /\ pc' = IF MachineOf(Coordinator) \in alive THEN "call" ELSE "segv"
    /\ UNCHANGED <<queryVars, slaveVars, chain, cur, results, clnt_res, outcome, pipeVars>>

\* Mutant of Store: the index moves on after the last range, too.
StoreAndCount(res) ==
    /\ results' = Append(results, res)
    /\ pc' = IF cur < Len(query) THEN "connect" ELSE "conclude"
    /\ cur' = cur + 1

\* results[cur] = res, and on to the next range
Store(res) ==
    /\ results' = Append(results, res)
    /\ IF cur < Len(query)
       THEN pc' = "connect" /\ cur' = cur + 1
       ELSE pc' = "conclude" /\ cur' = cur

\* The stub of rq_pipe sets its static to zeros, then sends the call.
CallCoordinator ==
    /\ pc = "call"
    /\ clnt_res' = Success({})
    /\ IF MachineOf(Coordinator) \in alive
       THEN /\ inbox' = [inbox EXCEPT ![MachineOf(Coordinator)] = @ \cup {Coordinator}]
            /\ pc' = "wait"
            /\ UNCHANGED <<cur, results>>
       ELSE /\ Store("own")
            /\ UNCHANGED inbox
    /\ UNCHANGED <<queryVars, slaveVars, chain, outcome, call, phase, answer>>

CoordinatorAnswers ==
    /\ pc = "wait"
    /\ answer[Coordinator] # <<>>
    /\ clnt_res' = Head(answer[Coordinator])
    /\ Store("clnt_res")
    /\ UNCHANGED <<queryVars, slaveVars, chain, outcome, pipeVars>>

CoordinatorLost ==
    /\ pc = "wait"
    /\ Lost(Coordinator)
    /\ Store("own")
    /\ UNCHANGED <<queryVars, slaveVars, chain, clnt_res, outcome, pipeVars>>

Deref(p) == IF p = "own" THEN Failure ELSE clnt_res

\* The first failure, or the results of all ranges AND'ed together.
Conclude ==
    /\ pc = "conclude"
    /\ outcome' = [ok    |-> \A r \in DOMAIN results : Deref(results[r]).ok,
                   reads |-> [r \in DOMAIN results |-> Deref(results[r]).read]]
    /\ pc' = "done"
    /\ UNCHANGED <<queryVars, slaveVars, chain, cur, results, clnt_res, pipeVars>>

-----------------------------------------------------------------------------
(* rq_pipe_1_svc on slave m *)

Free(m) ==
    /\ call' = [call EXCEPT ![m] = None]
    /\ phase' = [phase EXCEPT ![m] = "connect"]

Reply(c, res) == answer' = [answer EXCEPT ![c] = <<res>>]

\* The slave's own vectors: a missing file, or the end of the chain, is the
\* answer; else the next slave is asked.
ReadOwn(m, c) ==
    /\ call[m] = None
    /\ c \in inbox[m]
    /\ inbox' = [inbox EXCEPT ![m] = @ \ {c}]
    /\ IF \E v \in Own(c) : <<m, v>> \in absent
       THEN Reply(c, Failure) /\ UNCHANGED <<call, phase>>
       ELSE IF IsLast(c)
       THEN Reply(c, Success(Own(c))) /\ UNCHANGED <<call, phase>>
       ELSE /\ call' = [call EXCEPT ![m] = c]
            /\ UNCHANGED <<phase, answer>>
    /\ UNCHANGED <<queryVars, slaveVars, masterVars>>

\* The process ends: what it was asked and what it was asking is gone.
Gone(m) ==
    /\ alive' = alive \ {m}
    /\ inbox' = [inbox EXCEPT ![m] = {}]
    /\ Free(m)

\* Without a client exit_code is set and the code goes on to next_result,
\* which is the last vector read here, or NULL if that was the first.
ConnectNext(m) ==
    /\ call[m] # None
    /\ phase[m] = "connect"
    /\ IF MachineOf(NextCall(call[m])) \in alive
       THEN /\ phase' = [phase EXCEPT ![m] = "call"]
            /\ UNCHANGED <<alive, inbox, call, answer>>
       ELSE IF Cardinality(Own(call[m])) = 1
       THEN Gone(m) /\ UNCHANGED answer
       ELSE Reply(call[m], Failure) /\ Free(m) /\ UNCHANGED <<alive, inbox>>
    /\ UNCHANGED <<queryVars, crashes, masterVars>>

\* Mutant of NoResult: the NULL that the stub returned is not looked at.
NoResultUnchecked(m) == Gone(m) /\ UNCHANGED answer

\* next_result is NULL
NoResult(m) == Reply(call[m], Failure) /\ Free(m) /\ UNCHANGED <<alive, inbox>>

CallNext(m) ==
    /\ phase[m] = "call"
    /\ LET next == NextCall(call[m])
       IN  IF MachineOf(next) \in alive
           THEN /\ inbox' = [inbox EXCEPT ![MachineOf(next)] = @ \cup {next}]
                /\ phase' = [phase EXCEPT ![m] = "wait"]
                /\ UNCHANGED <<alive, call, answer>>
           ELSE NoResult(m)
    /\ UNCHANGED <<queryVars, crashes, masterVars>>

\* Mutant of Combined: the exit_code of the result of the next slave is not
\* looked at.
CombinedAnyway(res, vs) == Success(res.read \cup vs)

Combined(res, vs) == IF res.ok THEN Success(res.read \cup vs) ELSE Failure

NextAnswers(m) ==
    /\ phase[m] = "wait"
    /\ LET c == call[m]
       IN  /\ answer[NextCall(c)] # <<>>
           /\ Reply(c, Combined(Head(answer[NextCall(c)]), Own(c)))
    /\ Free(m)
    /\ UNCHANGED <<queryVars, slaveVars, masterVars, inbox>>

NextLost(m) ==
    /\ phase[m] = "wait"
    /\ Lost(NextCall(call[m]))
    /\ NoResult(m)
    /\ UNCHANGED <<queryVars, crashes, masterVars>>

Crash(m) ==
    /\ crashes < MaxCrashes
    /\ crashes' = crashes + 1
    /\ Gone(m)
    /\ UNCHANGED <<queryVars, masterVars, answer>>

-----------------------------------------------------------------------------
Master ==
    \/ starfish \/ ConnectCoordinator \/ CallCoordinator \/ CoordinatorAnswers
    \/ CoordinatorLost \/ Conclude

Slave(m) ==
    /\ m \in alive
    /\ \/ \E c \in Calls : ReadOwn(m, c)
       \/ ConnectNext(m) \/ CallNext(m) \/ NextAnswers(m) \/ NextLost(m)

Next ==
    \/ Master
    \/ \E m \in Slaves : Slave(m)
    \/ \E m \in alive : Crash(m)

(***************************************************************************)
(* The master runs, every slave that lives runs, the slow ones too, and    *)
(* every call returns.  Slaves need not die.                               *)
(***************************************************************************)
Spec ==
    Init /\ [][Next]_vars /\ WF_vars(Master) /\ \A m \in Slaves : WF_vars(Slave(m))

-----------------------------------------------------------------------------
\* Slave m is in a call, and waits for one that n serves or has yet to take.
Waits(m, n) ==
    /\ {m, n} \subseteq alive
    /\ phase[m] = "wait"
    /\ NextCall(call[m]) \in inbox[n] \cup {call[n]}

(***************************************************************************)
(* No slaves wait for one another in a circle, also not between two ranges *)
(* of which the first was given up and still runs: a slave serves nothing  *)
(* while it waits, so a circle would last until the timeouts.  In any      *)
(* group of slaves one waits for none of them; it is the order of the ids  *)
(* that makes it so.                                                       *)
(***************************************************************************)
NoSlaveWaitsForItself ==
    \A group \in (SUBSET Slaves) \ {{}} :
        \E m \in group : \A n \in group : ~ Waits(m, n)

(***************************************************************************)
(* rq_pipe_1_svc can die of a dead slave behind it, but a death does not   *)
(* travel up the chain: a range costs one slave at most, besides those     *)
(* that die of themselves.                                                 *)
(***************************************************************************)
OneDeathPerRange ==
    Cardinality(Slaves \ alive) <= crashes + (IF pc = "plan" THEN 0 ELSE cur)

Q == INSTANCE Query WITH
        at     <- [r \in DOMAIN query |-> AskedFor(r)],
        status <- CASE pc = "done" -> IF outcome.ok THEN "success" ELSE "failure"
                    [] pc = "segv" -> "down"
                    [] OTHER       -> "asked",
        got    <- IF pc = "done" /\ outcome.ok
                  THEN outcome.reads[Len(query)] ELSE {}

(***************************************************************************)
(* The query ends.  A success is a complete answer to the last range, read *)
(* from files that exist.  It fails only for a slave that is dead or slow  *)
(* or without a file, brings the master down only for a dead coordinator,  *)
(* and takes with it only a slave with a dead one behind it.               *)
(***************************************************************************)
QuerySpec == Q!Spec

(***************************************************************************)
(* master_rq.c:121, "all results found!", and master_rq.c:133, "AND the    *)
(* first 2 vectors together": a query that succeeds has the result of      *)
(* every range.  But all results that came by rq_pipe_1 are the one static *)
(* of its stub, with the answer to the last call.                          *)
(***************************************************************************)
AllResultsFound ==
    pc = "done" /\ outcome.ok =>
        \A r \in DOMAIN query : outcome.reads[r] = DOMAIN AskedFor(r)
=============================================================================
