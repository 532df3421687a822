-------------------------------- MODULE Dbms --------------------------------
(***************************************************************************)
(* The DBMS process (src/dbms/dbms.c), the master process it forks         *)
(* (main of src/master/master.c, its start in Startup.tla), and the System *)
(* V message queue between them (src/ipc/messages.h).                      *)
(*                                                                         *)
(* A DBMS that left early (dbms.c:146, or a vector it could not read)      *)
(* leaves its master running and the queue in place; the next session may  *)
(* find messages in the queue, and share it with this orphan.  Cluster.tla *)
(* shows what the master does in a heartbeat and for a request, here they  *)
(* return, or take the master down.                                        *)
(***************************************************************************)
EXTENDS Startup

CONSTANTS
    Capacity,       \* msg_qbytes: how many messages the queue holds
    NumQueries,     \* FT_NUM_QUERIES
    Tests,          \* what the DBMS sends: sequences of "put" and "range"
    Leftovers       \* what may be in the queue when the session begins

ASSUME DbmsAssumption ==
    /\ Capacity \in Nat \ {0}
    /\ NumQueries \in Nat \ {0}
    /\ Tests \cup Leftovers \subseteq Seq({"put", "range"})
    /\ \A left \in Leftovers : Len(left) <= Capacity

VARIABLES
    test,           \* the messages of this session
    missing,        \* "none", "vector" or "queries": a file of the test's
    debug,          \* DEBUG of the build
    dpc,            \* where the DBMS is
    sent,           \* how many messages it has sent
    exists,         \* the queue has not been removed
    queue,          \* the messages in it, <<kind, number>>
    mpc,            \* mpc[m]: where master m is in its loop
    msg_qnum,       \* msg_qnum[m]: the length that IPC_STAT told
    request,        \* request[m]: the mtype of the message last received
    qnum,
    taken           \* history: the messages received, by either master

KillAt == NumQueries \div 2     \* FT_KILL_Q

Masters == {"master", "orphan"}
Gone == {"none", "ended", "dead"}

queueVars == <<exists, queue, taken>>
sessionVars == <<test, missing, debug>>
vars == <<startupVars, sessionVars, dpc, sent, queueVars, mpc, msg_qnum, request, qnum>>

Kinds == {"put", "range"}
Messages == Kinds \X Nat

TypeOK ==
    /\ StartupTypeOK
    /\ test \in Tests
    /\ missing \in {"none", "vector", "queries"}
    /\ debug \in BOOLEAN
    /\ dpc \in {"fork", "msgget", "send", "wait", "rmid", "closed", "left",
                "crashed", "failed"}
    /\ sent \in 0..Len(test)
    /\ exists \in BOOLEAN
    /\ queue \in Seq(Messages)
    /\ Len(queue) <= Capacity
    /\ mpc \in [Masters -> {"start", "loop", "kill", "beat", "receive", "serve"} \cup Gone]
    /\ msg_qnum \in [Masters -> 0..Capacity]
    /\ request \in [Masters -> Kinds]
    /\ qnum \in [Masters -> 0..NumQueries]
    /\ taken \in Seq(Messages)

\* An orphan has been in its loop for some time.  Leftovers bear the number 0.
Init ==
    /\ StartupInit
    /\ test \in Tests
    /\ missing \in {"none", "vector", "queries"}
    /\ debug \in BOOLEAN
    /\ dpc = "fork"
    /\ sent = 0
    /\ \E left \in Leftovers : queue = [i \in DOMAIN left |-> <<left[i], 0>>]
    /\ \E orphan \in {"none", "loop"} :
          mpc = [m \in Masters |-> IF m = "orphan" THEN orphan ELSE "none"]
    /\ exists = (queue # <<>> \/ mpc["orphan"] # "none")
    /\ msg_qnum = [m \in Masters |-> 0]
    /\ request = [m \in Masters |-> "put"]
    /\ \E n \in 0..(NumQueries - 1) :
          /\ debug \/ n = 0
          /\ qnum = [m \in Masters |-> IF m = "orphan" THEN n ELSE 0]
    /\ taken = <<>>

-----------------------------------------------------------------------------
(* The DBMS *)

fork ==
    /\ dpc = "fork"
    /\ \/ dpc' = "msgget" /\ mpc' = [mpc EXCEPT !["master"] = "start"]
       \/ dpc' = "failed" /\ mpc' = mpc
    /\ UNCHANGED <<startupVars, sessionVars, sent, queueVars, msg_qnum, request, qnum>>

\* IPC_CREAT: whichever process comes first creates the queue.
msgget ==
    /\ dpc = "msgget"
    /\ exists' = TRUE
    /\ dpc' = "send"
    /\ UNCHANGED <<startupVars, sessionVars, sent, queue, mpc, msg_qnum, request, qnum, taken>>

NextMessage == <<test[sent + 1], sent + 1>>

\* Mutant of msgsnd: IPC_NOWAIT, and no look at what it returns.
msgsnd_nowait(msg) ==
    queue' = IF Len(queue) < Capacity THEN Append(queue, msg) ELSE queue

\* The call blocks while the queue is full.
msgsnd(msg) ==
    /\ Len(queue) < Capacity
    /\ queue' = Append(queue, msg)

\* put_vector and range_query
Send ==
    /\ dpc = "send"
    /\ sent < Len(test)
    /\ IF test[sent + 1] = "put" THEN missing # "vector" ELSE missing # "queries"
    /\ msgsnd(NextMessage)
    /\ sent' = sent + 1
    /\ UNCHANGED <<startupVars, sessionVars, dpc, exists, mpc, msg_qnum, request, qnum, taken>>

\* put_vector of the NULL that read_vector returned, or "could not open test
\* file": in neither case is the master reaped or the queue removed.
LeaveEarly ==
    /\ dpc = "send"
    /\ sent < Len(test)
    /\ \/ test[sent + 1] = "put" /\ missing = "vector" /\ dpc' = "crashed"
       \/ test[sent + 1] = "range" /\ missing = "queries" /\ dpc' = "left"
    /\ UNCHANGED <<startupVars, sessionVars, sent, queueVars, mpc, msg_qnum, request, qnum>>

AllSent ==
    /\ dpc = "send"
    /\ sent = Len(test)
    /\ dpc' = "wait"
    /\ UNCHANGED <<startupVars, sessionVars, sent, queueVars, mpc, msg_qnum, request, qnum>>

\* Mutant of Reapable: only a master that returned from main is noticed.
ReapableIfExited == mpc["master"] = "ended"

Reapable == mpc["master"] \in Gone

wait ==
    /\ dpc = "wait"
    /\ Reapable
    /\ dpc' = "rmid"
    /\ UNCHANGED <<startupVars, sessionVars, sent, queueVars, mpc, msg_qnum, request, qnum>>

RemoveQueue ==
    /\ dpc = "rmid"
    /\ exists' = FALSE
    /\ queue' = <<>>
    /\ dpc' = "closed"
    /\ UNCHANGED <<startupVars, sessionVars, sent, mpc, msg_qnum, request, qnum, taken>>

DbmsStep ==
    fork \/ msgget \/ Send \/ LeaveEarly \/ AllSent \/ wait \/ RemoveQueue

-----------------------------------------------------------------------------
(* The loop of master m *)

Goto(m, where) == mpc' = [mpc EXCEPT ![m] = where]

\* Before the loop, the master too calls msgget.
Start ==
    /\ mpc["master"] = "start"
    /\ Starting
    /\ CASE spc' = "up" -> Goto("master", "loop") /\ exists' = TRUE
         [] spc' \in {"exit", "segv"} -> Goto("master", "dead") /\ exists' = exists
         [] OTHER -> UNCHANGED <<mpc, exists>>
    /\ UNCHANGED <<sessionVars, dpc, sent, queue, msg_qnum, request, qnum, taken>>

\* execv fails, and the child exits.
NoMaster ==
    /\ mpc["master"] = "start"
    /\ spc = "read"
    /\ Goto("master", "dead")
    /\ UNCHANGED <<startupVars, sessionVars, dpc, sent, queueVars, msg_qnum, request, qnum>>

\* Mutant of Stat: IPC_STAT is not repeated once it told of a message.
StatOnce(m) == IF msg_qnum[m] > 0 THEN msg_qnum[m] ELSE Len(queue)

\* msgctl(IPC_STAT) leaves buf alone if the queue was removed.
Stat(m) == IF exists THEN Len(queue) ELSE msg_qnum[m]

EnterLoop(m) ==
    /\ mpc[m] = "loop"
    /\ IF qnum[m] < NumQueries
       THEN /\ msg_qnum' = [msg_qnum EXCEPT ![m] = Stat(m)]
            /\ Goto(m, IF qnum[m] = KillAt THEN "kill" ELSE "beat")
       ELSE /\ Goto(m, "ended")
            /\ UNCHANGED msg_qnum
    /\ UNCHANGED <<startupVars, sessionVars, dpc, sent, queueVars, request, qnum>>

\* A slave dies, in every turn of the loop until the next query; rand() % 0
\* if the heartbeats left no slave.
kill_random_slave(m) ==
    /\ mpc[m] = "kill"
    /\ \/ Goto(m, "beat")
       \/ Goto(m, "dead")
    /\ UNCHANGED <<startupVars, sessionVars, dpc, sent, queueVars, msg_qnum, request, qnum>>

\* Mutant of Waiting: off by one.
WaitingForTwo(m) == msg_qnum[m] > 1

Waiting(m) == msg_qnum[m] > 0

heartbeat(m) ==
    /\ mpc[m] = "beat"
    /\ \/ Goto(m, IF Waiting(m) THEN "receive" ELSE "loop")
       \/ Goto(m, "dead")
    /\ UNCHANGED <<startupVars, sessionVars, dpc, sent, queueVars, msg_qnum, request, qnum>>

\* The call blocks while the queue is empty.
msgrcv(m) ==
    /\ mpc[m] = "receive"
    /\ queue # <<>>
    /\ request' = [request EXCEPT ![m] = Head(queue)[1]]
    /\ queue' = Tail(queue)
    /\ taken' = Append(taken, Head(queue))
    /\ Goto(m, "serve")
    /\ UNCHANGED <<startupVars, sessionVars, dpc, sent, exists, msg_qnum, qnum>>

\* The queue was removed: rc < 0, continue.
msgrcv_fails(m) ==
    /\ mpc[m] = "receive"
    /\ ~ exists
    /\ Goto(m, "loop")
    /\ UNCHANGED <<startupVars, sessionVars, dpc, sent, queueVars, msg_qnum, request, qnum>>

\* Mutant of Counted: puts are counted as well.
CountedAll(m) == debug

\* ++qnum is an argument of a printf that only a debugging build has.
Counted(m) == debug /\ request[m] = "range"

\* commit_vector, or starfish, which always returns 0
Serve(m) ==
    /\ mpc[m] = "serve"
    /\ \/ /\ Goto(m, "loop")
          /\ qnum' = IF Counted(m) THEN [qnum EXCEPT ![m] = @ + 1] ELSE qnum
       \/ Goto(m, "dead") /\ qnum' = qnum
    /\ UNCHANGED <<startupVars, sessionVars, dpc, sent, queueVars, msg_qnum, request>>

Loop(m) ==
    \/ EnterLoop(m) \/ kill_random_slave(m) \/ heartbeat(m) \/ msgrcv(m)
    \/ msgrcv_fails(m) \/ Serve(m)

-----------------------------------------------------------------------------
Next == DbmsStep \/ Start \/ NoMaster \/ \E m \in Masters : Loop(m)

(***************************************************************************)
(* All processes run, and a blocked msgsnd or msgrcv goes on when it can.  *)
(* If two masters wait for a message, either may have it.                  *)
(***************************************************************************)
Spec ==
    /\ Init /\ [][Next]_vars
    /\ WF_vars(DbmsStep) /\ WF_vars(Start \/ NoMaster)
    /\ \A m \in Masters : WF_vars(Loop(m))

-----------------------------------------------------------------------------
(***************************************************************************)
(* No message is lost, doubled or overtaken between the DBMS and the       *)
(* masters, though the queue is small and may be shared: what was taken,   *)
(* and after it what is in the queue, is what was left there and after it  *)
(* what was sent, all of it unless the queue was removed.                  *)
(***************************************************************************)
DeliveredInOrder ==
    LET seen == taken \o queue
    IN  \E old \in 0..Len(seen) :
           /\ \A k \in 1..old : seen[k][2] = 0
           /\ \A k \in (old + 1)..Len(seen) : seen[k] = <<test[k - old], k - old>>
           /\ Len(seen) - old <= sent
           /\ exists => Len(seen) - old = sent

(***************************************************************************)
(* The length of the queue is read before the heartbeat and trusted after  *)
(* it: the master never blocks in msgrcv, where it would look after no     *)
(* slave, unless an orphan of an earlier session shares the queue.         *)
(***************************************************************************)
CountIsTrue ==
    mpc["master"] = "receive" /\ queue = <<>> => mpc["orphan"] # "none"

(***************************************************************************)
(* The master leaves its loop only in a debugging build, and then when it  *)
(* has served exactly FT_NUM_QUERIES range queries, whatever puts came in  *)
(* between; as the code is built, only a crash ends it.                    *)
(***************************************************************************)
StopsAfterItsQueries ==
    mpc["master"] = "ended" /\ mpc["orphan"] = "none" =>
        /\ debug
        /\ Cardinality({k \in DOMAIN taken : taken[k][1] = "range"}) = NumQueries

NoMasterLeft == \A m \in Masters : mpc[m] \in Gone

(***************************************************************************)
(* What the DBMS sends is taken, if a master is left to take it: the queue *)
(* being full, a heartbeat between any two messages and an orphan that     *)
(* takes some do not keep a message in the queue for ever.                 *)
(***************************************************************************)
SentIsTaken ==
    \A n \in 1..Max({Len(t) : t \in Tests}) :
        (sent >= n) ~> (\/ \E i \in DOMAIN taken : taken[i][2] = n
                        \/ NoMasterLeft
                        \/ ~ exists)

(***************************************************************************)
(* When its master is gone the DBMS removes the queue and ends, or has     *)
(* left before, or hangs in msgsnd: the queue is full and nobody empties   *)
(* it.                                                                     *)
(***************************************************************************)
DbmsReaps ==
    (dpc # "fork" /\ mpc["master"] \in Gone)
        ~> \/ dpc \in {"closed", "left", "crashed", "failed"}
           \/ dpc = "send" /\ Len(queue) = Capacity /\ NoMasterLeft
=============================================================================
