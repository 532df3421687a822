---------------------------- MODULE DbmsProofs -----------------------------
(***************************************************************************)
(* The DBMS, its master and the queue between them, for any queue, any     *)
(* tests and leftovers and any file of slaves: the types, and the four     *)
(* invariants of the run of Dbms.                                          *)
(***************************************************************************)
EXTENDS Dbms, FiniteSetTheorems, SequenceTheorems, TLAPS

-----------------------------------------------------------------------------
(* The inductive invariant *)

\* What was set up so far bears the ids that were given so far, and id and
\* address of a slave are those of one line of the file.
Numbered ==
    /\ spc = "read" =>
          /\ slave_addresses = <<>>
          /\ slavelist = <<>>
    /\ spc \in {"setup", "up"} =>
          /\ file # NoFile
          /\ slave_addresses = fill_slave_arr(file)
          /\ \A k \in DOMAIN slavelist :
                /\ slavelist[k][1] < slave_id_counter
                /\ slavelist[k][2] = slave_addresses[slavelist[k][1] + 1]
                /\ slave_id[slavelist[k][2]] = slavelist[k][1]
                /\ table[slavelist[k][2]] = slave_addresses

InLoop == {"loop", "kill", "beat", "receive", "serve"}

\* The DBMS removes the queue when its master is gone, and not before.
Ordered ==
    /\ dpc \in {"fork", "failed"} => mpc["master"] = "none"
    /\ dpc \in {"fork", "msgget", "failed"} => sent = 0
    /\ dpc \in {"rmid", "closed"} => mpc["master"] \in Gone
    /\ dpc \in {"send", "wait", "rmid", "left", "crashed"} => exists
    /\ mpc["master"] \in InLoop => exists
    /\ ~ exists => queue = <<>>

\* What IPC_STAT told is still in the queue while no other master is there to
\* take it.
Trusted ==
    mpc["orphan"] = "none" =>
        /\ mpc["master"] \in {"kill", "beat", "receive"} =>
              msg_qnum["master"] <= Len(queue)
        /\ mpc["master"] = "receive" => msg_qnum["master"] > 0

RangesTaken == {k \in DOMAIN taken : taken[k][1] = "range"}

ServesRange == mpc["master"] = "serve" /\ request["master"] = "range"

\* A master in its loop has queries left; a debugging one has counted those
\* that were taken, but for the one it serves.
Tallied ==
    /\ \A m \in Masters :
          /\ mpc[m] \in InLoop \ {"loop"} => qnum[m] < NumQueries
          /\ mpc[m] = "ended" => qnum[m] = NumQueries
          /\ ~ debug => qnum[m] = 0
    /\ debug /\ mpc["orphan"] = "none" /\ mpc["master"] # "dead" =>
          Cardinality(RangesTaken) = qnum["master"] + (IF ServesRange THEN 1 ELSE 0)

IInv ==
    /\ TypeOK
    /\ Numbered
    /\ Ordered
    /\ DeliveredInOrder
    /\ Trusted
    /\ Tallied

-----------------------------------------------------------------------------
(* The start of the master *)

\* What StartupAssumption says of a file that exists.
LEMMA FileOK ==
    ASSUME NEW lines \in Files, lines # NoFile
    PROVE  /\ fill_slave_arr(lines) \in Seq(Addresses)
           /\ \A i, j \in DOMAIN fill_slave_arr(lines) :
                 fill_slave_arr(lines)[i] = fill_slave_arr(lines)[j] => i = j
BY StartupAssumption

LEMMA StartupInitOK == StartupInit => StartupTypeOK /\ Numbered
<1> SUFFICES ASSUME StartupInit PROVE StartupTypeOK /\ Numbered
    OBVIOUS
<1>1. /\ slave_addresses \in Seq(Addresses)
      /\ slavelist \in Seq((0..(num_slaves - 1)) \X Addresses)
      /\ slave_id \in [Addresses -> -1..(num_slaves - 1)]
      /\ table \in [Addresses -> Seq(Addresses)]
    <2>1. \A S : <<>> \in Seq(S)
        OBVIOUS
    <2>2. -1 \in -1..(num_slaves - 1)
        BY DEF StartupInit
    <2> QED
        BY <2>1, <2>2 DEF StartupInit
<1>2. StartupTypeOK
    <2>1. /\ file \in Files
          /\ spc = "read"
          /\ slave_id_counter = 0
          /\ slave_addresses = <<>>
          /\ num_slaves = 0
          /\ replication_factor = 2
          /\ filled = FALSE
        BY DEF StartupInit
    <2>2. filled \in BOOLEAN
        BY <2>1, Zenon
    <2>3. /\ spc \in {"read", "setup", "up", "exit", "segv"}
          /\ slave_id_counter \in 0..Len(slave_addresses)
          /\ num_slaves = Len(slave_addresses)
          /\ replication_factor \in {1, 2}
        BY <2>1
    <2> QED
        BY <1>1, <2>1, <2>2, <2>3, Zenon DEF StartupTypeOK
<1>3. Numbered
    BY DEF StartupInit, Numbered
<1> QED
    BY <1>2, <1>3

LEMMA StartupUnchanged ==
    StartupTypeOK /\ Numbered /\ UNCHANGED startupVars => StartupTypeOK' /\ Numbered'
<1> SUFFICES ASSUME StartupTypeOK, Numbered, UNCHANGED startupVars
             PROVE  StartupTypeOK' /\ Numbered'
    OBVIOUS
<1>1. StartupTypeOK'
    BY DEF StartupTypeOK, startupVars
<1>2. Numbered'
    BY DEF Numbered, startupVars
<1> QED
    BY <1>1, <1>2

LEMMA StartupStep ==
    StartupTypeOK /\ Numbered /\ Starting => StartupTypeOK' /\ Numbered'
<1> SUFFICES ASSUME StartupTypeOK, Numbered, Starting
             PROVE  StartupTypeOK' /\ Numbered'
    OBVIOUS
<1>1. CASE ReadSlavelist
    <2>1. CASE file = NoFile
        BY <1>1, <2>1 DEF ReadSlavelist, StartupTypeOK, Numbered
    <2>2. CASE file # NoFile
        <3>1. fill_slave_arr(file) \in Seq(Addresses)
            BY <2>2, FileOK DEF StartupTypeOK
        <3>2. /\ spc = "read" /\ spc' = "setup"
              /\ file' = file
              /\ slave_addresses' = fill_slave_arr(file)
              /\ num_slaves' = Len(fill_slave_arr(file))
              /\ replication_factor' \in {1, 2}
              /\ UNCHANGED <<slave_id_counter, slavelist, filled, slave_id, table>>
            BY <1>1, <2>2 DEF ReadSlavelist, StartupTypeOK
        <3>3. slavelist = <<>> /\ slave_id_counter = 0 /\ num_slaves = 0
            BY <3>2 DEF Numbered, StartupTypeOK
        <3>4. StartupTypeOK'
            BY <3>1, <3>2, <3>3 DEF StartupTypeOK
        <3>5. Numbered'
            BY <3>2, <3>3, <2>2 DEF Numbered
        <3> QED
            BY <3>4, <3>5
    <2> QED
        BY <2>1, <2>2
<1>2. CASE NotSetUp \/ SetUp \/ NoReply
    <2>1. /\ spc = "setup" /\ slave_id_counter < num_slaves
          /\ UNCHANGED <<file, slave_addresses, num_slaves, replication_factor>>
          /\ file # NoFile
          /\ slave_addresses = fill_slave_arr(file)
          /\ file \in Files
          /\ slave_addresses \in Seq(Addresses)
          /\ num_slaves = Len(slave_addresses)
          /\ slave_id_counter \in Nat
        BY <1>2 DEF NotSetUp, SetUp, NoReply, Numbered, StartupTypeOK
    <2>2. /\ \A i, j \in 1..Len(slave_addresses) :
                slave_addresses[i] = slave_addresses[j] => i = j
          /\ Address \in Addresses
          /\ slave_id_counter + 1 \in 1..Len(slave_addresses)
        BY <2>1, FileOK DEF Address
    <2>3. slave_id' = slave_id \/ slave_id' = [slave_id EXCEPT ![Address] = slave_id_counter]
        BY <1>2 DEF NotSetUp, SetUp, NoReply, TakesId, NewId
    <2>4. slave_id' \in [Addresses -> -1..(num_slaves' - 1)]
        <3>1. slave_id \in [Addresses -> -1..(num_slaves - 1)]
            BY DEF StartupTypeOK
        <3>2. slave_id_counter \in -1..(num_slaves' - 1) /\ num_slaves' = num_slaves
            BY <2>1
        <3> QED
            BY <2>2, <2>3, <3>1, <3>2
    <2>5. \A k \in DOMAIN slavelist :
             /\ slavelist[k][2] # Address
             /\ slavelist[k][1] < slave_id_counter
             /\ slavelist[k][2] = slave_addresses[slavelist[k][1] + 1]
             /\ slave_id'[slavelist[k][2]] = slavelist[k][1]
             /\ table[slavelist[k][2]] = slave_addresses
        <3> TAKE k \in DOMAIN slavelist
        <3>1. slavelist[k][1] \in Nat /\ slavelist[k][2] \in Addresses
            BY SMTT(30), <2>1 DEF StartupTypeOK
        <3>2. /\ slavelist[k][1] < slave_id_counter
              /\ slavelist[k][2] = slave_addresses[slavelist[k][1] + 1]
              /\ slave_id[slavelist[k][2]] = slavelist[k][1]
              /\ table[slavelist[k][2]] = slave_addresses
            BY <2>1 DEF Numbered
        <3>3. slavelist[k][2] # Address
            BY <2>1, <2>2, <3>1, <3>2 DEF Address
        <3> QED
            BY <2>2, <2>3, <3>1, <3>2, <3>3 DEF StartupTypeOK
    <2>6. CASE NotSetUp \/ NoReply
        <3>1. /\ slavelist' = slavelist /\ table' = table /\ filled' = filled
              /\ spc' \in {"setup", "segv"}
              /\ slave_id_counter' \in {slave_id_counter, slave_id_counter + 1}
            BY <2>6, <2>1 DEF NotSetUp, NoReply
        <3>2. StartupTypeOK'
            BY <2>1, <2>4, <3>1 DEF StartupTypeOK
        <3>3. Numbered'
            <4>1. \A k \in DOMAIN slavelist : slavelist[k][1] \in Nat
                BY <2>1 DEF StartupTypeOK
            <4> QED
                BY <2>1, <2>5, <3>1, <4>1 DEF Numbered
        <3> QED
            BY <3>2, <3>3
    <2>7. CASE SetUp
        <3>1. /\ slavelist' = Append(slavelist, <<slave_id_counter, Address>>)
              /\ table' = [table EXCEPT ![Address] = slave_addresses]
              /\ slave_id' = [slave_id EXCEPT ![Address] = slave_id_counter]
              /\ filled' \in BOOLEAN
              /\ slave_id_counter' = slave_id_counter + 1
              /\ spc' = "setup"
            BY <2>7, <2>1 DEF SetUp, TakesId, NewId
        <3>2. StartupTypeOK'
            BY <2>1, <2>2, <2>4, <3>1 DEF StartupTypeOK
        <3>3. Numbered'
            <4>1. \A k \in DOMAIN slavelist' :
                     /\ slavelist'[k][1] < slave_id_counter'
                     /\ slavelist'[k][2] = slave_addresses[slavelist'[k][1] + 1]
                     /\ slave_id'[slavelist'[k][2]] = slavelist'[k][1]
                     /\ table'[slavelist'[k][2]] = slave_addresses
                <5> TAKE k \in DOMAIN slavelist'
                <5>1. CASE k \in DOMAIN slavelist
                    <6>1. slavelist \in Seq((0..(num_slaves - 1)) \X Addresses)
                        BY DEF StartupTypeOK
                    <6>2. slavelist'[k] = slavelist[k]
                        BY <5>1, <3>1, <6>1
                    <6>3. slavelist[k][1] \in Nat /\ slavelist[k][2] \in Addresses
                        BY <5>1, <2>1, <6>1
                    <6>4. table'[slavelist[k][2]] = slave_addresses
                        BY <5>1, <2>5, <3>1, <6>3 DEF StartupTypeOK
                    <6>5. slavelist[k][1] < slave_id_counter + 1
                        BY <5>1, <2>1, <2>5, <6>3
                    <6> QED
                        BY <5>1, <6>2, <6>4, <6>5, <2>5, <3>1
                <5>2. CASE k \notin DOMAIN slavelist
                    <6>1. slavelist'[k] = <<slave_id_counter, Address>>
                        BY <5>2, <3>1 DEF StartupTypeOK
                    <6> QED
                        BY <6>1, <2>1, <2>2, <3>1 DEF StartupTypeOK, Address
                <5> QED
                    BY <5>1, <5>2
            <4> QED
                BY <4>1, <2>1, <3>1 DEF Numbered
        <3> QED
            BY <3>2, <3>3
    <2> QED
        BY <1>2, <2>6, <2>7
<1>3. CASE FillRing
    BY <1>3 DEF FillRing, StartupTypeOK, Numbered
<1> QED
    BY <1>1, <1>2, <1>3 DEF Starting

-----------------------------------------------------------------------------
(* The types *)

SessionTypeOK ==
    /\ test \in Tests
    /\ missing \in {"none", "vector", "queries"}
    /\ debug \in BOOLEAN

QueueTypeOK ==
    /\ exists \in BOOLEAN
    /\ queue \in Seq(Messages)
    /\ Len(queue) <= Capacity
    /\ taken \in Seq(Messages)

MasterTypeOK ==
    /\ mpc \in [Masters -> {"start", "loop", "kill", "beat", "receive", "serve"} \cup Gone]
    /\ msg_qnum \in [Masters -> 0..Capacity]
    /\ request \in [Masters -> Kinds]
    /\ qnum \in [Masters -> 0..NumQueries]

DbmsTypeOK ==
    /\ dpc \in {"fork", "msgget", "send", "wait", "rmid", "closed", "left",
                "crashed", "failed"}
    /\ sent \in 0..Len(test)

LEMMA TypeParts ==
    TypeOK <=> StartupTypeOK /\ SessionTypeOK /\ QueueTypeOK /\ MasterTypeOK /\ DbmsTypeOK
BY Zenon DEF TypeOK, SessionTypeOK, QueueTypeOK, MasterTypeOK, DbmsTypeOK

LEMMA Constants ==
    /\ Capacity \in Nat /\ Capacity > 0
    /\ NumQueries \in Nat /\ NumQueries > 0
    /\ \A t \in Tests \cup Leftovers : t \in Seq(Kinds)
    /\ \A left \in Leftovers : Len(left) <= Capacity
BY DbmsAssumption DEF Kinds

LEMMA TypesInit == Init => TypeOK
<1> SUFFICES ASSUME Init PROVE TypeOK
    OBVIOUS
<1>1. StartupTypeOK
    BY StartupInitOK DEF Init
<1>2. SessionTypeOK
    BY Zenon DEF Init, SessionTypeOK
<1>3. QueueTypeOK
    <2>1. PICK left \in Leftovers : queue = [k \in DOMAIN left |-> <<left[k], 0>>]
        BY DEF Init
    <2>2. left \in Seq(Kinds) /\ Len(left) <= Capacity
        BY Constants
    <2>3. queue \in Seq(Messages) /\ Len(queue) = Len(left)
        BY <2>1, <2>2 DEF Messages
    <2>4. exists \in BOOLEAN
        BY Zenon DEF Init
    <2>5. taken \in Seq(Messages)
        BY DEF Init
    <2> QED
        BY <2>2, <2>3, <2>4, <2>5, Constants DEF QueueTypeOK
<1>4. MasterTypeOK
    <2>1. PICK orphan \in {"none", "loop"} :
             mpc = [m \in Masters |-> IF m = "orphan" THEN orphan ELSE "none"]
        BY DEF Init
    <2>2. PICK n \in 0..(NumQueries - 1) :
             qnum = [m \in Masters |-> IF m = "orphan" THEN n ELSE 0]
        BY Zenon DEF Init
    <2>3. mpc \in [Masters -> {"start", "loop", "kill", "beat", "receive", "serve"} \cup Gone]
        BY <2>1 DEF Gone
    <2>4. qnum \in [Masters -> 0..NumQueries]
        BY <2>2, Constants
    <2>5. msg_qnum \in [Masters -> 0..Capacity] /\ request \in [Masters -> Kinds]
        BY Constants DEF Init, Kinds
    <2> QED
        BY <2>3, <2>4, <2>5 DEF MasterTypeOK
<1>5. DbmsTypeOK
    <2>1. test \in Seq(Kinds)
        BY <1>2, Constants DEF SessionTypeOK
    <2> QED
        BY <2>1 DEF Init, DbmsTypeOK
<1> QED
    BY <1>1, <1>2, <1>3, <1>4, <1>5, TypeParts

LEMMA TypesStep == TypeOK /\ Numbered /\ Tallied /\ [Next]_vars => TypeOK'
<1> SUFFICES ASSUME TypeOK, Numbered, Tallied, [Next]_vars
             PROVE  TypeOK'
    OBVIOUS
<1>t. StartupTypeOK /\ SessionTypeOK /\ QueueTypeOK /\ MasterTypeOK /\ DbmsTypeOK
    BY TypeParts
<1>1. StartupTypeOK'
    <2>1. CASE Start
        BY <2>1, <1>t, StartupStep DEF Start
    <2>2. CASE UNCHANGED startupVars
        BY <2>2, <1>t, StartupUnchanged
    <2> QED
        BY <2>1, <2>2 DEF Next, DbmsStep, fork, msgget, Send, LeaveEarly, AllSent, wait,
            RemoveQueue, NoMaster, Loop, EnterLoop, kill_random_slave, heartbeat, msgrcv,
            msgrcv_fails, Serve, vars
<1>2. SessionTypeOK'
    <2>1. UNCHANGED sessionVars
        BY DEF Next, DbmsStep, fork, msgget, Send, LeaveEarly, AllSent, wait, RemoveQueue,
            Start, NoMaster, Loop, EnterLoop, kill_random_slave, heartbeat, msgrcv,
            msgrcv_fails, Serve, vars
    <2> QED
        BY <2>1, <1>t, Zenon DEF SessionTypeOK, sessionVars
<1>3. test \in Seq(Kinds) /\ test' = test
    <2>1. UNCHANGED sessionVars
        BY DEF Next, DbmsStep, fork, msgget, Send, LeaveEarly, AllSent, wait, RemoveQueue,
            Start, NoMaster, Loop, EnterLoop, kill_random_slave, heartbeat, msgrcv,
            msgrcv_fails, Serve, vars
    <2> QED
        BY <2>1, <1>t, Constants DEF SessionTypeOK, sessionVars
<1>4. QueueTypeOK'
    <2>1. CASE Send
        <3>1. NextMessage \in Messages
            BY <2>1, <1>3, <1>t DEF Send, NextMessage, Messages, DbmsTypeOK
        <3>2. queue' \in Seq(Messages) /\ Len(queue') <= Capacity
            BY <2>1, <3>1, <1>t, Constants DEF Send, msgsnd, QueueTypeOK
        <3> QED
            BY <2>1, <3>2, <1>t DEF Send, QueueTypeOK
    <2>2. ASSUME NEW m \in Masters, msgrcv(m) PROVE QueueTypeOK'
        <3>1. /\ queue \in Seq(Messages) /\ queue # <<>>
              /\ taken \in Seq(Messages)
              /\ queue' = Tail(queue)
              /\ taken' = Append(taken, Head(queue))
              /\ exists' = exists
            BY <2>2, <1>t DEF msgrcv, QueueTypeOK
        <3>2. /\ queue' \in Seq(Messages) /\ Len(queue') = Len(queue) - 1
              /\ taken' \in Seq(Messages)
            BY <3>1
        <3> QED
            BY <3>1, <3>2, <1>t, Constants DEF QueueTypeOK
    <2>3. CASE RemoveQueue
        <3>1. queue' = <<>> /\ taken' = taken /\ exists' \in BOOLEAN
            BY <2>3 DEF RemoveQueue
        <3> QED
            BY <3>1, <1>t, Constants DEF QueueTypeOK
    <2>4. CASE UNCHANGED <<queue, taken>> /\ exists' \in {exists, TRUE}
        BY <2>4, <1>t DEF QueueTypeOK
    <2>5. CASE Start
        <3>1. UNCHANGED <<queue, taken>> /\ exists' \in {exists, TRUE}
            BY <2>5 DEF Start
        <3> QED
            BY <3>1, <2>4
    <2> QED
        BY <2>1, <2>2, <2>3, <2>4, <2>5 DEF Next, DbmsStep, fork, msgget, LeaveEarly, AllSent,
            wait, NoMaster, Loop, EnterLoop, kill_random_slave, heartbeat, msgrcv_fails,
            Serve, vars, queueVars
<1>5. MasterTypeOK'
    <2> USE <1>t, Constants
    <2>1. CASE DbmsStep \/ UNCHANGED vars
        BY <2>1 DEF DbmsStep, fork, msgget, Send, LeaveEarly, AllSent, wait, RemoveQueue, vars,
            MasterTypeOK, Masters
    <2>2. CASE Start \/ NoMaster
        <3>1. UNCHANGED <<msg_qnum, request, qnum>>
            BY <2>2 DEF Start, NoMaster
        <3>2. mpc' = mpc \/ \E w \in {"loop", "dead"} : mpc' = [mpc EXCEPT !["master"] = w]
            BY <2>2 DEF Start, NoMaster, Goto
        <3> QED
            BY <3>1, <3>2 DEF MasterTypeOK, Masters, Gone
    <2>3. ASSUME NEW m \in Masters, Loop(m) PROVE MasterTypeOK'
        <3>1. CASE EnterLoop(m)
            <4>1. Stat(m) \in 0..Capacity
                BY DEF Stat, QueueTypeOK, MasterTypeOK
            <4>2. \E w \in {"kill", "beat", "ended"} : mpc' = [mpc EXCEPT ![m] = w]
                BY <3>1 DEF EnterLoop, Goto
            <4>3. msg_qnum' \in {msg_qnum, [msg_qnum EXCEPT ![m] = Stat(m)]}
                BY <3>1 DEF EnterLoop
            <4> QED
                BY <3>1, <4>1, <4>2, <4>3 DEF EnterLoop, MasterTypeOK, Gone
        <3>2. CASE kill_random_slave(m) \/ heartbeat(m) \/ msgrcv_fails(m)
            <4>1. \E w \in {"beat", "dead", "receive", "loop"} : mpc' = [mpc EXCEPT ![m] = w]
                BY <3>2 DEF kill_random_slave, heartbeat, msgrcv_fails, Goto
            <4> QED
                BY <3>2, <4>1 DEF kill_random_slave, heartbeat, msgrcv_fails, MasterTypeOK, Gone
        <3>3. CASE msgrcv(m)
            <4>1. Head(queue)[1] \in Kinds
                BY <3>3 DEF msgrcv, QueueTypeOK, Messages
            <4> QED
                BY <3>3, <4>1 DEF msgrcv, Goto, MasterTypeOK
        <3>4. CASE Serve(m)
            <4>1. qnum[m] < NumQueries
                BY <3>4 DEF Serve, Tallied, InLoop
            <4>2. qnum' \in {qnum, [qnum EXCEPT ![m] = qnum[m] + 1]}
                BY <3>4 DEF Serve
            <4>3. \E w \in {"loop", "dead"} : mpc' = [mpc EXCEPT ![m] = w]
                BY <3>4 DEF Serve, Goto
            <4>4. qnum' \in [Masters -> 0..NumQueries]
                BY <4>1, <4>2 DEF MasterTypeOK
            <4> QED
                BY <3>4, <4>3, <4>4 DEF Serve, MasterTypeOK, Gone
        <3> QED
            BY <2>3, <3>1, <3>2, <3>3, <3>4 DEF Loop
    <2> QED
        BY <2>1, <2>2, <2>3 DEF Next
<1>6. DbmsTypeOK'
    <2>1. CASE DbmsStep
        BY <2>1, <1>3, <1>t DEF DbmsStep, fork, msgget, Send, LeaveEarly, AllSent, wait,
            RemoveQueue, DbmsTypeOK
    <2>2. CASE UNCHANGED <<dpc, sent>>
        BY <2>2, <1>3, <1>t DEF DbmsTypeOK
    <2> QED
        BY <2>1, <2>2 DEF Next, Start, NoMaster, Loop, EnterLoop, kill_random_slave, heartbeat,
            msgrcv, msgrcv_fails, Serve, vars
<1> QED
    BY <1>1, <1>2, <1>4, <1>5, <1>6, Zenon
    DEF TypeOK, SessionTypeOK, QueueTypeOK, MasterTypeOK, DbmsTypeOK

-----------------------------------------------------------------------------
(* The queue while the master runs *)

LEMMA OrderedInit == Init => Ordered
<1> SUFFICES ASSUME Init PROVE Ordered
    OBVIOUS
<1>1. mpc["master"] = "none"
    BY DEF Init, Masters
<1>2. ~ exists => queue = <<>>
    BY DEF Init
<1> QED
    BY <1>1, <1>2 DEF Init, Ordered, InLoop

LEMMA OrderedStep == TypeOK /\ Ordered /\ [Next]_vars => Ordered'
<1> SUFFICES ASSUME TypeOK, Ordered, [Next]_vars
             PROVE  Ordered'
    OBVIOUS
<1>t. mpc \in [Masters -> {"start", "loop", "kill", "beat", "receive", "serve"} \cup Gone]
    BY DEF TypeOK
<1>1. CASE fork
    BY <1>1, <1>t DEF fork, Ordered, InLoop, queueVars, Masters
<1>2. CASE msgget
    BY <1>2 DEF msgget, Ordered
<1>3. CASE Send \/ LeaveEarly \/ AllSent \/ wait
    BY <1>3 DEF Send, LeaveEarly, AllSent, wait, Reapable, Ordered, queueVars
<1>4. CASE RemoveQueue
    BY <1>4 DEF RemoveQueue, Ordered, InLoop, Gone
<1>5. CASE Start
    <2>1. /\ mpc["master"] = "start"
          /\ UNCHANGED <<dpc, sent, queue>>
          /\ \/ mpc' = [mpc EXCEPT !["master"] = "loop"] /\ exists' = TRUE
             \/ mpc' = [mpc EXCEPT !["master"] = "dead"] /\ exists' = exists
             \/ mpc' = mpc /\ exists' = exists
        BY <1>5 DEF Start, Goto
    <2> QED
        BY <2>1, <1>t DEF Ordered, InLoop, Gone, Masters
<1>6. CASE NoMaster
    BY <1>6, <1>t DEF NoMaster, Goto, Ordered, InLoop, Gone, queueVars, Masters
<1>7. ASSUME NEW m \in Masters, Loop(m) PROVE Ordered'
    <2>1. /\ UNCHANGED <<dpc, sent, exists>>
          /\ mpc[m] \in InLoop
          /\ \E w \in InLoop \cup {"ended", "dead"} : mpc' = [mpc EXCEPT ![m] = w]
          /\ queue = <<>> => queue' = <<>>
        BY <1>7 DEF Loop, EnterLoop, kill_random_slave, heartbeat, msgrcv, msgrcv_fails, Serve,
            Goto, InLoop, queueVars
    <2> QED
        BY <2>1, <1>t DEF Ordered, InLoop, Gone, Masters
<1>8. CASE UNCHANGED vars
    BY <1>8 DEF vars, queueVars, Ordered
<1> QED
    BY <1>1, <1>2, <1>3, <1>4, <1>5, <1>6, <1>7, <1>8 DEF Next, DbmsStep

LEMMA TrustedInit == Init => Trusted
<1> SUFFICES ASSUME Init PROVE Trusted
    OBVIOUS
<1>1. mpc["master"] = "none"
    BY DEF Init, Masters
<1> QED
    BY <1>1 DEF Trusted

\* The queue grows while the master is in its heartbeat; what takes from it
\* is the master, or comes when it is gone.
LEMMA TrustedStep == TypeOK /\ Ordered /\ Trusted /\ [Next]_vars => Trusted'
<1> SUFFICES ASSUME TypeOK, Ordered, Trusted, [Next]_vars, mpc'["orphan"] = "none"
             PROVE  /\ mpc'["master"] \in {"kill", "beat", "receive"} =>
                          msg_qnum'["master"] <= Len(queue')
                    /\ mpc'["master"] = "receive" => msg_qnum'["master"] > 0
    BY DEF Trusted
<1>t. /\ mpc \in [Masters -> {"start", "loop", "kill", "beat", "receive", "serve"} \cup Gone]
      /\ msg_qnum \in [Masters -> 0..Capacity]
      /\ queue \in Seq(Messages)
    BY DEF TypeOK
<1>c. Capacity \in Nat
    BY Constants
<1>1. CASE DbmsStep
    <2>1. /\ msg_qnum' = msg_qnum
          /\ \/ mpc' = mpc
             \/ mpc' = [mpc EXCEPT !["master"] = "start"]
          /\ \/ queue' = queue
             \/ queue' = Append(queue, NextMessage)
             \/ mpc["master"] \in Gone
        BY <1>1 DEF DbmsStep, fork, msgget, Send, msgsnd, LeaveEarly, AllSent, wait,
            RemoveQueue, queueVars, Ordered
    <2> QED
        BY <2>1, <1>t, <1>c DEF Trusted, Masters, Gone
<1>2. CASE Start \/ NoMaster
    <2>1. /\ UNCHANGED <<msg_qnum, queue>>
          /\ \/ mpc' = mpc
             \/ \E w \in {"loop", "dead"} : mpc' = [mpc EXCEPT !["master"] = w]
        BY <1>2 DEF Start, NoMaster, Goto, queueVars
    <2> QED
        BY <2>1, <1>t DEF Trusted, Masters
<1>3. ASSUME NEW m \in Masters, Loop(m)
      PROVE  /\ mpc'["master"] \in {"kill", "beat", "receive"} =>
                   msg_qnum'["master"] <= Len(queue')
             /\ mpc'["master"] = "receive" => msg_qnum'["master"] > 0
    <2>1. /\ mpc[m] \in InLoop
          /\ \E w \in InLoop \cup {"ended", "dead"} : mpc' = [mpc EXCEPT ![m] = w]
        BY <1>3 DEF Loop, EnterLoop, kill_random_slave, heartbeat, msgrcv, msgrcv_fails, Serve,
            Goto, InLoop
    <2>2. m = "master" /\ mpc["orphan"] = "none"
        BY <2>1, <1>t DEF Masters, InLoop
    <2>3. exists
        BY <2>1, <2>2 DEF Ordered
    <2>4. CASE EnterLoop(m)
        <3>1. mpc' \in {[mpc EXCEPT ![m] = "kill"], [mpc EXCEPT ![m] = "beat"],
                        [mpc EXCEPT ![m] = "ended"]}
            BY <2>4 DEF EnterLoop, Goto
        <3>2. mpc'["master"] # "ended" => msg_qnum' = [msg_qnum EXCEPT ![m] = Len(queue)]
            BY <2>2, <2>3, <2>4, <1>t DEF EnterLoop, Goto, Stat
        <3>3. queue' = queue
            BY <2>4 DEF EnterLoop, queueVars
        <3> QED
            BY <3>1, <3>2, <3>3, <2>2, <1>t
    <2>5. CASE kill_random_slave(m)
        BY <2>2, <2>5, <1>t DEF kill_random_slave, Goto, queueVars, Trusted
    <2>6. CASE heartbeat(m)
        <3>1. /\ mpc[m] = "beat"
              /\ UNCHANGED <<queue, msg_qnum>>
              /\ \/ Waiting(m) /\ mpc' = [mpc EXCEPT ![m] = "receive"]
                 \/ mpc' = [mpc EXCEPT ![m] = "loop"]
                 \/ mpc' = [mpc EXCEPT ![m] = "dead"]
            BY <2>6 DEF heartbeat, Goto, queueVars
        <3> QED
            BY <2>2, <3>1, <1>t DEF Trusted, Waiting
    <2>7. CASE msgrcv(m) \/ msgrcv_fails(m) \/ Serve(m)
        <3>1. \E w \in {"serve", "loop", "dead"} : mpc' = [mpc EXCEPT ![m] = w]
            BY <2>7 DEF msgrcv, msgrcv_fails, Serve, Goto
        <3> QED
            BY <2>2, <3>1, <1>t
    <2> QED
        BY <1>3, <2>4, <2>5, <2>6, <2>7 DEF Loop
<1>4. CASE UNCHANGED vars
    BY <1>4 DEF vars, queueVars, Trusted
<1> QED
    BY <1>1, <1>2, <1>3, <1>4 DEF Next

-----------------------------------------------------------------------------
(* The queries a master counts *)

\* One message more is one range more, or none.
LEMMA OneMoreRange ==
    ASSUME NEW t \in Seq(Messages), NEW msg \in Messages
    PROVE  Cardinality({k \in DOMAIN Append(t, msg) : Append(t, msg)[k][1] = "range"})
             = Cardinality({k \in DOMAIN t : t[k][1] = "range"})
                 + (IF msg[1] = "range" THEN 1 ELSE 0)
<1> DEFINE R == {k \in DOMAIN t : t[k][1] = "range"}
           Q == {k \in DOMAIN Append(t, msg) : Append(t, msg)[k][1] = "range"}
<1>1. /\ Len(t) \in Nat
      /\ DOMAIN t = 1..Len(t)
      /\ DOMAIN Append(t, msg) = 1..(Len(t) + 1)
      /\ \A k \in 1..Len(t) : Append(t, msg)[k] = t[k]
      /\ Append(t, msg)[Len(t) + 1] = msg
    OBVIOUS
<1>2. IsFiniteSet(R)
    <2>1. R \subseteq 1..Len(t)
        BY <1>1
    <2>2. IsFiniteSet(1..Len(t))
        BY <1>1, FS_Interval
    <2> QED
        BY <2>1, <2>2, FS_Subset
<1>3. CASE msg[1] = "range"
    <2>1. Q = R \cup {Len(t) + 1}
        BY <1>1, <1>3
    <2>2. Len(t) + 1 \notin R
        BY <1>1
    <2>3. Cardinality(Q) = Cardinality(R) + 1
        BY <1>2, <2>1, <2>2, FS_AddElement
    <2> QED
        BY <1>3, <2>3
<1>4. CASE msg[1] # "range"
    <2>1. Q = R
        BY <1>1, <1>4
    <2>2. Cardinality(R) \in Nat
        BY <1>2, FS_CardinalityType
    <2>3. Cardinality(Q) = Cardinality(R) + 0
        <3> HIDE DEF R, Q
        <3> QED
            BY <2>1, <2>2
    <2> QED
        BY <1>4, <2>3
<1> QED
    BY <1>3, <1>4

LEMMA TalliedInit == Init => Tallied
<1> SUFFICES ASSUME Init PROVE Tallied
    OBVIOUS
<1>1. PICK n \in 0..(NumQueries - 1) :
         /\ debug \/ n = 0
         /\ qnum = [m \in Masters |-> IF m = "orphan" THEN n ELSE 0]
    BY Zenon DEF Init
<1>2. PICK orphan \in {"none", "loop"} :
         mpc = [m \in Masters |-> IF m = "orphan" THEN orphan ELSE "none"]
    BY DEF Init
<1>3. RangesTaken = {}
    BY DEF Init, RangesTaken
<1>4. Cardinality(RangesTaken) = 0
    BY <1>3, FS_EmptySet
<1>5. \A m \in Masters :
         /\ mpc[m] \in InLoop \ {"loop"} => qnum[m] < NumQueries
         /\ mpc[m] = "ended" => qnum[m] = NumQueries
         /\ ~ debug => qnum[m] = 0
    BY <1>1, <1>2, Constants DEF InLoop
<1>6. qnum["master"] = 0 /\ ~ ServesRange
    BY <1>1, <1>2 DEF Masters, ServesRange
<1> QED
    BY <1>4, <1>5, <1>6 DEF Tallied

LEMMA TalliedStep == TypeOK /\ Ordered /\ Tallied /\ [Next]_vars => Tallied'
<1> SUFFICES ASSUME TypeOK, Ordered, Tallied, [Next]_vars
             PROVE  Tallied'
    OBVIOUS
<1>t. /\ mpc \in [Masters -> {"start", "loop", "kill", "beat", "receive", "serve"} \cup Gone]
      /\ qnum \in [Masters -> 0..NumQueries]
      /\ request \in [Masters -> Kinds]
      /\ taken \in Seq(Messages)
      /\ queue \in Seq(Messages)
    BY DEF TypeOK
<1>c. NumQueries \in Nat
    BY Constants
<1>d. debug' = debug
    BY Zenon DEF Next, DbmsStep, fork, msgget, Send, LeaveEarly, AllSent, wait, RemoveQueue,
        Start, NoMaster, Loop, EnterLoop, kill_random_slave, heartbeat, msgrcv,
        msgrcv_fails, Serve, vars, sessionVars
<1>1. CASE DbmsStep
    <2>1. UNCHANGED <<qnum, taken, request>>
        BY <1>1 DEF DbmsStep, fork, msgget, Send, LeaveEarly, AllSent, wait, RemoveQueue, queueVars
    <2>2. CASE mpc' = mpc
        BY <1>d, <2>1, <2>2 DEF Tallied, RangesTaken, ServesRange
    <2>3. CASE fork
        <3>1. mpc["master"] = "none"
            BY <2>3 DEF fork, Ordered
        <3>2. mpc' = mpc \/ mpc' = [mpc EXCEPT !["master"] = "start"]
            BY <2>3 DEF fork
        <3> QED
            BY <1>d, <2>1, <3>1, <3>2, <1>t DEF Tallied, RangesTaken, ServesRange, Masters, InLoop
    <2> QED
        BY <1>1, <2>2, <2>3 DEF DbmsStep, msgget, Send, LeaveEarly, AllSent, wait, RemoveQueue
<1>2. CASE Start \/ NoMaster
    <2>1. /\ UNCHANGED <<qnum, taken, request>>
          /\ mpc["master"] = "start"
          /\ \/ mpc' = mpc
             \/ \E w \in {"loop", "dead"} : mpc' = [mpc EXCEPT !["master"] = w]
        BY <1>2 DEF Start, NoMaster, Goto, queueVars
    <2> QED
        BY <1>d, <2>1, <1>t DEF Tallied, RangesTaken, ServesRange, Masters, InLoop
<1>3. ASSUME NEW m \in Masters, Loop(m) PROVE Tallied'
    <2>1. PICK w \in InLoop \cup {"ended", "dead"} :
             mpc[m] \in InLoop /\ mpc' = [mpc EXCEPT ![m] = w]
        BY <1>3 DEF Loop, EnterLoop, kill_random_slave, heartbeat, msgrcv, msgrcv_fails, Serve,
            Goto, InLoop
    <2>2. mpc'["orphan"] = "none" => m = "master" /\ mpc["orphan"] = "none"
        BY <2>1, <1>t DEF Masters, InLoop
    <2>3. CASE EnterLoop(m)
        <3>1. /\ UNCHANGED <<qnum, taken, request>>
              /\ mpc[m] = "loop"
              /\ \/ qnum[m] < NumQueries /\ w \in {"kill", "beat"}
                 \/ ~ (qnum[m] < NumQueries) /\ w = "ended"
            BY <2>1, <2>3, <1>t DEF EnterLoop, Goto, queueVars
        <3> QED
            BY <1>d, <1>c, <2>1, <2>2, <3>1, <1>t DEF Tallied, RangesTaken, ServesRange, InLoop
    <2>4. CASE kill_random_slave(m) \/ heartbeat(m) \/ msgrcv_fails(m)
        <3>1. /\ UNCHANGED <<qnum, taken, request>>
              /\ mpc[m] \in {"kill", "beat", "receive"}
              /\ w \in {"beat", "receive", "loop", "dead"}
            BY <2>1, <2>4, <1>t DEF kill_random_slave, heartbeat, msgrcv_fails, Goto, queueVars
        <3> QED
            BY <1>d, <1>c, <2>1, <2>2, <3>1, <1>t DEF Tallied, RangesTaken, ServesRange, InLoop
    <2>5. CASE msgrcv(m)
        <3>1. /\ mpc[m] = "receive" /\ w = "serve"
              /\ queue # <<>>
              /\ qnum' = qnum
              /\ request' = [request EXCEPT ![m] = Head(queue)[1]]
              /\ taken' = Append(taken, Head(queue))
            BY <2>1, <2>5, <1>t DEF msgrcv, Goto
        <3>2. Head(queue) \in Messages
            BY <3>1, <1>t
        <3>3. Cardinality(RangesTaken')
                = Cardinality(RangesTaken) + (IF Head(queue)[1] = "range" THEN 1 ELSE 0)
            BY <3>1, <3>2, <1>t, OneMoreRange DEF RangesTaken
        <3>4. \A n \in Masters :
                 /\ mpc'[n] \in InLoop \ {"loop"} => qnum'[n] < NumQueries
                 /\ mpc'[n] = "ended" => qnum'[n] = NumQueries
                 /\ ~ debug' => qnum'[n] = 0
            BY <1>d, <2>1, <3>1, <1>t DEF Tallied, InLoop
        <3>5. ASSUME debug', mpc'["orphan"] = "none"
              PROVE  Cardinality(RangesTaken')
                       = qnum'["master"] + (IF ServesRange' THEN 1 ELSE 0)
            <4>1. m = "master" /\ mpc["orphan"] = "none" /\ debug
                BY <1>d, <2>2, <3>5
            <4>2. Cardinality(RangesTaken) = qnum["master"] + 0
                BY <4>1, <3>1 DEF Tallied, ServesRange
            <4>3. ServesRange' <=> Head(queue)[1] = "range"
                BY <2>1, <3>1, <4>1, <1>t DEF ServesRange
            <4> QED
                BY <3>1, <3>3, <4>1, <4>2, <4>3, <1>t
        <3> QED
            BY <3>4, <3>5 DEF Tallied
    <2>6. CASE Serve(m)
        <3>1. /\ mpc[m] = "serve"
              /\ UNCHANGED <<taken, request>>
              /\ \/ w = "loop" /\ qnum' = IF Counted(m) THEN [qnum EXCEPT ![m] = @ + 1] ELSE qnum
                 \/ w = "dead" /\ qnum' = qnum
            BY <2>1, <2>6, <1>t DEF Serve, Goto, queueVars
        <3>2. qnum[m] < NumQueries
            BY <3>1, <1>3 DEF Tallied, InLoop
        <3>3. \A n \in Masters :
                 /\ mpc'[n] \in InLoop \ {"loop"} => qnum'[n] < NumQueries
                 /\ mpc'[n] = "ended" => qnum'[n] = NumQueries
                 /\ ~ debug' => qnum'[n] = 0
            <4>1. CASE Counted(m)
                <5>1. debug
                    BY <4>1 DEF Counted
                <5>2. qnum' = qnum \/ qnum' = [qnum EXCEPT ![m] = @ + 1]
                    BY <3>1
                <5> QED
                    BY <1>d, <2>1, <3>1, <5>1, <5>2, <1>t DEF Tallied, InLoop
            <4>2. CASE ~ Counted(m)
                <5>1. qnum' = qnum
                    BY <3>1, <4>2
                <5> QED
                    BY <1>d, <2>1, <3>1, <5>1, <1>t DEF Tallied, InLoop
            <4> QED
                BY <4>1, <4>2
        <3>4. ASSUME debug', mpc'["orphan"] = "none", mpc'["master"] # "dead"
              PROVE  Cardinality(RangesTaken')
                       = qnum'["master"] + (IF ServesRange' THEN 1 ELSE 0)
            <4>1. m = "master" /\ mpc["orphan"] = "none" /\ debug
                BY <1>d, <2>2, <3>4
            <4>2. w = "loop" /\ ~ ServesRange'
                BY <2>1, <3>1, <3>4, <4>1, <1>t DEF ServesRange
            <4>3. Cardinality(RangesTaken)
                    = qnum["master"] + (IF request["master"] = "range" THEN 1 ELSE 0)
                BY <3>1, <4>1 DEF Tallied, ServesRange
            <4>4. qnum'["master"]
                    = IF request["master"] = "range" THEN qnum["master"] + 1 ELSE qnum["master"]
                BY <3>1, <4>1, <4>2, <1>t DEF Counted
            <4>5. RangesTaken' = RangesTaken
                BY <3>1 DEF RangesTaken
            <4>6. qnum["master"] \in Nat
                BY <1>t DEF Masters
            <4> QED
                BY <4>2, <4>3, <4>4, <4>5, <4>6
        <3> QED
            BY <3>3, <3>4 DEF Tallied
    <2> QED
        BY <1>3, <2>3, <2>4, <2>5, <2>6 DEF Loop
<1>4. CASE UNCHANGED vars
    BY <1>d, <1>4 DEF vars, queueVars, Tallied, RangesTaken, ServesRange
<1> QED
    BY <1>1, <1>2, <1>3, <1>4 DEF Next

-----------------------------------------------------------------------------
(* The order of the messages *)

\* DeliveredInOrder, for the messages seen, of which the first old were left.
Delivered(seen, old) ==
    /\ old \in 0..Len(seen)
    /\ \A k \in 1..old : seen[k][2] = 0
    /\ \A k \in (old + 1)..Len(seen) : seen[k] = <<test[k - old], k - old>>
    /\ Len(seen) - old <= sent
    /\ exists => Len(seen) - old = sent

LEMMA DeliveredDef ==
    DeliveredInOrder <=> \E old \in 0..Len(taken \o queue) : Delivered(taken \o queue, old)
BY DEF DeliveredInOrder, Delivered

\* What is received moves from the queue to what was taken.
LEMMA ReceiveKeepsOrder ==
    ASSUME NEW M, NEW t \in Seq(M), NEW q \in Seq(M), q # <<>>
    PROVE  Append(t, Head(q)) \o Tail(q) = t \o q
<1>1. /\ Head(q) \in M /\ Tail(q) \in Seq(M)
      /\ Head(q) = q[1]
      /\ Len(q) \in Nat /\ Len(q) > 0
      /\ Len(Tail(q)) = Len(q) - 1
      /\ \A i \in 1..(Len(q) - 1) : Tail(q)[i] = q[i + 1]
    BY HeadTailProperties
<1> DEFINE a == Append(t, Head(q))
<1>2. /\ a \in Seq(M) /\ Len(a) = Len(t) + 1 /\ Len(t) \in Nat
      /\ \A i \in 1..Len(t) : a[i] = t[i]
      /\ a[Len(t) + 1] = q[1]
    BY <1>1, AppendProperties
<1> HIDE DEF a
<1>3. /\ a \o Tail(q) \in Seq(M)
      /\ Len(a \o Tail(q)) = Len(t) + Len(q)
      /\ \A i \in 1..(Len(t) + Len(q)) :
            (a \o Tail(q))[i] = IF i <= Len(t) + 1 THEN a[i] ELSE Tail(q)[i - (Len(t) + 1)]
    <2>1. Len(a) + Len(Tail(q)) = Len(t) + Len(q)
        BY <1>1, <1>2
    <2>2. /\ a \o Tail(q) \in Seq(M)
          /\ Len(a \o Tail(q)) = Len(a) + Len(Tail(q))
          /\ \A i \in 1..(Len(a) + Len(Tail(q))) :
                (a \o Tail(q))[i] = IF i <= Len(a) THEN a[i] ELSE Tail(q)[i - Len(a)]
        BY <1>1, <1>2, ConcatProperties
    <2> QED
        BY <1>2, <2>1, <2>2
<1>4. /\ t \o q \in Seq(M)
      /\ Len(t \o q) = Len(t) + Len(q)
      /\ \A i \in 1..(Len(t) + Len(q)) :
            (t \o q)[i] = IF i <= Len(t) THEN t[i] ELSE q[i - Len(t)]
    BY ConcatProperties
<1>5. \A i \in 1..(Len(t) + Len(q)) : (a \o Tail(q))[i] = (t \o q)[i]
    <2> TAKE i \in 1..(Len(t) + Len(q))
    <2>1. CASE i <= Len(t)
        BY <2>1, <1>2, <1>3, <1>4
    <2>2. CASE i = Len(t) + 1
        BY <2>2, <1>1, <1>2, <1>3, <1>4
    <2>3. CASE i > Len(t) + 1
        <3>1. /\ i - (Len(t) + 1) \in 1..(Len(q) - 1)
              /\ (i - (Len(t) + 1)) + 1 = i - Len(t)
            BY <2>3, <1>1, <1>2
        <3>2. (a \o Tail(q))[i] = q[i - Len(t)]
            BY <2>3, <3>1, <1>1, <1>2, <1>3
        <3> QED
            BY <2>3, <3>2, <1>2, <1>4
    <2> QED
        BY <2>1, <2>2, <2>3, <1>1, <1>2
<1>6. a \o Tail(q) = t \o q
    BY <1>3, <1>4, <1>5, SeqEqual
<1> QED
    BY <1>6 DEF a

LEMMA DeliveredInit == Init => DeliveredInOrder
<1> SUFFICES ASSUME Init PROVE DeliveredInOrder
    OBVIOUS
<1>1. PICK left \in Leftovers : queue = [k \in DOMAIN left |-> <<left[k], 0>>]
    BY DEF Init
<1>2. left \in Seq(Kinds)
    BY Constants
<1>3. /\ queue \in Seq(Messages) /\ Len(queue) = Len(left)
      /\ \A k \in 1..Len(queue) : queue[k][2] = 0
    BY <1>1, <1>2 DEF Messages
<1>4. taken \o queue = queue
    BY <1>3, ConcatEmptySeq DEF Init
<1>5. Delivered(queue, Len(queue))
    BY <1>3 DEF Delivered, Init
<1> QED
    BY <1>3, <1>4, <1>5, DeliveredDef

LEMMA DeliveredStep ==
    TypeOK /\ Ordered /\ DeliveredInOrder /\ [Next]_vars => DeliveredInOrder'
<1> SUFFICES ASSUME TypeOK, Ordered, DeliveredInOrder, [Next]_vars
             PROVE  DeliveredInOrder'
    OBVIOUS
<1> DEFINE seen == taken \o queue
<1>t. /\ queue \in Seq(Messages) /\ taken \in Seq(Messages)
      /\ sent \in Nat
      /\ test \in Seq(Kinds)
      /\ sent <= Len(test)
    BY Constants DEF TypeOK
<1>s. seen \in Seq(Messages) /\ Len(seen) = Len(taken) + Len(queue)
    BY <1>t, ConcatProperties
<1>1. PICK old \in 0..Len(seen) : Delivered(seen, old)
    BY DeliveredDef
<1> HIDE DEF seen
\* What Delivered says of the numbers, apart from the messages.
<1>d. /\ exists => Len(seen) - old = sent
      /\ Len(seen) - old <= sent
    BY <1>1 DEF Delivered
<1>n. old \in Nat /\ Len(seen) \in Nat /\ old <= Len(seen)
    BY <1>1, <1>s
<1>2. test' = test
    BY Zenon DEF Next, DbmsStep, fork, msgget, Send, LeaveEarly, AllSent, wait, RemoveQueue,
        Start, NoMaster, Loop, EnterLoop, kill_random_slave, heartbeat, msgrcv,
        msgrcv_fails, Serve, vars, sessionVars
<1>3. ASSUME Delivered(seen, old)' PROVE DeliveredInOrder'
    BY <1>3 DEF Delivered, DeliveredInOrder, seen
\* The queue is created: nothing has been sent through it yet, or it exists.
<1>4. CASE UNCHANGED <<queue, taken, sent>> /\ (exists' => exists \/ sent = 0)
    <2>1. seen' = seen
        BY <1>4 DEF seen
    <2>2. ASSUME exists' PROVE Len(seen) - old = sent
        <3>1. exists \/ sent = 0
            BY <1>4, <2>2
        <3>2. CASE exists
            BY <3>2, <1>d
        <3>3. CASE sent = 0
            BY <3>3, <1>d, <1>n
        <3> QED
            BY <3>1, <3>2, <3>3
    <2> QED
        BY <1>1, <1>2, <1>3, <1>4, <2>1, <2>2 DEF Delivered
<1>5. CASE Send
    <2>1. /\ exists /\ exists' = exists
          /\ sent' = sent + 1 /\ sent < Len(test)
          /\ queue' = Append(queue, NextMessage)
          /\ taken' = taken
        BY <1>5 DEF Send, msgsnd, Ordered
    <2>2. NextMessage \in Messages
        BY <2>1, <1>t DEF NextMessage, Messages
    <2>3. seen' = Append(seen, NextMessage)
        <3>1. <<NextMessage>> \in Seq(Messages)
            BY <2>2
        <3>2. queue' = queue \o <<NextMessage>>
            BY <2>1, <2>2, <1>t, AppendIsConcat
        <3>3. seen' = seen \o <<NextMessage>>
            BY <2>1, <3>1, <3>2, <1>t, ConcatAssociative DEF seen
        <3> QED
            BY <2>2, <3>3, <1>s, AppendIsConcat
    <2>4. /\ Len(seen') = Len(seen) + 1
          /\ \A k \in 1..Len(seen) : seen'[k] = seen[k]
          /\ seen'[Len(seen) + 1] = <<test[sent + 1], sent + 1>>
        BY <2>2, <2>3, <1>s, AppendProperties DEF NextMessage
    <2>5. Len(seen) - old = sent /\ Len(seen) \in Nat
        BY <2>1, <1>1, <1>s DEF Delivered
    <2>6. \A k \in 1..old : seen'[k][2] = 0
        BY <2>4, <2>5, <1>1 DEF Delivered
    <2>7. \A k \in (old + 1)..Len(seen') : seen'[k] = <<test[k - old], k - old>>
        <3> TAKE k \in (old + 1)..Len(seen')
        <3>1. CASE k = Len(seen) + 1
            <4>1. k - old = sent + 1
                BY <3>1, <2>5, <1>1
            <4> QED
                BY <3>1, <4>1, <2>4
        <3>2. CASE k <= Len(seen)
            BY <3>2, <2>4, <2>5, <1>1 DEF Delivered
        <3> QED
            BY <3>1, <3>2, <2>4, <2>5
    <2>8. Len(seen') - old = sent' /\ old \in 0..Len(seen')
        <3>1. Len(seen') = Len(seen) + 1 /\ sent' = sent + 1 /\ sent \in Nat
            BY <2>1, <2>4, <1>t
        <3>2. Len(seen') - old = sent'
            BY <3>1, <2>5, <1>n
        <3>3. old \in 0..Len(seen')
            BY <3>1, <1>n
        <3> QED
            BY <3>2, <3>3
    <2> QED
        BY <1>2, <1>3, <2>6, <2>7, <2>8, <1>t, <2>1 DEF Delivered
<1>6. ASSUME NEW m \in Masters, msgrcv(m) PROVE DeliveredInOrder'
    <2>1. /\ queue # <<>>
          /\ queue' = Tail(queue) /\ taken' = Append(taken, Head(queue))
          /\ UNCHANGED <<sent, exists>>
        BY <1>6 DEF msgrcv
    <2>2. seen' = seen
        BY <2>1, <1>t, ReceiveKeepsOrder DEF seen
    <2> QED
        BY <1>1, <1>2, <1>3, <2>1, <2>2 DEF Delivered
\* What is left in the queue is lost, and of what was sent less was seen.
<1>7. CASE RemoveQueue
    <2>1. exists' = FALSE /\ queue' = <<>> /\ UNCHANGED <<sent, taken>>
        BY <1>7 DEF RemoveQueue
    <2>2. seen' = taken
        BY <2>1, <1>t, ConcatEmptySeq DEF seen
    <2>3. /\ Len(taken) \in Nat /\ Len(queue) \in Nat
          /\ \A k \in 1..Len(taken) : seen[k] = taken[k]
        BY <1>t, ConcatProperties DEF seen
    <2>4. CASE old <= Len(taken)
        <3>1. /\ \A k \in 1..old : taken[k][2] = 0
              /\ \A k \in (old + 1)..Len(taken) : taken[k] = <<test[k - old], k - old>>
            <4>1. old \in Nat /\ Len(taken) <= Len(seen)
                BY <1>n, <1>s, <2>3
            <4>2. \A k \in 1..old : taken[k] = seen[k]
                BY <4>1, <2>3, <2>4
            <4>3. \A k \in (old + 1)..Len(taken) :
                      taken[k] = seen[k] /\ k \in (old + 1)..Len(seen)
                BY <4>1, <2>3, <2>4, <1>n
            <4> QED
                BY <4>2, <4>3, <1>1 DEF Delivered
        <3>2. Len(taken) - old <= sent /\ old \in 0..Len(taken)
            <4>1. sent \in Nat /\ Len(seen) = Len(taken) + Len(queue)
                BY <1>s, <1>t
            <4>2. Len(taken) - old <= sent
                BY <4>1, <1>d, <1>n, <2>3
            <4>3. old \in 0..Len(taken)
                BY <1>n, <2>3, <2>4
            <4> QED
                BY <4>2, <4>3
        <3>3. Delivered(seen, old)'
            BY <1>2, <2>1, <2>2, <3>1, <3>2 DEF Delivered
        <3> QED
            BY <3>3, <1>3
    <2>5. CASE old > Len(taken)
        <3>1. Delivered(seen, Len(taken))'
            BY <1>1, <1>2, <1>s, <1>t, <2>1, <2>2, <2>3, <2>5 DEF Delivered
        <3> QED
            BY <3>1 DEF Delivered, DeliveredInOrder, seen
    <2> QED
        BY <2>4, <2>5, <2>3
<1>8. CASE msgget
    <2>1. sent = 0 /\ UNCHANGED <<queue, taken, sent>>
        BY <1>8 DEF msgget, Ordered
    <2> QED
        BY <2>1, <1>4
<1>9. CASE Start
    <2>1. /\ mpc["master"] = "start"
          /\ UNCHANGED <<queue, taken, sent>>
        BY <1>9 DEF Start
    <2>2. exists \/ sent = 0
        BY <2>1, dpc \in {"fork", "msgget", "send", "wait", "rmid", "closed", "left",
                          "crashed", "failed"} DEF Ordered, Gone, TypeOK
    <2> QED
        BY <2>1, <2>2, <1>4
<1>10. CASE UNCHANGED <<queue, taken, sent, exists>>
    BY <1>10, <1>4
<1> QED
    BY <1>5, <1>6, <1>7, <1>8, <1>9, <1>10 DEF Next, DbmsStep, fork, LeaveEarly, AllSent, wait,
        NoMaster, Loop, EnterLoop, kill_random_slave, heartbeat, msgrcv_fails, Serve, vars,
        queueVars

-----------------------------------------------------------------------------
(* The theorems *)

LEMMA Inductive == Spec => []IInv
<1>1. Init => IInv
    <2> SUFFICES ASSUME Init PROVE IInv
        OBVIOUS
    <2>1. Numbered
        BY StartupInitOK DEF Init
    <2> QED
        BY <2>1, TypesInit, OrderedInit, DeliveredInit, TrustedInit, TalliedInit DEF IInv
<1>2. IInv /\ [Next]_vars => IInv'
    <2> SUFFICES ASSUME IInv, [Next]_vars PROVE IInv'
        OBVIOUS
    <2>1. Numbered'
        <3>1. StartupTypeOK /\ Numbered
            BY TypeParts DEF IInv
        <3>2. CASE Start
            BY <3>1, <3>2, StartupStep DEF Start
        <3>3. CASE UNCHANGED startupVars
            BY <3>1, <3>3, StartupUnchanged
        <3> QED
            BY <3>2, <3>3 DEF Next, DbmsStep, fork, msgget, Send, LeaveEarly, AllSent, wait,
                RemoveQueue, NoMaster, Loop, EnterLoop, kill_random_slave, heartbeat, msgrcv,
                msgrcv_fails, Serve, vars
    <2> QED
        BY <2>1, TypesStep, OrderedStep, DeliveredStep, TrustedStep, TalliedStep DEF IInv
<1> QED
    BY <1>1, <1>2, PTL DEF Spec

\* The types of DBMS, master and queue: the queue stays within its capacity,
\* and qnum within FT_NUM_QUERIES (dbms.c, main of master.c).
THEOREM TypeCorrect == Spec => []TypeOK
<1>1. IInv => TypeOK
    BY DEF IInv
<1> QED
    BY <1>1, Inductive, PTL

\* However many slaves the file names, and whichever of them could not be set
\* up, id and address of one on the list are those the slave itself has
\* (setup_slave, init_slave).
THEOREM IdsAlwaysAgree == Spec => []IdsAgree
<1>1. IInv => IdsAgree
    BY DEF IInv, Numbered, IdsAgree
<1> QED
    BY <1>1, Inductive, PTL

\* Through a queue of any capacity, shared with an orphan or not, the masters
\* see every message once and in the order in which they were sent (msgsnd of
\* dbms.c, msgrcv of master.c).
THEOREM AlwaysDeliveredInOrder == Spec => []DeliveredInOrder
<1>1. IInv => DeliveredInOrder
    BY DEF IInv
<1> QED
    BY <1>1, Inductive, PTL

\* IPC_STAT before the heartbeat is enough: a master that is alone with the
\* DBMS never waits in msgrcv (main of master.c).
THEOREM CountAlwaysTrue == Spec => []CountIsTrue
<1>1. IInv => CountIsTrue
    <2> SUFFICES ASSUME IInv, mpc["master"] = "receive", queue = <<>>, mpc["orphan"] = "none"
                 PROVE  FALSE
        BY DEF CountIsTrue
    <2>1. msg_qnum["master"] <= Len(queue) /\ msg_qnum["master"] > 0
        BY DEF IInv, Trusted
    <2>2. msg_qnum["master"] \in 0..Capacity /\ Len(queue) = 0
        BY DEF IInv, TypeOK, Masters
    <2> QED
        BY <2>1, <2>2, Constants
<1> QED
    BY <1>1, Inductive, PTL

\* A master that stops has served FT_NUM_QUERIES range queries and no more, in
\* a debugging build (++qnum in main of master.c).
THEOREM AlwaysStopsAfterItsQueries == Spec => []StopsAfterItsQueries
<1>1. IInv => StopsAfterItsQueries
    <2> SUFFICES ASSUME IInv, mpc["master"] = "ended", mpc["orphan"] = "none"
                 PROVE  debug /\ Cardinality(RangesTaken) = NumQueries
        BY DEF StopsAfterItsQueries, RangesTaken
    <2>1. qnum["master"] = NumQueries /\ (~ debug => qnum["master"] = 0)
        BY DEF IInv, Tallied, Masters
    <2>2. debug
        BY <2>1, Constants
    <2>3. Cardinality(RangesTaken) = qnum["master"] + 0
        BY <2>2 DEF IInv, Tallied, ServesRange
    <2> QED
        BY <2>1, <2>2, <2>3, Constants
<1> QED
    BY <1>1, Inductive, PTL
=============================================================================
