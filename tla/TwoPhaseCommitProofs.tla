------------------------ MODULE TwoPhaseCommitProofs ------------------------
(***************************************************************************)
(* What commit_vector guarantees for any number of slaves, rounds and      *)
(* crashes.  The invariant follows the life of a round: which vote threads *)
(* exist (Spawned), which the master has joined (Joined), and, in a clean  *)
(* round, that the threads of earlier rounds are over (Fresh), that the    *)
(* mutex excludes those of this one (Exclusion), and that successes is the *)
(* number of those that have stored their increment (Tallied).             *)
(***************************************************************************)
EXTENDS TwoPhaseCommit, FiniteSetTheorems, TLAPS

Critical == {"load", "store", "unlock"}

InCall == {"init", "spawn", "join", "check", "push", "commit", "abort"}

Tally == {s \in Slaves : vote[<<round, s>>] \in {"unlock", "counted"}}

Arguments ==
    /\ pc # "loop" => round \in Rounds /\ Len(slaves) \in {1, 2}
    /\ \A j, k \in 1..Len(slaves) : j # k => slaves[j] # slaves[k]

Spawned ==
    \A r \in Rounds, s \in Slaves :
        vote[<<r, s>>] # "none" =>
            \/ r < round
            \/ r = round /\ s \in Targets /\ pc \notin {"reset", "init", "spawn"}

Joined ==
    /\ pc \in {"reset", "init", "spawn"} => i = 1
    /\ pc = "join" =>
          /\ i \in 1..Len(slaves)
          /\ \A j \in 1..(i - 1) :
                vote[<<round, slaves[j]>>] \in {"refused", "counted"}
    /\ pc \in {"check", "push", "commit"} =>
          \A s \in Targets : vote[<<round, s>>] \in {"refused", "counted"}

Fresh ==
    clean /\ pc \in InCall =>
        \A r \in Rounds, s \in Slaves : r < round => ~ Running(<<r, s>>)

Tallied ==
    clean /\ pc \in InCall => successes = Cardinality(Tally)

Exclusion ==
    clean /\ pc \in InCall \ {"init"} =>
        \A s \in Slaves :
            vote[<<round, s>>] \in Critical =>
                /\ lock = "held"
                /\ vote[<<round, s>>] = "store" => reg[<<round, s>>] = successes
                /\ \A u \in Slaves :
                        vote[<<round, u>>] \in Critical => u = s

MutexLives ==
    pc \in {"spawn", "join", "check", "push", "abort"} => lock # "destroyed"

Outcome ==
    /\ clean /\ pc = "push" =>
          \A s \in Targets : vote[<<round, s>>] = "counted"
    /\ clean /\ pc = "abort" =>
          \E s \in Targets : vote[<<round, s>>] \in {"failed", "refused"}

Pushed ==
    /\ pc \in {"push", "commit"} =>
          \A s \in Targets \cap alive : push[s] = "done" => stored[s] = round
    /\ pc = "commit" => \A s \in Targets : push[s] = "done"

IInv ==
    /\ TypeOK /\ Arguments /\ Spawned /\ Joined /\ Fresh /\ Tallied
    /\ Exclusion /\ MutexLives /\ Outcome /\ Pushed

-----------------------------------------------------------------------------
(* Elementary facts. *)

\* The set of the arguments has as many elements as the array.
LEMMA TargetsFacts ==
    ASSUME TypeOK, Arguments
    PROVE  /\ Targets \subseteq Slaves
           /\ IsFiniteSet(Targets)
           /\ pc # "loop" => Cardinality(Targets) = Len(slaves)
<1>1. Targets \subseteq Slaves
    BY DEF TypeOK, Targets
<1>2. IsFiniteSet(Targets)
    BY <1>1, CommitAssumption, FS_Subset
<1>3. CASE pc # "loop" /\ Len(slaves) = 1
    <2>1. Targets = {slaves[1]}
        BY <1>3 DEF Targets
    <2> QED  BY <1>1, <1>2, <1>3, <2>1, FS_Singleton
<1>4. CASE pc # "loop" /\ Len(slaves) = 2
    <2>1. Targets = {slaves[1]} \cup {slaves[2]}
        BY <1>4 DEF Targets
    <2>2. slaves[2] \notin {slaves[1]}
        BY <1>4 DEF Arguments
    <2>3. IsFiniteSet({slaves[1]}) /\ Cardinality({slaves[1]}) = 1
        BY FS_Singleton
    <2>4. Cardinality({slaves[1]} \cup {slaves[2]}) = 2
        BY <2>2, <2>3, FS_AddElement
    <2> QED  BY <1>1, <1>2, <1>4, <2>1, <2>4
<1> QED  BY <1>1, <1>2, <1>3, <1>4 DEF Arguments

\* The votes a round has counted are finitely many.
LEMMA TallyFinite ==
    /\ IsFiniteSet(Tally)
    /\ Cardinality(Tally) \in Nat
<1>1. Tally \in SUBSET Slaves
    BY DEF Tally
<1> QED  BY <1>1, CommitAssumption, FS_Subset, FS_CardinalityType

\* A put hands commit_vector one slave, or two different ones.
LEMMA PutFrame ==
    ASSUME TypeOK, \E a, b \in Slaves : Put(<<a>>) \/ Put(<<a, b>>)
    PROVE  /\ pc = "loop" /\ pc' = "reset"
           /\ round' = round + 1 /\ round' \in Rounds
           /\ slaves' \in Seq(Slaves) /\ Len(slaves') \in {1, 2}
           /\ \A j, k \in 1..Len(slaves') : j # k => slaves'[j] # slaves'[k]
           /\ i' = 1 /\ push' = [s \in Slaves |-> "none"]
           /\ UNCHANGED <<alive, stored, successes, lock, vote, reg, clean>>
<1>1. PICK a \in Slaves, b \in Slaves : Put(<<a>>) \/ Put(<<a, b>>)
    OBVIOUS
<1>2. round \in Nat /\ MaxRounds \in Nat
    BY CommitAssumption DEF TypeOK
<1>3. CASE Put(<<a>>)
    <2>1. <<a>> \in Seq(Slaves) /\ Len(<<a>>) = 1
        OBVIOUS
    <2> QED  BY <1>2, <1>3, <2>1 DEF Put, globals, Rounds
<1>4. CASE Put(<<a, b>>)
    <2>1. /\ <<a, b>> \in Seq(Slaves) /\ Len(<<a, b>>) = 2
          /\ DOMAIN <<a, b>> = 1..Len(<<a, b>>)
        OBVIOUS
    <2> QED  BY <1>2, <1>4, <2>1 DEF Put, globals, Rounds
<1> QED  BY <1>1, <1>3, <1>4

\* A step of a vote thread moves that thread and nothing else of vote, and
\* leaves the master, the slaves and the push threads alone.
LEMMA ThreadFrame ==
    ASSUME TypeOK, NEW r \in Rounds, NEW s \in Slaves, VoteThread(<<r, s>>)
    PROVE  /\ UNCHANGED <<alive, stored, pc, round, slaves, i, clean, push>>
           /\ Running(<<r, s>>)
           /\ vote' \in [Threads -> Over \cup {"none", "connect", "call",
                                 "lock", "load", "store", "unlock"}]
           /\ vote'[<<r, s>>] # "none"
           /\ \A q \in Rounds, u \in Slaves :
                  q # r \/ u # s => vote'[<<q, u>>] = vote[<<q, u>>]
<1>1. <<r, s>> \in Threads
    BY DEF Threads
<1>2. VoteConnect(<<r, s>>) \/ VoteAnswered(<<r, s>>) \/ VoteLost(<<r, s>>)
      \/ Lock(<<r, s>>) \/ Load(<<r, s>>) \/ Store(<<r, s>>)
      \/ Unlock(<<r, s>>)
    BY DEF VoteThread
<1>3. /\ UNCHANGED <<alive, stored, pc, round, slaves, i, clean, push>>
      /\ vote[<<r, s>>] \in {"connect", "call", "lock", "load", "store", "unlock"}
      /\ \E there \in Over \cup {"call", "lock", "load", "store", "unlock"} :
            vote' = [vote EXCEPT ![<<r, s>>] = there]
    BY <1>2 DEF VoteConnect, VoteAnswered, VoteLost, Lock, Load, Store, Unlock,
                At, Goto, master, Over
<1> QED  BY <1>1, <1>3 DEF TypeOK, Running, Over, Threads

\* The steps of the push threads and a crash leave the commit's own state.
LEMMA OthersFrame ==
    ASSUME (\E s \in Slaves : PushThread(s) \/ Crash(s)) \/ UNCHANGED vars
    PROVE  UNCHANGED <<pc, round, slaves, i, clean, successes, lock, vote, reg>>
BY DEF PushThread, PushConnect, PushCall, Crash, master, globals, threads, vars

\* The cases of a step.
LEMMA StepCases ==
    ASSUME [Next]_vars
    PROVE  \/ \E a, b \in Slaves : Put(<<a>>) \/ Put(<<a, b>>)
           \/ Master
           \/ \E r \in Rounds, s \in Slaves : VoteThread(<<r, s>>)
           \/ (\E s \in Slaves : PushThread(s) \/ Crash(s)) \/ UNCHANGED vars
<1>1. ASSUME NEW k \in Threads, VoteThread(k)
      PROVE  \E r \in Rounds, s \in Slaves : VoteThread(<<r, s>>)
    BY <1>1 DEF Threads
<1> QED  BY <1>1 DEF Next

-----------------------------------------------------------------------------
(* One lemma for each part of the invariant. *)

\* Every step keeps the types.
LEMMA TypeStep ==
    ASSUME TypeOK, Arguments, Joined, [Next]_vars
    PROVE  TypeOK'
<1>1. CASE \E a, b \in Slaves : Put(<<a>>) \/ Put(<<a, b>>)
    <2>1. /\ pc' = "reset" /\ i' = 1
          /\ slaves' \in Seq(Slaves) /\ Len(slaves') \in {1, 2}
          /\ push' = [s \in Slaves |-> "none"] /\ round' \in Rounds
          /\ UNCHANGED <<alive, stored, successes, lock, vote, reg, clean>>
        BY <1>1, PutFrame
    <2> QED  BY <2>1, CommitAssumption DEF TypeOK, Rounds
<1>2. CASE ResetSuccesses
    BY <1>2 DEF TypeOK, ResetSuccesses, threads
<1>3. CASE InitLock
    BY <1>3 DEF TypeOK, InitLock, threads
<1>4. CASE SpawnVotes
    BY <1>4 DEF TypeOK, SpawnVotes, globals
<1>5. CASE JoinVote
    BY <1>5 DEF TypeOK, JoinVote, globals, threads
<1>6. CASE CheckVotes
    BY <1>6 DEF TypeOK, CheckVotes, globals
<1>7. CASE JoinPushes
    BY <1>7 DEF TypeOK, JoinPushes, threads
<1>8. CASE Return
    BY <1>8 DEF TypeOK, Return, globals, threads
<1>9. ASSUME NEW r \in Rounds, NEW s \in Slaves, VoteThread(<<r, s>>)
      PROVE  TypeOK'
    <2>1. /\ UNCHANGED <<alive, stored, pc, round, slaves, i, clean, push>>
          /\ vote' \in [Threads -> Over \cup {"none", "connect", "call",
                                 "lock", "load", "store", "unlock"}]
        BY <1>9, ThreadFrame
    <2>2. /\ successes' \in Nat
          /\ lock' \in {"free", "held", "destroyed"}
          /\ reg' \in [Threads -> Nat]
        <3>1. <<r, s>> \in Threads
            BY DEF Threads
        <3>2. CASE Load(<<r, s>>)
            BY <3>1, <3>2 DEF TypeOK, Load, globals
        <3>3. CASE Store(<<r, s>>)
            BY <3>1, <3>3 DEF TypeOK, Store
        <3>4. CASE Lock(<<r, s>>) \/ Unlock(<<r, s>>)
            BY <3>4 DEF TypeOK, Lock, Unlock
        <3>5. CASE VoteConnect(<<r, s>>) \/ VoteAnswered(<<r, s>>)
                   \/ VoteLost(<<r, s>>)
            BY <3>5 DEF TypeOK, VoteConnect, VoteAnswered, VoteLost, globals
        <3> QED  BY <1>9, <3>2, <3>3, <3>4, <3>5 DEF VoteThread
    <2> QED  BY <2>1, <2>2 DEF TypeOK
<1>10. CASE (\E s \in Slaves : PushThread(s) \/ Crash(s)) \/ UNCHANGED vars
    BY <1>10 DEF TypeOK, PushThread, PushConnect, PushCall, Crash, master,
                 globals, threads, vars
<1> QED  BY <1>1, <1>2, <1>3, <1>4, <1>5, <1>6, <1>7, <1>8, <1>9, <1>10,
            StepCases DEF Master

\* Every step keeps Arguments.
LEMMA ArgumentsStep ==
    ASSUME TypeOK, Arguments, [Next]_vars
    PROVE  Arguments'
<1>1. CASE \E a, b \in Slaves : Put(<<a>>) \/ Put(<<a, b>>)
    BY <1>1, PutFrame DEF Arguments
<1>2. CASE Master
    BY <1>2 DEF Arguments, Master, ResetSuccesses, InitLock, SpawnVotes,
                JoinVote, CheckVotes, JoinPushes, Return
<1>3. CASE \E r \in Rounds, s \in Slaves : VoteThread(<<r, s>>)
    BY <1>3, ThreadFrame DEF Arguments
<1>4. CASE (\E s \in Slaves : PushThread(s) \/ Crash(s)) \/ UNCHANGED vars
    BY <1>4, OthersFrame DEF Arguments
<1> QED  BY <1>1, <1>2, <1>3, <1>4, StepCases

\* Every step keeps Spawned.
LEMMA SpawnedStep ==
    ASSUME TypeOK, Arguments, Spawned, [Next]_vars
    PROVE  Spawned'
<1>1. CASE \E a, b \in Slaves : Put(<<a>>) \/ Put(<<a, b>>)
    <2>1. pc = "loop" /\ round' = round + 1 /\ vote' = vote
        BY <1>1, PutFrame
    <2>2. round \in Nat
        BY CommitAssumption DEF TypeOK
    <2> QED  BY <2>1, <2>2 DEF Spawned, Rounds
<1>2. CASE SpawnVotes
    <2>1. ASSUME NEW r \in Rounds, NEW s \in Slaves, vote'[<<r, s>>] # "none"
          PROVE  r < round \/ (r = round /\ s \in Targets)
        <3>1. vote'[<<r, s>>] = IF r = round /\ s \in Targets
                               THEN "connect" ELSE vote[<<r, s>>]
            BY <1>2 DEF SpawnVotes, Threads
        <3>2. vote[<<r, s>>] # "none" =>
                 r < round \/ (r = round /\ s \in Targets)
            BY DEF Spawned
        <3> QED  BY <2>1, <3>1, <3>2
    <2>2. pc' = "join" /\ round' = round /\ Targets' = Targets
        BY <1>2 DEF SpawnVotes, Targets
    <2> QED  BY <2>1, <2>2 DEF Spawned
<1>3. CASE Master /\ ~ SpawnVotes
    <2>1. /\ round' = round /\ vote' = vote /\ slaves' = slaves
          /\ pc \notin {"reset", "init"} => pc' \notin {"reset", "init", "spawn"}
        BY <1>3 DEF Master, ResetSuccesses, InitLock, JoinVote, CheckVotes,
                    JoinPushes, Return, threads
    <2>2. Targets' = Targets
        BY <2>1 DEF Targets
    <2>3. pc = "spawn" => pc' \notin {"join"}
        BY <1>3 DEF Master, ResetSuccesses, InitLock, JoinVote, CheckVotes,
                    JoinPushes, Return
    <2> QED  BY <2>1, <2>2 DEF Spawned
<1>4. ASSUME NEW r \in Rounds, NEW s \in Slaves, VoteThread(<<r, s>>)
      PROVE  Spawned'
    <2>1. /\ UNCHANGED <<pc, round, slaves>>
          /\ vote[<<r, s>>] # "none"
          /\ \A q \in Rounds, u \in Slaves :
                  q # r \/ u # s => vote'[<<q, u>>] = vote[<<q, u>>]
        BY <1>4, ThreadFrame DEF Running
    <2>2. Targets' = Targets
        BY <2>1 DEF Targets
    <2>3. \A q \in Rounds, u \in Slaves :
              vote'[<<q, u>>] # "none" => vote[<<q, u>>] # "none"
        BY <2>1
    <2> QED  BY <2>1, <2>2, <2>3 DEF Spawned
<1>5. CASE (\E s \in Slaves : PushThread(s) \/ Crash(s)) \/ UNCHANGED vars
    <2>1. UNCHANGED <<pc, round, slaves, vote>>
        BY <1>5, OthersFrame
    <2> QED  BY <2>1 DEF Spawned, Targets
<1> QED  BY <1>1, <1>2, <1>3, <1>4, <1>5, StepCases

\* Every step keeps Joined.
LEMMA JoinedStep ==
    ASSUME TypeOK, Arguments, Joined, [Next]_vars
    PROVE  Joined'
<1>1. CASE \E a, b \in Slaves : Put(<<a>>) \/ Put(<<a, b>>)
    BY <1>1, PutFrame DEF Joined
<1>2. CASE ResetSuccesses \/ InitLock
    BY <1>2 DEF Joined, ResetSuccesses, InitLock
<1>3. CASE SpawnVotes
    <2>1. pc = "spawn" /\ pc' = "join" /\ i' = i /\ slaves' = slaves
        BY <1>3 DEF SpawnVotes
    <2>2. i = 1 /\ Len(slaves) \in {1, 2}
        BY <2>1 DEF Joined, Arguments
    <2> QED  BY <2>1, <2>2 DEF Joined
<1>4. CASE JoinVote
    <2>1. /\ pc = "join" /\ UNCHANGED <<round, slaves, vote>>
          /\ vote[<<round, slaves[i]>>] \in Over
          /\ i \in 1..Len(slaves) /\ Len(slaves) \in {1, 2}
          /\ \A j \in 1..(i - 1) :
                vote[<<round, slaves[j]>>] \in {"refused", "counted"}
        BY <1>4 DEF JoinVote, threads, Joined, Arguments
    <2>2. CASE vote[<<round, slaves[i]>>] = "failed"
        BY <1>4, <2>2 DEF JoinVote, Joined
    <2>3. CASE vote[<<round, slaves[i]>>] # "failed"
        <3>1. i' = i + 1 /\ pc' = IF i = Len(slaves) THEN "check" ELSE "join"
            BY <1>4, <2>3 DEF JoinVote
        <3>2. \A j \in 1..i :
                  vote[<<round, slaves[j]>>] \in {"refused", "counted"}
            BY <2>1, <2>3 DEF Over
        <3> QED  BY <2>1, <3>1, <3>2 DEF Joined, Targets
    <2> QED  BY <2>2, <2>3
<1>5. CASE CheckVotes \/ JoinPushes \/ Return
    <2>1. /\ UNCHANGED <<round, slaves, vote>>
          /\ pc' \notin {"reset", "init", "spawn", "join", "check"}
          /\ pc' \in {"push", "commit"} => pc \in {"check", "push"}
        BY <1>5 DEF CheckVotes, JoinPushes, Return, threads
    <2>2. Targets' = Targets
        BY <2>1 DEF Targets
    <2> QED  BY <2>1, <2>2 DEF Joined
<1>6. ASSUME NEW r \in Rounds, NEW s \in Slaves, VoteThread(<<r, s>>)
      PROVE  Joined'
    <2>1. /\ UNCHANGED <<pc, round, slaves, i>>
          /\ Running(<<r, s>>)
          /\ \A q \in Rounds, u \in Slaves :
                  q # r \/ u # s => vote'[<<q, u>>] = vote[<<q, u>>]
        BY <1>6, ThreadFrame
    <2>2. ASSUME NEW u \in Slaves, round \in Rounds,
                 vote[<<round, u>>] \in {"refused", "counted"}
          PROVE  vote'[<<round, u>>] = vote[<<round, u>>]
        <3>1. round # r \/ u # s
            BY <2>1, <2>2 DEF Running, Over
        <3> QED  BY <2>1, <2>2, <3>1
    <2>3. pc # "loop" => round \in Rounds
        BY DEF Arguments
    <2>4. Targets' = Targets /\ Targets \subseteq Slaves
        BY <2>1, TargetsFacts DEF Targets
    <2>5. \A j \in 1..Len(slaves) : slaves[j] \in Slaves
        BY DEF TypeOK
    <2>6. CASE pc = "join"
        <3>1. i \in 1..Len(slaves)
            BY <2>6 DEF Joined
        <3>2. \A j \in 1..(i - 1) :
                 vote'[<<round, slaves[j]>>] \in {"refused", "counted"}
            BY <2>2, <2>3, <2>5, <2>6, <3>1 DEF Joined
        <3> QED  BY <2>1, <2>6, <3>1, <3>2 DEF Joined
    <2>7. CASE pc # "join"
        BY <2>1, <2>2, <2>3, <2>4, <2>7 DEF Joined
    <2> QED  BY <2>6, <2>7
<1>7. CASE (\E s \in Slaves : PushThread(s) \/ Crash(s)) \/ UNCHANGED vars
    <2>1. UNCHANGED <<pc, round, slaves, i, vote>>
        BY <1>7, OthersFrame
    <2> QED  BY <2>1 DEF Joined, Targets
<1> QED  BY <1>1, <1>2, <1>3, <1>4, <1>5, <1>6, <1>7, StepCases DEF Master

\* Every step keeps Fresh.
LEMMA FreshStep ==
    ASSUME TypeOK, Arguments, Fresh, [Next]_vars
    PROVE  Fresh'
<1>1. CASE \E a, b \in Slaves : Put(<<a>>) \/ Put(<<a, b>>)
    BY <1>1, PutFrame DEF Fresh, InCall
<1>2. CASE ResetSuccesses
    <2>1. clean' = (\A k \in Threads : ~ Running(k)) /\ vote' = vote
        BY <1>2 DEF ResetSuccesses, threads
    <2>2. ASSUME clean', NEW r \in Rounds, NEW s \in Slaves
          PROVE  ~ Running(<<r, s>>)'
        <3>1. <<r, s>> \in Threads
            BY DEF Threads
        <3> QED  BY <2>1, <2>2, <3>1 DEF Running
    <2> QED  BY <2>2 DEF Fresh
<1>3. CASE SpawnVotes
    <2>1. pc = "spawn" /\ round' = round /\ clean' = clean
        BY <1>3 DEF SpawnVotes
    <2>2. ASSUME NEW r \in Rounds, NEW s \in Slaves, r < round
          PROVE  vote'[<<r, s>>] = vote[<<r, s>>]
        <3>1. r # round
            BY <2>1, <2>2, CommitAssumption DEF Arguments, Rounds
        <3> QED  BY <1>3, <3>1 DEF SpawnVotes, Threads
    <2> QED  BY <2>1, <2>2 DEF Fresh, Running, InCall
<1>4. CASE Master /\ ~ ResetSuccesses /\ ~ SpawnVotes
    <2>1. /\ UNCHANGED <<round, vote, clean>>
          /\ pc \in InCall
        BY <1>4 DEF Master, InitLock, JoinVote, CheckVotes, JoinPushes, Return,
                    threads, InCall
    <2> QED  BY <2>1 DEF Fresh, Running
<1>5. ASSUME NEW r \in Rounds, NEW s \in Slaves, VoteThread(<<r, s>>)
      PROVE  Fresh'
    <2>1. /\ UNCHANGED <<pc, round, clean>>
          /\ Running(<<r, s>>)
          /\ \A q \in Rounds, u \in Slaves :
                  q # r \/ u # s => vote'[<<q, u>>] = vote[<<q, u>>]
        BY <1>5, ThreadFrame
    <2>2. ASSUME NEW q \in Rounds, NEW u \in Slaves, ~ Running(<<q, u>>)
          PROVE  vote'[<<q, u>>] = vote[<<q, u>>]
        <3>1. q # r \/ u # s
            BY <2>1, <2>2
        <3> QED  BY <2>1, <3>1
    <2> QED  BY <2>1, <2>2 DEF Fresh, Running
<1>6. CASE (\E s \in Slaves : PushThread(s) \/ Crash(s)) \/ UNCHANGED vars
    <2>1. UNCHANGED <<pc, round, clean, vote>>
        BY <1>6, OthersFrame
    <2> QED  BY <2>1 DEF Fresh, Running
<1> QED  BY <1>1, <1>2, <1>3, <1>4, <1>5, <1>6, StepCases DEF Master

\* In a clean call only the threads of this round move, while the master
\* joins them or after it has given up.
LEMMA CleanThread ==
    ASSUME TypeOK, Arguments, Spawned, Joined, Fresh,
           clean, pc \in InCall,
           NEW r \in Rounds, NEW s \in Slaves, Running(<<r, s>>)
    PROVE  r = round /\ s \in Targets /\ pc \in {"join", "abort"}
<1>1. round \in Rounds
    BY DEF InCall, Arguments
<1>2. ~ (r < round)
    BY DEF Fresh
<1>3. r = round /\ s \in Targets /\ pc \notin {"reset", "init", "spawn"}
    BY <1>2 DEF Running, Spawned
<1>4. pc \notin {"check", "push", "commit"}
    BY <1>3 DEF Joined, Running, Over
<1> QED  BY <1>3, <1>4 DEF InCall

\* Every step keeps MutexLives.
LEMMA MutexLivesStep ==
    ASSUME TypeOK, MutexLives, [Next]_vars
    PROVE  MutexLives'
<1>1. CASE \E a, b \in Slaves : Put(<<a>>) \/ Put(<<a, b>>)
    BY <1>1, PutFrame DEF MutexLives
<1>2. CASE Master
    BY <1>2 DEF MutexLives, Master, ResetSuccesses, InitLock, SpawnVotes,
                JoinVote, CheckVotes, JoinPushes, Return, globals
<1>3. ASSUME NEW r \in Rounds, NEW s \in Slaves, VoteThread(<<r, s>>)
      PROVE  MutexLives'
    <2>1. pc' = pc
        BY <1>3, ThreadFrame
    <2>2. lock # "destroyed" => lock' # "destroyed"
        BY <1>3 DEF VoteThread, VoteConnect, VoteAnswered, VoteLost, Lock,
                    Load, Store, Unlock, globals
    <2> QED  BY <2>1, <2>2 DEF MutexLives
<1>4. CASE (\E s \in Slaves : PushThread(s) \/ Crash(s)) \/ UNCHANGED vars
    BY <1>4, OthersFrame DEF MutexLives
<1> QED  BY <1>1, <1>2, <1>3, <1>4, StepCases

\* While the threads of a round do not exist, none of them is anywhere.
LEMMA NotSpawned ==
    ASSUME TypeOK, Arguments, Spawned, pc \in {"reset", "init", "spawn"}
    PROVE  \A s \in Slaves : vote[<<round, s>>] = "none"
<1>1. round \in Rounds
    BY DEF Arguments
<1>2. ~ (round < round)
    BY <1>1, CommitAssumption DEF Rounds
<1> QED  BY <1>1, <1>2 DEF Spawned

\* Every step keeps Exclusion.
LEMMA ExclusionStep ==
    ASSUME TypeOK, Arguments, Spawned, Joined, Fresh, MutexLives, Exclusion,
           [Next]_vars
    PROVE  Exclusion'
<1>1. CASE \E a, b \in Slaves : Put(<<a>>) \/ Put(<<a, b>>)
    BY <1>1, PutFrame DEF Exclusion, InCall
<1>2. CASE ResetSuccesses
    BY <1>2 DEF ResetSuccesses, Exclusion
<1>3. CASE InitLock
    <2>1. pc = "init" /\ UNCHANGED <<round, vote>>
        BY <1>3 DEF InitLock, threads
    <2>2. \A s \in Slaves : vote[<<round, s>>] = "none"
        BY <2>1, NotSpawned
    <2> QED  BY <2>1, <2>2 DEF Exclusion, Critical
<1>4. CASE SpawnVotes
    <2>1. pc = "spawn" /\ round' = round
        BY <1>4 DEF SpawnVotes
    <2>2. \A s \in Slaves : vote[<<round, s>>] = "none"
        BY <2>1, NotSpawned
    <2>3. round \in Rounds
        BY <2>1 DEF Arguments
    <2>4. \A s \in Slaves : vote'[<<round, s>>] \in {"none", "connect"}
        BY <1>4, <2>2, <2>3 DEF SpawnVotes, Threads
    <2> QED  BY <2>1, <2>4 DEF Exclusion, Critical
<1>5. CASE JoinVote \/ CheckVotes \/ Return
    <2>1. /\ UNCHANGED <<round, vote, reg, lock, successes, clean>>
          /\ pc \in InCall \ {"init"}
        BY <1>5 DEF JoinVote, CheckVotes, Return, globals, threads, InCall
    <2> QED  BY <2>1 DEF Exclusion
<1>6. CASE JoinPushes
    <2>1. /\ pc = "push" /\ pc' = "commit"
          /\ UNCHANGED <<round, vote, clean>>
        BY <1>6 DEF JoinPushes, threads
    <2>2. ASSUME clean, NEW s \in Slaves
          PROVE  vote[<<round, s>>] \notin Critical
        <3>1. round \in Rounds
            BY <2>1 DEF Arguments
        <3>2. ~ Running(<<round, s>>)
            BY <2>1, <2>2, <3>1, CleanThread DEF InCall
        <3> QED  BY <3>2 DEF Running, Over, Critical
    <2> QED  BY <2>1, <2>2 DEF Exclusion
<1>7. ASSUME NEW r \in Rounds, NEW s \in Slaves, VoteThread(<<r, s>>)
      PROVE  Exclusion'
    <2>1. SUFFICES ASSUME clean, pc \in InCall
                   PROVE  Exclusion'
        BY <1>7, ThreadFrame DEF Exclusion
    <2>2. /\ UNCHANGED <<pc, round, clean>> /\ Running(<<r, s>>)
          /\ \A q \in Rounds, u \in Slaves :
                  q # r \/ u # s => vote'[<<q, u>>] = vote[<<q, u>>]
        BY <1>7, ThreadFrame
    <2>3. r = round /\ pc \in {"join", "abort"}
        BY <2>1, <2>2, CleanThread
    <2>4. \A u \in Slaves : u # s => vote'[<<round, u>>] = vote[<<round, u>>]
        BY <2>2, <2>3
    <2>5. lock # "destroyed"
        BY <2>3 DEF MutexLives
    <2>6. \A u \in Slaves : vote[<<round, u>>] \in Critical =>
              /\ lock = "held"
              /\ vote[<<round, u>>] = "store" => reg[<<round, u>>] = successes
              /\ \A v \in Slaves : vote[<<round, v>>] \in Critical => v = u
        BY <2>1, <2>3 DEF Exclusion, InCall
    <2>7. <<round, s>> \in Threads /\ vote \in [Threads -> Over \cup {"none",
               "connect", "call", "lock", "load", "store", "unlock"}]
               /\ reg \in [Threads -> Nat]
        BY <2>3 DEF Threads, TypeOK
    <2> SUFFICES \A u \in Slaves : vote'[<<round, u>>] \in Critical =>
              /\ lock' = "held"
              /\ vote'[<<round, u>>] = "store" => reg'[<<round, u>>] = successes'
              /\ \A v \in Slaves : vote'[<<round, v>>] \in Critical => v = u
        BY <2>2 DEF Exclusion
    <2>8. CASE VoteConnect(<<r, s>>) \/ VoteAnswered(<<r, s>>) \/ VoteLost(<<r, s>>)
        <3>1. /\ UNCHANGED <<lock, successes, reg>>
              /\ vote'[<<round, s>>] \notin Critical
            BY <2>3, <2>7, <2>8 DEF VoteConnect, VoteAnswered, VoteLost, At,
                    Goto, globals, Critical
        <3> QED  BY <2>4, <2>6, <3>1
    <2>9. CASE Lock(<<r, s>>)
        <3>1. lock = "free" /\ lock' = "held" /\ UNCHANGED <<successes, reg>>
            BY <2>5, <2>9 DEF Lock, TypeOK
        <3>2. \A u \in Slaves : vote[<<round, u>>] \notin Critical
            BY <2>6, <3>1
        <3>3. vote'[<<round, s>>] = "load"
            BY <2>3, <2>7, <2>9 DEF Lock, Goto
        <3> QED  BY <2>4, <3>1, <3>2, <3>3
    <2>10. CASE Load(<<r, s>>)
        <3>1. /\ vote[<<round, s>>] \in Critical
              /\ vote'[<<round, s>>] = "store"
              /\ reg'[<<round, s>>] = successes
              /\ UNCHANGED <<lock, successes>>
            BY <2>3, <2>7, <2>10 DEF Load, At, Goto, Critical, globals
        <3> QED  BY <2>4, <2>6, <3>1
    <2>11. CASE Store(<<r, s>>)
        <3>1. /\ vote[<<round, s>>] \in Critical
              /\ vote'[<<round, s>>] = "unlock"
              /\ UNCHANGED lock
            BY <2>3, <2>7, <2>11 DEF Store, At, Goto, Critical
        <3> QED  BY <2>4, <2>6, <3>1
    <2>12. CASE Unlock(<<r, s>>)
        <3>1. /\ vote[<<round, s>>] \in Critical
              /\ vote'[<<round, s>>] = "counted"
            BY <2>3, <2>7, <2>12 DEF Unlock, At, Goto, Critical
        <3>2. \A u \in Slaves : vote'[<<round, u>>] \notin Critical
            BY <2>4, <2>6, <3>1 DEF Critical
        <3> QED  BY <3>2
    <2> QED  BY <1>7, <2>8, <2>9, <2>10, <2>11, <2>12 DEF VoteThread
<1>8. CASE (\E s \in Slaves : PushThread(s) \/ Crash(s)) \/ UNCHANGED vars
    <2>1. UNCHANGED <<pc, round, clean, successes, lock, vote, reg>>
        BY <1>8, OthersFrame
    <2> QED  BY <2>1 DEF Exclusion
<1> QED  BY <1>1, <1>2, <1>3, <1>4, <1>5, <1>6, <1>7, <1>8, StepCases
         DEF Master

\* Every step keeps Tallied.
LEMMA TalliedStep ==
    ASSUME TypeOK, Arguments, Spawned, Joined, Fresh, Exclusion, Tallied,
           [Next]_vars
    PROVE  Tallied'
<1>1. CASE \E a, b \in Slaves : Put(<<a>>) \/ Put(<<a, b>>)
    BY <1>1, PutFrame DEF Tallied, InCall
<1>2. CASE ResetSuccesses
    <2>1. pc = "reset" /\ UNCHANGED <<round, vote>> /\ successes' = 0
        BY <1>2 DEF ResetSuccesses, threads
    <2>2. \A s \in Slaves : vote[<<round, s>>] = "none"
        BY <2>1, NotSpawned
    <2>3. Tally' = {}
        BY <2>1, <2>2 DEF Tally
    <2> QED  BY <2>1, <2>3, FS_EmptySet DEF Tallied
<1>3. CASE SpawnVotes
    <2>1. pc = "spawn" /\ UNCHANGED <<round, successes, clean>>
        BY <1>3 DEF SpawnVotes, globals
    <2>2. \A s \in Slaves : vote[<<round, s>>] = "none"
        BY <2>1, NotSpawned
    <2>3. round \in Rounds
        BY <2>1 DEF Arguments
    <2>4. \A s \in Slaves : vote'[<<round, s>>] \in {"none", "connect"}
        BY <1>3, <2>2, <2>3 DEF SpawnVotes, Threads
    <2>5. Tally' = Tally
        BY <2>1, <2>2, <2>4 DEF Tally
    <2> QED  BY <2>1, <2>5 DEF Tallied, InCall
<1>4. CASE Master /\ ~ ResetSuccesses /\ ~ SpawnVotes
    <2>1. /\ UNCHANGED <<round, vote, successes, clean>>
          /\ pc \in InCall
        BY <1>4 DEF Master, InitLock, JoinVote, CheckVotes, JoinPushes, Return,
                    globals, threads, InCall
    <2> QED  BY <2>1 DEF Tallied, Tally
<1>5. ASSUME NEW r \in Rounds, NEW s \in Slaves, VoteThread(<<r, s>>)
      PROVE  Tallied'
    <2>1. SUFFICES ASSUME clean, pc \in InCall
                   PROVE  Tallied'
        BY <1>5, ThreadFrame DEF Tallied
    <2>2. /\ UNCHANGED <<pc, round, clean>> /\ Running(<<r, s>>)
          /\ \A q \in Rounds, u \in Slaves :
                  q # r \/ u # s => vote'[<<q, u>>] = vote[<<q, u>>]
        BY <1>5, ThreadFrame
    <2>3. r = round /\ pc \in {"join", "abort"}
        BY <2>1, <2>2, CleanThread
    <2>4. \A u \in Slaves : u # s => vote'[<<round, u>>] = vote[<<round, u>>]
        BY <2>2, <2>3
    <2>5. <<round, s>> \in Threads /\ vote \in [Threads -> Over \cup {"none",
               "connect", "call", "lock", "load", "store", "unlock"}]
        BY <2>3 DEF Threads, TypeOK
    <2>6. successes = Cardinality(Tally)
        BY <2>1 DEF Tallied
    <2>7. CASE Store(<<r, s>>)
        <3>1. /\ vote[<<round, s>>] = "store" /\ vote'[<<round, s>>] = "unlock"
              /\ successes' = reg[<<round, s>>] + 1
            BY <2>3, <2>5, <2>7 DEF Store, At, Goto
        <3>2. reg[<<round, s>>] = successes
            BY <2>1, <2>3, <3>1 DEF Exclusion, Critical, InCall
        <3>3. Tally' = Tally \cup {s} /\ s \notin Tally
            BY <2>2, <2>4, <3>1 DEF Tally
        <3>4. Cardinality(Tally \cup {s}) = Cardinality(Tally) + 1
            BY <3>3, TallyFinite, FS_AddElement
        <3> QED  BY <2>6, <3>1, <3>2, <3>3, <3>4 DEF Tallied
    <2>8. CASE ~ Store(<<r, s>>)
        <3>1. /\ successes' = successes
              /\ vote[<<round, s>>] \in {"unlock", "counted"} <=>
                 vote'[<<round, s>>] \in {"unlock", "counted"}
            BY <1>5, <2>3, <2>5, <2>8 DEF VoteThread, VoteConnect,
                VoteAnswered, VoteLost, Lock, Load, Unlock, At, Goto, globals
        <3>2. Tally' = Tally
            BY <2>2, <2>4, <3>1 DEF Tally
        <3> QED  BY <2>6, <3>1, <3>2 DEF Tallied
    <2> QED  BY <2>7, <2>8
<1>6. CASE (\E s \in Slaves : PushThread(s) \/ Crash(s)) \/ UNCHANGED vars
    <2>1. UNCHANGED <<pc, round, clean, successes, vote>>
        BY <1>6, OthersFrame
    <2> QED  BY <2>1 DEF Tallied, Tally
<1> QED  BY <1>1, <1>2, <1>3, <1>4, <1>5, <1>6, StepCases DEF Master

\* After the joins of a clean round, the votes counted are as many as the
\* slaves asked exactly when every one of them voted.
LEMMA CountDecides ==
    ASSUME TypeOK, Arguments, Spawned, Joined, Tallied, clean, pc = "check"
    PROVE  successes = Len(slaves) <=>
              \A s \in Targets : vote[<<round, s>>] = "counted"
<1>1. /\ Targets \subseteq Slaves /\ IsFiniteSet(Targets)
      /\ Cardinality(Targets) = Len(slaves)
    BY TargetsFacts
<1>2. round \in Rounds /\ ~ (round < round)
    BY CommitAssumption DEF Arguments, Rounds
<1>3. Tally \subseteq Targets
    BY <1>2 DEF Tally, Spawned
<1>4. successes = Cardinality(Tally)
    BY DEF Tallied, InCall
<1>5. Cardinality(Tally) = Cardinality(Targets) <=> Tally = Targets
    BY <1>1, <1>3, FS_Subset
<1>6. \A s \in Targets : vote[<<round, s>>] \in {"refused", "counted"}
    BY DEF Joined
<1>7. Tally = Targets <=> \A s \in Targets : vote[<<round, s>>] = "counted"
    BY <1>1, <1>3, <1>6 DEF Tally
<1> QED  BY <1>1, <1>4, <1>5, <1>7

\* Every step keeps Outcome.
LEMMA OutcomeStep ==
    ASSUME TypeOK, Arguments, Spawned, Joined, Tallied, Outcome, [Next]_vars
    PROVE  Outcome'
<1>1. CASE \E a, b \in Slaves : Put(<<a>>) \/ Put(<<a, b>>)
    BY <1>1, PutFrame DEF Outcome
<1>2. CASE Master /\ ~ JoinVote /\ ~ CheckVotes
    BY <1>2 DEF Outcome, Master, ResetSuccesses, InitLock, SpawnVotes,
                JoinPushes, Return
<1>3. CASE JoinVote
    <2>1. /\ pc' \in {"join", "check", "abort"}
          /\ UNCHANGED <<round, slaves, vote>> /\ i \in 1..Len(slaves)
          /\ pc' = "abort" => vote[<<round, slaves[i]>>] = "failed"
        BY <1>3 DEF JoinVote, threads, Joined
    <2>2. slaves[i] \in Targets /\ Targets' = Targets
        BY <2>1 DEF Targets
    <2> QED  BY <2>1, <2>2 DEF Outcome
<1>4. CASE CheckVotes
    <2>1. /\ pc = "check" /\ UNCHANGED <<round, slaves, vote, clean>>
          /\ pc' = IF successes # Len(slaves) THEN "abort" ELSE "push"
        BY <1>4 DEF CheckVotes
    <2>2. Targets' = Targets
        BY <2>1 DEF Targets
    <2>3. \A s \in Targets : vote[<<round, s>>] \in {"refused", "counted"}
        BY <2>1 DEF Joined
    <2>4. clean => (successes = Len(slaves) <=>
              \A s \in Targets : vote[<<round, s>>] = "counted")
        BY <2>1, CountDecides
    <2> QED  BY <2>1, <2>2, <2>3, <2>4 DEF Outcome
<1>5. ASSUME NEW r \in Rounds, NEW s \in Slaves, VoteThread(<<r, s>>)
      PROVE  Outcome'
    <2>1. /\ UNCHANGED <<pc, round, slaves, clean>> /\ Running(<<r, s>>)
          /\ \A q \in Rounds, u \in Slaves :
                  q # r \/ u # s => vote'[<<q, u>>] = vote[<<q, u>>]
        BY <1>5, ThreadFrame
    <2>2. ASSUME NEW u \in Slaves, round \in Rounds, vote[<<round, u>>] \in Over
          PROVE  vote'[<<round, u>>] = vote[<<round, u>>]
        <3>1. round # r \/ u # s
            BY <2>1, <2>2 DEF Running
        <3> QED  BY <2>1, <2>2, <3>1
    <2>3. pc # "loop" => round \in Rounds
        BY DEF Arguments
    <2>4. Targets' = Targets /\ Targets \subseteq Slaves
        BY <2>1, TargetsFacts DEF Targets
    <2> QED  BY <2>1, <2>2, <2>3, <2>4 DEF Outcome, Over
<1>6. CASE (\E s \in Slaves : PushThread(s) \/ Crash(s)) \/ UNCHANGED vars
    <2>1. UNCHANGED <<pc, round, slaves, clean, vote>>
        BY <1>6, OthersFrame
    <2> QED  BY <2>1 DEF Outcome, Targets
<1> QED  BY <1>1, <1>2, <1>3, <1>4, <1>5, <1>6, StepCases DEF Master

\* Every step keeps Pushed.
LEMMA PushedStep ==
    ASSUME TypeOK, Arguments, Pushed, [Next]_vars
    PROVE  Pushed'
<1>1. CASE \E a, b \in Slaves : Put(<<a>>) \/ Put(<<a, b>>)
    BY <1>1, PutFrame DEF Pushed
<1>2. CASE Master /\ ~ CheckVotes /\ ~ JoinPushes
    BY <1>2 DEF Pushed, Master, ResetSuccesses, InitLock, SpawnVotes, JoinVote,
                Return
<1>3. CASE CheckVotes
    <2>1. /\ pc' = "abort" \/ (pc' = "push" /\ push' =
                    [s \in Slaves |-> IF s \in Targets THEN "connect" ELSE "none"])
          /\ UNCHANGED <<slaves, alive, stored, round>>
        BY <1>3 DEF CheckVotes
    <2>2. Targets' = Targets /\ Targets \subseteq Slaves
        BY <2>1, TargetsFacts DEF Targets
    <2> QED  BY <2>1, <2>2 DEF Pushed
<1>4. CASE JoinPushes
    <2>1. /\ pc = "push" /\ UNCHANGED <<slaves, alive, stored, round, push>>
          /\ \A s \in Targets : push[s] = "done"
        BY <1>4 DEF JoinPushes, threads
    <2>2. Targets' = Targets
        BY <2>1 DEF Targets
    <2> QED  BY <2>1, <2>2 DEF Pushed
<1>5. CASE \E r \in Rounds, s \in Slaves : VoteThread(<<r, s>>)
    <2>1. UNCHANGED <<pc, slaves, alive, stored, round, push>>
        BY <1>5, ThreadFrame
    <2> QED  BY <2>1 DEF Pushed, Targets
<1>6. ASSUME NEW s \in Slaves, PushThread(s) \/ Crash(s)
      PROVE  Pushed'
    <2>1. UNCHANGED <<pc, slaves, round>>
        BY <1>6, OthersFrame
    <2>2. Targets' = Targets
        BY <2>1 DEF Targets
    <2>3. /\ alive' \subseteq alive
          /\ \A u \in Slaves : push[u] = "done" =>
                push'[u] = "done" /\ stored'[u] = stored[u]
          /\ \A u \in Slaves : u \in alive' /\ push'[u] = "done" =>
                push[u] = "done" \/ stored'[u] = round
        BY <1>6 DEF PushThread, PushConnect, PushCall, Crash, TypeOK, threads
    <2>4. Targets \subseteq Slaves
        BY TargetsFacts
    <2> QED  BY <2>1, <2>2, <2>3, <2>4 DEF Pushed
<1>7. CASE UNCHANGED vars
    BY <1>7 DEF Pushed, Targets, vars, master, threads
<1> QED  BY <1>1, <1>2, <1>3, <1>4, <1>5, <1>6, <1>7, StepCases DEF Master

-----------------------------------------------------------------------------
(* The results. *)

\* The invariant holds at first.
LEMMA InitIInv == Init => IInv
<1> SUFFICES ASSUME Init  PROVE IInv
    OBVIOUS
<1>1. TypeOK
    BY CommitAssumption DEF Init, TypeOK
<1>2. Arguments /\ Spawned /\ Joined /\ Fresh /\ Tallied /\ Exclusion
      /\ MutexLives /\ Outcome /\ Pushed
    BY DEF Init, Arguments, Spawned, Joined, Fresh, Tallied, Exclusion,
           MutexLives, Outcome, Pushed, InCall, Threads
<1> QED  BY <1>1, <1>2 DEF IInv

\* Every step keeps the invariant.
LEMMA NextIInv == IInv /\ [Next]_vars => IInv'
BY TypeStep, ArgumentsStep, SpawnedStep, JoinedStep, FreshStep, TalliedStep,
   ExclusionStep, MutexLivesStep, OutcomeStep, PushedStep DEF IInv

\* The invariant always holds.
LEMMA SpecIInv == Spec => []IInv
BY InitIInv, NextIInv, PTL DEF Spec

(* Every variable of commit_vector keeps its type, whatever the slaves do. *)
THEOREM CommitTypeCorrect == Spec => []TypeOK
<1>1. IInv => TypeOK
    BY DEF IInv
<1> QED  BY <1>1, SpecIInv, PTL

(* Phase 2 of a clean round follows the votes of all its slaves, for any   *)
(* number of slaves and puts: the lock makes successes an exact count.     *)
THEOREM CleanRoundsAreUnanimous == Spec => []CleanRoundIsUnanimous
<1>1. IInv => CleanRoundIsUnanimous
    BY DEF IInv, Outcome, CleanRoundIsUnanimous
<1> QED  BY <1>1, SpecIInv, PTL

(* A clean round fails only because a slave did not vote: the increments   *)
(* of two threads never overwrite each other.                              *)
THEOREM CleanRoundsLoseNoVote == Spec => []CleanRoundLosesNoVote
<1>1. IInv => CleanRoundLosesNoVote
    BY DEF IInv, Outcome, CleanRoundLosesNoVote
<1> QED  BY <1>1, SpecIInv, PTL

(* When commit_vector returns 0, the slaves it was given that still run    *)
(* have the vector.                                                        *)
THEOREM SuccessAlwaysReachesTheLiving == Spec => []SuccessReachesTheLiving
<1>1. IInv => SuccessReachesTheLiving
    BY DEF IInv, Pushed, SuccessReachesTheLiving
<1> QED  BY <1>1, SpecIInv, PTL
=============================================================================
