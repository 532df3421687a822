--------------------------- MODULE TwoPhaseCommit ---------------------------
(***************************************************************************)
(* src/master/master_tpc_vector.c: commit_vector, which stores a vector on *)
(* the slaves the ring chose for it, with its vote threads and its push    *)
(* threads; and the slaves' commit_msg and commit_vec handlers.            *)
(*                                                                         *)
(* One call of commit_vector is a round.  When a vote thread cannot        *)
(* connect, commit_vector returns at once and leaves the threads it has    *)
(* not joined running: they share "successes" and "lock" with the next     *)
(* round.  The reads and writes of the two globals are steps of their own. *)
(***************************************************************************)
EXTENDS Integers, FiniteSets, Sequences

CONSTANTS
    Slaves,
    Slow,           \* slaves whose vote may take longer than TIME_TO_VOTE
    MaxRounds,      \* bound: how many puts arrive
    MaxCrashes      \* bound: how many slaves die

ASSUME CommitAssumption ==
    /\ IsFiniteSet(Slaves)
    /\ Slow \subseteq Slaves
    /\ MaxRounds \in Nat
    /\ MaxCrashes \in Nat

VARIABLES
    alive,          \* the slave processes that run
    pc,             \* where the master is in commit_vector
    round,          \* how many times commit_vector was called
    slaves,         \* the argument slaves[] of this call
    i,              \* the index of the thread to join next
    successes,      \* global
    lock,           \* global mutex: "free", "held" or "destroyed"
    vote,           \* vote[<<r, s>>]: the thread of round r that asks slave s
    reg,            \* reg[<<r, s>>]: what that thread read from successes
    push,           \* push[s]: this round's push_vector thread for slave s
    stored,         \* stored[s]: the last round whose vector s wrote to disk
    clean           \* history: no earlier thread ran when this round began

master  == <<pc, round, slaves, i, clean>>
globals == <<successes, lock>>
threads == <<vote, reg, push>>
vars    == <<alive, stored, master, globals, threads>>

Rounds == 1..MaxRounds

Threads == Rounds \X Slaves

\* slaves[0 .. num_slaves - 1] as a set
Targets == {slaves[j] : j \in 1..Len(slaves)}

\* The states in which a vote thread is over: it could not connect (exit
\* status 1), got no vote (status 0), or counted the vote (status 0).
Over == {"failed", "refused", "counted"}

Running(k) == vote[k] \notin Over \cup {"none"}

TypeOK ==
    /\ alive \subseteq Slaves
    /\ pc \in {"loop", "reset", "init", "spawn", "join", "check", "push",
               "commit", "abort"}
    /\ round \in 0..MaxRounds
    /\ slaves \in Seq(Slaves)
    /\ i \in 1..(Len(slaves) + 1)
    /\ successes \in Nat
    /\ lock \in {"free", "held", "destroyed"}
    /\ vote \in [Threads -> Over \cup {"none", "connect", "call", "lock",
                                       "load", "store", "unlock"}]
    /\ reg \in [Threads -> Nat]
    /\ push \in [Slaves -> {"none", "connect", "call", "done"}]
    /\ stored \in [Slaves -> 0..MaxRounds]
    /\ clean \in BOOLEAN

Init ==
    /\ alive = Slaves
    /\ pc = "loop"
    /\ round = 0
    /\ slaves = <<>>
    /\ i = 1
    /\ successes = 0
    /\ lock = "free"
    /\ vote = [k \in Threads |-> "none"]
    /\ reg = [k \in Threads |-> 0]
    /\ push = [s \in Slaves |-> "none"]
    /\ stored = [s \in Slaves |-> 0]
    /\ clean = TRUE

-----------------------------------------------------------------------------
(* The master thread. *)

\* main: the heartbeat has dropped the dead slaves, a put is taken off the
\* queue, and the ring names replication_factor of the others.
Put(targets) ==
    /\ pc = "loop"
    /\ round < MaxRounds
    /\ \A j \in DOMAIN targets : targets[j] \in alive
    /\ \A j, k \in DOMAIN targets : j # k => targets[j] # targets[k]
    /\ Len(targets) = IF Cardinality(alive) = 1 THEN 1 ELSE 2
    /\ pc' = "reset"
    /\ round' = round + 1
    /\ slaves' = targets
    /\ i' = 1
    /\ push' = [s \in Slaves |-> "none"]
    /\ UNCHANGED <<alive, stored, globals, vote, reg, clean>>

ResetSuccesses ==
    /\ pc = "reset"
    /\ pc' = "init"
    /\ successes' = 0
    /\ clean' = \A k \in Threads : ~ Running(k)
    /\ UNCHANGED <<alive, stored, round, slaves, i, lock, threads>>

\* pthread_mutex_init, whoever holds the mutex
InitLock ==
    /\ pc = "init"
    /\ pc' = "spawn"
    /\ lock' = "free"
    /\ UNCHANGED <<alive, stored, round, slaves, i, clean, successes, threads>>

SpawnVotes ==
    /\ pc = "spawn"
    /\ pc' = "join"
    /\ vote' = [k \in Threads |-> IF k[1] = round /\ k[2] \in Targets
                                  THEN "connect" ELSE vote[k]]
    /\ UNCHANGED <<alive, stored, round, slaves, i, clean, globals, reg, push>>

\* pthread_join; exit status 1 ends the call and leaves later threads alone
JoinVote ==
    /\ pc = "join"
    /\ i <= Len(slaves)
    /\ vote[<<round, slaves[i]>>] \in Over
    /\ IF vote[<<round, slaves[i]>>] = "failed"
       THEN pc' = "abort" /\ i' = i
       ELSE /\ pc' = IF i = Len(slaves) THEN "check" ELSE "join"
            /\ i' = i + 1
    /\ UNCHANGED <<alive, stored, round, slaves, clean, globals, threads>>

\* Mutant of CheckVotes: the joins are taken for the votes.
CheckNothing ==
    /\ pc = "check"
    /\ pc' = "push"
    /\ push' = [s \in Slaves |-> IF s \in Targets THEN "connect" ELSE "none"]
    /\ UNCHANGED <<alive, stored, round, slaves, i, clean, globals, vote, reg>>

CheckVotes ==
    /\ pc = "check"
    /\ IF successes # Len(slaves)
       THEN pc' = "abort" /\ push' = push
       ELSE /\ pc' = "push"
            /\ push' = [s \in Slaves |-> IF s \in Targets THEN "connect"
                                                          ELSE "none"]
    /\ UNCHANGED <<alive, stored, round, slaves, i, clean, globals, vote, reg>>

\* Mutant of JoinPushes: it does not wait for the push threads.
JoinNoPush ==
    /\ pc = "push"
    /\ pc' = "commit"
    /\ lock' = IF lock = "held" THEN "held" ELSE "destroyed"
    /\ UNCHANGED <<alive, stored, round, slaves, i, clean, successes, threads>>

\* The push threads' exit statuses are not looked at.  Destroying a mutex
\* somebody holds fails with EBUSY.
JoinPushes ==
    /\ pc = "push"
    /\ \A s \in Targets : push[s] = "done"
    /\ pc' = "commit"
    /\ lock' = IF lock = "held" THEN "held" ELSE "destroyed"
    /\ UNCHANGED <<alive, stored, round, slaves, i, clean, successes, threads>>

Return ==
    /\ pc \in {"commit", "abort"}
    /\ pc' = "loop"
    /\ UNCHANGED <<alive, stored, round, slaves, i, clean, globals, threads>>

Master ==
    \/ ResetSuccesses \/ InitLock \/ SpawnVotes \/ JoinVote \/ CheckVotes
    \/ JoinPushes \/ Return

-----------------------------------------------------------------------------
(* get_commit_resp, the thread k = <<round, slave>>, and commit_msg. *)

At(k, here) == vote[k] = here

Goto(k, there) == vote' = [vote EXCEPT ![k] = there]

VoteConnect(k) ==
    /\ At(k, "connect")
    /\ Goto(k, IF k[2] \in alive THEN "call" ELSE "failed")
    /\ UNCHANGED <<alive, stored, master, globals, reg, push>>

\* commit_msg answers VOTE_COMMIT
VoteAnswered(k) ==
    /\ At(k, "call")
    /\ k[2] \in alive
    /\ Goto(k, "lock")
    /\ UNCHANGED <<alive, stored, master, globals, reg, push>>

\* no answer within TIME_TO_VOTE, or the connection broke: result is NULL
VoteLost(k) ==
    /\ At(k, "call")
    /\ k[2] \in Slow \/ k[2] \notin alive
    /\ Goto(k, "refused")
    /\ UNCHANGED <<alive, stored, master, globals, reg, push>>

\* Mutant of Lock: the counter is not protected.
NoLock(k) ==
    /\ At(k, "lock")
    /\ Goto(k, "load")
    /\ UNCHANGED <<alive, stored, master, globals, reg, push>>

\* pthread_mutex_lock; on a destroyed mutex it fails, which nobody looks at
Lock(k) ==
    /\ At(k, "lock")
    /\ lock # "held"
    /\ lock' = IF lock = "free" THEN "held" ELSE lock
    /\ Goto(k, "load")
    /\ UNCHANGED <<alive, stored, master, successes, reg, push>>

Load(k) ==
    /\ At(k, "load")
    /\ reg' = [reg EXCEPT ![k] = successes]
    /\ Goto(k, "store")
    /\ UNCHANGED <<alive, stored, master, globals, push>>

\* Mutant of Store: it counts down.
StoreDown(k) ==
    /\ At(k, "store")
    /\ successes' = reg[k] - 1
    /\ Goto(k, "unlock")
    /\ UNCHANGED <<alive, stored, master, lock, reg, push>>

Store(k) ==
    /\ At(k, "store")
    /\ successes' = reg[k] + 1
    /\ reg' = [reg EXCEPT ![k] = 0]
    /\ Goto(k, "unlock")
    /\ UNCHANGED <<alive, stored, master, lock, push>>

\* Mutant of Unlock: the mutex stays locked.
NoUnlock(k) ==
    /\ At(k, "unlock")
    /\ Goto(k, "counted")
    /\ UNCHANGED <<alive, stored, master, globals, reg, push>>

\* pthread_mutex_unlock does not check who locked
Unlock(k) ==
    /\ At(k, "unlock")
    /\ lock' = IF lock = "held" THEN "free" ELSE lock
    /\ Goto(k, "counted")
    /\ UNCHANGED <<alive, stored, master, successes, reg, push>>

VoteThread(k) ==
    \/ VoteConnect(k) \/ VoteAnswered(k) \/ VoteLost(k)
    \/ Lock(k) \/ Load(k) \/ Store(k) \/ Unlock(k)

-----------------------------------------------------------------------------
(* push_vector, the thread for slave s, and commit_vec. *)

PushConnect(s) ==
    /\ push[s] = "connect"
    /\ push' = [push EXCEPT ![s] = IF s \in alive THEN "call" ELSE "done"]
    /\ UNCHANGED <<alive, stored, master, globals, vote, reg>>

\* A slave that died answers nothing, and the thread returns 1.
PushCall(s) ==
    /\ push[s] = "call"
    /\ push' = [push EXCEPT ![s] = "done"]
    /\ stored' = IF s \in alive THEN [stored EXCEPT ![s] = round] ELSE stored
    /\ UNCHANGED <<alive, master, globals, vote, reg>>

PushThread(s) == PushConnect(s) \/ PushCall(s)

-----------------------------------------------------------------------------
(* A slave process dies, and is not restarted. *)

Crash(s) ==
    /\ s \in alive
    /\ Cardinality(Slaves \ alive) < MaxCrashes
    /\ alive' = alive \ {s}
    /\ UNCHANGED <<stored, master, globals, threads>>

Next ==
    \/ \E a, b \in Slaves : Put(<<a>>) \/ Put(<<a, b>>)
    \/ Master
    \/ \E k \in Threads : VoteThread(k)
    \/ \E s \in Slaves : PushThread(s) \/ Crash(s)

(***************************************************************************)
(* The operating system runs every thread; every RPC returns, since votes  *)
(* carry a timeout and rpcgen's stubs a longer one.  Neither the arrival   *)
(* of puts nor a crash is bound to happen.                                 *)
(***************************************************************************)
Fairness ==
    /\ WF_vars(Master)
    /\ \A k \in Threads : WF_vars(VoteThread(k))
    /\ \A s \in Slaves : WF_vars(PushThread(s))

Spec == Init /\ [][Next]_vars /\ Fairness

-----------------------------------------------------------------------------
(***************************************************************************)
(* When no vote thread outlived its round, phase 2 starts only after every *)
(* slave of this round voted to commit: "check if all slaves can commit"   *)
(* (master_tpc_vector.c:45-48).                                            *)
(***************************************************************************)
CleanRoundIsUnanimous ==
    clean /\ pc = "push" =>
        \A s \in Targets : vote[<<round, s>>] = "counted"

(***************************************************************************)
(* When no vote thread outlived its round, commit_vector fails only if     *)
(* some slave did not vote: no vote is lost between the threads that count *)
(* them.  (main drops the put when commit_vector fails.)                   *)
(***************************************************************************)
CleanRoundLosesNoVote ==
    clean /\ pc = "abort" =>
        \E s \in Targets : vote[<<round, s>>] # "counted"

(***************************************************************************)
(* When commit_vector returns 0 every slave it was given that still runs   *)
(* has the vector on disk, clean round or not.                             *)
(***************************************************************************)
SuccessReachesTheLiving ==
    pc = "commit" => \A s \in Targets \cap alive : stored[s] = round

(***************************************************************************)
(* commit_vector returns, whichever slaves die or are slow, and whatever   *)
(* threads of earlier rounds do to the mutex: the master's only thread is  *)
(* never stuck in a join.                                                  *)
(***************************************************************************)
CommitReturns == (pc = "reset") ~> (pc = "loop")

(***************************************************************************)
(* The comment at master_tpc_vector.c:45, of every round.                  *)
(***************************************************************************)
AllVotedBeforePush ==
    pc = "push" => \A s \in Targets : vote[<<round, s>>] = "counted"
=============================================================================
