------------------------------- MODULE Query --------------------------------
(***************************************************************************)
(* What a range query does for its caller, and to the slaves, whatever the *)
(* order of the calls behind it: the abstract specification of             *)
(* QueryPipe.tla, for starfish (src/master/master.c), rq_range_root        *)
(* (src/master/master_rq.c) and rq_pipe_1_svc (src/slave/slave.c).         *)
(***************************************************************************)
EXTENDS Naturals, Sequences, FiniteSets, Functions

CONSTANTS
    Slaves,     \* ids of slaves
    Slow        \* those that may take longer than an RPC's timeout

VARIABLES
    at,         \* at[r][v]: the slave that vector v of range r is asked from
    absent,     \* the <<slave, vector>> without a file
    alive,
    crashes,    \* how many slaves died of themselves
    status,     \* "asked", "success", "failure", or "down": the master is
    got         \* the vectors in the result

vars == <<at, absent, alive, crashes, status, got>>

Init ==
    /\ at # <<>>
    /\ \A r \in DOMAIN at : Range(at[r]) \subseteq Slaves
    /\ alive = Slaves
    /\ crashes = 0
    /\ status = "asked"
    /\ got = {}

AskedSlaves == UNION {Range(at[r]) : r \in DOMAIN at}

\* The slaves of a range answer in the order of their ids, the lowest first.
Lowest(ms) == CHOOSE m \in ms : \A n \in ms : m <= n

Coordinators == {Lowest(Range(at[r])) : r \in DOMAIN at}

Trouble ==
    \/ AskedSlaves \cap Slow # {}
    \/ ~ (AskedSlaves \subseteq alive)
    \/ \E r \in DOMAIN at : \E v \in DOMAIN at[r] : <<at[r][v], v>> \in absent

\* A success is a complete answer to the last range, from files that exist.
Succeed ==
    /\ status = "asked"
    /\ \A v \in DOMAIN at[Len(at)] : <<at[Len(at)][v], v>> \notin absent
    /\ status' = "success"
    /\ got' = DOMAIN at[Len(at)]
    /\ UNCHANGED <<at, absent, alive, crashes>>

Fail ==
    /\ status = "asked"
    /\ Trouble
    /\ status' = "failure"
    /\ UNCHANGED <<at, absent, alive, crashes, got>>

GoDown ==
    /\ status = "asked"
    /\ ~ (Coordinators \subseteq alive)
    /\ status' = "down"
    /\ UNCHANGED <<at, absent, alive, crashes, got>>

Crash(m) ==
    /\ m \in alive
    /\ alive' = alive \ {m}
    /\ crashes' = crashes + 1
    /\ UNCHANGED <<at, absent, status, got>>

\* Besides, a slave with one vector to read dies if the next slave of the
\* range is dead.
Kill(m) ==
    /\ m \in alive
    /\ \E r \in DOMAIN at :
          LET higher == {n \in Range(at[r]) : m < n}
          IN  /\ Cardinality({v \in DOMAIN at[r] : at[r][v] = m}) = 1
              /\ higher # {}
              /\ Lowest(higher) \notin alive
    /\ alive' = alive \ {m}
    /\ UNCHANGED <<at, absent, crashes, status, got>>

End == Succeed \/ Fail \/ GoDown

Next == End \/ \E m \in Slaves : Crash(m) \/ Kill(m)

Spec == Init /\ [][Next]_vars /\ WF_vars(End)
=============================================================================
