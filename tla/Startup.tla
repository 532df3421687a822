------------------------------ MODULE Startup -------------------------------
(***************************************************************************)
(* How the master comes up (main of src/master/master.c): it reads the     *)
(* addresses of the slaves from a file (src/util/slavelist.c), gives each  *)
(* an id, tells it that id (setup_slave of src/master/master_tpc_vector.c, *)
(* init_slave of src/slave/slave.c), links those that answered into        *)
(* slavelist, and puts what is linked on the ring.                         *)
(*                                                                         *)
(* Cluster.tla begins where this ends with every slave set up.             *)
(***************************************************************************)
EXTENDS Integers, Sequences, FiniteSets, FiniteSetsExt

CONSTANTS
    Addresses,      \* addresses of slaves
    Comment,        \* a line that begins with '#'
    Terminator,     \* a line that begins with 'T' or 't'
    NoFile,         \* fopen fails
    Files           \* the contents the file may have, sequences of lines

VARIABLES
    file,               \* the lines of SLAVELIST, or NoFile
    spc,                \* where main() is
    slave_addresses,    \* the master's table, from 1 where the code has 0
    slave_id_counter,
    num_slaves,
    replication_factor,
    slavelist,          \* the <<id, address>> that were linked
    filled,             \* the last cell of slavelist has a slave_node
    slave_id,           \* slave_id[a]: what the slave at a was told, or -1
    table               \* table[a]: slave_addresses of the slave at a

startupVars ==
    <<file, spc, slave_addresses, slave_id_counter, num_slaves,
      replication_factor, slavelist, filled, slave_id, table>>

StartupTypeOK ==
    /\ file \in Files
    /\ spc \in {"read", "setup", "up", "exit", "segv"}
    /\ slave_addresses \in Seq(Addresses)
    /\ slave_id_counter \in 0..Len(slave_addresses)
    /\ num_slaves = Len(slave_addresses)
    /\ replication_factor \in {1, 2}
    /\ slavelist \in Seq((0..(num_slaves - 1)) \X Addresses)
    /\ filled \in BOOLEAN
    /\ slave_id \in [Addresses -> -1..(num_slaves - 1)]
    /\ table \in [Addresses -> Seq(Addresses)]

StartupInit ==
    /\ file \in Files
    /\ spc = "read"
    /\ slave_addresses = <<>>
    /\ slave_id_counter = 0
    /\ num_slaves = 0
    /\ replication_factor = 2
    /\ slavelist = <<>>
    /\ filled = FALSE
    /\ slave_id = [a \in Addresses |-> -1]
    /\ table = [a \in Addresses |-> <<>>]

\* The addresses up to the terminator, if there is one.
fill_slave_arr(lines) ==
    LET end == Min({i \in DOMAIN lines : lines[i] = Terminator} \cup {Len(lines) + 1})
    IN  SelectSeq(SubSeq(lines, 1, end - 1), LAMBDA line : line # Comment)

\* No address is listed twice.
ASSUME StartupAssumption ==
    \A lines \in Files \ {NoFile} :
        LET as == fill_slave_arr(lines)
        IN  /\ as \in Seq(Addresses)
            /\ \A i, j \in DOMAIN as : as[i] = as[j] => i = j

ReadSlavelist ==
    /\ spc = "read"
    /\ IF file = NoFile
       THEN /\ spc' = "exit"
            /\ UNCHANGED <<slave_addresses, num_slaves, replication_factor>>
       ELSE /\ spc' = "setup"
            /\ slave_addresses' = fill_slave_arr(file)
            /\ num_slaves' = Len(fill_slave_arr(file))
            /\ replication_factor' = IF num_slaves' = 1 THEN 1 ELSE replication_factor
    /\ UNCHANGED <<file, slave_id_counter, slavelist, filled, slave_id, table>>

\* Mutant of NewId: an id is taken by the slaves that are linked only.
NewIdOfLinked == Len(slavelist)

\* Mutant of NewId: ids count from one, "0 is master" (master.c:68).
NewIdFromOne == slave_id_counter + 1

\* get_new_slave_id, called for every address
NewId == slave_id_counter

Address == slave_addresses[slave_id_counter + 1]

\* The slave at Address takes its id, and reads its own copy of the file.
TakesId == slave_id' = [slave_id EXCEPT ![Address] = NewId]

\* setup_slave could not connect, or the slave has no SLAVELIST to read.  The
\* address keeps its place in the table.
NotSetUp ==
    /\ spc = "setup"
    /\ slave_id_counter < num_slaves
    /\ TakesId \/ slave_id' = slave_id
    /\ slave_id_counter' = slave_id_counter + 1
    /\ UNCHANGED <<file, spc, slave_addresses, num_slaves, replication_factor,
                   slavelist, filled, table>>

\* A new cell is linked behind that of every slave but the last address.
SetUp ==
    /\ spc = "setup"
    /\ slave_id_counter < num_slaves
    /\ TakesId
    /\ table' = [table EXCEPT ![Address] = fill_slave_arr(file)]
    /\ slavelist' = Append(slavelist, <<NewId, Address>>)
    /\ filled' = (slave_id_counter = num_slaves - 1)
    /\ slave_id_counter' = slave_id_counter + 1
    /\ UNCHANGED <<file, spc, slave_addresses, num_slaves, replication_factor>>

\* setup_slave reads *res; the reply is NULL, and whether the slave saw the
\* call is not known.
NoReply ==
    /\ spc = "setup"
    /\ slave_id_counter < num_slaves
    /\ TakesId \/ slave_id' = slave_id
    /\ spc' = "segv"
    /\ UNCHANGED <<file, slave_addresses, slave_id_counter, num_slaves,
                   replication_factor, slavelist, filled, table>>

\* The list becomes the ring.  In a last cell that was not filled, slave_node
\* is what malloc left there.
FillRing ==
    /\ spc = "setup"
    /\ slave_id_counter = num_slaves
    /\ spc' = IF filled THEN "up" ELSE "segv"
    /\ UNCHANGED <<file, slave_addresses, slave_id_counter, num_slaves,
                   replication_factor, slavelist, filled, slave_id, table>>

Starting == ReadSlavelist \/ NotSetUp \/ SetUp \/ NoReply \/ FillRing

(***************************************************************************)
(* Once the master serves, it and the slaves on the list mean the same     *)
(* slave by an id, however many addresses before it failed: the slave was  *)
(* told the id on the list, and the table by which the master reaches the  *)
(* coordinator of a query, and a slave the next of the chain, has the      *)
(* slave's address under that id.                                          *)
(***************************************************************************)
IdsAgree ==
    spc = "up" =>
        \A i \in DOMAIN slavelist :
            LET id == slavelist[i][1]
                a  == slavelist[i][2]
            IN  /\ slave_id[a] = id
                /\ slave_addresses[id + 1] = a
                /\ table[a] = slave_addresses
=============================================================================
