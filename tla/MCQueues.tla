------------------------------ MODULE MCQueues ------------------------------
(***************************************************************************)
(* Instances of the queues between threads and of the parts of the IPC     *)
(* queue.  They share no variable; `part` selects the one that moves, so   *)
(* that their state spaces add up.                                         *)
(***************************************************************************)
EXTENDS ThreadQueue, IpcRegistry, IpcChannel, CircularBuffer, Serialization, TLC

CONSTANT Parts

VARIABLE part

int(v) == [int |-> v]
Inner == [class |-> 2, fields |-> <<int(7)>>]
Unknown == [class |-> 3, fields |-> <<int(8), int(9)>>]
Broken == [class |-> 2, fields |-> <<int(6), int(-1)>>]
Leaves == {Null, Inner, Unknown, Broken}
MCObjects == Leaves \cup {[class |-> 1, fields |-> <<int(4), o, int(5)>>] : o \in Leaves}

Large == [size |-> 5, callback |-> TRUE]
Small == [size |-> 1, callback |-> TRUE]
SmallToAll == [size |-> 1, callback |-> FALSE]
ThreeSends == <<Large, SmallToAll, Small>>

Symmetry == Permutations(Process) \cup Permutations(Writer)

ipcVars == <<registryVars, channelVars, circularVars, serializationVars>>
queuesVars == <<part, vars, ipcVars>>

QueuesInit ==
  /\ part \in Parts
  /\ Init /\ RegistryInit /\ ChannelInit /\ CircularInit /\ SerializationInit

QueuesNext ==
  /\ UNCHANGED part
  /\ \/ part = "threads" /\ Next /\ UNCHANGED ipcVars
     \/ part = "registry" /\ RegistryNext /\ UNCHANGED <<vars, channelVars, circularVars, serializationVars>>
     \/ part = "channel" /\ ChannelNext /\ UNCHANGED <<vars, registryVars, circularVars, serializationVars>>
     \/ part = "buffer" /\ CircularNext /\ UNCHANGED <<vars, registryVars, channelVars, serializationVars>>
     \/ part = "objects" /\ SerializationNext /\ UNCHANGED <<vars, registryVars, channelVars, circularVars>>

QueuesSpec == QueuesInit /\ [][QueuesNext]_queuesVars
=============================================================================
