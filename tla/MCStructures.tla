---------------------------- MODULE MCStructures ----------------------------
(***************************************************************************)
(* Instances for TLC of the data structures that carry the rest: the table *)
(* of PortMap and the queue of a message handler, which a message passes   *)
(* on its way, the hash map behind the event handler's sockets and the one *)
(* behind the ReceivePorts of an isolate.  They share no state, so a       *)
(* behaviour uses one of them.                                             *)
(***************************************************************************)
EXTENDS PortTable, MessageQueue, HashMap, HashMapImplementation, TLC

ASSUME StructuresAssumption == NULL \notin Keys \cup Values \cup {_DELETED_KEY}

VARIABLE part  \* the structure that is used

\* The inputs of the structures that are not used do not matter.
MCInit ==
  /\ Init /\ QueueInit /\ MapInit /\ DartMapInit
  /\ part \in {"table", "queue", "map", "dart map"}
  /\ part # "queue" => dest = [m \in Messages |-> CHOOSE d \in Destinations : TRUE]
  /\ part \in {"table", "queue"} => hash = [k \in Keys |-> CHOOSE h \in Hashes : TRUE]

MCNext ==
  \/ part = "table" /\ Next /\ UNCHANGED <<queueVars, mapVars, dartMapVars, part>>
  \/ part = "queue" /\ QueueNext /\ UNCHANGED <<vars, mapVars, dartMapVars, part>>
  \/ part = "map" /\ MapNext /\ UNCHANGED <<vars, queueVars, dartMapVars, part>>
  \/ part = "dart map" /\ DartMapNext /\ UNCHANGED <<vars, queueVars, mapVars, part>>

MCSpec == MCInit /\ [][MCNext]_<<vars, queueVars, mapVars, dartMapVars, part>>

\* Handlers are alike, and so are the keys and the values.
Symmetry == Permutations(Handlers) \cup Permutations(Keys) \cup Permutations(Values)
=============================================================================
