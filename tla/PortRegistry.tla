---------------------------- MODULE PortRegistry ----------------------------
(***************************************************************************)
(* What runtime/vm/port.h promises: a map from port ids to the message     *)
(* handlers they belong to.  A port is created for a handler, may be made  *)
(* live, and is closed once, alone or with all ports of its handler; an id *)
(* is never used again.  MessageHandler is built on this specification,    *)
(* PortTable (the hash table of port.cc) implements it.                    *)
(***************************************************************************)
CONSTANTS Ports, Handlers, NoHandler

ASSUME HandlerAssumption == NoHandler \notin Handlers

VARIABLES
  owner,    \* owner[p]: the handler of an open port, else NoHandler
  live,     \* live[p]: a ReceivePort was created for the port
  used_ids  \* the ids that have been handed out

registryVars == <<owner, live, used_ids>>

Open == {p \in Ports : owner[p] # NoHandler}
PortsOf(h) == {p \in Ports : owner[p] = h}

Init ==
  /\ owner = [p \in Ports |-> NoHandler]
  /\ live = [p \in Ports |-> FALSE]
  /\ used_ids = {}

CreatePort(p, h) ==
  /\ p \notin used_ids
  /\ owner' = [owner EXCEPT ![p] = h]
  /\ used_ids' = used_ids \cup {p}
  /\ UNCHANGED live

SetLive(p) ==
  /\ p \in Open
  /\ live' = [live EXCEPT ![p] = TRUE]
  /\ UNCHANGED <<owner, used_ids>>

\* The ports of S are closed in one critical section.
ClosePorts(S) ==
  /\ owner' = [p \in Ports |-> IF p \in S THEN NoHandler ELSE owner[p]]
  /\ live' = [p \in Ports |-> live[p] /\ p \notin S]
  /\ UNCHANGED used_ids

Next ==
  \/ \E p \in Ports, h \in Handlers : CreatePort(p, h)
  \/ \E p \in Open : SetLive(p) \/ ClosePorts({p})
  \/ \E h \in Handlers : ClosePorts(PortsOf(h))

Spec == Init /\ [][Next]_registryVars
=============================================================================
