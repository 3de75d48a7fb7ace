-------------------------- MODULE MCMessageHandler --------------------------
(* Small instances of MessageHandler.                                      *)
EXTENDS MessageHandler, TLC

AllHandlers == MainIsolates \cup FunctionIsolates \cup ClassIsolates \cup NativePorts

\* Ports are allocated in an order no property depends on.
Symmetry == Permutations(Ports)
=============================================================================
