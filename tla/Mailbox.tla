------------------------------ MODULE Mailbox ------------------------------
(***************************************************************************)
(* What a MessageQueue (runtime/vm/message.h) promises: messages come out  *)
(* in the order they went in, and those to a closed port are dropped       *)
(* wherever they stand, the others keeping their order.  MessageHandler    *)
(* uses its queues by this promise.                                        *)
(***************************************************************************)
EXTENDS Lists

CONSTANTS Messages, Ports

VARIABLES
  contents,  \* the messages in the queue, the oldest first
  dest,      \* their ports
  fate       \* what became of each message

mailVars == <<contents, dest, fate>>

Init ==
  /\ contents = <<>>
  /\ dest \in [Messages -> Ports]
  /\ fate = [m \in Messages |-> "new"]

Enqueue(m) ==
  /\ fate[m] = "new"
  /\ contents' = Append(contents, m)
  /\ fate' = [fate EXCEPT ![m] = "queued"]
  /\ UNCHANGED dest

Dequeue ==
  /\ contents # <<>>
  /\ contents' = Tail(contents)
  /\ fate' = [fate EXCEPT ![Head(contents)] = "taken"]
  /\ UNCHANGED dest

\* The messages for the ports of S are deleted.
Drop(S) ==
  /\ contents' = Without(contents, {m \in Messages : dest[m] \in S})
  /\ fate' = [m \in Messages |->
                IF fate[m] = "queued" /\ dest[m] \in S THEN "deleted" ELSE fate[m]]
  /\ UNCHANGED dest

Next ==
  \/ \E m \in Messages : Enqueue(m)
  \/ Dequeue
  \/ \E p \in Ports : Drop({p})
  \/ Drop(Ports)

Spec == Init /\ [][Next]_mailVars
=============================================================================
