---------------------------- MODULE MessageQueue ----------------------------
(***************************************************************************)
(* runtime/vm/message.cc: the singly linked list of messages with head_    *)
(* and tail_.  Every operation runs under the monitor_ of the handler that *)
(* owns the queue, so each is one action; what is checked is the list      *)
(* surgery.  It implements Mailbox.                                        *)
(***************************************************************************)
EXTENDS Null, Integers, Sequences, FiniteSets, Functions

CONSTANTS Messages, Destinations

ASSUME QueueAssumption == IsFiniteSet(Messages) /\ NULL \notin Messages

VARIABLES
  head_, tail_,
  next_,  \* next_ of every message
  dest,   \* dest_port of every message
  fate    \* new, queued, taken (returned by Dequeue) or deleted

queueVars == <<head_, tail_, next_, dest, fate>>

QueueInit ==
  /\ head_ = NULL /\ tail_ = NULL
  /\ next_ = [m \in Messages |-> NULL]
  /\ dest \in [Messages -> Destinations]
  /\ fate = [m \in Messages |-> "new"]

\* Mutant: tail_ is moved without linking the message.
EnqueueUnlinked(msg) ==
  /\ fate[msg] = "new"
  /\ head_' = IF head_ = NULL THEN msg ELSE head_
  /\ tail_' = msg
  /\ fate' = [fate EXCEPT ![msg] = "queued"]
  /\ UNCHANGED <<next_, dest>>

Enqueue(msg) ==
  /\ fate[msg] = "new"
  /\ IF head_ = NULL
       THEN head_' = msg /\ UNCHANGED next_
       ELSE next_' = [next_ EXCEPT ![tail_] = msg] /\ UNCHANGED head_
  /\ tail_' = msg
  /\ fate' = [fate EXCEPT ![msg] = "queued"]
  /\ UNCHANGED dest

\* Dequeue; a DEBUG build marks the message as used by a self loop.
Dequeue ==
  /\ head_ # NULL
  /\ head_' = next_[head_]
  /\ tail_' = IF next_[head_] = NULL THEN NULL ELSE tail_
  /\ next_' = [next_ EXCEPT ![head_] = head_]
  /\ fate' = [fate EXCEPT ![head_] = "taken"]
  /\ UNCHANGED dest

\* One turn of the loop of Flush, which ends when cur is NULL.
FlushTurn(port, list) ==
  LET prev == list.prev
      cur == list.cur
      following == list.next[cur]
  IN  IF cur = NULL THEN list
      ELSE IF dest[cur] = port
        THEN [head |-> IF prev = NULL THEN following ELSE list.head,
              next |-> IF prev = NULL THEN list.next ELSE [list.next EXCEPT ![prev] = following],
              prev |-> prev, cur |-> following, deleted |-> list.deleted \cup {cur}]
      ELSE [list EXCEPT !.prev = cur, !.cur = following]

\* A list without repetition has at most as many messages as there are, so no
\* loop over it makes more turns.
Turns == 0 .. Cardinality(Messages)

\* The loop of Flush: the list, prev and cur after each turn.
FlushLoop(port) ==
  LET turn[i \in Turns] ==
        IF i = 0
          THEN [head |-> head_, next |-> next_, prev |-> NULL, cur |-> head_, deleted |-> {}]
          ELSE FlushTurn(port, turn[i - 1])
  IN  turn[Cardinality(Messages)]

Flush(port) ==
  LET list == FlushLoop(port)
  IN /\ head_' = list.head /\ tail_' = list.prev /\ next_' = list.next
     /\ fate' = [m \in Messages |-> IF m \in list.deleted THEN "deleted" ELSE fate[m]]
     /\ UNCHANGED dest

\* Where a walk along the list from head is after each step.
Walk(head, next) ==
  LET at[i \in Turns] ==
        IF i = 0 THEN head
        ELSE IF at[i - 1] = NULL THEN NULL ELSE next[at[i - 1]]
  IN  at

\* The messages of the list that starts at head, in order.
From(head, next) ==
  LET at == Walk(head, next)
  IN  [i \in 1 .. Cardinality({j \in Turns : at[j] # NULL}) |-> at[i - 1]]

\* FlushAll deletes what its walk from head_ reaches.
FlushAll ==
  /\ head_' = NULL /\ tail_' = NULL
  /\ fate' = [m \in Messages |->
                IF m \in Range(From(head_, next_)) THEN "deleted" ELSE fate[m]]
  /\ UNCHANGED <<next_, dest>>

QueueNext ==
  \/ \E msg \in Messages : Enqueue(msg)
  \/ Dequeue
  \/ \E port \in Destinations : Flush(port)
  \/ FlushAll

QueueSpec == QueueInit /\ [][QueueNext]_queueVars

-----------------------------------------------------------------------------
(* Properties.                                                             *)

\* The list implements the queue of Mailbox: order, what Flush drops, and that
\* every message is returned or deleted at most once.
Abstract == INSTANCE Mailbox WITH
  contents <- From(head_, next_), Ports <- Destinations
ImplementsMailbox == Abstract!Spec
=============================================================================
