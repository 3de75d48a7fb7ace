------------------------------- MODULE Lists -------------------------------
(***************************************************************************)
(* Lists as sequences: the linked lists of runtime/vm/thread_pool.cc and   *)
(* of the timers, which hold no element twice, and the messages that wait  *)
(* for an isolate.                                                         *)
(***************************************************************************)
EXTENDS Integers, Sequences, Functions

\* RemoveWorkerFromIdleList and RemoveWorkerFromAllList, and the loop of
\* _Timer.cancel: take w off the list; one that is not on it changes nothing.
Unlink(list, w) ==
  IF w \in Range(list)
    THEN LET i == CHOOSE j \in DOMAIN list : list[j] = w
         IN  SubSeq(list, 1, i - 1) \o SubSeq(list, i + 1, Len(list))
    ELSE list

\* Where a loop over the list stops: how many elements at its front are in S.
Leading(list, S) ==
  CHOOSE k \in 0..Len(list) :
    /\ \A i \in 1..k : list[i] \in S
    /\ k < Len(list) => list[k + 1] \notin S

\* The list with x behind its first k elements.
Insert(list, k, x) == SubSeq(list, 1, k) \o <<x>> \o SubSeq(list, k + 1, Len(list))

\* t comes before u.
Ahead(list, t, u) == \E i, j \in DOMAIN list : i < j /\ list[i] = t /\ list[j] = u

\* The list without the elements in S; the others keep their order.
Without(list, S) ==
  LET kept[n \in 0..Len(list)] ==
        IF n = 0 THEN <<>>
        ELSE IF list[n] \in S THEN kept[n - 1]
        ELSE Append(kept[n - 1], list[n])
  IN  kept[Len(list)]

\* MessageQueue::Flush, for each port being closed.
Remaining(box, closed) == Without(box, {m \in Range(box) : m.port \in closed})
=============================================================================
