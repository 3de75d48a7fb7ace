-------------------------------- MODULE Heap --------------------------------
(***************************************************************************)
(* runtime/vm/heap.cc, scavenger.{h,cc}, gc_marker.cc and the handles of   *)
(* dart_api_state.h: the garbage-collected heap of one isolate.            *)
(*                                                                         *)
(* A young generation of two semi-spaces (Scavenger) and an old one, here  *)
(* a set of places (PageSpace is the module about its pages).  Memory is   *)
(* counted in words.  An object has an identity, which stands for the      *)
(* contents that memmove copies, a size, pointer fields, and the header    *)
(* bits the collectors use.  The isolate stops while a collection runs, so *)
(* an action is one call of the program or one iteration of a collector's  *)
(* loop.                                                                   *)
(***************************************************************************)
EXTENDS Integers, SequencesExt

CONSTANTS
  Semi,           \* words of a semi-space
  OldPlaces,      \* objects that fit the old generation: the possible numbers
  NumRoots, NumWeak, NumPrologue,
                  \* strong handles, weak and prologue weak persistent ones
  Sizes,          \* sizes of objects, in words
  MaxObjects,     \* bound: the objects allocated in a behaviour
  WeakReferences, \* what a prologue callback may register: sequences of
                  \* [keys, values], the handles of a weak reference set
  NullHandles     \* does a program make weak handles of null?

ASSUME SizeAssumption == \A s \in Sizes : s \in 2 .. Semi

Roots    == 1 .. NumRoots
Weak     == NumRoots + 1 .. NumRoots + NumWeak
Prologue == NumRoots + NumWeak + 1 .. NumRoots + NumWeak + NumPrologue
Slots    == Roots \cup Weak \cup Prologue

Old == 2 * Semi + 1 .. 2 * Semi + Max(OldPlaces)
VM  == 2 * Semi + Max(OldPlaces) + 1   \* null, in the VM isolate's heap
Smi == 0                          \* no pointer: the link in a free weak handle
Addresses == 1 .. VM - 1
Ids == 1 .. MaxObjects

Free == [id |-> 0, size |-> 0, f |-> <<>>, fwd |-> 0, marked |-> FALSE]
Result == 1                       \* the handle that an allocation sets
NoRequest == [size |-> 0, stage |-> "none"]

VARIABLES
  mem,            \* mem[a]: the object that starts at a, or Free
  slot,           \* slot[s]: raw_ of a handle
  callback,       \* callback[s]: callback_ of a weak handle is not NULL
  to_,            \* to_->start() - 1, 0 or Semi; from_ is the other half
  top_, resolved_top_, survivor_end_,
  max_capacity_,  \* of the old generation, which does not change
  promoted,       \* the words between end_ and to_->end()
  marking_stack,
  delayed,        \* delayed_weak_references_
  registered,     \* the references this collection started with
  phase,          \* mutator, to space, promoted, drain or fatal
  todo,           \* collections that the program has asked for
  request,        \* the allocation that waits for them
  allocated,      \* the number of objects allocated so far
  handle, field   \* the object graph that the program has built

newVars == <<to_, top_, resolved_top_, survivor_end_, promoted, max_capacity_>>
Graph == INSTANCE ObjectGraph WITH
           Nil <- Smi, Handles <- Roots, Watches <- Weak \cup Prologue

gcVars  == <<marking_stack, delayed, registered, phase>>
progVars == <<request, allocated, handle, field>>
vars == <<mem, slot, callback, newVars, gcVars, todo, progVars>>

FirstObjectStart(to) == to + 1
End == to_ + Semi + 1 - Len(promoted)
RegionContains(start, a) == a \in start + 1 .. start + Semi
InTo(a) == RegionContains(to_, a)
InFrom(a) == RegionContains(Semi - to_, a)
Objects == {a \in Addresses : mem[a] # Free}
FreeOld(m) == {a \in 2 * Semi + 1 .. 2 * Semi + max_capacity_ : m[a] = Free}

Init ==
  /\ mem = [a \in Addresses |-> Free]
  /\ slot = [s \in Slots |-> IF s \in Roots THEN VM ELSE Smi]
  /\ callback = [s \in Weak \cup Prologue |-> FALSE]
  /\ to_ = 0 /\ top_ = FirstObjectStart(0) /\ resolved_top_ = top_
  /\ survivor_end_ = FirstObjectStart(0) /\ promoted = <<>>
  /\ max_capacity_ \in OldPlaces
  /\ marking_stack = <<>> /\ delayed = <<>> /\ registered = <<>>
  /\ phase = "mutator" /\ todo = <<>> /\ request = NoRequest
  /\ allocated = 0 /\ Graph!GInit

-----------------------------------------------------------------------------
(* Allocation: Heap::Allocate *)

Scavenge(cb)  == [kind |-> "scavenge", invoke_api_callbacks |-> cb]
MarkSweep(cb) == [kind |-> "mark-sweep", invoke_api_callbacks |-> cb]

NewObject(size) ==
  [Free EXCEPT !.id = allocated + 1, !.size = size,
               !.f = [i \in 1 .. size \div 2 |-> VM]]

Place(a, size) ==
  /\ mem' = [mem EXCEPT ![a] = NewObject(size)]
  /\ slot' = [slot EXCEPT ![Result] = a]
  /\ request' = NoRequest
  /\ allocated' = allocated + 1
  /\ Graph!GNew(Result, allocated + 1, size \div 2)

\* Scavenger::TryAllocate.
FitsNew(size) == End - top_ >= size
AllocateInNew(size) ==
  /\ Place(top_, size)
  /\ top_' = top_ + size
  /\ UNCHANGED <<callback, to_, resolved_top_, survivor_end_, promoted, max_capacity_,
                 gcVars, todo>>

\* PageSpace::TryAllocate, which PageSpace models.
AllocateInOld(size) ==
  /\ FreeOld(mem) # {} /\ Place(Min(FreeOld(mem)), size)
  /\ UNCHANGED <<callback, newVars, gcVars, todo>>

Wait(size, stage, collections) ==
  /\ request' = [size |-> size, stage |-> stage]
  /\ todo' = collections
  /\ UNCHANGED <<mem, slot, callback, newVars, gcVars, allocated, handle, field>>

CollectAllGarbage == <<Scavenge(TRUE), MarkSweep(TRUE)>>

AllocateOld(size) ==
  IF FreeOld(mem) # {}
    THEN AllocateInOld(size)
    ELSE Wait(size, "AllocateOld", CollectAllGarbage)

\* The program is running; the bound on its allocations ends it.
Running == /\ phase = "mutator" /\ todo = <<>> /\ request = NoRequest
           /\ allocated < MaxObjects

New(size) ==
  /\ Running
  /\ IF FitsNew(size)
       THEN AllocateInNew(size)
       ELSE Wait(size, "AllocateNew", <<Scavenge(FALSE)>>)

NewInOld(size) == Running /\ AllocateOld(size)

\* The collections are over: AllocateNew tries both generations again,
\* AllocateOld its own, and then the heap is exhausted.
Retry ==
  /\ phase = "mutator" /\ todo = <<>> /\ request # NoRequest
  /\ IF request.stage = "AllocateNew"
       THEN IF FitsNew(request.size)
              THEN AllocateInNew(request.size)
              ELSE AllocateOld(request.size)
       ELSE IF FreeOld(mem) # {}
              THEN AllocateInOld(request.size)
              ELSE /\ phase' = "fatal"
                   /\ UNCHANGED <<mem, slot, callback, newVars, marking_stack,
                                  delayed, registered, todo, progVars>>

-----------------------------------------------------------------------------
(* The program: stores, loads and handles.  StorePointer fills a store     *)
(* buffer that nobody reads: the scavenger visits the whole old generation. *)

IsObject(a) == a \in Addresses

\* Any kind of handle names an object in a call of the API.
Store(s, i, t) ==
  /\ Running /\ IsObject(slot[s]) /\ i \in DOMAIN mem[slot[s]].f /\ slot[t] # Smi
  /\ mem' = [mem EXCEPT ![slot[s]].f[i] = slot[t]]
  /\ Graph!GStore(s, i, t)
  /\ UNCHANGED <<slot, callback, newVars, gcVars, todo, request, allocated>>

SetSlot(s, a) ==
  /\ slot' = [slot EXCEPT ![s] = a]
  /\ UNCHANGED <<mem, newVars, gcVars, todo, request, allocated>>

Load(s, i, r) ==
  /\ Running /\ IsObject(slot[s]) /\ i \in DOMAIN mem[slot[s]].f
  /\ SetSlot(r, mem[slot[s]].f[i]) /\ Graph!GLoad(s, i, r)
  /\ UNCHANGED callback

CopyHandle(s, r) ==
  /\ Running /\ IsObject(slot[s])
  /\ SetSlot(r, slot[s]) /\ Graph!GCopy(s, r)
  /\ UNCHANGED callback

\* A handle scope ends, or a handle is set to null.
DropRoot(r) ==
  /\ Running /\ IsObject(slot[r])
  /\ SetSlot(r, VM) /\ Graph!GClear({r})
  /\ UNCHANGED callback

\* Dart_New(Prologue)WeakPersistentHandle.
NewWeakPersistentHandle(w, r) ==
  /\ Running /\ slot[w] = Smi /\ (IsObject(slot[r]) \/ NullHandles)
  /\ SetSlot(w, slot[r]) /\ Graph!GCopy(r, w)
  /\ callback' = [callback EXCEPT ![w] = TRUE]

\* Dart_DeletePersistentHandle: raw_ becomes a link of the free list (and
\* AllocateHandle clears callback_ before the handle is used again).
DeleteWeakPersistentHandle(w) ==
  /\ Running /\ slot[w] # Smi
  /\ SetSlot(w, Smi) /\ Graph!GClear({w})
  /\ callback' = [callback EXCEPT ![w] = FALSE]

-----------------------------------------------------------------------------
(* Scavenger::Scavenge *)

invoke_api_callbacks == Head(todo).invoke_api_callbacks
Strong == IF invoke_api_callbacks THEN Roots ELSE Roots \cup Prologue
WeakRoots == IF invoke_api_callbacks THEN Weak \cup Prologue ELSE Weak
InOrder(S) == SetToSortSeq(S, <)

\* The part of the state that visiting pointers changes.
Copied == [mem |-> mem, top |-> top_, promoted |-> promoted, from |-> Semi - to_]

\* Copy the object at a, to the old generation if it has survived a scavenge
\* and there is room.
Evacuate(h, a) ==
  LET obj == h.mem[a]
      promote == a < survivor_end_ /\ FreeOld(h.mem) # {}
      new_addr == IF promote THEN Min(FreeOld(h.mem)) ELSE h.top
  IN  [h EXCEPT !.mem = [@ EXCEPT ![new_addr] = obj, ![a].fwd = new_addr],
                !.top = IF promote THEN @ ELSE @ + obj.size,
                !.promoted = IF promote THEN <<new_addr>> \o @ ELSE @]

\* Mutant: the header is not checked for a forwarding address.
EvacuateAlways(h, a) == IF RegionContains(h.from, a) THEN Evacuate(h, a) ELSE h

\* ScavengePointer, for a pointer to a: an object of the from space that has
\* not been forwarded is copied.
ScavengePointer(h, a) ==
  IF RegionContains(h.from, a) /\ h.mem[a].fwd = 0 THEN Evacuate(h, a) ELSE h

\* What a visited pointer becomes.
Forwarded(m, a) == IF IsObject(a) /\ m[a].fwd # 0 THEN m[a].fwd ELSE a

VisitPointers(h, pointers) == FoldLeft(ScavengePointer, h, pointers)

\* Visit the fields of the objects at `as', in order.
VisitObjects(h, as) ==
  LET g == VisitPointers(h, FlattenSeq([i \in DOMAIN as |-> h.mem[as[i]].f]))
  IN  [g EXCEPT !.mem = [a \in Addresses |->
         IF a \in Range(as)
           THEN [g.mem[a] EXCEPT !.f = [i \in DOMAIN @ |-> Forwarded(g.mem, @[i])]]
           ELSE g.mem[a]]]

VisitSlots(h, S) == VisitPointers(h, [i \in DOMAIN InOrder(S) |-> slot[InOrder(S)[i]]])

UpdateSlots(m, S) == [s \in Slots |-> IF s \in S THEN Forwarded(m, slot[s]) ELSE slot[s]]

Becomes(h) == mem' = h.mem /\ top_' = h.top /\ promoted' = h.promoted

ScavengeFrom(references, space) ==
  LET flipped == [Copied EXCEPT !.top = FirstObjectStart(Semi - to_), !.from = to_]
      g == VisitSlots(flipped, Strong)
  IN  /\ phase = "mutator" /\ todo # <<>> /\ Head(todo).kind = "scavenge"
      /\ delayed' = references /\ registered' = references
      /\ to_' = Semi - to_ /\ resolved_top_' = flipped.top
      /\ Becomes(VisitObjects(g, InOrder({a \in space : g.mem[a] # Free})))
      /\ slot' = UpdateSlots(g.mem, Strong)
      /\ phase' = "to space"
      /\ UNCHANGED <<callback, survivor_end_, max_capacity_, marking_stack, todo,
                     progVars>>

\* Prologue: the callbacks may register weak references and the spaces flip.
\* IterateRoots: the handles, then every object of the old generation.
ScavengeRoots(references) == ScavengeFrom(references, Old)

\* ProcessToSpace: one object of the to space ...
ResolveToSpace ==
  /\ phase = "to space" /\ resolved_top_ < top_
  /\ Becomes(VisitObjects(Copied, <<resolved_top_>>))
  /\ resolved_top_' = resolved_top_ + mem[resolved_top_].size
  /\ UNCHANGED <<slot, callback, to_, survivor_end_, max_capacity_, gcVars, todo,
                 progVars>>

PopAndVisit(as) ==
  /\ \/ phase = "to space" /\ resolved_top_ = top_
     \/ phase = "promoted"
  /\ promoted # <<>>
  /\ Becomes(VisitObjects([Copied EXCEPT !.promoted = Tail(@)], as))
  /\ phase' = "promoted"
  /\ UNCHANGED <<slot, callback, to_, resolved_top_, survivor_end_, max_capacity_,
                 marking_stack, delayed, registered, todo, progVars>>

\* Mutant: the fields of a promoted object are not visited.
PopUnvisited == PopAndVisit(<<>>)

\* ... or of the promoted stack, which is drained before the to space is
\* looked at again.
PopFromPromotedStack == PopAndVisit(<<Head(promoted)>>)

PromotedStackDrained ==
  /\ phase = "promoted" /\ promoted = <<>>
  /\ phase' = "to space"
  /\ UNCHANGED <<mem, slot, callback, newVars, marking_stack, delayed, registered,
                 todo, progVars>>

\* ProcessToSpace returns.
ToSpaceProcessed == phase = "to space" /\ resolved_top_ = top_ /\ promoted = <<>>

\* Scavenger::IsUnreachable.
IsUnreachable(m, a) == InFrom(a) /\ m[a].fwd = 0

\* IterateWeakReferences, one reference: h also has the handles (slot) and
\* the references put back on the delay queue (delayed).
ScavengeReference(h, reference) ==
  LET reachable == {k \in DOMAIN reference.keys :
                      ~IsUnreachable(h.mem, h.slot[reference.keys[k]])}
  IN  IF reachable = {} THEN [h EXCEPT !.delayed = <<reference>> \o @]
      ELSE LET key == reference.keys[Min(reachable)]
               vs == reference.values
               g == VisitPointers(h, [i \in DOMAIN vs |-> h.slot[vs[i]]])
           IN  [g EXCEPT !.slot = [s \in Slots |->
                                     IF s = key \/ s \in Range(vs)
                                       THEN Forwarded(g.mem, @[s]) ELSE @[s]]]

ReferencePass(again) ==
  LET h == FoldLeft(ScavengeReference,
                    Copied @@ [slot |-> slot, delayed |-> <<>>], delayed)
      progress == h.top > resolved_top_ \/ h.promoted # <<>>
  IN  /\ ToSpaceProcessed /\ delayed # <<>>
      /\ Becomes(h)
      /\ slot' = h.slot
      /\ delayed' = IF progress \in again THEN h.delayed ELSE <<>>
      /\ UNCHANGED <<callback, to_, resolved_top_, survivor_end_, max_capacity_, marking_stack,
                     registered, phase, todo, progVars>>

\* Mutants: there is one pass only, or it is repeated without progress.
OneReferencePass == ReferencePass({})
PassesWithoutProgress == ReferencePass(BOOLEAN)

\* One pass over the delay queue.  It is repeated while it brings progress;
\* references that are left then are deleted.  The pass is over, or there
\* was none, when the delay queue is empty.
ScavengeReferences == ReferencePass({TRUE})

\* FinalizablePersistentHandle::Finalize: the handle is cleared before its
\* callback runs, and the callback may delete the handle (D).
Finalize(dead, D, live) ==
  /\ D \subseteq {w \in dead : callback[w]}
  /\ slot' = [s \in Slots |-> IF s \in D THEN Smi ELSE IF s \in dead THEN VM
                              ELSE live[s]]
  /\ callback' = [w \in Weak \cup Prologue |-> callback[w] /\ w \notin dead]
  /\ Graph!GClear(dead)

Finish ==
  /\ phase' = "mutator" /\ todo' = Tail(todo) /\ registered' = <<>>

\* IterateWeakRoots and Epilogue.
ScavengeEpilogue ==
  LET dead == {w \in WeakRoots : IsUnreachable(mem, slot[w])}
  IN  /\ ToSpaceProcessed /\ delayed = <<>>
      /\ \E D \in SUBSET dead : Finalize(dead, D, UpdateSlots(mem, WeakRoots))
      /\ mem' = [a \in Addresses |-> IF InFrom(a) THEN Free ELSE mem[a]]
      /\ survivor_end_' = top_
      /\ Finish
      /\ UNCHANGED <<to_, top_, resolved_top_, max_capacity_, promoted, marking_stack, delayed,
                     request, allocated>>

-----------------------------------------------------------------------------
(* PageSpace::MarkSweep, GCMarker *)

\* MarkObject and MarkAndPush: not for new objects nor the VM isolate's.
MarkObject(h, a) ==
  IF a \in Old /\ ~h.mem[a].marked
    THEN [mem |-> [h.mem EXCEPT ![a].marked = TRUE], stack |-> <<a>> \o h.stack]
    ELSE h

MarkAll(h, pointers) == FoldLeft(MarkObject, h, pointers)

Marked == [mem |-> mem, stack |-> marking_stack]
BecomesMarked(h) == mem' = h.mem /\ marking_stack' = h.stack

MarkFrom(references, space) ==
  LET strong == InOrder(Strong)
      others == InOrder(space \cap Objects)
  IN  /\ phase = "mutator" /\ todo # <<>> /\ Head(todo).kind = "mark-sweep"
      /\ delayed' = references /\ registered' = references
      /\ BecomesMarked(MarkAll(Marked,
           [i \in DOMAIN strong |-> slot[strong[i]]]
             \o FlattenSeq([i \in DOMAIN others |-> mem[others[i]].f])))
      /\ phase' = "drain"
      /\ UNCHANGED <<slot, callback, newVars, todo, progVars>>

\* Mutant: the young generation is not visited.
MarkHandles(references) == MarkFrom(references, {})

\* Prologue and IterateRoots: the handles, then every object of the young
\* generation.
MarkRoots(references) == MarkFrom(references, Addresses \ Old)

DrainMarkingStack ==
  /\ phase = "drain" /\ marking_stack # <<>>
  /\ BecomesMarked(MarkAll([Marked EXCEPT !.stack = Tail(@)],
                           mem[Head(marking_stack)].f))
  /\ UNCHANGED <<slot, callback, newVars, delayed, registered, phase, todo, progVars>>

\* IsUnreachable of gc_marker.cc: an object of the VM isolate is old, and
\* nobody marks it.
IsUnmarked(m, a) == a = VM \/ (a \in Old /\ ~m[a].marked)

MarkReference(h, reference) ==
  IF \A k \in Range(reference.keys) : IsUnmarked(h.mem, slot[k])
    THEN [h EXCEPT !.delayed = <<reference>> \o @]
    ELSE LET g == MarkAll([mem |-> h.mem, stack |-> h.stack],
                          [i \in DOMAIN reference.values |-> slot[reference.values[i]]])
         IN  [mem |-> g.mem, stack |-> g.stack, delayed |-> h.delayed]

MarkReferences ==
  LET h == FoldLeft(MarkReference,
                    [mem |-> mem, stack |-> marking_stack, delayed |-> <<>>], delayed)
  IN  /\ phase = "drain" /\ marking_stack = <<>> /\ delayed # <<>>
      /\ BecomesMarked(h)
      /\ delayed' = IF h.stack # <<>> THEN h.delayed ELSE <<>>
      /\ UNCHANGED <<slot, callback, newVars, registered, phase, todo,
                     progVars>>

\* IterateWeakRoots, then the sweep of the pages.
Sweep ==
  LET dead == {w \in WeakRoots : IsUnmarked(mem, slot[w])}
  IN  /\ phase = "drain" /\ marking_stack = <<>> /\ delayed = <<>>
      /\ \E D \in SUBSET dead : Finalize(dead, D, slot)
      /\ mem' = [a \in Addresses |->
                   IF a \in Old /\ ~mem[a].marked THEN Free
                   ELSE [mem[a] EXCEPT !.marked = FALSE]]
      /\ Finish
      /\ UNCHANGED <<newVars, marking_stack, delayed, request, allocated>>

-----------------------------------------------------------------------------

\* References are made of handles that refer to objects.
MayRegister(references) ==
  \/ references = <<>>
  \/ /\ invoke_api_callbacks
     /\ \A i \in DOMAIN references :
          \A s \in Range(references[i].keys \o references[i].values) : IsObject(slot[s])

Mutator ==
  \/ \E size \in Sizes : New(size) \/ NewInOld(size)
  \/ Retry
  \/ \E s \in Slots, i \in 1 .. Semi :
       \/ \E t \in Slots : Store(s, i, t)
       \/ \E r \in Roots : Load(s, i, r)
  \/ \E r \in Roots : DropRoot(r) \/ \E s \in Slots : CopyHandle(s, r)
  \/ \E w \in Weak \cup Prologue :
       \/ \E r \in Roots : NewWeakPersistentHandle(w, r)
       \/ DeleteWeakPersistentHandle(w)

Collector ==
  \/ \E q \in WeakReferences :
       todo # <<>> /\ MayRegister(q) /\ (ScavengeRoots(q) \/ MarkRoots(q))
  \/ ResolveToSpace \/ PopFromPromotedStack
  \/ PromotedStackDrained \/ ScavengeReferences \/ ScavengeEpilogue
  \/ DrainMarkingStack \/ MarkReferences \/ Sweep

\* FATAL1("Exhausted heap space ...") ends the process, and so does the bound.
Ended == /\ phase = "fatal" \/ (request = NoRequest /\ allocated = MaxObjects)
         /\ UNCHANGED vars

Next == Mutator \/ Collector \/ Ended

Spec == Init /\ [][Next]_vars

-----------------------------------------------------------------------------
(* Properties *)

\* "During a scavenge we always succeed to at least copy all of the current
\* objects to the to space" (the ASSERT in ScavengePointer): the objects not
\* copied yet fit between top_ and end_, though the promoted stack grows down
\* from the end of the space that they are copied to.
Words(S) == MapThenSumSet(LAMBDA a : mem[a].size, S)
ToSpaceSuffices ==
  phase \in {"to space", "promoted"} =>
    top_ + Words({a \in Objects : InFrom(a) /\ mem[a].fwd = 0}) <= End

\* The address of the copy of an object that is current, and its identity.
Current(a) == Forwarded(mem, a)
IdAt(a) == IF IsObject(a) THEN mem[Current(a)].id ELSE 0

Pointees(S) ==
  {Current(b) : b \in UNION {Range(mem[a].f) : a \in S} \cap Addresses}

\* The values of the weak reference sets with a key in S.
Kept(S) ==
  UNION {{Current(slot[v]) : v \in Range(r.values)} : r \in
           {q \in Range(registered) : \E k \in Range(q.keys) : Current(slot[k]) \in S}}

\* The objects that are strongly reachable from the addresses S.
Reach(S) ==
  LET n == Cardinality(Objects)
      R[i \in 0..n] == IF i = 0 THEN {Current(a) : a \in S \cap Addresses}
                       ELSE LET S1 == R[i - 1] IN S1 \cup Pointees(S1) \cup Kept(S1)
  IN  R[n]

SlotValues(S) == {slot[s] : s \in S}

\* A collector keeps what can be reached from the handles and from the other
\* generation, the values of weak references with a live key included, and
\* nothing else: all of it is copied (marked) when the weak handles are
\* looked at, so that no garbage survives, no object is lost, and handles
\* are cleared for exactly the objects that go.
CollectorExact ==
  /\ ToSpaceProcessed /\ delayed = <<>> =>
       LET R == Reach(SlotValues(Strong) \cup (Old \cap Objects))
       IN  R \ Old = {a \in Objects : InTo(a)}
  /\ phase = "drain" /\ marking_stack = <<>> /\ delayed = <<>> =>
       LET R == Reach(SlotValues(Strong) \cup (Objects \ Old))
       IN  R \cap Old = {a \in Old : mem[a].marked}

\* A weak handle is finalized only for an object that no handle leads to, not
\* even through a weak reference set ("invoked sometime after the object is
\* garbage collected", runtime/include/dart_api.h).
FinalizedIsDead ==
  [][\A w \in Weak \cup Prologue :
       phase # "mutator" /\ callback[w] /\ ~callback'[w] =>
         IsObject(slot[w]) /\ Current(slot[w]) \notin Reach(SlotValues(Roots))]_vars

\* The handles and the objects that they lead to are the graph that the
\* program has built, at every moment of every collection: the program never
\* sees that objects move, are promoted, or that others are reclaimed.
ShowsGraph ==
  LET live == Reach(SlotValues(Slots))
  IN  /\ handle = [s \in Slots |-> IdAt(slot[s])]
      /\ DOMAIN field \subseteq {mem[a].id : a \in live}
      /\ \A a \in live : mem[a].id \in DOMAIN field =>
           field[mem[a].id] = [i \in DOMAIN mem[a].f |-> IdAt(mem[a].f[i])]

\* What is left to do in a collection: objects to copy (to mark), objects
\* whose fields have not been visited, weak references to look at.
ScavengeWork ==
  3 * Cardinality({a \in Objects : InFrom(a) /\ mem[a].fwd = 0})
    + 2 * Cardinality({a \in Objects : InTo(a) /\ a >= resolved_top_})
    + 2 * Len(promoted) + (IF phase = "promoted" THEN 1 ELSE 0) + Len(delayed)
MarkWork ==
  2 * Cardinality({a \in Objects \cap Old : ~mem[a].marked})
    + Len(marking_stack) + Len(delayed)
Work == IF phase = "drain" THEN MarkWork ELSE ScavengeWork

\* Collections end: every iteration of the loops over the to space, the
\* promoted stack, the marking stack and the weak references leaves less to
\* do, weak references whose keys wait for each other included.
CollectionsEnd ==
  [][{phase, phase'} \cap {"mutator", "fatal"} = {} => Work' < Work]_vars
=============================================================================
