------------------------------ MODULE PageSpace ------------------------------
(***************************************************************************)
(* runtime/vm/pages.{h,cc}, freelist.{h,cc} and gc_sweeper.cc: the pages   *)
(* of an old generation.  TryAllocate takes memory from the top of a page, *)
(* from the free lists, or from a new page; MarkSweep returns it.  Memory  *)
(* is counted in units of kObjectAlignment.  A block is an object or a     *)
(* free list element, and `block' holds what the heap's walkers read: what *)
(* RawObject::Size() and IsMarked() say at the start of each block.        *)
(*                                                                         *)
(* The heap of Heap.tla calls this module: TryAllocate for the program and *)
(* for promotion, VisitObjectPointers for a scavenge, which may promote    *)
(* while it visits, and MarkSweep with the objects that the marker marks.  *)
(***************************************************************************)
EXTENDS Integers, SequencesExt

CONSTANTS
  kPageSize,       \* size of a page, with its header
  kNumLists,       \* the last free list is the one for this size and more
  VMPageSize,      \* VirtualMemory::PageSize()
  Width,           \* bits of intptr_t
  max_capacity_,
  NumPages,        \* bound: pages that exist at a time
  Sizes            \* of the objects that are allocated

NULL == 0
HeaderSize == 1                               \* sizeof(HeapPage)
kAllocatablePageSize == kPageSize - HeaderSize
Stride == 2 ^ Width                           \* between the starts of two pages
PageIds == 1 .. NumPages
PageFor(a) == a \div Stride
first_object_start(p) == p * Stride + HeaderSize

ASSUME PageAssumption ==
  /\ kNumLists \in 2 .. kPageSize /\ kPageSize \in 3 .. 2 ^ (Width - 2)
  /\ Sizes \subseteq 1 .. 2 ^ (Width - 1) - 1

VARIABLES
  pages_, pages_tail_, large_pages_, bump_page_,
  next,            \* next[p], p a page: next_
  page,            \* page[p]: [end, top, used], p a page that exists
  capacity_, in_use_,
  free_lists_,     \* free_lists_[i]: a sequence of addresses
  block,           \* block[a]: [size, free, marked], a the start of a block
  objects,         \* objects[a]: the size of the object the program has at a
  cursor,          \* where the loop of a sweep or of a visitor is
  failed           \* the size that the last call could not allocate, or 0

listVars == <<pages_, pages_tail_, large_pages_, next>>
vars == <<listVars, bump_page_, page, capacity_, in_use_, free_lists_, block,
          objects, cursor, failed>>

Idle == [loop |-> "none"]
NoLists == [i \in 1 .. kNumLists |-> <<>>]

Init ==
  /\ pages_ = NULL /\ pages_tail_ = NULL /\ large_pages_ = NULL /\ bump_page_ = NULL
  /\ next = [p \in PageIds |-> NULL]
  /\ page = <<>> /\ capacity_ = 0 /\ in_use_ = 0
  /\ free_lists_ = NoLists
  /\ block = <<>> /\ objects = <<>>
  /\ cursor = Idle /\ failed = 0

\* The pages of a list that starts with p.
PagesFrom(p) ==
  LET R[i \in PageIds] ==
        IF i = 1 THEN p ELSE LET q == R[i - 1] IN IF q = NULL THEN NULL ELSE next[q]
  IN  SelectSeq([i \in PageIds |-> R[i]], LAMBDA q : q # NULL)

-----------------------------------------------------------------------------
(* PageSpace::TryAllocate *)

Object(size) == [size |-> size, free |-> FALSE, marked |-> FALSE]
Element(size) == [size |-> size, free |-> TRUE, marked |-> FALSE]

\* HeapPage::TryBumpAllocate has room.
HasRoom(p, size) == page[p].end - page[p].top >= size

\* TryBumpAllocate: the last page, then the pages from bump_page_ on.  The
\* page that is found, and what becomes of bump_page_.
BumpSearch(size) ==
  LET from == IF bump_page_ = NULL THEN pages_ ELSE bump_page_
      others == SelectSeq(PagesFrom(from), LAMBDA p : p # pages_tail_)
      roomy == SelectSeq(others, LAMBDA p : HasRoom(p, size))
  IN  IF pages_tail_ = NULL THEN [found |-> NULL, bump |-> bump_page_]
      ELSE IF HasRoom(pages_tail_, size) THEN [found |-> pages_tail_, bump |-> bump_page_]
      ELSE IF roomy # <<>> THEN [found |-> Head(roomy), bump |-> Head(roomy)]
      ELSE [found |-> NULL, bump |-> pages_tail_]

IndexForSize(size) == Min({size, kNumLists})

\* Mutant: only the first element of the last list is looked at.
SearchHeads(size) ==
  LET lists == {i \in IndexForSize(size) .. kNumLists :
                  free_lists_[i] # <<>> /\ block[Head(free_lists_[i])].size >= size}
  IN  {<<i, 1>> : i \in {j \in lists : \A k \in lists : j <= k}}

\* FreeList::TryAllocate: the list and the position of the element that is
\* taken, if there is one.  The last list has elements of different sizes.
FreeListSearch(size) ==
  LET lists == {i \in IndexForSize(size) .. kNumLists - 1 : free_lists_[i] # <<>>}
      last == free_lists_[kNumLists]
      fits == {n \in DOMAIN last : block[last[n]].size >= size}
  IN  IF lists # {} THEN {<<Min(lists), 1>>}
      ELSE IF fits # {} THEN {<<kNumLists, Min(fits)>>}
      ELSE {}

\* FreeList::Free.
Enqueue(lists, a, size) == [lists EXCEPT ![IndexForSize(size)] = <<a>> \o @]

CanIncreaseCapacity(increase) == increase <= max_capacity_ - capacity_
Small(size) == size < kAllocatablePageSize
Searched(size) == IF Small(size) THEN BumpSearch(size).bump ELSE bump_page_

\* The program may call, and so may a visitor that looks at an object.
MayAllocate ==
  \/ cursor.loop = "none"
  \/ cursor.loop = "visit" /\ cursor.addr < cursor.end /\ ~block[cursor.addr].free

Allocated(a, size) ==
  /\ objects' = objects @@ (a :> size)
  /\ in_use_' = in_use_ + size
  /\ failed' = 0
  /\ UNCHANGED cursor

BumpAllocate(size) ==
  LET p == BumpSearch(size).found
  IN  /\ MayAllocate /\ Small(size) /\ p # NULL
      /\ page' = [page EXCEPT ![p].top = @ + size]
      /\ block' = block @@ (page[p].top :> Object(size))
      /\ bump_page_' = Searched(size)
      /\ Allocated(page[p].top, size)
      /\ UNCHANGED <<listVars, capacity_, free_lists_>>

\* Mutant: the remainder is put on a list, but it is not made an element.
SplitUnmade(a, size, remainder) == [block EXCEPT ![a] = Object(size)]

\* What SplitElementAfterAndEnqueue leaves in memory.
SplitElementAfter(a, size, remainder) ==
  [block EXCEPT ![a] = Object(size)]
    @@ (IF remainder = 0 THEN <<>> ELSE a + size :> Element(remainder))

FreeListAllocate(size) ==
  /\ MayAllocate /\ Small(size) /\ BumpSearch(size).found = NULL
  /\ \E e \in FreeListSearch(size) :
       LET a == free_lists_[e[1]][e[2]]
           rest == [free_lists_ EXCEPT ![e[1]] = RemoveAt(@, e[2])]
           remainder == block[a].size - size
       IN  /\ free_lists_' = IF remainder = 0 THEN rest ELSE Enqueue(rest, a + size, remainder)
           /\ block' = SplitElementAfter(a, size, remainder)
           /\ Allocated(a, size)
  /\ bump_page_' = Searched(size)
  /\ UNCHANGED <<listVars, page, capacity_>>

NewPage(p, page_size, size) ==
  LET start == first_object_start(p)
  IN  /\ p \in PageIds \ DOMAIN page /\ \A q \in PageIds \ DOMAIN page : p <= q
      /\ page' = page @@ (p :> [end |-> p * Stride + page_size, top |-> start + size, used |-> 0])
      /\ block' = block @@ (start :> Object(size))
      /\ capacity_' = capacity_ + page_size
      /\ Allocated(start, size)
      /\ UNCHANGED free_lists_

\* AllocatePage, and the bump allocation that follows.
AllocatePage(size) ==
  /\ MayAllocate /\ Small(size)
  /\ BumpSearch(size).found = NULL /\ FreeListSearch(size) = {}
  /\ CanIncreaseCapacity(kPageSize)
  /\ \E p \in PageIds :
       /\ NewPage(p, kPageSize, size)
       /\ pages_ = NULL => pages_' = p /\ UNCHANGED next
       /\ pages_ # NULL => next' = [next EXCEPT ![pages_tail_] = p] /\ UNCHANGED pages_
       /\ pages_tail_' = p
  /\ bump_page_' = NULL
  /\ UNCHANGED large_pages_

\* Arithmetic of intptr_t, and Utils::RoundUp.
Wrap(n) == ((n + 2 ^ (Width - 1)) % 2 ^ Width) - 2 ^ (Width - 1)
RoundUp(n) == ((n + VMPageSize - 1) \div VMPageSize) * VMPageSize
LargePageSizeFor(size) == Wrap(RoundUp(size + HeaderSize))

\* Mutant: an overflow is not noticed.
LargeFitsUnchecked(size) == CanIncreaseCapacity(LargePageSizeFor(size))

LargeFits(size) ==
  LargePageSizeFor(size) >= size /\ CanIncreaseCapacity(LargePageSizeFor(size))

AllocateLargePage(size) ==
  /\ MayAllocate /\ ~Small(size) /\ LargeFits(size)
  /\ \E p \in PageIds :
       /\ NewPage(p, LargePageSizeFor(size), size)
       /\ next' = [next EXCEPT ![p] = large_pages_]
       /\ large_pages_' = p
  /\ UNCHANGED <<pages_, pages_tail_, bump_page_>>

\* TryAllocate returns 0.
AllocationFails(size) ==
  /\ MayAllocate
  /\ IF Small(size)
       THEN /\ BumpSearch(size).found = NULL /\ FreeListSearch(size) = {}
            /\ ~CanIncreaseCapacity(kPageSize)
       ELSE ~LargeFits(size)
  /\ bump_page_' = Searched(size)
  /\ failed' = size
  /\ UNCHANGED <<listVars, page, capacity_, in_use_, free_lists_, block, objects, cursor>>

-----------------------------------------------------------------------------
(* PageSpace::MarkSweep *)

SizeOf(S) == MapThenSumSet(LAMBDA a : block[a].size, S)

\* Mutant: AddUsed counts objects.
CountObjects(S) == Cardinality(S)

\* What MarkAndPush adds to used_ of the page of the objects S.
AddUsed(S) == SizeOf(S)

SweepFrom(p, large, in_use) ==
  [loop |-> "sweep", large |-> large, prev |-> NULL, at |-> p, in_use |-> in_use]

StartSweep(live, bump, lists) ==
  /\ cursor.loop = "none"
  /\ block' = [a \in DOMAIN block |-> [block[a] EXCEPT !.marked = a \in live]]
  /\ page' = [p \in DOMAIN page |->
               IF p \in Range(PagesFrom(pages_))
                 THEN [page[p] EXCEPT !.used = @ + AddUsed({a \in live : PageFor(a) = p})]
                 ELSE page[p]]
  /\ objects' = [a \in live |-> objects[a]]
  /\ bump_page_' = bump /\ free_lists_' = lists
  /\ cursor' = SweepFrom(pages_, FALSE, 0)
  /\ failed' = 0
  /\ UNCHANGED <<listVars, capacity_, in_use_>>

\* Mutant: the free lists survive.
MarkKeepingLists(live) == StartSweep(live, NULL, free_lists_)

\* The marker finds the objects `live', and the sweep is set up.  (used_ of a
\* large page, which only grows and which nobody reads, is left out.)
MarkSweep(live) == StartSweep(live, NULL, NoLists)

Starts(p) == SetToSortSeq({a \in DOMAIN block : PageFor(a) = p}, <)

\* GCSweeper::SweepPage, one block: s has what is left of the page's blocks,
\* its top, the free lists, and where the sweep has come to.
SweepBlock(p, s, a) ==
  LET marked == {b \in DOMAIN block : PageFor(b) = p /\ b > a /\ block[b].marked}
      free_end == IF marked = {} THEN page[p].top ELSE Min(marked)
  IN  IF a < s.current \/ a >= s.top THEN s
      ELSE IF s.in_use_swept = page[p].used THEN [s EXCEPT !.top = a]
      ELSE IF block[a].marked
        THEN [s EXCEPT !.in_use_swept = @ + block[a].size,
                       !.kept = @ @@ (a :> Object(block[a].size))]
      ELSE IF free_end = page[p].top THEN [s EXCEPT !.top = a]
      ELSE [s EXCEPT !.current = free_end,
                     !.kept = @ @@ (a :> Element(free_end - a)),
                     !.lists = Enqueue(@, a, free_end - a)]

SweptPage(p) ==
  FoldLeft(LAMBDA s, a : SweepBlock(p, s, a),
           [current |-> 0, top |-> page[p].top, in_use_swept |-> 0, kept |-> <<>>,
            lists |-> free_lists_],
           Starts(p))

\* SweepLargePage looks at the first object only.
SweptLargePage(p) ==
  LET a == first_object_start(p)
  IN  [top |-> page[p].top, lists |-> free_lists_,
       in_use_swept |-> IF block[a].marked THEN block[a].size ELSE 0,
       kept |-> IF block[a].marked THEN a :> Object(block[a].size) ELSE <<>>]

\* Mutant: the header of a page is not counted.
ObjectMemory(p) == page[p].end - first_object_start(p)

\* page->memory_->size().
MemorySize(p) == page[p].end - p * Stride

RestrictTo(f, S) == [x \in S |-> f[x]]

\* FreePage and FreeLargePage take the page from its list.
Unlink(p, prev, large) ==
  /\ next' = [q \in PageIds |-> IF q = p THEN NULL ELSE IF q = prev THEN next[p] ELSE next[q]]
  /\ pages_' = IF prev = NULL /\ ~large THEN next[p] ELSE pages_
  /\ large_pages_' = IF prev = NULL /\ large THEN next[p] ELSE large_pages_
  /\ pages_tail_' = IF ~large /\ p = pages_tail_ THEN prev ELSE pages_tail_

\* One page of the two loops of MarkSweep.
SweepPage ==
  LET p == cursor.at
      s == IF cursor.large THEN SweptLargePage(p) ELSE SweptPage(p)
      others == {a \in DOMAIN block : PageFor(a) # p}
  IN  /\ cursor.loop = "sweep" /\ p # NULL
      /\ block' = RestrictTo(block, others) @@ s.kept
      /\ free_lists_' = s.lists
      /\ IF s.in_use_swept = 0
           THEN /\ Unlink(p, cursor.prev, cursor.large)
                /\ page' = RestrictTo(page, DOMAIN page \ {p})
                /\ capacity_' = capacity_ - MemorySize(p)
                /\ cursor' = [cursor EXCEPT !.at = next[p]]
           ELSE /\ page' = [page EXCEPT ![p].top = s.top,
                                        ![p].used = 0]
                /\ cursor' = [cursor EXCEPT !.at = next[p], !.prev = p,
                                            !.in_use = @ + s.in_use_swept]
                /\ UNCHANGED <<listVars, capacity_>>
      /\ UNCHANGED <<bump_page_, in_use_, objects, failed>>

\* The end of the list: the large pages are next, and then in_use_ is set.
SweepEndOfList ==
  /\ cursor.loop = "sweep" /\ cursor.at = NULL
  /\ IF cursor.large
       THEN in_use_' = cursor.in_use /\ cursor' = Idle
       ELSE cursor' = SweepFrom(large_pages_, TRUE, cursor.in_use) /\ UNCHANGED in_use_
  /\ UNCHANGED <<listVars, bump_page_, page, capacity_, free_lists_, block, objects, failed>>

-----------------------------------------------------------------------------
(* PageSpace::VisitObjectPointers, with a visitor that may allocate *)

At(p, large, left) ==
  [loop |-> "visit", large |-> large, at |-> p, addr |-> first_object_start(p),
   end |-> page[p].top, left |-> left]

\* Mutant: the large pages are forgotten.
EnterSmall(p, large, left) ==
  IF p # NULL THEN At(p, large, left) ELSE Idle

\* The visitor comes to page p, or to the end of a list.
Enter(p, large, left) ==
  IF p # NULL THEN At(p, large, left)
  ELSE IF ~large /\ large_pages_ # NULL THEN At(large_pages_, TRUE, left)
  ELSE Idle

Visit(c) ==
  /\ cursor' = c
  /\ failed' = 0
  /\ UNCHANGED <<listVars, bump_page_, page, capacity_, in_use_, free_lists_, block, objects>>

VisitObjectPointers ==
  /\ cursor.loop = "none" /\ DOMAIN page # {}
  /\ Visit(Enter(pages_, FALSE, DOMAIN objects))

VisitPointers ==
  /\ cursor.loop = "visit" /\ cursor.addr < cursor.end
  /\ Visit([cursor EXCEPT !.addr = @ + block[@].size, !.left = @ \ {cursor.addr}])

VisitNextPage ==
  /\ cursor.loop = "visit" /\ cursor.addr >= cursor.end
  /\ Visit(Enter(next[cursor.at], cursor.large, cursor.left))

-----------------------------------------------------------------------------

Next ==
  \/ \E size \in Sizes :
       \/ BumpAllocate(size) \/ FreeListAllocate(size) \/ AllocatePage(size)
       \/ AllocateLargePage(size) \/ AllocationFails(size)
  \/ \E live \in SUBSET DOMAIN objects : MarkSweep(live)
  \/ SweepPage \/ SweepEndOfList
  \/ VisitObjectPointers \/ VisitPointers \/ VisitNextPage

Spec == Init /\ [][Next]_vars

-----------------------------------------------------------------------------
(* Properties *)

\* Type invariant: of the fields of a PageSpace.
PSTypeOK ==
  /\ {pages_, pages_tail_, large_pages_, bump_page_} \cup Range(next)
       \subseteq {NULL} \cup PageIds
  /\ DOMAIN page \subseteq PageIds
  /\ \A p \in DOMAIN page : page[p].used \in Nat /\ page[p].top <= page[p].end
  /\ capacity_ \in 0 .. max_capacity_ /\ in_use_ \in 0 .. max_capacity_
  /\ cursor.loop \in {"none", "sweep", "visit"} /\ failed \in {0} \cup Sizes

BlocksOf(p) == {a \in DOMAIN block : PageFor(a) = p}

\* The blocks of a page lie one behind the other from its first object to
\* its top, whatever was allocated, split, merged and freed: this is what
\* "ASSERT(obj_addr == end_addr)" in HeapPage::VisitObjectPointers relies on.
Tiled ==
  /\ \A a \in DOMAIN block : PageFor(a) \in DOMAIN page
  /\ \A p \in DOMAIN page :
       /\ first_object_start(p) \in BlocksOf(p)
       /\ \A a \in BlocksOf(p) :
            a + block[a].size = Min({b \in BlocksOf(p) \cup {page[p].top} : b > a})

\* Between two calls, the free lists have each free block exactly once, in
\* the list for its size, and nothing else.
FreeListsExact ==
  cursor.loop = "none" =>
    /\ IsInjective(FlattenSeq(free_lists_))
    /\ Range(FlattenSeq(free_lists_)) = {a \in DOMAIN block : block[a].free}
    /\ \A i \in 1 .. kNumLists : \A a \in Range(free_lists_[i]) :
         IndexForSize(block[a].size) = i

\* The objects of the program keep their memory: an allocation never takes
\* it, and a sweep frees no object that the marker marked, also where it
\* stops early because used_ says that no marked object is left.
ObjectsIntact ==
  \A a \in DOMAIN objects :
    a \in DOMAIN block /\ block[a].size = objects[a] /\ ~block[a].free

\* Between two calls, capacity_ is the size of the pages and in_use_ that of
\* the objects, though both are kept up by increments and by a sweep's sums,
\* and no page is kept without an object.
AccountingExact ==
  cursor.loop = "none" =>
    /\ capacity_ = MapThenSumSet(LAMBDA p : page[p].end - p * Stride, DOMAIN page)
    /\ in_use_ = SizeOf({a \in DOMAIN block : ~block[a].free})
    /\ \A p \in DOMAIN page : \E a \in BlocksOf(p) : ~block[a].free

\* TryAllocate fails only when no free list has an element that is large
\* enough, the last page is full, and there is no room for another page.
FailsOnlyWhenFull ==
  failed # 0 /\ Small(failed) =>
    /\ \A a \in DOMAIN block : block[a].free => block[a].size < failed
    /\ pages_tail_ # NULL => ~HasRoom(pages_tail_, failed)
    /\ capacity_ + kPageSize > max_capacity_

\* A visitor that promotes objects into the pages it walks (VisitObjectPointers)
\* sees every object that was there when it began: no pointer from the old
\* generation to the young one is missed by a scavenge.
VisitComplete ==
  [][cursor.loop = "visit" /\ cursor'.loop = "none" => cursor.left = {}]_vars
=============================================================================
