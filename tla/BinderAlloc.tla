----------------------------- MODULE BinderAlloc -----------------------------
(***************************************************************************)
(* The buffer allocator of one process: the area that binder_mmap makes,   *)
(* its headers and buffers, the two trees over them, the space for oneway  *)
(* calls and the pages that back it all (driver-binder.c).                 *)
(*                                                                         *)
(* Addresses count bytes from the start of the area and pages count from 0.*)
(* A buffer is named by the address of its header; a size_t wraps at Wrap. *)
(* Every operation runs under binder_main_lock and is one action; inside   *)
(* it the functions of the driver are operators from the state of the area *)
(* to its next state.  Contents are left out: a request is its three sizes.*)
(***************************************************************************)
EXTENDS Integers, FiniteSets, FiniteSetsExt

CONSTANTS
  Size,        \* bytes of the area, proc->buffer_size
  PageSize,
  Header,      \* sizeof(struct binder_buffer)
  Word,        \* sizeof(void *)
  Slack,       \* a rest of up to this much is not worth a buffer: 4
  Wrap,        \* size_t arithmetic is modulo this
  Requests     \* the <<data_size, offsets_size, extra_buffers_size>> asked for

ASSUME AllocAssumption ==
  /\ {Size, PageSize, Header, Word, Slack, Wrap} \subseteq Nat \ {0}
  /\ Size % PageSize = 0 /\ PageSize % Word = 0 /\ Header % Word = 0
  /\ Header + Slack < PageSize
  /\ Wrap % Word = 0 /\ Size < Wrap
  /\ Requests \subseteq (0..Wrap - 1) \X (0..Wrap - 1) \X (0..Wrap - 1)

Addresses == 0..Size - 1
Pages     == 0..(Size \div PageSize) - 1

VARIABLES
  area,       \* the headers, the trees over them, the pages
  space,      \* proc->free_async_space
  life        \* "open", "unmapped" (proc->vma = NULL), "releasing", "gone"

vars == <<area, space, life>>

TypeOK ==
  /\ area \in [headers : SUBSET Addresses,         \* proc->buffers
               free    : SUBSET Addresses,         \* proc->free_buffers
               key     : [Addresses -> 0..Size],   \* size when put in that tree
               asked   : [Addresses -> Requests \cup {<<0, 0, 0>>}],
               async   : SUBSET Addresses,         \* async_transaction
               given   : SUBSET Addresses,         \* allow_user_free
               pages   : SUBSET Pages,             \* proc->pages[i] # NULL
               bug     : BOOLEAN]
  /\ space \in 0..Wrap - 1
  /\ life \in {"open", "unmapped", "releasing", "gone"}

Allocated(s) == s.headers \ s.free     \* proc->allocated_buffers

-----------------------------------------------------------------------------
(* Sizes and neighbours. *)

Data(a)  == a + Header                 \* buffer->data
Above(s, a) == {b \in s.headers : b > a}
Below(s, a) == {b \in s.headers : b < a}
NextHeader(s, a) == Min(Above(s, a) \cup {Size})

binder_buffer_size(s, a) == NextHeader(s, a) - Data(a)

Aligned(n) == (((n + Word - 1) % Wrap) \div Word) * Word

\* What is asked for, or nothing when the sum does not fit a size_t.
DataOffsets(r) == (Aligned(r[1]) + Aligned(r[2])) % Wrap
Total(r)       == (DataOffsets(r) + Aligned(r[3])) % Wrap
FirstSumChecked(r) == DataOffsets(r) >= r[1] /\ DataOffsets(r) >= r[2]
Representable(r) == /\ DataOffsets(r) >= r[1] /\ DataOffsets(r) >= r[2]
                    /\ Total(r) >= DataOffsets(r) /\ Total(r) >= r[3]

-----------------------------------------------------------------------------
(* Pages. *)

PageOf(x)    == x \div PageSize                       \* x & PAGE_MASK
PageAlign(x) == (x + PageSize - 1) \div PageSize      \* PAGE_ALIGN(x)

\* binder_update_page_range: mapping is all or nothing, for what it mapped
\* before a failure is undone.
MapPages(s, from, end) ==
  [s EXCEPT !.bug = @ \/ (from..end - 1) \cap s.pages # {},
            !.pages = @ \cup (from..end - 1)]

UnmapPages(s, from, end) ==
  [s EXCEPT !.bug = @ \/ ~(from..end - 1) \subseteq s.pages,
            !.pages = @ \ (from..end - 1)]

buffer_start_page(a) == PageOf(a)
buffer_end_page(a)   == PageOf(a + Header - 1)

-----------------------------------------------------------------------------
(* The tree of free buffers: binder_insert_free_buffer, rb_erase. *)

InsertFree(s, a) ==
  [s EXCEPT !.free = @ \cup {a}, !.key[a] = binder_buffer_size(s, a)]

Erase(s, a) == [s EXCEPT !.free = @ \ {a}, !.key[a] = 0]     \* rb_erase

(***************************************************************************)
(* binder_alloc_buf.  The tree is searched by size: an exact match if there*)
(* is one, else the smallest that is larger.                               *)
(***************************************************************************)
BestFits(s, n) ==
  LET exact  == {a \in s.free : s.key[a] = n}
      larger == {a \in s.free : s.key[a] > n}
  IN  IF exact # {} THEN exact
      ELSE {a \in larger : \A b \in larger : s.key[a] <= s.key[b]}

\* A oneway call's buffer is part of the half area left to such calls.
AnyRoom(n) == TRUE       \* Mutant: nobody looks whether it is.
AsyncRoom(n) == space >= (n + Header) % Wrap

\* How much of the buffer is taken: all that is asked for, and a header
\* behind it when the rest is worth one.
Taken(s, a, n) ==
  LET whole == binder_buffer_size(s, a)
  IN  IF whole = n \/ n + Header + Slack >= whole THEN n ELSE n + Header

LastPageRoundedUp(s, a, n) == PageAlign(Data(a) + Taken(s, a, n))
LastPage(s, a, n) ==
  Min({PageAlign(Data(a) + Taken(s, a, n)),
       PageOf(Data(a) + binder_buffer_size(s, a))})

Allocate(s, a, r, isAsync) ==
  LET n == Total(r)
      mapped == MapPages(s, PageAlign(Data(a)), LastPage(s, a, n))
      taken == [Erase(mapped, a) EXCEPT !.asked[a] = r,
                                        !.async = IF isAsync THEN @ \cup {a} ELSE @]
  IN  IF Taken(s, a, n) = n THEN taken
      ELSE InsertFree([taken EXCEPT !.headers = @ \cup {Data(a) + n}],
                      Data(a) + n)

-----------------------------------------------------------------------------
(***************************************************************************)
(* binder_delete_free_buffer: the header of a free buffer goes, with the   *)
(* pages that only this header kept.                                       *)
(***************************************************************************)
SharesPrev(s, a) ==
  buffer_end_page(Max(Below(s, a))) = buffer_start_page(a)
AloneBelow(s, a) == FALSE
SharesNext(s, a) ==
  /\ Above(s, a) # {}
  /\ buffer_start_page(Min(Above(s, a))) = buffer_end_page(a)

FreesStart(s, a) ==
  /\ ~SharesPrev(s, a)
  /\ ~(SharesNext(s, a) /\ buffer_start_page(a) = buffer_end_page(a))
FreesEnd(s, a) ==
  /\ ~(SharesPrev(s, a) /\ buffer_end_page(Max(Below(s, a))) = buffer_end_page(a))
  /\ ~SharesNext(s, a)

DeleteFree(s, a) ==
  LET gone == [s EXCEPT !.headers = @ \ {a},
                        !.bug = @ \/ Below(s, a) = {}]
      from == IF FreesStart(s, a) THEN buffer_start_page(a) ELSE buffer_end_page(a)
      last == IF FreesEnd(s, a) THEN buffer_end_page(a) ELSE buffer_start_page(a)
  IN  IF FreesStart(s, a) \/ FreesEnd(s, a)
      THEN UnmapPages(gone, from, last + 1)
      ELSE gone

-----------------------------------------------------------------------------
(***************************************************************************)
(* binder_free_buf: the pages inside, the next buffer if it is free, then  *)
(* the previous one if it is.                                              *)
(***************************************************************************)
MergeNext(s, a) ==
  LET b == Min(Above(s, a))
  IN  IF Above(s, a) # {} /\ b \in s.free
      THEN DeleteFree(Erase(s, b), b)
      ELSE s

\* The previous buffer leaves the tree and comes back with its new size.
MergePrevInPlace(s, a) ==
  LET b == Max(Below(s, a))
  IN  IF Below(s, a) # {} /\ b \in s.free THEN DeleteFree(s, a)
      ELSE InsertFree(s, a)
MergePrev(s, a) ==
  LET b == Max(Below(s, a))
  IN  IF Below(s, a) # {} /\ b \in s.free
      THEN InsertFree(Erase(DeleteFree(s, a), b), b)
      ELSE InsertFree(s, a)

FreeBuffer(s, a) ==
  LET inside == UnmapPages(s, PageAlign(Data(a)),
                           PageOf(Data(a) + binder_buffer_size(s, a)))
      freed  == [inside EXCEPT
                   !.bug = @ \/ a \in s.free
                             \/ Total(s.asked[a]) > binder_buffer_size(s, a),
                   !.asked[a] = <<0, 0, 0>>,
                   !.async = @ \ {a}, !.given = @ \ {a}]
  IN  MergePrev(MergeNext(freed, a), a)

\* What a oneway call's buffer gives back.
GivenBack(s, a) ==
  IF a \in s.async THEN Total(s.asked[a]) + Header ELSE 0

-----------------------------------------------------------------------------
(* binder_mmap has run. *)
Init ==
  /\ area = InsertFree([headers |-> {0}, free |-> {},
                        key |-> [a \in Addresses |-> 0],
                        asked |-> [a \in Addresses |-> <<0, 0, 0>>],
                        async |-> {}, given |-> {}, pages |-> {0},
                        bug |-> FALSE], 0)
  /\ space = Size \div 2
  /\ life = "open"

\* A transaction to this process gets its buffer.  It is refused, and changes
\* nothing, when the sizes overflow, oneway space is short, no buffer is large
\* enough or a page cannot be had.
binder_alloc_buf(r, isAsync) ==
  /\ life = "open"
  /\ Representable(r)
  /\ isAsync => AsyncRoom(Total(r))
  /\ \E a \in BestFits(area, Total(r)) : area' = Allocate(area, a, r, isAsync)
  /\ space' = IF isAsync THEN space - (Total(r) + Header) ELSE space
  /\ UNCHANGED life

Free(a) ==
  /\ area' = FreeBuffer(area, a)
  /\ space' = space + GivenBack(area, a)
  /\ UNCHANGED life

\* The transaction reaches the user, who may then free its buffer.
Return(a) ==
  /\ life \in {"open", "unmapped"}
  /\ a \in Allocated(area) \ area.given
  /\ area' = [area EXCEPT !.given = @ \cup {a}]
  /\ UNCHANGED <<space, life>>

\* binder_transaction fails after it allocated: the driver frees.
TransactionFails(a) ==
  /\ life \in {"open", "unmapped"}
  /\ a \in Allocated(area) \ area.given
  /\ Free(a)

\* BC_FREE_BUFFER with any pointer: binder_buffer_lookup finds allocated
\* buffers only, and only those handed out are freed.
UserFrees(x) ==
  /\ life \in {"open", "unmapped"}
  /\ \E a \in Allocated(area) : Data(a) = x /\ a \in area.given /\ Free(a)

\* munmap, then the last close: every allocated buffer is freed, in the order
\* of their addresses, then the pages that are left.
Unmap ==
  /\ life = "open"
  /\ life' = "unmapped"
  /\ UNCHANGED <<area, space>>

ReleaseBuffer ==
  /\ life \in {"unmapped", "releasing"}
  /\ Allocated(area) # {}
  /\ LET a == Min(Allocated(area))
     IN  /\ area' = FreeBuffer(area, a)
         /\ space' = space + GivenBack(area, a)
  /\ life' = "releasing"

ReleasePages ==
  /\ life \in {"unmapped", "releasing"}
  /\ Allocated(area) = {}
  /\ area' = [area EXCEPT !.pages = {}]
  /\ life' = "gone"
  /\ UNCHANGED space

Next ==
  \/ \E r \in Requests, isAsync \in BOOLEAN : binder_alloc_buf(r, isAsync)
  \/ \E a \in Addresses : Return(a) \/ TransactionFails(a)
  \/ \E x \in 0..Size : UserFrees(x)
  \/ Unmap
  \/ ReleaseBuffer
  \/ ReleasePages

Spec == Init /\ [][Next]_vars

-----------------------------------------------------------------------------
(***************************************************************************)
(* Properties.                                                             *)
(***************************************************************************)

\* The bytes a request really needs, whatever a size_t can hold.
Up(n) == ((n + Word - 1) \div Word) * Word
Needs(r) == Up(r[1]) + Up(r[2]) + Up(r[3])

\* No header lies inside another buffer's header or data, a buffer is as large
\* as what was asked of it (binder_alloc_buf's arithmetic never wraps to less),
\* and two free buffers are never neighbours: after any sequence of frees the
\* free space is in one piece as far as it can be.
BuffersFit ==
  /\ 0 \in area.headers /\ area.free \subseteq area.headers
  /\ \A a \in area.headers : binder_buffer_size(area, a) >= 0
  /\ \A a \in Allocated(area) : Needs(area.asked[a]) <= binder_buffer_size(area, a)
  /\ \A a \in area.free : Above(area, a) # {} => Min(Above(area, a)) \notin area.free

\* A page is there exactly if a header or the data of an allocated buffer lies
\* on it: the driver and the receiver never touch a missing page, and no page
\* stays behind when its last byte is freed (binder_update_page_range,
\* binder_delete_free_buffer).
Touches(a, size) == {PageOf(x) : x \in a..a + size - 1}
PagesExact ==
  life # "gone" =>
    area.pages = (UNION {Touches(a, Header) : a \in area.headers})
                   \cup (UNION {Touches(Data(a), Total(area.asked[a])) :
                                a \in Allocated(area)})

\* Whatever the order of allocations and frees, the space left for oneway calls
\* is half of the area less the bytes of oneway buffers, and never negative
\* (free_async_space in binder_alloc_buf and binder_free_buf).
AsyncBytes == UNION {a..Data(a) + Total(area.asked[a]) - 1 : a \in area.async}
AsyncSpaceExact ==
  /\ space >= 0
  /\ area.async \subseteq Allocated(area)
  /\ space + Cardinality(AsyncBytes) = Size \div 2

\* The tree of free buffers is ordered by sizes that its walks compute anew: a
\* buffer never changes its size while it is in the tree, so the walk finds a
\* buffer whenever there is one (binder_insert_free_buffer, binder_alloc_buf).
TreeIsOrdered == \A a \in area.free : area.key[a] = binder_buffer_size(area, a)

\* No BUG_ON of the allocator fires: no page is mapped twice, freed twice or
\* freed without being there, only free buffers are merged into.
NoBugOn == ~area.bug
=============================================================================
