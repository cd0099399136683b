---------------------------- MODULE BinderObjects ----------------------------
(***************************************************************************)
(* The objects that a transaction carries into one target process: how     *)
(* binder_transaction translates them one after the other, what it undoes  *)
(* when one of them fails, and what the buffer gives back when the target  *)
(* frees it (driver-binder.c).                                             *)
(*                                                                         *)
(* The driver does all this under binder_main_lock, but the target's file  *)
(* table is not under that lock: the target's own program opens and closes *)
(* files between any two objects.  So each object is an action.            *)
(*                                                                         *)
(* Objects are numbered from 1 in the order of the offsets array.  The     *)
(* extra area of a buffer, where the scatter-gather copies go, is an array *)
(* of cells; addresses are offsets into it.  A cell holds the sender's     *)
(* data, a part of a pointer or a part of a file descriptor.  What makes a *)
(* header or an offset invalid, a copy fault and a refusal by the security *)
(* module are left out: an object may fail at any time.  How counts drive  *)
(* nodes and references is BinderRefs.                                     *)
(***************************************************************************)
EXTENDS Integers, Sequences, FiniteSets, FiniteSetsExt, SequencesExt

CONSTANTS
  Nodes,       \* what flat objects refer to
  MaxFd,       \* RLIMIT_NOFILE of the target
  FdSize,      \* sizeof(u32)
  PtrSize,     \* sizeof(binder_uintptr_t), that of a u64 and of a kernel pointer
  ExtraSizes,  \* extra_buffers_size of a transaction
  Lengths,     \* lengths of its buffer objects
  Offsets,     \* parent offsets
  Counts,      \* numbers of descriptors in an array
  MaxObjects,  \* bound: objects of all buffers
  MaxKept      \* bound: buffers the target has not freed

ASSUME ObjectsAssumption ==
  /\ {MaxFd, FdSize, PtrSize, MaxObjects, MaxKept} \subseteq Nat \ {0}
  /\ PtrSize % FdSize = 0
  /\ ExtraSizes \cup Lengths \cup Offsets \cup Counts \subseteq Nat
  /\ "none" \notin Nodes

SumBy(S, f(_)) == MapThenSumSet(f, S)

NoBuffer == [extra |-> 0]
Fds == 0..MaxFd - 1

VARIABLES
  files,     \* target_proc->files: "closed", "own" (the target's program opened
             \* it or was given it) or "sent" (installed by a transaction)
  refs,      \* the target's counts for a node: a reference's, or its own node's
  building,  \* the buffer of the transaction that is being translated
  kept       \* the buffers that the target has and has not freed

vars == <<files, refs, building, kept>>

Cell   == {<<"data", 0>>} \cup ({"fd", "ptr"} \X Nat)
Object == [type : {"flat"}, node : Nodes, strong : BOOLEAN]
            \cup [type : {"fd"}, fd : Fds]
            \cup [type : {"ptr"}, length : Lengths, buffer : Nat, parent : Nat, offset : Offsets]
            \cup [type : {"fda"}, num : Counts, parent : Nat, offset : Offsets]

IsBuffer(b) ==
  /\ b.target_node \in Nodes \cup {"none"} /\ b.accepts \in BOOLEAN
  /\ b.extra \in ExtraSizes /\ b.mem \in [0..b.extra - 1 -> Cell]
  /\ b.objs \in Seq(Object)
  /\ {b.sg, b.last, b.min} \subseteq Nat     \* sg_bufp, last_fixup_obj, last_fixup_min_off

TypeOK ==
  /\ files \in [Fds -> {"closed", "own", "sent"}]
  /\ refs \in [Nodes \X BOOLEAN -> Nat]
  /\ building # NoBuffer => IsBuffer(building)
  /\ \A i \in DOMAIN kept : IsBuffer(kept[i])

-----------------------------------------------------------------------------
(* The objects of a buffer b, and its extra area. *)

Flat(b, n, strong) ==
  {i \in DOMAIN b.objs : b.objs[i] = [type |-> "flat", node |-> n, strong |-> strong]}
TargetNode(b, r) == IF r = <<b.target_node, TRUE>> THEN 1 ELSE 0
OfType(b, type) == {i \in DOMAIN b.objs : b.objs[i].type = type}

\* binder_validate_ptr, among the objects before the one that asks.
IsParent(b, p) == p \in OfType(b, "ptr")

\* The cells at an offset of the buffer object p.
Slot(b, p, offset, size) ==
  LET at == b.objs[p].buffer + offset IN at..at + size - 1

\* The objects that binder_validate_fixup walks over, from object i up.
GoesUp(b, C) == \A c \in C : b.objs[c].parent \in C \cup {0}
UpFrom(b, i) ==
  {a \in OfType(b, "ptr") : \A C \in SUBSET OfType(b, "ptr") : i \in C /\ GoesUp(b, C) => a \in C}
Lineage(b) == IF b.last = 0 THEN {} ELSE UpFrom(b, b.last)

FirstFreeBeforePointer(b, p) ==
  IF p = b.last THEN b.min
  ELSE LET child == CHOOSE c \in Lineage(b) : b.objs[c].parent = p
       IN  b.objs[child].offset

\* Where the next fixup in p may start: after the last fixup in p itself, or
\* after the pointer to the child of p on the way up.
FirstFree(b, p) ==
  IF p = b.last THEN b.min
  ELSE LET child == CHOOSE c \in Lineage(b) : b.objs[c].parent = p
       IN  b.objs[child].offset + PtrSize

MayFixup(b, p, offset) == p \in Lineage(b) /\ offset >= FirstFree(b, p)

PointerFits(b, p, offset) ==
  /\ b.objs[p].length >= PtrSize
  /\ offset <= b.objs[p].length - PtrSize

ArrayFits(b, p, offset, num) ==
  /\ FdSize * num <= b.objs[p].length
  /\ offset <= b.objs[p].length - FdSize * num

Write(mem, cells, value) == [a \in DOMAIN mem |-> IF a \in cells THEN value ELSE mem[a]]

-----------------------------------------------------------------------------
(* File descriptors. *)

Unused == {fd \in Fds : files[fd] = "closed"}

\* __alloc_fd gives the lowest number that is free; the i-th one after i - 1.
UnusedFd(i) == CHOOSE fd \in Unused : Cardinality({g \in Unused : g < fd}) = i - 1
InstalledFds(n) == {UnusedFd(i) : i \in 1..n}

\* What an array of the buffer holds now: what task_close_fd is called with.
ArrayFds(b, o) ==
  {fd \in Fds : \E i \in 0..o.num - 1 :
     b.mem[b.objs[o.parent].buffer + o.offset + FdSize * i] = <<"fd", fd>>}

-----------------------------------------------------------------------------
(***************************************************************************)
(* binder_transaction_buffer_release of the objects 1..end, of a           *)
(* transaction that failed or of a buffer that is freed.                   *)
(***************************************************************************)
Closed(b, end, failed) ==
  LET fds    == {b.objs[i].fd : i \in OfType(b, "fd") \cap 1..end}
      arrays == {i \in OfType(b, "fda") \cap 1..end :
                   /\ IsParent(b, b.objs[i].parent)
                   /\ ArrayFits(b, b.objs[i].parent, b.objs[i].offset, b.objs[i].num)}
  IN  (IF failed THEN fds ELSE {}) \cup UNION {ArrayFds(b, b.objs[i]) : i \in arrays}

FilesAfter(table, b, end, failed) ==
  [fd \in Fds |-> IF fd \in Closed(b, end, failed) THEN "closed" ELSE table[fd]]

\* A count that is 0 stays 0 (binder_dec_ref).
RefsAfter(b, end) ==
  [r \in DOMAIN refs |-> Max({0, refs[r] - Cardinality(Flat(b, r[1], r[2]) \cap 1..end)
                                         - TargetNode(b, r)})]

FailedAtIncluded(b) == Len(b.objs) + 1
\* offp: the objects before the one that failed.
FailedAt(b) == Len(b.objs)

-----------------------------------------------------------------------------
(* binder_transaction, object by object. *)

Init == /\ files = [fd \in Fds |-> "closed"]
        /\ refs = [r \in Nodes \X BOOLEAN |-> 0]
        /\ building = NoBuffer
        /\ kept = <<>>

\* A call names a node of the target, which the buffer holds; a reply does not.
Begin ==
  /\ building = NoBuffer
  /\ Len(kept) < MaxKept
  /\ \E node \in Nodes \cup {"none"}, accepts \in BOOLEAN, extra \in ExtraSizes :
       /\ building' = [target_node |-> node, accepts |-> accepts, extra |-> extra,
                       objs |-> <<>>, mem |-> [a \in 0..extra - 1 |-> <<"data", 0>>],
                       sg |-> 0, last |-> 0, min |-> 0]
       /\ refs' = IF node = "none" THEN refs ELSE [refs EXCEPT ![<<node, TRUE>>] = @ + 1]
  /\ UNCHANGED <<files, kept>>

\* The loop is reached when extra_buffers_size is a multiple of a u64.
Translating == /\ building # NoBuffer
               /\ building.extra % PtrSize = 0
               /\ Len(building.objs) + SumBy(DOMAIN kept, LAMBDA i : Len(kept[i].objs)) < MaxObjects

\* binder_translate_binder, binder_translate_handle
TranslateFlat(n, strong) ==
  /\ Translating
  /\ building' = [building EXCEPT
       !.objs = Append(@, [type |-> "flat", node |-> n, strong |-> strong])]
  /\ refs' = [refs EXCEPT ![<<n, strong>>] = @ + 1]
  /\ UNCHANGED <<files, kept>>

\* binder_translate_fd: the object now names the target's descriptor.
TranslateFd ==
  /\ Translating
  /\ building.accepts
  /\ Unused # {}
  /\ building' = [building EXCEPT !.objs = Append(@, [type |-> "fd", fd |-> UnusedFd(1)])]
  /\ files' = [files EXCEPT ![UnusedFd(1)] = "sent"]
  /\ UNCHANGED <<refs, kept>>

\* A buffer object: copied to the extra area, and its address written into its
\* parent's copy (binder_fixup_parent).  Without a parent, p = 0.
Reserved(length) == ((length + PtrSize - 1) \div PtrSize) * PtrSize

TranslatePtr(length, p, offset) ==
  /\ Translating
  /\ length <= building.extra - building.sg
  /\ p = 0 \/ (/\ IsParent(building, p) /\ MayFixup(building, p, offset)
               /\ PointerFits(building, p, offset))
  /\ LET slot == IF p = 0 THEN {} ELSE Slot(building, p, offset, PtrSize)
     IN  building' = [building EXCEPT
           !.objs = Append(@, [type |-> "ptr", length |-> length, buffer |-> building.sg,
                               parent |-> p, offset |-> offset]),
           !.mem = Write(@, slot, <<"ptr", building.sg>>),
           !.sg = @ + Reserved(length), !.last = Len(building.objs) + 1, !.min = 0]
  /\ UNCHANGED <<files, refs, kept>>

\* An array of descriptors in the parent's copy (binder_translate_fd_array).
AfterArray(offset, num) == offset + FdSize * num

ArrayIsValid(num, p, offset) ==
  /\ Translating
  /\ IsParent(building, p) /\ MayFixup(building, p, offset)
  /\ ArrayFits(building, p, offset, num)
  /\ (building.objs[p].buffer + offset) % FdSize = 0

TranslateFdArray(num, p, offset) ==
  /\ ArrayIsValid(num, p, offset)
  /\ num = 0 \/ building.accepts
  /\ num <= Cardinality(Unused)
  /\ LET at(i) == Slot(building, p, offset + FdSize * (i - 1), FdSize)
     IN  building' = [building EXCEPT
           !.objs = Append(@, [type |-> "fda", num |-> num, parent |-> p, offset |-> offset]),
           !.mem = [a \in DOMAIN @ |->
                      IF \E i \in 1..num : a \in at(i)
                      THEN <<"fd", UnusedFd(CHOOSE i \in 1..num : a \in at(i))>> ELSE @[a]],
           !.last = p, !.min = AfterArray(offset, num)]
  /\ files' = [fd \in Fds |-> IF fd \in InstalledFds(num) THEN "sent" ELSE files[fd]]
  /\ UNCHANGED <<refs, kept>>

-----------------------------------------------------------------------------
(* The error path: release what came before, free the buffer. *)

\* A bad offset or object, a fault, a refusal: o is as the sender wrote it.
Fails(o) ==
  /\ building # NoBuffer
  /\ LET b == [building EXCEPT !.objs = Append(@, o)]
     IN  /\ files' = FilesAfter(files, b, FailedAt(building), TRUE)
         /\ refs' = RefsAfter(b, FailedAt(building))
  /\ building' = NoBuffer
  /\ UNCHANGED kept

ClosedAgainButLast(n) == InstalledFds(n - 1)
\* The descriptor after the first n of an array cannot be installed: these are
\* closed again (err_translate_fd_failed), then the objects before.
ClosedAgain(n) == InstalledFds(n)

FdArrayFails(num, p, offset, n) ==
  /\ ArrayIsValid(num, p, offset)
  /\ building.accepts
  /\ n < num /\ n <= Cardinality(Unused)
  /\ LET left == InstalledFds(n) \ ClosedAgain(n)
     IN  files' = FilesAfter([fd \in Fds |-> IF fd \in left THEN "sent" ELSE files[fd]],
                             building, FailedAt(building), TRUE)
  /\ refs' = RefsAfter(building, FailedAt(building))
  /\ building' = NoBuffer
  /\ UNCHANGED kept

-----------------------------------------------------------------------------
(* Delivery, and the target. *)

\* The plain descriptors are the target's from now on: it closes them itself.
Deliver ==
  /\ building # NoBuffer
  /\ building.extra % PtrSize = 0
  /\ kept' = Append(kept, building)
  /\ building' = NoBuffer
  /\ files' = [fd \in Fds |-> IF \E i \in OfType(building, "fd") : building.objs[i].fd = fd
                              THEN "own" ELSE files[fd]]
  /\ UNCHANGED refs

\* BC_FREE_BUFFER, of any buffer that the target has.
UserFrees(i) ==
  /\ building = NoBuffer
  /\ files' = FilesAfter(files, kept[i], Len(kept[i].objs), FALSE)
  /\ refs' = RefsAfter(kept[i], Len(kept[i].objs))
  /\ kept' = RemoveAt(kept, i)
  /\ UNCHANGED building

TargetOpens ==
  /\ Unused # {}
  /\ files' = [files EXCEPT ![UnusedFd(1)] = "own"]
  /\ UNCHANGED <<refs, building, kept>>

TargetCloses(fd) ==
  /\ files[fd] = "own"
  /\ files' = [files EXCEPT ![fd] = "closed"]
  /\ UNCHANGED <<refs, building, kept>>

FailingObjects ==
  {[type |-> "bad"]} \cup [type : {"fd"}, fd : Fds]
    \cup [type : {"flat"}, node : Nodes, strong : BOOLEAN]

Next ==
  \/ Begin \/ TranslateFd \/ Deliver \/ TargetOpens
  \/ \E n \in Nodes, strong \in BOOLEAN : TranslateFlat(n, strong)
  \/ \E p \in 0..MaxObjects, offset \in Offsets :
       \/ \E length \in Lengths : TranslatePtr(length, p, offset)
       \/ \E num \in Counts : \/ TranslateFdArray(num, p, offset)
                              \/ \E n \in 0..MaxFd : FdArrayFails(num, p, offset, n)
  \/ \E o \in FailingObjects : Fails(o)
  \/ \E i \in DOMAIN kept : UserFrees(i)
  \/ \E fd \in Fds : TargetCloses(fd)

Spec == Init /\ [][Next]_vars

-----------------------------------------------------------------------------
(* Properties. *)

Buffers == kept \o IF building = NoBuffer THEN <<>> ELSE <<building>>

IsBuilt(i) == i > Len(kept)

\* The descriptors that an object of the i-th buffer answers for: those of an
\* array and, until the buffer is delivered, a plain one.
Holds(i, k) ==
  LET b == Buffers[i]
      o == b.objs[k]
  IN  CASE o.type = "fda"               -> ArrayFds(b, o)
        [] o.type = "fd" /\ IsBuilt(i) -> {o.fd}
        [] OTHER                        -> {}
Places == UNION {{i} \X DOMAIN Buffers[i].objs : i \in DOMAIN Buffers}

\* What holds a node, or a reference, in a buffer: flat objects, and 0 for the
\* buffer itself.
Holders(b, r) == Flat(b, r[1], r[2]) \cup (IF TargetNode(b, r) = 1 THEN {0} ELSE {})
HoldersOf(r)  == UNION {{i} \X Holders(Buffers[i], r) : i \in DOMAIN Buffers}

(***************************************************************************)
(* Whatever the point at which a transaction fails, and whatever the order *)
(* in which buffers are freed, the target is left with what its remaining  *)
(* buffers installed and with no more: every count is the number of        *)
(* objects that hold it, and every descriptor that a transaction installed *)
(* is held by one object of one buffer (binder_transaction_buffer_release, *)
(* the error path of binder_translate_fd_array).                           *)
(***************************************************************************)
CountsAreHeld == \A r \in DOMAIN refs : refs[r] = Cardinality(HoldersOf(r))
Sent == {fd \in Fds : files[fd] = "sent"}
SentIsHeld == Sent = UNION {Holds(p[1], p[2]) : p \in Places}
HeldOnce   == \A p, q \in Places : p # q => Holds(p[1], p[2]) \cap Holds(q[1], q[2]) = {}
NothingLeaks == CountsAreHeld /\ SentIsHeld /\ HeldOnce

(***************************************************************************)
(* A fixup never undoes an earlier one, though both go where the sender    *)
(* says: the copies of buffer objects lie in the extra area one after the  *)
(* other, the place for a child's address in its parent holds that address *)
(* and an array holds as many descriptors as it should                     *)
(* (binder_validate_fixup, binder_fixup_parent, last_fixup_min_off).       *)
(***************************************************************************)
FixupsStand ==
  \A b \in Range(Buffers) :
    /\ \A i \in OfType(b, "ptr") :
         LET o == b.objs[i]
         IN  /\ o.buffer + o.length <= b.extra
             /\ \A j \in OfType(b, "ptr") : i < j => o.buffer + o.length <= b.objs[j].buffer
             /\ o.parent # 0 =>
                  \A a \in Slot(b, o.parent, o.offset, PtrSize) : b.mem[a] = <<"ptr", o.buffer>>
    /\ \A i \in OfType(b, "fda") : Cardinality(ArrayFds(b, b.objs[i])) = b.objs[i].num

(***************************************************************************)
(* The driver never closes a file of the target's own: neither when it     *)
(* fails at an object that still holds the sender's descriptor, nor when   *)
(* the target frees a buffer whose plain descriptors it has taken over and *)
(* perhaps closed and opened again.                                        *)
(***************************************************************************)
OwnFilesAreKept ==
  [][\A fd \in Fds : files[fd] = "own" /\ files'[fd] # "own" =>
       building' = building /\ kept' = kept]_vars
=============================================================================
