------------------------- MODULE BinderObjectsProofs -------------------------
(***************************************************************************)
(* Objects of a transaction: the sender chooses every offset and length,   *)
(* yet no fixup undoes another, nothing is left behind, and no file of the *)
(* target's own is closed.  For any nodes, sizes, lengths, offsets, number *)
(* of objects and of buffers.                                              *)
(*                                                                         *)
(* The inductive invariant has, for each buffer, that its copies lie one   *)
(* after the other (Copied), that each fixup is inside its parent (Nested) *)
(* and still as it was made (Stands), and that what is in the extra area   *)
(* are the descriptors of the arrays, each of one of them (Marked, Held,   *)
(* OneEach).  Behind says what makes the next object keep that: earlier    *)
(* fixups in an object of the lineage end before FirstFree.  Disjoint and  *)
(* AllHeld say whose the descriptors are.  The counts come after, as an    *)
(* invariant of their own (Counted): they depend on nothing but objects.   *)
(***************************************************************************)
EXTENDS BinderObjects, FiniteSetTheorems, SequenceTheorems, TLAPS

LEMMA Sizes ==
  /\ MaxFd \in Nat \ {0} /\ FdSize \in Nat \ {0} /\ PtrSize \in Nat \ {0}
  /\ ExtraSizes \subseteq Nat /\ Lengths \subseteq Nat
  /\ Offsets \subseteq Nat /\ Counts \subseteq Nat
BY ObjectsAssumption

LEMMA Monotone ==
  ASSUME NEW F \in Nat, NEW i \in Nat, NEW k \in Nat, i <= k
  PROVE  F * i <= F * k /\ F * i \in Nat
<1>1. PICK d \in Nat : k = i + d
  <2>1. k - i \in Nat /\ k = i + (k - i)
    OBVIOUS
  <2> QED BY <2>1
<1>2. F * k = F * i + F * d
  BY <1>1
<1>3. F * d \in Nat /\ F * i \in Nat
  OBVIOUS
<1> QED BY <1>2, <1>3

LEMMA ReservedIsEnough ==
  ASSUME NEW n \in Nat
  PROVE  Reserved(n) \in Nat /\ n <= Reserved(n)
<1>1. PICK P \in Nat \ {0} : P = PtrSize
  BY Sizes
<1> DEFINE a == n + P - 1
<1>2. a \in Nat /\ n = a + 1 - P
  BY <1>1
<1> HIDE DEF a
<1>3. /\ a \div P \in Nat /\ a % P \in 0..(P - 1)
      /\ a = P * (a \div P) + (a % P)
  BY <1>1, <1>2
<1>4. PICK q \in Nat : q = a \div P
  BY <1>3
<1>5. q * P = P * q /\ q * P \in Nat
  BY <1>1, <1>4
<1>6. n <= q * P
  BY <1>2, <1>3, <1>4, <1>5
<1> QED BY <1>1, <1>4, <1>5, <1>6 DEF Reserved, a

\* The numbers of a finite set have the ranks 0, 1, 2, ...
LEMMA Ranks ==
  ASSUME NEW S \in SUBSET Nat, IsFiniteSet(S), NEW i \in 1..Cardinality(S)
  PROVE  \E x \in S : Cardinality({y \in S : y < x}) = i - 1
<1> DEFINE Below(x) == {y \in S : y < x}
           rank == [x \in S |-> Cardinality(Below(x))]
<1>1. \A x : IsFiniteSet(Below(x)) /\ Below(x) \in SUBSET S /\ Cardinality(Below(x)) \in Nat
  BY FS_Subset, FS_CardinalityType
<1>2. PICK n \in Nat : n = Cardinality(S)
  BY FS_CardinalityType
<1>3. ASSUME NEW x \in S PROVE rank[x] \in 0..(n - 1)
  <2>1. Below(x) # S /\ Cardinality(S) >= Cardinality(Below(x))
    <3>1. x \notin Below(x)
      BY <1>3
    <3> HIDE DEF Below
    <3> QED BY <1>1, <3>1, FS_Subset
  <2>2. Cardinality(S) # Cardinality(Below(x))
    <3> HIDE DEF Below
    <3> QED BY <1>1, <2>1, FS_Subset
  <2> HIDE DEF Below
  <2>3. rank[x] = Cardinality(Below(x))
    OBVIOUS
  <2> QED BY <1>1, <1>2, <2>1, <2>2, <2>3
<1>4. ASSUME NEW x \in S, NEW y \in S, x < y PROVE rank[x] # rank[y]
  <2>1. x \in Nat /\ y \in Nat /\ \A z \in S : z \in Nat
    OBVIOUS
  <2>2. /\ \A z \in Below(x) : z \in Below(y)
        /\ x \in Below(y) /\ x \notin Below(x)
    BY <1>4, <2>1
  <2> HIDE DEF Below
  <2>3. Cardinality(Below(x)) # Cardinality(Below(y))
    <3>1. Below(x) \in SUBSET Below(y) /\ Below(x) # Below(y)
      BY <2>2
    <3> QED BY <1>1, <3>1, FS_Subset
  <2> QED BY <2>3
<1>5. rank \in Injection(S, 0..(n - 1))
  <2>1. \A x, y \in S : x # y => rank[x] # rank[y]
    <3>1. \A x, y \in S : x < y \/ y < x \/ x = y
      OBVIOUS
    <3> HIDE DEF rank
    <3> QED BY <1>4, <3>1
  <2>2. rank \in [S -> 0..(n - 1)]
    BY <1>3
  <2> HIDE DEF rank
  <2> QED BY <2>1, <2>2 DEF Injection, IsInjective
<1>6. Cardinality(0..(n - 1)) = n /\ IsFiniteSet(0..(n - 1))
  BY FS_Interval
<1>7. rank \in Surjection(S, 0..(n - 1))
  <2> HIDE DEF rank
  <2> QED BY <1>2, <1>5, <1>6, FS_Injection
<1>8. PICK x \in S : rank[x] = i - 1
  <2>1. i - 1 \in 0..(n - 1)
    BY <1>2
  <2> HIDE DEF rank
  <2> QED BY <1>7, <2>1 DEF Surjection
<1> QED BY <1>8

\* The i-th descriptor that __alloc_fd gives is free, and is given once.
LEMMA UnusedFds ==
  /\ IsFiniteSet(Unused) /\ Cardinality(Unused) \in Nat /\ Fds \subseteq Nat
  /\ Unused # {} => Cardinality(Unused) >= 1
  /\ \A i \in 1..Cardinality(Unused) : UnusedFd(i) \in Unused
  /\ \A i, j \in 1..Cardinality(Unused) : i # j => UnusedFd(i) # UnusedFd(j)
<1>1. Fds \subseteq Nat /\ IsFiniteSet(Fds)
  BY Sizes, FS_Interval DEF Fds
<1>2. IsFiniteSet(Unused) /\ Unused \in SUBSET Nat /\ Cardinality(Unused) \in Nat
  BY <1>1, FS_Subset, FS_CardinalityType DEF Unused
<1>3. Unused # {} => Cardinality(Unused) >= 1
  BY <1>2, FS_EmptySet
<1>4. \A i \in 1..Cardinality(Unused) :
        \E fd \in Unused : Cardinality({g \in Unused : g < fd}) = i - 1
  BY <1>2, Ranks
<1>5. \A i \in 1..Cardinality(Unused) :
        /\ UnusedFd(i) \in Unused
        /\ Cardinality({g \in Unused : g < UnusedFd(i)}) = i - 1
  BY <1>4 DEF UnusedFd
<1>6. ASSUME NEW i \in 1..Cardinality(Unused), NEW j \in 1..Cardinality(Unused),
             UnusedFd(i) = UnusedFd(j)
      PROVE  i = j
  <2>1. PICK a : a = i - 1 /\ a = j - 1
    <3>1. i - 1 = j - 1
      BY <1>5, <1>6, Zenon
    <3> QED BY <3>1
  <2>2. i \in Nat /\ j \in Nat
    BY <1>2
  <2> QED BY <2>1, <2>2
<1> QED BY <1>1, <1>2, <1>3, <1>5, <1>6

-----------------------------------------------------------------------------
(* The inductive invariant. *)

BufferOf == UNION {[target_node : Nodes \cup {"none"}, accepts : BOOLEAN, extra : {e},
                    mem : [0..e - 1 -> Cell], objs : Seq(Object),
                    sg : Nat, last : Nat, min : Nat] : e \in ExtraSizes}

Typed ==
  /\ files \in [Fds -> {"closed", "own", "sent"}]
  /\ refs \in [Nodes \X BOOLEAN -> Nat]
  /\ building \in BufferOf \cup {NoBuffer}
  /\ kept \in Seq(BufferOf)

Ptrs(b)   == OfType(b, "ptr")
Arrays(b) == OfType(b, "fda")
Fixups(b) == {i \in Ptrs(b) : b.objs[i].parent # 0} \cup Arrays(b)
End(o) == o.offset + (IF o.type = "ptr" THEN PtrSize ELSE FdSize * o.num)
Base(b, o) == b.objs[o.parent].buffer + o.offset

\* The copies lie one after the other in the extra area, and fixups in the copies.
Copied(b) ==
  \A i \in Ptrs(b) : /\ b.objs[i].buffer + b.objs[i].length <= b.extra
                     /\ \A j \in Ptrs(b) :
                          i < j => b.objs[i].buffer + b.objs[i].length <= b.objs[j].buffer
Nested(b) ==
  \A i \in Fixups(b) : LET o == b.objs[i]
                       IN  /\ o.parent \in Ptrs(b) /\ o.parent < i
                           /\ End(o) <= b.objs[o.parent].length

\* Each fixup is as it was made.
PointerStands(b, o) ==
  \A a \in Slot(b, o.parent, o.offset, PtrSize) : b.mem[a] = <<"ptr", o.buffer>>
ArrayStands(b, o) ==
  /\ \A k \in 0..o.num - 1 : \E fd \in Fds : b.mem[Base(b, o) + FdSize * k] = <<"fd", fd>>
  /\ \A k, l \in 0..o.num - 1 :
       b.mem[Base(b, o) + FdSize * k] = b.mem[Base(b, o) + FdSize * l] => k = l
Stands(b) == \A i \in Fixups(b) : IF b.objs[i].type = "ptr" THEN PointerStands(b, b.objs[i])
                                  ELSE ArrayStands(b, b.objs[i])

\* The descriptors in the extra area are those of the arrays.
Marked(b) == {fd \in Fds : \E a \in 0..b.extra - 1 : b.mem[a] = <<"fd", fd>>}
Held(b)   == UNION {ArrayFds(b, b.objs[i]) : i \in Arrays(b)}

\* The descriptors of plain objects; no descriptor has two objects.
Plain(b) == {b.objs[k].fd : k \in OfType(b, "fd")}
OneEach(b) ==
  /\ \A k, l \in Arrays(b) :
       k # l => ArrayFds(b, b.objs[k]) \cap ArrayFds(b, b.objs[l]) = {}
  /\ \A k, l \in OfType(b, "fd") : b.objs[k].fd = b.objs[l].fd => k = l

BufferOK(b) ==
  Copied(b) /\ Nested(b) /\ Stands(b) /\ Marked(b) = Held(b) /\ OneEach(b)

\* While objects are added: where the next copy goes, and where the next fixup may.
Behind(b) ==
  /\ \A i \in Ptrs(b) : b.objs[i].buffer + b.objs[i].length <= b.sg
  /\ b.last \in Ptrs(b) \cup {0}
  /\ \A i \in Fixups(b) :
       LET o == b.objs[i]
       IN  /\ o.parent = b.last => End(o) <= b.min
           /\ \A c \in Lineage(b) : b.objs[c].parent = o.parent
                => End(o) <= b.objs[c].offset + PtrSize

\* Whose the descriptors are.
Disjoint ==
  /\ \A i, j \in DOMAIN kept : i # j => Marked(kept[i]) \cap Marked(kept[j]) = {}
  /\ building # NoBuffer =>
       /\ \A i \in DOMAIN kept :
            Marked(kept[i]) \cap (Marked(building) \cup Plain(building)) = {}
       /\ Marked(building) \cap Plain(building) = {}
InKept == UNION {Marked(kept[i]) : i \in DOMAIN kept}
AllHeld ==
  Sent = InKept \cup IF building = NoBuffer THEN {} ELSE Marked(building) \cup Plain(building)

IInv ==
  /\ Typed
  /\ \A i \in DOMAIN kept : BufferOK(kept[i])
  /\ building # NoBuffer => BufferOK(building) /\ Behind(building)
  /\ Disjoint
  /\ AllHeld
-----------------------------------------------------------------------------
(* The fields of buffers and objects. *)

LEMMA BufferFields ==
  ASSUME NEW b \in BufferOf
  PROVE  /\ b.extra \in ExtraSizes /\ b.extra \in Nat
         /\ b.mem \in [0..b.extra - 1 -> Cell] /\ b.objs \in Seq(Object)
         /\ b.target_node \in Nodes \cup {"none"} /\ b.accepts \in BOOLEAN
         /\ b.sg \in Nat /\ b.last \in Nat /\ b.min \in Nat
         /\ b # NoBuffer
<1>1. PICK e \in ExtraSizes :
        b \in [target_node : Nodes \cup {"none"}, accepts : BOOLEAN, extra : {e},
               mem : [0..e - 1 -> Cell], objs : Seq(Object),
               sg : Nat, last : Nat, min : Nat]
  BY DEF BufferOf
<1>2. b # NoBuffer
  BY <1>1 DEF NoBuffer
<1> QED BY <1>1, <1>2, Sizes

LEMMA PtrFields ==
  ASSUME NEW o \in Object, o.type = "ptr"
  PROVE  o.length \in Nat /\ o.buffer \in Nat /\ o.parent \in Nat /\ o.offset \in Nat
BY Sizes DEF Object

LEMMA ArrayFields ==
  ASSUME NEW o \in Object, o.type = "fda"
  PROVE  o.num \in Nat /\ o.parent \in Nat /\ o.offset \in Nat
BY Sizes DEF Object

LEMMA Ends ==
  ASSUME NEW o \in Object, o.type \in {"ptr", "fda"}
  PROVE  End(o) \in Nat /\ o.offset \in Nat /\ o.offset <= End(o)
<1>1. CASE o.type = "ptr"
  BY <1>1, PtrFields, Sizes DEF End
<1>2. CASE o.type = "fda"
  <2>1. PICK n \in Nat, a \in Nat : n = o.num /\ a = o.offset
    BY <1>2, ArrayFields
  <2>2. PICK f \in Nat : f = FdSize
    BY Sizes
  <2>3. PICK m \in Nat : m = f * n
    BY Monotone
  <2>4. End(o) = a + m
    BY <1>2, <2>1, <2>2, <2>3 DEF End
  <2> QED BY <2>1, <2>4
<1> QED BY <1>1, <1>2

\* The objects of a buffer that come before any other question.
LEMMA Kinds ==
  ASSUME NEW b \in BufferOf
  PROVE  /\ \A i \in Ptrs(b) : /\ i \in DOMAIN b.objs /\ i \in Nat \ {0} /\ i <= Len(b.objs)
                               /\ b.objs[i] \in Object /\ b.objs[i].type = "ptr"
         /\ \A i \in Arrays(b) : /\ i \in DOMAIN b.objs /\ i \in Nat \ {0} /\ i <= Len(b.objs)
                                 /\ b.objs[i] \in Object /\ b.objs[i].type = "fda"
         /\ \A i \in Fixups(b) : /\ i \in Ptrs(b) \cup Arrays(b)
                                 /\ b.objs[i] \in Object /\ b.objs[i].type \in {"ptr", "fda"}
<1>1. b.objs \in Seq(Object)
  BY BufferFields
<1>2. \A i \in DOMAIN b.objs : b.objs[i] \in Object /\ i \in Nat \ {0} /\ i <= Len(b.objs)
  BY <1>1
<1> QED BY <1>2 DEF Ptrs, Arrays, Fixups, OfType

\* One more object.
Grows(b, c, o) == c.objs = Append(b.objs, o)

LEMMA Appended ==
  ASSUME NEW b \in BufferOf, NEW c \in BufferOf, NEW o \in Object, Grows(b, c, o),
         NEW n, n = Len(b.objs) + 1
  PROVE  /\ n \in Nat \ {0} /\ c.objs[n] = o /\ n \in DOMAIN c.objs
         /\ \A i \in DOMAIN b.objs : c.objs[i] = b.objs[i] /\ i < n /\ i # n
         /\ DOMAIN c.objs = DOMAIN b.objs \cup {n}
         /\ \A t : OfType(c, t) = OfType(b, t) \cup (IF o.type = t THEN {n} ELSE {})
         /\ \A i \in Ptrs(b) \cup Arrays(b) : c.objs[i] = b.objs[i] /\ i < n
<1>1. b.objs \in Seq(Object) /\ Len(b.objs) \in Nat
  BY BufferFields
<1>2. /\ n \in Nat \ {0} /\ c.objs[n] = o /\ n \in DOMAIN c.objs
      /\ \A i \in DOMAIN b.objs : c.objs[i] = b.objs[i] /\ i < n /\ i # n
      /\ DOMAIN c.objs = DOMAIN b.objs \cup {n}
  BY <1>1 DEF Grows
<1>3. \A t : OfType(c, t) = OfType(b, t) \cup (IF o.type = t THEN {n} ELSE {})
  BY <1>2 DEF OfType
<1> QED BY <1>2, <1>3 DEF Ptrs, Arrays, OfType

-----------------------------------------------------------------------------
(* The walk up from an object. *)

LEMMA Climb ==
  ASSUME NEW b \in BufferOf, Nested(b), NEW i \in Ptrs(b)
  PROVE  /\ i \in UpFrom(b, i) /\ UpFrom(b, i) \subseteq Ptrs(b)
         /\ \A a \in UpFrom(b, i) : b.objs[a].parent \in UpFrom(b, i) \cup {0}
         /\ \A a \in UpFrom(b, i) : a <= i
         /\ \A a \in UpFrom(b, i) : UpFrom(b, a) \subseteq UpFrom(b, i)
         /\ \A a \in UpFrom(b, i) : a # i => \E c \in UpFrom(b, i) : b.objs[c].parent = a
<1>1. \A a : a \in UpFrom(b, i) <=>
               /\ a \in Ptrs(b)
               /\ \A C \in SUBSET Ptrs(b) : i \in C /\ GoesUp(b, C) => a \in C
  BY DEF UpFrom, Ptrs
<1>2. \A a \in Ptrs(b) : b.objs[a].parent # 0 =>
        b.objs[a].parent \in Ptrs(b) /\ b.objs[a].parent < a
  BY DEF Nested, Fixups
<1>3. i \in UpFrom(b, i) /\ UpFrom(b, i) \subseteq Ptrs(b)
  BY <1>1
<1>4. ASSUME NEW a \in UpFrom(b, i) PROVE b.objs[a].parent \in UpFrom(b, i) \cup {0}
  <2>1. a \in Ptrs(b)
    BY <1>1
  <2>2. CASE b.objs[a].parent = 0
    BY <2>2
  <2>3. CASE b.objs[a].parent # 0
    <3>1. PICK p : p = b.objs[a].parent /\ p \in Ptrs(b) /\ p # 0
      BY <1>2, <2>1, <2>3
    <3>2. \A C \in SUBSET Ptrs(b) : i \in C /\ GoesUp(b, C) => p \in C
      BY <1>1, <3>1 DEF GoesUp
    <3> QED BY <1>1, <3>1, <3>2
  <2> QED BY <2>2, <2>3
<1>5. ASSUME NEW a \in UpFrom(b, i) PROVE a <= i
  <2> DEFINE C == {x \in Ptrs(b) : x <= i}
  <2>1. \A x \in Ptrs(b) : x \in Nat
    BY Kinds
  <2>2. C \in SUBSET Ptrs(b) /\ i \in C
    BY <2>1
  <2>3. GoesUp(b, C)
    BY <1>2, <2>1 DEF GoesUp
  <2>4. a \in C
    <3> HIDE DEF C
    <3> QED BY <1>1, <2>2, <2>3
  <2> QED BY <2>4
<1>6. ASSUME NEW a \in UpFrom(b, i) PROVE UpFrom(b, a) \subseteq UpFrom(b, i)
  <2>1. ASSUME NEW x \in UpFrom(b, a) PROVE x \in UpFrom(b, i)
    <3>1. /\ x \in Ptrs(b)
          /\ \A C \in SUBSET Ptrs(b) : a \in C /\ GoesUp(b, C) => x \in C
      BY DEF UpFrom, Ptrs
    <3> QED BY <1>1, <3>1
  <2> QED BY <2>1
<1>7. ASSUME NEW a \in UpFrom(b, i), a # i
      PROVE  \E c \in UpFrom(b, i) : b.objs[c].parent = a
  <2>1. SUFFICES ASSUME \A c \in UpFrom(b, i) : b.objs[c].parent # a PROVE FALSE
    OBVIOUS
  <2> DEFINE C == UpFrom(b, i) \ {a}
  <2>2. C \in SUBSET Ptrs(b) /\ i \in C
    BY <1>3, <1>7
  <2>3. \A c \in C : b.objs[c].parent \in C \cup {0}
    BY <1>4, <2>1
  <2>4. a \in C
    <3> HIDE DEF C
    <3> QED BY <1>1, <2>2, <2>3 DEF GoesUp
  <2> QED BY <2>4
<1> QED BY <1>3, <1>4, <1>5, <1>6, <1>7

LEMMA SameWalk ==
  ASSUME NEW b \in BufferOf, NEW c \in BufferOf, NEW o \in Object, Grows(b, c, o),
         o.type # "ptr"
  PROVE  Ptrs(c) = Ptrs(b) /\ \A i : UpFrom(c, i) = UpFrom(b, i)
<1>1. PICK n : n = Len(b.objs) + 1
  OBVIOUS
<1>2. Ptrs(c) = Ptrs(b) /\ \A x \in Ptrs(b) : c.objs[x] = b.objs[x]
  <2>1. \A t : OfType(c, t) = OfType(b, t) \cup (IF o.type = t THEN {n} ELSE {})
    BY <1>1, Appended
  <2>2. \A x \in Ptrs(b) \cup Arrays(b) : c.objs[x] = b.objs[x]
    BY <1>1, Appended
  <2>3. OfType(c, "ptr") = OfType(b, "ptr")
    BY <2>1
  <2> QED BY <2>2, <2>3 DEF Ptrs
<1>3. \A C \in SUBSET Ptrs(b) : GoesUp(c, C) <=> GoesUp(b, C)
  BY <1>2 DEF GoesUp
<1> QED BY <1>2, <1>3 DEF UpFrom, Ptrs

\* From a new buffer object the walk goes to its parent, and on as before.
LEMMA LongerWalk ==
  ASSUME NEW b \in BufferOf, NEW c \in BufferOf, NEW o \in Object, Grows(b, c, o),
         Nested(b), o.type = "ptr", o.parent \in Ptrs(b) \cup {0},
         NEW n, n = Len(b.objs) + 1
  PROVE  \A a \in UpFrom(c, n) : \/ a = n
                                 \/ o.parent # 0 /\ a \in UpFrom(b, o.parent)
<1> DEFINE C == {n} \cup (IF o.parent = 0 THEN {} ELSE UpFrom(b, o.parent))
<1>1. /\ c.objs[n] = o /\ \A x \in Ptrs(b) : c.objs[x] = b.objs[x]
      /\ OfType(c, "ptr") = Ptrs(b) \cup {n}
  BY Appended DEF Ptrs
<1>2. o.parent # 0 => /\ o.parent \in UpFrom(b, o.parent)
                      /\ UpFrom(b, o.parent) \subseteq Ptrs(b)
                      /\ \A a \in UpFrom(b, o.parent) :
                           b.objs[a].parent \in UpFrom(b, o.parent) \cup {0}
  BY Climb
<1>3. C \in SUBSET OfType(c, "ptr") /\ n \in C
  BY <1>1, <1>2
<1>4. GoesUp(c, C)
  BY <1>1, <1>2 DEF GoesUp
<1>5. UpFrom(c, n) \subseteq C
  <2> HIDE DEF C
  <2> QED BY <1>3, <1>4 DEF UpFrom
<1> QED BY <1>5

\* The next fixup starts behind those that are there.
LEMMA FreeIsBehind ==
  ASSUME NEW b \in BufferOf, Nested(b), Behind(b), NEW p \in Lineage(b),
         NEW offset \in Nat, offset >= FirstFree(b, p),
         NEW i \in Fixups(b), b.objs[i].parent = p
  PROVE  End(b.objs[i]) <= offset
<1>1. b.last # 0 /\ b.last \in Ptrs(b) /\ p \in UpFrom(b, b.last)
  BY DEF Lineage, Behind
<1>2. End(b.objs[i]) \in Nat /\ b.min \in Nat
  BY BufferFields, Kinds, Ends
<1>3. CASE p = b.last
  <2>1. FirstFree(b, p) = b.min /\ End(b.objs[i]) <= b.min
    BY <1>3 DEF FirstFree, Behind
  <2> QED BY <1>2, <2>1
<1>4. CASE p # b.last
  <2>1. \E c \in Lineage(b) : b.objs[c].parent = p
    <3>1. \E c \in UpFrom(b, b.last) : b.objs[c].parent = p
      BY <1>1, <1>4, Climb
    <3> QED BY <1>1, <3>1 DEF Lineage
  <2>2. PICK c \in Lineage(b) : /\ b.objs[c].parent = p
                                /\ FirstFree(b, p) = b.objs[c].offset + PtrSize
    BY <1>4, <2>1 DEF FirstFree
  <2>3. End(b.objs[i]) <= b.objs[c].offset + PtrSize
    BY <2>2 DEF Behind
  <2>4. b.objs[c].offset \in Nat
    <3>1. c \in Ptrs(b)
      BY DEF Lineage, UpFrom, Ptrs
    <3> QED BY <3>1, Kinds, PtrFields
  <2> QED BY <1>2, <2>2, <2>3, <2>4, Sizes
<1> QED BY <1>3, <1>4

-----------------------------------------------------------------------------
(* The cells of a fixup. *)

Cells(b, o) == Base(b, o)..b.objs[o.parent].buffer + End(o) - 1

LEMMA ArrayCells ==
  ASSUME NEW b \in BufferOf, NEW o \in Object, o.type = "fda", o.parent \in Ptrs(b)
  PROVE  /\ Base(b, o) \in Nat
         /\ \A k \in 0..o.num - 1 : Base(b, o) + FdSize * k \in Cells(b, o)
<1>1. PICK n \in Nat, at \in Nat, base \in Nat, F \in Nat \ {0} :
        n = o.num /\ at = o.offset /\ base = b.objs[o.parent].buffer /\ F = FdSize
  BY ArrayFields, Kinds, PtrFields, Sizes
<1>2. ASSUME NEW k \in 0..n - 1
      PROVE  /\ F * k \in Nat /\ F * n \in Nat
             /\ (base + at) + F * k >= base + at
             /\ (base + at) + F * k <= base + (at + F * n) - 1
  <2>1. F * (k + 1) <= F * n /\ F * n \in Nat /\ F * k \in Nat
    BY Monotone
  <2>2. F * (k + 1) = F * k + F
    OBVIOUS
  <2> QED BY <2>1, <2>2
<1>3. Base(b, o) = base + at /\ End(o) = at + F * n
  BY <1>1 DEF Base, End
<1>4. \A k \in 0..n - 1 : (base + at) + F * k \in (base + at)..(base + (at + F * n) - 1)
  <2>1. TAKE k \in 0..n - 1
  <2>2. PICK m \in Nat, l \in Nat : m = F * k /\ l = F * n
    BY <1>2
  <2>3. (base + at) + m \in (base + at)..(base + (at + l) - 1)
    BY <1>2, <2>2
  <2> QED BY <2>2, <2>3
<1>5. Cells(b, o) = (base + at)..(base + (at + F * n) - 1)
  BY <1>1, <1>3 DEF Cells
<1>6. \A k \in 0..n - 1 : Base(b, o) + FdSize * k \in Cells(b, o)
  BY <1>1, <1>3, <1>4, <1>5
<1> QED BY <1>1, <1>3, <1>6

LEMMA FixupCells ==
  ASSUME NEW b \in BufferOf, Copied(b), Nested(b), NEW i \in Fixups(b)
  PROVE  /\ Cells(b, b.objs[i]) \subseteq 0..b.extra - 1
         /\ b.objs[i].parent \in Ptrs(b)
         /\ \A p \in Ptrs(b), offset, size \in Nat :
              /\ b.objs[i].parent = p => End(b.objs[i]) <= offset
              /\ offset + size <= b.objs[p].length
              => \A a \in Slot(b, p, offset, size) : a \notin Cells(b, b.objs[i])
<1>1. PICK o : o = b.objs[i]
  OBVIOUS
<1>2. /\ o \in Object /\ o.type \in {"ptr", "fda"} /\ o.parent \in Ptrs(b)
      /\ End(o) <= b.objs[o.parent].length
      /\ End(o) \in Nat /\ o.offset \in Nat
  BY <1>1, Kinds, Ends DEF Nested
<1>3. \A q \in Ptrs(b) : /\ b.objs[q].buffer \in Nat /\ b.objs[q].length \in Nat /\ q \in Nat
                         /\ b.objs[q].buffer + b.objs[q].length <= b.extra
  BY Kinds, PtrFields DEF Copied
<1>4. Cells(b, o) \subseteq 0..b.extra - 1
  <2>1. PICK f \in Nat, g \in Nat, l \in Nat, e \in Nat :
          /\ f = b.objs[o.parent].buffer /\ g = o.offset /\ l = End(o) /\ e = b.extra
          /\ f + l <= e
    <3>1. b.extra \in Nat
      BY BufferFields
    <3> QED BY <1>2, <1>3, <3>1
  <2>2. Cells(b, o) = (f + g)..(f + l - 1)
    BY <2>1 DEF Cells, Base
  <2>3. (f + g)..(f + l - 1) \subseteq 0..(e - 1)
    BY <2>1
  <2> QED BY <2>1, <2>2, <2>3
<1>5. ASSUME NEW p \in Ptrs(b), NEW offset \in Nat, NEW size \in Nat,
             o.parent = p => End(o) <= offset, offset + size <= b.objs[p].length,
             NEW a \in Slot(b, p, offset, size), a \in Cells(b, o)
      PROVE  FALSE
  <2>1. PICK q : q = o.parent /\ q \in Ptrs(b)
    BY <1>2
  <2>2. PICK f \in Nat, g \in Nat : f = b.objs[p].buffer /\ g = b.objs[q].buffer
    BY <1>3, <2>1
  <2>3. a \in Int /\ a >= f + offset /\ a <= f + offset + size - 1
    BY <1>5, <2>2 DEF Slot
  <2>4. a >= g + o.offset /\ a <= g + End(o) - 1
    BY <1>2, <1>5, <2>1, <2>2 DEF Cells, Base
  <2>5. CASE q = p
    BY <1>2, <1>5, <2>1, <2>2, <2>3, <2>4, <2>5
  <2>6. CASE q < p
    <3>1. g + b.objs[q].length <= f
      BY <2>1, <2>2, <2>6 DEF Copied
    <3> QED BY <1>2, <1>3, <2>1, <2>2, <2>3, <2>4, <3>1
  <2>7. CASE p < q
    <3>1. f + b.objs[p].length <= g
      BY <2>1, <2>2, <2>7 DEF Copied
    <3> QED BY <1>2, <1>3, <1>5, <2>1, <2>2, <2>3, <2>4, <3>1
  <2> QED BY <1>3, <2>1, <2>5, <2>6, <2>7
<1> QED BY <1>1, <1>2, <1>4, <1>5

\* A fixup whose cells are left alone is as it was.
LEMMA Untouched ==
  ASSUME NEW b \in BufferOf, NEW c \in BufferOf, NEW o \in Object, o.parent \in Ptrs(b),
         o.type \in {"ptr", "fda"},
         c.objs[o.parent] = b.objs[o.parent],
         \A a \in Cells(b, o) : c.mem[a] = b.mem[a]
  PROVE  /\ o.type = "ptr" => (PointerStands(c, o) <=> PointerStands(b, o))
         /\ o.type = "fda" => /\ ArrayStands(c, o) <=> ArrayStands(b, o)
                              /\ ArrayFds(c, o) = ArrayFds(b, o)
<1>1. CASE o.type = "ptr"
  <2>1. b.objs[o.parent].buffer \in Nat /\ o.offset \in Nat
    BY <1>1, Kinds, PtrFields
  <2>2. Slot(b, o.parent, o.offset, PtrSize) = Cells(b, o)
    BY <1>1, <2>1, Sizes DEF Slot, Cells, Base, End
  <2>3. Slot(c, o.parent, o.offset, PtrSize) = Cells(b, o)
    BY <2>2 DEF Slot
  <2> QED BY <1>1, <2>2, <2>3 DEF PointerStands
<1>2. CASE o.type = "fda"
  <2>1. \A k \in 0..o.num - 1 : Base(b, o) + FdSize * k \in Cells(b, o)
    BY <1>2, ArrayCells
  <2>2. Base(c, o) = Base(b, o)
    BY DEF Base
  <2>3. \A k \in 0..o.num - 1 :
          c.mem[Base(c, o) + FdSize * k] = b.mem[Base(b, o) + FdSize * k]
    BY <2>1, <2>2
  <2>4. ArrayStands(c, o) <=> ArrayStands(b, o)
    BY <2>3 DEF ArrayStands
  <2>5. ArrayFds(c, o) = ArrayFds(b, o)
    BY <2>3 DEF ArrayFds, Base
  <2> QED BY <1>2, <2>4, <2>5
<1> QED BY <1>1, <1>2

LEMMA HeldIsMarked ==
  ASSUME NEW b \in BufferOf, Copied(b), Nested(b)
  PROVE  Held(b) \subseteq Marked(b)
<1>1. ASSUME NEW i \in Arrays(b), NEW fd \in ArrayFds(b, b.objs[i]) PROVE fd \in Marked(b)
  <2>1. PICK o : o = b.objs[i]
    OBVIOUS
  <2>2. i \in Fixups(b) /\ o \in Object /\ o.type = "fda" /\ o.parent \in Ptrs(b)
    BY <2>1, Kinds DEF Nested, Fixups
  <2>3. fd \in Fds /\ \E k \in 0..o.num - 1 : b.mem[Base(b, o) + FdSize * k] = <<"fd", fd>>
    BY <2>1 DEF ArrayFds, Base
  <2>4. \A k \in 0..o.num - 1 : Base(b, o) + FdSize * k \in Cells(b, o)
    BY <2>2, ArrayCells
  <2>5. Cells(b, o) \subseteq 0..b.extra - 1
    BY <2>1, <2>2, FixupCells
  <2> QED BY <2>3, <2>4, <2>5 DEF Marked
<1> QED BY <1>1 DEF Held

-----------------------------------------------------------------------------
(* One more object leaves a good buffer. *)

OneMore(b, c, o, n) ==
  /\ Ptrs(c) = Ptrs(b) \cup (IF o.type = "ptr" THEN {n} ELSE {})
  /\ Arrays(c) = Arrays(b) \cup (IF o.type = "fda" THEN {n} ELSE {})
  /\ Fixups(c) = Fixups(b) \cup (IF (o.type = "ptr" /\ o.parent # 0) \/ o.type = "fda"
                                 THEN {n} ELSE {})
  /\ c.objs[n] = o /\ \A i \in Ptrs(b) \cup Arrays(b) : c.objs[i] = b.objs[i] /\ i < n
  /\ Fixups(b) \subseteq Ptrs(b) \cup Arrays(b)

LEMMA FixupsGrow ==
  ASSUME NEW b \in BufferOf, NEW c \in BufferOf, NEW o \in Object, Grows(b, c, o),
         NEW n, n = Len(b.objs) + 1
  PROVE  OneMore(b, c, o, n)
<1>1. /\ c.objs[n] = o
      /\ \A i \in Ptrs(b) \cup Arrays(b) : c.objs[i] = b.objs[i] /\ i < n
      /\ \A t : OfType(c, t) = OfType(b, t) \cup (IF o.type = t THEN {n} ELSE {})
  BY Appended
<1>2. /\ OfType(c, "ptr") = OfType(b, "ptr") \cup (IF o.type = "ptr" THEN {n} ELSE {})
      /\ OfType(c, "fda") = OfType(b, "fda") \cup (IF o.type = "fda" THEN {n} ELSE {})
  BY <1>1
<1>3. /\ Ptrs(c) = Ptrs(b) \cup (IF o.type = "ptr" THEN {n} ELSE {})
      /\ Arrays(c) = Arrays(b) \cup (IF o.type = "fda" THEN {n} ELSE {})
  BY <1>2 DEF Ptrs, Arrays
<1>4. Fixups(c) = Fixups(b) \cup (IF (o.type = "ptr" /\ o.parent # 0) \/ o.type = "fda"
                                  THEN {n} ELSE {})
  BY <1>1, <1>3 DEF Fixups
<1> QED BY <1>1, <1>3, <1>4 DEF OneMore, Fixups

LEMMA OldOnesStand ==
  ASSUME NEW b \in BufferOf, NEW c \in BufferOf, NEW o \in Object, Grows(b, c, o),
         BufferOK(b), c.extra = b.extra,
         \A i \in Fixups(b) : \A a \in Cells(b, b.objs[i]) : c.mem[a] = b.mem[a]
  PROVE  /\ \A i \in Fixups(b) :
              IF c.objs[i].type = "ptr" THEN PointerStands(c, c.objs[i])
              ELSE ArrayStands(c, c.objs[i])
         /\ \A i \in Arrays(b) : ArrayFds(c, c.objs[i]) = ArrayFds(b, b.objs[i])
<1>1. PICK n : n = Len(b.objs) + 1
  OBVIOUS
<1>2. \A i \in Ptrs(b) \cup Arrays(b) : c.objs[i] = b.objs[i]
  BY <1>1, FixupsGrow DEF OneMore
<1>3. ASSUME NEW i \in Fixups(b)
      PROVE  /\ IF c.objs[i].type = "ptr" THEN PointerStands(c, c.objs[i])
                ELSE ArrayStands(c, c.objs[i])
             /\ i \in Arrays(b) => ArrayFds(c, c.objs[i]) = ArrayFds(b, b.objs[i])
  <2>1. PICK x : x = b.objs[i]
    OBVIOUS
  <2>2. /\ x \in Object /\ x.type \in {"ptr", "fda"} /\ i \in Ptrs(b) \cup Arrays(b)
        /\ x.parent \in Ptrs(b) /\ c.objs[i] = x
    BY <1>2, <2>1, Kinds DEF BufferOK, Nested
  <2>3. c.objs[x.parent] = b.objs[x.parent]
    BY <1>2, <2>2
  <2>4. \A a \in Cells(b, x) : c.mem[a] = b.mem[a]
    BY <2>1
  <2>5. /\ x.type = "ptr" => (PointerStands(c, x) <=> PointerStands(b, x))
        /\ x.type = "fda" => /\ ArrayStands(c, x) <=> ArrayStands(b, x)
                             /\ ArrayFds(c, x) = ArrayFds(b, x)
    BY <2>2, <2>3, <2>4, Untouched
  <2>6. IF x.type = "ptr" THEN PointerStands(b, x) ELSE ArrayStands(b, x)
    BY <2>1 DEF BufferOK, Stands
  <2>7. i \in Arrays(b) => x.type = "fda"
    BY <2>1, Kinds
  <2> QED BY <2>1, <2>2, <2>5, <2>6, <2>7
<1> QED BY <1>3 DEF Fixups

LEMMA PlainObject ==
  ASSUME NEW b \in BufferOf, NEW c \in BufferOf, NEW o \in Object, Grows(b, c, o),
         o.type \in {"flat", "fd"}, BufferOK(b), Behind(b),
         c.extra = b.extra, c.mem = b.mem, c.sg = b.sg, c.last = b.last, c.min = b.min,
         o.type = "fd" => o.fd \notin Plain(b)
  PROVE  /\ BufferOK(c) /\ Behind(c) /\ Marked(c) = Marked(b)
         /\ Plain(c) = Plain(b) \cup (IF o.type = "fd" THEN {o.fd} ELSE {})
<1>1. PICK n : n = Len(b.objs) + 1
  OBVIOUS
<1>2. /\ Ptrs(c) = Ptrs(b) /\ Arrays(c) = Arrays(b) /\ Fixups(c) = Fixups(b)
      /\ c.objs[n] = o
      /\ \A i \in Ptrs(b) \cup Arrays(b) : c.objs[i] = b.objs[i]
      /\ Fixups(b) \subseteq Ptrs(b) \cup Arrays(b)
  <2>1. OneMore(b, c, o, n)
    BY <1>1, FixupsGrow
  <2> QED BY <2>1 DEF OneMore
<1>3. Nested(b) /\ Copied(b) /\ Stands(b) /\ Marked(b) = Held(b)
  BY DEF BufferOK
<1>4. Nested(c)
  BY <1>2, <1>3 DEF Nested
<1>5. Copied(c)
  BY <1>2, <1>3 DEF Copied
<1>6. /\ \A i \in Fixups(b) : IF c.objs[i].type = "ptr" THEN PointerStands(c, c.objs[i])
                              ELSE ArrayStands(c, c.objs[i])
      /\ \A i \in Arrays(b) : ArrayFds(c, c.objs[i]) = ArrayFds(b, b.objs[i])
  BY OldOnesStand
<1>7. Stands(c)
  BY <1>2, <1>6 DEF Stands
<1>8. Marked(c) = Marked(b) /\ Held(c) = Held(b)
  BY <1>2, <1>6 DEF Marked, Held
<1>9. Behind(c)
  <2>1. Lineage(c) = Lineage(b) /\ Lineage(b) \subseteq Ptrs(b)
    <3>1. o.type # "ptr"
      OBVIOUS
    <3>2. \A i : UpFrom(c, i) = UpFrom(b, i)
      BY <3>1, SameWalk
    <3>3. Lineage(c) = Lineage(b)
      BY <3>2 DEF Lineage
    <3>4. Lineage(b) \subseteq Ptrs(b)
      BY DEF Lineage, UpFrom, Ptrs
    <3> QED BY <3>3, <3>4
  <2>2. /\ \A i \in Ptrs(c) : c.objs[i].buffer + c.objs[i].length <= c.sg
        /\ c.last \in Ptrs(c) \cup {0}
    BY <1>2 DEF Behind
  <2>3. ASSUME NEW i \in Fixups(c)
        PROVE  /\ c.objs[i].parent = c.last => End(c.objs[i]) <= c.min
               /\ \A x \in Lineage(c) : c.objs[x].parent = c.objs[i].parent
                    => End(c.objs[i]) <= c.objs[x].offset + PtrSize
    BY <1>2, <2>1 DEF Behind
  <2> QED BY <2>2, <2>3 DEF Behind
<1>10. /\ Plain(c) = Plain(b) \cup (IF o.type = "fd" THEN {o.fd} ELSE {})
       /\ \A k, l \in OfType(c, "fd") : c.objs[k].fd = c.objs[l].fd => k = l
  <2>1. OfType(c, "fd") = OfType(b, "fd") \cup (IF o.type = "fd" THEN {n} ELSE {})
    <3>1. \A t : OfType(c, t) = OfType(b, t) \cup (IF o.type = t THEN {n} ELSE {})
      BY <1>1, Appended
    <3> QED BY <3>1
  <2>2. \A i \in OfType(b, "fd") : c.objs[i] = b.objs[i]
    <3>1. \A i \in DOMAIN b.objs : c.objs[i] = b.objs[i]
      BY <1>1, Appended
    <3> QED BY <3>1 DEF OfType
  <2>3. \A k, l \in OfType(b, "fd") : b.objs[k].fd = b.objs[l].fd => k = l
    BY DEF BufferOK, OneEach
  <2>4. \A k, l \in OfType(c, "fd") : c.objs[k].fd = c.objs[l].fd => k = l
    BY <1>2, <2>1, <2>2, <2>3 DEF Plain
  <2> QED BY <1>2, <2>1, <2>2, <2>4 DEF Plain
<1>11. OneEach(c)
  BY <1>2, <1>6, <1>10 DEF BufferOK, OneEach
<1> QED BY <1>3, <1>4, <1>5, <1>7, <1>8, <1>9, <1>10, <1>11 DEF BufferOK

LEMMA Written ==
  ASSUME NEW m, NEW S, NEW v, NEW a \in DOMAIN m
  PROVE  Write(m, S, v)[a] = IF a \in S THEN v ELSE m[a]
BY DEF Write

\* What binder_translate_fd_array and the case BINDER_TYPE_PTR ask of a parent.
GoodPlace(b, p, offset, size) ==
  p \in Ptrs(b) /\ MayFixup(b, p, offset) /\ offset + size <= b.objs[p].length

LEMMA NewFixupIsApart ==
  ASSUME NEW b \in BufferOf, BufferOK(b), Behind(b), NEW p, NEW offset \in Nat,
         NEW size \in Nat, GoodPlace(b, p, offset, size),
         NEW i \in Fixups(b), NEW a \in Cells(b, b.objs[i])
  PROVE  a \notin Slot(b, p, offset, size)
<1>1. Nested(b) /\ Copied(b)
  BY DEF BufferOK
<1>2. p \in Ptrs(b) /\ p \in Lineage(b) /\ offset >= FirstFree(b, p)
      /\ offset + size <= b.objs[p].length
  BY DEF GoodPlace, MayFixup
<1>3. b.objs[i].parent = p => End(b.objs[i]) <= offset
  BY <1>1, <1>2, FreeIsBehind
<1>4. \A y \in Slot(b, p, offset, size) : y \notin Cells(b, b.objs[i])
  BY <1>1, <1>2, <1>3, FixupCells
<1> QED BY <1>4

LEMMA InTheArea ==
  ASSUME NEW f \in Nat, NEW l \in Nat, NEW e \in Nat, NEW q \in Nat, NEW s \in Nat,
         f + l <= e, q + s <= l
  PROVE  (f + q)..((f + q) + s - 1) \subseteq 0..(e - 1)
OBVIOUS

Puts(b, c, o) ==
  /\ o.type = "ptr" /\ o.buffer = b.sg /\ o.length <= b.extra - b.sg
  /\ o.parent = 0 \/ GoodPlace(b, o.parent, o.offset, PtrSize)
  /\ c.extra = b.extra
  /\ c.mem = Write(b.mem, IF o.parent = 0 THEN {}
                          ELSE Slot(b, o.parent, o.offset, PtrSize), <<"ptr", b.sg>>)
  /\ c.sg = b.sg + Reserved(o.length) /\ c.last = Len(b.objs) + 1 /\ c.min = 0

LEMMA PointerObject ==
  ASSUME NEW b \in BufferOf, NEW c \in BufferOf, NEW o \in Object, Grows(b, c, o),
         BufferOK(b), Behind(b), Puts(b, c, o)
  PROVE  BufferOK(c) /\ Behind(c) /\ Marked(c) = Marked(b) /\ Plain(c) = Plain(b)
<1> DEFINE slot == IF o.parent = 0 THEN {} ELSE Slot(b, o.parent, o.offset, PtrSize)
<1>0. /\ o.type = "ptr" /\ o.buffer = b.sg /\ o.length <= b.extra - b.sg
      /\ o.parent # 0 => GoodPlace(b, o.parent, o.offset, PtrSize)
      /\ c.extra = b.extra /\ c.mem = Write(b.mem, slot, <<"ptr", b.sg>>)
      /\ c.sg = b.sg + Reserved(o.length) /\ c.last = Len(b.objs) + 1
  BY DEF Puts
<1>1. PICK n : n = Len(b.objs) + 1
  OBVIOUS
<1>2. /\ Ptrs(c) = Ptrs(b) \cup {n} /\ Arrays(c) = Arrays(b)
      /\ Fixups(c) = Fixups(b) \cup (IF o.parent # 0 THEN {n} ELSE {})
      /\ c.objs[n] = o
      /\ \A i \in Ptrs(b) \cup Arrays(b) : c.objs[i] = b.objs[i] /\ i < n
      /\ Fixups(b) \subseteq Ptrs(b) \cup Arrays(b)
  <2>1. OneMore(b, c, o, n)
    BY <1>1, FixupsGrow
  <2> QED BY <1>0, <2>1 DEF OneMore
<1>3. Nested(b) /\ Copied(b) /\ Stands(b) /\ Marked(b) = Held(b)
  BY DEF BufferOK
<1>4. /\ o.length \in Nat /\ o.buffer \in Nat /\ o.parent \in Nat /\ o.offset \in Nat
      /\ b.sg \in Nat /\ b.extra \in Nat /\ c.sg \in Nat /\ Reserved(o.length) \in Nat
      /\ o.length <= Reserved(o.length) /\ n \in Nat
  <2>1. o.length \in Nat /\ o.buffer \in Nat /\ o.parent \in Nat /\ o.offset \in Nat
    BY <1>0, PtrFields
  <2>2. b.sg \in Nat /\ b.extra \in Nat /\ c.sg \in Nat
    BY BufferFields
  <2>3. Reserved(o.length) \in Nat /\ o.length <= Reserved(o.length)
    BY <2>1, ReservedIsEnough
  <2>4. n \in Nat
    BY <1>1, BufferFields
  <2> QED BY <2>1, <2>2, <2>3, <2>4
<1>5. \A i \in Ptrs(b) : /\ b.objs[i].buffer \in Nat /\ b.objs[i].length \in Nat /\ i \in Nat
                         /\ b.objs[i].offset \in Nat /\ b.objs[i].parent \in Nat
  BY Kinds, PtrFields
<1>6. o.parent # 0 => /\ o.parent \in Ptrs(b) /\ MayFixup(b, o.parent, o.offset)
                      /\ o.offset + PtrSize <= b.objs[o.parent].length
  BY <1>0 DEF GoodPlace
<1>7. End(o) = o.offset + PtrSize
  BY <1>0 DEF End
<1>8. Copied(c)
  <2>1. \A i \in Ptrs(b) : b.objs[i].buffer + b.objs[i].length <= b.sg
    BY DEF Behind
  <2>2. \A i \in Ptrs(b) : c.objs[i] = b.objs[i] /\ i < n
    BY <1>2
  <2>3. ASSUME NEW i \in Ptrs(c) PROVE c.objs[i].buffer + c.objs[i].length <= c.extra
    <3>1. CASE i = n
      BY <1>0, <1>2, <1>4, <3>1
    <3>2. CASE i \in Ptrs(b)
      BY <1>0, <1>3, <2>2, <3>2 DEF Copied
    <3> QED BY <1>2, <3>1, <3>2
  <2>4. ASSUME NEW i \in Ptrs(c), NEW j \in Ptrs(c), i < j
        PROVE  c.objs[i].buffer + c.objs[i].length <= c.objs[j].buffer
    <3>1. CASE i \in Ptrs(b) /\ j \in Ptrs(b)
      BY <1>3, <2>2, <2>4, <3>1 DEF Copied
    <3>2. CASE i \in Ptrs(b) /\ j = n
      BY <1>0, <1>2, <2>1, <2>2, <3>2
    <3>3. CASE i = n
      BY <1>2, <1>4, <1>5, <2>2, <2>4, <3>3
    <3> QED BY <1>2, <3>1, <3>2, <3>3
  <2> QED BY <2>3, <2>4 DEF Copied
<1>9. Nested(c)
  <2>1. ASSUME NEW i \in Fixups(b)
        PROVE  /\ c.objs[i].parent \in Ptrs(c) /\ c.objs[i].parent < i
               /\ End(c.objs[i]) <= c.objs[c.objs[i].parent].length
    BY <1>2, <1>3 DEF Nested
  <2>2. ASSUME o.parent # 0
        PROVE  o.parent \in Ptrs(c) /\ o.parent < n /\ End(o) <= c.objs[o.parent].length
    BY <1>2, <1>6, <1>7, <2>2
  <2> QED BY <1>2, <2>1, <2>2 DEF Nested
<1>10. \A i \in Fixups(b) : \A a \in Cells(b, b.objs[i]) : a \notin slot /\ a \in DOMAIN b.mem
  <2>1. TAKE i \in Fixups(b)
  <2>2. TAKE a \in Cells(b, b.objs[i])
  <2>3. a \in DOMAIN b.mem
    <3>1. Cells(b, b.objs[i]) \subseteq 0..b.extra - 1
      BY <1>3, FixupCells
    <3> QED BY <3>1, BufferFields
  <2>4. o.parent # 0 => a \notin Slot(b, o.parent, o.offset, PtrSize)
    <3>1. PtrSize \in Nat
      BY Sizes
    <3> QED BY <1>0, <1>4, <3>1, NewFixupIsApart
  <2> QED BY <2>3, <2>4
<1>11. \A i \in Fixups(b) : \A a \in Cells(b, b.objs[i]) : c.mem[a] = b.mem[a]
  BY <1>0, <1>10, Written
<1>12. /\ \A i \in Fixups(b) : IF c.objs[i].type = "ptr" THEN PointerStands(c, c.objs[i])
                               ELSE ArrayStands(c, c.objs[i])
       /\ \A i \in Arrays(b) : ArrayFds(c, c.objs[i]) = ArrayFds(b, b.objs[i])
  BY <1>0, <1>11, OldOnesStand
<1>13. o.parent # 0 => PointerStands(c, o)
  <2>1. SUFFICES ASSUME o.parent # 0, NEW a \in Slot(c, o.parent, o.offset, PtrSize)
                 PROVE  c.mem[a] = <<"ptr", o.buffer>>
    BY DEF PointerStands
  <2>2. a \in slot
    BY <1>2, <1>6, <2>1 DEF Slot
  <2>3. a \in DOMAIN b.mem
    <3>1. PICK f \in Nat, l \in Nat, e \in Nat, q \in Nat, s \in Nat :
            /\ f = b.objs[o.parent].buffer /\ l = b.objs[o.parent].length /\ e = b.extra
            /\ q = o.offset /\ s = PtrSize /\ f + l <= e /\ q + s <= l
      <4>1. o.parent \in Ptrs(b) /\ o.offset + PtrSize <= b.objs[o.parent].length
        BY <1>6, <2>1
      <4>2. b.objs[o.parent].buffer + b.objs[o.parent].length <= b.extra
        BY <1>3, <4>1 DEF Copied
      <4> QED BY <1>4, <1>5, <4>1, <4>2, Sizes
    <3>2. a \in (f + q)..((f + q) + s - 1)
      <4>1. Slot(b, o.parent, o.offset, PtrSize) = (f + q)..((f + q) + s - 1)
        BY <3>1 DEF Slot
      <4>2. a \in Slot(b, o.parent, o.offset, PtrSize)
        BY <2>1, <2>2
      <4> QED BY <4>1, <4>2
    <3>3. a \in 0..(e - 1)
      <4>1. (f + q)..((f + q) + s - 1) \subseteq 0..(e - 1)
        BY <3>1, InTheArea
      <4> QED BY <3>2, <4>1
    <3> QED BY <3>1, <3>3, BufferFields
  <2> HIDE DEF slot
  <2> QED BY <1>0, <2>2, <2>3, Written
<1>14. Stands(c)
  <2>1. ASSUME NEW i \in Fixups(c)
        PROVE  IF c.objs[i].type = "ptr" THEN PointerStands(c, c.objs[i])
               ELSE ArrayStands(c, c.objs[i])
    <3>1. CASE i \in Fixups(b)
      BY <1>12, <3>1
    <3>2. CASE i = n /\ o.parent # 0
      BY <1>0, <1>2, <1>13, <3>2
    <3> QED BY <1>2, <3>1, <3>2
  <2> QED BY <2>1 DEF Stands
<1>15. Held(c) = Held(b)
  BY <1>2, <1>12 DEF Held
<1>16. Marked(c) \subseteq Marked(b)
  <2>1. ASSUME NEW fd \in Fds, NEW a \in 0..c.extra - 1, c.mem[a] = <<"fd", fd>>
        PROVE  fd \in Marked(b)
    <3>1. a \in 0..b.extra - 1 /\ a \in DOMAIN b.mem
      BY <1>0, BufferFields
    <3>2. b.mem[a] = <<"fd", fd>>
      BY <1>0, <2>1, <3>1, Written
    <3> QED BY <3>1, <3>2 DEF Marked
  <2> QED BY <2>1 DEF Marked
<1>17. Held(c) \subseteq Marked(c)
  BY <1>8, <1>9, HeldIsMarked
<1>18. Marked(c) = Marked(b) /\ Marked(c) = Held(c)
  BY <1>3, <1>15, <1>16, <1>17
<1>19. Behind(c)
  <2>1. \A i \in Ptrs(c) : c.objs[i].buffer + c.objs[i].length <= c.sg
    <3>1. \A i \in Ptrs(b) : b.objs[i].buffer + b.objs[i].length <= b.sg
      BY DEF Behind
    <3>2. TAKE i \in Ptrs(c)
    <3>3. CASE i = n
      BY <1>0, <1>2, <1>4, <3>3
    <3>4. CASE i \in Ptrs(b)
      <4>1. c.objs[i] = b.objs[i] /\ b.objs[i].buffer + b.objs[i].length <= b.sg
        BY <1>2, <3>1, <3>4
      <4>2. PICK x \in Nat, y \in Nat, g \in Nat, r \in Nat :
              x = b.objs[i].buffer /\ y = b.objs[i].length /\ g = b.sg /\ r = Reserved(o.length)
        BY <1>4, <1>5, <3>4
      <4>3. c.sg = g + r /\ x + y <= g + r
        <5>1. c.sg = g + r
          BY <1>0, <4>2, Zenon
        <5>2. x + y <= g
          BY <4>1, <4>2, Zenon
        <5>3. x + y <= g + r
          BY <5>2
        <5> QED BY <5>1, <5>3
      <4>4. c.objs[i].buffer = x /\ c.objs[i].length = y
        BY <4>1, <4>2
      <4> QED BY <4>3, <4>4, Zenon
    <3> QED BY <1>2, <3>3, <3>4
  <2>2. c.last = n /\ c.last \in Ptrs(c)
    BY <1>0, <1>1, <1>2
  <2>3. \A x \in UpFrom(c, n) : \/ x = n
                                \/ o.parent # 0 /\ x \in UpFrom(b, o.parent)
    BY <1>0, <1>1, <1>3, <1>6, LongerWalk
  <2>4. n # 0 /\ Lineage(c) = UpFrom(c, n)
    <3>1. n # 0
      BY <1>1, Appended
    <3> QED BY <2>2, <3>1 DEF Lineage
  <2>5. ASSUME NEW i \in Fixups(c) PROVE c.objs[i].parent # n
    BY <1>2, <1>3, <1>5, <1>6, <2>5 DEF Nested
  <2>6. ASSUME NEW i \in Fixups(c), NEW x \in Lineage(c),
               c.objs[x].parent = c.objs[i].parent
        PROVE  End(c.objs[i]) <= c.objs[x].offset + PtrSize
    <3>1. CASE x = n
      <4>1. c.objs[i].parent = o.parent /\ c.objs[x].offset = o.offset
        BY <1>2, <2>6, <3>1
      <4>2. CASE i = n
        BY <1>2, <1>4, <1>7, <4>1, <4>2, Sizes
      <4>3. CASE i \in Fixups(b)
        <5>1. b.objs[i].parent = o.parent /\ c.objs[i] = b.objs[i]
          BY <1>2, <4>1, <4>3
        <5>2. o.parent # 0
          BY <1>3, <1>5, <4>3, <5>1, Kinds DEF Nested
        <5>3. o.parent \in Lineage(b) /\ o.offset >= FirstFree(b, o.parent)
          BY <1>6, <5>2 DEF MayFixup
        <5>4. End(b.objs[i]) <= o.offset
          BY <1>3, <1>4, <4>3, <5>1, <5>3, FreeIsBehind
        <5>5. End(b.objs[i]) \in Nat
          BY <4>3, Kinds, Ends
        <5> QED BY <1>4, <4>1, <5>1, <5>4, <5>5, Sizes
      <4> QED BY <1>2, <4>2, <4>3
    <3>2. CASE x # n
      <4>1. o.parent # 0 /\ x \in UpFrom(b, o.parent)
        BY <2>3, <2>4, <3>2
      <4>2. /\ b.last # 0 /\ b.last \in Ptrs(b) /\ o.parent \in UpFrom(b, b.last)
            /\ o.parent \in Ptrs(b)
        BY <1>6, <4>1 DEF MayFixup, Lineage, Behind
      <4>3. x \in Lineage(b) /\ x \in Ptrs(b) /\ x <= o.parent
        BY <1>3, <4>1, <4>2, Climb DEF Lineage
      <4>4. c.objs[x] = b.objs[x]
        BY <1>2, <4>3
      <4>5. CASE i \in Fixups(b)
        <5>1. c.objs[i] = b.objs[i]
          BY <1>2, <4>5
        <5> QED BY <2>6, <4>3, <4>4, <4>5, <5>1 DEF Behind
      <4>6. CASE i = n /\ i \notin Fixups(b)
        <5>1. c.objs[i].parent = o.parent /\ b.objs[x].parent = o.parent
          BY <1>2, <2>6, <4>4, <4>6
        <5>2. x \in Fixups(b)
          BY <4>1, <4>3, <5>1 DEF Fixups
        <5>3. o.parent < x
          BY <1>3, <5>1, <5>2 DEF Nested
        <5> QED BY <1>4, <1>5, <4>3, <5>3
      <4> QED BY <1>2, <4>5, <4>6
    <3> QED BY <3>1, <3>2
  <2> QED BY <2>1, <2>2, <2>5, <2>6 DEF Behind
<1>20. Plain(c) = Plain(b)
  <2>1. OfType(c, "fd") = OfType(b, "fd")
    <3>1. \A t : OfType(c, t) = OfType(b, t) \cup (IF o.type = t THEN {n} ELSE {})
      BY <1>1, Appended
    <3> QED BY <1>0, <3>1
  <2>2. \A i \in OfType(b, "fd") : c.objs[i] = b.objs[i]
    <3>1. \A i \in DOMAIN b.objs : c.objs[i] = b.objs[i]
      BY <1>1, Appended
    <3> QED BY <3>1 DEF OfType
  <2> QED BY <2>1, <2>2 DEF Plain
<1>21. OneEach(c)
  <2>1. \A k, l \in OfType(c, "fd") : c.objs[k].fd = c.objs[l].fd => k = l
    <3>1. OfType(c, "fd") = OfType(b, "fd") /\ \A i \in OfType(b, "fd") : c.objs[i] = b.objs[i]
      <4>1. \A t : OfType(c, t) = OfType(b, t) \cup (IF o.type = t THEN {n} ELSE {})
        BY <1>1, Appended
      <4>2. \A i \in DOMAIN b.objs : c.objs[i] = b.objs[i]
        BY <1>1, Appended
      <4> QED BY <1>0, <4>1, <4>2 DEF OfType
    <3> QED BY <3>1 DEF BufferOK, OneEach
  <2>2. \A k, l \in Arrays(c) :
          k # l => ArrayFds(c, c.objs[k]) \cap ArrayFds(c, c.objs[l]) = {}
    BY <1>2, <1>12 DEF BufferOK, OneEach
  <2> QED BY <2>1, <2>2 DEF OneEach
<1> QED BY <1>8, <1>9, <1>14, <1>18, <1>19, <1>20, <1>21 DEF BufferOK

-----------------------------------------------------------------------------
(* An array: its cells hold the descriptors that were installed, in order. *)

Row(s, F, i) == (s + F * (i - 1))..(s + F * (i - 1) + F - 1)

RowsOK(s, F, num) ==
  /\ \A i \in 1..num : /\ F * (i - 1) \in Nat
                       /\ Row(s, F, i) \subseteq s..(s + F * num - 1)
                       /\ s + F * (i - 1) \in Row(s, F, i)
  /\ \A i, j \in 1..num : \A a \in Row(s, F, i) : a \in Row(s, F, j) => i = j

LEMMA Rows ==
  ASSUME NEW s \in Nat, NEW F \in Nat \ {0}, NEW num \in Nat
  PROVE  RowsOK(s, F, num)
<1>1. ASSUME NEW i \in 1..num
      PROVE  /\ F * (i - 1) \in Nat /\ F * num \in Nat
             /\ F * (i - 1) + F <= F * num
  <2>1. PICK k \in Nat : k = i - 1 /\ k + 1 <= num
    OBVIOUS
  <2>2. F * (k + 1) <= F * num /\ F * k \in Nat /\ F * num \in Nat
    BY <2>1, Monotone
  <2>3. F * (k + 1) = F * k + F
    OBVIOUS
  <2> QED BY <2>1, <2>2, <2>3
<1>2. ASSUME NEW i \in 1..num, NEW j \in 1..num, i < j
      PROVE  F * (i - 1) + F <= F * (j - 1)
  <2>1. PICK k \in Nat, l \in Nat : k = i - 1 /\ l = j - 1 /\ k + 1 <= l
    BY <1>2
  <2>2. F * (k + 1) <= F * l
    BY <2>1, Monotone
  <2>3. F * (k + 1) = F * k + F
    OBVIOUS
  <2> QED BY <2>1, <2>2, <2>3
<1>3. ASSUME NEW i \in 1..num
      PROVE  /\ Row(s, F, i) \subseteq s..(s + F * num - 1)
             /\ s + F * (i - 1) \in Row(s, F, i)
  <2>1. PICK m \in Nat, l \in Nat : m = F * (i - 1) /\ l = F * num /\ m + F <= l
    BY <1>1
  <2>2. (s + m)..(s + m + F - 1) \subseteq s..(s + l - 1) /\ s + m \in (s + m)..(s + m + F - 1)
    BY <2>1
  <2> QED BY <2>1, <2>2 DEF Row
<1>4. ASSUME NEW i \in 1..num, NEW j \in 1..num, NEW a \in Row(s, F, i), a \in Row(s, F, j), i < j
      PROVE  FALSE
  <2>1. PICK m \in Nat, l \in Nat : m = F * (i - 1) /\ l = F * (j - 1) /\ m + F <= l
    BY <1>1, <1>2, <1>4
  <2>2. a \in (s + m)..(s + m + F - 1) /\ a \in (s + l)..(s + l + F - 1)
    BY <1>4, <2>1 DEF Row
  <2> QED BY <2>1, <2>2
<1>5. ASSUME NEW i \in 1..num, NEW j \in 1..num, NEW a \in Row(s, F, i), a \in Row(s, F, j)
      PROVE  i = j
  <2>1. i < j \/ j < i \/ i = j
    OBVIOUS
  <2> QED BY <1>4, <1>5, <2>1
<1> QED BY <1>1, <1>3, <1>5 DEF RowsOK

Filled(b, o) ==
  LET at(i) == Slot(b, o.parent, o.offset + FdSize * (i - 1), FdSize)
  IN  [a \in DOMAIN b.mem |->
         IF \E i \in 1..o.num : a \in at(i)
         THEN <<"fd", UnusedFd(CHOOSE i \in 1..o.num : a \in at(i))>> ELSE b.mem[a]]

LEMMA ArrayWritten ==
  ASSUME NEW b \in BufferOf, BufferOK(b), NEW o \in Object, o.type = "fda",
         GoodPlace(b, o.parent, o.offset, FdSize * o.num)
  PROVE  /\ DOMAIN Filled(b, o) = 0..b.extra - 1
         /\ \A a \in 0..b.extra - 1 : a \notin Slot(b, o.parent, o.offset, FdSize * o.num)
              => Filled(b, o)[a] = b.mem[a]
         /\ \A a \in 0..b.extra - 1 : \/ Filled(b, o)[a] = b.mem[a]
                                      \/ \E i \in 1..o.num : Filled(b, o)[a] = <<"fd", UnusedFd(i)>>
         /\ \A i \in 1..o.num : Filled(b, o)[Base(b, o) + FdSize * (i - 1)] = <<"fd", UnusedFd(i)>>
<1>1. /\ o.parent \in Ptrs(b) /\ o.offset + FdSize * o.num <= b.objs[o.parent].length
      /\ Copied(b)
  BY DEF GoodPlace, BufferOK
<1>2. PICK f \in Nat, l \in Nat, e \in Nat, q \in Nat, num \in Nat, F \in Nat \ {0}, g \in Nat :
        /\ f = b.objs[o.parent].buffer /\ l = b.objs[o.parent].length /\ e = b.extra
        /\ q = o.offset /\ num = o.num /\ F = FdSize /\ g = F * num
  <2>1. o.num \in Nat /\ o.offset \in Nat
    BY ArrayFields
  <2>2. b.objs[o.parent].buffer \in Nat /\ b.objs[o.parent].length \in Nat
    BY <1>1, Kinds, PtrFields
  <2>3. b.extra \in Nat /\ FdSize \in Nat \ {0}
    BY BufferFields, Sizes
  <2>4. FdSize * o.num \in Nat
    BY <2>1, <2>3, Monotone
  <2> QED BY <2>1, <2>2, <2>3, <2>4
<1>3. f + l <= e /\ q + g <= l
  BY <1>1, <1>2 DEF Copied
<1>4. DOMAIN b.mem = 0..e - 1
  BY <1>2, BufferFields
<1> DEFINE s == f + q
<1>5. /\ s \in Nat
      /\ \A i \in 1..num : /\ F * (i - 1) \in Nat
                           /\ Row(s, F, i) \subseteq s..(s + F * num - 1)
                           /\ s + F * (i - 1) \in Row(s, F, i)
      /\ \A i, j \in 1..num : \A a \in Row(s, F, i) : a \in Row(s, F, j) => i = j
  <2>1. s \in Nat
    BY <1>2
  <2> HIDE DEF s
  <2>2. RowsOK(s, F, num)
    BY <2>1, Rows
  <2> QED BY <2>1, <2>2 DEF RowsOK
<1>6. \A i \in 1..num : Slot(b, o.parent, o.offset + FdSize * (i - 1), FdSize) = Row(s, F, i)
  <2>1. TAKE i \in 1..num
  <2>2. PICK m \in Nat : m = F * (i - 1)
    BY <1>5
  <2>3. f + (q + m) = (f + q) + m
    BY <1>2
  <2>4. Slot(b, o.parent, q + m, F) = (f + (q + m))..(f + (q + m) + F - 1)
    BY <1>2 DEF Slot
  <2>5. Row(s, F, i) = ((f + q) + m)..((f + q) + m + F - 1)
    BY <2>2 DEF Row
  <2> QED BY <1>2, <2>2, <2>3, <2>4, <2>5
<1>7. Slot(b, o.parent, o.offset, FdSize * o.num) = s..(s + F * num - 1)
  BY <1>2 DEF Slot
<1>8. s..(s + F * num - 1) \subseteq 0..e - 1
  <2>1. (f + q)..((f + q) + g - 1) \subseteq 0..(e - 1)
    BY <1>2, <1>3, InTheArea
  <2> QED BY <1>2, <2>1
<1>9. Base(b, o) = s
  BY <1>2 DEF Base
<1> HIDE DEF s
<1>10. /\ DOMAIN Filled(b, o) = 0..e - 1
       /\ \A a \in 0..e - 1 :
            Filled(b, o)[a] = IF \E i \in 1..num : a \in Row(s, F, i)
                              THEN <<"fd", UnusedFd(CHOOSE i \in 1..num : a \in Row(s, F, i))>>
                              ELSE b.mem[a]
  <2> DEFINE at(i) == Slot(b, o.parent, o.offset + FdSize * (i - 1), FdSize)
  <2>1. ASSUME NEW a
        PROVE  /\ (\E i \in 1..num : a \in at(i)) <=> (\E i \in 1..num : a \in Row(s, F, i))
               /\ (CHOOSE i \in 1..num : a \in at(i)) = CHOOSE i \in 1..num : a \in Row(s, F, i)
    <3>1. \A i \in 1..num : a \in at(i) <=> a \in Row(s, F, i)
      BY <1>6
    <3> HIDE DEF at
    <3> QED BY <3>1
  <2>2. Filled(b, o) = [a \in 0..e - 1 |->
          IF \E i \in 1..num : a \in at(i)
          THEN <<"fd", UnusedFd(CHOOSE i \in 1..num : a \in at(i))>> ELSE b.mem[a]]
    BY <1>2, <1>4, Zenon DEF Filled
  <2> HIDE DEF at
  <2> QED BY <2>1, <2>2
<1>11. \A a \in 0..e - 1 : a \notin s..(s + F * num - 1) => Filled(b, o)[a] = b.mem[a]
  <2>1. TAKE a \in 0..e - 1
  <2>2. a \notin s..(s + F * num - 1) => ~ \E i \in 1..num : a \in Row(s, F, i)
    BY <1>5
  <2> QED BY <1>10, <2>2
<1>12. \A i \in 1..num : \A a \in Row(s, F, i) : Filled(b, o)[a] = <<"fd", UnusedFd(i)>>
  <2>1. TAKE i \in 1..num
  <2>2. TAKE a \in Row(s, F, i)
  <2>3. a \in 0..e - 1
    BY <1>5, <1>8
  <2>4. (CHOOSE j \in 1..num : a \in Row(s, F, j)) = i
    BY <1>5
  <2> QED BY <1>10, <2>3, <2>4
<1>13. \A a \in 0..e - 1 : \/ Filled(b, o)[a] = b.mem[a]
                           \/ \E i \in 1..num : Filled(b, o)[a] = <<"fd", UnusedFd(i)>>
  <2>1. TAKE a \in 0..e - 1
  <2>2. CASE \E i \in 1..num : a \in Row(s, F, i)
    BY <1>12, <2>2
  <2>3. CASE ~ \E i \in 1..num : a \in Row(s, F, i)
    BY <1>10, <2>3
  <2> QED BY <2>2, <2>3
<1>14. \A i \in 1..num : Filled(b, o)[s + F * (i - 1)] = <<"fd", UnusedFd(i)>>
  BY <1>5, <1>12
<1>15. \A i \in 1..o.num : Filled(b, o)[Base(b, o) + FdSize * (i - 1)] = <<"fd", UnusedFd(i)>>
  BY <1>2, <1>9, <1>14
<1>16. \A a \in 0..b.extra - 1 : a \notin Slot(b, o.parent, o.offset, FdSize * o.num)
         => Filled(b, o)[a] = b.mem[a]
  BY <1>2, <1>7, <1>11
<1>17. DOMAIN Filled(b, o) = 0..b.extra - 1
  BY <1>2, <1>10
<1> QED BY <1>2, <1>13, <1>15, <1>16, <1>17

Fills(b, c, o) ==
  /\ o.type = "fda" /\ o.num <= Cardinality(Unused)
  /\ GoodPlace(b, o.parent, o.offset, FdSize * o.num)
  /\ c.extra = b.extra /\ c.mem = Filled(b, o) /\ c.sg = b.sg
  /\ c.last = o.parent /\ c.min = AfterArray(o.offset, o.num)

LEMMA ArrayObject ==
  ASSUME NEW b \in BufferOf, NEW c \in BufferOf, NEW o \in Object, Grows(b, c, o),
         BufferOK(b), Behind(b), Fills(b, c, o), InstalledFds(o.num) \cap Marked(b) = {}
  PROVE  /\ BufferOK(c) /\ Behind(c) /\ Plain(c) = Plain(b)
         /\ Marked(c) = Marked(b) \cup InstalledFds(o.num)
<1>0. /\ o.type = "fda" /\ o.num <= Cardinality(Unused)
      /\ GoodPlace(b, o.parent, o.offset, FdSize * o.num)
      /\ c.extra = b.extra /\ c.mem = Filled(b, o) /\ c.sg = b.sg
      /\ c.last = o.parent /\ c.min = AfterArray(o.offset, o.num)
  BY DEF Fills
<1>1. PICK n : n = Len(b.objs) + 1
  OBVIOUS
<1>2. /\ Ptrs(c) = Ptrs(b) /\ Arrays(c) = Arrays(b) \cup {n}
      /\ Fixups(c) = Fixups(b) \cup {n}
      /\ c.objs[n] = o
      /\ \A i \in Ptrs(b) \cup Arrays(b) : c.objs[i] = b.objs[i] /\ i < n
      /\ Fixups(b) \subseteq Ptrs(b) \cup Arrays(b)
  <2>1. OneMore(b, c, o, n)
    BY <1>1, FixupsGrow
  <2> QED BY <1>0, <2>1 DEF OneMore
<1>3. Nested(b) /\ Copied(b) /\ Stands(b) /\ Marked(b) = Held(b)
  BY DEF BufferOK
<1>4. o.num \in Nat /\ o.parent \in Nat /\ o.offset \in Nat /\ End(o) \in Nat
  BY <1>0, ArrayFields, Ends
<1>5. \A i \in Ptrs(b) : /\ b.objs[i].buffer \in Nat /\ b.objs[i].length \in Nat
                         /\ i \in Nat \ {0} /\ b.objs[i].offset \in Nat /\ b.objs[i].parent \in Nat
  BY Kinds, PtrFields
<1>6. /\ o.parent \in Ptrs(b) /\ o.parent \in Lineage(b) /\ o.offset >= FirstFree(b, o.parent)
      /\ o.offset + FdSize * o.num <= b.objs[o.parent].length
  BY <1>0 DEF GoodPlace, MayFixup
<1>7. End(o) = o.offset + FdSize * o.num /\ End(o) = c.min /\ FdSize * o.num \in Nat
  <2>1. End(o) = o.offset + FdSize * o.num /\ End(o) = c.min
    BY <1>0 DEF End, AfterArray
  <2>2. FdSize * o.num \in Nat
    BY <1>4, Sizes, Monotone
  <2> QED BY <2>1, <2>2
<1>8. Copied(c)
  BY <1>0, <1>2, <1>3 DEF Copied
<1>9. Nested(c)
  <2>1. ASSUME NEW i \in Fixups(b)
        PROVE  /\ c.objs[i].parent \in Ptrs(c) /\ c.objs[i].parent < i
               /\ End(c.objs[i]) <= c.objs[c.objs[i].parent].length
    BY <1>2, <1>3 DEF Nested
  <2>2. o.parent \in Ptrs(c) /\ o.parent < n /\ End(o) <= c.objs[o.parent].length
    BY <1>2, <1>6, <1>7
  <2> QED BY <1>2, <2>1, <2>2 DEF Nested
<1>10. /\ DOMAIN Filled(b, o) = 0..b.extra - 1
       /\ \A a \in 0..b.extra - 1 : a \notin Slot(b, o.parent, o.offset, FdSize * o.num)
            => c.mem[a] = b.mem[a]
       /\ \A a \in 0..b.extra - 1 : \/ c.mem[a] = b.mem[a]
                                    \/ \E i \in 1..o.num : c.mem[a] = <<"fd", UnusedFd(i)>>
       /\ \A i \in 1..o.num : c.mem[Base(b, o) + FdSize * (i - 1)] = <<"fd", UnusedFd(i)>>
  BY <1>0, ArrayWritten
<1>11. \A i \in Fixups(b) : \A a \in Cells(b, b.objs[i]) : c.mem[a] = b.mem[a]
  <2>1. TAKE i \in Fixups(b)
  <2>2. TAKE a \in Cells(b, b.objs[i])
  <2>3. a \in 0..b.extra - 1
    <3>1. Cells(b, b.objs[i]) \subseteq 0..b.extra - 1
      BY <1>3, FixupCells
    <3> QED BY <3>1
  <2>4. a \notin Slot(b, o.parent, o.offset, FdSize * o.num)
    BY <1>0, <1>4, <1>7, NewFixupIsApart
  <2> QED BY <1>10, <2>3, <2>4
<1>12. /\ \A i \in Fixups(b) : IF c.objs[i].type = "ptr" THEN PointerStands(c, c.objs[i])
                               ELSE ArrayStands(c, c.objs[i])
       /\ \A i \in Arrays(b) : ArrayFds(c, c.objs[i]) = ArrayFds(b, b.objs[i])
  BY <1>0, <1>11, OldOnesStand
<1>13. \A k \in 0..o.num - 1 : /\ c.mem[Base(c, o) + FdSize * k] = <<"fd", UnusedFd(k + 1)>>
                               /\ k + 1 \in 1..o.num
  <2>1. Base(c, o) = Base(b, o)
    BY <1>2, <1>6 DEF Base
  <2>2. TAKE k \in 0..o.num - 1
  <2>3. k + 1 \in 1..o.num /\ (k + 1) - 1 = k
    BY <1>4
  <2>4. c.mem[Base(b, o) + FdSize * ((k + 1) - 1)] = <<"fd", UnusedFd(k + 1)>>
    BY <1>10, <2>3
  <2> QED BY <2>1, <2>3, <2>4
<1>14. /\ \A i \in 1..o.num : UnusedFd(i) \in Fds
       /\ \A i, j \in 1..o.num : UnusedFd(i) = UnusedFd(j) => i = j
  <2>1. \A i \in 1..o.num : i \in 1..Cardinality(Unused)
    BY <1>0, <1>4, UnusedFds
  <2>2. Unused \subseteq Fds
    BY DEF Unused
  <2> QED BY <2>1, <2>2, UnusedFds
<1>15. ArrayStands(c, o)
  <2>1. \A k \in 0..o.num - 1 : \E fd \in Fds : c.mem[Base(c, o) + FdSize * k] = <<"fd", fd>>
    BY <1>13, <1>14
  <2>2. ASSUME NEW k \in 0..o.num - 1, NEW l \in 0..o.num - 1,
               c.mem[Base(c, o) + FdSize * k] = c.mem[Base(c, o) + FdSize * l]
        PROVE  k = l
    <3>1. UnusedFd(k + 1) = UnusedFd(l + 1) /\ k + 1 \in 1..o.num /\ l + 1 \in 1..o.num
      BY <1>13, <2>2
    <3>2. k + 1 = l + 1
      BY <1>14, <3>1
    <3> QED BY <1>4, <3>2
  <2> QED BY <2>1, <2>2 DEF ArrayStands
<1>16. ArrayFds(c, o) = InstalledFds(o.num)
  <2>1. \A fd : fd \in ArrayFds(c, o) <=>
          fd \in Fds /\ \E k \in 0..o.num - 1 : c.mem[Base(c, o) + FdSize * k] = <<"fd", fd>>
    BY DEF ArrayFds, Base
  <2>2. ASSUME NEW fd \in ArrayFds(c, o) PROVE fd \in InstalledFds(o.num)
    BY <1>13, <2>1 DEF InstalledFds
  <2>3. ASSUME NEW i \in 1..o.num PROVE UnusedFd(i) \in ArrayFds(c, o)
    <3>1. i - 1 \in 0..o.num - 1 /\ (i - 1) + 1 = i
      BY <1>4
    <3> QED BY <1>13, <1>14, <2>1, <3>1
  <2> QED BY <2>2, <2>3 DEF InstalledFds
<1>17. Stands(c)
  <2>1. ASSUME NEW i \in Fixups(c)
        PROVE  IF c.objs[i].type = "ptr" THEN PointerStands(c, c.objs[i])
               ELSE ArrayStands(c, c.objs[i])
    <3>1. CASE i \in Fixups(b)
      BY <1>12, <3>1
    <3>2. CASE i = n
      BY <1>0, <1>2, <1>15, <3>2
    <3> QED BY <1>2, <3>1, <3>2
  <2> QED BY <2>1 DEF Stands
<1>18. Held(c) = Held(b) \cup InstalledFds(o.num)
  <2>1. \A fd : fd \in Held(c) <=> \E i \in Arrays(c) : fd \in ArrayFds(c, c.objs[i])
    BY DEF Held
  <2>2. \A fd : fd \in Held(b) <=> \E i \in Arrays(b) : fd \in ArrayFds(b, b.objs[i])
    BY DEF Held
  <2>3. c.objs[n] = o /\ Arrays(c) = Arrays(b) \cup {n}
    BY <1>2
  <2>4. \A fd : fd \in Held(c) <=> fd \in Held(b) \/ fd \in InstalledFds(o.num)
    <3>1. TAKE fd
    <3>2. fd \in Held(c) <=> (\E i \in Arrays(b) : fd \in ArrayFds(c, c.objs[i]))
                              \/ fd \in ArrayFds(c, c.objs[n])
      BY <2>1, <2>3
    <3>3. (\E i \in Arrays(b) : fd \in ArrayFds(c, c.objs[i])) <=> fd \in Held(b)
      BY <1>12, <2>2
    <3> QED BY <1>16, <2>3, <3>2, <3>3
  <2> QED BY <2>4
<1>19. Marked(c) \subseteq Marked(b) \cup InstalledFds(o.num)
  <2>1. ASSUME NEW fd \in Fds, NEW a \in 0..c.extra - 1, c.mem[a] = <<"fd", fd>>
        PROVE  fd \in Marked(b) \cup InstalledFds(o.num)
    <3>1. a \in 0..b.extra - 1
      BY <1>0
    <3>2. CASE c.mem[a] = b.mem[a]
      BY <2>1, <3>1, <3>2 DEF Marked
    <3>3. CASE \E i \in 1..o.num : c.mem[a] = <<"fd", UnusedFd(i)>>
      BY <2>1, <3>3 DEF InstalledFds
    <3> QED BY <1>10, <3>1, <3>2, <3>3
  <2> QED BY <2>1 DEF Marked
<1>20. Held(c) \subseteq Marked(c)
  BY <1>8, <1>9, HeldIsMarked
<1>21. Marked(c) = Held(c) /\ Marked(c) = Marked(b) \cup InstalledFds(o.num)
  BY <1>3, <1>18, <1>19, <1>20
<1>22. Behind(c)
  <2>1. \A i \in Ptrs(c) : c.objs[i].buffer + c.objs[i].length <= c.sg
    BY <1>0, <1>2 DEF Behind
  <2>2. /\ b.last # 0 /\ b.last \in Ptrs(b) /\ o.parent \in UpFrom(b, b.last)
        /\ Lineage(b) = UpFrom(b, b.last)
    BY <1>6 DEF Lineage, Behind
  <2>3. Lineage(c) = UpFrom(b, o.parent)
    <3>1. \A i : UpFrom(c, i) = UpFrom(b, i)
      BY <1>0, SameWalk
    <3>2. o.parent # 0
      BY <1>5, <1>6
    <3> QED BY <1>0, <3>1, <3>2 DEF Lineage
  <2>4. /\ Lineage(c) \subseteq Lineage(b) /\ Lineage(b) \subseteq Ptrs(b)
        /\ \A x \in Lineage(c) : x <= o.parent
    BY <1>3, <1>6, <2>2, <2>3, Climb
  <2>5. ASSUME NEW i \in Fixups(c), c.objs[i].parent = c.last
        PROVE  End(c.objs[i]) <= c.min
    <3>1. CASE i = n
      BY <1>2, <1>4, <1>7, <3>1
    <3>2. CASE i \in Fixups(b)
      <4>1. c.objs[i] = b.objs[i] /\ b.objs[i].parent = o.parent
        BY <1>0, <1>2, <2>5, <3>2
      <4>2. End(b.objs[i]) <= o.offset
        BY <1>3, <1>4, <1>6, <3>2, <4>1, FreeIsBehind
      <4>3. End(b.objs[i]) \in Nat
        BY <3>2, Kinds, Ends
      <4> QED BY <1>4, <1>7, <4>1, <4>2, <4>3
    <3> QED BY <1>2, <3>1, <3>2
  <2>6. ASSUME NEW i \in Fixups(c), NEW x \in Lineage(c),
               c.objs[x].parent = c.objs[i].parent
        PROVE  End(c.objs[i]) <= c.objs[x].offset + PtrSize
    <3>1. x \in Lineage(b) /\ x \in Ptrs(b) /\ x <= o.parent /\ c.objs[x] = b.objs[x]
      BY <1>2, <2>4
    <3>2. CASE i \in Fixups(b)
      <4>1. c.objs[i] = b.objs[i]
        BY <1>2, <3>2
      <4> QED BY <2>6, <3>1, <3>2, <4>1 DEF Behind
    <3>3. CASE i = n
      <4>1. b.objs[x].parent = o.parent /\ o.parent # 0
        BY <1>2, <1>5, <1>6, <2>6, <3>1, <3>3
      <4>2. x \in Fixups(b)
        BY <3>1, <4>1 DEF Fixups
      <4>3. o.parent < x
        BY <1>3, <4>1, <4>2 DEF Nested
      <4> QED BY <1>4, <1>5, <3>1, <4>3
    <3> QED BY <1>2, <3>2, <3>3
  <2> QED BY <1>0, <1>2, <1>6, <2>1, <2>5, <2>6 DEF Behind
<1>23. Plain(c) = Plain(b)
  <2>1. OfType(c, "fd") = OfType(b, "fd")
    <3>1. \A t : OfType(c, t) = OfType(b, t) \cup (IF o.type = t THEN {n} ELSE {})
      BY <1>1, Appended
    <3> QED BY <1>0, <3>1
  <2>2. \A i \in OfType(b, "fd") : c.objs[i] = b.objs[i]
    <3>1. \A i \in DOMAIN b.objs : c.objs[i] = b.objs[i]
      BY <1>1, Appended
    <3> QED BY <3>1 DEF OfType
  <2> QED BY <2>1, <2>2 DEF Plain
<1>24. OneEach(c)
  <2>1. \A k, l \in OfType(c, "fd") : c.objs[k].fd = c.objs[l].fd => k = l
    <3>1. OfType(c, "fd") = OfType(b, "fd") /\ \A i \in OfType(b, "fd") : c.objs[i] = b.objs[i]
      <4>1. \A t : OfType(c, t) = OfType(b, t) \cup (IF o.type = t THEN {n} ELSE {})
        BY <1>1, Appended
      <4>2. \A i \in DOMAIN b.objs : c.objs[i] = b.objs[i]
        BY <1>1, Appended
      <4> QED BY <1>0, <4>1, <4>2 DEF OfType
    <3> QED BY <3>1 DEF BufferOK, OneEach
  <2>2. \A k \in Arrays(b) : ArrayFds(b, b.objs[k]) \cap ArrayFds(c, o) = {}
    BY <1>3, <1>16 DEF Held
  <2>3. ASSUME NEW k \in Arrays(c), NEW l \in Arrays(c), k # l
        PROVE  ArrayFds(c, c.objs[k]) \cap ArrayFds(c, c.objs[l]) = {}
    <3>1. CASE k \in Arrays(b) /\ l \in Arrays(b)
      BY <1>12, <2>3, <3>1 DEF BufferOK, OneEach
    <3>2. CASE k \in Arrays(b) /\ l = n
      BY <1>2, <1>12, <2>2, <3>2
    <3>3. CASE k = n /\ l \in Arrays(b)
      BY <1>2, <1>12, <2>2, <3>3
    <3> QED BY <1>2, <2>3, <3>1, <3>2, <3>3
  <2> QED BY <2>1, <2>3 DEF OneEach
<1> QED BY <1>8, <1>9, <1>17, <1>21, <1>22, <1>23, <1>24 DEF BufferOK

-----------------------------------------------------------------------------
(* What is released. *)

\* c is b, or b with the object that failed behind the others.
SameUpTo(b, c) ==
  /\ c.mem = b.mem
  /\ \A t : OfType(c, t) \cap 1..Len(b.objs) = OfType(b, t)
  /\ \A i \in DOMAIN b.objs : c.objs[i] = b.objs[i]

LEMMA WhatIsClosed ==
  ASSUME NEW b \in BufferOf, NEW c, SameUpTo(b, c), BufferOK(b), NEW failed \in BOOLEAN
  PROVE  Closed(c, Len(b.objs), failed) = Marked(b) \cup (IF failed THEN Plain(b) ELSE {})
<1>1. /\ c.mem = b.mem
      /\ \A t : OfType(c, t) \cap 1..Len(b.objs) = OfType(b, t)
      /\ \A i \in DOMAIN b.objs : c.objs[i] = b.objs[i]
      /\ Nested(b) /\ Marked(b) = Held(b)
  BY DEF SameUpTo, BufferOK
<1>2. /\ OfType(c, "fda") \cap 1..Len(b.objs) = Arrays(b)
      /\ OfType(c, "fd") \cap 1..Len(b.objs) = OfType(b, "fd")
      /\ Ptrs(b) \subseteq OfType(c, "ptr")
  BY <1>1 DEF Arrays, Ptrs
<1>3. \A t : \A i \in OfType(b, t) : c.objs[i] = b.objs[i]
  BY <1>1 DEF OfType
<1>4. ASSUME NEW i \in Arrays(b)
      PROVE  /\ IsParent(c, c.objs[i].parent)
             /\ ArrayFits(c, c.objs[i].parent, c.objs[i].offset, c.objs[i].num)
             /\ ArrayFds(c, c.objs[i]) = ArrayFds(b, b.objs[i])
  <2>1. PICK o : o = b.objs[i]
    OBVIOUS
  <2>2. /\ o \in Object /\ o.type = "fda" /\ c.objs[i] = o
        /\ o.parent \in Ptrs(b) /\ End(o) <= b.objs[o.parent].length
    BY <1>1, <1>3, <2>1, Kinds DEF Nested, Fixups, Arrays
  <2>3. c.objs[o.parent] = b.objs[o.parent]
    BY <1>3, <2>2 DEF Ptrs
  <2>4. PICK q \in Nat, l \in Nat, g \in Nat :
          q = o.offset /\ l = b.objs[o.parent].length /\ g = FdSize * o.num
    <3>1. o.offset \in Nat /\ o.num \in Nat
      BY <2>2, ArrayFields
    <3>2. b.objs[o.parent].length \in Nat
      BY <2>2, Kinds, PtrFields
    <3>3. FdSize * o.num \in Nat
      BY <3>1, Sizes, Monotone
    <3> QED BY <3>1, <3>2, <3>3
  <2>5. q + g <= l
    BY <2>2, <2>4 DEF End
  <2>6. g <= l /\ q <= l - g
    BY <2>5
  <2>7. ArrayFits(c, o.parent, o.offset, o.num)
    BY <2>3, <2>4, <2>6 DEF ArrayFits
  <2>8. IsParent(c, o.parent)
    BY <1>2, <2>2 DEF IsParent
  <2>9. ArrayFds(c, o) = ArrayFds(b, o)
    BY <1>1, <2>3 DEF ArrayFds
  <2> QED BY <2>1, <2>2, <2>7, <2>8, <2>9
<1> DEFINE fds == {c.objs[i].fd : i \in OfType(c, "fd") \cap 1..Len(b.objs)}
           arrays == {i \in OfType(c, "fda") \cap 1..Len(b.objs) :
                        /\ IsParent(c, c.objs[i].parent)
                        /\ ArrayFits(c, c.objs[i].parent, c.objs[i].offset, c.objs[i].num)}
<1>5. fds = Plain(b)
  BY <1>2, <1>3 DEF Plain
<1>6. arrays = Arrays(b)
  BY <1>2, <1>4
<1>7. UNION {ArrayFds(c, c.objs[i]) : i \in Arrays(b)} = Held(b)
  BY <1>4 DEF Held
<1>8. Closed(c, Len(b.objs), failed)
        = (IF failed THEN fds ELSE {}) \cup UNION {ArrayFds(c, c.objs[i]) : i \in arrays}
  BY DEF Closed
<1> HIDE DEF fds, arrays
<1> QED BY <1>1, <1>5, <1>6, <1>7, <1>8

LEMMA SameOrLonger ==
  ASSUME NEW b \in BufferOf
  PROVE  /\ SameUpTo(b, b)
         /\ \A o : SameUpTo(b, [b EXCEPT !.objs = Append(@, o)])
<1>1. b.objs \in Seq(Object)
  BY BufferFields
<1>2. SameUpTo(b, b)
  BY <1>1 DEF SameUpTo, OfType
<1>3. ASSUME NEW o PROVE SameUpTo(b, [b EXCEPT !.objs = Append(@, o)])
  <2>1. PICK c : c = [b EXCEPT !.objs = Append(@, o)]
    OBVIOUS
  <2>2. c.mem = b.mem /\ c.objs = Append(b.objs, o)
    BY <2>1 DEF BufferOf
  <2>3. /\ \A i \in DOMAIN b.objs : c.objs[i] = b.objs[i] /\ i \in DOMAIN c.objs
        /\ DOMAIN c.objs \cap 1..Len(b.objs) = DOMAIN b.objs
    BY <1>1, <2>2
  <2>4. SameUpTo(b, c)
    BY <2>2, <2>3 DEF SameUpTo, OfType
  <2> QED BY <2>1, <2>4
<1> QED BY <1>2, <1>3

LEMMA MaxIsCount ==
  ASSUME NEW x \in Int
  PROVE  Max({0, x}) \in Nat
<1>1. \E m \in {0, x} : \A y \in {0, x} : m >= y
  BY x >= 0 \/ 0 >= x
<1>2. Max({0, x}) \in {0, x} /\ \A y \in {0, x} : Max({0, x}) >= y
  BY <1>1 DEF Max
<1>3. Max({0, x}) \in Int /\ Max({0, x}) >= 0
  BY <1>2
<1> QED BY <1>3

LEMMA RefsStayCounts ==
  ASSUME refs \in [Nodes \X BOOLEAN -> Nat], NEW c, NEW end \in Nat
  PROVE  RefsAfter(c, end) \in [Nodes \X BOOLEAN -> Nat]
<1>1. ASSUME NEW r \in Nodes \X BOOLEAN
      PROVE  Max({0, refs[r] - Cardinality(Flat(c, r[1], r[2]) \cap 1..end)
                              - TargetNode(c, r)}) \in Nat
  <2>1. Cardinality(Flat(c, r[1], r[2]) \cap 1..end) \in Nat
    <3>1. IsFiniteSet(1..end)
      BY FS_Interval
    <3>2. PICK S : S = Flat(c, r[1], r[2]) \cap 1..end
      OBVIOUS
    <3>3. S \in SUBSET (1..end)
      BY <3>2
    <3>4. Cardinality(S) \in Nat
      BY <3>1, <3>3, FS_Subset, FS_CardinalityType
    <3> QED BY <3>2, <3>4
  <2>2. TargetNode(c, r) \in Nat /\ refs[r] \in Nat
    BY DEF TargetNode
  <2>3. PICK k \in Nat, t \in Nat, v \in Nat :
          /\ k = Cardinality(Flat(c, r[1], r[2]) \cap 1..end)
          /\ t = TargetNode(c, r) /\ v = refs[r]
    BY <2>1, <2>2
  <2>4. v - k - t \in Int
    OBVIOUS
  <2> QED BY <2>3, <2>4, MaxIsCount
<1>2. DOMAIN refs = Nodes \X BOOLEAN
  OBVIOUS
<1> QED BY <1>1, <1>2 DEF RefsAfter

-----------------------------------------------------------------------------
(* The invariant is inductive: the steps that add an object. *)

FilesTyped == files \in [Fds -> {"closed", "own", "sent"}]
RefsTyped  == refs \in [Nodes \X BOOLEAN -> Nat]

LEMMA GrowStep ==
  ASSUME IInv, building # NoBuffer, NEW c \in BufferOf, NEW New, New \cap Sent = {},
         building' = c, kept' = kept, RefsTyped', FilesTyped', Sent' = Sent \cup New,
         BufferOK(c), Behind(c), Marked(c) \cap Plain(c) = {},
         Marked(c) \cup Plain(c) = Marked(building) \cup Plain(building) \cup New
  PROVE  IInv'
<1>1. Typed'
  BY DEF IInv, Typed, RefsTyped, FilesTyped
<1>2. (\A i \in DOMAIN kept : BufferOK(kept[i]))'
  BY DEF IInv
<1>3. (building # NoBuffer => BufferOK(building) /\ Behind(building))'
  <2>1. (BufferOK(c) /\ Behind(c))'
    OBVIOUS
  <2> QED BY <2>1
<1>4. c # NoBuffer
  BY BufferFields
<1>5. /\ \A i \in DOMAIN kept : Marked(kept[i]) \cap (Marked(building) \cup Plain(building)) = {}
      /\ \A i, j \in DOMAIN kept : i # j => Marked(kept[i]) \cap Marked(kept[j]) = {}
      /\ Sent = InKept \cup Marked(building) \cup Plain(building)
  BY DEF IInv, Disjoint, AllHeld
<1>6. \A i \in DOMAIN kept : Marked(kept[i]) \cap (Marked(c) \cup Plain(c)) = {}
  <2>1. \A i \in DOMAIN kept : Marked(kept[i]) \subseteq Sent
    BY <1>5 DEF InKept
  <2> QED BY <1>5, <2>1
<1>7. Disjoint'
  <2>1. (\A i, j \in DOMAIN kept : i # j => Marked(kept[i]) \cap Marked(kept[j]) = {})'
    BY <1>5 DEF Marked
  <2>2. (\A i \in DOMAIN kept : Marked(kept[i]) \cap (Marked(c) \cup Plain(c)) = {})'
    BY <1>6 DEF Marked
  <2>3. (\A i \in DOMAIN kept : Marked(kept[i]) \cap (Marked(building) \cup Plain(building)) = {})'
    BY <2>2
  <2>4. (Marked(building) \cap Plain(building) = {})'
    OBVIOUS
  <2> QED BY <2>1, <2>3, <2>4 DEF Disjoint
<1>8. AllHeld'
  <2>1. Sent' = InKept \cup (Marked(c) \cup Plain(c))
    BY <1>5
  <2>2. InKept' = InKept
    BY DEF InKept, Marked
  <2>3. (Sent = InKept \cup (Marked(building) \cup Plain(building)))'
    BY <2>1, <2>2
  <2> QED BY <1>4, <2>3 DEF AllHeld
<1> QED BY <1>1, <1>2, <1>3, <1>7, <1>8 DEF IInv

LEMMA Built ==
  ASSUME IInv, building # NoBuffer
  PROVE  /\ building \in BufferOf /\ BufferOK(building) /\ Behind(building)
         /\ Marked(building) \cap Plain(building) = {}
         /\ Marked(building) \cup Plain(building) \subseteq Sent
         /\ FilesTyped /\ RefsTyped
BY DEF IInv, Typed, Disjoint, AllHeld, FilesTyped, RefsTyped

\* The buffer with one more object.
Longer(b, c, o) ==
  /\ c \in BufferOf /\ Grows(b, c, o) /\ c.extra = b.extra

WithObject(b, o, m, s, l, k) ==
  [b EXCEPT !.objs = Append(b.objs, o), !.mem = m, !.sg = s, !.last = l, !.min = k]

LEMMA Appending ==
  ASSUME NEW S, NEW t \in Seq(S), NEW x \in S
  PROVE  Append(t, x) \in Seq(S)
OBVIOUS

LEMMA NewBuffer ==
  ASSUME NEW b \in BufferOf, NEW o \in Object, NEW m \in [0..b.extra - 1 -> Cell],
         NEW s \in Nat, NEW l \in Nat, NEW k \in Nat,
         NEW c, c = WithObject(b, o, m, s, l, k)
  PROVE  Longer(b, c, o) /\ c.mem = m /\ c.sg = s /\ c.last = l /\ c.min = k
<1>1. PICK e \in ExtraSizes :
        b \in [target_node : Nodes \cup {"none"}, accepts : BOOLEAN, extra : {e},
               mem : [0..e - 1 -> Cell], objs : Seq(Object),
               sg : Nat, last : Nat, min : Nat]
  BY DEF BufferOf
<1>2. b.extra = e /\ b.objs \in Seq(Object) /\ m \in [0..e - 1 -> Cell]
  BY <1>1
<1>3. PICK q : q = Append(b.objs, o) /\ q \in Seq(Object)
  BY <1>2, Appending
<1>4. c = [b EXCEPT !.objs = q, !.mem = m, !.sg = s, !.last = l, !.min = k]
  BY <1>3 DEF WithObject
<1>5. /\ c \in [target_node : Nodes \cup {"none"}, accepts : BOOLEAN, extra : {e},
                mem : [0..e - 1 -> Cell], objs : Seq(Object),
                sg : Nat, last : Nat, min : Nat]
      /\ c.objs = q /\ c.extra = e /\ c.mem = m /\ c.sg = s /\ c.last = l /\ c.min = k
  BY <1>1, <1>2, <1>3, <1>4
<1>6. c \in BufferOf
  BY <1>5 DEF BufferOf
<1> QED BY <1>2, <1>3, <1>5, <1>6 DEF Longer, Grows

\* Setting a field to what it is changes nothing.
LEMMA FewerFields ==
  ASSUME NEW b \in BufferOf, NEW o
  PROVE  [b EXCEPT !.objs = Append(b.objs, o)] = WithObject(b, o, b.mem, b.sg, b.last, b.min)
<1>1. PICK e \in ExtraSizes :
        b \in [target_node : Nodes \cup {"none"}, accepts : BOOLEAN, extra : {e},
               mem : [0..e - 1 -> Cell], objs : Seq(Object),
               sg : Nat, last : Nat, min : Nat]
  BY DEF BufferOf
<1> QED BY <1>1 DEF WithObject

LEMMA FourFields ==
  ASSUME NEW b \in BufferOf, NEW o, NEW m, NEW l, NEW k,
         NEW c, c = [b EXCEPT !.objs = Append(b.objs, o), !.mem = m, !.last = l, !.min = k]
  PROVE  c = WithObject(b, o, m, b.sg, l, k)
<1>1. PICK e \in ExtraSizes :
        b \in [target_node : Nodes \cup {"none"}, accepts : BOOLEAN, extra : {e},
               mem : [0..e - 1 -> Cell], objs : Seq(Object),
               sg : Nat, last : Nat, min : Nat]
  BY DEF BufferOf
<1> QED BY <1>1 DEF WithObject

LEMMA StepFlat ==
  ASSUME IInv, NEW n \in Nodes, NEW strong \in BOOLEAN, TranslateFlat(n, strong)
  PROVE  IInv'
<1> DEFINE o == [type |-> "flat", node |-> n, strong |-> strong]
<1>1. /\ building # NoBuffer /\ kept' = kept /\ files' = files
      /\ building' = [building EXCEPT !.objs = Append(building.objs, o)]
      /\ refs' = [refs EXCEPT ![<<n, strong>>] = @ + 1]
  BY DEF TranslateFlat, Translating
<1>2. /\ building \in BufferOf /\ BufferOK(building) /\ Behind(building)
      /\ Marked(building) \cap Plain(building) = {}
      /\ FilesTyped /\ RefsTyped
  BY <1>1, Built
<1>3. o \in Object /\ o.type = "flat"
  BY DEF Object
<1> HIDE DEF o
<1>4. PICK c : c = building'
  OBVIOUS
<1>5. c = WithObject(building, o, building.mem, building.sg, building.last, building.min)
  BY <1>1, <1>2, <1>4, FewerFields
<1>6. /\ Longer(building, c, o) /\ c.mem = building.mem /\ c.sg = building.sg
      /\ c.last = building.last /\ c.min = building.min
  BY <1>2, <1>3, <1>5, BufferFields, NewBuffer
<1>7. c \in BufferOf /\ Grows(building, c, o) /\ c.extra = building.extra
  BY <1>6 DEF Longer
<1>8. /\ BufferOK(c) /\ Behind(c) /\ Marked(c) = Marked(building)
      /\ Plain(c) = Plain(building) \cup (IF o.type = "fd" THEN {o.fd} ELSE {})
  BY <1>2, <1>3, <1>6, <1>7, PlainObject
<1>9. Plain(c) = Plain(building)
  BY <1>3, <1>8
<1>10. RefsTyped' /\ FilesTyped' /\ Sent' = Sent
  BY <1>1, <1>2 DEF RefsTyped, FilesTyped, Sent
<1> DEFINE New == {}
<1>11. /\ New \cap Sent = {} /\ Sent' = Sent \cup New /\ building' = c
       /\ Marked(c) \cap Plain(c) = {}
       /\ Marked(c) \cup Plain(c) = Marked(building) \cup Plain(building) \cup New
  BY <1>2, <1>4, <1>8, <1>9, <1>10
<1> HIDE DEF New
<1> QED BY <1>1, <1>7, <1>8, <1>10, <1>11, GrowStep

LEMMA FreeDescriptors ==
  ASSUME FilesTyped
  PROVE  /\ \A i \in 1..Cardinality(Unused) : UnusedFd(i) \in Fds /\ UnusedFd(i) \notin Sent
         /\ Unused # {} => 1 \in 1..Cardinality(Unused)
         /\ Fds \subseteq Nat
<1>1. \A fd \in Unused : fd \in Fds /\ fd \notin Sent
  BY DEF Unused, Sent
<1>2. 1 \in Nat
  OBVIOUS
<1> QED BY <1>1, <1>2, UnusedFds

LEMMA StepFd ==
  ASSUME IInv, TranslateFd
  PROVE  IInv'
<1> DEFINE o == [type |-> "fd", fd |-> UnusedFd(1)]
<1>1. /\ building # NoBuffer /\ kept' = kept /\ refs' = refs /\ Unused # {}
      /\ building' = [building EXCEPT !.objs = Append(building.objs, o)]
      /\ files' = [files EXCEPT ![UnusedFd(1)] = "sent"]
  BY DEF TranslateFd, Translating
<1>2. /\ building \in BufferOf /\ BufferOK(building) /\ Behind(building)
      /\ Marked(building) \cap Plain(building) = {}
      /\ Marked(building) \cup Plain(building) \subseteq Sent
      /\ FilesTyped /\ RefsTyped
  BY <1>1, Built
<1>3. PICK fd : fd = UnusedFd(1) /\ fd \in Fds /\ fd \notin Sent
  BY <1>1, <1>2, FreeDescriptors
<1>4. o \in Object /\ o.type = "fd" /\ o.fd = fd
  BY <1>3 DEF Object
<1> HIDE DEF o
<1>5. PICK c : c = building'
  OBVIOUS
<1>6. c = WithObject(building, o, building.mem, building.sg, building.last, building.min)
  BY <1>1, <1>2, <1>5, FewerFields
<1>7. /\ Longer(building, c, o) /\ c.mem = building.mem /\ c.sg = building.sg
      /\ c.last = building.last /\ c.min = building.min
  BY <1>2, <1>4, <1>6, BufferFields, NewBuffer
<1>8. c \in BufferOf /\ Grows(building, c, o) /\ c.extra = building.extra
  BY <1>7 DEF Longer
<1>9. /\ BufferOK(c) /\ Behind(c) /\ Marked(c) = Marked(building)
      /\ Plain(c) = Plain(building) \cup (IF o.type = "fd" THEN {o.fd} ELSE {})
  <2>1. o.fd \notin Plain(building)
    BY <1>2, <1>3, <1>4
  <2> QED BY <1>2, <1>4, <1>7, <1>8, <2>1, PlainObject
<1>10. Plain(c) = Plain(building) \cup {fd}
  BY <1>4, <1>9
<1>11. RefsTyped' /\ FilesTyped' /\ Sent' = Sent \cup {fd}
  BY <1>1, <1>2, <1>3 DEF RefsTyped, FilesTyped, Sent
<1>12. /\ {fd} \cap Sent = {} /\ building' = c
       /\ Marked(c) \cap Plain(c) = {}
       /\ Marked(c) \cup Plain(c) = Marked(building) \cup Plain(building) \cup {fd}
  BY <1>2, <1>3, <1>5, <1>9, <1>10
<1> QED BY <1>1, <1>8, <1>9, <1>11, <1>12, GrowStep

LEMMA StepPtr ==
  ASSUME IInv, NEW length \in Lengths, NEW p \in 0..MaxObjects, NEW offset \in Offsets,
         TranslatePtr(length, p, offset)
  PROVE  IInv'
<1> DEFINE o == [type |-> "ptr", length |-> length, buffer |-> building.sg,
                 parent |-> p, offset |-> offset]
           slot == IF p = 0 THEN {} ELSE Slot(building, p, offset, PtrSize)
           m == Write(building.mem, slot, <<"ptr", building.sg>>)
           s == building.sg + Reserved(length)
           n == Len(building.objs) + 1
<1>1. /\ building # NoBuffer /\ kept' = kept /\ refs' = refs /\ files' = files
      /\ length <= building.extra - building.sg
      /\ p = 0 \/ (IsParent(building, p) /\ MayFixup(building, p, offset)
                    /\ PointerFits(building, p, offset))
      /\ building' = [building EXCEPT !.objs = Append(building.objs, o), !.mem = m, !.sg = s,
                                      !.last = n, !.min = 0]
  BY DEF TranslatePtr, Translating
<1>2. /\ building \in BufferOf /\ BufferOK(building) /\ Behind(building)
      /\ Marked(building) \cap Plain(building) = {}
      /\ FilesTyped /\ RefsTyped
  BY <1>1, Built
<1>3. /\ building.sg \in Nat /\ building.extra \in Nat /\ building.objs \in Seq(Object)
      /\ building.mem \in [0..building.extra - 1 -> Cell]
  BY <1>2, BufferFields
<1>4. p \in Nat /\ length \in Nat /\ offset \in Nat
  BY Sizes
<1>5. /\ o \in Object /\ o.type = "ptr" /\ o.length = length /\ o.buffer = building.sg
      /\ o.parent = p /\ o.offset = offset
  BY <1>3, <1>4 DEF Object
<1>6. m \in [0..building.extra - 1 -> Cell]
  <2>1. <<"ptr", building.sg>> \in Cell
    BY <1>3 DEF Cell
  <2> HIDE DEF slot
  <2> QED BY <1>3, <2>1 DEF Write
<1>7. s \in Nat /\ n \in Nat
  <2>1. Reserved(length) \in Nat
    BY <1>4, ReservedIsEnough
  <2>2. Len(building.objs) \in Nat
    BY <1>3
  <2> QED BY <1>3, <2>1, <2>2
<1>8. p # 0 => GoodPlace(building, p, offset, PtrSize)
  <2>1. SUFFICES ASSUME p # 0 PROVE GoodPlace(building, p, offset, PtrSize)
    OBVIOUS
  <2>2. p \in Ptrs(building) /\ MayFixup(building, p, offset) /\ PointerFits(building, p, offset)
    BY <1>1, <2>1 DEF IsParent, Ptrs
  <2>3. building.objs[p].length \in Nat
    BY <1>2, <2>2, Kinds, PtrFields
  <2>4. offset + PtrSize <= building.objs[p].length
    BY <1>4, <2>2, <2>3, Sizes DEF PointerFits
  <2> QED BY <2>2, <2>4 DEF GoodPlace
<1>9. PICK c : c = building'
  OBVIOUS
<1>10. c = WithObject(building, o, m, s, n, 0)
  BY <1>1, <1>9 DEF WithObject
<1>11. Longer(building, c, o) /\ c.mem = m /\ c.sg = s /\ c.last = n /\ c.min = 0
  <2> HIDE DEF o, m, s, n
  <2> QED BY <1>2, <1>5, <1>6, <1>7, <1>10, NewBuffer
<1>12. c \in BufferOf /\ Grows(building, c, o) /\ c.extra = building.extra
  BY <1>11 DEF Longer
<1>13. Puts(building, c, o)
  <2>1. c.mem = Write(building.mem, IF o.parent = 0 THEN {}
                        ELSE Slot(building, o.parent, o.offset, PtrSize), <<"ptr", building.sg>>)
    BY <1>5, <1>11
  <2>2. c.sg = building.sg + Reserved(o.length) /\ c.last = Len(building.objs) + 1
    BY <1>5, <1>11
  <2> HIDE DEF o, m, s, n, slot
  <2>3. o.parent = 0 \/ GoodPlace(building, o.parent, o.offset, PtrSize)
    BY <1>5, <1>8
  <2> QED BY <1>1, <1>5, <1>11, <1>12, <2>1, <2>2, <2>3 DEF Puts
<1> HIDE DEF o, m, s, n, slot
<1>14. BufferOK(c) /\ Behind(c) /\ Marked(c) = Marked(building) /\ Plain(c) = Plain(building)
  BY <1>2, <1>5, <1>12, <1>13, PointerObject
<1>15. RefsTyped' /\ FilesTyped' /\ Sent' = Sent
  BY <1>1, <1>2 DEF RefsTyped, FilesTyped, Sent
<1> DEFINE New == {}
<1>16. /\ New \cap Sent = {} /\ Sent' = Sent \cup New /\ building' = c
       /\ Marked(c) \cap Plain(c) = {}
       /\ Marked(c) \cup Plain(c) = Marked(building) \cup Plain(building) \cup New
  BY <1>2, <1>9, <1>14, <1>15
<1> HIDE DEF New
<1> QED BY <1>1, <1>12, <1>14, <1>15, <1>16, GrowStep

LEMMA StepArray ==
  ASSUME IInv, NEW num \in Counts, NEW p \in 0..MaxObjects, NEW offset \in Offsets,
         TranslateFdArray(num, p, offset)
  PROVE  IInv'
<1> DEFINE o == [type |-> "fda", num |-> num, parent |-> p, offset |-> offset]
           m == Filled(building, o)
           min == AfterArray(offset, num)
<1>1. /\ building # NoBuffer /\ kept' = kept /\ refs' = refs
      /\ IsParent(building, p) /\ MayFixup(building, p, offset)
      /\ ArrayFits(building, p, offset, num)
      /\ num <= Cardinality(Unused)
      /\ files' = [fd \in Fds |-> IF fd \in InstalledFds(num) THEN "sent" ELSE files[fd]]
  BY DEF TranslateFdArray, ArrayIsValid, Translating
<1>2. building' = [building EXCEPT !.objs = Append(building.objs, o), !.mem = m,
                                   !.last = p, !.min = min]
  BY DEF TranslateFdArray, Filled
<1>3. /\ building \in BufferOf /\ BufferOK(building) /\ Behind(building)
      /\ Marked(building) \cap Plain(building) = {}
      /\ Marked(building) \cup Plain(building) \subseteq Sent
      /\ FilesTyped /\ RefsTyped
  BY <1>1, Built
<1>4. /\ building.sg \in Nat /\ building.extra \in Nat
      /\ building.mem \in [0..building.extra - 1 -> Cell]
  BY <1>3, BufferFields
<1>5. p \in Nat /\ num \in Nat /\ offset \in Nat /\ FdSize * num \in Nat
  <2>1. p \in Nat /\ num \in Nat /\ offset \in Nat
    BY Sizes
  <2>2. FdSize * num \in Nat
    BY <2>1, Sizes, Monotone
  <2> QED BY <2>1, <2>2
<1>6. o \in Object /\ o.type = "fda" /\ o.num = num /\ o.parent = p /\ o.offset = offset
  BY <1>5 DEF Object
<1>7. GoodPlace(building, p, offset, FdSize * num)
  <2>1. p \in Ptrs(building)
    BY <1>1 DEF IsParent, Ptrs
  <2>2. PICK l \in Nat, g \in Nat : l = building.objs[p].length /\ g = FdSize * num
    BY <1>3, <1>5, <2>1, Kinds, PtrFields
  <2>3. g <= l /\ offset <= l - g
    BY <1>1, <2>2 DEF ArrayFits
  <2>4. offset + g <= l
    BY <1>5, <2>3
  <2> QED BY <1>1, <2>1, <2>2, <2>4 DEF GoodPlace
<1>8. min \in Nat
  BY <1>5 DEF AfterArray
<1> HIDE DEF o, m, min
<1>9. \A i \in 1..num : UnusedFd(i) \in Fds /\ UnusedFd(i) \notin Sent /\ UnusedFd(i) \in Nat
  <2>1. \A i \in 1..num : i \in 1..Cardinality(Unused)
    BY <1>1, <1>5, UnusedFds
  <2> QED BY <1>3, <2>1, FreeDescriptors
<1>10. m \in [0..building.extra - 1 -> Cell]
  <2>1. GoodPlace(building, o.parent, o.offset, FdSize * o.num)
    BY <1>6, <1>7
  <2>2. /\ DOMAIN Filled(building, o) = 0..building.extra - 1
        /\ \A a \in 0..building.extra - 1 :
             \/ Filled(building, o)[a] = building.mem[a]
             \/ \E i \in 1..o.num : Filled(building, o)[a] = <<"fd", UnusedFd(i)>>
    BY <1>3, <1>6, <2>1, ArrayWritten
  <2>3. \A i \in 1..num : <<"fd", UnusedFd(i)>> \in Cell
    BY <1>9 DEF Cell
  <2>4. \A a \in 0..building.extra - 1 : Filled(building, o)[a] \in Cell
    BY <1>4, <1>6, <2>2, <2>3
  <2>5. Filled(building, o) = [a \in 0..building.extra - 1 |-> Filled(building, o)[a]]
    BY <2>2 DEF Filled
  <2> HIDE <2>2
  <2> QED BY <2>4, <2>5 DEF m
<1>11. PICK c : c = building'
  OBVIOUS
<1>12. c = WithObject(building, o, m, building.sg, p, min)
  <2>1. building \in BufferOf
    BY <1>3
  <2>2. c = [building EXCEPT !.objs = Append(building.objs, o), !.mem = m,
                             !.last = p, !.min = min]
    BY <1>2, <1>11, Zenon
  <2> QED BY <2>1, <2>2, FourFields
<1>13. /\ Longer(building, c, o) /\ c.mem = m /\ c.sg = building.sg
       /\ c.last = p /\ c.min = min
  <2>1. /\ building \in BufferOf /\ building.sg \in Nat /\ p \in Nat /\ o \in Object
        /\ min \in Nat
    BY <1>3, <1>4, <1>5, <1>6, <1>8
  <2> QED BY <1>10, <1>12, <2>1, NewBuffer
<1>14. c \in BufferOf /\ Grows(building, c, o) /\ c.extra = building.extra
  BY <1>13 DEF Longer
<1>15. Fills(building, c, o)
  BY <1>1, <1>6, <1>7, <1>13, <1>14 DEF Fills, m, min
<1>16. \A fd \in InstalledFds(num) : fd \in Fds /\ fd \notin Sent
  BY <1>9 DEF InstalledFds
<1>17. /\ BufferOK(c) /\ Behind(c) /\ Plain(c) = Plain(building)
       /\ Marked(c) = Marked(building) \cup InstalledFds(num)
  <2>1. InstalledFds(o.num) \cap Marked(building) = {}
    BY <1>3, <1>6, <1>16
  <2>2. /\ BufferOK(c) /\ Behind(c) /\ Plain(c) = Plain(building)
        /\ Marked(c) = Marked(building) \cup InstalledFds(o.num)
    BY <1>3, <1>6, <1>14, <1>15, <2>1, ArrayObject
  <2> QED BY <1>6, <2>2
<1>18. RefsTyped' /\ FilesTyped' /\ Sent' = Sent \cup InstalledFds(num)
  BY <1>1, <1>3, <1>16 DEF RefsTyped, FilesTyped, Sent
<1>19. /\ InstalledFds(num) \cap Sent = {} /\ building' = c
       /\ Marked(c) \cap Plain(c) = {}
       /\ Marked(c) \cup Plain(c) = Marked(building) \cup Plain(building) \cup InstalledFds(num)
  BY <1>3, <1>11, <1>16, <1>17
<1> QED BY <1>1, <1>14, <1>17, <1>18, <1>19, GrowStep

\* The buffer of a new transaction holds nothing.
LEMMA StepBegin ==
  ASSUME IInv, Begin
  PROVE  IInv'
<1>1. /\ building = NoBuffer /\ files' = files /\ kept' = kept
      /\ \E node \in Nodes \cup {"none"}, accepts \in BOOLEAN, extra \in ExtraSizes :
           /\ building' = [target_node |-> node, accepts |-> accepts, extra |-> extra,
                           objs |-> <<>>, mem |-> [a \in 0..extra - 1 |-> <<"data", 0>>],
                           sg |-> 0, last |-> 0, min |-> 0]
           /\ refs' = IF node = "none" THEN refs ELSE [refs EXCEPT ![<<node, TRUE>>] = @ + 1]
  BY DEF Begin
<1>2. PICK node \in Nodes \cup {"none"}, accepts \in BOOLEAN, extra \in ExtraSizes :
        /\ building' = [target_node |-> node, accepts |-> accepts, extra |-> extra,
                        objs |-> <<>>, mem |-> [a \in 0..extra - 1 |-> <<"data", 0>>],
                        sg |-> 0, last |-> 0, min |-> 0]
        /\ refs' = IF node = "none" THEN refs ELSE [refs EXCEPT ![<<node, TRUE>>] = @ + 1]
  BY <1>1
<1>3. PICK c : c = building'
  OBVIOUS
<1>4. /\ c \in BufferOf /\ c.objs = <<>> /\ c.last = 0
      /\ \A a \in 0..c.extra - 1 : c.mem[a] = <<"data", 0>>
  <2>1. [a \in 0..extra - 1 |-> <<"data", 0>>] \in [0..extra - 1 -> Cell]
    BY DEF Cell
  <2>2. PICK m \in [0..extra - 1 -> Cell] :
          m = [a \in 0..extra - 1 |-> <<"data", 0>>]
    BY <2>1
  <2>3. <<>> \in Seq(Object)
    OBVIOUS
  <2>4. c = [target_node |-> node, accepts |-> accepts, extra |-> extra,
             objs |-> <<>>, mem |-> m, sg |-> 0, last |-> 0, min |-> 0]
    BY <1>2, <1>3, <2>2
  <2>5. c \in [target_node : Nodes \cup {"none"}, accepts : BOOLEAN, extra : {extra},
               mem : [0..extra - 1 -> Cell], objs : Seq(Object),
               sg : Nat, last : Nat, min : Nat]
    BY <2>3, <2>4
  <2>6. c \in BufferOf
    BY <2>5 DEF BufferOf
  <2>7. c.objs = <<>> /\ c.last = 0 /\ c.extra = extra /\ c.mem = m
    BY <2>4
  <2>8. \A a \in 0..extra - 1 : m[a] = <<"data", 0>>
    BY <2>2
  <2> QED BY <2>6, <2>7, <2>8
<1>5. \A t : OfType(c, t) = {}
  BY <1>4 DEF OfType
<1>6. Ptrs(c) = {} /\ Arrays(c) = {} /\ Fixups(c) = {} /\ Plain(c) = {} /\ Held(c) = {}
  BY <1>5 DEF Ptrs, Arrays, Fixups, Plain, Held
<1>7. Marked(c) = {}
  BY <1>4 DEF Marked
<1>8. BufferOK(c) /\ Behind(c)
  <2>1. OfType(c, "fd") = {}
    BY <1>5
  <2> QED BY <1>4, <1>6, <1>7, <2>1 DEF BufferOK, Behind, Copied, Nested, Stands, OneEach
<1>9. c # NoBuffer
  BY <1>4, BufferFields
<1>10. RefsTyped'
  <2>1. refs \in [Nodes \X BOOLEAN -> Nat]
    BY DEF IInv, Typed
  <2>2. CASE node = "none"
    BY <1>2, <2>1, <2>2 DEF RefsTyped
  <2>3. CASE node # "none"
    <3>1. refs' = [refs EXCEPT ![<<node, TRUE>>] = @ + 1] /\ <<node, TRUE>> \in Nodes \X BOOLEAN
      BY <1>2, <2>3
    <3>2. PICK r \in Nodes \X BOOLEAN : r = <<node, TRUE>>
      BY <3>1
    <3>3. refs' = [refs EXCEPT ![r] = refs[r] + 1] /\ refs[r] + 1 \in Nat
      BY <2>1, <3>1, <3>2
    <3> QED BY <2>1, <3>3 DEF RefsTyped
  <2> QED BY <2>2, <2>3
<1>11. Typed'
  BY <1>1, <1>3, <1>4, <1>10 DEF IInv, Typed, RefsTyped
<1>12. (\A i \in DOMAIN kept : BufferOK(kept[i]))'
  BY <1>1 DEF IInv
<1>13. (BufferOK(building) /\ Behind(building))'
  BY <1>3, <1>8
<1>14. Marked(building)' = {} /\ Plain(building)' = {}
  BY <1>3, <1>6, <1>7
<1>15. Disjoint'
  <2>1. (\A i, j \in DOMAIN kept : i # j => Marked(kept[i]) \cap Marked(kept[j]) = {})'
    BY <1>1 DEF IInv, Disjoint, Marked
  <2> QED BY <1>14, <2>1 DEF Disjoint
<1>16. AllHeld'
  <2>1. Sent = InKept
    BY <1>1 DEF IInv, AllHeld
  <2>2. Sent' = Sent /\ InKept' = InKept
    BY <1>1 DEF Sent, InKept, Marked
  <2> QED BY <1>14, <2>1, <2>2 DEF AllHeld
<1> QED BY <1>11, <1>12, <1>13, <1>15, <1>16 DEF IInv

-----------------------------------------------------------------------------
(* The invariant is inductive: what is undone, delivered and freed. *)

LEMMA AfterRelease ==
  ASSUME FilesTyped, NEW c, NEW end, NEW failed,
         files' = FilesAfter(files, c, end, failed)
  PROVE  FilesTyped' /\ Sent' = Sent \ Closed(c, end, failed)
<1>1. PICK K : K = Closed(c, end, failed)
  OBVIOUS
<1>2. files' = [fd \in Fds |-> IF fd \in K THEN "closed" ELSE files[fd]]
  BY <1>1 DEF FilesAfter
<1>3. FilesTyped'
  BY <1>2 DEF FilesTyped
<1>4. Sent' = Sent \ K
  BY <1>2 DEF Sent
<1> QED BY <1>1, <1>3, <1>4

LEMMA EmptyStep ==
  ASSUME IInv, building # NoBuffer, building' = NoBuffer, kept' = kept, RefsTyped', FilesTyped',
         Sent' = Sent \ (Marked(building) \cup Plain(building))
  PROVE  IInv'
<1>1. Typed'
  BY DEF IInv, Typed, RefsTyped, FilesTyped
<1>2. (\A i \in DOMAIN kept : BufferOK(kept[i]))'
  BY DEF IInv
<1>3. /\ \A i \in DOMAIN kept : Marked(kept[i]) \cap (Marked(building) \cup Plain(building)) = {}
      /\ \A i, j \in DOMAIN kept : i # j => Marked(kept[i]) \cap Marked(kept[j]) = {}
      /\ Sent = InKept \cup (Marked(building) \cup Plain(building))
  BY DEF IInv, Disjoint, AllHeld
<1>4. Disjoint'
  BY <1>3 DEF Disjoint, Marked
<1>5. AllHeld'
  <2>1. InKept \cap (Marked(building) \cup Plain(building)) = {}
    BY <1>3 DEF InKept
  <2>2. Sent' = InKept
    BY <1>3, <2>1
  <2>3. InKept' = InKept
    BY DEF InKept, Marked
  <2> QED BY <2>2, <2>3 DEF AllHeld
<1> QED BY <1>1, <1>2, <1>4, <1>5 DEF IInv

LEMMA StepFails ==
  ASSUME IInv, NEW o \in FailingObjects, Fails(o)
  PROVE  IInv'
<1> DEFINE c == [building EXCEPT !.objs = Append(@, o)]
<1>1. /\ building # NoBuffer /\ building' = NoBuffer /\ kept' = kept
      /\ files' = FilesAfter(files, c, Len(building.objs), TRUE)
      /\ refs' = RefsAfter(c, Len(building.objs))
  BY DEF Fails, FailedAt
<1>2. building \in BufferOf /\ BufferOK(building) /\ FilesTyped /\ RefsTyped
  BY <1>1, Built
<1>3. SameUpTo(building, c) /\ Len(building.objs) \in Nat
  <2>1. SameUpTo(building, c)
    BY <1>2, SameOrLonger, Zenon
  <2>2. Len(building.objs) \in Nat
    BY <1>2, BufferFields
  <2> QED BY <2>1, <2>2
<1> HIDE DEF c
<1>4. Closed(c, Len(building.objs), TRUE) = Marked(building) \cup Plain(building)
  BY <1>2, <1>3, WhatIsClosed
<1>5. FilesTyped' /\ Sent' = Sent \ (Marked(building) \cup Plain(building))
  BY <1>1, <1>2, <1>4, AfterRelease
<1>6. RefsTyped'
  BY <1>1, <1>2, <1>3, RefsStayCounts DEF RefsTyped
<1> QED BY <1>1, <1>5, <1>6, EmptyStep

LEMMA StepArrayFails ==
  ASSUME IInv, NEW num, NEW p, NEW offset, NEW n, FdArrayFails(num, p, offset, n)
  PROVE  IInv'
<1>1. /\ building # NoBuffer /\ building' = NoBuffer /\ kept' = kept
      /\ files' = FilesAfter([fd \in Fds |-> IF fd \in InstalledFds(n) \ ClosedAgain(n)
                                             THEN "sent" ELSE files[fd]],
                             building, Len(building.objs), TRUE)
      /\ refs' = RefsAfter(building, Len(building.objs))
  BY DEF FdArrayFails, ArrayIsValid, Translating, FailedAt
<1>2. building \in BufferOf /\ BufferOK(building) /\ FilesTyped /\ RefsTyped
  BY <1>1, Built
<1>3. SameUpTo(building, building) /\ Len(building.objs) \in Nat
  BY <1>2, SameOrLonger, BufferFields
<1>4. files' = FilesAfter(files, building, Len(building.objs), TRUE)
  <2>1. InstalledFds(n) \ ClosedAgain(n) = {}
    BY DEF ClosedAgain
  <2>2. [fd \in Fds |-> IF fd \in InstalledFds(n) \ ClosedAgain(n) THEN "sent" ELSE files[fd]]
          = files
    BY <1>2, <2>1 DEF FilesTyped
  <2> QED BY <1>1, <2>2
<1>5. Closed(building, Len(building.objs), TRUE) = Marked(building) \cup Plain(building)
  BY <1>2, <1>3, WhatIsClosed
<1>6. FilesTyped' /\ Sent' = Sent \ (Marked(building) \cup Plain(building))
  BY <1>2, <1>4, <1>5, AfterRelease
<1>7. RefsTyped'
  BY <1>1, <1>2, <1>3, RefsStayCounts DEF RefsTyped
<1> QED BY <1>1, <1>6, <1>7, EmptyStep

OneLonger(S, t, x, k, n) ==
  /\ k \in Seq(S) /\ n \in Nat
  /\ DOMAIN k = DOMAIN t \cup {n} /\ n \notin DOMAIN t
  /\ k[n] = x /\ \A i \in DOMAIN t : k[i] = t[i]

LEMMA LongerList ==
  ASSUME NEW S, NEW t \in Seq(S), NEW x \in S, NEW k, k = Append(t, x), NEW n, n = Len(t) + 1
  PROVE  OneLonger(S, t, x, k, n)
BY DEF OneLonger

LEMMA StepDeliver ==
  ASSUME IInv, Deliver
  PROVE  IInv'
<1>1. /\ building # NoBuffer /\ building' = NoBuffer /\ kept' = Append(kept, building)
      /\ refs' = refs
      /\ files' = [fd \in Fds |-> IF \E i \in OfType(building, "fd") : building.objs[i].fd = fd
                                  THEN "own" ELSE files[fd]]
  BY DEF Deliver
<1>2. /\ building \in BufferOf /\ BufferOK(building) /\ FilesTyped /\ RefsTyped
      /\ Marked(building) \cap Plain(building) = {}
  BY <1>1, Built
<1>3. /\ \A i \in DOMAIN kept : Marked(kept[i]) \cap (Marked(building) \cup Plain(building)) = {}
      /\ \A i, j \in DOMAIN kept : i # j => Marked(kept[i]) \cap Marked(kept[j]) = {}
      /\ Sent = InKept \cup (Marked(building) \cup Plain(building))
      /\ \A i \in DOMAIN kept : BufferOK(kept[i])
      /\ kept \in Seq(BufferOf)
  BY <1>1 DEF IInv, Typed, Disjoint, AllHeld
<1>4. PICK k : k = Append(kept, building) /\ k = kept'
  BY <1>1
<1>5. PICK n : n = Len(kept) + 1
  OBVIOUS
<1>6. /\ k \in Seq(BufferOf) /\ n \in Nat
      /\ DOMAIN k = DOMAIN kept \cup {n} /\ n \notin DOMAIN kept
      /\ k[n] = building /\ \A i \in DOMAIN kept : k[i] = kept[i]
  <2>1. kept \in Seq(BufferOf) /\ building \in BufferOf /\ k = Append(kept, building)
    BY <1>2, <1>3, <1>4
  <2>2. OneLonger(BufferOf, kept, building, k, n)
    BY <1>5, <2>1, LongerList
  <2> QED BY <2>2 DEF OneLonger
<1>7. \A fd \in Fds : files'[fd] = IF fd \in Plain(building) THEN "own" ELSE files[fd]
  BY <1>1 DEF Plain
<1>8. FilesTyped'
  BY <1>1, <1>2 DEF FilesTyped
<1>9. Sent' = Sent \ Plain(building)
  BY <1>7 DEF Sent
<1>10. Typed'
  BY <1>1, <1>2, <1>4, <1>6, <1>8 DEF Typed, FilesTyped, RefsTyped
<1>11. \A i \in DOMAIN k : BufferOK(k[i])
  BY <1>2, <1>3, <1>6
<1>12. (\A i \in DOMAIN kept : BufferOK(kept[i]))'
  BY <1>4, <1>11
<1>13. \A i, j \in DOMAIN k : i # j => Marked(k[i]) \cap Marked(k[j]) = {}
  BY <1>3, <1>6
<1>14. Disjoint'
  <2>1. (\A i, j \in DOMAIN kept : i # j => Marked(kept[i]) \cap Marked(kept[j]) = {})'
    BY <1>4, <1>13 DEF Marked
  <2> QED BY <1>1, <2>1 DEF Disjoint
<1>15. Sent' = UNION {Marked(k[i]) : i \in DOMAIN k}
  <2>1. \A fd : fd \in Sent' <=> \E i \in DOMAIN k : fd \in Marked(k[i])
    <3>1. TAKE fd
    <3>2. fd \in InKept <=> \E i \in DOMAIN kept : fd \in Marked(kept[i])
      BY DEF InKept
    <3>3. fd \in Sent' <=> (fd \in InKept \/ fd \in Marked(building)) /\ fd \notin Plain(building)
      BY <1>3, <1>9
    <3>4. (\E i \in DOMAIN k : fd \in Marked(k[i]))
            <=> (\E i \in DOMAIN kept : fd \in Marked(kept[i])) \/ fd \in Marked(building)
      BY <1>6
    <3> QED BY <1>2, <1>3, <3>2, <3>3, <3>4
  <2> QED BY <2>1
<1>16. AllHeld'
  <2>1. InKept' = UNION {Marked(k[i]) : i \in DOMAIN k}
    BY <1>4 DEF InKept, Marked
  <2> QED BY <1>1, <1>15, <2>1 DEF AllHeld
<1> QED BY <1>1, <1>10, <1>12, <1>14, <1>16 DEF IInv

\* The place of the j-th element before the i-th was removed.
Was(i, j) == IF j < i THEN j ELSE j + 1

LEMMA MovesUp ==
  ASSUME NEW n \in Nat, NEW i \in 1..n
  PROVE  /\ \A j \in 1..n - 1 : Was(i, j) \in 1..n /\ Was(i, j) # i
         /\ \A j, l \in 1..n - 1 : j # l => Was(i, j) # Was(i, l)
         /\ \A h \in 1..n : h # i => \E j \in 1..n - 1 : Was(i, j) = h
<1>1. \A j \in 1..n - 1 : Was(i, j) \in 1..n /\ Was(i, j) # i
  BY DEF Was
<1>2. \A j, l \in 1..n - 1 : j # l => Was(i, j) # Was(i, l)
  BY DEF Was
<1>3. ASSUME NEW h \in 1..n, h # i PROVE \E j \in 1..n - 1 : Was(i, j) = h
  <2>1. CASE h < i
    BY <2>1 DEF Was
  <2>2. CASE h > i
    <3>1. h - 1 \in 1..n - 1 /\ ~ (h - 1 < i) /\ (h - 1) + 1 = h
      BY <2>2
    <3> QED BY <3>1 DEF Was
  <2> QED BY <1>3, <2>1, <2>2
<1> QED BY <1>1, <1>2, <1>3

OneShorter(S, t, i, k) ==
  /\ k \in Seq(S) /\ DOMAIN k = 1..Len(t) - 1 /\ Len(t) \in Nat /\ DOMAIN t = 1..Len(t)
  /\ \A j \in DOMAIN k : k[j] = t[Was(i, j)]

LEMMA ShorterList ==
  ASSUME NEW S, NEW t \in Seq(S), NEW i \in DOMAIN t, NEW k, k = RemoveAt(t, i)
  PROVE  OneShorter(S, t, i, k)
<1>1. PICK n \in Nat : n = Len(t) /\ DOMAIN t = 1..n
  OBVIOUS
<1>2. PICK u, v : u = SubSeq(t, 1, i - 1) /\ v = SubSeq(t, i + 1, n) /\ k = u \o v
  BY <1>1 DEF RemoveAt
<1>3. i \in 1..n
  BY <1>1
<1>4. u \in Seq(S) /\ Len(u) = i - 1 /\ \A j \in 1..i - 1 : u[j] = t[j]
  BY <1>1, <1>2, <1>3
<1>5. v \in Seq(S) /\ Len(v) = n - i /\ \A j \in 1..n - i : v[j] = t[i + j]
  <2>1. v \in Seq(S)
    BY <1>1, <1>2, <1>3
  <2>2. Len(v) = n - i
    BY <1>1, <1>2, <1>3
  <2>3. \A j \in 1..n - i : v[j] = t[(i + 1) + j - 1]
    <3>1. \A j \in i + 1..n : t[j] \in S
      BY <1>1, <1>3
    <3>2. i + 1 \in Int /\ n \in Int /\ n - (i + 1) + 1 = n - i
      BY <1>1, <1>3
    <3>3. \A j \in 1..n - (i + 1) + 1 : SubSeq(t, i + 1, n)[j] = t[(i + 1) + j - 1]
      BY <3>1, <3>2, SubSeqProperties
    <3> QED BY <1>2, <3>2, <3>3
  <2>4. \A j \in 1..n - i : (i + 1) + j - 1 = i + j
    BY <1>3
  <2> QED BY <2>1, <2>2, <2>3, <2>4
<1>6. /\ k \in Seq(S) /\ DOMAIN k = 1..n - 1
      /\ \A j \in 1..n - 1 : k[j] = IF j <= i - 1 THEN u[j] ELSE v[j - (i - 1)]
  <2>1. /\ u \o v \in Seq(S) /\ Len(u \o v) = Len(u) + Len(v)
        /\ \A j \in 1..Len(u) + Len(v) :
             (u \o v)[j] = IF j <= Len(u) THEN u[j] ELSE v[j - Len(u)]
    BY <1>4, <1>5, ConcatProperties
  <2>2. Len(u) + Len(v) = n - 1
    <3>1. Len(u) = i - 1 /\ Len(v) = n - i
      BY <1>4, <1>5, Zenon
    <3>2. (i - 1) + (n - i) = n - 1
      BY <1>3
    <3> QED BY <3>1, <3>2, Zenon
  <2>3. k \in Seq(S) /\ Len(k) = n - 1
    <3>1. k \in Seq(S) /\ Len(k) = Len(u) + Len(v)
      BY <1>2, <2>1, Zenon
    <3> QED BY <2>2, <3>1
  <2>4. k \in Seq(S) /\ DOMAIN k = 1..n - 1
    BY <2>3
  <2>5. \A j \in 1..n - 1 : k[j] = IF j <= i - 1 THEN u[j] ELSE v[j - (i - 1)]
    BY <1>2, <1>4, <2>1, <2>2
  <2> QED BY <2>4, <2>5
<1>7. ASSUME NEW j \in 1..n - 1 PROVE k[j] = t[Was(i, j)]
  <2>1. CASE j < i
    <3>1. j \in 1..i - 1 /\ k[j] = u[j]
      BY <1>3, <1>6, <2>1
    <3> QED BY <1>4, <2>1, <3>1 DEF Was
  <2>2. CASE ~ (j < i)
    <3>1. j - (i - 1) \in 1..n - i /\ k[j] = v[j - (i - 1)]
      BY <1>3, <1>6, <2>2
    <3>2. i + (j - (i - 1)) = j + 1
      BY <1>3
    <3> QED BY <1>5, <2>2, <3>1, <3>2 DEF Was
  <2> QED BY <2>1, <2>2
<1> QED BY <1>1, <1>6, <1>7 DEF OneShorter

LEMMA StepFrees ==
  ASSUME IInv, NEW i \in DOMAIN kept, UserFrees(i)
  PROVE  IInv'
<1>1. /\ building = NoBuffer /\ building' = NoBuffer
      /\ files' = FilesAfter(files, kept[i], Len(kept[i].objs), FALSE)
      /\ refs' = RefsAfter(kept[i], Len(kept[i].objs))
      /\ kept' = RemoveAt(kept, i)
  BY DEF UserFrees
<1>2. /\ \A j, l \in DOMAIN kept : j # l => Marked(kept[j]) \cap Marked(kept[l]) = {}
      /\ Sent = InKept
      /\ \A j \in DOMAIN kept : BufferOK(kept[j])
      /\ kept \in Seq(BufferOf)
      /\ FilesTyped /\ RefsTyped
  BY <1>1 DEF IInv, Typed, Disjoint, AllHeld, FilesTyped, RefsTyped
<1>3. PICK b : b = kept[i] /\ b \in BufferOf /\ BufferOK(b)
  BY <1>2
<1>4. SameUpTo(b, b) /\ Len(b.objs) \in Nat
  <2>1. SameUpTo(b, b)
    BY <1>3, SameOrLonger
  <2>2. Len(b.objs) \in Nat
    BY <1>3, BufferFields
  <2> QED BY <2>1, <2>2
<1>5. Closed(b, Len(b.objs), FALSE) = Marked(b)
  BY <1>3, <1>4, WhatIsClosed
<1>6. FilesTyped' /\ Sent' = Sent \ Marked(b)
  BY <1>1, <1>2, <1>3, <1>5, AfterRelease
<1>7. RefsTyped'
  BY <1>1, <1>2, <1>3, <1>4, RefsStayCounts DEF RefsTyped
<1>8. PICK k : k = kept' /\ k = RemoveAt(kept, i)
  BY <1>1
<1>9. /\ k \in Seq(BufferOf) /\ DOMAIN k = 1..Len(kept) - 1
      /\ Len(kept) \in Nat /\ DOMAIN kept = 1..Len(kept)
      /\ \A j \in DOMAIN k : k[j] = kept[Was(i, j)]
  <2>1. OneShorter(BufferOf, kept, i, k)
    BY <1>2, <1>8, ShorterList
  <2> QED BY <2>1 DEF OneShorter
<1>10. /\ \A j \in DOMAIN k : Was(i, j) \in DOMAIN kept /\ Was(i, j) # i
       /\ \A j, l \in DOMAIN k : j # l => Was(i, j) # Was(i, l)
       /\ \A h \in DOMAIN kept : h # i => \E j \in DOMAIN k : Was(i, j) = h
  <2>1. PICK n \in Nat : n = Len(kept) /\ DOMAIN kept = 1..n /\ DOMAIN k = 1..n - 1 /\ i \in 1..n
    BY <1>9
  <2>2. /\ \A j \in 1..n - 1 : Was(i, j) \in 1..n /\ Was(i, j) # i
        /\ \A j, l \in 1..n - 1 : j # l => Was(i, j) # Was(i, l)
        /\ \A h \in 1..n : h # i => \E j \in 1..n - 1 : Was(i, j) = h
    BY <2>1, MovesUp
  <2> QED BY <2>1, <2>2
<1>11. Typed'
  BY <1>1, <1>6, <1>7, <1>8, <1>9 DEF Typed, FilesTyped, RefsTyped
<1>12. (\A j \in DOMAIN kept : BufferOK(kept[j]))'
  <2>1. \A j \in DOMAIN k : BufferOK(k[j])
    BY <1>2, <1>9, <1>10
  <2> QED BY <1>8, <2>1
<1>13. Disjoint'
  <2>1. \A j, l \in DOMAIN k : j # l => Marked(k[j]) \cap Marked(k[l]) = {}
    BY <1>2, <1>9, <1>10
  <2>2. (\A j, l \in DOMAIN kept : j # l => Marked(kept[j]) \cap Marked(kept[l]) = {})'
    BY <1>8, <2>1 DEF Marked
  <2> QED BY <1>1, <2>2 DEF Disjoint
<1>14. Sent' = UNION {Marked(k[j]) : j \in DOMAIN k}
  <2>1. \A fd : fd \in Sent' <=> \E j \in DOMAIN k : fd \in Marked(k[j])
    <3>1. TAKE fd
    <3>2. fd \in InKept <=> \E j \in DOMAIN kept : fd \in Marked(kept[j])
      BY DEF InKept
    <3>3. fd \in Sent' <=> fd \in InKept /\ fd \notin Marked(b)
      BY <1>2, <1>6
    <3>4. (\E j \in DOMAIN k : fd \in Marked(k[j]))
            <=> \E h \in DOMAIN kept : h # i /\ fd \in Marked(kept[h])
      BY <1>9, <1>10
    <3>5. \A h \in DOMAIN kept : h # i => Marked(kept[h]) \cap Marked(b) = {}
      BY <1>2, <1>3
    <3> QED BY <1>3, <3>2, <3>3, <3>4, <3>5
  <2> QED BY <2>1
<1>15. AllHeld'
  <2>1. InKept' = UNION {Marked(k[j]) : j \in DOMAIN k}
    BY <1>8 DEF InKept, Marked
  <2> QED BY <1>1, <1>14, <2>1 DEF AllHeld
<1> QED BY <1>1, <1>11, <1>12, <1>13, <1>15 DEF IInv

\* Steps of the target's own program, which touch no descriptor that was sent.
LEMMA OtherStep ==
  ASSUME IInv, building' = building, kept' = kept, refs' = refs, FilesTyped', Sent' = Sent
  PROVE  IInv'
<1>1. Typed'
  BY DEF IInv, Typed, FilesTyped
<1>2. (\A i \in DOMAIN kept : BufferOK(kept[i]))'
  BY DEF IInv
<1>3. (building # NoBuffer => BufferOK(building) /\ Behind(building))'
  <2>1. (BufferOK(building) /\ Behind(building))' <=> (BufferOK(building) /\ Behind(building))
    BY DEF BufferOK, Behind, Copied, Nested, Stands, PointerStands, ArrayStands, Marked, Held,
           OneEach, ArrayFds, Lineage, UpFrom, GoesUp, Ptrs, Arrays, Fixups, OfType, Base, Slot
  <2> QED BY <2>1 DEF IInv
<1>4. Disjoint'
  BY DEF IInv, Disjoint, Marked, Plain, OfType
<1>5. AllHeld'
  <2>1. /\ InKept' = InKept /\ Marked(building)' = Marked(building)
        /\ Plain(building)' = Plain(building)
    BY DEF InKept, Marked, Plain, OfType
  <2> QED BY <2>1 DEF IInv, AllHeld
<1> QED BY <1>1, <1>2, <1>3, <1>4, <1>5 DEF IInv

LEMMA StepTarget ==
  ASSUME IInv, TargetOpens \/ \E fd \in Fds : TargetCloses(fd)
  PROVE  IInv'
<1>1. FilesTyped
  BY DEF IInv, Typed, FilesTyped
<1>2. CASE TargetOpens
  <2>1. PICK fd : fd = UnusedFd(1) /\ fd \in Fds /\ fd \notin Sent
    BY <1>1, <1>2, FreeDescriptors DEF TargetOpens
  <2>2. FilesTyped' /\ Sent' = Sent
    BY <1>1, <1>2, <2>1 DEF TargetOpens, FilesTyped, Sent
  <2> QED BY <1>2, <2>2, OtherStep DEF TargetOpens
<1>3. ASSUME NEW fd \in Fds, TargetCloses(fd) PROVE IInv'
  <2>1. FilesTyped' /\ Sent' = Sent
    BY <1>1, <1>3 DEF TargetCloses, FilesTyped, Sent
  <2> QED BY <1>3, <2>1, OtherStep DEF TargetCloses
<1> QED BY <1>2, <1>3

-----------------------------------------------------------------------------
(* The theorems. *)

LEMMA Initially ==
  ASSUME Init
  PROVE  IInv
<1>1. /\ files = [fd \in Fds |-> "closed"] /\ refs = [r \in Nodes \X BOOLEAN |-> 0]
      /\ building = NoBuffer /\ kept = <<>>
  BY DEF Init
<1>2. Typed
  BY <1>1 DEF Typed
<1>3. Sent = {} /\ InKept = {}
  BY <1>1 DEF Sent, InKept
<1> QED BY <1>1, <1>2, <1>3 DEF IInv, Disjoint, AllHeld

LEMMA Inductive ==
  ASSUME IInv, [Next]_vars
  PROVE  IInv'
<1>1. CASE Begin
  BY <1>1, StepBegin
<1>2. CASE TranslateFd
  BY <1>2, StepFd
<1>3. CASE Deliver
  BY <1>3, StepDeliver
<1>4. CASE TargetOpens \/ \E fd \in Fds : TargetCloses(fd)
  BY <1>4, StepTarget
<1>5. ASSUME NEW n \in Nodes, NEW strong \in BOOLEAN, TranslateFlat(n, strong) PROVE IInv'
  BY <1>5, StepFlat
<1>6. ASSUME NEW p \in 0..MaxObjects, NEW offset \in Offsets, NEW length \in Lengths,
             TranslatePtr(length, p, offset)
      PROVE  IInv'
  BY <1>6, StepPtr
<1>7. ASSUME NEW p \in 0..MaxObjects, NEW offset \in Offsets, NEW num \in Counts,
             TranslateFdArray(num, p, offset)
      PROVE  IInv'
  BY <1>7, StepArray
<1>8. ASSUME NEW p, NEW offset, NEW num, NEW n, FdArrayFails(num, p, offset, n)
      PROVE  IInv'
  BY <1>8, StepArrayFails
<1>9. ASSUME NEW o \in FailingObjects, Fails(o) PROVE IInv'
  BY <1>9, StepFails
<1>10. ASSUME NEW i \in DOMAIN kept, UserFrees(i) PROVE IInv'
  BY <1>10, StepFrees
<1>11. CASE UNCHANGED vars
  <2>1. building' = building /\ kept' = kept /\ refs' = refs /\ files' = files
    BY <1>11 DEF vars
  <2>2. FilesTyped' /\ Sent' = Sent
    BY <2>1 DEF FilesTyped, Sent, IInv, Typed
  <2> QED BY <2>1, <2>2, OtherStep
<1> QED BY <1>1, <1>2, <1>3, <1>4, <1>5, <1>6, <1>7, <1>8, <1>9, <1>10, <1>11 DEF Next

LEMMA Invariant == Spec => []IInv
<1>1. Init => IInv
  BY Initially
<1>2. IInv /\ [Next]_vars => IInv'
  BY Inductive
<1> QED BY <1>1, <1>2, PTL DEF Spec

\* Each variable holds what the driver's structure may hold: counts that never
\* go below zero, and buffers whose extra area and objects are well formed.
THEOREM TypeCorrect == Spec => []TypeOK
<1>1. IInv => TypeOK
  <2>1. SUFFICES ASSUME IInv PROVE TypeOK
    OBVIOUS
  <2>2. \A b \in BufferOf : IsBuffer(b)
    BY BufferFields DEF IsBuffer
  <2>3. /\ files \in [Fds -> {"closed", "own", "sent"}]
        /\ refs \in [Nodes \X BOOLEAN -> Nat]
        /\ building \in BufferOf \cup {NoBuffer} /\ kept \in Seq(BufferOf)
    BY <2>1 DEF IInv, Typed
  <2>4. \A i \in DOMAIN kept : kept[i] \in BufferOf
    BY <2>3
  <2> QED BY <2>2, <2>3, <2>4 DEF TypeOK
<1> QED BY <1>1, Invariant, PTL

\* The buffers of the properties are those of the invariant.
LEMMA TheBuffers ==
  ASSUME IInv
  PROVE  /\ \A i \in DOMAIN Buffers :
              /\ Buffers[i] \in BufferOf /\ BufferOK(Buffers[i])
              /\ \/ i \in DOMAIN kept /\ Buffers[i] = kept[i] /\ ~ IsBuilt(i)
                 \/ building # NoBuffer /\ Buffers[i] = building /\ IsBuilt(i)
         /\ \A i \in DOMAIN kept : i \in DOMAIN Buffers /\ Buffers[i] = kept[i]
         /\ building # NoBuffer => \E i \in DOMAIN Buffers : Buffers[i] = building /\ IsBuilt(i)
<1>1. /\ kept \in Seq(BufferOf) /\ \A i \in DOMAIN kept : BufferOK(kept[i]) /\ ~ IsBuilt(i)
      /\ building # NoBuffer => building \in BufferOf /\ BufferOK(building)
  BY DEF IInv, Typed, IsBuilt
<1>2. CASE building = NoBuffer
  <2>1. Buffers = kept
    BY <1>1, <1>2, ConcatEmptySeq DEF Buffers
  <2> QED BY <1>1, <1>2, <2>1
<1>3. CASE building # NoBuffer
  <2>1. PICK n, k : n = Len(kept) + 1 /\ k = Append(kept, building)
    OBVIOUS
  <2>2. OneLonger(BufferOf, kept, building, k, n)
    BY <1>1, <1>3, <2>1, LongerList
  <2>3. Buffers = k
    BY <1>1, <1>3, <2>1, AppendIsConcat DEF Buffers
  <2>4. IsBuilt(n)
    BY <1>1, <2>1 DEF IsBuilt
  <2> QED BY <1>1, <1>3, <2>2, <2>3, <2>4 DEF OneLonger
<1> QED BY <1>2, <1>3

LEMMA ArrayHoldsAll ==
  ASSUME NEW b, NEW o, o.num \in Nat, ArrayStands(b, o)
  PROVE  Cardinality(ArrayFds(b, o)) = o.num
<1> DEFINE val(k) == b.mem[Base(b, o) + FdSize * k]
           g == [k \in 0..o.num - 1 |-> CHOOSE fd \in Fds : val(k) = <<"fd", fd>>]
<1>1. /\ \A k \in 0..o.num - 1 : \E fd \in Fds : val(k) = <<"fd", fd>>
      /\ \A k, l \in 0..o.num - 1 : val(k) = val(l) => k = l
  BY DEF ArrayStands
<1>2. ArrayFds(b, o) = {fd \in Fds : \E k \in 0..o.num - 1 : val(k) = <<"fd", fd>>}
  BY DEF ArrayFds, Base
<1> HIDE DEF val
<1>3. \A k \in 0..o.num - 1 : g[k] \in Fds /\ val(k) = <<"fd", g[k]>>
  BY <1>1
<1>4. DOMAIN g = 0..o.num - 1
  OBVIOUS
<1> HIDE DEF g
<1>5. g \in [0..o.num - 1 -> ArrayFds(b, o)]
  <2>1. \A k \in 0..o.num - 1 : g[k] \in ArrayFds(b, o)
    BY <1>2, <1>3
  <2>2. g = [k \in 0..o.num - 1 |-> g[k]]
    BY <1>4 DEF g
  <2> QED BY <2>1, <2>2
<1>6. g \in Injection(0..o.num - 1, ArrayFds(b, o))
  BY <1>1, <1>3, <1>5 DEF Injection, IsInjective
<1>7. g \in Surjection(0..o.num - 1, ArrayFds(b, o))
  <2>1. ASSUME NEW fd \in ArrayFds(b, o) PROVE \E k \in 0..o.num - 1 : g[k] = fd
    <3>1. PICK k \in 0..o.num - 1 : val(k) = <<"fd", fd>>
      BY <1>2
    <3> QED BY <1>3, <3>1
  <2> QED BY <1>5, <2>1 DEF Surjection
<1>8. IsFiniteSet(0..o.num - 1) /\ Cardinality(0..o.num - 1) = o.num
  <2>1. PICK n \in Nat : n = o.num
    OBVIOUS
  <2>2. 0 \in Int /\ n - 1 \in Int
    OBVIOUS
  <2>3. /\ IsFiniteSet(0..n - 1)
        /\ Cardinality(0..n - 1) = IF 0 > n - 1 THEN 0 ELSE (n - 1) - 0 + 1
    BY <2>2, FS_Interval
  <2>4. (IF 0 > n - 1 THEN 0 ELSE (n - 1) - 0 + 1) = n
    OBVIOUS
  <2> QED BY <2>1, <2>3, <2>4
<1> QED BY <1>6, <1>7, <1>8, FS_Surjection

\* Whatever objects a transaction carries and wherever the sender says that
\* they go: the copies of its buffer objects never overlap, each place for an
\* address holds that address, and each array as many descriptors as it should.
THEOREM FixupsAlwaysStand == Spec => []FixupsStand
<1>1. ASSUME NEW b \in BufferOf, BufferOK(b), NEW i \in OfType(b, "ptr")
      PROVE  /\ b.objs[i].buffer + b.objs[i].length <= b.extra
             /\ \A j \in OfType(b, "ptr") :
                  i < j => b.objs[i].buffer + b.objs[i].length <= b.objs[j].buffer
             /\ b.objs[i].parent # 0 =>
                  \A a \in Slot(b, b.objs[i].parent, b.objs[i].offset, PtrSize) :
                    b.mem[a] = <<"ptr", b.objs[i].buffer>>
  <2>1. i \in Ptrs(b) /\ Ptrs(b) = OfType(b, "ptr") /\ b.objs[i].type = "ptr"
    BY Kinds DEF Ptrs
  <2>2. b.objs[i].parent # 0 => PointerStands(b, b.objs[i])
    BY <1>1, <2>1 DEF BufferOK, Stands, Fixups
  <2> QED BY <1>1, <2>1, <2>2 DEF BufferOK, Copied, PointerStands
<1>2. ASSUME NEW b \in BufferOf, BufferOK(b), NEW i \in OfType(b, "fda")
      PROVE  Cardinality(ArrayFds(b, b.objs[i])) = b.objs[i].num
  <2>1. i \in Arrays(b) /\ b.objs[i] \in Object /\ b.objs[i].type = "fda"
    BY Kinds DEF Arrays
  <2>2. ArrayStands(b, b.objs[i])
    BY <1>2, <2>1 DEF BufferOK, Stands, Fixups
  <2>3. b.objs[i].num \in Nat
    BY <2>1, ArrayFields
  <2> QED BY <2>2, <2>3, ArrayHoldsAll
<1>3. IInv => FixupsStand
  <2>1. SUFFICES ASSUME IInv PROVE FixupsStand
    OBVIOUS
  <2>2. \A b \in Range(Buffers) : b \in BufferOf /\ BufferOK(b)
    BY <2>1, TheBuffers DEF Range
  <2> QED BY <1>1, <1>2, <2>2 DEF FixupsStand
<1> QED BY <1>3, Invariant, PTL

KeepsOwnFiles ==
  \A fd \in Fds : files[fd] = "own" /\ files'[fd] # "own" => building' = building /\ kept' = kept

LEMMA OwnFilesInAStep ==
  ASSUME IInv, [Next]_vars
  PROVE  KeepsOwnFiles
<1>1. FilesTyped
  BY DEF IInv, Typed, FilesTyped
<1>2. ASSUME NEW fd \in Fds, files[fd] = "own"
      PROVE  /\ building # NoBuffer => fd \notin Marked(building) \cup Plain(building)
             /\ \A i \in DOMAIN kept : fd \notin Marked(kept[i])
             /\ fd \notin Unused
  <2>1. fd \notin Sent /\ fd \notin Unused
    BY <1>2 DEF Sent, Unused
  <2>2. Sent = InKept \cup IF building = NoBuffer THEN {} ELSE Marked(building) \cup Plain(building)
    BY <1>1 DEF IInv, AllHeld
  <2> QED BY <2>1, <2>2 DEF InKept
<1>3. ASSUME NEW c, NEW end, NEW failed, files' = FilesAfter(files, c, end, failed),
             \A fd \in Fds : files[fd] = "own" => fd \notin Closed(c, end, failed)
      PROVE  KeepsOwnFiles
  <2>1. PICK K : K = Closed(c, end, failed)
    OBVIOUS
  <2>2. files' = [fd \in Fds |-> IF fd \in K THEN "closed" ELSE files[fd]]
    BY <1>3, <2>1 DEF FilesAfter
  <2>3. \A fd \in Fds : files[fd] = "own" => fd \notin K
    BY <1>3, <2>1
  <2> QED BY <2>2, <2>3 DEF KeepsOwnFiles
<1>4. ASSUME UNCHANGED files \/ UNCHANGED <<building, kept>> PROVE KeepsOwnFiles
  BY <1>4 DEF KeepsOwnFiles
<1>5. CASE TranslateFd
  <2>1. PICK g : g = UnusedFd(1) /\ files' = [files EXCEPT ![g] = "sent"] /\ Unused # {}
    BY <1>5 DEF TranslateFd
  <2>2. g \in Unused
    <3>1. 1 \in 1..Cardinality(Unused)
      BY <1>1, <2>1, FreeDescriptors
    <3> QED BY <2>1, <3>1, UnusedFds
  <2>3. \A fd \in Fds : files[fd] = "own" => fd # g
    BY <1>2, <2>2
  <2> QED BY <1>1, <2>1, <2>3 DEF FilesTyped, KeepsOwnFiles
<1>6. ASSUME NEW num \in Counts, NEW p, NEW offset, TranslateFdArray(num, p, offset)
      PROVE  KeepsOwnFiles
  <2>1. /\ files' = [fd \in Fds |-> IF fd \in InstalledFds(num) THEN "sent" ELSE files[fd]]
        /\ num <= Cardinality(Unused)
    BY <1>6 DEF TranslateFdArray
  <2>2. InstalledFds(num) \subseteq Unused
    <3>1. num \in Nat /\ Cardinality(Unused) \in Nat
      BY Sizes, UnusedFds
    <3>2. \A i \in 1..num : i \in 1..Cardinality(Unused)
      BY <2>1, <3>1
    <3> QED BY <3>2, UnusedFds DEF InstalledFds
  <2>3. \A fd \in Fds : files[fd] = "own" => fd \notin InstalledFds(num)
    BY <1>2, <2>2
  <2> QED BY <2>1, <2>3 DEF KeepsOwnFiles
<1>7. ASSUME NEW o, Fails(o) PROVE KeepsOwnFiles
  <2> DEFINE c == [building EXCEPT !.objs = Append(@, o)]
  <2>1. building # NoBuffer /\ files' = FilesAfter(files, c, Len(building.objs), TRUE)
    BY <1>7 DEF Fails, FailedAt
  <2>2. building \in BufferOf /\ BufferOK(building)
    BY <1>1, <2>1, Built
  <2>3. SameUpTo(building, c)
    BY <2>2, SameOrLonger, Zenon
  <2> HIDE DEF c
  <2>4. Closed(c, Len(building.objs), TRUE) = Marked(building) \cup Plain(building)
    BY <2>2, <2>3, WhatIsClosed
  <2>5. \A fd \in Fds : files[fd] = "own" => fd \notin Closed(c, Len(building.objs), TRUE)
    BY <1>2, <2>1, <2>4
  <2> QED BY <1>3, <2>1, <2>5
<1>8. ASSUME NEW num, NEW p, NEW offset, NEW n, FdArrayFails(num, p, offset, n) PROVE KeepsOwnFiles
  <2>1. /\ building # NoBuffer
        /\ files' = FilesAfter([fd \in Fds |-> IF fd \in InstalledFds(n) \ ClosedAgain(n)
                                               THEN "sent" ELSE files[fd]],
                               building, Len(building.objs), TRUE)
    BY <1>8 DEF FdArrayFails, ArrayIsValid, Translating, FailedAt
  <2>2. building \in BufferOf /\ BufferOK(building)
    BY <1>1, <2>1, Built
  <2>3. [fd \in Fds |-> IF fd \in InstalledFds(n) \ ClosedAgain(n) THEN "sent" ELSE files[fd]]
          = files
    BY <1>1 DEF FilesTyped, ClosedAgain
  <2>4. files' = FilesAfter(files, building, Len(building.objs), TRUE)
    BY <2>1, <2>3
  <2>5. SameUpTo(building, building)
    BY <2>2, SameOrLonger
  <2>6. Closed(building, Len(building.objs), TRUE) = Marked(building) \cup Plain(building)
    BY <2>2, <2>5, WhatIsClosed
  <2>7. \A fd \in Fds : files[fd] = "own" => fd \notin Closed(building, Len(building.objs), TRUE)
    BY <1>2, <2>1, <2>6
  <2> QED BY <1>3, <2>4, <2>7
<1>9. CASE Deliver
  BY <1>9 DEF Deliver, KeepsOwnFiles
<1>10. ASSUME NEW i \in DOMAIN kept, UserFrees(i) PROVE KeepsOwnFiles
  <2>1. files' = FilesAfter(files, kept[i], Len(kept[i].objs), FALSE)
    BY <1>10 DEF UserFrees
  <2>2. PICK b : b = kept[i] /\ b \in BufferOf /\ BufferOK(b)
    BY <1>1 DEF IInv, Typed
  <2>3. SameUpTo(b, b)
    BY <2>2, SameOrLonger
  <2>4. Closed(b, Len(b.objs), FALSE) = Marked(b)
    BY <2>2, <2>3, WhatIsClosed
  <2>5. \A fd \in Fds : files[fd] = "own" => fd \notin Closed(b, Len(b.objs), FALSE)
    BY <1>2, <2>2, <2>4
  <2>6. files' = FilesAfter(files, b, Len(b.objs), FALSE)
    BY <2>1, <2>2
  <2> QED BY <1>3, <2>5, <2>6
<1>11. CASE Begin
  BY <1>4, <1>11 DEF Begin
<1>12. ASSUME NEW n, NEW strong, TranslateFlat(n, strong) PROVE KeepsOwnFiles
  BY <1>4, <1>12 DEF TranslateFlat
<1>13. ASSUME NEW length, NEW p, NEW offset, TranslatePtr(length, p, offset) PROVE KeepsOwnFiles
  BY <1>4, <1>13 DEF TranslatePtr
<1>14. CASE TargetOpens \/ \E fd \in Fds : TargetCloses(fd)
  BY <1>4, <1>14 DEF TargetOpens, TargetCloses
<1>15. CASE UNCHANGED vars
  BY <1>4, <1>15 DEF vars
<1> QED
  BY <1>5, <1>6, <1>7, <1>8, <1>9, <1>10, <1>11, <1>12, <1>13, <1>14, <1>15 DEF Next

\* No step of the driver takes a file from the target's own program: what it
\* closes when a transaction fails or a buffer is freed, a transaction installed.
THEOREM OwnFilesStay == Spec => OwnFilesAreKept
<1>1. IInv /\ [Next]_vars => KeepsOwnFiles
  BY OwnFilesInAStep
<1>2. KeepsOwnFiles => \A fd \in Fds : files[fd] = "own" /\ files'[fd] # "own" =>
                         building' = building /\ kept' = kept
  BY DEF KeepsOwnFiles
<1> QED BY <1>1, <1>2, Invariant, PTL DEF Spec, OwnFilesAreKept

-----------------------------------------------------------------------------
(* Counts: what holds a node in a list of buffers. *)

HoldersIn(B, r) == UNION {{i} \X Holders(B[i], r) : i \in DOMAIN B}
HoldsIn(B, r)   == Cardinality(HoldersIn(B, r))
Weight(b, r)    == Cardinality(Holders(b, r))

LEMMA Disjointly ==
  ASSUME NEW S, NEW T, IsFiniteSet(S), IsFiniteSet(T), S \cap T = {}
  PROVE  /\ IsFiniteSet(S \cup T) /\ Cardinality(S) \in Nat /\ Cardinality(T) \in Nat
         /\ Cardinality(S \cup T) = Cardinality(S) + Cardinality(T)
<1>1. Cardinality(S) \in Nat /\ Cardinality(T) \in Nat
  BY FS_CardinalityType
<1>2. Cardinality(S \cap T) = 0
  BY FS_EmptySet
<1>3. /\ IsFiniteSet(S \cup T)
      /\ Cardinality(S \cup T) = Cardinality(S) + Cardinality(T) - Cardinality(S \cap T)
  BY FS_Union
<1> QED BY <1>1, <1>2, <1>3

\* Flat objects, and the buffer itself when its call names the node.
LEMMA Weights ==
  ASSUME NEW b \in BufferOf, NEW r
  PROVE  /\ IsFiniteSet(Holders(b, r)) /\ Weight(b, r) \in Nat
         /\ Flat(b, r[1], r[2]) \cap 1..Len(b.objs) = Flat(b, r[1], r[2])
         /\ Cardinality(Flat(b, r[1], r[2])) \in Nat /\ TargetNode(b, r) \in Nat
         /\ Weight(b, r) = Cardinality(Flat(b, r[1], r[2])) + TargetNode(b, r)
<1> DEFINE F == Flat(b, r[1], r[2])
           T == IF TargetNode(b, r) = 1 THEN {0} ELSE {}
<1>1. PICK n \in Nat : n = Len(b.objs) /\ DOMAIN b.objs = 1..n
  BY BufferFields
<1>2. \A x \in F : x \in 1..n
  BY <1>1 DEF Flat
<1>3. IsFiniteSet(F)
  <2>1. IsFiniteSet(1..n) /\ F \in SUBSET (1..n)
    BY <1>2, FS_Interval
  <2> QED BY <2>1, FS_Subset
<1>4. TargetNode(b, r) \in {0, 1}
  BY DEF TargetNode
<1>5. IsFiniteSet(T) /\ Cardinality(T) = TargetNode(b, r)
  <2>1. CASE TargetNode(b, r) = 1
    BY <2>1, FS_Singleton
  <2>2. CASE TargetNode(b, r) = 0
    BY <2>2, FS_EmptySet
  <2> QED BY <1>4, <2>1, <2>2
<1>6. F \cap T = {}
  BY <1>2
<1>7. Holders(b, r) = F \cup T
  BY DEF Holders
<1>8. Flat(b, r[1], r[2]) \cap 1..Len(b.objs) = Flat(b, r[1], r[2])
  BY <1>1, <1>2
<1> HIDE DEF T
<1>9. IsFiniteSet(F \cup T) /\ Cardinality(F \cup T) = Cardinality(F) + Cardinality(T)
  BY <1>3, <1>5, <1>6, Disjointly
<1>10. Cardinality(F) \in Nat
  BY <1>3, FS_CardinalityType
<1> HIDE DEF F
<1>11. Weight(b, r) = Cardinality(F) + TargetNode(b, r) /\ IsFiniteSet(Holders(b, r))
  BY <1>5, <1>7, <1>9 DEF Weight
<1> QED BY <1>4, <1>8, <1>10, <1>11 DEF F

LEMMA Labelled ==
  ASSUME NEW n, NEW S, IsFiniteSet(S)
  PROVE  IsFiniteSet({n} \X S) /\ Cardinality({n} \X S) = Cardinality(S)
<1>1. IsFiniteSet({n}) /\ Cardinality({n}) = 1 /\ Cardinality(S) \in Nat
  BY FS_Singleton, FS_CardinalityType
<1>2. /\ IsFiniteSet({n} \X S)
      /\ Cardinality({n} \X S) = Cardinality({n}) * Cardinality(S)
  BY <1>1, FS_Product
<1> QED BY <1>1, <1>2

LEMMA HoldersAreFinite ==
  ASSUME NEW B \in Seq(BufferOf), NEW r
  PROVE  IsFiniteSet(HoldersIn(B, r)) /\ HoldsIn(B, r) \in Nat
<1> DEFINE part(i) == {i} \X Holders(B[i], r)
<1>1. PICK n \in Nat : n = Len(B) /\ DOMAIN B = 1..n
  OBVIOUS
<1>2. \A i \in DOMAIN B : IsFiniteSet(part(i))
  <2>1. TAKE i \in DOMAIN B
  <2>2. B[i] \in BufferOf
    OBVIOUS
  <2> QED BY <2>2, Weights, Labelled
<1>3. IsFiniteSet(DOMAIN B)
  BY <1>1, FS_Interval
<1> HIDE DEF part
<1> DEFINE f == [i \in DOMAIN B |-> part(i)]
           P == {part(i) : i \in DOMAIN B}
<1>4. f \in Surjection(DOMAIN B, P)
  BY DEF Surjection
<1> HIDE DEF f
<1>5. IsFiniteSet(P)
  BY <1>3, <1>4, FS_Surjection
<1>6. IsFiniteSet(UNION P)
  BY <1>2, <1>5, FS_UNION
<1>7. HoldersIn(B, r) = UNION P
  BY DEF HoldersIn, part
<1> QED BY <1>6, <1>7, FS_CardinalityType DEF HoldsIn

\* One more buffer, at the end.
LEMMA CountsAdd ==
  ASSUME NEW B \in Seq(BufferOf), NEW b \in BufferOf, NEW r, NEW C, C = Append(B, b)
  PROVE  /\ HoldsIn(C, r) = HoldsIn(B, r) + Weight(b, r)
         /\ HoldsIn(B, r) \in Nat /\ Weight(b, r) \in Nat
<1>1. PICK n : n = Len(B) + 1
  OBVIOUS
<1>2. /\ DOMAIN C = DOMAIN B \cup {n} /\ n \notin DOMAIN B
      /\ C[n] = b /\ \A i \in DOMAIN B : C[i] = B[i]
  <2>1. OneLonger(BufferOf, B, b, C, n)
    BY <1>1, LongerList
  <2> QED BY <2>1 DEF OneLonger
<1>3. /\ HoldersIn(C, r) = HoldersIn(B, r) \cup ({n} \X Holders(b, r))
      /\ HoldersIn(B, r) \cap ({n} \X Holders(b, r)) = {}
  BY <1>2 DEF HoldersIn
<1>4. IsFiniteSet(HoldersIn(B, r)) /\ IsFiniteSet(Holders(b, r))
  BY HoldersAreFinite, Weights
<1>5. /\ IsFiniteSet({n} \X Holders(b, r))
      /\ Cardinality({n} \X Holders(b, r)) = Weight(b, r)
  BY <1>4, Labelled DEF Weight
<1>6. PICK S, T : S = HoldersIn(B, r) /\ T = {n} \X Holders(b, r)
  OBVIOUS
<1>7. Cardinality(S \cup T) = Cardinality(S) + Cardinality(T)
  BY <1>3, <1>4, <1>5, <1>6, Disjointly
<1>8. HoldsIn(C, r) = HoldsIn(B, r) + Weight(b, r)
  BY <1>3, <1>5, <1>6, <1>7 DEF HoldsIn
<1> QED BY <1>8, HoldersAreFinite, Weights

\* A buffer less, anywhere in the list: those behind it move up.
Adds(x, y, z) == x = y + z /\ y \in Nat /\ z \in Nat

LEMMA CountsDrop ==
  ASSUME NEW B \in Seq(BufferOf), NEW i \in DOMAIN B, NEW r, NEW C, C = RemoveAt(B, i)
  PROVE  Adds(HoldsIn(B, r), HoldsIn(C, r), Weight(B[i], r))
<1>1. PICK n \in Nat : n = Len(B) /\ DOMAIN B = 1..n /\ i \in 1..n
  OBVIOUS
<1>2. C \in Seq(BufferOf) /\ DOMAIN C = 1..n - 1 /\ \A j \in 1..n - 1 : C[j] = B[Was(i, j)]
  <2>1. OneShorter(BufferOf, B, i, C)
    BY ShorterList
  <2> QED BY <1>1, <2>1 DEF OneShorter
<1>3. /\ \A j \in 1..n - 1 : Was(i, j) \in 1..n /\ Was(i, j) # i
      /\ \A j, l \in 1..n - 1 : j # l => Was(i, j) # Was(i, l)
      /\ \A h \in 1..n : h # i => \E j \in 1..n - 1 : Was(i, j) = h
  BY <1>1, MovesUp
<1> DEFINE S == HoldersIn(C, r)
           T == {i} \X Holders(B[i], r)
           U == UNION {{h} \X Holders(B[h], r) : h \in DOMAIN B \ {i}}
           g == [p \in S |-> <<Was(i, p[1]), p[2]>>]
<1>4. \A p : p \in S <=> \E j \in 1..n - 1 : \E x \in Holders(B[Was(i, j)], r) : p = <<j, x>>
  <2>1. \A p : p \in S <=> \E j \in 1..n - 1 : p \in {j} \X Holders(C[j], r)
    BY <1>2 DEF HoldersIn
  <2> QED BY <1>2, <2>1
<1>5. \A p : p \in U <=> \E h \in 1..n : h # i /\ \E x \in Holders(B[h], r) : p = <<h, x>>
  BY <1>1
<1>6. HoldersIn(B, r) = U \cup T /\ U \cap T = {}
  BY <1>1 DEF HoldersIn
<1> HIDE DEF S, U
<1>7. \A p \in S : g[p] \in U
  BY <1>3, <1>4, <1>5
<1>8. \A p, q \in S : g[p] = g[q] => p = q
  BY <1>3, <1>4
<1>9. ASSUME NEW u \in U PROVE \E p \in S : g[p] = u
  <2>1. PICK h \in 1..n : h # i /\ \E x \in Holders(B[h], r) : u = <<h, x>>
    BY <1>5
  <2>2. PICK j \in 1..n - 1 : Was(i, j) = h
    BY <1>3, <2>1
  <2>3. PICK x \in Holders(B[h], r) : u = <<h, x>>
    BY <2>1
  <2>4. <<j, x>> \in S
    BY <1>4, <2>2
  <2> QED BY <2>2, <2>3, <2>4
<1>10. g \in Bijection(S, U)
  <2>1. g \in [S -> U]
    BY <1>7
  <2> HIDE DEF g
  <2>2. g \in Injection(S, U)
    BY <1>8, <2>1 DEF Injection, IsInjective
  <2>3. g \in Surjection(S, U)
    BY <1>9, <2>1 DEF Surjection
  <2> QED BY <2>2, <2>3 DEF Bijection
<1>11. ExistsBijection(S, U)
  BY <1>10 DEF ExistsBijection
<1>12. IsFiniteSet(S) /\ Cardinality(S) \in Nat
  BY <1>2, HoldersAreFinite DEF S, HoldsIn
<1>13. IsFiniteSet(U) /\ Cardinality(U) = Cardinality(S)
  BY <1>11, <1>12, FS_Bijection
<1>14. /\ IsFiniteSet(T) /\ Cardinality(T) = Weight(B[i], r) /\ Weight(B[i], r) \in Nat
  <2>1. B[i] \in BufferOf
    BY <1>1
  <2>2. IsFiniteSet(Holders(B[i], r)) /\ Weight(B[i], r) \in Nat
    BY <2>1, Weights
  <2> QED BY <2>2, Labelled DEF Weight
<1> HIDE DEF T
<1>15. Cardinality(U \cup T) = Cardinality(U) + Cardinality(T)
  BY <1>6, <1>13, <1>14, Disjointly
<1> QED BY <1>6, <1>12, <1>13, <1>14, <1>15 DEF HoldsIn, S, Adds

-----------------------------------------------------------------------------
(* Counts: each step gives and takes what it should. *)

Counted == \A r \in Nodes \X BOOLEAN : refs[r] = HoldsIn(Buffers, r)

\* The buffers before and after.
LEMMA BuffersAre ==
  ASSUME IInv
  PROVE  /\ kept \in Seq(BufferOf)
         /\ building = NoBuffer => Buffers = kept
         /\ building # NoBuffer => building \in BufferOf /\ Buffers = Append(kept, building)
<1>1. kept \in Seq(BufferOf) /\ building \in BufferOf \cup {NoBuffer}
  BY DEF IInv, Typed
<1>2. building = NoBuffer => Buffers = kept
  BY <1>1, ConcatEmptySeq DEF Buffers
<1>3. building # NoBuffer => Buffers = Append(kept, building)
  BY <1>1, AppendIsConcat DEF Buffers
<1> QED BY <1>1, <1>2, <1>3

LEMMA MaxOfDifference ==
  ASSUME NEW a \in Nat, NEW f \in Nat, NEW t \in Nat, NEW m \in Nat, a = m + (f + t)
  PROVE  Max({0, a - f - t}) = m
<1>1. a - f - t = m
  OBVIOUS
<1>2. \E x \in {0, m} : \A y \in {0, m} : x >= y
  BY m >= 0
<1>3. Max({0, m}) \in {0, m} /\ \A y \in {0, m} : Max({0, m}) >= y
  BY <1>2 DEF Max
<1>4. Max({0, m}) >= m /\ Max({0, m}) >= 0
  BY <1>3
<1>5. Max({0, m}) = m
  BY <1>3, <1>4
<1> QED BY <1>1, <1>5

\* What is released is what the buffer holds.
LEMMA ReleaseCounts ==
  ASSUME IInv, Counted, NEW b \in BufferOf, NEW c, NEW B, NEW r \in Nodes \X BOOLEAN,
         SameUpTo(b, c), c.target_node = b.target_node,
         HoldsIn(Buffers, r) = HoldsIn(B, r) + Weight(b, r), HoldsIn(B, r) \in Nat
  PROVE  RefsAfter(c, Len(b.objs))[r] = HoldsIn(B, r)
<1>1. refs \in [Nodes \X BOOLEAN -> Nat]
  BY DEF IInv, Typed
<1>2. RefsAfter(c, Len(b.objs))[r]
        = Max({0, refs[r] - Cardinality(Flat(c, r[1], r[2]) \cap 1..Len(b.objs))
                          - TargetNode(c, r)})
  BY <1>1 DEF RefsAfter
<1>3. TargetNode(c, r) = TargetNode(b, r)
  BY DEF TargetNode
<1>4. Flat(c, r[1], r[2]) \cap 1..Len(b.objs) = Flat(b, r[1], r[2])
  <2> DEFINE f == [type |-> "flat", node |-> r[1], strong |-> r[2]]
  <2>1. f.type = "flat"
    OBVIOUS
  <2>2. /\ Flat(c, r[1], r[2]) = {i \in DOMAIN c.objs : c.objs[i] = f}
        /\ Flat(b, r[1], r[2]) = {i \in DOMAIN b.objs : b.objs[i] = f}
    BY DEF Flat
  <2> HIDE DEF f
  <2>3. /\ OfType(c, "flat") \cap 1..Len(b.objs) = OfType(b, "flat")
        /\ \A i \in DOMAIN b.objs : c.objs[i] = b.objs[i]
    BY DEF SameUpTo
  <2>4. \A i : i \in Flat(c, r[1], r[2]) \cap 1..Len(b.objs)
                 => i \in OfType(b, "flat") /\ c.objs[i] = f
    BY <2>1, <2>2, <2>3 DEF OfType
  <2>5. \A i : i \in Flat(b, r[1], r[2])
                 => /\ i \in OfType(c, "flat") /\ i \in 1..Len(b.objs)
                    /\ b.objs[i] = f /\ i \in DOMAIN b.objs
    BY <2>1, <2>2, <2>3 DEF OfType
  <2> QED BY <2>2, <2>3, <2>4, <2>5 DEF OfType
<1>5. PICK a \in Nat, f \in Nat, t \in Nat, m \in Nat :
        /\ a = refs[r] /\ f = Cardinality(Flat(b, r[1], r[2])) /\ t = TargetNode(b, r)
        /\ m = HoldsIn(B, r)
  BY <1>1, Weights
<1>6. a = m + (f + t)
  BY <1>5, Weights DEF Counted
<1>7. Max({0, a - f - t}) = m
  BY <1>6, MaxOfDifference
<1> QED BY <1>2, <1>3, <1>4, <1>5, <1>7

ListOf(k, b) == k \o IF b = NoBuffer THEN <<>> ELSE <<b>>
FlatOf(r) == [type |-> "flat", node |-> r[1], strong |-> r[2]]

LEMMA TheList ==
  ASSUME NEW k \in Seq(BufferOf), NEW b \in BufferOf \cup {NoBuffer}
  PROVE  /\ b = NoBuffer => ListOf(k, b) = k
         /\ b # NoBuffer => b \in BufferOf /\ ListOf(k, b) = Append(k, b)
<1>1. b = NoBuffer => ListOf(k, b) = k
  BY ConcatEmptySeq DEF ListOf
<1>2. b # NoBuffer => ListOf(k, b) = Append(k, b)
  BY AppendIsConcat DEF ListOf
<1> QED BY <1>1, <1>2

Adding(b, c, o) == c.objs = Append(b.objs, o) /\ c.target_node = b.target_node
Gains(b, c, o, r) ==
  /\ o = FlatOf(r) => Weight(c, r) = Weight(b, r) + 1
  /\ o # FlatOf(r) => Weight(c, r) = Weight(b, r)

LEMMA OneMoreObject ==
  ASSUME NEW b \in BufferOf, NEW c \in BufferOf, NEW o, NEW r, Adding(b, c, o)
  PROVE  Gains(b, c, o, r)
<1> DEFINE F == Flat(b, r[1], r[2])
           G == Flat(c, r[1], r[2])
<1>1. b.objs \in Seq(Object)
  BY BufferFields
<1>2. PICK n : n = Len(b.objs) + 1
  OBVIOUS
<1>3. /\ DOMAIN c.objs = DOMAIN b.objs \cup {n} /\ n \notin DOMAIN b.objs
      /\ c.objs[n] = o /\ \A i \in DOMAIN b.objs : c.objs[i] = b.objs[i]
  BY <1>1, <1>2 DEF Adding
<1>4. /\ F = {i \in DOMAIN b.objs : b.objs[i] = FlatOf(r)}
      /\ G = {i \in DOMAIN c.objs : c.objs[i] = FlatOf(r)}
  BY DEF Flat, FlatOf
<1>5. (o = FlatOf(r) => G = F \cup {n}) /\ (o # FlatOf(r) => G = F)
  BY <1>3, <1>4
<1>6. n \notin F
  BY <1>3, <1>4
<1>7. IsFiniteSet(F) /\ Cardinality(F) \in Nat
  <2>1. F \in SUBSET Holders(b, r)
    BY DEF Holders
  <2>2. IsFiniteSet(Holders(b, r)) /\ Cardinality(F) \in Nat
    BY Weights
  <2> QED BY <2>1, <2>2, FS_Subset
<1>8. /\ o = FlatOf(r) => Cardinality(G) = Cardinality(F) + 1
      /\ o # FlatOf(r) => Cardinality(G) = Cardinality(F)
  <2> HIDE DEF F, G
  <2>1. Cardinality(F \cup {n}) = IF n \in F THEN Cardinality(F) ELSE Cardinality(F) + 1
    BY <1>7, FS_AddElement
  <2> QED BY <1>5, <1>6, <2>1
<1>9. TargetNode(c, r) = TargetNode(b, r)
  BY DEF TargetNode, Adding
<1>10. /\ Weight(b, r) = Cardinality(F) + TargetNode(b, r) /\ TargetNode(b, r) \in Nat
       /\ Weight(c, r) = Cardinality(G) + TargetNode(c, r)
  BY Weights
<1> HIDE DEF F, G
<1>11. PICK f \in Nat, t \in Nat : f = Cardinality(F) /\ t = TargetNode(b, r)
  BY <1>7, <1>10
<1> QED BY <1>8, <1>9, <1>10, <1>11 DEF Gains

\* An object more, as each of the four translations adds one.
LEMMA GrowCounts ==
  ASSUME IInv, IInv', building # NoBuffer, building' # NoBuffer, kept' = kept, NEW o, NEW r,
         building'.objs = Append(building.objs, o), building'.target_node = building.target_node
  PROVE  /\ o = FlatOf(r) => HoldsIn(Buffers', r) = HoldsIn(Buffers, r) + 1
         /\ o # FlatOf(r) => HoldsIn(Buffers', r) = HoldsIn(Buffers, r)
         /\ HoldsIn(Buffers, r) \in Nat
<1>1. /\ kept \in Seq(BufferOf) /\ building \in BufferOf /\ building' \in BufferOf
  BY DEF IInv, Typed
<1>2. PICK b \in BufferOf, c \in BufferOf : b = building /\ c = building'
  BY <1>1
<1>3. PICK B, C : B = Append(kept, b) /\ C = Append(kept, c)
  OBVIOUS
<1>4. Buffers = B
  BY <1>1, <1>2, <1>3, BuffersAre
<1>5. Buffers' = C
  <2>1. Buffers' = ListOf(kept, c)
    BY <1>2 DEF Buffers, ListOf
  <2>2. c # NoBuffer
    BY <1>2
  <2> QED BY <1>1, <1>3, <2>1, <2>2, TheList
<1>6. Adding(b, c, o)
  BY <1>2 DEF Adding
<1>7. Gains(b, c, o, r)
  BY <1>6, OneMoreObject
<1>8. /\ HoldsIn(B, r) = HoldsIn(kept, r) + Weight(b, r) /\ HoldsIn(kept, r) \in Nat
      /\ Weight(b, r) \in Nat
  BY <1>1, <1>3, CountsAdd
<1>9. HoldsIn(C, r) = HoldsIn(kept, r) + Weight(c, r)
  BY <1>1, <1>3, CountsAdd
<1>10. PICK h \in Nat, w \in Nat : h = HoldsIn(kept, r) /\ w = Weight(b, r)
  BY <1>8
<1> QED BY <1>4, <1>5, <1>7, <1>8, <1>9, <1>10 DEF Gains

\* The fields of a buffer after a translation.
LEMMA Extended ==
  ASSUME NEW b \in BufferOf, NEW o, NEW m, NEW s, NEW l, NEW k,
         NEW c, c = WithObject(b, o, m, s, l, k)
  PROVE  c.objs = Append(b.objs, o) /\ c.target_node = b.target_node /\ c # NoBuffer
<1>1. PICK e \in ExtraSizes :
        b \in [target_node : Nodes \cup {"none"}, accepts : BOOLEAN, extra : {e},
               mem : [0..e - 1 -> Cell], objs : Seq(Object),
               sg : Nat, last : Nat, min : Nat]
  BY DEF BufferOf
<1>2. c.objs = Append(b.objs, o) /\ c.target_node = b.target_node
  BY <1>1 DEF WithObject
<1>3. "objs" \in DOMAIN c /\ "objs" \notin DOMAIN NoBuffer
  BY <1>1 DEF NoBuffer, WithObject
<1> QED BY <1>2, <1>3

\* The buffers, and what their objects hold, are as they were.
LEMMA CountsStay ==
  ASSUME Counted, refs' = refs,
         \A r \in Nodes \X BOOLEAN : HoldsIn(Buffers', r) = HoldsIn(Buffers, r)
  PROVE  Counted'
BY DEF Counted

LEMMA CountsOther ==
  ASSUME IInv, IInv', Counted, building # NoBuffer, building' # NoBuffer, kept' = kept,
         refs' = refs, NEW o, o.type # "flat",
         building'.objs = Append(building.objs, o), building'.target_node = building.target_node
  PROVE  Counted'
<1>1. ASSUME NEW r \in Nodes \X BOOLEAN PROVE HoldsIn(Buffers', r) = HoldsIn(Buffers, r)
  <2>1. o # FlatOf(r)
    BY DEF FlatOf
  <2> QED BY <2>1, GrowCounts
<1> QED BY <1>1, CountsStay

LEMMA CountFlat ==
  ASSUME IInv, IInv', Counted, NEW n \in Nodes, NEW strong \in BOOLEAN, TranslateFlat(n, strong)
  PROVE  Counted'
<1> DEFINE o == [type |-> "flat", node |-> n, strong |-> strong]
<1>1. /\ building # NoBuffer /\ kept' = kept
      /\ building' = [building EXCEPT !.objs = Append(building.objs, o)]
      /\ refs' = [refs EXCEPT ![<<n, strong>>] = @ + 1]
  BY DEF TranslateFlat, Translating
<1>2. building \in BufferOf /\ refs \in [Nodes \X BOOLEAN -> Nat]
  BY <1>1 DEF IInv, Typed
<1>3. ASSUME NEW r \in Nodes \X BOOLEAN PROVE o = FlatOf(r) <=> r = <<n, strong>>
  BY DEF FlatOf
<1> HIDE DEF o
<1>4. /\ building'.objs = Append(building.objs, o) /\ building'.target_node = building.target_node
      /\ building' # NoBuffer
  <2>1. PICK c : c = building'
    OBVIOUS
  <2>2. c = WithObject(building, o, building.mem, building.sg, building.last, building.min)
    BY <1>1, <1>2, <2>1, FewerFields
  <2> QED BY <1>2, <2>1, <2>2, Extended
<1>5. PICK q \in Nodes \X BOOLEAN : q = <<n, strong>>
  OBVIOUS
<1>6. refs' = [refs EXCEPT ![q] = refs[q] + 1]
  BY <1>1, <1>5
<1>7. ASSUME NEW r \in Nodes \X BOOLEAN PROVE refs'[r] = HoldsIn(Buffers', r)
  <2>1. /\ o = FlatOf(r) => HoldsIn(Buffers', r) = HoldsIn(Buffers, r) + 1
        /\ o # FlatOf(r) => HoldsIn(Buffers', r) = HoldsIn(Buffers, r)
    BY <1>1, <1>4, GrowCounts
  <2>2. refs[r] = HoldsIn(Buffers, r)
    BY DEF Counted
  <2>3. CASE r = q
    BY <1>2, <1>3, <1>5, <1>6, <2>1, <2>2, <2>3
  <2>4. CASE r # q
    BY <1>2, <1>3, <1>5, <1>6, <2>1, <2>2, <2>4
  <2> QED BY <2>3, <2>4
<1> QED BY <1>7 DEF Counted

LEMMA CountOthers ==
  ASSUME IInv, IInv', Counted, NEW num, NEW p, NEW offset, NEW length,
         TranslateFd \/ TranslatePtr(length, p, offset) \/ TranslateFdArray(num, p, offset)
  PROVE  Counted'
<1>1. building # NoBuffer /\ kept' = kept /\ refs' = refs
  BY DEF TranslateFd, TranslatePtr, TranslateFdArray, ArrayIsValid, Translating
<1>2. building \in BufferOf
  BY <1>1 DEF IInv, Typed
<1>3. CASE TranslateFd
  <2>1. PICK o : o.type # "flat" /\ building' = [building EXCEPT !.objs = Append(building.objs, o)]
    BY <1>3 DEF TranslateFd
  <2>2. /\ building'.objs = Append(building.objs, o) /\ building' # NoBuffer
        /\ building'.target_node = building.target_node
    <3>1. PICK c : c = building'
      OBVIOUS
    <3>2. c = WithObject(building, o, building.mem, building.sg, building.last, building.min)
      BY <1>2, <2>1, <3>1, FewerFields
    <3> QED BY <1>2, <3>1, <3>2, Extended
  <2> QED BY <1>1, <2>1, <2>2, CountsOther
<1>4. CASE TranslatePtr(length, p, offset)
  <2> DEFINE x == [type |-> "ptr", length |-> length, buffer |-> building.sg,
                   parent |-> p, offset |-> offset]
             slot == IF p = 0 THEN {} ELSE Slot(building, p, offset, PtrSize)
             w == Write(building.mem, slot, <<"ptr", building.sg>>)
             z == building.sg + Reserved(length)
             y == Len(building.objs) + 1
  <2>1. building' = [building EXCEPT !.objs = Append(building.objs, x), !.mem = w, !.sg = z,
                                     !.last = y, !.min = 0]
    BY <1>4 DEF TranslatePtr
  <2>2. PICK o, m, s, l : o = x /\ m = w /\ s = z /\ l = y
    OBVIOUS
  <2>3. o.type # "flat"
    BY <2>2
  <2> HIDE DEF x, slot, w, z, y
  <2>4. building' = [building EXCEPT !.objs = Append(building.objs, o), !.mem = m, !.sg = s,
                                     !.last = l, !.min = 0]
    BY <2>1, <2>2
  <2>5. /\ building'.objs = Append(building.objs, o) /\ building' # NoBuffer
        /\ building'.target_node = building.target_node
    <3>1. PICK c : c = building' /\ c = WithObject(building, o, m, s, l, 0)
      BY <2>4 DEF WithObject
    <3> QED BY <1>2, <3>1, Extended
  <2> QED BY <1>1, <2>3, <2>5, CountsOther
<1>5. CASE TranslateFdArray(num, p, offset)
  <2> DEFINE x == [type |-> "fda", num |-> num, parent |-> p, offset |-> offset]
             at(i) == Slot(building, p, offset + FdSize * (i - 1), FdSize)
             w == [a \in DOMAIN building.mem |->
                     IF \E i \in 1..num : a \in at(i)
                     THEN <<"fd", UnusedFd(CHOOSE i \in 1..num : a \in at(i))>>
                     ELSE building.mem[a]]
             z == AfterArray(offset, num)
  <2>1. building' = [building EXCEPT !.objs = Append(building.objs, x), !.mem = w,
                                     !.last = p, !.min = z]
    BY <1>5 DEF TranslateFdArray
  <2>2. PICK o, m, k : o = x /\ m = w /\ k = z
    OBVIOUS
  <2>3. o.type # "flat"
    BY <2>2
  <2> HIDE DEF x, at, w, z
  <2>4. building' = [building EXCEPT !.objs = Append(building.objs, o), !.mem = m,
                                     !.last = p, !.min = k]
    BY <2>1, <2>2
  <2>5. /\ building'.objs = Append(building.objs, o) /\ building' # NoBuffer
        /\ building'.target_node = building.target_node
    <3>1. PICK c : c = building'
      OBVIOUS
    <3>2. c = WithObject(building, o, m, building.sg, p, k)
      BY <1>2, <2>4, <3>1, FourFields
    <3> QED BY <1>2, <3>1, <3>2, Extended
  <2> QED BY <1>1, <2>3, <2>5, CountsOther
<1> QED BY <1>3, <1>4, <1>5

LEMMA CountBegin ==
  ASSUME IInv, IInv', Counted, Begin
  PROVE  Counted'
<1>1. PICK node \in Nodes \cup {"none"}, accepts \in BOOLEAN, extra \in ExtraSizes :
        /\ building' = [target_node |-> node, accepts |-> accepts, extra |-> extra,
                        objs |-> <<>>, mem |-> [a \in 0..extra - 1 |-> <<"data", 0>>],
                        sg |-> 0, last |-> 0, min |-> 0]
        /\ refs' = IF node = "none" THEN refs ELSE [refs EXCEPT ![<<node, TRUE>>] = @ + 1]
  BY DEF Begin
<1>2. building = NoBuffer /\ kept' = kept
  BY DEF Begin
<1>3. building'.target_node = node /\ building'.objs = <<>> /\ building' # NoBuffer
  <2>1. PICK m : m = [a \in 0..extra - 1 |-> <<"data", 0>>]
    OBVIOUS
  <2>2. building' = [target_node |-> node, accepts |-> accepts, extra |-> extra,
                     objs |-> <<>>, mem |-> m, sg |-> 0, last |-> 0, min |-> 0]
    BY <1>1, <2>1
  <2> QED BY <2>2 DEF NoBuffer
<1>4. kept \in Seq(BufferOf) /\ building' \in BufferOf /\ refs \in [Nodes \X BOOLEAN -> Nat]
  BY <1>3 DEF IInv, Typed
<1>5. PICK c \in BufferOf : c = building' /\ c.target_node = node /\ c.objs = <<>> /\ c # NoBuffer
  BY <1>3, <1>4
<1>6. Buffers = kept
  BY <1>2, BuffersAre
<1>7. Buffers' = Append(kept, c)
  <2>1. Buffers' = ListOf(kept, c)
    BY <1>2, <1>5 DEF Buffers, ListOf
  <2> QED BY <1>4, <1>5, <2>1, TheList
<1>8. ASSUME NEW r \in Nodes \X BOOLEAN
      PROVE  /\ r = <<node, TRUE>> => HoldsIn(Buffers', r) = HoldsIn(Buffers, r) + 1
             /\ r # <<node, TRUE>> => HoldsIn(Buffers', r) = HoldsIn(Buffers, r)
  <2>1. Cardinality(Flat(c, r[1], r[2])) = 0
    <3>1. Flat(c, r[1], r[2]) = {}
      BY <1>5 DEF Flat
    <3> QED BY <3>1, FS_EmptySet
  <2>2. Weight(c, r) = IF r = <<node, TRUE>> THEN 1 ELSE 0
    <3>1. Weight(c, r) = Cardinality(Flat(c, r[1], r[2])) + TargetNode(c, r)
      BY Weights
    <3>2. TargetNode(c, r) = IF r = <<node, TRUE>> THEN 1 ELSE 0
      BY <1>5 DEF TargetNode
    <3>3. TargetNode(c, r) \in Nat
      BY Weights
    <3>4. Weight(c, r) = TargetNode(c, r)
      BY <2>1, <3>1, <3>3
    <3> QED BY <3>2, <3>4
  <2>3. PICK B : B = Append(kept, c)
    OBVIOUS
  <2>4. /\ HoldsIn(B, r) = HoldsIn(kept, r) + Weight(c, r) /\ HoldsIn(kept, r) \in Nat
    BY <1>4, <2>3, CountsAdd
  <2>5. PICK h \in Nat : h = HoldsIn(kept, r)
    BY <2>4
  <2>6. HoldsIn(Buffers, r) = h /\ HoldsIn(Buffers', r) = HoldsIn(B, r)
    BY <1>6, <1>7, <2>3, <2>5
  <2>7. HoldsIn(B, r) = h + Weight(c, r)
    BY <2>4, <2>5
  <2>8. (r = <<node, TRUE>> => Weight(c, r) = 1) /\ (r # <<node, TRUE>> => Weight(c, r) = 0)
    BY <2>2
  <2>9. CASE r = <<node, TRUE>>
    <3>1. HoldsIn(B, r) = h + 1
      BY <2>7, <2>8, <2>9
    <3> QED BY <2>6, <2>9, <3>1
  <2>10. CASE r # <<node, TRUE>>
    <3>1. HoldsIn(B, r) = h
      BY <2>7, <2>8, <2>10
    <3> QED BY <2>6, <2>10, <3>1
  <2> QED BY <2>9, <2>10
<1>9. CASE node = "none"
  <2>1. ASSUME NEW r \in Nodes \X BOOLEAN PROVE r # <<node, TRUE>>
    <3>1. r[1] \in Nodes /\ "none" \notin Nodes
      BY ObjectsAssumption
    <3>2. <<node, TRUE>>[1] = "none"
      BY <1>9
    <3> QED BY <3>1, <3>2
  <2>2. \A r \in Nodes \X BOOLEAN : HoldsIn(Buffers', r) = HoldsIn(Buffers, r)
    BY <1>8, <2>1
  <2> QED BY <1>1, <1>9, <2>2, CountsStay
<1>10. CASE node # "none"
  <2>1. PICK q \in Nodes \X BOOLEAN : q = <<node, TRUE>>
    BY <1>10
  <2>2. refs' = [refs EXCEPT ![q] = refs[q] + 1]
    BY <1>1, <1>10, <2>1
  <2>3. ASSUME NEW r \in Nodes \X BOOLEAN PROVE refs'[r] = HoldsIn(Buffers', r)
    <3>1. refs[r] = HoldsIn(Buffers, r)
      BY DEF Counted
    <3>2. CASE r = q
      BY <1>4, <1>8, <2>1, <2>2, <3>1, <3>2
    <3>3. CASE r # q
      BY <1>4, <1>8, <2>1, <2>2, <3>1, <3>3
    <3> QED BY <3>2, <3>3
  <2> QED BY <2>3 DEF Counted
<1> QED BY <1>9, <1>10

\* A transaction that failed: nothing of its buffer is left.
LEMMA CountUndone ==
  ASSUME IInv, Counted, building # NoBuffer, building' = NoBuffer, kept' = kept, NEW c,
         SameUpTo(building, c), c.target_node = building.target_node,
         refs' = RefsAfter(c, Len(building.objs))
  PROVE  Counted'
<1>1. PICK b \in BufferOf : b = building
  BY DEF IInv, Typed
<1>2. kept \in Seq(BufferOf) /\ Buffers = Append(kept, b)
  BY <1>1, BuffersAre
<1>3. Buffers' = kept
  <2>1. Buffers' = ListOf(kept, NoBuffer)
    BY DEF Buffers, ListOf
  <2> QED BY <1>2, <2>1, TheList
<1>4. ASSUME NEW r \in Nodes \X BOOLEAN PROVE refs'[r] = HoldsIn(Buffers', r)
  <2>1. PICK B : B = Append(kept, b)
    OBVIOUS
  <2>2. HoldsIn(B, r) = HoldsIn(kept, r) + Weight(b, r) /\ HoldsIn(kept, r) \in Nat
    BY <1>2, <2>1, CountsAdd
  <2>3. /\ HoldsIn(Buffers, r) = HoldsIn(kept, r) + Weight(b, r)
        /\ SameUpTo(b, c) /\ c.target_node = b.target_node
    BY <1>1, <1>2, <2>1, <2>2
  <2>4. RefsAfter(c, Len(b.objs))[r] = HoldsIn(kept, r)
    BY <2>2, <2>3, ReleaseCounts
  <2> QED BY <1>1, <1>3, <2>4
<1> QED BY <1>4 DEF Counted

LEMMA CountFails ==
  ASSUME IInv, Counted, NEW o, Fails(o)
  PROVE  Counted'
<1>1. PICK c : c = [building EXCEPT !.objs = Append(building.objs, o)]
  OBVIOUS
<1>2. /\ building # NoBuffer /\ building' = NoBuffer /\ kept' = kept
      /\ refs' = RefsAfter(c, Len(building.objs))
  BY <1>1 DEF Fails, FailedAt
<1>3. building \in BufferOf
  BY <1>2 DEF IInv, Typed
<1>4. SameUpTo(building, c) /\ c.target_node = building.target_node
  <2>1. c = WithObject(building, o, building.mem, building.sg, building.last, building.min)
    BY <1>1, <1>3, FewerFields
  <2>2. c.target_node = building.target_node
    BY <1>3, <2>1, Extended
  <2> QED BY <1>1, <1>3, <2>2, SameOrLonger
<1> QED BY <1>2, <1>4, CountUndone

LEMMA CountArrayFails ==
  ASSUME IInv, Counted, NEW num, NEW p, NEW offset, NEW n, FdArrayFails(num, p, offset, n)
  PROVE  Counted'
<1>1. /\ building # NoBuffer /\ building' = NoBuffer /\ kept' = kept
      /\ refs' = RefsAfter(building, Len(building.objs))
  BY DEF FdArrayFails, ArrayIsValid, Translating, FailedAt
<1>2. building \in BufferOf
  BY <1>1 DEF IInv, Typed
<1>3. SameUpTo(building, building)
  BY <1>2, SameOrLonger
<1> QED BY <1>1, <1>3, CountUndone

LEMMA CountFrees ==
  ASSUME IInv, Counted, NEW i \in DOMAIN kept, UserFrees(i)
  PROVE  Counted'
<1>1. /\ building = NoBuffer /\ building' = NoBuffer /\ kept' = RemoveAt(kept, i)
      /\ refs' = RefsAfter(kept[i], Len(kept[i].objs))
  BY DEF UserFrees
<1>2. kept \in Seq(BufferOf) /\ Buffers = kept
  BY <1>1, BuffersAre
<1>3. PICK b \in BufferOf : b = kept[i]
  BY <1>2
<1>4. PICK k : k = RemoveAt(kept, i) /\ k = kept'
  BY <1>1
<1>5. k \in Seq(BufferOf)
  <2>1. OneShorter(BufferOf, kept, i, k)
    BY <1>2, <1>4, ShorterList
  <2> QED BY <2>1 DEF OneShorter
<1>6. Buffers' = k
  <2>1. Buffers' = ListOf(k, NoBuffer)
    BY <1>1, <1>4 DEF Buffers, ListOf
  <2> QED BY <1>5, <2>1, TheList
<1>7. SameUpTo(b, b)
  BY SameOrLonger
<1>8. ASSUME NEW r \in Nodes \X BOOLEAN PROVE refs'[r] = HoldsIn(Buffers', r)
  <2>1. HoldsIn(kept, r) = HoldsIn(k, r) + Weight(kept[i], r) /\ HoldsIn(k, r) \in Nat
    <3>1. Adds(HoldsIn(kept, r), HoldsIn(k, r), Weight(kept[i], r))
      BY <1>2, <1>4, CountsDrop
    <3> QED BY <3>1 DEF Adds
  <2>2. HoldsIn(Buffers, r) = HoldsIn(k, r) + Weight(b, r)
    BY <1>2, <1>3, <2>1
  <2>3. RefsAfter(b, Len(b.objs))[r] = HoldsIn(k, r)
    BY <1>7, <2>1, <2>2, ReleaseCounts
  <2> QED BY <1>1, <1>3, <1>6, <2>3
<1> QED BY <1>8 DEF Counted

LEMMA CountInductive ==
  ASSUME IInv, IInv', Counted, [Next]_vars
  PROVE  Counted'
<1>1. CASE Begin
  BY <1>1, CountBegin
<1>2. CASE TranslateFd
  BY <1>2, CountOthers
<1>3. CASE Deliver
  <2>1. /\ building # NoBuffer /\ building' = NoBuffer /\ kept' = Append(kept, building)
        /\ refs' = refs
    BY <1>3 DEF Deliver
  <2>2. PICK k : k = Append(kept, building) /\ k = kept'
    BY <2>1
  <2>3. Buffers = k
    BY <2>1, <2>2, BuffersAre
  <2>4. k \in Seq(BufferOf)
    BY <2>2 DEF IInv, Typed
  <2>5. Buffers' = k
    <3>1. Buffers' = ListOf(k, NoBuffer)
      BY <2>1, <2>2 DEF Buffers, ListOf
    <3> QED BY <2>4, <3>1, TheList
  <2> QED BY <2>1, <2>3, <2>5, CountsStay
<1>4. CASE UNCHANGED <<refs, building, kept>>
  <2>1. Buffers' = Buffers /\ refs' = refs
    BY <1>4 DEF Buffers
  <2> QED BY <2>1, CountsStay
<1>5. CASE TargetOpens \/ \E fd \in Fds : TargetCloses(fd)
  BY <1>4, <1>5 DEF TargetOpens, TargetCloses
<1>6. ASSUME NEW n \in Nodes, NEW strong \in BOOLEAN, TranslateFlat(n, strong) PROVE Counted'
  BY <1>6, CountFlat
<1>7. ASSUME NEW length, NEW num, NEW p, NEW offset,
             TranslatePtr(length, p, offset) \/ TranslateFdArray(num, p, offset)
      PROVE  Counted'
  BY <1>7, CountOthers
<1>8. ASSUME NEW num, NEW p, NEW offset, NEW n, FdArrayFails(num, p, offset, n) PROVE Counted'
  BY <1>8, CountArrayFails
<1>9. ASSUME NEW o, Fails(o) PROVE Counted'
  BY <1>9, CountFails
<1>10. ASSUME NEW i \in DOMAIN kept, UserFrees(i) PROVE Counted'
  BY <1>10, CountFrees
<1>11. CASE UNCHANGED vars
  BY <1>4, <1>11 DEF vars
<1> QED BY <1>1, <1>2, <1>3, <1>5, <1>6, <1>7, <1>8, <1>9, <1>10, <1>11 DEF Next

LEMMA CountInitially ==
  ASSUME Init
  PROVE  Counted
<1>1. refs = [r \in Nodes \X BOOLEAN |-> 0] /\ building = NoBuffer /\ kept = <<>>
  BY DEF Init
<1>2. Buffers = <<>>
  BY <1>1 DEF Buffers
<1>3. ASSUME NEW r \in Nodes \X BOOLEAN PROVE refs[r] = HoldsIn(Buffers, r)
  <2>1. HoldersIn(Buffers, r) = {}
    BY <1>2 DEF HoldersIn
  <2> QED BY <1>1, <2>1, FS_EmptySet DEF HoldsIn
<1> QED BY <1>3 DEF Counted

-----------------------------------------------------------------------------
(* Descriptors: every one has an object. *)

\* What the i-th buffer answers for.
Keeps(i) == Marked(Buffers[i]) \cup (IF IsBuilt(i) THEN Plain(Buffers[i]) ELSE {})

LEMMA OneIsBuilt ==
  ASSUME IInv, NEW i \in DOMAIN Buffers, NEW j \in DOMAIN Buffers, IsBuilt(i), IsBuilt(j)
  PROVE  i = j
<1>1. kept \in Seq(BufferOf)
  BY BuffersAre
<1>2. PICK n \in Nat : n = Len(kept) /\ DOMAIN kept = 1..n
  BY <1>1
<1>3. i > n /\ j > n
  BY <1>2 DEF IsBuilt
<1>4. CASE building = NoBuffer
  <2>1. i \in 1..n
    BY <1>2, <1>4, BuffersAre
  <2> QED BY <1>3, <2>1
<1>5. CASE building # NoBuffer
  <2>1. Buffers = Append(kept, building)
    BY <1>5, BuffersAre
  <2>2. DOMAIN Buffers = 1..n + 1
    BY <1>1, <1>2, <2>1
  <2> QED BY <1>3, <2>2
<1> QED BY <1>4, <1>5

LEMMA BuffersShareNone ==
  ASSUME IInv, NEW i \in DOMAIN Buffers, NEW j \in DOMAIN Buffers, i # j
  PROVE  Keeps(i) \cap Keeps(j) = {}
<1>1. /\ \A h \in DOMAIN Buffers :
           \/ h \in DOMAIN kept /\ Buffers[h] = kept[h] /\ ~ IsBuilt(h)
           \/ building # NoBuffer /\ Buffers[h] = building /\ IsBuilt(h)
  BY TheBuffers
<1>2. /\ \A h, l \in DOMAIN kept : h # l => Marked(kept[h]) \cap Marked(kept[l]) = {}
      /\ building # NoBuffer => \A h \in DOMAIN kept :
           Marked(kept[h]) \cap (Marked(building) \cup Plain(building)) = {}
  BY DEF IInv, Disjoint
<1>3. CASE ~ IsBuilt(i) /\ ~ IsBuilt(j)
  BY <1>1, <1>2, <1>3 DEF Keeps
<1>4. CASE IsBuilt(i) /\ ~ IsBuilt(j)
  <2>1. Keeps(i) = Marked(building) \cup Plain(building) /\ Keeps(j) = Marked(kept[j])
    BY <1>1, <1>4 DEF Keeps
  <2> QED BY <1>1, <1>2, <1>4, <2>1
<1>5. CASE ~ IsBuilt(i) /\ IsBuilt(j)
  <2>1. Keeps(j) = Marked(building) \cup Plain(building) /\ Keeps(i) = Marked(kept[i])
    BY <1>1, <1>5 DEF Keeps
  <2> QED BY <1>1, <1>2, <1>5, <2>1
<1> QED BY <1>3, <1>4, <1>5, OneIsBuilt

LEMMA WhatIsHeld ==
  ASSUME IInv, NEW i \in DOMAIN Buffers
  PROVE  /\ UNION {Holds(i, k) : k \in DOMAIN Buffers[i].objs} = Keeps(i)
         /\ \A k, l \in DOMAIN Buffers[i].objs : k # l => Holds(i, k) \cap Holds(i, l) = {}
<1>1. PICK b \in BufferOf : b = Buffers[i]
  BY TheBuffers
<1>2. Marked(b) = UNION {ArrayFds(b, b.objs[k]) : k \in Arrays(b)} /\ OneEach(b)
  <2>1. BufferOK(b)
    BY <1>1, TheBuffers
  <2> QED BY <2>1 DEF BufferOK, Held
<1>3. IsBuilt(i) => Marked(b) \cap Plain(b) = {}
  BY <1>1, TheBuffers DEF IInv, Disjoint
<1>4. ASSUME NEW k \in DOMAIN b.objs
      PROVE  /\ k \in Arrays(b) => Holds(i, k) = ArrayFds(b, b.objs[k])
             /\ k \in OfType(b, "fd") /\ IsBuilt(i) => Holds(i, k) = {b.objs[k].fd}
             /\ k \notin Arrays(b) /\ ~ (k \in OfType(b, "fd") /\ IsBuilt(i)) => Holds(i, k) = {}
  BY <1>1, <1>4 DEF Holds, Arrays, OfType
<1>5. Arrays(b) \subseteq DOMAIN b.objs /\ OfType(b, "fd") \subseteq DOMAIN b.objs
      /\ Arrays(b) \cap OfType(b, "fd") = {}
  BY DEF Arrays, OfType
<1>6. Plain(b) = {b.objs[k].fd : k \in OfType(b, "fd")}
  BY DEF Plain
<1>7. \A x : (\E k \in DOMAIN b.objs : x \in Holds(i, k)) <=> x \in Keeps(i)
  <2>1. TAKE x
  <2>2. x \in Keeps(i) <=> x \in Marked(b) \/ (IsBuilt(i) /\ x \in Plain(b))
    BY <1>1 DEF Keeps
  <2>3. x \in Marked(b) <=> \E k \in Arrays(b) : x \in ArrayFds(b, b.objs[k])
    BY <1>2
  <2>4. x \in Plain(b) <=> \E k \in OfType(b, "fd") : x = b.objs[k].fd
    BY <1>6
  <2>5. ASSUME NEW k \in DOMAIN b.objs, x \in Holds(i, k)
        PROVE  \/ k \in Arrays(b) /\ x \in ArrayFds(b, b.objs[k])
               \/ IsBuilt(i) /\ k \in OfType(b, "fd") /\ x = b.objs[k].fd
    BY <1>4, <2>5
  <2>6. (\E k \in DOMAIN b.objs : x \in Holds(i, k)) => x \in Keeps(i)
    BY <2>2, <2>3, <2>4, <2>5
  <2>7. ASSUME x \in Keeps(i) PROVE \E k \in DOMAIN b.objs : x \in Holds(i, k)
    BY <1>4, <1>5, <2>2, <2>3, <2>4, <2>7
  <2> QED BY <2>6, <2>7
<1>8. ASSUME NEW k \in DOMAIN b.objs, NEW l \in DOMAIN b.objs, k # l
      PROVE  Holds(i, k) \cap Holds(i, l) = {}
  <2>1. \A h \in Arrays(b) : ArrayFds(b, b.objs[h]) \subseteq Marked(b)
    BY <1>2
  <2>2. \A h \in OfType(b, "fd") : b.objs[h].fd \in Plain(b)
    BY <1>6
  <2>3. CASE k \in Arrays(b) /\ l \in Arrays(b)
    BY <1>2, <1>4, <1>8, <2>3 DEF OneEach
  <2>4. CASE k \in OfType(b, "fd") /\ l \in OfType(b, "fd")
    BY <1>2, <1>4, <1>5, <1>8, <2>4 DEF OneEach
  <2>5. CASE k \in Arrays(b) /\ l \in OfType(b, "fd")
    BY <1>3, <1>4, <1>5, <2>1, <2>2, <2>5
  <2>6. CASE k \in OfType(b, "fd") /\ l \in Arrays(b)
    BY <1>3, <1>4, <1>5, <2>1, <2>2, <2>6
  <2> QED BY <1>4, <2>3, <2>4, <2>5, <2>6
<1> QED BY <1>1, <1>7, <1>8

LEMMA DescriptorsHeld ==
  ASSUME IInv
  PROVE  SentIsHeld /\ HeldOnce
<1>1. \A p : p \in Places
               <=> \E i \in DOMAIN Buffers : \E k \in DOMAIN Buffers[i].objs : p = <<i, k>>
  BY DEF Places
<1>2. ASSUME NEW x PROVE x \in Sent <=> \E i \in DOMAIN Buffers : x \in Keeps(i)
  <2>1. Sent = InKept \cup IF building = NoBuffer THEN {} ELSE Marked(building) \cup Plain(building)
    BY DEF IInv, AllHeld
  <2>2. x \in InKept <=> \E i \in DOMAIN kept : x \in Marked(kept[i])
    BY DEF InKept
  <2>3. ASSUME NEW i \in DOMAIN Buffers, x \in Keeps(i)
        PROVE  x \in Sent
    <3>1. \/ i \in DOMAIN kept /\ Buffers[i] = kept[i] /\ ~ IsBuilt(i)
          \/ building # NoBuffer /\ Buffers[i] = building /\ IsBuilt(i)
      BY TheBuffers
    <3> QED BY <2>1, <2>2, <2>3, <3>1 DEF Keeps
  <2>4. ASSUME x \in Sent PROVE \E i \in DOMAIN Buffers : x \in Keeps(i)
    <3>1. CASE x \in InKept
      BY <2>2, <3>1, TheBuffers DEF Keeps
    <3>2. CASE x \notin InKept
      <4>1. building # NoBuffer /\ x \in Marked(building) \cup Plain(building)
        BY <2>1, <2>4, <3>2
      <4>2. PICK i \in DOMAIN Buffers : Buffers[i] = building /\ IsBuilt(i)
        BY <4>1, TheBuffers
      <4> QED BY <4>1, <4>2 DEF Keeps
    <3> QED BY <3>1, <3>2
  <2> QED BY <2>3, <2>4
<1>3. \A i \in DOMAIN Buffers : UNION {Holds(i, k) : k \in DOMAIN Buffers[i].objs} = Keeps(i)
  BY WhatIsHeld
<1>4. SentIsHeld
  <2>1. ASSUME NEW x
        PROVE  x \in Sent <=> \E i \in DOMAIN Buffers :
                                \E k \in DOMAIN Buffers[i].objs : x \in Holds(i, k)
    BY <1>2, <1>3
  <2>2. ASSUME NEW x
        PROVE  (\E i \in DOMAIN Buffers : \E k \in DOMAIN Buffers[i].objs : x \in Holds(i, k))
                 <=> \E p \in Places : x \in Holds(p[1], p[2])
    <3>1. ASSUME NEW p \in Places, x \in Holds(p[1], p[2])
          PROVE  \E i \in DOMAIN Buffers : \E k \in DOMAIN Buffers[i].objs : x \in Holds(i, k)
      <4>1. PICK i \in DOMAIN Buffers : \E k \in DOMAIN Buffers[i].objs : p = <<i, k>>
        BY <1>1
      <4>2. PICK k \in DOMAIN Buffers[i].objs : p = <<i, k>>
        BY <4>1
      <4>3. x \in Holds(i, k)
        BY <3>1, <4>2
      <4> QED BY <4>3
    <3>2. ASSUME NEW i \in DOMAIN Buffers, NEW k \in DOMAIN Buffers[i].objs, x \in Holds(i, k)
          PROVE  \E p \in Places : x \in Holds(p[1], p[2])
      <4>1. <<i, k>> \in Places
        BY <1>1
      <4>2. <<i, k>>[1] = i /\ <<i, k>>[2] = k
        OBVIOUS
      <4> QED BY <3>2, <4>1, <4>2
    <3> QED BY <3>1, <3>2
  <2> QED BY <2>1, <2>2 DEF SentIsHeld
<1>5. HeldOnce
  <2>1. SUFFICES ASSUME NEW p \in Places, NEW q \in Places, p # q
                 PROVE  Holds(p[1], p[2]) \cap Holds(q[1], q[2]) = {}
    BY DEF HeldOnce
  <2>2. PICK i \in DOMAIN Buffers : \E k \in DOMAIN Buffers[i].objs : p = <<i, k>>
    BY <1>1
  <2>3. PICK j \in DOMAIN Buffers : \E k \in DOMAIN Buffers[j].objs : q = <<j, k>>
    BY <1>1
  <2>4. PICK k \in DOMAIN Buffers[i].objs : p = <<i, k>>
    BY <2>2
  <2>5. PICK l \in DOMAIN Buffers[j].objs : q = <<j, l>>
    BY <2>3
  <2>6. CASE i = j
    BY <2>1, <2>4, <2>5, <2>6, WhatIsHeld
  <2>7. CASE i # j
    <3>1. Keeps(i) \cap Keeps(j) = {}
      BY <2>7, BuffersShareNone
    <3>2. Holds(i, k) \subseteq Keeps(i) /\ Holds(j, l) \subseteq Keeps(j)
      BY <1>3
    <3> QED BY <2>4, <2>5, <3>1, <3>2
  <2> QED BY <2>6, <2>7
<1> QED BY <1>4, <1>5

\* Whatever the object at which a transaction fails, and whatever the order in
\* which the target frees its buffers: every count is the number of objects that
\* hold it, and each descriptor that was sent belongs to one object.
THEOREM NothingEverLeaks == Spec => []NothingLeaks
<1>1. Init => Counted
  BY CountInitially
<1>2. IInv /\ IInv' /\ Counted /\ [Next]_vars => Counted'
  BY CountInductive
<1>3. Spec => []Counted
  BY <1>1, <1>2, Invariant, PTL DEF Spec
<1>4. IInv /\ Counted => NothingLeaks
  <2>1. SUFFICES ASSUME IInv, Counted PROVE NothingLeaks
    OBVIOUS
  <2>2. DOMAIN refs = Nodes \X BOOLEAN
    BY <2>1 DEF IInv, Typed
  <2>3. \A r : HoldersOf(r) = HoldersIn(Buffers, r)
    BY DEF HoldersOf, HoldersIn
  <2>4. CountsAreHeld
    BY <2>1, <2>2, <2>3 DEF CountsAreHeld, Counted, HoldsIn
  <2> QED BY <2>1, <2>4, DescriptorsHeld DEF NothingLeaks
<1> QED BY <1>3, <1>4, Invariant, PTL
=============================================================================
