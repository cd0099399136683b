------------------------- MODULE ServiceManagerProofs -------------------------
(***************************************************************************)
(* What holds of the service manager for any names, services and clients,  *)
(* any number of registrations, deaths and listings.                       *)
(*                                                                         *)
(* The inductive invariant says what work may be queued and that none of   *)
(* it clashes (Shape, Unique), that the references are counted and name    *)
(* different nodes (Refs, Counts), that the registry and the death records *)
(* agree (Registry, Watched, Obituaries), and that a listing has yet to    *)
(* come to the names it has not reported (Questions).                      *)
(***************************************************************************)
EXTENDS ServiceManager, FunctionTheorems, FiniteSetTheorems, SequenceTheorems,
        NaturalsInduction, WellFoundedInduction, TLAPS

RefSet == [node : Service \cup {NoService}, strong : Nat, death : Name \cup {NoName},
           told : BOOLEAN]
DriverSet == [refs : [Handle -> RefSet], todo : Seq(Work), own : Seq(Work)]
Entry == [name : Name, ptr : Handle \cup {NoHandle}, service : Service]

-----------------------------------------------------------------------------
(* Sets of the same size. *)

LEMMA Matched ==
  ASSUME NEW S, NEW T, NEW f \in [S -> T], IsFiniteSet(S) \/ IsFiniteSet(T),
         \A a, b \in S : f[a] = f[b] => a = b, \A t \in T : \E a \in S : f[a] = t
  PROVE  IsFiniteSet(S) /\ IsFiniteSet(T) /\ Cardinality(S) = Cardinality(T)
<1>1. f \in Bijection(S, T)
  BY Fun_IsBij
<1>2. ExistsBijection(S, T)
  BY <1>1 DEF ExistsBijection
<1>3. ExistsBijection(T, S)
  BY <1>2, Fun_ExistsBijSymmetric
<1>4. CASE IsFiniteSet(S)
  BY <1>2, <1>4, FS_Bijection
<1>5. CASE IsFiniteSet(T)
  BY <1>3, <1>5, FS_Bijection
<1> QED BY <1>4, <1>5

\* The indices of a list that lose their k-th member, or shift by one.
LEMMA Shifted ==
  ASSUME NEW S \in SUBSET Nat, NEW T \in SUBSET Nat, NEW k \in Nat, IsFiniteSet(T),
         k \notin T,
         \A i \in Nat : i \in S <=> (IF i < k THEN i ELSE i + 1) \in T,
         0 \in T => k # 0
  PROVE  IsFiniteSet(S) /\ Cardinality(S) = Cardinality(T)
<1> DEFINE up(i) == IF i < k THEN i ELSE i + 1
           f == [i \in S |-> up(i)]
<1>1. \A i \in S : i \in Nat /\ up(i) \in T /\ f[i] = up(i)
  OBVIOUS
<1>2. f \in [S -> T]
  BY <1>1
<1>3. \A i, j \in S : up(i) = up(j) => i = j
  BY <1>1
<1>4. ASSUME NEW t \in T PROVE \E i \in S : f[i] = t
  <2>1. t \in Nat /\ t # k
    OBVIOUS
  <2>2. CASE t < k
    <3>1. t \in S /\ up(t) = t
      BY <2>1, <2>2
    <3> QED BY <1>1, <3>1
  <2>3. CASE t > k
    <3>1. t - 1 \in Nat /\ ~(t - 1 < k) /\ (t - 1) + 1 = t
      BY <2>1, <2>3
    <3>2. t - 1 \in S /\ up(t - 1) = t
      BY <3>1
    <3> QED BY <1>1, <3>2
  <2> QED BY <2>1, <2>2, <2>3
<1>5. \A i, j \in S : f[i] = f[j] => i = j
  BY <1>1, <1>3
<1> HIDE DEF f, up
<1>6. \A t \in T : \E i \in S : f[i] = t
  BY <1>4
<1>7. PICK g \in [S -> T] : /\ \A a, b \in S : g[a] = g[b] => a = b
                           /\ \A t \in T : \E a \in S : g[a] = t
  BY <1>2, <1>5, <1>6
<1>8. IsFiniteSet(S) \/ IsFiniteSet(T)
  OBVIOUS
<1> QED BY <1>7, <1>8, Matched

LEMMA Handles == /\ Cardinality(Service) \in Nat /\ IsFiniteSet(Handle)
                 /\ Cardinality(Handle) = Cardinality(Service)
                 /\ \A h \in Handle : h \in Nat /\ h # NoHandle /\ 1..(h - 1) \subseteq Handle
<1>1. Cardinality(Service) \in Nat
  BY ServiceManagerAssumption, FS_CardinalityType
<1>2. IsFiniteSet(Handle) /\ Cardinality(Handle) = Cardinality(Service)
  BY <1>1, FS_Interval DEF Handle
<1> QED BY <1>1, <1>2 DEF Handle, NoHandle

-----------------------------------------------------------------------------
(* Lists of work. *)

Asking == {"check", "list"}

\* Work of which no two pieces are under way at once.
Clash(w, v) ==
  \/ w.type = "dead" /\ v.type = "dead" /\ w.handle = v.handle
  \/ w.type \in Asking /\ v.type \in Asking /\ w.client = v.client
Once(list) == \A i, j \in DOMAIN list : Clash(list[i], list[j]) => i = j

LEMMA RangeIs == ASSUME NEW list \in Seq(Work), NEW w
                 PROVE  w \in Range(list) <=> \E i \in 1..Len(list) : list[i] = w
BY LenProperties DEF Range

LEMMA FiniteAdds ==
  ASSUME NEW list \in Seq(Work), NEW h
  PROVE  /\ Adds(list, h) \in SUBSET (1..Len(list)) /\ IsFiniteSet(Adds(list, h))
         /\ Cardinality(Adds(list, h)) \in Nat
<1>1. Adds(list, h) \in SUBSET (1..Len(list)) /\ Len(list) \in Nat
  BY LenProperties DEF Adds
<1>2. IsFiniteSet(1..Len(list))
  BY <1>1, FS_Interval
<1> QED BY <1>1, <1>2, FS_Subset, FS_CardinalityType

LEMMA AppendList ==
  ASSUME NEW list \in Seq(Work), NEW w \in Work
  PROVE  /\ Append(list, w) \in Seq(Work)
         /\ Range(Append(list, w)) = Range(list) \cup {w}
         /\ Once(list) /\ (\A v \in Range(list) : ~Clash(v, w)) => Once(Append(list, w))
         /\ \A h : Cardinality(Adds(Append(list, w), h)) =
                     Cardinality(Adds(list, h))
                     + IF w.type = "add" /\ w.handle = h THEN 1 ELSE 0
<1> DEFINE new == Append(list, w)
<1>1. /\ new \in Seq(Work) /\ Len(new) = Len(list) + 1 /\ Len(list) \in Nat
      /\ DOMAIN new = 1..Len(list) + 1 /\ DOMAIN list = 1..Len(list)
      /\ \A i \in 1..Len(list) : new[i] = list[i]
      /\ new[Len(list) + 1] = w
  BY AppendProperties, LenProperties
<1> HIDE DEF new
<1>2. Range(new) = Range(list) \cup {w}
  BY <1>1 DEF Range
<1>3. ASSUME Once(list), \A v \in Range(list) : ~Clash(v, w) PROVE Once(new)
  <2> SUFFICES ASSUME NEW i \in DOMAIN new, NEW j \in DOMAIN new, Clash(new[i], new[j])
               PROVE  i = j
    BY DEF Once
  <2>1. \A k \in 1..Len(list) : ~Clash(list[k], w)
    BY <1>1, <1>3 DEF Range
  <2>2. CASE i \in 1..Len(list) /\ j \in 1..Len(list)
    BY <1>1, <1>3, <2>2 DEF Once
  <2>3. CASE i = Len(list) + 1 /\ j \in 1..Len(list)
    BY <1>1, <2>1, <2>3 DEF Clash
  <2>4. CASE j = Len(list) + 1 /\ i \in 1..Len(list)
    BY <1>1, <2>1, <2>4 DEF Clash
  <2> QED BY <1>1, <2>2, <2>3, <2>4
<1>4. ASSUME NEW h
      PROVE  Cardinality(Adds(new, h)) =
               Cardinality(Adds(list, h)) + IF w.type = "add" /\ w.handle = h THEN 1 ELSE 0
  <2>1. CASE w.type = "add" /\ w.handle = h
    <3>1. Adds(new, h) = Adds(list, h) \cup {Len(list) + 1} /\ Len(list) + 1 \notin Adds(list, h)
      BY <1>1, <2>1 DEF Adds
    <3> QED BY <2>1, <3>1, FiniteAdds, FS_AddElement
  <2>2. CASE ~(w.type = "add" /\ w.handle = h)
    <3>1. Adds(new, h) = Adds(list, h)
      BY <1>1, <2>2 DEF Adds
    <3> QED BY <2>2, <3>1, FiniteAdds
  <2> QED BY <2>1, <2>2
<1> QED BY <1>1, <1>2, <1>3, <1>4 DEF new

\* A list that loses the work at k.
LEMMA LosesOne ==
  ASSUME NEW list \in Seq(Work), NEW new \in Seq(Work), NEW k \in 1..Len(list),
         Len(new) = Len(list) - 1,
         \A i \in 1..Len(new) : new[i] = IF i < k THEN list[i] ELSE list[i + 1]
  PROVE  /\ Range(new) \subseteq Range(list)
         /\ Range(list) \subseteq Range(new) \cup {list[k]}
         /\ Once(list) => Once(new) /\ \A v \in Range(new) : ~Clash(list[k], v)
         /\ \A h : Cardinality(Adds(new, h)) =
                     Cardinality(Adds(list, h))
                     - IF list[k].type = "add" /\ list[k].handle = h THEN 1 ELSE 0
<1>1. /\ Len(list) \in Nat /\ Len(new) \in Nat /\ k \in Nat
      /\ DOMAIN list = 1..Len(list) /\ DOMAIN new = 1..Len(new)
  BY LenProperties
<1>2. Range(new) \subseteq Range(list)
  <2>1. ASSUME NEW i \in 1..Len(new) PROVE \E j \in 1..Len(list) : list[j] = new[i]
    <3>1. i \in 1..Len(list) /\ i + 1 \in 1..Len(list)
      BY <1>1
    <3> QED BY <3>1
  <2> SUFFICES ASSUME NEW w \in Range(new) PROVE w \in Range(list)
    OBVIOUS
  <2>2. PICK i \in 1..Len(new) : new[i] = w
    BY RangeIs
  <2> QED BY <2>1, <2>2, RangeIs
<1>3. Range(list) \subseteq Range(new) \cup {list[k]}
  <2>1. ASSUME NEW i \in 1..Len(list), i # k PROVE \E j \in 1..Len(new) : new[j] = list[i]
    <3>1. CASE i < k
      <4>1. i \in 1..Len(new)
        BY <1>1, <3>1
      <4> QED BY <3>1, <4>1
    <3>2. CASE i > k
      <4>1. i - 1 \in 1..Len(new) /\ ~(i - 1 < k) /\ (i - 1) + 1 = i
        BY <1>1, <3>2
      <4>2. new[i - 1] = list[(i - 1) + 1]
        BY <4>1
      <4> QED BY <4>1, <4>2
    <3> QED BY <1>1, <2>1, <3>1, <3>2
  <2> SUFFICES ASSUME NEW w \in Range(list), w # list[k] PROVE w \in Range(new)
    OBVIOUS
  <2>2. PICK i \in 1..Len(list) : list[i] = w
    BY RangeIs
  <2> QED BY <2>1, <2>2, RangeIs
<1>4. ASSUME Once(list) PROVE Once(new) /\ \A v \in Range(new) : ~Clash(list[k], v)
  <2> DEFINE up(i) == IF i < k THEN i ELSE i + 1
  <2>1. \A i \in 1..Len(new) : up(i) \in 1..Len(list) /\ up(i) # k /\ new[i] = list[up(i)]
    BY <1>1
  <2>2. \A i, j \in 1..Len(new) : up(i) = up(j) => i = j
    BY <1>1
  <2> HIDE DEF up
  <2>3. Once(new)
    BY <1>1, <1>4, <2>1, <2>2 DEF Once
  <2>4. \A i \in 1..Len(new) : ~Clash(list[k], new[i])
    BY <1>1, <1>4, <2>1 DEF Once
  <2> QED BY <1>1, <2>3, <2>4 DEF Range
<1>5. ASSUME NEW h
      PROVE  Cardinality(Adds(new, h)) =
               Cardinality(Adds(list, h))
               - IF list[k].type = "add" /\ list[k].handle = h THEN 1 ELSE 0
  <2> DEFINE T == Adds(list, h) \ {k}
             S == Adds(new, h)
  <2>1. ASSUME NEW i \in Nat PROVE i \in S <=> (IF i < k THEN i ELSE i + 1) \in T
    <3>1. CASE i \in 1..Len(new)
      BY <1>1, <3>1 DEF Adds
    <3>2. CASE i \notin 1..Len(new)
      <4>1. i \notin S
        BY <1>1, <3>2 DEF Adds
      <4>2. (IF i < k THEN i ELSE i + 1) \notin 1..Len(list) \ {k}
        BY <1>1, <3>2
      <4> QED BY <1>1, <4>1, <4>2 DEF Adds
    <3> QED BY <3>1, <3>2
  <2>2. S \in SUBSET Nat /\ T \in SUBSET Nat /\ k \notin T /\ 0 \notin T
    BY <1>1 DEF Adds
  <2>3. IsFiniteSet(Adds(list, h)) /\ Cardinality(Adds(list, h)) \in Nat
    BY FiniteAdds
  <2>4. /\ IsFiniteSet(T)
        /\ Cardinality(T) = IF k \in Adds(list, h) THEN Cardinality(Adds(list, h)) - 1
                            ELSE Cardinality(Adds(list, h))
    BY <2>3, FS_RemoveElement
  <2>5. k \in Adds(list, h) <=> list[k].type = "add" /\ list[k].handle = h
    BY <1>1 DEF Adds
  <2> HIDE DEF S, T
  <2>6. Cardinality(S) = Cardinality(T)
    BY <1>1, <2>1, <2>2, <2>4, Shifted
  <2>7. CASE list[k].type = "add" /\ list[k].handle = h
    BY <2>4, <2>5, <2>6, <2>7 DEF S
  <2>8. CASE ~(list[k].type = "add" /\ list[k].handle = h)
    BY <2>3, <2>4, <2>5, <2>6, <2>8 DEF S
  <2> QED BY <2>7, <2>8
<1> QED BY <1>2, <1>3, <1>4, <1>5

LEMMA TailList ==
  ASSUME NEW list \in Seq(Work), list # <<>>
  PROVE  /\ Tail(list) \in Seq(Work) /\ Head(list) \in Work /\ Head(list) \in Range(list)
         /\ Range(Tail(list)) \subseteq Range(list)
         /\ Once(list) => Once(Tail(list)) /\ \A v \in Range(Tail(list)) : ~Clash(Head(list), v)
         /\ \A h : Cardinality(Adds(Tail(list), h)) =
                     Cardinality(Adds(list, h))
                     - IF Head(list).type = "add" /\ Head(list).handle = h THEN 1 ELSE 0
<1>1. Len(list) \in Nat \ {0} /\ DOMAIN list = 1..Len(list)
  BY EmptySeq, LenProperties
<1>2. /\ Tail(list) \in Seq(Work) /\ Head(list) \in Work /\ Head(list) = list[1]
      /\ Len(Tail(list)) = Len(list) - 1
      /\ \A i \in 1..Len(Tail(list)) : Tail(list)[i] = list[i + 1]
  BY HeadTailProperties
<1>3. 1 \in 1..Len(list) /\ \A i \in 1..Len(Tail(list)) : Tail(list)[i] =
        IF i < 1 THEN list[i] ELSE list[i + 1]
  BY <1>1, <1>2
<1>4. Head(list) \in Range(list)
  BY <1>1, <1>2 DEF Range
<1> DEFINE new == Tail(list)
<1> HIDE DEF new
<1>5. /\ Range(new) \subseteq Range(list)
      /\ Once(list) => Once(new) /\ \A v \in Range(new) : ~Clash(list[1], v)
      /\ \A h : Cardinality(Adds(new, h)) =
                  Cardinality(Adds(list, h))
                  - IF list[1].type = "add" /\ list[1].handle = h THEN 1 ELSE 0
  <2>1. /\ new \in Seq(Work) /\ Len(new) = Len(list) - 1
        /\ \A i \in 1..Len(new) : new[i] = IF i < 1 THEN list[i] ELSE list[i + 1]
    BY <1>2, <1>3 DEF new
  <2> QED BY <1>3, <2>1, LosesOne
<1> QED BY <1>2, <1>4, <1>5 DEF new

\* The record of a reference is taken off a list that has one at most.
LEMMA WithoutList ==
  ASSUME NEW list \in Seq(Work), NEW h
  PROVE  /\ WithoutRecord(list, h) \in Seq(Work)
         /\ Range(WithoutRecord(list, h)) \subseteq Range(list)
         /\ Once(list) => /\ Once(WithoutRecord(list, h))
                          /\ \A v \in Range(WithoutRecord(list, h)) : ~IsRecord(v, h)
         /\ \A g : Cardinality(Adds(WithoutRecord(list, h), g)) = Cardinality(Adds(list, g))
<1> DEFINE new == WithoutRecord(list, h)
<1>0. Len(list) \in Nat /\ DOMAIN list = 1..Len(list) /\ \A i \in 1..Len(list) : list[i] \in Work
  BY LenProperties, ElementOfSeq
<1>1. CASE \A i \in DOMAIN list : ~IsRecord(list[i], h)
  <2>1. new = list
    BY <1>1 DEF WithoutRecord
  <2>2. \A v \in Range(list) : ~IsRecord(v, h)
    BY <1>1 DEF Range
  <2> QED BY <2>1, <2>2
<1>2. CASE ~\A i \in DOMAIN list : ~IsRecord(list[i], h)
  <2> DEFINE k == CHOOSE i \in DOMAIN list : IsRecord(list[i], h)
  <2>1. k \in 1..Len(list) /\ IsRecord(list[k], h)
    BY <1>0, <1>2
  <2>2. new = SubSeq(list, 1, k - 1) \o SubSeq(list, k + 1, Len(list))
    BY <1>2 DEF WithoutRecord, RemoveAt
  <2> HIDE DEF k
  <2>3. k - 1 \in Nat /\ k \in Nat /\ k <= Len(list) /\ 1 <= k
    BY <1>0, <2>1
  <2>4. /\ SubSeq(list, 1, k - 1) \in Seq(Work) /\ Len(SubSeq(list, 1, k - 1)) = k - 1
        /\ \A i \in 1..k - 1 : SubSeq(list, 1, k - 1)[i] = list[i]
    <3>1. \A i \in 1..k - 1 : list[i] \in Work
      BY <1>0, <2>3
    <3>2. /\ SubSeq(list, 1, k - 1) \in Seq(Work)
          /\ Len(SubSeq(list, 1, k - 1)) = IF 1 <= k - 1 THEN k - 1 - 1 + 1 ELSE 0
          /\ \A i \in 1..k - 1 - 1 + 1 : SubSeq(list, 1, k - 1)[i] = list[1 + i - 1]
      BY <2>3, <3>1, SubSeqProperties
    <3> QED BY <2>3, <3>2
  <2>5. /\ SubSeq(list, k + 1, Len(list)) \in Seq(Work)
        /\ Len(SubSeq(list, k + 1, Len(list))) = Len(list) - k
        /\ \A i \in 1..Len(list) - k : SubSeq(list, k + 1, Len(list))[i] = list[k + i]
    <3>1. \A i \in k + 1..Len(list) : list[i] \in Work
      BY <1>0, <2>3
    <3>2. /\ SubSeq(list, k + 1, Len(list)) \in Seq(Work)
          /\ Len(SubSeq(list, k + 1, Len(list))) =
               IF k + 1 <= Len(list) THEN Len(list) - (k + 1) + 1 ELSE 0
          /\ \A i \in 1..Len(list) - (k + 1) + 1 :
               SubSeq(list, k + 1, Len(list))[i] = list[(k + 1) + i - 1]
      BY <1>0, <2>3, <3>1, SubSeqProperties
    <3>0. Len(list) \in Nat /\ k \in Nat /\ k <= Len(list)
      BY <1>0, <2>3
    <3>3. /\ k + 1 <= Len(list) => Len(list) - (k + 1) + 1 = Len(list) - k
          /\ ~(k + 1 <= Len(list)) => Len(list) - k = 0
      BY <3>0
    <3>4. ASSUME NEW i \in 1..Len(list) - k
          PROVE  i \in 1..Len(list) - (k + 1) + 1 /\ (k + 1) + i - 1 = k + i
      BY <1>0, <2>3
    <3>5. Len(SubSeq(list, k + 1, Len(list))) = Len(list) - k
      BY <3>2, <3>3
    <3> QED BY <3>2, <3>4, <3>5
  <2> DEFINE a == SubSeq(list, 1, k - 1)
             b == SubSeq(list, k + 1, Len(list))
  <2> HIDE DEF a, b
  <2>6. /\ new \in Seq(Work) /\ Len(new) = Len(a) + Len(b)
        /\ \A i \in 1..Len(a) + Len(b) : new[i] = IF i <= Len(a) THEN a[i] ELSE b[i - Len(a)]
    <3>1. new = a \o b /\ a \in Seq(Work) /\ b \in Seq(Work)
      BY <2>2, <2>4, <2>5 DEF a, b
    <3> QED BY <3>1, ConcatProperties
  <2> HIDE DEF new
  <2>7. Len(new) = Len(list) - 1
    <3>1. Len(a) = k - 1 /\ Len(b) = Len(list) - k
      BY <2>4, <2>5 DEF a, b
    <3> QED BY <1>0, <2>3, <2>6, <3>1
  <2>8. ASSUME NEW i \in 1..Len(new)
        PROVE  new[i] = IF i < k THEN list[i] ELSE list[i + 1]
    <3>1. i \in Nat /\ 1 <= i /\ i <= Len(list) - 1 /\ Len(a) = k - 1
      BY <1>0, <2>4, <2>7 DEF a
    <3>2. CASE i < k
      <4>1. i \in 1..k - 1 /\ i <= Len(a) /\ i \in 1..Len(a) + Len(b)
        BY <1>0, <2>3, <2>6, <2>7, <3>1, <3>2
      <4>2. new[i] = a[i] /\ a[i] = list[i]
        BY <2>4, <2>6, <4>1 DEF a
      <4> QED BY <3>2, <4>2
    <3>3. CASE ~(i < k)
      <4>1. /\ ~(i <= Len(a)) /\ i \in 1..Len(a) + Len(b) /\ i - Len(a) = i - k + 1
            /\ i - k + 1 \in 1..Len(list) - k /\ k + (i - k + 1) = i + 1
        BY <1>0, <2>3, <2>6, <2>7, <3>1, <3>3
      <4>2. new[i] = b[i - k + 1]
        BY <2>6, <4>1
      <4>3. b[i - k + 1] = list[k + (i - k + 1)]
        BY <2>5, <4>1 DEF b
      <4> QED BY <3>3, <4>1, <4>2, <4>3
    <3> QED BY <3>2, <3>3
  <2>9. /\ Range(new) \subseteq Range(list)
        /\ Once(list) => Once(new) /\ \A v \in Range(new) : ~Clash(list[k], v)
        /\ \A g : Cardinality(Adds(new, g)) =
                    Cardinality(Adds(list, g))
                    - IF list[k].type = "add" /\ list[k].handle = g THEN 1 ELSE 0
    BY <2>1, <2>6, <2>7, <2>8, LosesOne
  <2>10. ASSUME NEW v, ~Clash(list[k], v) PROVE ~IsRecord(v, h)
    BY <2>1, <2>10 DEF Clash, IsRecord
  <2>11. ASSUME NEW g PROVE Cardinality(Adds(new, g)) = Cardinality(Adds(list, g))
    <3>1. list[k].type # "add"
      BY <2>1 DEF IsRecord
    <3> QED BY <2>9, <3>1, FiniteAdds
  <2> QED BY <2>6, <2>9, <2>10, <2>11 DEF new
<1> QED BY <1>1, <1>2

-----------------------------------------------------------------------------
(* The registry. *)

OneName(list) == \A i, j \in DOMAIN list : list[i].name = list[j].name => i = j
Find(list, n) ==
  IF n \in {list[i].name : i \in DOMAIN list}
  THEN list[CHOOSE i \in DOMAIN list : list[i].name = n].ptr ELSE NoHandle

\* The entries with a handle, but for that of one name.
EntriesBut(list, g, n) == {i \in DOMAIN list : list[i].ptr = g /\ list[i].name # n}

LEMMA FindIs == \A n : do_find_service(n) = Find(svclist, n)
BY DEF do_find_service, Names, Index, Find

LEMMA Found ==
  ASSUME NEW list, OneName(list), NEW i \in DOMAIN list
  PROVE  Find(list, list[i].name) = list[i].ptr
<1> DEFINE n == list[i].name
           j == CHOOSE k \in DOMAIN list : list[k].name = n
<1>1. j \in DOMAIN list /\ list[j].name = n
  OBVIOUS
<1>2. j = i
  BY <1>1 DEF OneName
<1>3. n \in {list[k].name : k \in DOMAIN list}
  OBVIOUS
<1>4. Find(list, n) = list[j].ptr
  BY <1>3 DEF Find
<1> QED BY <1>2, <1>4

LEMMA NotFound ==
  ASSUME NEW list, NEW n, \A i \in DOMAIN list : list[i].name # n
  PROVE  Find(list, n) = NoHandle
BY DEF Find

LEMMA FindType ==
  ASSUME NEW list \in Seq(Entry), OneName(list), NEW n
  PROVE  /\ Find(list, n) \in Handle \cup {NoHandle}
         /\ Find(list, n) # NoHandle =>
              \E i \in DOMAIN list : list[i].name = n /\ list[i].ptr = Find(list, n)
<1>0. DOMAIN list = 1..Len(list) /\ \A i \in 1..Len(list) : list[i] \in Entry
  BY LenProperties, ElementOfSeq
<1>1. CASE \A i \in DOMAIN list : list[i].name # n
  BY <1>1, NotFound
<1>2. CASE \E i \in DOMAIN list : list[i].name = n
  <2>1. PICK i \in DOMAIN list : list[i].name = n
    BY <1>2
  <2>2. Find(list, n) = list[i].ptr
    BY <2>1, Found
  <2> QED BY <1>0, <2>1, <2>2 DEF Entry
<1> QED BY <1>1, <1>2

LEMMA FiniteEntries ==
  ASSUME NEW list \in Seq(Entry), NEW g, NEW n
  PROVE  /\ EntriesBut(list, g, n) \in SUBSET (1..Len(list))
         /\ IsFiniteSet(EntriesBut(list, g, n))
         /\ Cardinality(EntriesBut(list, g, n)) \in Nat
<1>1. EntriesBut(list, g, n) \in SUBSET (1..Len(list)) /\ Len(list) \in Nat
  BY LenProperties DEF EntriesBut
<1>2. IsFiniteSet(1..Len(list))
  BY <1>1, FS_Interval
<1> QED BY <1>1, <1>2, FS_Subset, FS_CardinalityType

\* A name has one of the entries of its handle.
LEMMA EntryOfName ==
  ASSUME NEW list \in Seq(Entry), OneName(list), NEW n \in Name, NEW g \in Handle
  PROVE  Cardinality(EntriesBut(list, g, NoName)) =
           Cardinality(EntriesBut(list, g, n)) + IF Find(list, n) = g THEN 1 ELSE 0
<1>0. /\ DOMAIN list = 1..Len(list) /\ \A i \in DOMAIN list : list[i].name \in Name
      /\ g # NoHandle
  <2>1. DOMAIN list = 1..Len(list) /\ \A i \in 1..Len(list) : list[i] \in Entry
    BY LenProperties, ElementOfSeq
  <2>2. \A e \in Entry : e.name \in Name
    BY DEF Entry
  <2> QED BY <2>1, <2>2, Handles
<1>1. EntriesBut(list, g, NoName) = {i \in DOMAIN list : list[i].ptr = g}
  BY <1>0, ServiceManagerAssumption DEF EntriesBut
<1>2. CASE Find(list, n) = g
  <2>1. PICK i \in DOMAIN list : list[i].name = n /\ list[i].ptr = g
    BY <1>0, <1>2, FindType
  <2>2. \A j \in DOMAIN list : list[j].name = n => j = i
    BY <2>1 DEF OneName
  <2>3. /\ EntriesBut(list, g, NoName) = EntriesBut(list, g, n) \cup {i}
        /\ i \notin EntriesBut(list, g, n)
    BY <1>1, <2>1, <2>2 DEF EntriesBut
  <2> QED BY <1>2, <2>3, FiniteEntries, FS_AddElement
<1>3. CASE Find(list, n) # g
  <2>1. ASSUME NEW i \in DOMAIN list, list[i].ptr = g PROVE list[i].name # n
    BY <1>3, <2>1, Found
  <2>2. EntriesBut(list, g, NoName) = EntriesBut(list, g, n)
    BY <1>1, <2>1 DEF EntriesBut
  <2> QED BY <1>3, <2>2, FiniteEntries
<1> QED BY <1>2, <1>3

\* The registry with a new pointer p for the name n, in its entry or in a new one.
Renewed(new, n, p, s) ==
  /\ new \in Seq(Entry) /\ OneName(new)
  /\ \A m : Find(new, m) = IF m = n THEN p ELSE Find(svclist, m)
  /\ \A i \in DOMAIN new :
       /\ new[i].name # n => \E j \in DOMAIN svclist : new[i] = svclist[j]
       /\ new[i].name = n => new[i].ptr = p /\ (p # NoHandle => new[i].service = s)
  /\ \A j \in DOMAIN svclist :
       \E i \in DOMAIN new : j <= i /\ new[i].name = svclist[j].name
  /\ \A g : Cardinality(EntriesBut(new, g, n)) = Cardinality(EntriesBut(svclist, g, n))

LEMMA RenewsEntry ==
  ASSUME svclist \in Seq(Entry), OneName(svclist), NEW k \in DOMAIN svclist, NEW e \in Entry,
         e.name = svclist[k].name
  PROVE  Renewed([svclist EXCEPT ![k] = e], e.name, e.ptr, e.service)
<1> DEFINE new == [svclist EXCEPT ![k] = e]
<1>1. /\ new \in Seq(Entry) /\ DOMAIN new = DOMAIN svclist /\ Len(new) = Len(svclist)
      /\ \A i \in DOMAIN svclist : new[i] = IF i = k THEN e ELSE svclist[i]
  BY LenProperties, ExceptSeq
<1>2. DOMAIN svclist = 1..Len(svclist) /\ Len(svclist) \in Nat
  BY LenProperties
<1> HIDE DEF new
<1>3. \A i \in DOMAIN svclist : new[i].name = svclist[i].name
  BY <1>1
<1>4. OneName(new)
  BY <1>1, <1>3 DEF OneName
<1>5. ASSUME NEW m PROVE Find(new, m) = IF m = e.name THEN e.ptr ELSE Find(svclist, m)
  <2>1. CASE m = e.name
    <3>1. Find(new, new[k].name) = new[k].ptr
      BY <1>1, <1>4, Found
    <3> QED BY <1>1, <2>1, <3>1
  <2>2. CASE m # e.name /\ \E i \in DOMAIN svclist : svclist[i].name = m
    <3>1. PICK i \in DOMAIN svclist : svclist[i].name = m
      BY <2>2
    <3>2. Find(new, new[i].name) = new[i].ptr /\ Find(svclist, svclist[i].name) = svclist[i].ptr
      BY <1>1, <1>4, Found
    <3>3. i # k
      BY <2>2, <3>1
    <3> QED BY <1>1, <2>2, <3>1, <3>2, <3>3
  <2>3. CASE m # e.name /\ \A i \in DOMAIN svclist : svclist[i].name # m
    <3>1. \A i \in DOMAIN new : new[i].name # m
      BY <1>1, <1>3, <2>3
    <3>2. Find(new, m) = NoHandle /\ Find(svclist, m) = NoHandle
      BY <2>3, <3>1, NotFound
    <3> QED BY <2>3, <3>2
  <2> QED BY <2>1, <2>2, <2>3
<1>6. ASSUME NEW i \in DOMAIN new
      PROVE  /\ new[i].name # e.name => \E j \in DOMAIN svclist : new[i] = svclist[j]
             /\ new[i].name = e.name => new[i].ptr = e.ptr
                                        /\ (e.ptr # NoHandle => new[i].service = e.service)
  <2>1. CASE i = k
    BY <1>1, <2>1
  <2>2. CASE i # k
    <3>1. new[i] = svclist[i] /\ new[i].name # e.name
      BY <1>1, <2>2 DEF OneName
    <3> QED BY <1>1, <3>1
  <2> QED BY <2>1, <2>2
<1>7. \A j \in DOMAIN svclist : \E i \in DOMAIN new : j <= i /\ new[i].name = svclist[j].name
  BY <1>1, <1>2, <1>3
<1>8. \A g : EntriesBut(new, g, e.name) = EntriesBut(svclist, g, e.name)
  BY <1>1 DEF EntriesBut
<1>9. \A g : Cardinality(EntriesBut(new, g, e.name)) = Cardinality(EntriesBut(svclist, g, e.name))
  BY <1>8
<1> QED BY <1>1, <1>4, <1>5, <1>6, <1>7, <1>9 DEF Renewed, new

LEMMA RenewsFront ==
  ASSUME svclist \in Seq(Entry), OneName(svclist), NEW e \in Entry,
         \A i \in DOMAIN svclist : svclist[i].name # e.name
  PROVE  Renewed(<<e>> \o svclist, e.name, e.ptr, e.service)
<1> DEFINE new == <<e>> \o svclist
<1>1. DOMAIN svclist = 1..Len(svclist) /\ Len(svclist) \in Nat
  BY LenProperties
<1>2. /\ new \in Seq(Entry) /\ DOMAIN new = 1..Len(svclist) + 1 /\ new[1] = e
      /\ \A i \in 1..Len(svclist) : new[i + 1] = svclist[i]
  <2>1. <<e>> \in Seq(Entry) /\ Len(<<e>>) = 1 /\ <<e>>[1] = e
    OBVIOUS
  <2>2. /\ new \in Seq(Entry) /\ Len(new) = 1 + Len(svclist)
        /\ \A i \in 1..1 + Len(svclist) : new[i] = IF i <= 1 THEN <<e>>[i] ELSE svclist[i - 1]
    BY <2>1, ConcatProperties
  <2>3. DOMAIN new = 1..Len(new)
    BY <2>2, LenProperties
  <2> HIDE DEF new
  <2>4. new[1] = e
    BY <1>1, <2>1, <2>2
  <2>5. ASSUME NEW i \in 1..Len(svclist) PROVE new[i + 1] = svclist[i]
    <3>1. i + 1 \in 1..1 + Len(svclist) /\ ~(i + 1 <= 1) /\ (i + 1) - 1 = i
      BY <1>1
    <3>2. new[i + 1] = svclist[(i + 1) - 1]
      BY <2>2, <3>1
    <3> QED BY <3>1, <3>2
  <2>6. 1..Len(new) = 1..Len(svclist) + 1
    BY <1>1, <2>2
  <2> QED BY <2>2, <2>3, <2>4, <2>5, <2>6
<1> HIDE DEF new
<1>3. ASSUME NEW i \in DOMAIN new, i # 1
      PROVE  i - 1 \in DOMAIN svclist /\ new[i] = svclist[i - 1]
  <2>1. i - 1 \in 1..Len(svclist) /\ (i - 1) + 1 = i
    BY <1>1, <1>2, <1>3
  <2>2. new[(i - 1) + 1] = svclist[i - 1]
    BY <1>2, <2>1
  <2> QED BY <1>1, <2>1, <2>2
<1>4. \A i \in DOMAIN new : new[i].name = e.name <=> i = 1
  BY <1>2, <1>3
<1>5. OneName(new)
  <2> SUFFICES ASSUME NEW i \in DOMAIN new, NEW j \in DOMAIN new, new[i].name = new[j].name
               PROVE  i = j
    BY DEF OneName
  <2>1. CASE i = 1 \/ j = 1
    BY <1>2, <1>4, <2>1
  <2>2. CASE i # 1 /\ j # 1
    <3>1. i - 1 = j - 1
      BY <1>3, <2>2 DEF OneName
    <3>2. i \in Nat /\ j \in Nat
      BY <1>2
    <3> QED BY <3>1, <3>2
  <2> QED BY <2>1, <2>2
<1>6. ASSUME NEW m PROVE Find(new, m) = IF m = e.name THEN e.ptr ELSE Find(svclist, m)
  <2>0. 1 \in DOMAIN new
    BY <1>1, <1>2
  <2>1. CASE m = e.name
    <3>1. Find(new, new[1].name) = new[1].ptr
      BY <1>5, <2>0, Found
    <3> QED BY <1>2, <2>1, <3>1
  <2>2. CASE m # e.name /\ \E i \in DOMAIN svclist : svclist[i].name = m
    <3>1. PICK i \in DOMAIN svclist : svclist[i].name = m
      BY <2>2
    <3>2. i + 1 \in DOMAIN new /\ new[i + 1] = svclist[i]
      BY <1>1, <1>2
    <3>3. Find(new, new[i + 1].name) = new[i + 1].ptr
          /\ Find(svclist, svclist[i].name) = svclist[i].ptr
      BY <1>5, <3>2, Found
    <3> QED BY <2>2, <3>1, <3>2, <3>3
  <2>3. CASE m # e.name /\ \A i \in DOMAIN svclist : svclist[i].name # m
    <3>1. \A i \in DOMAIN new : new[i].name # m
      BY <1>2, <1>3, <2>3
    <3>2. Find(new, m) = NoHandle /\ Find(svclist, m) = NoHandle
      BY <2>3, <3>1, NotFound
    <3> QED BY <2>3, <3>2
  <2> QED BY <2>1, <2>2, <2>3
<1>7. ASSUME NEW i \in DOMAIN new
      PROVE  /\ new[i].name # e.name => \E j \in DOMAIN svclist : new[i] = svclist[j]
             /\ new[i].name = e.name => new[i].ptr = e.ptr
                                        /\ (e.ptr # NoHandle => new[i].service = e.service)
  BY <1>2, <1>3, <1>4
<1>8. ASSUME NEW j \in DOMAIN svclist
      PROVE  \E i \in DOMAIN new : j <= i /\ new[i].name = svclist[j].name
  <2>1. j + 1 \in DOMAIN new /\ new[j + 1] = svclist[j] /\ j <= j + 1
    BY <1>1, <1>2
  <2> QED BY <2>1
<1>9. ASSUME NEW g
      PROVE  Cardinality(EntriesBut(new, g, e.name)) = Cardinality(EntriesBut(svclist, g, e.name))
  <2> DEFINE S == EntriesBut(svclist, g, e.name)
             T == EntriesBut(new, g, e.name)
  <2>1. /\ S \in SUBSET Nat /\ T \in SUBSET Nat /\ IsFiniteSet(T) /\ 1 \notin T
        /\ 0 \notin T /\ 0 \notin S
    <3>1. S \in SUBSET (1..Len(svclist)) /\ T \in SUBSET (1..Len(new)) /\ IsFiniteSet(T)
      BY <1>2, FiniteEntries
    <3>2. 1 \notin T
      BY <1>4 DEF EntriesBut
    <3> HIDE DEF S, T
    <3> QED BY <3>1, <3>2
  <2>2. ASSUME NEW i \in Nat PROVE i \in S <=> (IF i < 1 THEN i ELSE i + 1) \in T
    <3>1. CASE i < 1
      <4>1. i = 0
        BY <3>1
      <4> QED BY <2>1, <3>1, <4>1
    <3>2. CASE i \in 1..Len(svclist)
      <4>1. i + 1 \in DOMAIN new /\ new[i + 1] = svclist[i] /\ i \in DOMAIN svclist /\ ~(i < 1)
        BY <1>1, <1>2, <3>2
      <4> QED BY <4>1 DEF EntriesBut
    <3>3. CASE i > Len(svclist) /\ i >= 1
      <4>1. i \notin DOMAIN svclist /\ i + 1 \notin DOMAIN new /\ ~(i < 1)
        BY <1>1, <1>2, <3>3
      <4> QED BY <4>1 DEF EntriesBut
    <3> QED BY <1>1, <3>1, <3>2, <3>3
  <2> HIDE DEF S, T
  <2>3. Cardinality(S) = Cardinality(T)
    BY <2>1, <2>2, Shifted
  <2> QED BY <2>3 DEF S, T
<1> QED BY <1>2, <1>5, <1>6, <1>7, <1>8, <1>9 DEF Renewed, new

LEMMA RegisterRenews ==
  ASSUME svclist \in Seq(Entry), OneName(svclist), NEW n \in Name, NEW h \in Handle,
         NEW s \in Service
  PROVE  Renewed(Registered(n, h, s), n, h, s)
<1> DEFINE e == [name |-> n, ptr |-> h, service |-> s]
<1>1. e \in Entry /\ e.name = n /\ e.ptr = h /\ e.service = s
  BY DEF Entry
<1>2. DOMAIN svclist = 1..Len(svclist) /\ \A i \in DOMAIN svclist : svclist[i] \in Entry
  BY LenProperties, ElementOfSeq
<1>3. CASE n \in Names
  <2> DEFINE k == Index(n)
  <2>1. k \in DOMAIN svclist /\ svclist[k].name = n
    BY <1>3 DEF Names, Index
  <2>2. Registered(n, h, s) = [svclist EXCEPT ![k] = e]
    BY <1>3 DEF Registered
  <2> HIDE DEF k
  <2> HIDE DEF e
  <2> QED BY <1>1, <2>1, <2>2, RenewsEntry
<1>4. CASE n \notin Names
  <2>1. Registered(n, h, s) = <<e>> \o svclist
    BY <1>4 DEF Registered
  <2>2. \A i \in DOMAIN svclist : svclist[i].name # n
    BY <1>4 DEF Names
  <2> HIDE DEF e
  <2> QED BY <1>1, <2>1, <2>2, RenewsFront
<1> QED BY <1>3, <1>4

LEMMA ForgetRenews ==
  ASSUME svclist \in Seq(Entry), OneName(svclist), NEW n, Find(svclist, n) # NoHandle, NEW s
  PROVE  Renewed(Forgotten(n), n, NoHandle, s)
<1>1. DOMAIN svclist = 1..Len(svclist) /\ \A i \in DOMAIN svclist : svclist[i] \in Entry
  BY LenProperties, ElementOfSeq
<1>2. \E i \in DOMAIN svclist : svclist[i].name = n
  BY NotFound
<1> DEFINE k == Index(n)
           e == [svclist[k] EXCEPT !.ptr = NoHandle]
<1>3. k \in DOMAIN svclist /\ svclist[k].name = n
  BY <1>2 DEF Index
<1>4. Forgotten(n) = [svclist EXCEPT ![k] = e]
  BY DEF Forgotten
<1> HIDE DEF k
<1>5. e \in Entry /\ e.name = n /\ e.ptr = NoHandle
  BY <1>1, <1>3 DEF Entry
<1> HIDE DEF e
<1>6. Renewed(Forgotten(n), n, NoHandle, e.service)
  BY <1>3, <1>4, <1>5, RenewsEntry
<1> QED BY <1>6 DEF Renewed

-----------------------------------------------------------------------------
(* The driver. *)

LEMMA HasMin ==
  ASSUME NEW S \in SUBSET Nat, S # {}
  PROVE  \E m \in S : \A x \in S : m <= x
<1> DEFINE R == {p \in Nat \X Nat : p[1] < p[2]}
<1>1. IsWellFoundedOn(R, Nat)
  BY NatLessThanWellFounded, Zenon DEF OpToRel
<1>2. \A x, y \in Nat : <<y, x>> \in R <=> y < x
  OBVIOUS
<1> HIDE DEF R
<1>3. PICK m \in S : \A y \in S : ~ (<<y, m>> \in R)
  BY <1>1, WFMin
<1>4. ASSUME NEW y \in S PROVE m <= y
  <2>1. ~ (y < m)
    BY <1>2, <1>3
  <2> QED BY <2>1
<1> QED BY <1>4

\* A handle that is in use has a node of its own.
RefsOK(refs) ==
  /\ \A h \in Handle : /\ refs[h].strong = 0 => refs[h] = NoRef
                       /\ refs[h].strong # 0 => refs[h].node \in Service
  /\ \A g, h \in Handle : refs[g].node = refs[h].node /\ refs[g].node # NoService => g = h

LEMMA RefsAfter ==
  ASSUME NEW refs, NEW new, NEW h \in Handle, RefsOK(refs),
         \A g \in Handle \ {h} : new[g] = refs[g],
         \/ new[h] = NoRef
         \/ new[h].strong # 0 /\ new[h].node = refs[h].node /\ refs[h].node \in Service
  PROVE  RefsOK(new)
<1>0. NoRef.strong = 0 /\ NoRef.node = NoService /\ NoService \notin Service
  BY ServiceManagerAssumption DEF NoRef
<1>1. CASE new[h] = NoRef
  BY <1>0, <1>1 DEF RefsOK
<1>2. CASE new[h].strong # 0 /\ new[h].node = refs[h].node /\ refs[h].node \in Service
  BY <1>2 DEF RefsOK
<1> QED BY <1>1, <1>2

LEMMA RefTypes ==
  ASSUME NEW d \in DriverSet
  PROVE  /\ d.refs \in [Handle -> RefSet] /\ d.todo \in Seq(Work) /\ d.own \in Seq(Work)
         /\ \A h \in Handle : /\ d.refs[h] \in RefSet /\ d.refs[h].strong \in Nat
                              /\ d.refs[h].node \in Service \cup {NoService}
                              /\ d.refs[h].death \in Name \cup {NoName}
<1>1. d.refs \in [Handle -> RefSet] /\ d.todo \in Seq(Work) /\ d.own \in Seq(Work)
  BY DEF DriverSet
<1>2. \A r \in RefSet : /\ r.strong \in Nat /\ r.node \in Service \cup {NoService}
                        /\ r.death \in Name \cup {NoName}
  BY DEF RefSet
<1> QED BY <1>1, <1>2

LEMMA NoRefIs == /\ NoRef \in RefSet /\ NoRef.strong = 0 /\ NoRef.node = NoService
                 /\ NoRef.death = NoName /\ NoRef.node \notin Service
BY ServiceManagerAssumption DEF NoRef, RefSet

\* One handle of the driver, and the work lists, before and after.
Changed(d, new, h) ==
  /\ new \in DriverSet
  /\ \A g \in Handle \ {h} : new.refs[g] = d.refs[g]

LEMMA SetRef ==
  ASSUME NEW d \in DriverSet, NEW h \in Handle, NEW r \in RefSet
  PROVE  /\ Changed(d, [d EXCEPT !.refs[h] = r], h)
         /\ [d EXCEPT !.refs[h] = r].refs[h] = r
         /\ [d EXCEPT !.refs[h] = r].todo = d.todo /\ [d EXCEPT !.refs[h] = r].own = d.own
BY DEF Changed, DriverSet

LEMMA IncRefIs ==
  ASSUME NEW d \in DriverSet, NEW h \in Handle
  PROVE  /\ Changed(d, IncRef(d, h), h)
         /\ IncRef(d, h).todo = d.todo /\ IncRef(d, h).own = d.own
         /\ IncRef(d, h).refs[h].strong = d.refs[h].strong + 1
         /\ IncRef(d, h).refs[h].node = d.refs[h].node
         /\ IncRef(d, h).refs[h].death = d.refs[h].death
<1> DEFINE r == [d.refs[h] EXCEPT !.strong = @ + 1]
<1>1. /\ r \in RefSet /\ r.strong = d.refs[h].strong + 1 /\ r.node = d.refs[h].node
      /\ r.death = d.refs[h].death
  BY RefTypes DEF RefSet
<1>2. IncRef(d, h) = [d EXCEPT !.refs[h] = r]
  BY DEF IncRef
<1> HIDE DEF r
<1> QED BY <1>1, <1>2, SetRef

LEMMA DecRefIs ==
  ASSUME NEW d \in DriverSet, NEW h \in Handle, d.refs[h].strong # 0
  PROVE  /\ Changed(d, DecRef(d, h), h)
         /\ Range(DecRef(d, h).todo) \subseteq Range(d.todo)
         /\ Range(DecRef(d, h).own) \subseteq Range(d.own)
         /\ Once(d.todo) => Once(DecRef(d, h).todo)
         /\ Once(d.own) => Once(DecRef(d, h).own)
         /\ \A g : Cardinality(Adds(DecRef(d, h).todo, g)) = Cardinality(Adds(d.todo, g))
         /\ DecRef(d, h).refs[h].strong = d.refs[h].strong - 1
         /\ d.refs[h].strong # 1 =>
              /\ DecRef(d, h).refs[h].node = d.refs[h].node
              /\ DecRef(d, h).refs[h].death = d.refs[h].death
         /\ d.refs[h].strong = 1 =>
              /\ DecRef(d, h).refs[h] = NoRef
              /\ Once(d.todo) => \A w \in Range(DecRef(d, h).todo) : ~IsRecord(w, h)
              /\ Once(d.own) => \A w \in Range(DecRef(d, h).own) : ~IsRecord(w, h)
<1>0. d.refs[h].strong \in Nat \ {0} /\ d.todo \in Seq(Work) /\ d.own \in Seq(Work)
  BY RefTypes
<1>1. CASE d.refs[h].strong > 1
  <2> DEFINE r == [d.refs[h] EXCEPT !.strong = @ - 1]
  <2>1. /\ r \in RefSet /\ r.strong = d.refs[h].strong - 1 /\ r.node = d.refs[h].node
        /\ r.death = d.refs[h].death
    <3>1. d.refs[h] \in RefSet /\ d.refs[h].strong - 1 \in Nat
      BY <1>0, <1>1, RefTypes
    <3> QED BY <3>1 DEF RefSet
  <2>2. DecRef(d, h) = [d EXCEPT !.refs[h] = r]
    BY <1>1 DEF DecRef
  <2> HIDE DEF r
  <2> DEFINE new == [d EXCEPT !.refs[h] = r]
  <2>3. Changed(d, new, h) /\ new.refs[h] = r /\ new.todo = d.todo /\ new.own = d.own
    BY <2>1, SetRef
  <2> HIDE DEF new
  <2> QED BY <1>0, <1>1, <2>1, <2>2, <2>3 DEF new
<1>2. CASE d.refs[h].strong = 1
  <2> DEFINE new == DecRef(d, h)
  <2>1. /\ new.refs = [d.refs EXCEPT ![h] = NoRef] /\ new.todo = WithoutRecord(d.todo, h)
        /\ new.own = WithoutRecord(d.own, h)
        /\ new = [refs |-> new.refs, todo |-> new.todo, own |-> new.own]
    BY <1>2 DEF DecRef
  <2> HIDE DEF new
  <2>2. /\ new.todo \in Seq(Work) /\ Range(new.todo) \subseteq Range(d.todo)
        /\ Once(d.todo) => Once(new.todo) /\ \A v \in Range(new.todo) : ~IsRecord(v, h)
        /\ \A g : Cardinality(Adds(new.todo, g)) = Cardinality(Adds(d.todo, g))
    BY <1>0, <2>1, WithoutList
  <2>3. /\ new.own \in Seq(Work) /\ Range(new.own) \subseteq Range(d.own)
        /\ Once(d.own) => Once(new.own) /\ \A v \in Range(new.own) : ~IsRecord(v, h)
    BY <1>0, <2>1, WithoutList
  <2>4. /\ new.refs \in [Handle -> RefSet] /\ new.refs[h] = NoRef
        /\ \A g \in Handle \ {h} : new.refs[g] = d.refs[g]
    BY <2>1, RefTypes, NoRefIs
  <2>5. new \in DriverSet
    BY <2>1, <2>2, <2>3, <2>4 DEF DriverSet
  <2>6. new.refs[h].strong = d.refs[h].strong - 1
    BY <1>2, <2>4, NoRefIs
  <2> QED BY <1>2, <2>2, <2>3, <2>4, <2>5, <2>6 DEF new, Changed
<1> QED BY <1>0, <1>1, <1>2

LEMMA SendIs ==
  ASSUME NEW d \in DriverSet, NEW w \in Work
  PROVE  /\ Send(d, w) \in DriverSet /\ Send(d, w).refs = d.refs /\ Send(d, w).own = d.own
         /\ Send(d, w).todo = Append(d.todo, w)
<1>1. Append(d.todo, w) \in Seq(Work)
  BY RefTypes, AppendList
<1> DEFINE list == Append(d.todo, w)
<1>2. Send(d, w) = [d EXCEPT !.todo = list]
  BY DEF Send
<1> HIDE DEF list
<1> QED BY <1>1, <1>2 DEF DriverSet, list

\* Each node has one reference and there are as many handles as services.
LEMMA FreeHandle ==
  ASSUME NEW d \in DriverSet, RefsOK(d.refs), NEW s \in Service,
         \A h \in Handle : d.refs[h].node # s
  PROVE  \E h \in Handle : d.refs[h] = NoRef /\ \A g \in 1..(h - 1) : d.refs[g] # NoRef
<1> DEFINE free == {h \in Handle : d.refs[h] = NoRef}
<1>1. free # {}
  <2> SUFFICES ASSUME \A h \in Handle : d.refs[h] # NoRef PROVE FALSE
    OBVIOUS
  <2> DEFINE f == [h \in Handle |-> d.refs[h].node]
             T == Service \ {s}
  <2>1. \A h \in Handle : d.refs[h].node \in Service
    BY DEF RefsOK
  <2>2. f \in [Handle -> T]
    BY <2>1
  <2>3. \A g, h \in Handle : f[g] = f[h] => g = h
    BY <2>1, ServiceManagerAssumption DEF RefsOK
  <2>4. /\ IsFiniteSet(T) /\ IsFiniteSet(Handle) /\ Cardinality(Handle) = Cardinality(Service)
        /\ Cardinality(T) = Cardinality(Service) - 1 /\ Cardinality(Service) \in Nat
    BY Handles, ServiceManagerAssumption, FS_RemoveElement
  <2>5. Cardinality(T) < Cardinality(Handle)
    BY <2>4
  <2> HIDE DEF f, T
  <2>6. PICK g \in [Handle -> T] : \A a, b \in Handle : g[a] = g[b] => a = b
    BY <2>2, <2>3
  <2>7. \E a, b \in Handle : a # b /\ g[a] = g[b]
    BY <2>4, <2>5, FS_PigeonHole
  <2> QED BY <2>6, <2>7
<1>2. free \in SUBSET Nat
  BY Handles
<1>3. PICK h \in free : \A g \in free : h <= g
  <2> HIDE DEF free
  <2> QED BY <1>1, <1>2, HasMin
<1>4. ASSUME NEW g \in 1..(h - 1) PROVE d.refs[g] # NoRef
  <2>1. h \in Handle /\ h \in Nat /\ g \in Handle /\ g \in Nat /\ g < h
    BY Handles
  <2>2. ~(h <= g)
    BY <2>1
  <2> QED BY <1>3, <2>1, <2>2
<1> QED BY <1>3, <1>4

LEMMA HandleForIs ==
  ASSUME NEW d \in DriverSet, RefsOK(d.refs), NEW s \in Service
  PROVE  /\ HandleFor(d, s) \in Handle
         /\ \/ d.refs[HandleFor(d, s)].node = s
            \/ d.refs[HandleFor(d, s)] = NoRef /\ \A g \in Handle : d.refs[g].node # s
<1>1. CASE \E h \in Handle : d.refs[h].node = s
  BY <1>1 DEF HandleFor
<1>2. CASE \A h \in Handle : d.refs[h].node # s
  <2> DEFINE P(h) == d.refs[h] = NoRef /\ \A g \in 1..(h - 1) : d.refs[g] # NoRef
  <2>1. HandleFor(d, s) = CHOOSE h \in Handle : P(h)
    BY <1>2 DEF HandleFor
  <2>2. \E h \in Handle : P(h)
    BY <1>2, FreeHandle
  <2>3. HandleFor(d, s) \in Handle /\ P(HandleFor(d, s))
    <3> HIDE DEF P
    <3> QED BY <2>1, <2>2
  <2> QED BY <1>2, <2>3
<1> QED BY <1>1, <1>2

LEMMA TranslateIs ==
  ASSUME NEW d \in DriverSet, RefsOK(d.refs), NEW s \in Service, NEW h, h = HandleFor(d, s)
  PROVE  /\ h \in Handle /\ Changed(d, TranslateBinder(d, s), h)
         /\ TranslateBinder(d, s).todo = d.todo /\ TranslateBinder(d, s).own = d.own
         /\ TranslateBinder(d, s).refs[h].strong = d.refs[h].strong + 1
         /\ TranslateBinder(d, s).refs[h].node = s
         /\ TranslateBinder(d, s).refs[h].death = d.refs[h].death
         /\ RefsOK(TranslateBinder(d, s).refs)
         /\ d.refs[h].node = s \/ d.refs[h] = NoRef
<1> DEFINE r == [d.refs[h] EXCEPT !.node = s]
           mid == [d EXCEPT !.refs[h] = r]
           new == IncRef(mid, h)
<1>0. h \in Handle /\ d.refs[h] \in RefSet /\ d.refs[h].strong \in Nat
  BY HandleForIs, RefTypes
<1>1. r \in RefSet /\ r.strong = d.refs[h].strong /\ r.node = s /\ r.death = d.refs[h].death
  BY <1>0 DEF RefSet
<1>2. TranslateBinder(d, s) = new
  BY DEF TranslateBinder
<1> HIDE DEF r
<1>3. Changed(d, mid, h) /\ mid.refs[h] = r /\ mid.todo = d.todo /\ mid.own = d.own
  BY <1>0, <1>1, SetRef
<1> HIDE DEF mid
<1>4. mid \in DriverSet
  BY <1>3 DEF Changed
<1>5. /\ Changed(mid, new, h) /\ new.todo = d.todo /\ new.own = d.own
      /\ new.refs[h].strong = d.refs[h].strong + 1 /\ new.refs[h].node = s
      /\ new.refs[h].death = d.refs[h].death
  BY <1>0, <1>1, <1>3, <1>4, IncRefIs
<1> HIDE DEF new
<1>6. Changed(d, new, h)
  BY <1>3, <1>5 DEF Changed
<1>7. RefsOK(new.refs)
  <2>1. \A g \in Handle \ {h} : new.refs[g] = d.refs[g] /\ d.refs[g].node # s
    BY <1>0, <1>6, HandleForIs, ServiceManagerAssumption DEF Changed, RefsOK
  <2>2. new.refs[h].strong # 0 /\ new.refs[h].node = s
    BY <1>0, <1>5
  <2> QED BY <2>1, <2>2 DEF RefsOK
<1> QED BY <1>0, <1>2, <1>5, <1>6, <1>7, HandleForIs

LEMMA LinkIs ==
  ASSUME NEW d \in DriverSet, NEW n \in Name, NEW h \in Handle
  PROVE  /\ Changed(d, LinkToDeath(d, n, h), h)
         /\ LinkToDeath(d, n, h).todo = d.todo
         /\ LinkToDeath(d, n, h).refs[h].strong = d.refs[h].strong
         /\ LinkToDeath(d, n, h).refs[h].node = d.refs[h].node
         /\ d.refs[h].death # NoName => LinkToDeath(d, n, h) = d
         /\ d.refs[h].death = NoName => LinkToDeath(d, n, h).refs[h].death = n
         /\ d.refs[h].death = NoName /\ d.refs[h].node \notin alive =>
              LinkToDeath(d, n, h).own = Append(d.own, Obituary(n, h))
         /\ d.refs[h].death = NoName /\ d.refs[h].node \in alive =>
              LinkToDeath(d, n, h).own = d.own
<1>1. CASE d.refs[h].death # NoName
  BY <1>1 DEF LinkToDeath, Changed
<1>2. CASE d.refs[h].death = NoName
  <2> DEFINE r == [d.refs[h] EXCEPT !.death = n]
             list == IF d.refs[h].node \in alive THEN d.own ELSE Append(d.own, Obituary(n, h))
             mid == [d EXCEPT !.refs[h] = r]
             new == [mid EXCEPT !.own = list]
  <2>1. r \in RefSet /\ r.strong = d.refs[h].strong /\ r.node = d.refs[h].node /\ r.death = n
    <3>1. d.refs[h] \in RefSet
      BY RefTypes
    <3> QED BY <3>1 DEF RefSet
  <2>2. list \in Seq(Work)
    <3>1. Obituary(n, h) \in Work /\ d.own \in Seq(Work)
      BY RefTypes, Handles DEF Obituary, NoWork, Work, NoHandle
    <3> QED BY <3>1, AppendList
  <2>3. LinkToDeath(d, n, h) = new
    BY <1>2 DEF LinkToDeath
  <2> HIDE DEF r
  <2>4. Changed(d, mid, h) /\ mid.refs[h] = r /\ mid.todo = d.todo
    BY <2>1, SetRef
  <2> HIDE DEF mid
  <2>5. /\ new \in DriverSet /\ new.refs = mid.refs /\ new.todo = mid.todo /\ new.own = list
    <3>1. mid \in DriverSet
      BY <2>4 DEF Changed
    <3> HIDE DEF list
    <3> QED BY <2>2, <3>1 DEF DriverSet
  <2> HIDE DEF new
  <2> QED BY <1>2, <2>1, <2>3, <2>4, <2>5, ServiceManagerAssumption DEF Changed
<1> QED BY <1>1, <1>2

LEMMA ReleaseIs ==
  ASSUME NEW d \in DriverSet, RefsOK(d.refs), NEW s \in Service
  PROVE  /\ NodeRelease(d, s) \in DriverSet
         /\ NodeRelease(d, s).refs = d.refs /\ NodeRelease(d, s).own = d.own
         /\ \/ NodeRelease(d, s) = d
            \/ \E h \in Handle :
                 /\ d.refs[h].node = s /\ d.refs[h].death # NoName
                 /\ NodeRelease(d, s).todo = Append(d.todo, Obituary(d.refs[h].death, h))
<1>1. CASE Linked(d, s) = {}
  BY <1>1 DEF NodeRelease
<1>2. CASE Linked(d, s) # {}
  <2> DEFINE h == CHOOSE h \in Linked(d, s) : TRUE
             w == Obituary(d.refs[h].death, h)
             list == Append(d.todo, w)
             new == [d EXCEPT !.todo = list]
  <2>1. NodeRelease(d, s) = new
    BY <1>2 DEF NodeRelease
  <2>2. h \in Handle /\ d.refs[h].node = s /\ d.refs[h].death # NoName
    BY <1>2 DEF Linked
  <2> HIDE DEF h
  <2>3. w \in Work
    <3>1. d.refs[h].death \in Name /\ h \in Nat
      BY <2>2, RefTypes, Handles
    <3> QED BY <3>1 DEF Obituary, NoWork, Work, NoHandle
  <2> HIDE DEF w
  <2>4. list \in Seq(Work)
    BY <2>3, RefTypes, AppendList
  <2>5. new \in DriverSet /\ new.refs = d.refs /\ new.own = d.own /\ new.todo = list
    <3> HIDE DEF list
    <3> QED BY <2>4 DEF DriverSet
  <2> HIDE DEF new
  <2> QED BY <2>1, <2>2, <2>5 DEF w
<1> QED BY <1>1, <1>2

LEMMA DeliveredIs ==
  ASSUME NEW d \in DriverSet, NEW w, w.type = "dead" => w.handle \in Handle
  PROVE  /\ Delivered(d.refs, w) \in [Handle -> RefSet]
         /\ \A g \in Handle : /\ Delivered(d.refs, w)[g].strong = d.refs[g].strong
                              /\ Delivered(d.refs, w)[g].node = d.refs[g].node
                              /\ Delivered(d.refs, w)[g].death = d.refs[g].death
                              /\ ~(w.type = "dead" /\ w.handle = g) =>
                                   Delivered(d.refs, w)[g] = d.refs[g]
<1>1. CASE w.type # "dead"
  BY <1>1, RefTypes DEF Delivered
<1>2. CASE w.type = "dead"
  <2> DEFINE h == w.handle
             r == [d.refs[h] EXCEPT !.told = TRUE]
  <2>1. h \in Handle /\ d.refs[h] \in RefSet /\ d.refs \in [Handle -> RefSet]
    BY <1>2, RefTypes
  <2>2. /\ r \in RefSet /\ r.strong = d.refs[h].strong /\ r.node = d.refs[h].node
        /\ r.death = d.refs[h].death
    BY <2>1 DEF RefSet
  <2>3. Delivered(d.refs, w) = [d.refs EXCEPT ![h] = r]
    BY <1>2 DEF Delivered
  <2> HIDE DEF r
  <2> QED BY <1>2, <2>1, <2>2, <2>3
<1> QED BY <1>1, <1>2

-----------------------------------------------------------------------------
(* The inductive invariant. *)

Pending == Range(driver.own) \cup Range(driver.todo) \cup {mgr.work}

IsDead(w) == w.type = "dead" /\ w.name \in Name /\ w.handle \in Handle
IsAdd(w)  == w.type = "add" /\ w.name \in Name /\ w.handle \in Handle
Queued(w) == IsDead(w) \/ IsAdd(w) \/ (w.type \in Asking /\ w.client \in Client)
InWork == mgr.at \in {"acquire", "link", "reply"}
Linking == mgr.at \in {"acquire", "link"}

\* What may be queued, and what the manager may be at.
Shape ==
  /\ \A w \in Range(driver.own) : IsDead(w)
  /\ \A w \in Range(driver.todo) : Queued(w)
  /\ mgr.at = "reading" => mgr.work = NoWork
  /\ mgr.at = "handling" => Queued(mgr.work)
  /\ InWork => IsAdd(mgr.work)

\* A reference has one obituary, and a client one question, under way.
Unique ==
  /\ Once(driver.own) /\ Once(driver.todo)
  /\ \A w \in Range(driver.own), v \in Range(driver.todo) : ~Clash(w, v)
  /\ \A w \in Range(driver.own) \cup Range(driver.todo) : ~Clash(mgr.work, w)

Refs == RefsOK(driver.refs)

\* The entry of this name has yet to take its reference.
Skipped == IF mgr.at = "acquire" THEN mgr.work.name ELSE NoName
Counts ==
  \A h \in Handle :
    driver.refs[h].strong =
      Cardinality(Adds(driver.todo, h))
      + (IF mgr.work.type = "add" /\ mgr.work.handle = h THEN 1 ELSE 0)
      + Cardinality(EntriesBut(svclist, h, Skipped))

\* An entry's handle is that of its service, and is watched when it is linked.
Registry ==
  /\ OneName(svclist)
  /\ \A i \in DOMAIN svclist :
       svclist[i].ptr # NoHandle =>
         /\ driver.refs[svclist[i].ptr].node = svclist[i].service
         /\ ~(Linking /\ mgr.work.name = svclist[i].name) =>
              driver.refs[svclist[i].ptr].death # NoName
  /\ Linking => Find(svclist, mgr.work.name) = mgr.work.handle

\* While the service lives, the record of its death names its entry.
Watched ==
  \A h \in Handle :
    driver.refs[h].death # NoName /\ driver.refs[h].node \in alive
      => Find(svclist, driver.refs[h].death) = h

\* So does an obituary until it is handled.
Addressed(w) ==
  w.type = "dead" =>
    /\ driver.refs[w.handle].death = w.name
    /\ Find(svclist, w.name) = w.handle
    /\ driver.refs[w.handle].node \in Service \ alive
Obituaries == \A w \in Pending : Addressed(w)

\* A listing has yet to come to the names it has not reported.
Asked(w) ==
  /\ w.type = "check" => client[w.client].doing = "get"
  /\ w.type = "list" =>
       /\ client[w.client].doing = "list"
       /\ \A n \in client[w.client].before :
            Reported(n) \notin client[w.client].seen =>
              \E j \in DOMAIN svclist : j > w.handle /\ svclist[j].name = n
Questions ==
  /\ \A w \in Pending : Asked(w)
  /\ \A c \in Client : client[c].doing = "sleep" => client[c].tries < MaxTries

IInv ==
  /\ TypeOK /\ Shape /\ Unique /\ Refs /\ Counts /\ Registry /\ Watched /\ Obituaries
  /\ Questions /\ ListingIsComplete

-----------------------------------------------------------------------------
(* What the invariant says of a step's parts. *)

MgrSet == [at : {"reading", "handling", "acquire", "link", "reply"}, work : Work]
ClientSet == [doing : {"idle", "get", "sleep", "list", "listed"}, name : Name \cup {NoName},
              tries : 0..MaxTries, lists : 0..MaxLists,
              seen : SUBSET (Name \cup {NoName}), before : SUBSET Name]

LEMMA Types ==
  TypeOK <=> /\ svclist \in Seq(Entry) /\ driver \in DriverSet /\ mgr \in MgrSet
             /\ alive \subseteq Service /\ adds \in 0..MaxAdds
             /\ client \in [Client -> ClientSet]
BY DEF TypeOK, Entry, DriverSet, RefSet, MgrSet, ClientSet

LEMMA Typed ==
  ASSUME TypeOK
  PROVE  /\ svclist \in Seq(Entry) /\ driver \in DriverSet /\ mgr \in MgrSet
         /\ alive \subseteq Service /\ client \in [Client -> ClientSet]
         /\ driver.todo \in Seq(Work) /\ driver.own \in Seq(Work) /\ mgr.work \in Work
         /\ DOMAIN svclist = 1..Len(svclist) /\ Len(svclist) \in Nat
         /\ \A i \in DOMAIN svclist : /\ svclist[i] \in Entry /\ svclist[i].name \in Name
                                      /\ svclist[i].ptr \in Handle \cup {NoHandle}
                                      /\ svclist[i].service \in Service
<1>1. svclist \in Seq(Entry) /\ driver \in DriverSet /\ mgr \in MgrSet
      /\ alive \subseteq Service /\ client \in [Client -> ClientSet]
  BY Types
<1>2. mgr.work \in Work /\ driver.todo \in Seq(Work) /\ driver.own \in Seq(Work)
  BY <1>1, RefTypes DEF MgrSet
<1>3. /\ DOMAIN svclist = 1..Len(svclist) /\ Len(svclist) \in Nat
      /\ \A i \in DOMAIN svclist : svclist[i] \in Entry
  BY <1>1, LenProperties, ElementOfSeq
<1>4. \A e \in Entry : /\ e.name \in Name /\ e.ptr \in Handle \cup {NoHandle}
                       /\ e.service \in Service
  BY DEF Entry
<1> QED BY <1>1, <1>2, <1>3, <1>4

LEMMA NoWorkIs == /\ NoWork \in Work /\ NoWork.type = "none"
                  /\ \A w : ~Clash(NoWork, w) /\ ~Clash(w, NoWork)
BY Handles DEF NoWork, Work, NoHandle, Clash, Asking

LEMMA ClashSymmetric == \A w, v : Clash(w, v) => Clash(v, w)
BY DEF Clash

\* A reference with a node or a death record is in use.
LEMMA InUse ==
  ASSUME IInv, NEW h \in Handle
  PROVE  /\ driver.refs[h].strong \in Nat
         /\ driver.refs[h] # NoRef <=> driver.refs[h].strong # 0
         /\ driver.refs[h] # NoRef => driver.refs[h].node \in Service
         /\ driver.refs[h].node # NoService => driver.refs[h] # NoRef
         /\ driver.refs[h].death # NoName => driver.refs[h] # NoRef
<1>1. driver \in DriverSet /\ RefsOK(driver.refs)
  BY Typed DEF IInv, Refs
<1> QED BY <1>1, RefTypes, NoRefIs DEF RefsOK

\* So is one with a buffer or an entry.
LEMMA Held ==
  ASSUME IInv, NEW h \in Handle,
         \/ mgr.work.type = "add" /\ mgr.work.handle = h
         \/ \E i \in DOMAIN svclist : svclist[i].ptr = h /\ svclist[i].name # Skipped
  PROVE  driver.refs[h].strong # 0
<1> DEFINE a == Cardinality(Adds(driver.todo, h))
           b == IF mgr.work.type = "add" /\ mgr.work.handle = h THEN 1 ELSE 0
           T == EntriesBut(svclist, h, Skipped)
           e == Cardinality(T)
<1>1. a \in Nat /\ b \in Nat /\ e \in Nat /\ IsFiniteSet(T)
  BY Typed, FiniteAdds, FiniteEntries DEF IInv
<1>2. driver.refs[h].strong = a + b + e
  BY DEF IInv, Counts
<1>3. CASE mgr.work.type = "add" /\ mgr.work.handle = h
  BY <1>1, <1>2, <1>3
<1>4. CASE \E i \in DOMAIN svclist : svclist[i].ptr = h /\ svclist[i].name # Skipped
  <2>1. T # {}
    BY <1>4 DEF EntriesBut
  <2>2. e # 0
    <3> HIDE DEF T
    <3> QED BY <1>1, <2>1, FS_EmptySet
  <2> HIDE DEF a, b, e, T
  <2> QED BY <1>1, <1>2, <2>2
<1> QED BY <1>3, <1>4

\* Steps after which the references in use mean what they did.
LEMMA Quiet ==
  ASSUME IInv, TypeOK', UNCHANGED <<svclist, alive>>,
         \A g \in Handle :
           /\ driver'.refs[g].death = driver.refs[g].death
           /\ driver'.refs[g].node = driver.refs[g].node \/ driver.refs[g] = NoRef,
         \A w \in Pending' : w \in Pending \/ w.type # "dead",
         Linking' <=> Linking, Linking => mgr'.work = mgr.work
  PROVE  Registry' /\ Watched' /\ Obituaries'
<1>1. \A g \in Handle : driver.refs[g].node # NoService \/ driver.refs[g].death # NoName =>
        driver'.refs[g].node = driver.refs[g].node
  BY InUse
<1>2. Registry'
  <2>1. OneName(svclist') /\ (Linking => Find(svclist', mgr'.work.name) = mgr'.work.handle)
    BY DEF IInv, Registry
  <2>2. ASSUME NEW i \in DOMAIN svclist, svclist[i].ptr # NoHandle
        PROVE  /\ driver'.refs[svclist[i].ptr].node = svclist[i].service
               /\ ~(Linking /\ mgr.work.name = svclist[i].name) =>
                    driver'.refs[svclist[i].ptr].death # NoName
    <3>1. svclist[i].ptr \in Handle /\ svclist[i].service \in Service
      BY <2>2, Typed DEF IInv
    <3> QED BY <1>1, <2>2, <3>1, ServiceManagerAssumption DEF IInv, Registry
  <2>3. Linking /\ mgr.work.name = mgr.work.name => mgr'.work = mgr.work
    OBVIOUS
  <2> QED BY <2>1, <2>2, <2>3 DEF Registry
<1>3. Watched'
  BY <1>1 DEF IInv, Watched
<1>4. Obituaries'
  <2> SUFFICES ASSUME NEW w \in Pending', w.type = "dead" PROVE Addressed(w)'
    BY DEF Obituaries, Addressed
  <2>1. w \in Pending
    OBVIOUS
  <2>2. w.handle \in Handle /\ w.name \in Name
    <3>1. \/ w \in Range(driver.own) \/ w \in Range(driver.todo) \/ w = mgr.work
      BY <2>1 DEF Pending
    <3>2. mgr.work.type = "dead" => mgr.at = "handling"
      BY NoWorkIs, Typed DEF IInv, Shape, MgrSet, InWork, IsAdd
    <3>3. IsDead(w)
      BY <3>1, <3>2 DEF IInv, Shape, Queued, IsAdd, Asking
    <3> QED BY <3>3 DEF IsDead
  <2>3. /\ driver.refs[w.handle].death = w.name /\ Find(svclist, w.name) = w.handle
        /\ driver.refs[w.handle].node \in Service \ alive
    BY <2>1 DEF IInv, Obituaries, Addressed
  <2> QED BY <1>1, <2>2, <2>3, ServiceManagerAssumption DEF Addressed
<1> QED BY <1>2, <1>3, <1>4

LEMMA QuietClients ==
  ASSUME IInv, UNCHANGED <<svclist, client>>,
         \A w \in Pending' : w \in Pending \/ w.type \notin Asking
  PROVE  Questions' /\ ListingIsComplete'
<1>1. ASSUME NEW w \in Pending' PROVE Asked(w)'
  BY DEF IInv, Questions, Asked, Asking
<1>2. ListingIsComplete'
  BY DEF IInv, ListingIsComplete
<1> QED BY <1>1, <1>2 DEF IInv, Questions

\* Work is sent to the process.
LEMMA Sends ==
  ASSUME IInv, NEW w \in Work, Queued(w),
         driver'.own = driver.own, driver'.todo = Append(driver.todo, w),
         mgr' = mgr \/ (mgr'.at = "reading" /\ mgr'.work = NoWork),
         \A v \in Range(driver.own) \cup Range(driver.todo) \cup {mgr'.work} : ~Clash(v, w)
  PROVE  Shape' /\ Unique' /\ Pending' \subseteq Pending \cup {w, NoWork}
<1>1. driver.todo \in Seq(Work)
  BY Typed DEF IInv
<1>2. /\ Range(driver'.todo) = Range(driver.todo) \cup {w}
      /\ Once(driver'.todo)
  BY <1>1, AppendList DEF IInv, Unique
<1>3. mgr'.work = mgr.work \/ mgr'.work = NoWork
  OBVIOUS
<1>4. Pending' \subseteq Pending \cup {w, NoWork}
  BY <1>2, <1>3 DEF Pending
<1>5. Shape'
  <2>1. \A v \in Range(driver'.own) : IsDead(v)
    BY DEF IInv, Shape
  <2>2. \A v \in Range(driver'.todo) : Queued(v)
    BY <1>2 DEF IInv, Shape
  <2>3. /\ mgr'.at = "reading" => mgr'.work = NoWork
        /\ mgr'.at = "handling" => Queued(mgr'.work)
        /\ InWork' => IsAdd(mgr'.work)
    BY DEF IInv, Shape, InWork
  <2> QED BY <2>1, <2>2, <2>3 DEF Shape
<1>6. Unique'
  <2>1. Once(driver'.own) /\ \A v \in Range(driver'.own), u \in Range(driver'.todo) : ~Clash(v, u)
    BY <1>2 DEF IInv, Unique
  <2>2. \A v \in Range(driver.own) \cup Range(driver.todo) : ~Clash(mgr'.work, v)
    BY <1>3, NoWorkIs DEF IInv, Unique
  <2>3. ~Clash(mgr'.work, w)
    OBVIOUS
  <2> QED BY <1>2, <2>1, <2>2, <2>3 DEF Unique
<1> QED BY <1>4, <1>5, <1>6

\* The manager goes on with its work or ends it, and no work is added.
LEMMA GoesOn ==
  ASSUME IInv, Range(driver'.own) \subseteq Range(driver.own),
         Range(driver'.todo) \subseteq Range(driver.todo),
         Once(driver'.own), Once(driver'.todo),
         \/ mgr'.at = "reading" /\ mgr'.work = NoWork
         \/ mgr'.at # "reading" /\ mgr'.work = mgr.work /\ IsAdd(mgr.work)
  PROVE  Shape' /\ Unique' /\ Pending' \subseteq Pending \cup {NoWork}
<1>1. mgr'.work = mgr.work \/ mgr'.work = NoWork
  OBVIOUS
<1>2. Pending' \subseteq Pending \cup {NoWork}
  BY <1>1 DEF Pending
<1>3. Shape'
  BY DEF IInv, Shape, InWork, Queued
<1>4. Unique'
  BY <1>1, NoWorkIs DEF IInv, Unique
<1> QED BY <1>2, <1>3, <1>4

-----------------------------------------------------------------------------
(* The steps. *)

LEMMA InitIs == Init => IInv
<1> SUFFICES ASSUME Init PROVE IInv
  OBVIOUS
<1>1. /\ svclist = <<>> /\ driver.refs = [h \in Handle |-> NoRef] /\ driver.todo = <<>>
      /\ driver.own = <<>> /\ mgr.at = "reading" /\ mgr.work = NoWork /\ alive = Service
      /\ adds = 0 /\ mgr \in MgrSet
  BY NoWorkIs DEF Init, MgrSet
<1>2. <<>> \in Seq(Work) /\ <<>> \in Seq(Entry)
  OBVIOUS
<1>3. \A h \in Handle : driver.refs[h] = NoRef
  BY <1>1
<1>4. /\ client \in [Client -> ClientSet]
      /\ \A c \in Client : client[c].doing = "idle"
  <2>1. [doing |-> "idle", name |-> NoName, tries |-> 0, lists |-> 0, seen |-> {},
         before |-> {}] \in ClientSet
    BY ServiceManagerAssumption DEF ClientSet
  <2> QED BY <2>1 DEF Init
<1>5. TypeOK
  <2>1. driver \in DriverSet
    <3>1. driver = [refs |-> driver.refs, todo |-> driver.todo, own |-> driver.own]
      BY DEF Init
    <3>2. driver.refs \in [Handle -> RefSet]
      BY <1>1, NoRefIs
    <3> QED BY <1>1, <1>2, <3>1, <3>2 DEF DriverSet
  <2> QED BY <1>1, <1>2, <1>4, <2>1, Types, ServiceManagerAssumption
<1>6. Range(driver.own) = {} /\ Range(driver.todo) = {} /\ Pending = {NoWork}
  BY <1>1 DEF Range, Pending
<1>7. Shape /\ Unique
  BY <1>1, <1>6, NoWorkIs DEF Shape, Unique, Once, InWork
<1>8. Refs
  BY <1>3, NoRefIs DEF Refs, RefsOK
<1>9. Counts
  <2>1. \A h \in Handle : Adds(driver.todo, h) = {} /\ EntriesBut(svclist, h, Skipped) = {}
    BY <1>1 DEF Adds, EntriesBut
  <2>2. \A h \in Handle : driver.refs[h].strong = 0
    BY <1>3, NoRefIs
  <2>3. Cardinality({}) = 0 /\ mgr.work.type # "add"
    BY <1>1, FS_EmptySet, NoWorkIs
  <2>4. ASSUME NEW h \in Handle
        PROVE  /\ Cardinality(Adds(driver.todo, h)) = 0
               /\ Cardinality(EntriesBut(svclist, h, Skipped)) = 0
    BY <2>1, <2>3
  <2> QED BY <2>2, <2>3, <2>4 DEF Counts
<1>10. Registry
  BY <1>1 DEF Registry, OneName, Linking
<1>11. Watched
  BY <1>3, NoRefIs DEF Watched
<1>12. Obituaries /\ Questions /\ ListingIsComplete
  BY <1>4, <1>6, NoWorkIs DEF Obituaries, Addressed, Questions, Asked, ListingIsComplete
<1> QED BY <1>5, <1>7, <1>8, <1>9, <1>10, <1>11, <1>12 DEF IInv

\* The manager is not at anything else than it was.
LEMMA SameManager ==
  ASSUME UNCHANGED <<svclist, mgr>>
  PROVE  /\ Linking' <=> Linking
         /\ Skipped' = Skipped
BY DEF Linking, Skipped

LEMMA AddServiceStep ==
  ASSUME IInv, NEW s \in Service, NEW n \in Name, addService(s, n)
  PROVE  IInv'
<1> DEFINE h == HandleFor(driver, s)
           d == TranslateBinder(driver, s)
           w == [NoWork EXCEPT !.type = "add", !.name = n, !.handle = h]
<1>0. /\ UNCHANGED <<svclist, mgr, alive, client>> /\ adds' \in 0..MaxAdds
      /\ driver' = Send(d, w) /\ s \in alive
  BY Typed, ServiceManagerAssumption DEF addService, IInv, TypeOK
<1>1. driver \in DriverSet /\ RefsOK(driver.refs)
  BY Typed DEF IInv, Refs
<1>2. /\ h \in Handle /\ Changed(driver, d, h) /\ d.todo = driver.todo /\ d.own = driver.own
      /\ d.refs[h].strong = driver.refs[h].strong + 1 /\ d.refs[h].node = s
      /\ d.refs[h].death = driver.refs[h].death /\ RefsOK(d.refs)
      /\ driver.refs[h].node = s \/ driver.refs[h] = NoRef
  BY <1>1, TranslateIs
<1> HIDE DEF h, d
<1>3. w \in Work /\ w.type = "add" /\ w.name = n /\ w.handle = h /\ IsAdd(w)
  <2>1. h \in Nat
    BY <1>2, Handles
  <2> QED BY <1>2, <2>1, NoWorkIs DEF Work, NoWork, IsAdd
<1> HIDE DEF w
<1>4. /\ driver' \in DriverSet /\ driver'.refs = d.refs /\ driver'.own = driver.own
      /\ driver'.todo = Append(driver.todo, w)
  BY <1>0, <1>2, <1>3, SendIs DEF Changed
<1>5. TypeOK'
  <2>1. svclist' \in Seq(Entry) /\ mgr' \in MgrSet /\ alive' \subseteq Service
        /\ client' \in [Client -> ClientSet]
    BY <1>0, Typed DEF IInv
  <2> QED BY <1>0, <1>4, <2>1 DEF TypeOK, Entry, DriverSet, RefSet, MgrSet, ClientSet
<1>6. Shape' /\ Unique' /\ Pending' \subseteq Pending \cup {w, NoWork}
  <2>1. \A v : ~Clash(v, w)
    BY <1>3 DEF Clash, Asking
  <2> QED BY <1>0, <1>3, <1>4, <2>1, Sends DEF Queued
<1>7. Refs'
  BY <1>2, <1>4 DEF Refs
<1>8. Counts'
  <2> SUFFICES ASSUME NEW g \in Handle
      PROVE  driver'.refs[g].strong =
               Cardinality(Adds(driver'.todo, g))
               + (IF mgr'.work.type = "add" /\ mgr'.work.handle = g THEN 1 ELSE 0)
               + Cardinality(EntriesBut(svclist', g, Skipped'))
    BY DEF Counts
  <2> DEFINE a == Cardinality(Adds(driver.todo, g))
             b == IF mgr.work.type = "add" /\ mgr.work.handle = g THEN 1 ELSE 0
             e == Cardinality(EntriesBut(svclist, g, Skipped))
             a1 == Cardinality(Adds(driver'.todo, g))
  <2>1. driver.refs[g].strong = a + b + e
    BY DEF IInv, Counts
  <2>2. a \in Nat /\ b \in Nat /\ e \in Nat
    BY Typed, FiniteAdds, FiniteEntries DEF IInv
  <2>3. a1 = a + IF w.type = "add" /\ w.handle = g THEN 1 ELSE 0
    BY <1>3, <1>4, Typed, AppendList DEF IInv
  <2>4. b = (IF mgr'.work.type = "add" /\ mgr'.work.handle = g THEN 1 ELSE 0)
        /\ e = Cardinality(EntriesBut(svclist', g, Skipped'))
    BY <1>0, SameManager
  <2>5. driver'.refs[g].strong = a1 + b + e
    <3> HIDE DEF a, b, e, a1
    <3>1. CASE g = h
      BY <1>2, <1>3, <1>4, <2>1, <2>2, <2>3, <3>1
    <3>2. CASE g # h
      BY <1>2, <1>3, <1>4, <2>1, <2>2, <2>3, <3>2 DEF Changed
    <3> QED BY <3>1, <3>2
  <2> QED BY <2>4, <2>5
<1>9. Registry' /\ Watched' /\ Obituaries'
  <2>1. \A g \in Handle :
           /\ driver'.refs[g].death = driver.refs[g].death
           /\ driver'.refs[g].node = driver.refs[g].node \/ driver.refs[g] = NoRef
    BY <1>2, <1>4 DEF Changed
  <2>2. \A v \in Pending' : v \in Pending \/ v.type # "dead"
    BY <1>3, <1>6, NoWorkIs
  <2>3. (Linking' <=> Linking) /\ (Linking => mgr'.work = mgr.work)
    BY <1>0, SameManager
  <2>4. UNCHANGED <<svclist, alive>>
    BY <1>0
  <2> QED BY <1>5, <2>1, <2>2, <2>3, <2>4, Quiet
<1>10. Questions' /\ ListingIsComplete'
  <2>1. \A v \in Pending' : v \in Pending \/ v.type \notin Asking
    BY <1>3, <1>6, NoWorkIs DEF Asking
  <2> QED BY <1>0, <2>1, QuietClients
<1> QED BY <1>5, <1>6, <1>7, <1>8, <1>9, <1>10 DEF IInv

\* The references are those before, and work that is no buffer comes or goes.
LEMMA SameCounts ==
  ASSUME IInv, UNCHANGED svclist, Skipped' = Skipped,
         \A g \in Handle :
           /\ driver'.refs[g].strong = driver.refs[g].strong
           /\ Cardinality(Adds(driver'.todo, g)) = Cardinality(Adds(driver.todo, g)),
         mgr'.work = mgr.work \/ (mgr.work.type # "add" /\ mgr'.work.type # "add")
  PROVE  Counts'
<1> SUFFICES ASSUME NEW g \in Handle
    PROVE  driver'.refs[g].strong =
             Cardinality(Adds(driver'.todo, g))
             + (IF mgr'.work.type = "add" /\ mgr'.work.handle = g THEN 1 ELSE 0)
             + Cardinality(EntriesBut(svclist', g, Skipped'))
  BY DEF Counts
<1>1. driver.refs[g].strong =
        Cardinality(Adds(driver.todo, g))
        + (IF mgr.work.type = "add" /\ mgr.work.handle = g THEN 1 ELSE 0)
        + Cardinality(EntriesBut(svclist, g, Skipped))
  BY DEF IInv, Counts
<1>2. (IF mgr'.work.type = "add" /\ mgr'.work.handle = g THEN 1 ELSE 0)
        = (IF mgr.work.type = "add" /\ mgr.work.handle = g THEN 1 ELSE 0)
  OBVIOUS
<1> QED BY <1>1, <1>2

\* A client, of which nothing else is under way, asks.
LEMMA AsksStep ==
  ASSUME IInv, NEW w \in Work, w.type \in Asking, w.client \in Client,
         driver' = Send(driver, w), UNCHANGED <<svclist, alive, adds>>,
         client' \in [Client -> ClientSet], mgr' \in MgrSet,
         \/ mgr' = mgr /\ client[w.client].doing \notin {"get", "list"}
         \/ /\ Handling("list") /\ mgr.work.client = w.client
            /\ mgr'.at = "reading" /\ mgr'.work = NoWork
  PROVE  /\ TypeOK' /\ Shape' /\ Unique' /\ Refs' /\ Counts' /\ Registry' /\ Watched'
         /\ Obituaries'
         /\ \A v \in Pending' :
              \/ v = w \/ v = NoWork
              \/ v \in Pending /\ ~(v.type \in Asking /\ v.client = w.client)
<1>1. driver \in DriverSet /\ driver.todo \in Seq(Work)
  BY Typed DEF IInv
<1>2. /\ driver' \in DriverSet /\ driver'.refs = driver.refs /\ driver'.own = driver.own
      /\ driver'.todo = Append(driver.todo, w)
  BY <1>1, SendIs
<1>3. TypeOK'
  <2>1. svclist' \in Seq(Entry) /\ alive' \subseteq Service /\ adds' \in 0..MaxAdds
    BY Types DEF IInv
  <2> QED BY <1>2, <2>1 DEF TypeOK, Entry, DriverSet, RefSet, MgrSet, ClientSet
<1>4. ASSUME NEW v \in Range(driver.own) \cup Range(driver.todo) \cup {mgr'.work}
      PROVE  ~(v.type \in Asking /\ v.client = w.client)
  <2>1. CASE mgr' = mgr /\ client[w.client].doing \notin {"get", "list"}
    <3>1. Asked(v)
      BY <2>1 DEF IInv, Questions, Pending
    <3> QED BY <2>1, <3>1 DEF Asked, Asking
  <2>2. CASE /\ Handling("list") /\ mgr.work.client = w.client
             /\ mgr'.at = "reading" /\ mgr'.work = NoWork
    <3>1. CASE v = NoWork
      BY <3>1, NoWorkIs DEF Asking
    <3>2. CASE v \in Range(driver.own) \cup Range(driver.todo)
      <4>1. ~Clash(mgr.work, v)
        BY <3>2 DEF IInv, Unique
      <4> QED BY <2>2, <4>1 DEF Clash, Handling, Asking
    <3> QED BY <2>2, <3>1, <3>2
  <2> QED BY <2>1, <2>2
<1>5. Shape' /\ Unique' /\ Pending' \subseteq Pending \cup {w, NoWork}
  <2>1. \A v \in Range(driver.own) \cup Range(driver.todo) \cup {mgr'.work} : ~Clash(v, w)
    BY <1>4 DEF Clash, Asking
  <2> QED BY <1>2, <2>1, Sends DEF Queued
<1>6. ASSUME NEW v \in Pending'
      PROVE  \/ v = w \/ v = NoWork
             \/ v \in Pending /\ ~(v.type \in Asking /\ v.client = w.client)
  <2>1. Range(driver'.todo) = Range(driver.todo) \cup {w}
    BY <1>1, <1>2, AppendList
  <2>2. v = w \/ v \in Range(driver.own) \cup Range(driver.todo) \cup {mgr'.work}
    BY <1>2, <2>1 DEF Pending
  <2> QED BY <1>4, <1>5, <2>2
<1>7. Refs'
  BY <1>2 DEF IInv, Refs
<1>8. Skipped' = Skipped /\ (Linking' <=> Linking) /\ (Linking => mgr'.work = mgr.work)
  BY DEF Skipped, Linking, Handling
<1>9. Counts'
  <2>1. \A g \in Handle : Cardinality(Adds(driver'.todo, g)) = Cardinality(Adds(driver.todo, g))
    <3>1. w.type # "add"
      BY DEF Asking
    <3>2. \A g : Cardinality(Adds(driver'.todo, g)) = Cardinality(Adds(driver.todo, g)) + 0
      BY <1>1, <1>2, <3>1, AppendList
    <3> QED BY <1>1, <3>2, FiniteAdds
  <2>2. mgr'.work = mgr.work \/ (mgr.work.type # "add" /\ mgr'.work.type # "add")
    BY NoWorkIs DEF Handling
  <2> QED BY <1>2, <1>8, <2>1, <2>2, SameCounts
<1>10. Registry' /\ Watched' /\ Obituaries'
  <2>1. \A v \in Pending' : v \in Pending \/ v.type # "dead"
    BY <1>5, NoWorkIs DEF Asking
  <2>2. UNCHANGED <<svclist, alive>>
    OBVIOUS
  <2>3. \A g \in Handle :
          /\ driver'.refs[g].death = driver.refs[g].death
          /\ driver'.refs[g].node = driver.refs[g].node \/ driver.refs[g] = NoRef
    BY <1>2
  <2> QED BY <1>3, <1>8, <2>1, <2>2, <2>3, Quiet
<1> QED BY <1>3, <1>5, <1>6, <1>7, <1>9, <1>10

LEMMA ClientTyped ==
  ASSUME TypeOK, NEW c \in Client
  PROVE  /\ client[c] \in ClientSet /\ client[c].tries \in 0..MaxTries
         /\ client[c].lists \in 0..MaxLists
         /\ client[c].seen \subseteq Name \cup {NoName} /\ client[c].before \subseteq Name
<1>1. client[c] \in ClientSet
  BY Typed
<1> QED BY <1>1 DEF ClientSet

LEMMA SetClient ==
  ASSUME TypeOK, NEW c \in Client, NEW r \in ClientSet
  PROVE  /\ [client EXCEPT ![c] = r] \in [Client -> ClientSet]
         /\ [client EXCEPT ![c] = r][c] = r
         /\ \A b \in Client \ {c} : [client EXCEPT ![c] = r][b] = client[b]
BY Typed

LEMMA GetServiceStep ==
  ASSUME IInv, NEW c \in Client, NEW n \in Name, getService(c, n)
  PROVE  IInv'
<1> DEFINE w == [type |-> "check", name |-> n, handle |-> 0, client |-> c]
           r == [client[c] EXCEPT !.doing = "get", !.name = n, !.tries = @ + 1]
<1>1. w \in Work /\ w.type = "check" /\ w.client = c
  BY DEF Work
<1>2. r \in ClientSet /\ r.doing = "get"
  <2>1. client[c].tries + 1 \in 0..MaxTries
    BY ClientTyped, ServiceManagerAssumption DEF getService, IInv, Questions
  <2> QED BY <2>1, ClientTyped DEF ClientSet, IInv
<1>3. /\ driver' = Send(driver, w) /\ UNCHANGED <<svclist, alive, adds, mgr>>
      /\ client' = [client EXCEPT ![c] = r] /\ client[c].doing \in {"idle", "sleep"}
  BY DEF getService, Asks
<1> HIDE DEF w, r
<1>4. /\ client' \in [Client -> ClientSet] /\ client'[c].doing = "get"
      /\ \A b \in Client \ {c} : client'[b] = client[b]
  BY <1>2, <1>3, SetClient DEF IInv
<1>5. /\ TypeOK' /\ Shape' /\ Unique' /\ Refs' /\ Counts' /\ Registry' /\ Watched'
      /\ Obituaries'
      /\ \A v \in Pending' :
           \/ v = w \/ v = NoWork
           \/ v \in Pending /\ ~(v.type \in Asking /\ v.client = w.client)
  <2>1. mgr' \in MgrSet
    BY <1>3, Typed DEF IInv
  <2> QED BY <1>1, <1>3, <1>4, <2>1, AsksStep DEF Asking
<1>6. Questions'
  <2>1. ASSUME NEW v \in Pending' PROVE Asked(v)'
    <3>1. CASE v = w
      BY <1>1, <1>4, <3>1 DEF Asked
    <3>2. CASE v = NoWork
      BY <3>2, NoWorkIs DEF Asked
    <3>3. CASE v \in Pending /\ ~(v.type \in Asking /\ v.client = c)
      <4>1. Asked(v) /\ (v.type \in Asking => v.client \in Client)
        <5>1. Asked(v) /\ (Queued(v) \/ IsDead(v) \/ v = NoWork)
          BY <3>3, Typed DEF IInv, Questions, Pending, Shape, InWork, Queued, MgrSet
        <5> QED BY <5>1, NoWorkIs DEF Queued, IsDead, IsAdd, Asking
      <4> QED BY <1>3, <1>4, <3>3, <4>1 DEF Asked, Asking
    <3> QED BY <1>1, <1>5, <3>1, <3>2, <3>3
  <2>2. \A b \in Client : client'[b].doing = "sleep" => client'[b].tries < MaxTries
    BY <1>4 DEF IInv, Questions
  <2> QED BY <2>1, <2>2 DEF Questions
<1>7. ListingIsComplete'
  BY <1>4 DEF IInv, ListingIsComplete
<1> QED BY <1>5, <1>6, <1>7 DEF IInv

LEMMA PendingIs ==
  ASSUME IInv, NEW w \in Pending
  PROVE  /\ Asked(w) /\ (w.type \in Asking => w.client \in Client)
         /\ w.type = "dead" => w.name \in Name /\ w.handle \in Handle
         /\ w.type = "add" => w.name \in Name /\ w.handle \in Handle
<1>1. Asked(w) /\ (Queued(w) \/ IsDead(w) \/ w = NoWork)
  BY Typed DEF IInv, Questions, Pending, Shape, InWork, Queued, MgrSet
<1> QED BY <1>1, NoWorkIs DEF Queued, IsDead, IsAdd, Asking

LEMMA ListServicesStep ==
  ASSUME IInv, NEW c \in Client, listServices(c)
  PROVE  IInv'
<1> DEFINE w == [type |-> "list", name |-> NoName, handle |-> 0, client |-> c]
           r == [client[c] EXCEPT !.doing = "list", !.lists = @ + 1, !.seen = {},
                                  !.before = Names]
<1>1. w \in Work /\ w.type = "list" /\ w.client = c /\ w.handle = 0
  BY DEF Work
<1>2. r \in ClientSet /\ r.doing = "list" /\ r.before = Names /\ r.seen = {}
  <2>1. client[c].lists + 1 \in 0..MaxLists
    BY ClientTyped, ServiceManagerAssumption DEF listServices, IInv
  <2>2. Names \in SUBSET Name
    BY Typed DEF Names, IInv
  <2>3. client[c] \in ClientSet
    BY ClientTyped DEF IInv
  <2> QED BY <2>1, <2>2, <2>3 DEF ClientSet
<1>3. /\ driver' = Send(driver, w) /\ UNCHANGED <<svclist, alive, adds, mgr>>
      /\ client' = [client EXCEPT ![c] = r] /\ client[c].doing = "idle"
  BY DEF listServices, Asks
<1> HIDE DEF w, r
<1>4. /\ client' \in [Client -> ClientSet] /\ client'[c] = r
      /\ \A b \in Client \ {c} : client'[b] = client[b]
  BY <1>2, <1>3, SetClient DEF IInv
<1>5. /\ TypeOK' /\ Shape' /\ Unique' /\ Refs' /\ Counts' /\ Registry' /\ Watched'
      /\ Obituaries'
      /\ \A v \in Pending' :
           \/ v = w \/ v = NoWork
           \/ v \in Pending /\ ~(v.type \in Asking /\ v.client = w.client)
  <2>1. mgr' \in MgrSet
    BY <1>3, Typed DEF IInv
  <2> QED BY <1>1, <1>3, <1>4, <2>1, AsksStep DEF Asking
<1>6. Questions'
  <2>1. ASSUME NEW v \in Pending' PROVE Asked(v)'
    <3>1. CASE v = w
      <4>1. ASSUME NEW n \in Names PROVE \E j \in DOMAIN svclist : j > 0 /\ svclist[j].name = n
        BY Typed DEF Names, IInv
      <4> QED BY <1>1, <1>2, <1>3, <1>4, <3>1, <4>1 DEF Asked
    <3>2. CASE v = NoWork
      BY <3>2, NoWorkIs DEF Asked
    <3>3. CASE v \in Pending /\ ~(v.type \in Asking /\ v.client = c)
      BY <1>3, <1>4, <3>3, PendingIs DEF Asked, Asking
    <3> QED BY <1>1, <1>5, <3>1, <3>2, <3>3
  <2>2. \A b \in Client : client'[b].doing = "sleep" => client'[b].tries < MaxTries
    BY <1>2, <1>4 DEF IInv, Questions
  <2> QED BY <2>1, <2>2 DEF Questions
<1>7. ListingIsComplete'
  BY <1>2, <1>4 DEF IInv, ListingIsComplete
<1> QED BY <1>5, <1>6, <1>7 DEF IInv

\* The manager answers and is ready for the next command; the references stay.
LEMMA AnswersStep ==
  ASSUME IInv, mgr' \in MgrSet, UNCHANGED <<svclist, alive, adds, driver>>,
         client' \in [Client -> ClientSet],
         \/ mgr' = mgr
         \/ /\ mgr.at = "handling" /\ mgr.work.type # "add"
            /\ mgr'.at = "reading" /\ mgr'.work = NoWork
         \/ /\ mgr.at = "handling" /\ mgr.work.type = "add"
            /\ mgr'.at = "reply" /\ mgr'.work = mgr.work
  PROVE  /\ TypeOK' /\ Shape' /\ Unique' /\ Refs' /\ Counts' /\ Registry' /\ Watched'
         /\ Obituaries' /\ Pending' \subseteq Pending \cup {NoWork}
         /\ mgr' = mgr \/ mgr'.at = "reply" \/ mgr'.work = NoWork
<1>1. TypeOK'
  <2>1. /\ svclist' \in Seq(Entry) /\ alive' \subseteq Service /\ adds' \in 0..MaxAdds
        /\ driver' \in DriverSet
    BY Types DEF IInv
  <2> QED BY <2>1 DEF TypeOK, Entry, DriverSet, RefSet, MgrSet, ClientSet
<1>2. Shape' /\ Unique' /\ Pending' \subseteq Pending \cup {NoWork}
  <2>1. CASE mgr' = mgr
    BY <2>1 DEF IInv, Shape, Unique, Pending, InWork
  <2>2. CASE mgr' # mgr
    <3>1. \/ mgr'.at = "reading" /\ mgr'.work = NoWork
          \/ mgr'.at # "reading" /\ mgr'.work = mgr.work /\ IsAdd(mgr.work)
      BY <2>2 DEF IInv, Shape, Queued, IsDead, Asking
    <3>2. Once(driver'.own) /\ Once(driver'.todo)
      BY DEF IInv, Unique
    <3> QED BY <3>1, <3>2, GoesOn
  <2> QED BY <2>1, <2>2
<1>3. Skipped' = Skipped /\ (Linking' <=> Linking) /\ (Linking => mgr'.work = mgr.work)
  BY DEF Skipped, Linking
<1>4. Refs' /\ Counts'
  <2>1. mgr'.work = mgr.work \/ (mgr.work.type # "add" /\ mgr'.work.type # "add")
    BY NoWorkIs
  <2>2. Counts'
    BY <1>3, <2>1, SameCounts
  <2> QED BY <2>2 DEF IInv, Refs
<1>5. Registry' /\ Watched' /\ Obituaries'
  <2>1. \A v \in Pending' : v \in Pending \/ v.type # "dead"
    BY <1>2, NoWorkIs
  <2> QED BY <1>1, <1>3, <2>1, Quiet
<1> QED BY <1>1, <1>2, <1>4, <1>5

LEMMA ListingDoneStep ==
  ASSUME IInv, NEW c \in Client, ListingDone(c)
  PROVE  IInv'
<1> DEFINE r == [client[c] EXCEPT !.doing = "idle", !.seen = {}, !.before = {}]
<1>1. /\ client' = [client EXCEPT ![c] = r] /\ client[c].doing = "listed"
      /\ UNCHANGED <<svclist, driver, mgr, alive, adds>>
  BY DEF ListingDone
<1>2. r \in ClientSet /\ r.doing = "idle"
  <2>1. client[c] \in ClientSet
    BY ClientTyped DEF IInv
  <2> QED BY <2>1 DEF ClientSet
<1> HIDE DEF r
<1>3. /\ client' \in [Client -> ClientSet] /\ client'[c] = r
      /\ \A b \in Client \ {c} : client'[b] = client[b]
  BY <1>1, <1>2, SetClient DEF IInv
<1>4. /\ TypeOK' /\ Shape' /\ Unique' /\ Refs' /\ Counts' /\ Registry' /\ Watched'
      /\ Obituaries'
  <2>1. mgr' \in MgrSet
    BY <1>1, Typed DEF IInv
  <2> QED BY <1>1, <1>3, <2>1, AnswersStep
<1>5. Questions'
  <2>1. ASSUME NEW v \in Pending PROVE Asked(v)'
    <3>1. Asked(v) /\ (v.type \in Asking => v.client \in Client)
      BY PendingIs
    <3> QED BY <1>1, <1>3, <3>1 DEF Asked, Asking
  <2>2. Pending' = Pending
    BY <1>1 DEF Pending
  <2>3. \A b \in Client : client'[b].doing = "sleep" => client'[b].tries < MaxTries
    BY <1>2, <1>3 DEF IInv, Questions
  <2> QED BY <2>1, <2>2, <2>3 DEF Questions
<1>6. ListingIsComplete'
  BY <1>2, <1>3 DEF IInv, ListingIsComplete
<1> QED BY <1>4, <1>5, <1>6 DEF IInv

LEMMA CheckServiceStep ==
  ASSUME IInv, CheckService
  PROVE  IInv'
<1> DEFINE c == mgr.work.client
<1>0. mgr.at = "handling" /\ mgr.work.type = "check" /\ mgr.work \in Pending
  BY DEF CheckService, Handling, Pending
<1>1. c \in Client /\ client[c].doing = "get"
  BY <1>0, PendingIs DEF Asked, Asking
<1>2. PICK r \in ClientSet : /\ client' = [client EXCEPT ![c] = r] /\ r.doing \in {"idle", "sleep"}
                             /\ r.doing = "sleep" => r.tries < MaxTries
  <2> DEFINE r1 == [client[c] EXCEPT !.doing = "idle"]
             r2 == [client[c] EXCEPT !.doing = "sleep"]
  <2>0. client[c] \in ClientSet /\ client[c].tries \in 0..MaxTries
    BY <1>1, ClientTyped DEF IInv
  <2>1. /\ r1 \in ClientSet /\ r1.doing = "idle"
        /\ r2 \in ClientSet /\ r2.doing = "sleep" /\ r2.tries = client[c].tries
    BY <2>0 DEF ClientSet
  <2>2. \/ client' = [client EXCEPT ![c] = r1]
        \/ client' = [client EXCEPT ![c] = r2] /\ client[c].tries # MaxTries
    BY DEF CheckService
  <2>3. client[c].tries # MaxTries => client[c].tries < MaxTries
    BY <2>0, ServiceManagerAssumption
  <2> HIDE DEF r1, r2
  <2> QED BY <2>1, <2>2, <2>3
<1>3. /\ client' \in [Client -> ClientSet] /\ client'[c] = r
      /\ \A b \in Client \ {c} : client'[b] = client[b]
  BY <1>1, <1>2, SetClient DEF IInv
<1>4. /\ mgr' \in MgrSet /\ mgr'.at = "reading" /\ mgr'.work = NoWork
      /\ UNCHANGED <<svclist, driver, alive, adds>>
  BY NoWorkIs, Typed DEF CheckService, Reads, MgrSet, IInv
<1>5. /\ TypeOK' /\ Shape' /\ Unique' /\ Refs' /\ Counts' /\ Registry' /\ Watched'
      /\ Obituaries'
  BY <1>0, <1>3, <1>4, AnswersStep
<1>6. Questions'
  <2>1. ASSUME NEW v \in Range(driver.own) \cup Range(driver.todo) PROVE Asked(v)'
    <3>1. ~Clash(mgr.work, v) /\ v \in Pending
      BY DEF IInv, Unique, Pending
    <3>2. v.type \in Asking => v.client # c
      BY <1>0, <3>1 DEF Clash, Asking
    <3>3. Asked(v) /\ (v.type \in Asking => v.client \in Client)
      BY <3>1, PendingIs
    <3> QED BY <1>3, <1>4, <3>2, <3>3 DEF Asked, Asking
  <2>2. \A v \in Pending' : v = NoWork \/ v \in Range(driver.own) \cup Range(driver.todo)
    BY <1>4 DEF Pending
  <2>3. Asked(NoWork)'
    BY NoWorkIs DEF Asked
  <2>4. \A b \in Client : client'[b].doing = "sleep" => client'[b].tries < MaxTries
    BY <1>2, <1>3 DEF IInv, Questions
  <2> QED BY <2>1, <2>2, <2>3, <2>4 DEF Questions
<1>7. ListingIsComplete'
  BY <1>2, <1>3 DEF IInv, ListingIsComplete
<1> QED BY <1>5, <1>6, <1>7 DEF IInv

\* The reply's 240 bytes have room for the text of 117 units, with its length
\* and its zero, and not for one more.
LEMMA ReportedIs ==
  ASSUME NEW n \in Name
  PROVE  bio_put_string16(n) = Reported(n) /\ Reported(n) \in Name \cup {NoName}
<1>1. PICK u \in Nat : u = Units[n]
  BY ServiceManagerAssumption
<1>2. PICK q \in Nat : q = (2 * (u + 1) + 3) \div 4 /\ 4 * q <= 2 * u + 5 /\ 2 * u + 5 < 4 * q + 4
  OBVIOUS
<1>3. 4 + q * 4 <= 256 - 4 * 4 <=> u <= 117
  BY <1>2
<1>4. Fits(n) <=> Units[n] <= 117
  BY <1>1, <1>2, <1>3 DEF Fits, Aligned, ReplyBytes
<1> QED BY <1>4 DEF bio_put_string16, Reported

LEMMA ListsStep ==
  ASSUME IInv, ListServices
  PROVE  IInv'
<1> DEFINE c == mgr.work.client
           i == mgr.work.handle
<1>0. mgr.at = "handling" /\ mgr.work.type = "list" /\ mgr.work \in Pending
  BY DEF ListServices, Handling, Pending
<1>1. /\ c \in Client /\ client[c].doing = "list" /\ i \in Nat /\ client[c] \in ClientSet
      /\ \A n \in client[c].before : Reported(n) \notin client[c].seen =>
           \E j \in DOMAIN svclist : j > i /\ svclist[j].name = n
  <2>1. c \in Client /\ Asked(mgr.work)
    BY <1>0, PendingIs DEF Asking
  <2>2. i \in Nat
    BY Typed DEF IInv, Work
  <2> QED BY <1>0, <2>1, <2>2, ClientTyped DEF Asked, IInv
<1>2. /\ mgr' \in MgrSet /\ mgr'.at = "reading" /\ mgr'.work = NoWork
      /\ UNCHANGED <<svclist, alive, adds>>
  BY NoWorkIs, Typed DEF ListServices, Reads, MgrSet, IInv
<1>3. /\ DOMAIN svclist = 1..Len(svclist) /\ Len(svclist) \in Nat
      /\ \A j \in DOMAIN svclist : svclist[j].name \in Name
  BY Typed DEF IInv
<1>4. CASE i < Len(svclist)
  <2> DEFINE w == [type |-> "list", name |-> NoName, handle |-> i + 1, client |-> c]
             r == [client[c] EXCEPT !.seen = @ \cup {bio_put_string16(svclist[i + 1].name)}]
  <2>1. i + 1 \in DOMAIN svclist
    BY <1>1, <1>3, <1>4
  <2>2. w \in Work /\ w.type = "list" /\ w.client = c /\ w.handle = i + 1
    BY <1>1 DEF Work
  <2>3. /\ r \in ClientSet /\ r.doing = "list" /\ r.before = client[c].before
        /\ r.seen = client[c].seen \cup {Reported(svclist[i + 1].name)}
    <3>1. svclist[i + 1].name \in Name
      BY <1>3, <2>1
    <3>2. /\ bio_put_string16(svclist[i + 1].name) = Reported(svclist[i + 1].name)
          /\ Reported(svclist[i + 1].name) \in Name \cup {NoName}
      BY <3>1, ReportedIs
    <3> QED BY <1>1, <3>2 DEF ClientSet
  <2>4. driver' = Send(driver, w) /\ client' = [client EXCEPT ![c] = r]
    <3>1. ~(i >= Len(svclist))
      BY <1>1, <1>3, <1>4
    <3> QED BY <3>1 DEF ListServices, Asks
  <2> HIDE DEF w, r
  <2>5. /\ client' \in [Client -> ClientSet] /\ client'[c] = r
        /\ \A b \in Client \ {c} : client'[b] = client[b]
    BY <1>1, <2>3, <2>4, SetClient DEF IInv
  <2>6. /\ TypeOK' /\ Shape' /\ Unique' /\ Refs' /\ Counts' /\ Registry' /\ Watched'
        /\ Obituaries'
        /\ \A v \in Pending' :
             \/ v = w \/ v = NoWork
             \/ v \in Pending /\ ~(v.type \in Asking /\ v.client = w.client)
    BY <1>0, <1>1, <1>2, <2>2, <2>4, <2>5, AsksStep DEF Asking, Handling
  <2>7. Questions'
    <3>1. ASSUME NEW v \in Pending' PROVE Asked(v)'
      <4>1. CASE v = w
        <5>1. ASSUME NEW n \in r.before, Reported(n) \notin r.seen
              PROVE  \E j \in DOMAIN svclist : j > i + 1 /\ svclist[j].name = n
          <6>1. PICK j \in DOMAIN svclist : j > i /\ svclist[j].name = n
            BY <1>1, <2>3, <5>1
          <6>2. j # i + 1
            BY <2>3, <5>1, <6>1
          <6>3. j \in Nat /\ j > i + 1
            BY <1>1, <1>3, <6>1, <6>2
          <6> QED BY <6>1, <6>3
        <5> QED BY <1>2, <2>2, <2>3, <2>5, <4>1, <5>1 DEF Asked
      <4>2. CASE v = NoWork
        BY <4>2, NoWorkIs DEF Asked
      <4>3. CASE v \in Pending /\ ~(v.type \in Asking /\ v.client = c)
        BY <1>2, <2>5, <4>3, PendingIs DEF Asked, Asking
      <4> QED BY <2>2, <2>6, <4>1, <4>2, <4>3
    <3>2. \A b \in Client : client'[b].doing = "sleep" => client'[b].tries < MaxTries
      BY <2>3, <2>5 DEF IInv, Questions
    <3> QED BY <3>1, <3>2 DEF Questions
  <2>8. ListingIsComplete'
    BY <2>3, <2>5 DEF IInv, ListingIsComplete
  <2> QED BY <2>6, <2>7, <2>8 DEF IInv
<1>5. CASE i >= Len(svclist)
  <2> DEFINE r == [client[c] EXCEPT !.doing = "listed"]
  <2>1. r \in ClientSet /\ r.doing = "listed" /\ r.before = client[c].before
        /\ r.seen = client[c].seen
    BY <1>1 DEF ClientSet
  <2>2. UNCHANGED driver /\ client' = [client EXCEPT ![c] = r]
    <3>1. ~(i < Len(svclist))
      BY <1>1, <1>3, <1>5
    <3> QED BY <3>1 DEF ListServices
  <2> HIDE DEF r
  <2>3. /\ client' \in [Client -> ClientSet] /\ client'[c] = r
        /\ \A b \in Client \ {c} : client'[b] = client[b]
    BY <1>1, <2>1, <2>2, SetClient DEF IInv
  <2>4. /\ TypeOK' /\ Shape' /\ Unique' /\ Refs' /\ Counts' /\ Registry' /\ Watched'
        /\ Obituaries'
    BY <1>0, <1>2, <2>2, <2>3, AnswersStep
  <2>5. Questions'
    <3>1. ASSUME NEW v \in Range(driver.own) \cup Range(driver.todo) PROVE Asked(v)'
      <4>1. ~Clash(mgr.work, v) /\ v \in Pending
        BY DEF IInv, Unique, Pending
      <4>2. v.type \in Asking => v.client # c
        BY <1>0, <4>1 DEF Clash, Asking
      <4>3. Asked(v) /\ (v.type \in Asking => v.client \in Client)
        BY <4>1, PendingIs
      <4> QED BY <1>2, <2>3, <4>2, <4>3 DEF Asked, Asking
    <3>2. \A v \in Pending' : v = NoWork \/ v \in Range(driver.own) \cup Range(driver.todo)
      BY <1>2, <2>2 DEF Pending
    <3>3. Asked(NoWork)'
      BY NoWorkIs DEF Asked
    <3>4. \A b \in Client : client'[b].doing = "sleep" => client'[b].tries < MaxTries
      BY <2>1, <2>3 DEF IInv, Questions
    <3> QED BY <3>1, <3>2, <3>3, <3>4 DEF Questions
  <2>6. \A n \in client[c].before : Reported(n) \in client[c].seen
    <3>1. ASSUME NEW n \in client[c].before, Reported(n) \notin client[c].seen PROVE FALSE
      <4>1. PICK j \in DOMAIN svclist : j > i
        BY <1>1, <3>1
      <4> QED BY <1>1, <1>3, <1>5, <4>1
    <3> QED BY <3>1
  <2>7. ListingIsComplete'
    BY <2>1, <2>3, <2>6 DEF IInv, ListingIsComplete
  <2> QED BY <2>4, <2>5, <2>7 DEF IInv
<1>6. i < Len(svclist) \/ i >= Len(svclist)
  BY <1>1, <1>3
<1> QED BY <1>4, <1>5, <1>6

LEMMA AddRefusedStep ==
  ASSUME IInv, AddRefused
  PROVE  IInv'
<1>1. /\ mgr.at = "handling" /\ mgr.work.type = "add" /\ mgr' \in MgrSet
      /\ mgr'.at = "reply" /\ mgr'.work = mgr.work
      /\ UNCHANGED <<svclist, driver, alive, adds, client>>
  BY Typed DEF AddRefused, Handling, MgrSet, IInv
<1>2. client' \in [Client -> ClientSet]
  BY <1>1, Typed DEF IInv
<1>3. /\ TypeOK' /\ Shape' /\ Unique' /\ Refs' /\ Counts' /\ Registry' /\ Watched'
      /\ Obituaries'
  BY <1>1, <1>2, AnswersStep
<1>4. Questions' /\ ListingIsComplete'
  <2>1. Pending' = Pending
    BY <1>1 DEF Pending
  <2> QED BY <1>1, <2>1, QuietClients
<1> QED BY <1>3, <1>4 DEF IInv

LEMMA ServiceDiesStep ==
  ASSUME IInv, NEW s \in Service, ServiceDies(s)
  PROVE  IInv'
<1>0. /\ s \in alive /\ alive' = alive \ {s} /\ driver' = NodeRelease(driver, s)
      /\ UNCHANGED <<svclist, mgr, adds, client>>
  BY DEF ServiceDies
<1>1. driver \in DriverSet /\ RefsOK(driver.refs) /\ driver.todo \in Seq(Work)
  BY Typed DEF IInv, Refs
<1>2. /\ driver' \in DriverSet /\ driver'.refs = driver.refs /\ driver'.own = driver.own
      /\ \/ driver' = driver
         \/ \E h \in Handle :
              /\ driver.refs[h].node = s /\ driver.refs[h].death # NoName
              /\ driver'.todo = Append(driver.todo, Obituary(driver.refs[h].death, h))
  BY <1>0, <1>1, ReleaseIs
<1>3. TypeOK'
  <2>1. /\ svclist' \in Seq(Entry) /\ alive' \subseteq Service /\ adds' \in 0..MaxAdds
        /\ mgr' \in MgrSet /\ client' \in [Client -> ClientSet]
    BY <1>0, Types DEF IInv
  <2> QED BY <1>2, <2>1 DEF TypeOK, Entry, DriverSet, RefSet, MgrSet, ClientSet
<1>4. \A v \in Pending : Addressed(v)'
  BY <1>0, <1>2 DEF IInv, Obituaries, Addressed
<1>5. /\ Shape' /\ Unique' /\ Obituaries'
      /\ \A v \in Pending' : v \in Pending \/ v.type \notin Asking
      /\ \A g \in Handle : Cardinality(Adds(driver'.todo, g)) = Cardinality(Adds(driver.todo, g))
  <2>1. CASE driver' = driver
    <3>1. Pending' = Pending
      BY <1>0, <2>1 DEF Pending
    <3>2. Shape' /\ Unique'
      BY <1>0, <2>1 DEF IInv, Shape, Unique, InWork
    <3> QED BY <1>4, <2>1, <3>1, <3>2 DEF Obituaries
  <2>2. CASE driver' # driver
    <3>0. PICK h \in Handle :
            /\ driver.refs[h].node = s /\ driver.refs[h].death # NoName
            /\ driver'.todo = Append(driver.todo, Obituary(driver.refs[h].death, h))
      BY <1>2, <2>2
    <3> PICK w : w = Obituary(driver.refs[h].death, h)
      OBVIOUS
    <3>1. /\ driver.refs[h].node = s /\ driver.refs[h].death # NoName
          /\ w = Obituary(driver.refs[h].death, h) /\ driver'.todo = Append(driver.todo, w)
      BY <3>0
    <3>2. driver.refs[h].death \in Name /\ h \in Nat
      BY <1>1, <3>1, RefTypes, Handles
    <3>3. /\ w \in Work /\ w.type = "dead" /\ w.name = driver.refs[h].death
          /\ w.handle = h
      BY <3>1, <3>2, NoWorkIs DEF Obituary, NoWork, Work
    <3>4. \A v \in Pending : ~Clash(v, w)
      <4>1. ASSUME NEW v \in Pending, v.type = "dead" PROVE v.handle # h
        BY <1>0, <3>1, <4>1 DEF IInv, Obituaries, Addressed
      <4> QED BY <3>3, <4>1 DEF Clash, Asking
    <3>5. Shape' /\ Unique' /\ Pending' \subseteq Pending \cup {w, NoWork}
      <4>1. \A v \in Range(driver.own) \cup Range(driver.todo) \cup {mgr'.work} : ~Clash(v, w)
        BY <1>0, <3>4 DEF Pending
      <4>2. Queued(w) /\ mgr' = mgr
        BY <1>0, <3>2, <3>3 DEF Queued, IsDead
      <4> QED BY <1>2, <3>1, <3>3, <4>1, <4>2, Sends
    <3>6. Addressed(w)'
      BY <1>0, <1>2, <3>1, <3>3 DEF IInv, Watched, Addressed
    <3>7. Obituaries'
      <4>1. Addressed(NoWork)'
        BY NoWorkIs DEF Addressed
      <4> QED BY <1>4, <3>5, <3>6, <4>1 DEF Obituaries
    <3>8. ASSUME NEW g \in Handle
          PROVE  Cardinality(Adds(driver'.todo, g)) = Cardinality(Adds(driver.todo, g))
      <4>1. Cardinality(Adds(driver'.todo, g)) = Cardinality(Adds(driver.todo, g)) + 0
        BY <1>1, <3>1, <3>3, AppendList
      <4> QED BY <1>1, <4>1, FiniteAdds
    <3> QED BY <3>3, <3>5, <3>7, <3>8, NoWorkIs DEF Asking
  <2> QED BY <1>2, <2>1, <2>2
<1>6. Refs'
  BY <1>2 DEF IInv, Refs
<1>7. Counts'
  <2>1. Skipped' = Skipped /\ mgr'.work = mgr.work
    BY <1>0, SameManager
  <2> QED BY <1>0, <1>2, <1>5, <2>1, SameCounts
<1>8. Registry'
  BY <1>0, <1>2 DEF IInv, Registry, Linking
<1>9. Watched'
  BY <1>0, <1>2 DEF IInv, Watched
<1>10. Questions' /\ ListingIsComplete'
  BY <1>0, <1>5, QuietClients
<1> QED BY <1>3, <1>5, <1>6, <1>7, <1>8, <1>9, <1>10 DEF IInv

\* The manager takes a piece of work from its lists.
LEMMA TakesStep ==
  ASSUME IInv, mgr.at = "reading", NEW w \in Pending, w \in Work, Queued(w),
         driver' \in DriverSet, driver'.refs = Delivered(driver.refs, w),
         mgr' = [at |-> "handling", work |-> w], UNCHANGED <<svclist, alive, adds, client>>,
         Range(driver'.own) \subseteq Range(driver.own),
         Range(driver'.todo) \subseteq Range(driver.todo),
         Once(driver'.own), Once(driver'.todo),
         \A v \in Range(driver'.own) \cup Range(driver'.todo) : ~Clash(w, v),
         \A g : Cardinality(Adds(driver'.todo, g)) =
                  Cardinality(Adds(driver.todo, g))
                  - IF w.type = "add" /\ w.handle = g THEN 1 ELSE 0
  PROVE  IInv'
<1>0. driver \in DriverSet /\ driver.todo \in Seq(Work) /\ mgr.work = NoWork
  BY Typed DEF IInv, Shape
<1>1. mgr'.at = "handling" /\ mgr'.work = w /\ mgr' \in MgrSet
  BY DEF MgrSet
<1>2. w.type = "dead" => w.handle \in Handle /\ w.name \in Name
  BY PendingIs
<1>3. \A g \in Handle : /\ driver'.refs[g].strong = driver.refs[g].strong
                        /\ driver'.refs[g].node = driver.refs[g].node
                        /\ driver'.refs[g].death = driver.refs[g].death
                        /\ ~(w.type = "dead" /\ w.handle = g) => driver'.refs[g] = driver.refs[g]
  BY <1>0, <1>2, DeliveredIs
<1>4. TypeOK'
  <2>1. /\ svclist' \in Seq(Entry) /\ alive' \subseteq Service /\ adds' \in 0..MaxAdds
        /\ client' \in [Client -> ClientSet]
    BY Types DEF IInv
  <2> QED BY <1>1, <2>1 DEF TypeOK, Entry, DriverSet, RefSet, MgrSet, ClientSet
<1>5. Pending' \subseteq Pending
  BY <1>1 DEF Pending
<1>6. Shape'
  BY <1>1 DEF IInv, Shape, InWork
<1>7. Unique'
  BY <1>1 DEF IInv, Unique
<1>8. Refs'
  <2>1. ASSUME NEW g \in Handle, driver'.refs[g].strong = 0 PROVE driver'.refs[g] = NoRef
    <3>1. driver.refs[g] = NoRef
      BY <1>3, <2>1, InUse
    <3>2. w.type = "dead" => driver.refs[w.handle].death = w.name
      BY DEF IInv, Obituaries, Addressed
    <3>3. ~(w.type = "dead" /\ w.handle = g)
      BY <1>2, <3>1, <3>2, NoRefIs, ServiceManagerAssumption
    <3> QED BY <1>3, <3>1, <3>3
  <2>2. \A g \in Handle : driver'.refs[g].strong # 0 => driver'.refs[g].node \in Service
    BY <1>3 DEF IInv, Refs, RefsOK
  <2>3. \A g, h \in Handle : driver'.refs[g].node = driver'.refs[h].node
                             /\ driver'.refs[g].node # NoService => g = h
    BY <1>3 DEF IInv, Refs, RefsOK
  <2> QED BY <2>1, <2>2, <2>3 DEF Refs, RefsOK
<1>9. Counts'
  <2> SUFFICES ASSUME NEW g \in Handle
      PROVE  driver'.refs[g].strong =
               Cardinality(Adds(driver'.todo, g))
               + (IF mgr'.work.type = "add" /\ mgr'.work.handle = g THEN 1 ELSE 0)
               + Cardinality(EntriesBut(svclist', g, Skipped'))
    BY DEF Counts
  <2> DEFINE a == Cardinality(Adds(driver.todo, g))
             b == IF w.type = "add" /\ w.handle = g THEN 1 ELSE 0
             e == Cardinality(EntriesBut(svclist, g, Skipped))
             a1 == Cardinality(Adds(driver'.todo, g))
  <2>1. driver.refs[g].strong = a + 0 + e
    BY <1>0, NoWorkIs DEF IInv, Counts
  <2>2. a \in Nat /\ b \in Nat /\ e \in Nat
    BY <1>0, Typed, FiniteAdds, FiniteEntries DEF IInv
  <2>3. a1 = a - b
    OBVIOUS
  <2>4. e = Cardinality(EntriesBut(svclist', g, Skipped'))
    BY <1>1 DEF Skipped
  <2>5. driver'.refs[g].strong = a1 + b + e
    <3> HIDE DEF a, b, e, a1
    <3> QED BY <1>3, <2>1, <2>2, <2>3
  <2> QED BY <1>1, <2>4, <2>5
<1>10. Registry' /\ Watched' /\ Obituaries'
  <2>1. (Linking' <=> Linking) /\ (Linking => mgr'.work = mgr.work)
    BY <1>1 DEF Linking
  <2>2. \A g \in Handle :
           /\ driver'.refs[g].death = driver.refs[g].death
           /\ driver'.refs[g].node = driver.refs[g].node \/ driver.refs[g] = NoRef
    BY <1>3
  <2>3. \A v \in Pending' : v \in Pending \/ v.type # "dead"
    BY <1>5
  <2>4. UNCHANGED <<svclist, alive>>
    OBVIOUS
  <2> QED BY <1>4, <2>1, <2>2, <2>3, <2>4, Quiet
<1>11. Questions' /\ ListingIsComplete'
  <2>1. \A v \in Pending' : v \in Pending \/ v.type \notin Asking
    BY <1>5
  <2>2. UNCHANGED <<svclist, client>>
    OBVIOUS
  <2> QED BY <2>1, <2>2, QuietClients
<1> QED BY <1>4, <1>6, <1>7, <1>8, <1>9, <1>10, <1>11 DEF IInv

LEMMA ReadStep ==
  ASSUME IInv, Read
  PROVE  IInv'
<1>0. /\ mgr.at = "reading" /\ UNCHANGED <<svclist, alive, adds, client>>
      /\ driver \in DriverSet /\ driver.todo \in Seq(Work) /\ driver.own \in Seq(Work)
      /\ mgr.work = NoWork
  BY Typed DEF Read, IInv, Shape
<1>1. CASE driver.own # <<>>
  <2> DEFINE w == Head(driver.own)
             list == Tail(driver.own)
             refs == Delivered(driver.refs, w)
  <2>1. /\ list \in Seq(Work) /\ w \in Work /\ w \in Range(driver.own)
        /\ Range(list) \subseteq Range(driver.own)
        /\ Once(list) /\ \A v \in Range(list) : ~Clash(w, v)
    BY <1>0, <1>1, TailList DEF IInv, Unique
  <2>2. IsDead(w)
    BY <2>1 DEF IInv, Shape
  <2>3. /\ mgr' = [at |-> "handling", work |-> w]
        /\ driver' = [driver EXCEPT !.own = list, !.refs = refs]
    BY <1>1 DEF Read
  <2>4. refs \in [Handle -> RefSet]
    BY <1>0, <2>2, DeliveredIs DEF IsDead
  <2> HIDE DEF w, list
  <2>5. driver' \in DriverSet /\ driver'.refs = refs /\ driver'.own = list
        /\ driver'.todo = driver.todo
    <3> HIDE DEF refs
    <3> QED BY <1>0, <2>1, <2>3, <2>4 DEF DriverSet
  <2>6. \A v \in Range(driver'.own) \cup Range(driver'.todo) : ~Clash(w, v)
    BY <2>1, <2>5 DEF IInv, Unique
  <2>7. \A g : Cardinality(Adds(driver'.todo, g)) =
                 Cardinality(Adds(driver.todo, g))
                 - IF w.type = "add" /\ w.handle = g THEN 1 ELSE 0
    <3>1. w.type # "add"
      BY <2>2 DEF IsDead
    <3> QED BY <1>0, <2>5, <3>1, FiniteAdds
  <2>8. w \in Pending /\ w \in Work /\ Queued(w) /\ Once(driver'.own) /\ Once(driver'.todo)
        /\ Range(driver'.own) \subseteq Range(driver.own)
        /\ Range(driver'.todo) \subseteq Range(driver.todo)
    BY <2>1, <2>2, <2>5 DEF Pending, Queued, IInv, Unique
  <2> QED BY <1>0, <2>3, <2>5, <2>6, <2>7, <2>8, TakesStep
<1>2. CASE driver.own = <<>>
  <2> DEFINE w == Head(driver.todo)
             list == Tail(driver.todo)
             refs == Delivered(driver.refs, w)
  <2>0. driver.todo # <<>>
    BY <1>2 DEF Read
  <2>1. /\ list \in Seq(Work) /\ w \in Work /\ w \in Range(driver.todo)
        /\ Range(list) \subseteq Range(driver.todo)
        /\ Once(list) /\ \A v \in Range(list) : ~Clash(w, v)
        /\ \A h : Cardinality(Adds(list, h)) =
                     Cardinality(Adds(driver.todo, h))
                     - IF w.type = "add" /\ w.handle = h THEN 1 ELSE 0
    BY <1>0, <2>0, TailList DEF IInv, Unique
  <2>2. Queued(w)
    BY <2>1 DEF IInv, Shape
  <2>3. /\ mgr' = [at |-> "handling", work |-> w]
        /\ driver' = [driver EXCEPT !.todo = list, !.refs = refs]
    BY <1>2, <2>0 DEF Read
  <2>4. refs \in [Handle -> RefSet]
    <3>1. w.type = "dead" => w.handle \in Handle
      BY <2>2 DEF Queued, IsDead, IsAdd, Asking
    <3> QED BY <1>0, <3>1, DeliveredIs
  <2> HIDE DEF w, list
  <2>5. driver' \in DriverSet /\ driver'.refs = refs /\ driver'.own = driver.own
        /\ driver'.todo = list
    <3> HIDE DEF refs
    <3> QED BY <1>0, <2>1, <2>3, <2>4 DEF DriverSet
  <2>6. Range(driver.own) = {}
    BY <1>2 DEF Range
  <2>7. \A v \in Range(driver'.own) \cup Range(driver'.todo) : ~Clash(w, v)
    BY <2>1, <2>5, <2>6
  <2>8. w \in Pending /\ w \in Work /\ Queued(w) /\ Once(driver'.own) /\ Once(driver'.todo)
        /\ Range(driver'.own) \subseteq Range(driver.own)
        /\ Range(driver'.todo) \subseteq Range(driver.todo)
    BY <2>1, <2>2, <2>5 DEF Pending, IInv, Unique
  <2>9. \A g : Cardinality(Adds(driver'.todo, g)) =
                 Cardinality(Adds(driver.todo, g))
                 - IF w.type = "add" /\ w.handle = g THEN 1 ELSE 0
    BY <2>1, <2>5
  <2> QED BY <1>0, <2>3, <2>5, <2>7, <2>8, <2>9, TakesStep
<1> QED BY <1>1, <1>2

LEMMA SumNotZero ==
  ASSUME NEW list \in Seq(Entry), NEW g, NEW n, NEW a \in Nat, NEW b \in Nat,
         NEW i \in DOMAIN list, list[i].ptr = g, list[i].name # n
  PROVE  a + b + Cardinality(EntriesBut(list, g, n)) # 0
<1> DEFINE T == EntriesBut(list, g, n)
           e == Cardinality(T)
<1>0. i \in T
  BY DEF EntriesBut
<1>1. T # {} /\ IsFiniteSet(T) /\ e \in Nat
  BY <1>0, FiniteEntries
<1>2. e # 0
  <2> HIDE DEF T
  <2> QED BY <1>1, FS_EmptySet
<1> HIDE DEF e
<1>3. a + b + e # 0
  BY <1>1, <1>2
<1> QED BY <1>3 DEF e

\* A registry in which one name has changed is listed as the one before.
LEMMA RenewedClients ==
  ASSUME IInv, NEW n, NEW p, NEW s, Renewed(svclist', n, p, s), UNCHANGED client,
         Pending' \subseteq Pending \cup {NoWork}
  PROVE  Questions' /\ ListingIsComplete'
<1>0. DOMAIN svclist' = 1..Len(svclist') /\ DOMAIN svclist = 1..Len(svclist)
  BY LenProperties, Typed DEF Renewed, IInv
<1>1. ASSUME NEW w \in Pending PROVE Asked(w)'
  <2>1. Asked(w) /\ (w.type = "list" => w.handle \in Nat)
    <3>1. w \in Work
      <4>1. driver.own \in Seq(Work) /\ driver.todo \in Seq(Work) /\ mgr.work \in Work
        BY Typed DEF IInv
      <4>2. \A list \in Seq(Work) : \A i \in 1..Len(list) : list[i] \in Work
        BY ElementOfSeq
      <4> QED BY <4>1, <4>2, RangeIs DEF Pending
    <3> QED BY <3>1, PendingIs DEF Work
  <2>2. ASSUME w.type = "list", NEW j \in DOMAIN svclist, j > w.handle
        PROVE  \E i \in DOMAIN svclist' : i > w.handle /\ svclist'[i].name = svclist[j].name
    <3>1. PICK i \in DOMAIN svclist' : j <= i /\ svclist'[i].name = svclist[j].name
      BY DEF Renewed
    <3>2. i > w.handle
      <4>1. i \in Nat /\ j \in Nat /\ w.handle \in Nat
        BY <1>0, <2>1, <2>2
      <4> QED BY <2>2, <3>1, <4>1
    <3> QED BY <3>1, <3>2
  <2> QED BY <2>1, <2>2 DEF Asked
<1>2. Asked(NoWork)'
  BY NoWorkIs DEF Asked
<1>3. ListingIsComplete'
  BY DEF IInv, ListingIsComplete
<1> QED BY <1>1, <1>2, <1>3 DEF IInv, Questions

LEMMA AddStep ==
  ASSUME IInv, do_add_service
  PROVE  IInv'
<1> DEFINE n == mgr.work.name
           h == mgr.work.handle
           s == driver.refs[h].node
<1>0. /\ mgr.at = "handling" /\ mgr.work.type = "add" /\ mgr.work \in Pending
      /\ mgr' \in MgrSet /\ mgr'.at = "acquire" /\ mgr'.work = mgr.work
      /\ UNCHANGED <<driver, alive, adds, client>> /\ svclist' = Registered(n, h, s)
      /\ Find(svclist, n) = NoHandle
  BY Typed, FindIs DEF do_add_service, Handling, Pending, Taken, MgrSet, IInv
<1>1. n \in Name /\ h \in Handle /\ h # NoHandle /\ s \in Service
  BY <1>0, PendingIs, Held, InUse, Handles
<1>2. /\ svclist \in Seq(Entry) /\ OneName(svclist) /\ driver \in DriverSet
      /\ driver.todo \in Seq(Work)
  BY Typed DEF IInv, Registry
<1>3. Renewed(svclist', n, h, s)
  <2> HIDE DEF n, h, s
  <2> QED BY <1>0, <1>1, <1>2, RegisterRenews
<1> HIDE DEF n, h, s
<1>4. TypeOK'
  <2>1. /\ svclist' \in Seq(Entry) /\ alive' \subseteq Service /\ adds' \in 0..MaxAdds
        /\ driver' \in DriverSet /\ client' \in [Client -> ClientSet]
    BY <1>0, <1>3, Types DEF IInv, Renewed
  <2> QED BY <1>0, <2>1 DEF TypeOK, Entry, DriverSet, RefSet, MgrSet, ClientSet
<1>5. Shape' /\ Unique' /\ Pending' \subseteq Pending \cup {NoWork}
  <2>1. IsAdd(mgr.work)
    BY <1>0, <1>1 DEF IsAdd, n, h
  <2>2. Once(driver'.own) /\ Once(driver'.todo)
    BY <1>0 DEF IInv, Unique
  <2> QED BY <1>0, <2>1, <2>2, GoesOn
<1>6. Refs'
  BY <1>0 DEF IInv, Refs
<1>7. Counts'
  <2> SUFFICES ASSUME NEW g \in Handle
      PROVE  Cardinality(EntriesBut(svclist', g, Skipped')) =
             Cardinality(EntriesBut(svclist, g, Skipped))
    BY <1>0 DEF IInv, Counts
  <2>1. Skipped' = n /\ Skipped = NoName
    BY <1>0 DEF Skipped, n
  <2>2. Cardinality(EntriesBut(svclist', g, n)) = Cardinality(EntriesBut(svclist, g, n))
    BY <1>3 DEF Renewed
  <2>3. Cardinality(EntriesBut(svclist, g, NoName)) = Cardinality(EntriesBut(svclist, g, n)) + 0
    <3>1. Find(svclist, n) # g
      BY <1>0, Handles
    <3> QED BY <1>1, <1>2, <3>1, EntryOfName
  <2> QED BY <1>2, <2>1, <2>2, <2>3, FiniteEntries
<1>8. Registry'
  <2>1. OneName(svclist') /\ Find(svclist', n) = h
    BY <1>3 DEF Renewed
  <2>2. ASSUME NEW i \in DOMAIN svclist', svclist'[i].ptr # NoHandle
        PROVE  /\ driver'.refs[svclist'[i].ptr].node = svclist'[i].service
               /\ svclist'[i].name # n => driver'.refs[svclist'[i].ptr].death # NoName
    <3>1. CASE svclist'[i].name = n
      <4>1. svclist'[i].ptr = h /\ svclist'[i].service = s
        BY <1>1, <1>3, <3>1 DEF Renewed
      <4> QED BY <1>0, <3>1, <4>1 DEF s
    <3>2. CASE svclist'[i].name # n
      <4>1. PICK j \in DOMAIN svclist : svclist'[i] = svclist[j]
        BY <1>3, <3>2 DEF Renewed
      <4>2. ~Linking
        BY <1>0 DEF Linking
      <4> QED BY <1>0, <2>2, <4>1, <4>2 DEF IInv, Registry
    <3> QED BY <3>1, <3>2
  <2>3. mgr'.work.name = n /\ mgr'.work.handle = h /\ Linking'
    BY <1>0 DEF n, h, Linking
  <2> QED BY <2>1, <2>2, <2>3 DEF Registry
<1>9. ASSUME NEW m, Find(svclist, m) \in Handle PROVE Find(svclist', m) = Find(svclist, m)
  BY <1>0, <1>3, <1>9, Handles DEF Renewed
<1>10. Watched'
  BY <1>0, <1>9 DEF IInv, Watched
<1>11. Obituaries'
  <2>1. ASSUME NEW w \in Pending, w.type = "dead" PROVE Addressed(w)'
    <3>1. Addressed(w) /\ w.handle \in Handle
      BY <2>1, PendingIs DEF IInv, Obituaries
    <3> QED BY <1>0, <1>9, <2>1, <3>1 DEF Addressed
  <2>2. \A w \in Pending' : w \in Pending \/ w.type # "dead"
    BY <1>5, NoWorkIs
  <2> QED BY <2>1, <2>2 DEF Obituaries, Addressed
<1>12. Questions' /\ ListingIsComplete'
  BY <1>0, <1>3, <1>5, RenewedClients
<1> QED BY <1>4, <1>5, <1>6, <1>7, <1>8, <1>10, <1>11, <1>12 DEF IInv

LEMMA AcquireStep ==
  ASSUME IInv, binder_acquire
  PROVE  IInv'
<1> DEFINE n == mgr.work.name
           h == mgr.work.handle
<1>0. /\ mgr.at = "acquire" /\ driver' = IncRef(driver, h)
      /\ mgr' \in MgrSet /\ mgr'.at = "link" /\ mgr'.work = mgr.work
      /\ UNCHANGED <<svclist, alive, adds, client>>
  BY Typed DEF binder_acquire, MgrSet, IInv
<1>1. n \in Name /\ h \in Handle /\ mgr.work.type = "add" /\ IsAdd(mgr.work)
  BY <1>0 DEF IInv, Shape, InWork, IsAdd
<1>2. /\ svclist \in Seq(Entry) /\ OneName(svclist) /\ driver \in DriverSet
      /\ driver.todo \in Seq(Work) /\ Find(svclist, n) = h
  BY <1>0, Typed DEF IInv, Registry, Linking
<1>3. /\ Changed(driver, driver', h) /\ driver'.todo = driver.todo /\ driver'.own = driver.own
      /\ driver'.refs[h].strong = driver.refs[h].strong + 1
      /\ driver'.refs[h].node = driver.refs[h].node
      /\ driver'.refs[h].death = driver.refs[h].death
  <2> HIDE DEF h
  <2> QED BY <1>0, <1>1, <1>2, IncRefIs
<1>4. TypeOK'
  <2>1. /\ svclist' \in Seq(Entry) /\ alive' \subseteq Service /\ adds' \in 0..MaxAdds
        /\ driver' \in DriverSet /\ client' \in [Client -> ClientSet]
    BY <1>0, <1>3, Types DEF IInv, Changed
  <2> QED BY <1>0, <2>1 DEF TypeOK, Entry, DriverSet, RefSet, MgrSet, ClientSet
<1>5. Shape' /\ Unique' /\ Pending' \subseteq Pending \cup {NoWork}
  <2>1. Once(driver'.own) /\ Once(driver'.todo)
    BY <1>3 DEF IInv, Unique
  <2> QED BY <1>0, <1>1, <1>3, <2>1, GoesOn
<1>6. Refs'
  <2>1. driver.refs[h].strong # 0 /\ driver.refs[h].strong \in Nat
    BY <1>1, Held, InUse
  <2>2. driver'.refs[h].strong # 0
    BY <1>3, <2>1
  <2> HIDE DEF h
  <2> QED BY <1>1, <1>3, <2>1, <2>2 DEF IInv, Refs, RefsOK, Changed
<1>7. Counts'
  <2> SUFFICES ASSUME NEW g \in Handle
      PROVE  driver'.refs[g].strong =
               Cardinality(Adds(driver'.todo, g))
               + (IF mgr'.work.type = "add" /\ mgr'.work.handle = g THEN 1 ELSE 0)
               + Cardinality(EntriesBut(svclist', g, Skipped'))
    BY DEF Counts
  <2> DEFINE a == Cardinality(Adds(driver.todo, g))
             b == IF mgr.work.type = "add" /\ mgr.work.handle = g THEN 1 ELSE 0
             e == Cardinality(EntriesBut(svclist, g, n))
             e1 == Cardinality(EntriesBut(svclist, g, NoName))
  <2>1. Skipped = n /\ Skipped' = NoName
    BY <1>0 DEF Skipped
  <2>2. driver.refs[g].strong = a + b + e
    BY <2>1 DEF IInv, Counts
  <2>3. a \in Nat /\ b \in Nat /\ e \in Nat
    BY <1>2, FiniteAdds, FiniteEntries
  <2>4. e1 = e + IF h = g THEN 1 ELSE 0
    <3> HIDE DEF n, h
    <3> QED BY <1>1, <1>2, EntryOfName
  <2>5. driver'.refs[g].strong = a + b + e1
    <3> HIDE DEF a, b, e, e1, h
    <3> QED BY <1>3, <2>2, <2>3, <2>4 DEF Changed
  <2> QED BY <1>0, <1>3, <2>1, <2>5
<1>8. Registry' /\ Watched' /\ Obituaries'
  <2>1. \A g \in Handle :
           /\ driver'.refs[g].death = driver.refs[g].death
           /\ driver'.refs[g].node = driver.refs[g].node \/ driver.refs[g] = NoRef
    <3> HIDE DEF h
    <3> QED BY <1>3 DEF Changed
  <2>2. \A v \in Pending' : v \in Pending \/ v.type # "dead"
    BY <1>5, NoWorkIs
  <2>3. (Linking' <=> Linking) /\ (Linking => mgr'.work = mgr.work)
    BY <1>0 DEF Linking
  <2>4. UNCHANGED <<svclist, alive>>
    BY <1>0
  <2> QED BY <1>4, <2>1, <2>2, <2>3, <2>4, Quiet
<1>9. Questions' /\ ListingIsComplete'
  <2>1. \A v \in Pending' : v \in Pending \/ v.type \notin Asking
    BY <1>5, NoWorkIs DEF Asking
  <2> QED BY <1>0, <2>1, QuietClients
<1> QED BY <1>4, <1>5, <1>6, <1>7, <1>8, <1>9 DEF IInv

LEMMA LinkStep ==
  ASSUME IInv, binder_link_to_death
  PROVE  IInv'
<1> DEFINE n == mgr.work.name
           h == mgr.work.handle
<1>0. /\ mgr.at = "link" /\ driver' = LinkToDeath(driver, n, h)
      /\ mgr' \in MgrSet /\ mgr'.at = "reply" /\ mgr'.work = mgr.work
      /\ UNCHANGED <<svclist, alive, adds, client>>
  BY Typed DEF binder_link_to_death, MgrSet, IInv
<1>1. n \in Name /\ h \in Handle /\ mgr.work.type = "add" /\ IsAdd(mgr.work)
  BY <1>0 DEF IInv, Shape, InWork, IsAdd
<1>2. /\ svclist \in Seq(Entry) /\ OneName(svclist) /\ driver \in DriverSet
      /\ driver.todo \in Seq(Work) /\ driver.own \in Seq(Work) /\ Find(svclist, n) = h
  BY <1>0, Typed DEF IInv, Registry, Linking
<1>3. /\ Changed(driver, driver', h) /\ driver'.todo = driver.todo
      /\ driver'.refs[h].strong = driver.refs[h].strong
      /\ driver'.refs[h].node = driver.refs[h].node
      /\ driver.refs[h].death # NoName => driver' = driver
      /\ driver.refs[h].death = NoName => driver'.refs[h].death = n
      /\ driver.refs[h].death = NoName /\ driver.refs[h].node \notin alive =>
           driver'.own = Append(driver.own, Obituary(n, h))
      /\ driver.refs[h].death = NoName /\ driver.refs[h].node \in alive =>
           driver'.own = driver.own
  <2> HIDE DEF n, h
  <2> QED BY <1>0, <1>1, <1>2, LinkIs
<1>4. driver.refs[h].strong # 0 /\ driver.refs[h].node \in Service
  BY <1>1, Held, InUse
<1>5. TypeOK'
  <2>1. /\ svclist' \in Seq(Entry) /\ alive' \subseteq Service /\ adds' \in 0..MaxAdds
        /\ driver' \in DriverSet /\ client' \in [Client -> ClientSet]
    BY <1>0, <1>3, Types DEF IInv, Changed
  <2> QED BY <1>0, <2>1 DEF TypeOK, Entry, DriverSet, RefSet, MgrSet, ClientSet
<1>6. Refs'
  <2> HIDE DEF h
  <2> QED BY <1>1, <1>3, <1>4 DEF IInv, Refs, RefsOK, Changed
<1>7. Counts'
  <2>1. \A g \in Handle :
          /\ driver'.refs[g].strong = driver.refs[g].strong
          /\ Cardinality(Adds(driver'.todo, g)) = Cardinality(Adds(driver.todo, g))
    <3> HIDE DEF h
    <3> QED BY <1>3 DEF Changed
  <2>2. Skipped' = Skipped
    BY <1>0 DEF Skipped
  <2> QED BY <1>0, <2>1, <2>2, SameCounts
<1>8. driver'.refs[h].death # NoName
  BY <1>1, <1>3, ServiceManagerAssumption
<1>9. Registry'
  <2>1. ASSUME NEW i \in DOMAIN svclist, svclist[i].ptr # NoHandle
        PROVE  /\ driver'.refs[svclist[i].ptr].node = svclist[i].service
               /\ driver'.refs[svclist[i].ptr].death # NoName
    <3>1. svclist[i].ptr \in Handle
      BY <2>1, Typed DEF IInv
    <3>2. CASE svclist[i].ptr = h
      BY <1>3, <1>8, <2>1, <3>2 DEF IInv, Registry
    <3>3. CASE svclist[i].ptr # h
      <4>1. svclist[i].name # n
        BY <1>2, <3>3, Found
      <4>2. driver'.refs[svclist[i].ptr] = driver.refs[svclist[i].ptr]
        <5> HIDE DEF h
        <5> QED BY <1>3, <3>1, <3>3 DEF Changed
      <4> QED BY <2>1, <4>1, <4>2 DEF IInv, Registry
    <3> QED BY <3>2, <3>3
  <2>2. ~Linking' /\ OneName(svclist)
    BY <1>0, <1>2 DEF Linking
  <2> QED BY <1>0, <2>1, <2>2 DEF Registry
<1>10. Watched'
  <2> SUFFICES ASSUME NEW g \in Handle, driver'.refs[g].death # NoName,
                      driver'.refs[g].node \in alive
               PROVE  Find(svclist, driver'.refs[g].death) = g
    BY <1>0 DEF Watched
  <2>1. CASE g = h /\ driver.refs[h].death = NoName
    BY <1>2, <1>3, <2>1
  <2>2. CASE g # h \/ driver.refs[h].death # NoName
    <3>1. driver'.refs[g] = driver.refs[g]
      <4> HIDE DEF h
      <4> QED BY <1>3, <2>2 DEF Changed
    <3> QED BY <3>1 DEF IInv, Watched
  <2> QED BY <2>1, <2>2
<1>11. ASSUME driver.refs[h].death = NoName
       PROVE  \A v \in Pending : v.type = "dead" => v.handle # h
  <2>1. ASSUME NEW v \in Pending, v.type = "dead" PROVE driver.refs[v.handle].death # NoName
    BY <2>1, PendingIs, ServiceManagerAssumption DEF IInv, Obituaries, Addressed
  <2> QED BY <1>11, <2>1
<1>12. ASSUME NEW v \in Pending PROVE Addressed(v)'
  <2>1. v.type = "dead" => v.handle \in Handle /\ driver'.refs[v.handle] = driver.refs[v.handle]
    <3> HIDE DEF h
    <3> QED BY <1>3, <1>11, PendingIs DEF Changed
  <2> QED BY <1>0, <2>1 DEF IInv, Obituaries, Addressed
<1>13. CASE driver'.own = driver.own
  <2>1. Shape' /\ Unique' /\ Pending' \subseteq Pending \cup {NoWork}
    <3>1. Once(driver'.own) /\ Once(driver'.todo)
      BY <1>3, <1>13 DEF IInv, Unique
    <3> QED BY <1>0, <1>1, <1>3, <1>13, <3>1, GoesOn
  <2>2. Obituaries'
    <3>1. Addressed(NoWork)'
      BY NoWorkIs DEF Addressed
    <3> QED BY <1>12, <2>1, <3>1 DEF Obituaries
  <2>3. Questions' /\ ListingIsComplete'
    <3>1. \A v \in Pending' : v \in Pending \/ v.type \notin Asking
      BY <2>1, NoWorkIs DEF Asking
    <3> QED BY <1>0, <3>1, QuietClients
  <2> QED BY <1>5, <1>6, <1>7, <1>9, <1>10, <2>1, <2>2, <2>3 DEF IInv
<1>14. CASE driver'.own # driver.own
  <2>1. /\ driver.refs[h].death = NoName /\ driver.refs[h].node \notin alive
        /\ driver'.own = Append(driver.own, Obituary(n, h))
    BY <1>3, <1>14
  <2> PICK w : w = Obituary(n, h)
    OBVIOUS
  <2>2. /\ w \in Work /\ w.type = "dead" /\ w.name = n /\ w.handle = h /\ IsDead(w)
        /\ driver'.own = Append(driver.own, w)
    <3>1. h \in Nat
      BY <1>1, Handles
    <3> HIDE DEF n, h
    <3> QED BY <1>1, <2>1, <3>1, NoWorkIs DEF Obituary, NoWork, Work, IsDead
  <2>3. \A v \in Pending : ~Clash(v, w)
    BY <1>11, <2>1, <2>2 DEF Clash, Asking
  <2>4. /\ Range(driver'.own) = Range(driver.own) \cup {w} /\ Once(driver'.own)
    <3>1. \A v \in Range(driver.own) : ~Clash(v, w)
      BY <2>3 DEF Pending
    <3> QED BY <1>2, <2>2, <3>1, AppendList DEF IInv, Unique
  <2>5. Pending' = Pending \cup {w}
    BY <1>0, <1>3, <2>4 DEF Pending
  <2>6. Shape'
    BY <1>0, <1>1, <1>3, <2>2, <2>4 DEF IInv, Shape, InWork
  <2>7. Unique'
    <3>1. \A v \in Range(driver.todo) : ~Clash(w, v)
      BY <2>3, ClashSymmetric DEF Pending
    <3>2. ~Clash(mgr.work, w)
      BY <2>3 DEF Pending
    <3> QED BY <1>0, <1>3, <2>4, <3>1, <3>2 DEF IInv, Unique
  <2>8. Addressed(w)'
    BY <1>0, <1>2, <1>3, <1>4, <2>1, <2>2 DEF Addressed
  <2>9. Obituaries'
    BY <1>12, <2>5, <2>8 DEF Obituaries
  <2>10. Questions' /\ ListingIsComplete'
    <3>1. \A v \in Pending' : v \in Pending \/ v.type \notin Asking
      BY <2>2, <2>5 DEF Asking
    <3> QED BY <1>0, <3>1, QuietClients
  <2> QED BY <1>5, <1>6, <1>7, <1>9, <1>10, <2>6, <2>7, <2>9, <2>10 DEF IInv
<1> QED BY <1>13, <1>14

LEMMA ReplyStep ==
  ASSUME IInv, binder_send_reply
  PROVE  IInv'
<1> DEFINE h == mgr.work.handle
<1>0. /\ mgr.at = "reply" /\ driver' = DecRef(driver, h)
      /\ mgr' \in MgrSet /\ mgr'.at = "reading" /\ mgr'.work = NoWork
      /\ UNCHANGED <<svclist, alive, adds, client>>
  BY NoWorkIs, Typed DEF binder_send_reply, Reads, MgrSet, IInv
<1>1. h \in Handle /\ mgr.work.type = "add"
  BY <1>0 DEF IInv, Shape, InWork, IsAdd
<1>2. /\ svclist \in Seq(Entry) /\ driver \in DriverSet /\ driver.todo \in Seq(Work)
      /\ Once(driver.own) /\ Once(driver.todo)
  BY Typed DEF IInv, Unique
<1>3. driver.refs[h].strong # 0 /\ driver.refs[h].strong \in Nat
  BY <1>1, Held, InUse
<1>4. /\ Changed(driver, driver', h)
      /\ Range(driver'.todo) \subseteq Range(driver.todo)
      /\ Range(driver'.own) \subseteq Range(driver.own)
      /\ Once(driver'.todo) /\ Once(driver'.own)
      /\ \A g : Cardinality(Adds(driver'.todo, g)) = Cardinality(Adds(driver.todo, g))
      /\ driver'.refs[h].strong = driver.refs[h].strong - 1
      /\ driver.refs[h].strong # 1 =>
           /\ driver'.refs[h].node = driver.refs[h].node
           /\ driver'.refs[h].death = driver.refs[h].death
      /\ driver.refs[h].strong = 1 =>
           /\ driver'.refs[h] = NoRef
           /\ \A w \in Range(driver'.todo) \cup Range(driver'.own) : ~IsRecord(w, h)
  <2> HIDE DEF h
  <2> QED BY <1>0, <1>1, <1>2, <1>3, DecRefIs
<1>5. TypeOK'
  <2>1. /\ svclist' \in Seq(Entry) /\ alive' \subseteq Service /\ adds' \in 0..MaxAdds
        /\ driver' \in DriverSet /\ client' \in [Client -> ClientSet]
    BY <1>0, <1>4, Types DEF IInv, Changed
  <2> QED BY <1>0, <2>1 DEF TypeOK, Entry, DriverSet, RefSet, MgrSet, ClientSet
<1>6. Shape' /\ Unique' /\ Pending' \subseteq Pending \cup {NoWork}
  BY <1>0, <1>4, GoesOn
<1>7. Refs'
  <2>1. driver.refs[h].strong # 1 => driver'.refs[h].strong # 0
    BY <1>3, <1>4
  <2>2. driver.refs[h].strong # 1 => driver.refs[h].node \in Service
    BY <1>1, <1>3, InUse
  <2>3. \A g \in Handle \ {h} : driver'.refs[g] = driver.refs[g]
    BY <1>4 DEF Changed
  <2> HIDE DEF h
  <2> QED BY <1>1, <1>4, <2>1, <2>2, <2>3, RefsAfter DEF IInv, Refs
<1>8. Counts'
  <2> SUFFICES ASSUME NEW g \in Handle
      PROVE  driver'.refs[g].strong =
               Cardinality(Adds(driver'.todo, g))
               + (IF mgr'.work.type = "add" /\ mgr'.work.handle = g THEN 1 ELSE 0)
               + Cardinality(EntriesBut(svclist', g, Skipped'))
    BY DEF Counts
  <2> DEFINE a == Cardinality(Adds(driver.todo, g))
             b == IF mgr.work.type = "add" /\ mgr.work.handle = g THEN 1 ELSE 0
             e == Cardinality(EntriesBut(svclist, g, NoName))
  <2>1. Skipped = NoName /\ Skipped' = NoName
    BY <1>0 DEF Skipped
  <2>2. driver.refs[g].strong = a + b + e
    BY <2>1 DEF IInv, Counts
  <2>3. a \in Nat /\ b \in Nat /\ e \in Nat
    BY <1>2, FiniteAdds, FiniteEntries
  <2>4. b = IF h = g THEN 1 ELSE 0
    BY <1>1
  <2>5. driver'.refs[g].strong = a + 0 + e
    <3> HIDE DEF a, b, e, h
    <3> QED BY <1>3, <1>4, <2>2, <2>3, <2>4 DEF Changed
  <2> QED BY <1>0, <1>4, <2>1, <2>5, NoWorkIs
<1>9. Registry' /\ Watched' /\ Obituaries'
  <2>1. (Linking' <=> Linking) /\ (Linking => mgr'.work = mgr.work) /\ ~Linking
    BY <1>0 DEF Linking
  <2>2. \A v \in Pending' : v \in Pending \/ v.type # "dead"
    BY <1>6, NoWorkIs
  <2>3. UNCHANGED <<svclist, alive>>
    BY <1>0
  <2>4. CASE driver.refs[h].strong # 1
    <3>1. \A g \in Handle :
            /\ driver'.refs[g].death = driver.refs[g].death
            /\ driver'.refs[g].node = driver.refs[g].node \/ driver.refs[g] = NoRef
      <4> HIDE DEF h
      <4> QED BY <1>4, <2>4 DEF Changed
    <3> QED BY <1>5, <2>1, <2>2, <2>3, <3>1, Quiet
  <2>5. CASE driver.refs[h].strong = 1
    <3>1. driver'.refs[h] = NoRef /\ \A g \in Handle \ {h} : driver'.refs[g] = driver.refs[g]
      <4> HIDE DEF h
      <4> QED BY <1>4, <2>5 DEF Changed
    <3>2. ASSUME NEW i \in DOMAIN svclist PROVE svclist[i].ptr # h
      <4> SUFFICES ASSUME svclist[i].ptr = h PROVE FALSE
        OBVIOUS
      <4> DEFINE a == Cardinality(Adds(driver.todo, h))
                 e == Cardinality(EntriesBut(svclist, h, NoName))
      <4>1. Skipped = NoName /\ svclist[i].name # NoName
        BY <1>0, Typed, ServiceManagerAssumption DEF Skipped, IInv
      <4>2. driver.refs[h].strong = a + 1 + e
        BY <1>1, <4>1 DEF IInv, Counts
      <4>3. a \in Nat /\ e \in Nat /\ a + 0 + e # 0
        <5> HIDE DEF h
        <5> QED BY <1>2, <4>1, FiniteAdds, FiniteEntries, SumNotZero
      <4> HIDE DEF a, e
      <4> QED BY <2>5, <4>2, <4>3
    <3>3. Registry'
      <4>1. ASSUME NEW i \in DOMAIN svclist, svclist[i].ptr # NoHandle
            PROVE  /\ driver'.refs[svclist[i].ptr].node = svclist[i].service
                   /\ driver'.refs[svclist[i].ptr].death # NoName
        <5>1. svclist[i].ptr \in Handle \ {h}
          BY <3>2, <4>1, Typed DEF IInv
        <5> QED BY <2>1, <3>1, <4>1, <5>1 DEF IInv, Registry
      <4> QED BY <1>0, <2>1, <4>1 DEF IInv, Registry
    <3>4. Watched'
      BY <1>0, <3>1, NoRefIs DEF IInv, Watched
    <3>5. Obituaries'
      <4>1. ASSUME NEW w \in Pending', w.type = "dead" PROVE Addressed(w)'
        <5>1. w \in Pending /\ w \in Range(driver'.todo) \cup Range(driver'.own)
          BY <1>0, <2>2, <4>1, NoWorkIs DEF Pending
        <5>2. w.handle # h
          BY <1>4, <2>5, <4>1, <5>1 DEF IsRecord
        <5>3. driver'.refs[w.handle] = driver.refs[w.handle]
          BY <3>1, <4>1, <5>1, <5>2, PendingIs
        <5> QED BY <1>0, <5>1, <5>3 DEF IInv, Obituaries, Addressed
      <4> QED BY <4>1 DEF Obituaries, Addressed
    <3> QED BY <3>3, <3>4, <3>5
  <2> QED BY <2>4, <2>5
<1>10. Questions' /\ ListingIsComplete'
  <2>1. \A v \in Pending' : v \in Pending \/ v.type \notin Asking
    BY <1>6, NoWorkIs DEF Asking
  <2> QED BY <1>0, <2>1, QuietClients
<1> QED BY <1>5, <1>6, <1>7, <1>8, <1>9, <1>10 DEF IInv

LEMMA DeathStep ==
  ASSUME IInv, svcinfo_death
  PROVE  IInv'
<1> DEFINE n == mgr.work.name
           h == mgr.work.handle
<1>0. /\ mgr.at = "handling" /\ mgr.work.type = "dead" /\ mgr.work \in Pending
      /\ mgr' \in MgrSet /\ mgr'.at = "reading" /\ mgr'.work = NoWork
      /\ UNCHANGED <<alive, adds, client>>
  BY NoWorkIs, Typed DEF svcinfo_death, Handling, Reads, MgrSet, IInv, Pending
<1>1. /\ n \in Name /\ h \in Handle /\ h # NoHandle /\ Find(svclist, n) = h
      /\ driver.refs[h].node \notin alive /\ Skipped = NoName /\ Skipped' = NoName
  BY <1>0, PendingIs, Handles DEF IInv, Obituaries, Addressed, Skipped
<1>2. driver' = DecRef(driver, h) /\ svclist' = Forgotten(n)
  BY <1>1, FindIs DEF svcinfo_death
<1>3. /\ svclist \in Seq(Entry) /\ OneName(svclist) /\ driver \in DriverSet
      /\ driver.todo \in Seq(Work) /\ Once(driver.own) /\ Once(driver.todo)
  BY Typed DEF IInv, Unique, Registry
<1>4. Renewed(svclist', n, NoHandle, NoService)
  <2> HIDE DEF n, h
  <2> QED BY <1>1, <1>2, <1>3, ForgetRenews
<1>5. driver.refs[h].strong # 0 /\ driver.refs[h].strong \in Nat
  <2>1. PICK i \in DOMAIN svclist : svclist[i].name = n /\ svclist[i].ptr = h
    BY <1>1, <1>3, FindType
  <2> QED BY <1>1, <2>1, Held, InUse, ServiceManagerAssumption
<1>6. /\ Changed(driver, driver', h)
      /\ Range(driver'.todo) \subseteq Range(driver.todo)
      /\ Range(driver'.own) \subseteq Range(driver.own)
      /\ Once(driver'.todo) /\ Once(driver'.own)
      /\ \A g : Cardinality(Adds(driver'.todo, g)) = Cardinality(Adds(driver.todo, g))
      /\ driver'.refs[h].strong = driver.refs[h].strong - 1
      /\ driver.refs[h].strong # 1 =>
           /\ driver'.refs[h].node = driver.refs[h].node
           /\ driver'.refs[h].death = driver.refs[h].death
      /\ driver.refs[h].strong = 1 => driver'.refs[h] = NoRef
  <2> HIDE DEF n, h
  <2> QED BY <1>1, <1>2, <1>3, <1>5, DecRefIs
<1>7. TypeOK'
  <2>1. /\ svclist' \in Seq(Entry) /\ alive' \subseteq Service /\ adds' \in 0..MaxAdds
        /\ driver' \in DriverSet /\ client' \in [Client -> ClientSet]
    BY <1>0, <1>4, <1>6, Types DEF IInv, Changed, Renewed
  <2> QED BY <1>0, <2>1 DEF TypeOK, Entry, DriverSet, RefSet, MgrSet, ClientSet
<1>8. Shape' /\ Unique' /\ Pending' \subseteq Pending \cup {NoWork}
  BY <1>0, <1>6, GoesOn
<1>9. Refs'
  <2>1. driver.refs[h].strong # 1 => driver'.refs[h].strong # 0
    BY <1>5, <1>6
  <2>2. driver.refs[h].strong # 1 => driver.refs[h].node \in Service
    BY <1>1, <1>5, InUse
  <2>3. \A g \in Handle \ {h} : driver'.refs[g] = driver.refs[g]
    BY <1>6 DEF Changed
  <2> HIDE DEF h
  <2> QED BY <1>1, <1>6, <2>1, <2>2, <2>3, RefsAfter DEF IInv, Refs
<1>10. Counts'
  <2> SUFFICES ASSUME NEW g \in Handle
      PROVE  driver'.refs[g].strong =
               Cardinality(Adds(driver'.todo, g))
               + (IF mgr'.work.type = "add" /\ mgr'.work.handle = g THEN 1 ELSE 0)
               + Cardinality(EntriesBut(svclist', g, Skipped'))
    BY DEF Counts
  <2> DEFINE a == Cardinality(Adds(driver.todo, g))
             e == Cardinality(EntriesBut(svclist, g, NoName))
             e0 == Cardinality(EntriesBut(svclist, g, n))
             e1 == Cardinality(EntriesBut(svclist', g, NoName))
  <2>2. driver.refs[g].strong = a + 0 + e
    BY <1>0, <1>1 DEF IInv, Counts
  <2>3. a \in Nat /\ e \in Nat /\ e0 \in Nat
    BY <1>3, FiniteAdds, FiniteEntries
  <2>4. e = e0 + IF h = g THEN 1 ELSE 0
    <3> HIDE DEF n, h
    <3> QED BY <1>1, <1>3, EntryOfName
  <2>5. e1 = e0
    <3>1. PICK new \in Seq(Entry) : new = svclist' /\ OneName(new)
      BY <1>4 DEF Renewed
    <3>2. Find(new, n) = NoHandle /\ g # NoHandle
      BY <1>4, <3>1, Handles DEF Renewed
    <3>3. Cardinality(EntriesBut(new, g, NoName)) = Cardinality(EntriesBut(new, g, n)) + 0
      <4> HIDE DEF n
      <4> QED BY <1>1, <3>1, <3>2, EntryOfName
    <3>4. Cardinality(EntriesBut(new, g, n)) = e0
      BY <1>4, <3>1 DEF Renewed
    <3> HIDE DEF e0
    <3> QED BY <2>3, <3>1, <3>3, <3>4
  <2>6. driver'.refs[g].strong = a + 0 + e1
    <3> HIDE DEF a, e, e0, e1, h
    <3> QED BY <1>5, <1>6, <2>2, <2>3, <2>4, <2>5 DEF Changed
  <2> QED BY <1>0, <1>1, <1>6, <2>6, NoWorkIs
<1>11. \A g \in Handle : driver'.refs[g].strong # 0 =>
         /\ driver'.refs[g].node = driver.refs[g].node
         /\ driver'.refs[g].death = driver.refs[g].death
  <2>1. driver'.refs[h].strong # 0 => driver.refs[h].strong # 1
    BY <1>6, NoRefIs
  <2> HIDE DEF h
  <2> QED BY <1>6, <2>1 DEF Changed
<1>12. ~Linking /\ ~Linking'
  BY <1>0 DEF Linking
<1>13. Registry'
  <2>1. OneName(svclist')
    BY <1>4 DEF Renewed
  <2>2. ASSUME NEW i \in DOMAIN svclist', svclist'[i].ptr # NoHandle
        PROVE  /\ driver'.refs[svclist'[i].ptr].node = svclist'[i].service
               /\ driver'.refs[svclist'[i].ptr].death # NoName
    <3>1. svclist'[i].name # n
      BY <1>4, <2>2 DEF Renewed
    <3>2. PICK j \in DOMAIN svclist : svclist'[i] = svclist[j]
      BY <1>4, <3>1 DEF Renewed
    <3> DEFINE g == svclist'[i].ptr
    <3>3. g \in Handle /\ svclist'[i].name # NoName
      BY <2>2, <3>2, Typed, ServiceManagerAssumption DEF IInv
    <3>4. driver'.refs[g].strong # 0
      <4> DEFINE a == Cardinality(Adds(driver'.todo, g))
                 e == Cardinality(EntriesBut(svclist', g, NoName))
      <4>1. driver'.refs[g].strong = a + 0 + e
        BY <1>0, <1>1, <1>10, <3>3, NoWorkIs DEF Counts
      <4>2. PICK new \in Seq(Entry) : new = svclist'
        BY <1>4 DEF Renewed
      <4>3. a \in Nat
        BY <1>3, <1>6, FiniteAdds
      <4>4. i \in DOMAIN new /\ new[i].ptr = g /\ new[i].name # NoName
        BY <3>3, <4>2
      <4>5. a + 0 + Cardinality(EntriesBut(new, g, NoName)) # 0
        <5> HIDE DEF a, g
        <5> QED BY <4>3, <4>4, SumNotZero
      <4> QED BY <4>1, <4>2, <4>5
    <3>5. driver'.refs[g].node = driver.refs[g].node /\ driver'.refs[g].death = driver.refs[g].death
      <4> HIDE DEF g
      <4> QED BY <1>11, <3>3, <3>4
    <3> QED BY <1>12, <2>2, <3>2, <3>5 DEF IInv, Registry
  <2> QED BY <1>12, <2>1, <2>2 DEF Registry
<1>14. ASSUME NEW m, Find(svclist, m) # h PROVE Find(svclist', m) = Find(svclist, m)
  BY <1>1, <1>4, <1>14 DEF Renewed
<1>15. Watched'
  <2> SUFFICES ASSUME NEW g \in Handle, driver'.refs[g].death # NoName,
                      driver'.refs[g].node \in alive
               PROVE  Find(svclist', driver'.refs[g].death) = g
    BY <1>0 DEF Watched
  <2>1. driver'.refs[g].node = driver.refs[g].node /\ driver'.refs[g].death = driver.refs[g].death
    <3>1. driver'.refs[g].strong # 0
      BY <1>9, NoRefIs DEF Refs, RefsOK
    <3> QED BY <1>11, <3>1
  <2>2. g # h /\ Find(svclist, driver.refs[g].death) = g
    BY <1>1, <2>1 DEF IInv, Watched
  <2> QED BY <1>14, <2>1, <2>2
<1>16. Obituaries'
  <2>1. ASSUME NEW w \in Pending', w.type = "dead" PROVE Addressed(w)'
    <3>1. w \in Pending /\ w \in Range(driver.todo) \cup Range(driver.own)
      BY <1>0, <1>6, <2>1, NoWorkIs DEF Pending
    <3>2. w.handle # h /\ w.handle \in Handle
      BY <1>0, <2>1, <3>1, PendingIs DEF IInv, Unique, Clash
    <3>3. driver'.refs[w.handle] = driver.refs[w.handle]
      <4> HIDE DEF h
      <4> QED BY <1>6, <3>2 DEF Changed
    <3>4. Addressed(w)
      BY <3>1 DEF IInv, Obituaries
    <3> QED BY <1>0, <1>14, <2>1, <3>2, <3>3, <3>4 DEF Addressed
  <2> QED BY <2>1 DEF Obituaries, Addressed
<1>17. Questions' /\ ListingIsComplete'
  BY <1>0, <1>4, <1>8, RenewedClients
<1> QED BY <1>7, <1>8, <1>9, <1>10, <1>13, <1>15, <1>16, <1>17 DEF IInv

-----------------------------------------------------------------------------
(* The invariant holds, and what it implies. *)

LEMMA Inductive == IInv /\ [Next]_vars => IInv'
<1> SUFFICES ASSUME IInv, [Next]_vars PROVE IInv'
  OBVIOUS
<1>1. CASE Manager
  BY <1>1, ReadStep, CheckServiceStep, ListsStep, AddRefusedStep, AddStep, AcquireStep, LinkStep,
     ReplyStep, DeathStep DEF Manager
<1>2. CASE \E s \in Service : ServiceDies(s) \/ \E n \in Name : addService(s, n)
  BY <1>2, ServiceDiesStep, AddServiceStep
<1>3. CASE \E c \in Client : listServices(c) \/ ListingDone(c) \/ \E n \in Name : getService(c, n)
  BY <1>3, ListServicesStep, ListingDoneStep, GetServiceStep
<1>4. CASE UNCHANGED vars
  <2>1. UNCHANGED <<svclist, driver, mgr, alive, adds, client>>
    BY <1>4 DEF vars
  <2>2. TypeOK' /\ Shape' /\ Unique' /\ Refs' /\ Pending' = Pending
    BY <2>1 DEF IInv, TypeOK, Shape, InWork, Unique, Refs, Pending
  <2>3. Counts' /\ Registry' /\ Watched'
    BY <2>1 DEF IInv, Counts, Skipped, Registry, Linking, Watched
  <2>4. Obituaries' /\ Questions' /\ ListingIsComplete'
    BY <2>1, <2>2 DEF IInv, Obituaries, Addressed, Questions, Asked, ListingIsComplete
  <2> QED BY <2>2, <2>3, <2>4 DEF IInv
<1> QED BY <1>1, <1>2, <1>3, <1>4 DEF Next

\* The state of the manager, its driver and its clients has its type, in every
\* run and for any names, services and clients.
THEOREM TypeCorrect == Spec => []TypeOK
<1>1. IInv => TypeOK
  BY DEF IInv
<1> QED BY <1>1, InitIs, Inductive, PTL DEF Spec

LEMMA EntriesAre ==
  ASSUME IInv, NEW h
  PROVE  Entries(h) = EntriesBut(svclist, h, Skipped)
<1>1. \A i \in DOMAIN svclist : svclist[i].name # NoName
  BY Typed, ServiceManagerAssumption DEF IInv
<1> QED BY <1>1 DEF Entries, EntriesBut, Beginning, Skipped

LEMMA InvariantRegistry == IInv => RegistryHoldsItsHandles
<1> SUFFICES ASSUME IInv PROVE RegistryHoldsItsHandles
  OBVIOUS
<1>1. ASSUME NEW h \in Handle
      PROVE  driver.refs[h].strong = Buffers(h) + Cardinality(Entries(h))
  <2>1. Entries(h) = EntriesBut(svclist, h, Skipped)
    BY EntriesAre
  <2> QED BY <2>1 DEF Buffers, IInv, Counts
<1>2. ASSUME NEW i \in DOMAIN svclist, svclist[i].ptr # NoHandle
      PROVE  /\ driver.refs[svclist[i].ptr].node = svclist[i].service
             /\ ~Unlinked(svclist[i]) => driver.refs[svclist[i].ptr].death # NoName
  BY <1>2 DEF IInv, Registry, Linking, Unlinked
<1>3. ASSUME NEW w \in Range(driver.todo) \cup Range(driver.own) \cup {mgr.work},
             w.type = "dead"
      PROVE  /\ do_find_service(w.name) = w.handle
             /\ driver.refs[w.handle].node \notin alive
  BY <1>3, FindIs DEF IInv, Obituaries, Addressed, Pending
<1> QED BY <1>1, <1>2, <1>3 DEF RegistryHoldsItsHandles

\* Whatever registers, dies and registers again, each entry of the registry has
\* its strong reference, on the service that registered, and a record of its
\* death; and an obituary under way names the entry of the service that died.
THEOREM RegistryCorrect == Spec => []RegistryHoldsItsHandles
BY InitIs, Inductive, InvariantRegistry, PTL DEF Spec

\* A listing reports every name that was there when it began, although the
\* manager is asked for one index after the other and the registry grows
\* meanwhile: by its text if that fits the 240 bytes of a reply, which is up to
\* 117 units whatever the rounding in bio_alloc, and else as an empty string.
THEOREM ListingsComplete == Spec => []ListingIsComplete
<1>1. IInv => ListingIsComplete
  BY DEF IInv
<1> QED BY <1>1, InitIs, Inductive, PTL DEF Spec
=============================================================================
