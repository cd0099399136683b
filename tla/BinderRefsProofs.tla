--------------------------- MODULE BinderRefsProofs ---------------------------
(***************************************************************************)
(* The counts of references are right, and a remote reference keeps the    *)
(* object alive, for any number of threads, holders and transactions.      *)
(*                                                                         *)
(* CountInv is what CountsAgree needs to be inductive: the types; that a   *)
(* holder is known as long as it counts something; that the driver's flags *)
(* follow what the owner was told, and that whenever the owner has to be   *)
(* told more, the node's work is on a list; and the sums over the owner's  *)
(* threads of the calls that are under way and of what the object is given *)
(* or gives up once they have executed what they heard.                    *)
(*                                                                         *)
(* Fine is what RemoteKeepsObject needs beyond that: a thread that is told *)
(* to take a reference, or will be because the work is on its own list, is *)
(* the one whose parcel still keeps the object, and it hears of the end of *)
(* its transaction last; and what is on the list of the process never      *)
(* tells anybody to take a reference.  So no reference is taken too late.  *)
(* A transaction that fails behind the object takes the work from the      *)
(* thread it waited for (diverted), and nothing of this is said after it.  *)
(*                                                                         *)
(* The driver's operators are proved about as relations between two nodes, *)
(* each with what it keeps of the lists, the counts and the flags; the     *)
(* sums are reasoned about by what one thread's step adds to them.         *)
(***************************************************************************)
EXTENDS BinderRefs, FiniteSetTheorems, WellFoundedInduction, TLAPS

-----------------------------------------------------------------------------
(* Natural numbers: a set of them has a least element. *)

LEMMA HasMin ==
  ASSUME NEW S \in SUBSET Nat, S # {}
  PROVE  \E m \in S : \A x \in S : m <= x
<1> DEFINE R == {p \in Nat \X Nat : p[1] < p[2]}
<1>1. IsWellFoundedOn(R, Nat)
  BY NatLessThanWellFounded, Zenon DEF OpToRel
<1>2. \A x, y \in Nat : <<y, x>> \in R <=> y < x
  OBVIOUS
<1> HIDE DEF R
<1>3. PICK m \in S : \A y \in S : ~ (<<y, m>> \in R)
  BY <1>1, WFMin
<1>4. ASSUME NEW y \in S PROVE m <= y
  <2>1. ~ (y < m)
    BY <1>2, <1>3
  <2> QED BY <2>1
<1> QED BY <1>4

LEMMA CountUp ==
  ASSUME NEW S, 0 \in S, \A n \in Nat : n \in S => n + 1 \in S
  PROVE  \A n \in Nat : n \in S
<1> DEFINE D == Nat \ S
<1>1. SUFFICES ASSUME D # {} PROVE FALSE
  OBVIOUS
<1>2. PICK m \in D : \A x \in D : m <= x
  <2> HIDE DEF D
  <2>1. D \in SUBSET Nat
    BY DEF D
  <2> QED BY <1>1, <2>1, HasMin
<1>3. m # 0 /\ m - 1 \in Nat
  BY <1>2
<1>4. m - 1 \in S
  BY <1>2, <1>3
<1> QED BY <1>2, <1>3, <1>4

-----------------------------------------------------------------------------
(* Sums over a finite set. *)

Pick(s) == CHOOSE x \in s : TRUE
Adds(iter, f, D) ==
  iter = [s \in SUBSET D |-> IF s = {} THEN 0 ELSE f[Pick(s)] + iter[s \ {Pick(s)}]]
Sizes(D, n) == {s \in SUBSET D : Cardinality(s) <= n}
AddsTo(iter, f, D, n) ==
  /\ iter \in [Sizes(D, n) -> Int]
  /\ \A s \in Sizes(D, n) :
       iter[s] = IF s = {} THEN 0 ELSE f[Pick(s)] + iter[s \ {Pick(s)}]

LEMMA Smaller ==
  ASSUME NEW D, IsFiniteSet(D), NEW s \in SUBSET D, NEW x \in s
  PROVE  /\ Cardinality(s) \in Nat /\ Cardinality(s \ {x}) \in Nat
         /\ Cardinality(s) = Cardinality(s \ {x}) + 1
         /\ s \ {x} \in SUBSET D
<1>1. IsFiniteSet(s)
  BY FS_Subset
<1>2. Cardinality(s) \in Nat
  BY <1>1, FS_CardinalityType
<1>3. IsFiniteSet(s \ {x}) /\ Cardinality(s \ {x}) = Cardinality(s) - 1
  BY <1>1, FS_RemoveElement
<1>4. Cardinality(s \ {x}) \in Nat
  BY <1>3, FS_CardinalityType
<1> QED BY <1>2, <1>3, <1>4

LEMMA AddsExist ==
  ASSUME NEW D, IsFiniteSet(D), NEW f \in [D -> Int]
  PROVE  \A n \in Nat : \E g : AddsTo(g, f, D, n)
<1> DEFINE S == {n \in Nat : \E g : AddsTo(g, f, D, n)}
<1>1. 0 \in S
  <2> DEFINE g == [s \in Sizes(D, 0) |-> 0]
  <2>1. ASSUME NEW s \in Sizes(D, 0) PROVE s = {}
    <3>1. s \in SUBSET D /\ Cardinality(s) <= 0
      BY <2>1 DEF Sizes
    <3>2. IsFiniteSet(s)
      BY <3>1, FS_Subset
    <3>3. Cardinality(s) = 0
      BY <3>1, <3>2, FS_CardinalityType
    <3> QED BY <3>2, <3>3, FS_EmptySet
  <2>2. AddsTo(g, f, D, 0)
    BY <2>1 DEF AddsTo
  <2> QED BY <2>2
<1>2. ASSUME NEW n \in Nat, n \in S PROVE n + 1 \in S
  <2>1. PICK g : AddsTo(g, f, D, n)
    BY <1>2
  <2> DEFINE k == [s \in Sizes(D, n + 1) |->
                     IF s = {} THEN 0 ELSE f[Pick(s)] + g[s \ {Pick(s)}]]
  <2>2. ASSUME NEW s \in Sizes(D, n + 1), s # {}
        PROVE  Pick(s) \in D /\ s \ {Pick(s)} \in Sizes(D, n) /\ s \ {Pick(s)} \in Sizes(D, n + 1)
    <3>1. s \in SUBSET D /\ Cardinality(s) <= n + 1
      BY DEF Sizes
    <3>2. Pick(s) \in s
      BY <2>2 DEF Pick
    <3>3. /\ Cardinality(s) \in Nat /\ Cardinality(s \ {Pick(s)}) \in Nat
          /\ Cardinality(s) = Cardinality(s \ {Pick(s)}) + 1
          /\ s \ {Pick(s)} \in SUBSET D
      BY <3>1, <3>2, Smaller
    <3>4. Cardinality(s \ {Pick(s)}) <= n /\ Cardinality(s \ {Pick(s)}) <= n + 1
      BY <3>1, <3>3
    <3> QED BY <3>1, <3>2, <3>3, <3>4 DEF Sizes
  <2>3. ASSUME NEW s \in Sizes(D, n + 1), s # {}
        PROVE  f[Pick(s)] \in Int /\ g[s \ {Pick(s)}] \in Int
    BY <2>1, <2>2, <2>3 DEF AddsTo
  <2>4. k \in [Sizes(D, n + 1) -> Int]
    <3>1. ASSUME NEW s \in Sizes(D, n + 1)
          PROVE  (IF s = {} THEN 0 ELSE f[Pick(s)] + g[s \ {Pick(s)}]) \in Int
      <4>1. CASE s = {}
        BY <4>1
      <4>2. CASE s # {}
        BY <4>2, <2>3
      <4> QED BY <4>1, <4>2
    <3> QED BY <3>1
  <2>5. ASSUME NEW s \in Sizes(D, n) PROVE k[s] = g[s]
    <3>1. s \in Sizes(D, n + 1)
      <4>1. s \in SUBSET D /\ Cardinality(s) <= n
        BY DEF Sizes
      <4>2. Cardinality(s) \in Nat
        BY <4>1, FS_Subset, FS_CardinalityType
      <4>3. Cardinality(s) <= n + 1
        BY <4>1, <4>2
      <4> QED BY <4>1, <4>3 DEF Sizes
    <3>2. g[s] = IF s = {} THEN 0 ELSE f[Pick(s)] + g[s \ {Pick(s)}]
      BY <2>1 DEF AddsTo
    <3> QED BY <3>1, <3>2
  <2>6. ASSUME NEW s \in Sizes(D, n + 1)
        PROVE  k[s] = IF s = {} THEN 0 ELSE f[Pick(s)] + k[s \ {Pick(s)}]
    <3>1. CASE s = {}
      BY <3>1
    <3>2. CASE s # {}
      <4>1. s \ {Pick(s)} \in Sizes(D, n)
        BY <2>2, <3>2
      <4>2. k[s \ {Pick(s)}] = g[s \ {Pick(s)}]
        BY <2>5, <4>1
      <4>3. k[s] = f[Pick(s)] + g[s \ {Pick(s)}]
        BY <3>2
      <4> HIDE DEF k
      <4> QED BY <3>2, <4>2, <4>3
    <3> QED BY <3>1, <3>2
  <2>7. AddsTo(k, f, D, n + 1)
    <3> HIDE DEF k
    <3> QED BY <2>4, <2>6 DEF AddsTo
  <2> QED BY <2>7
<1>3. \A n \in Nat : n \in S
  <2> HIDE DEF S
  <2> QED BY <1>1, <1>2, CountUp
<1> QED BY <1>3

\* The sums of f over the subsets of its domain.
SumsOf(iter, f, D) ==
  /\ iter \in [SUBSET D -> Int]
  /\ iter[{}] = 0
  /\ \A s \in SUBSET D : s # {} => iter[s] = f[Pick(s)] + iter[s \ {Pick(s)}]

LEMMA SumIs ==
  ASSUME NEW D, IsFiniteSet(D), NEW f \in [D -> Int]
  PROVE  \E g : SumsOf(g, f, D) /\ SumFunction(f) = g[D]
<1>1. SumFunction(f) = (CHOOSE iter : Adds(iter, f, DOMAIN f))[DOMAIN f]
  BY DEF SumFunction, SumFunctionOnSet, FoldFunctionOnSet, MapThenFoldSet, Adds, Pick
<1>2. SumFunction(f) = (CHOOSE iter : Adds(iter, f, D))[D]
  BY <1>1
<1>3. Cardinality(D) \in Nat
  BY FS_CardinalityType
<1>4. PICK g : AddsTo(g, f, D, Cardinality(D))
  BY <1>3, AddsExist
<1>5. Sizes(D, Cardinality(D)) = SUBSET D
  <2>1. ASSUME NEW s \in SUBSET D PROVE Cardinality(s) <= Cardinality(D)
    BY FS_Subset
  <2> QED BY <2>1 DEF Sizes
<1>6. /\ g \in [SUBSET D -> Int]
      /\ \A s \in SUBSET D : g[s] = IF s = {} THEN 0 ELSE f[Pick(s)] + g[s \ {Pick(s)}]
  BY <1>4, <1>5 DEF AddsTo
<1>7. Adds(g, f, D)
  BY <1>6 DEF Adds
<1>8. PICK r : r = CHOOSE iter : Adds(iter, f, D)
  OBVIOUS
<1>9. Adds(r, f, D)
  BY <1>7, <1>8
<1>10. \A s \in SUBSET D : r[s] = IF s = {} THEN 0 ELSE f[Pick(s)] + r[s \ {Pick(s)}]
  BY <1>9 DEF Adds
<1>11. DOMAIN r = SUBSET D /\ r = [s \in SUBSET D |-> r[s]]
  BY <1>9 DEF Adds
<1>12. \A s \in SUBSET D : r[s] \in Int
  <2> DEFINE S == {n \in Nat : \A s \in SUBSET D : Cardinality(s) = n => r[s] \in Int}
  <2>1. 0 \in S
    <3>1. ASSUME NEW s \in SUBSET D, Cardinality(s) = 0 PROVE s = {}
      BY <3>1, FS_Subset, FS_EmptySet
    <3>2. r[{}] = 0
      BY <1>10
    <3> QED BY <3>1, <3>2
  <2>2. ASSUME NEW n \in Nat, n \in S PROVE n + 1 \in S
    <3>1. SUFFICES ASSUME NEW s \in SUBSET D, Cardinality(s) = n + 1 PROVE r[s] \in Int
      BY <2>2
    <3>2. s # {}
      <4>1. n + 1 # 0 /\ Cardinality({}) = 0
        BY FS_EmptySet
      <4> QED BY <3>1, <4>1
    <3>3. Pick(s) \in s
      BY <3>2 DEF Pick
    <3>4. /\ Cardinality(s \ {Pick(s)}) \in Nat
          /\ Cardinality(s) = Cardinality(s \ {Pick(s)}) + 1
          /\ s \ {Pick(s)} \in SUBSET D
      BY <3>3, Smaller
    <3>5. Cardinality(s \ {Pick(s)}) = n
      BY <3>1, <3>4
    <3>6. r[s \ {Pick(s)}] \in Int
      BY <2>2, <3>4, <3>5
    <3>7. f[Pick(s)] \in Int
      BY <3>3
    <3>8. r[s] = f[Pick(s)] + r[s \ {Pick(s)}]
      BY <1>10, <3>2
    <3> QED BY <3>6, <3>7, <3>8
  <2>3. \A n \in Nat : n \in S
    <3> HIDE DEF S
    <3> QED BY <2>1, <2>2, CountUp
  <2>4. ASSUME NEW s \in SUBSET D PROVE Cardinality(s) \in Nat
    BY FS_Subset, FS_CardinalityType
  <2> QED BY <2>3, <2>4
<1>13. SumsOf(r, f, D)
  BY <1>10, <1>11, <1>12 DEF SumsOf
<1> QED BY <1>2, <1>8, <1>13

\* Any element can be the one that is taken off first.
Takes(g, f, D) == \A s \in SUBSET D : \A x \in s : g[s] = f[x] + g[s \ {x}]
LEMMA SumTakes ==
  ASSUME NEW D, IsFiniteSet(D), NEW f \in [D -> Int], NEW g, SumsOf(g, f, D)
  PROVE  Takes(g, f, D)
<1> DEFINE S == {n \in Nat : \A s \in SUBSET D : Cardinality(s) = n =>
                    \A x \in s : g[s] = f[x] + g[s \ {x}]}
<1>1. 0 \in S
  <2>1. ASSUME NEW s \in SUBSET D, Cardinality(s) = 0 PROVE s = {}
    BY <2>1, FS_Subset, FS_EmptySet
  <2> QED BY <2>1
<1>2. ASSUME NEW n \in Nat, n \in S PROVE n + 1 \in S
  <2>1. SUFFICES ASSUME NEW s \in SUBSET D, Cardinality(s) = n + 1, NEW x \in s
                 PROVE  g[s] = f[x] + g[s \ {x}]
    BY <1>2
  <2>2. PICK p : p = Pick(s)
    OBVIOUS
  <2>3. p \in s /\ g[s] = f[p] + g[s \ {p}]
    BY <2>1, <2>2 DEF Pick, SumsOf
  <2>4. CASE p = x
    BY <2>3, <2>4
  <2>5. CASE p # x
    <3>1. /\ Cardinality(s \ {p}) \in Nat /\ Cardinality(s) = Cardinality(s \ {p}) + 1
          /\ s \ {p} \in SUBSET D
      BY <2>3, Smaller
    <3>2. /\ Cardinality(s \ {x}) \in Nat /\ Cardinality(s) = Cardinality(s \ {x}) + 1
          /\ s \ {x} \in SUBSET D
      BY Smaller
    <3>3. Cardinality(s \ {p}) = n /\ Cardinality(s \ {x}) = n
      BY <2>1, <3>1, <3>2
    <3>4. g[s \ {p}] = f[x] + g[(s \ {p}) \ {x}]
      BY <1>2, <2>5, <3>1, <3>3
    <3>5. g[s \ {x}] = f[p] + g[(s \ {x}) \ {p}]
      BY <1>2, <2>3, <2>5, <3>2, <3>3
    <3>6. (s \ {x}) \ {p} = (s \ {p}) \ {x}
      OBVIOUS
    <3>7. PICK m : m = g[(s \ {p}) \ {x}]
      OBVIOUS
    <3>8. m \in Int /\ f[x] \in Int /\ f[p] \in Int
      BY <2>3, <3>7, <3>1 DEF SumsOf
    <3>9. g[s] = f[p] + (f[x] + m) /\ g[s \ {x}] = f[p] + m
      BY <2>3, <3>4, <3>5, <3>6, <3>7
    <3>10. f[p] + (f[x] + m) = f[x] + (f[p] + m)
      BY <3>8
    <3> QED BY <3>9, <3>10
  <2> QED BY <2>4, <2>5
<1>3. \A n \in Nat : n \in S
  <2> HIDE DEF S
  <2> QED BY <1>1, <1>2, CountUp
<1>4. ASSUME NEW s \in SUBSET D PROVE Cardinality(s) \in Nat
  BY FS_Subset, FS_CardinalityType
<1> QED BY <1>3, <1>4 DEF Takes

\* Equal on a set, equal in the sum.
LEMMA SumsAlike ==
  ASSUME NEW D, IsFiniteSet(D), NEW f \in [D -> Int], NEW k \in [D -> Int],
         NEW F, SumsOf(F, f, D), NEW K, SumsOf(K, k, D)
  PROVE  \A s \in SUBSET D : (\A x \in s : f[x] = k[x]) => F[s] = K[s]
<1> DEFINE S == {n \in Nat : \A s \in SUBSET D : Cardinality(s) = n =>
                    ((\A x \in s : f[x] = k[x]) => F[s] = K[s])}
<1>1. 0 \in S
  <2>1. ASSUME NEW s \in SUBSET D, Cardinality(s) = 0 PROVE s = {}
    BY <2>1, FS_Subset, FS_EmptySet
  <2>2. F[{}] = 0 /\ K[{}] = 0
    BY DEF SumsOf
  <2> QED BY <2>1, <2>2
<1>2. ASSUME NEW n \in Nat, n \in S PROVE n + 1 \in S
  <2>1. SUFFICES ASSUME NEW s \in SUBSET D, Cardinality(s) = n + 1, \A x \in s : f[x] = k[x]
                 PROVE  F[s] = K[s]
    BY <1>2
  <2>2. s # {}
    <3>1. n + 1 # 0 /\ Cardinality({}) = 0
      BY FS_EmptySet
    <3> QED BY <2>1, <3>1
  <2>3. PICK p : p = Pick(s)
    OBVIOUS
  <2>4. p \in s /\ F[s] = f[p] + F[s \ {p}] /\ K[s] = k[p] + K[s \ {p}]
    BY <2>2, <2>3 DEF Pick, SumsOf
  <2>5. /\ Cardinality(s \ {p}) \in Nat /\ Cardinality(s) = Cardinality(s \ {p}) + 1
        /\ s \ {p} \in SUBSET D
    BY <2>4, Smaller
  <2>6. Cardinality(s \ {p}) = n
    BY <2>1, <2>5
  <2>7. F[s \ {p}] = K[s \ {p}]
    BY <1>2, <2>1, <2>5, <2>6
  <2> QED BY <2>1, <2>4, <2>7
<1>3. \A n \in Nat : n \in S
  <2> HIDE DEF S
  <2> QED BY <1>1, <1>2, CountUp
<1>4. ASSUME NEW s \in SUBSET D PROVE Cardinality(s) \in Nat
  BY FS_Subset, FS_CardinalityType
<1> QED BY <1>3, <1>4

LEMMA SumsNatural ==
  ASSUME NEW D, IsFiniteSet(D), NEW f \in [D -> Nat], NEW F, SumsOf(F, f, D)
  PROVE  \A s \in SUBSET D : F[s] \in Nat
<1> DEFINE S == {n \in Nat : \A s \in SUBSET D : Cardinality(s) = n => F[s] \in Nat}
<1>1. 0 \in S
  <2>1. ASSUME NEW s \in SUBSET D, Cardinality(s) = 0 PROVE s = {}
    BY <2>1, FS_Subset, FS_EmptySet
  <2>2. F[{}] = 0
    BY DEF SumsOf
  <2> QED BY <2>1, <2>2
<1>2. ASSUME NEW n \in Nat, n \in S PROVE n + 1 \in S
  <2>1. SUFFICES ASSUME NEW s \in SUBSET D, Cardinality(s) = n + 1
                 PROVE  F[s] \in Nat
    BY <1>2
  <2>2. s # {}
    <3>1. n + 1 # 0 /\ Cardinality({}) = 0
      BY FS_EmptySet
    <3> QED BY <2>1, <3>1
  <2>3. PICK p : p = Pick(s)
    OBVIOUS
  <2>4. p \in s /\ F[s] = f[p] + F[s \ {p}]
    BY <2>2, <2>3 DEF Pick, SumsOf
  <2>5. /\ Cardinality(s \ {p}) \in Nat /\ Cardinality(s) = Cardinality(s \ {p}) + 1
        /\ s \ {p} \in SUBSET D
    <3>1. p \in s
      BY <2>4
    <3> QED BY <3>1, Smaller
  <2>6. Cardinality(s \ {p}) = n
    BY <2>1, <2>5
  <2>7. F[s \ {p}] \in Nat /\ f[p] \in Nat
    BY <1>2, <2>1, <2>4, <2>5, <2>6
  <2> QED BY <2>4, <2>7
<1>3. \A n \in Nat : n \in S
  <2> HIDE DEF S
  <2> QED BY <1>1, <1>2, CountUp
<1>4. ASSUME NEW s \in SUBSET D PROVE Cardinality(s) \in Nat
  BY FS_Subset, FS_CardinalityType
<1> QED BY <1>3, <1>4

\* What the sums are used for.
SumMoves(f, k, t) ==
  /\ SumFunction(f) \in Int /\ SumFunction(k) \in Int
  /\ SumFunction(k) - SumFunction(f) = k[t] - f[t]

LEMMA SumChanges ==
  ASSUME NEW D, IsFiniteSet(D), NEW f \in [D -> Int], NEW k \in [D -> Int], NEW t \in D,
         \A x \in D \ {t} : f[x] = k[x]
  PROVE  SumMoves(f, k, t)
<1>1. PICK F : SumsOf(F, f, D) /\ SumFunction(f) = F[D]
  BY SumIs
<1>2. PICK K : SumsOf(K, k, D) /\ SumFunction(k) = K[D]
  BY SumIs
<1>3. D \in SUBSET D /\ D \ {t} \in SUBSET D
  OBVIOUS
<1>4. F[D] = f[t] + F[D \ {t}]
  <2>1. Takes(F, f, D)
    BY <1>1, SumTakes
  <2> QED BY <1>3, <2>1 DEF Takes
<1>5. K[D] = k[t] + K[D \ {t}]
  <2>1. Takes(K, k, D)
    BY <1>2, SumTakes
  <2> QED BY <1>3, <2>1 DEF Takes
<1>6. F[D \ {t}] = K[D \ {t}]
  BY <1>1, <1>2, <1>3, SumsAlike
<1>7. F[D] \in Int /\ K[D] \in Int /\ F[D \ {t}] \in Int /\ f[t] \in Int /\ k[t] \in Int
  BY <1>1, <1>2, <1>3 DEF SumsOf
<1>8. K[D] - F[D] = k[t] - f[t]
  BY <1>4, <1>5, <1>6, <1>7
<1> QED BY <1>1, <1>2, <1>7, <1>8 DEF SumMoves

LEMMA SumCovers ==
  ASSUME NEW D, IsFiniteSet(D), NEW f \in [D -> Nat]
  PROVE  SumFunction(f) \in Nat /\ \A t \in D : SumFunction(f) >= f[t]
<1>0. f \in [D -> Int]
  OBVIOUS
<1>1. PICK F : SumsOf(F, f, D) /\ SumFunction(f) = F[D]
  BY <1>0, SumIs
<1>2. F[D] \in Nat
  BY <1>1, SumsNatural
<1>3. ASSUME NEW t \in D PROVE F[D] >= f[t]
  <2>1. D \in SUBSET D /\ D \ {t} \in SUBSET D
    OBVIOUS
  <2>2. F[D] = f[t] + F[D \ {t}]
    <3>1. Takes(F, f, D)
      BY <1>0, <1>1, SumTakes
    <3> QED BY <2>1, <3>1 DEF Takes
  <2>3. F[D \ {t}] \in Nat /\ f[t] \in Nat
    BY <1>1, <2>1, SumsNatural
  <2> QED BY <2>2, <2>3
<1> QED BY <1>1, <1>2, <1>3

LEMMA SumOfNothing ==
  ASSUME NEW D, IsFiniteSet(D), NEW f \in [D -> {0}]
  PROVE  SumFunction(f) = 0
<1> DEFINE Z == [s \in SUBSET D |-> 0]
<1>0. f \in [D -> Int]
  OBVIOUS
<1>1. PICK F : SumsOf(F, f, D) /\ SumFunction(f) = F[D]
  BY <1>0, SumIs
<1>2. SumsOf(Z, f, D)
  <2>1. ASSUME NEW s \in SUBSET D, s # {} PROVE Z[s] = f[Pick(s)] + Z[s \ {Pick(s)}]
    <3>1. Pick(s) \in s
      BY <2>1 DEF Pick
    <3>2. f[Pick(s)] = 0 /\ Z[s] = 0 /\ Z[s \ {Pick(s)}] = 0
      BY <3>1
    <3> QED BY <3>2
  <2> QED BY <2>1 DEF SumsOf
<1>3. \A s \in SUBSET D : F[s] = Z[s]
  <2> HIDE DEF Z
  <2> QED BY <1>0, <1>1, <1>2, SumsAlike
<1> QED BY <1>1, <1>3

-----------------------------------------------------------------------------
(* Lists of commands and of work. *)

Has(l, c) == \E i \in DOMAIN l : l[i] = c
Places(l, c) == {i \in DOMAIN l : l[i] = c}
OnceIn(l, c) == \A i, j \in DOMAIN l : l[i] = c /\ l[j] = c => i = j

LEMMA ContainsIsHas ==
  ASSUME NEW S, NEW l \in Seq(S), NEW c
  PROVE  Contains(l, c) <=> Has(l, c)
<1>1. DOMAIN l = 1..Len(l)
  OBVIOUS
<1> QED BY <1>1 DEF Contains, Has

LEMMA PlacesFinite ==
  ASSUME NEW S, NEW l \in Seq(S), NEW c
  PROVE  IsFiniteSet(Places(l, c)) /\ Places(l, c) \in SUBSET (1..Len(l))
<1>1. DOMAIN l = 1..Len(l) /\ Len(l) \in Nat
  OBVIOUS
<1>2. IsFiniteSet(1..Len(l))
  BY <1>1, FS_Interval
<1>3. Places(l, c) \in SUBSET (1..Len(l))
  BY <1>1 DEF Places
<1> QED BY <1>2, <1>3, FS_Subset

OccursIs(l, c, n) ==
  Occurs(c, l) = n /\ n \in Nat /\ (n > 0 <=> Has(l, c))

LEMMA OccursType ==
  ASSUME NEW S, NEW l \in Seq(S), NEW c
  PROVE  OccursIs(l, c, Occurs(c, l))
<1>1. Occurs(c, l) = Cardinality(Places(l, c))
  BY DEF Occurs, Places
<1>2. IsFiniteSet(Places(l, c))
  BY PlacesFinite
<1>3. Cardinality(Places(l, c)) \in Nat
  BY <1>2, FS_CardinalityType
<1>4. Cardinality(Places(l, c)) = 0 <=> Places(l, c) = {}
  BY <1>2, FS_EmptySet
<1>5. Has(l, c) <=> Places(l, c) # {}
  BY DEF Has, Places
<1>6. PICK n \in Nat : n = Cardinality(Places(l, c))
  BY <1>3
<1>7. n > 0 <=> n # 0
  OBVIOUS
<1> QED BY <1>1, <1>3, <1>4, <1>5, <1>6, <1>7 DEF OccursIs

LEMMA OccursNever ==
  ASSUME NEW c
  PROVE  Occurs(c, <<>>) = 0 /\ ~Has(<<>>, c)
<1>1. Places(<<>>, c) = {}
  BY DEF Places
<1>2. Occurs(c, <<>>) = Cardinality({})
  BY <1>1 DEF Occurs, Places
<1> QED BY <1>2, FS_EmptySet DEF Has

More(l, k, c, b) == Occurs(c, k) = Occurs(c, l) + One(b)

LEMMA OccursAppend ==
  ASSUME NEW S, NEW l \in Seq(S), NEW e \in S, NEW c
  PROVE  /\ Append(l, e) \in Seq(S)
         /\ More(l, Append(l, e), c, e = c)
         /\ Has(Append(l, e), c) <=> Has(l, c) \/ e = c
<1> DEFINE k == Append(l, e)
<1>1. /\ k \in Seq(S) /\ Len(k) = Len(l) + 1 /\ Len(l) \in Nat
      /\ DOMAIN k = 1..(Len(l) + 1) /\ DOMAIN l = 1..Len(l)
      /\ k[Len(l) + 1] = e /\ \A i \in 1..Len(l) : k[i] = l[i]
  OBVIOUS
<1> HIDE DEF k
<1>2. \A i \in 1..(Len(l) + 1) : i \in 1..Len(l) \/ i = Len(l) + 1
  BY <1>1
<1>3. Len(l) + 1 \notin 1..Len(l) /\ Len(l) + 1 \in 1..(Len(l) + 1)
  BY <1>1
<1>4. \A i \in 1..Len(l) : i \in 1..(Len(l) + 1)
  BY <1>1
<1>5. Len(l) + 1 \notin Places(l, c)
  BY <1>1, <1>3 DEF Places
<1>6. IsFiniteSet(Places(l, c))
  BY PlacesFinite
<1>7. Cardinality(Places(l, c)) \in Nat
  BY <1>6, FS_CardinalityType
<1>8. Cardinality(Places(k, c)) = Cardinality(Places(l, c)) + One(e = c)
  <2>1. CASE e = c
    <3>1. Places(k, c) = Places(l, c) \cup {Len(l) + 1}
      BY <1>1, <1>2, <1>3, <1>4, <2>1 DEF Places
    <3>2. Cardinality(Places(k, c)) = Cardinality(Places(l, c)) + 1
      BY <1>5, <1>6, <3>1, FS_AddElement
    <3> QED BY <2>1, <3>2 DEF One
  <2>2. CASE e # c
    <3>1. Places(k, c) = Places(l, c)
      BY <1>1, <1>2, <1>3, <1>4, <2>2 DEF Places
    <3> QED BY <2>2, <3>1, <1>7 DEF One
  <2> QED BY <2>1, <2>2
<1>9. Has(k, c) <=> Has(l, c) \/ e = c
  BY <1>1, <1>2, <1>3, <1>4 DEF Has
<1> QED BY <1>1, <1>8, <1>9 DEF More, Occurs, Places, k

LEMMA SameSize ==
  ASSUME NEW S, NEW T, IsFiniteSet(S), NEW f \in [S -> T],
         \A x, y \in S : f[x] = f[y] => x = y,
         \A y \in T : \E x \in S : f[x] = y
  PROVE  Cardinality(S) = Cardinality(T)
<1>1. f \in Bijection(S, T)
  BY DEF Bijection, Injection, Surjection, IsInjective
<1>2. ExistsBijection(S, T)
  BY <1>1 DEF ExistsBijection
<1> QED BY <1>2, FS_Bijection

\* k is l without its place at.
Without(l, k, at) ==
  /\ at \in 1..Len(l) /\ Len(l) \in Nat
  /\ Len(k) = Len(l) - 1
  /\ DOMAIN k = 1..Len(k) /\ DOMAIN l = 1..Len(l)
  /\ \A i \in 1..Len(k) : k[i] = IF i < at THEN l[i] ELSE l[i + 1]

LEMMA OccursWithout ==
  ASSUME NEW S, NEW l \in Seq(S), NEW k \in Seq(S), NEW at \in Nat, Without(l, k, at), NEW c
  PROVE  /\ More(k, l, c, l[at] = c)
         /\ Has(l, c) <=> Has(k, c) \/ l[at] = c
<1> DEFINE P == Places(l, c) \ {at}
           f == [i \in Places(k, c) |-> IF i < at THEN i ELSE i + 1]
<1>1. /\ at \in 1..Len(l) /\ Len(l) \in Nat /\ Len(k) \in Nat
      /\ Len(k) = Len(l) - 1
      /\ DOMAIN k = 1..Len(k) /\ DOMAIN l = 1..Len(l)
      /\ \A i \in 1..Len(k) : k[i] = IF i < at THEN l[i] ELSE l[i + 1]
  BY DEF Without
<1>2. ASSUME NEW i \in 1..Len(k)
      PROVE  /\ i < at => i \in 1..Len(l) /\ i # at
             /\ ~(i < at) => i + 1 \in 1..Len(l) /\ i + 1 # at
  BY <1>1
<1>3. ASSUME NEW j \in 1..Len(l), j # at
      PROVE  \/ j < at /\ j \in 1..Len(k)
             \/ j - 1 \in 1..Len(k) /\ ~(j - 1 < at) /\ (j - 1) + 1 = j
  BY <1>1, <1>3
<1>4. f \in [Places(k, c) -> P]
  <2>1. ASSUME NEW i \in Places(k, c) PROVE (IF i < at THEN i ELSE i + 1) \in P
    <3>1. i \in 1..Len(k) /\ k[i] = c
      BY <1>1 DEF Places
    <3>2. k[i] = IF i < at THEN l[i] ELSE l[i + 1]
      BY <1>1, <3>1
    <3>3. CASE i < at
      BY <1>1, <1>2, <3>1, <3>2, <3>3 DEF Places
    <3>4. CASE ~(i < at)
      BY <1>1, <1>2, <3>1, <3>2, <3>4 DEF Places
    <3> QED BY <3>3, <3>4
  <2> QED BY <2>1
<1>5. \A x, y \in Places(k, c) : f[x] = f[y] => x = y
  <2>1. SUFFICES ASSUME NEW x \in Places(k, c), NEW y \in Places(k, c), f[x] = f[y]
                 PROVE  x = y
    OBVIOUS
  <2>2. x \in Nat /\ y \in Nat
    BY <1>1 DEF Places
  <2>3. (IF x < at THEN x ELSE x + 1) = (IF y < at THEN y ELSE y + 1)
    BY <2>1
  <2> QED BY <2>2, <2>3
<1>6. \A j \in P : \E x \in Places(k, c) : f[x] = j
  <2>1. SUFFICES ASSUME NEW j \in P PROVE \E x \in Places(k, c) : f[x] = j
    OBVIOUS
  <2>2. j \in 1..Len(l) /\ j # at /\ l[j] = c
    BY <1>1 DEF Places
  <2>3. CASE j < at /\ j \in 1..Len(k)
    <3>1. k[j] = l[j]
      BY <1>1, <2>3
    <3>2. j \in Places(k, c)
      BY <1>1, <2>2, <2>3, <3>1 DEF Places
    <3> QED BY <2>3, <3>2
  <2>4. CASE j - 1 \in 1..Len(k) /\ ~(j - 1 < at) /\ (j - 1) + 1 = j
    <3>1. k[j - 1] = l[j]
      BY <1>1, <2>4
    <3>2. j - 1 \in Places(k, c)
      BY <1>1, <2>2, <2>4, <3>1 DEF Places
    <3> QED BY <2>4, <3>2
  <2> QED BY <1>3, <2>2, <2>3, <2>4
<1>7. IsFiniteSet(Places(k, c)) /\ IsFiniteSet(Places(l, c))
  BY PlacesFinite
<1>8. Cardinality(Places(k, c)) = Cardinality(P)
  <2> HIDE DEF f, P
  <2> QED BY <1>4, <1>5, <1>6, <1>7, SameSize
<1>9. Cardinality(Places(k, c)) \in Nat /\ Cardinality(Places(l, c)) \in Nat
  BY <1>7, FS_CardinalityType
<1>10. Cardinality(Places(l, c)) = Cardinality(Places(k, c)) + One(l[at] = c)
  <2>1. CASE l[at] = c
    <3>1. at \in Places(l, c)
      BY <1>1, <2>1 DEF Places
    <3>2. Cardinality(P) = Cardinality(Places(l, c)) - 1
      BY <1>7, <3>1, FS_RemoveElement
    <3> HIDE DEF P
    <3>3. Cardinality(Places(l, c)) = Cardinality(Places(k, c)) + 1
      BY <1>8, <1>9, <3>2
    <3> QED BY <2>1, <3>3 DEF One
  <2>2. CASE l[at] # c
    <3>1. P = Places(l, c)
      BY <2>2 DEF Places
    <3> HIDE DEF P
    <3> QED BY <1>8, <1>9, <2>2, <3>1 DEF One
  <2> QED BY <2>1, <2>2
<1>11. Has(l, c) <=> Has(k, c) \/ l[at] = c
  <2>1. ASSUME Has(l, c), l[at] # c PROVE Has(k, c)
    <3>1. PICK j \in 1..Len(l) : l[j] = c
      BY <1>1, <2>1 DEF Has
    <3>2. j # at
      BY <2>1, <3>1
    <3>3. j \in P
      BY <1>1, <3>1, <3>2 DEF Places
    <3>4. \E x \in Places(k, c) : TRUE
      BY <1>6, <3>3
    <3> QED BY <3>4 DEF Places, Has
  <2>2. ASSUME Has(k, c) PROVE Has(l, c)
    <3>1. PICK i \in Places(k, c) : TRUE
      BY <2>2 DEF Places, Has
    <3>2. f[i] \in P
      BY <1>4
    <3> QED BY <3>2 DEF Places, Has
  <2>3. ASSUME l[at] = c PROVE Has(l, c)
    BY <1>1, <2>3 DEF Has
  <2> QED BY <2>1, <2>2, <2>3
<1> QED BY <1>10, <1>11 DEF More, Occurs, Places

LEMMA TailIsWithout ==
  ASSUME NEW S, NEW l \in Seq(S), l # <<>>
  PROVE  Tail(l) \in Seq(S) /\ Without(l, Tail(l), 1) /\ Head(l) = l[1] /\ l[1] \in S
<1>1. Len(l) \in Nat /\ Len(l) # 0
  OBVIOUS
<1>2. 1 \in 1..Len(l)
  BY <1>1
<1>3. Tail(l) \in Seq(S) /\ Len(Tail(l)) = Len(l) - 1
  OBVIOUS
<1>4. \A i \in 1..(Len(l) - 1) : Tail(l)[i] = l[i + 1] /\ ~(i < 1)
  OBVIOUS
<1> QED BY <1>1, <1>2, <1>3, <1>4 DEF Without

LEMMA OccursTail ==
  ASSUME NEW S, NEW l \in Seq(S), l # <<>>, NEW c
  PROVE  /\ More(Tail(l), l, c, Head(l) = c)
         /\ Has(l, c) <=> Has(Tail(l), c) \/ Head(l) = c
<1>1. PICK k : k = Tail(l)
  OBVIOUS
<1>2. k \in Seq(S) /\ Without(l, k, 1) /\ Head(l) = l[1] /\ 1 \in Nat
  BY <1>1, TailIsWithout
<1>3. /\ More(k, l, c, l[1] = c)
      /\ Has(l, c) <=> Has(k, c) \/ l[1] = c
  BY <1>2, OccursWithout
<1> QED BY <1>1, <1>2, <1>3

LEMMA FirstIs ==
  ASSUME NEW S, NEW l \in Seq(S), NEW e, Has(l, e)
  PROVE  \E at \in Nat : /\ Without(l, RemoveFirst(l, e), at) /\ l[at] = e
                         /\ RemoveFirst(l, e) \in Seq(S)
<1> DEFINE I == {i \in 1..Len(l) : l[i] = e}
<1>1. DOMAIN l = 1..Len(l) /\ Len(l) \in Nat
  OBVIOUS
<1>2. I # {} /\ I \in SUBSET Nat
  BY <1>1 DEF Has
<1>3. PICK m \in I : \A x \in I : m <= x
  <2> HIDE DEF I
  <2> QED BY <1>2, HasMin
<1>4. Min(I) \in I
  <2> HIDE DEF I
  <2> QED BY <1>3 DEF Min
<1>5. PICK at : at = Min(I)
  OBVIOUS
<1>6. at \in 1..Len(l) /\ l[at] = e
  BY <1>4, <1>5
<1>7. RemoveFirst(l, e) = SubSeq(l, 1, at - 1) \o SubSeq(l, at + 1, Len(l))
  <2>1. \E i \in 1..Len(l) : l[i] = e
    BY <1>6
  <2>2. RemoveFirst(l, e) = RemoveAt(l, Min(I))
    BY <1>2, <2>1 DEF RemoveFirst, SelectInSeq
  <2> QED BY <1>5, <2>2 DEF RemoveAt
<1> HIDE DEF I
<1>8. PICK a : a = SubSeq(l, 1, at - 1)
  OBVIOUS
<1>9. PICK b : b = SubSeq(l, at + 1, Len(l))
  OBVIOUS
<1>10. a \in Seq(S) /\ Len(a) = at - 1 /\ \A i \in 1..(at - 1) : a[i] = l[i]
  <2>1. \A i \in 1..(at - 1) : l[i] \in S
    BY <1>1, <1>6
  <2> QED BY <1>1, <1>6, <1>8, <2>1
<1>11. b \in Seq(S) /\ Len(b) = Len(l) - at /\ \A i \in 1..(Len(l) - at) : b[i] = l[at + i]
  <2>1. \A i \in (at + 1)..Len(l) : l[i] \in S
    BY <1>1, <1>6
  <2>2. PICK n \in Nat : n = Len(l)
    BY <1>1
  <2>3. PICK c \in Nat : c = at + 1
    BY <1>6
  <2>4. c \in 1..(n + 1) /\ b = SubSeq(l, c, n)
    BY <1>1, <1>6, <1>9, <2>2, <2>3
  <2>5. \A i \in c..n : l[i] \in S
    BY <2>1, <2>2, <2>3
  <2>6. b \in Seq(S) /\ Len(b) = n - c + 1
    BY <2>2, <2>4, <2>5
  <2>7. \A i \in 1..(n - c + 1) : b[i] = l[c + i - 1]
    BY <2>2, <2>4, <2>5
  <2>8. n - c + 1 = Len(l) - at /\ \A i \in Int : c + i - 1 = at + i
    BY <1>6, <2>2, <2>3
  <2>9. \A i \in 1..(Len(l) - at) : i \in Int
    BY <1>6
  <2> QED BY <2>6, <2>7, <2>8, <2>9
<1>12. PICK k : k = a \o b
  OBVIOUS
<1>13. /\ k \in Seq(S) /\ Len(k) = Len(l) - 1
       /\ \A i \in 1..(Len(l) - 1) : k[i] = IF i <= at - 1 THEN a[i] ELSE b[i - (at - 1)]
  <2>1. Len(a) = at - 1 /\ Len(b) = Len(l) - at /\ a \in Seq(S) /\ b \in Seq(S)
    BY <1>10, <1>11
  <2>2. k \in Seq(S) /\ Len(k) = Len(a) + Len(b)
    <3>1. a \in Seq(S) /\ b \in Seq(S)
      BY <2>1
    <3>2. a \o b \in Seq(S) /\ Len(a \o b) = Len(a) + Len(b)
      BY <3>1
    <3> QED BY <1>12, <3>2
  <2>3. \A i \in 1..(Len(a) + Len(b)) : k[i] = IF i <= Len(a) THEN a[i] ELSE b[i - Len(a)]
    <3>1. Len(a) \in Nat /\ Len(b) \in Nat
      BY <2>1
    <3>2. SUFFICES ASSUME NEW i \in 1..(Len(a) + Len(b))
                   PROVE  k[i] = IF i <= Len(a) THEN a[i] ELSE b[i - Len(a)]
      OBVIOUS
    <3>3. CASE i <= Len(a)
      <4>1. i \in 1..Len(a)
        BY <3>1, <3>3
      <4> QED BY <1>12, <2>1, <3>3, <4>1
    <3>4. CASE ~(i <= Len(a))
      <4>1. i \in (Len(a) + 1)..(Len(a) + Len(b))
        BY <3>1, <3>4
      <4> QED BY <1>12, <2>1, <3>4, <4>1
    <3> QED BY <3>3, <3>4
  <2>4. (at - 1) + (Len(l) - at) = Len(l) - 1
    BY <1>1, <1>6
  <2>5. Len(a) + Len(b) = Len(l) - 1
    BY <2>1, <2>4
  <2> QED BY <2>1, <2>2, <2>3, <2>5
<1>14. ASSUME NEW i \in 1..(Len(l) - 1) PROVE k[i] = IF i < at THEN l[i] ELSE l[i + 1]
  <2>1. CASE i < at
    <3>1. i <= at - 1 /\ i \in 1..(at - 1)
      BY <1>6, <2>1
    <3> QED BY <1>10, <1>13, <2>1, <3>1
  <2>2. CASE ~(i < at)
    <3>1. ~(i <= at - 1) /\ i - (at - 1) \in 1..(Len(l) - at) /\ at + (i - (at - 1)) = i + 1
      BY <1>1, <1>6, <2>2
    <3> QED BY <1>11, <1>13, <2>2, <3>1
  <2> QED BY <2>1, <2>2
<1>15. Without(l, k, at)
  <2>1. DOMAIN k = 1..Len(k)
    BY <1>13
  <2> QED BY <1>1, <1>6, <1>13, <1>14, <2>1 DEF Without
<1>16. k = RemoveFirst(l, e)
  BY <1>7, <1>8, <1>9, <1>12
<1> QED BY <1>6, <1>13, <1>15, <1>16

LEMMA NoneToRemove ==
  ASSUME NEW S, NEW l \in Seq(S), NEW e, ~Has(l, e)
  PROVE  RemoveFirst(l, e) = l
<1>1. DOMAIN l = 1..Len(l)
  OBVIOUS
<1>2. ~\E i \in 1..Len(l) : l[i] = e
  BY <1>1 DEF Has
<1> QED BY <1>2 DEF RemoveFirst

\* What a list keeps when the first e is taken off it.
Removed(l, k, S, e) ==
  /\ k \in Seq(S)
  /\ \A c : c # e => Occurs(c, k) = Occurs(c, l)
  /\ \A c : Has(k, c) => Has(l, c)
  /\ OnceIn(l, e) => ~Has(k, e)
  /\ l = <<>> => k = <<>>

LEMMA RemoveFirstIs ==
  ASSUME NEW S, NEW l \in Seq(S), NEW e
  PROVE  Removed(l, RemoveFirst(l, e), S, e)
<1>1. CASE ~Has(l, e)
  BY <1>1, NoneToRemove DEF Removed
<1>2. CASE Has(l, e)
  <2>1. PICK k : k = RemoveFirst(l, e)
    OBVIOUS
  <2>2. PICK at \in Nat : Without(l, k, at) /\ l[at] = e /\ k \in Seq(S)
    BY <1>2, <2>1, FirstIs
  <2>3. \A c : More(k, l, c, l[at] = c) /\ (Has(l, c) <=> Has(k, c) \/ l[at] = c)
    BY <2>2, OccursWithout
  <2>4. ASSUME NEW c, c # e PROVE Occurs(c, k) = Occurs(c, l)
    <3>1. Occurs(c, l) = Occurs(c, k) + One(l[at] = c)
      BY <2>3 DEF More
    <3>2. One(l[at] = c) = 0
      BY <2>2, <2>4 DEF One
    <3>3. Occurs(c, k) \in Nat
      BY <2>2, OccursType DEF OccursIs
    <3> QED BY <3>1, <3>2, <3>3
  <2>5. ASSUME OnceIn(l, e), Has(k, e) PROVE FALSE
    <3>1. PICK i \in DOMAIN k : k[i] = e
      BY <2>5 DEF Has
    <3>2. /\ at \in 1..Len(l) /\ Len(l) \in Nat /\ Len(k) = Len(l) - 1
          /\ DOMAIN k = 1..Len(k) /\ DOMAIN l = 1..Len(l)
          /\ \A j \in 1..Len(k) : k[j] = IF j < at THEN l[j] ELSE l[j + 1]
      BY <2>2 DEF Without
    <3>3. i \in 1..(Len(l) - 1)
      BY <3>1, <3>2
    <3>4. CASE i < at
      <4>1. i \in DOMAIN l /\ at \in DOMAIN l /\ i # at
        BY <3>2, <3>3, <3>4
      <4>2. l[i] = e
        BY <3>1, <3>2, <3>4
      <4> QED BY <2>2, <2>5, <4>1, <4>2 DEF OnceIn
    <3>5. CASE ~(i < at)
      <4>1. i + 1 \in DOMAIN l /\ at \in DOMAIN l /\ i + 1 # at
        BY <3>2, <3>3, <3>5
      <4>2. l[i + 1] = e
        BY <3>1, <3>2, <3>5
      <4> QED BY <2>2, <2>5, <4>1, <4>2 DEF OnceIn
    <3> QED BY <3>4, <3>5
  <2>6. l # <<>>
    BY <1>2 DEF Has
  <2> QED BY <2>1, <2>2, <2>3, <2>4, <2>5, <2>6 DEF Removed
<1> QED BY <1>1, <1>2

-----------------------------------------------------------------------------
(* The node, as a record. *)

Own == {"node", "complete"}
Common == {"node", "call"}
NodeType ==
  [made : BOOLEAN, open : BOOLEAN,
   internal_strong : Int, local_strong : Int, local_weak : Int,
   has_strong : BOOLEAN, has_weak : BOOLEAN,
   pending_strong : BOOLEAN, pending_weak : BOOLEAN,
   refs : SUBSET Holder, strong : [Holder -> Nat], weak : [Holder -> Nat],
   todo : [Thread -> Seq(Own)], proc_todo : Seq(Common),
   refused : BOOLEAN, diverted : BOOLEAN]

Pending(s) == (Weak(s) /\ ~s.has_weak) \/ (Strong(s) /\ ~s.has_strong)

\* A thread's own list is the node's work, then the end of its transaction.
TodoOK(l) ==
  \A i \in DOMAIN l : (l[i] = "node" => i = 1) /\ (l[i] = "complete" => i = Len(l))
ListsOK(s) == OnceIn(s.proc_todo, "node") /\ \A th \in Thread : TodoOK(s.todo[th])

\* The references: a holder is known as long as it counts something.
CardOK(s) == s.internal_strong = Cardinality({h \in s.refs : s.strong[h] > 0})
RefsOK(s) == s.refs = {h \in Holder : s.strong[h] + s.weak[h] > 0}
CountsOK(s) == CardOK(s) /\ RefsOK(s)

\* What the owner was told, and the work there is when it has to be told more.
FlagsOK(s) ==
  /\ s.local_weak = One(s.pending_weak)
  /\ s.pending_strong => s.has_strong
  /\ s.pending_weak => s.has_weak
  /\ s.has_strong => s.has_weak
  /\ ~s.made => ~Weak(s) /\ ~s.has_weak
  /\ Pending(s) => OnList(s)

SameCounts(r, s) ==
  /\ r.internal_strong = s.internal_strong /\ r.refs = s.refs
  /\ r.strong = s.strong /\ r.weak = s.weak
SameFlags(r, s) ==
  /\ r.has_strong = s.has_strong /\ r.has_weak = s.has_weak
  /\ r.pending_strong = s.pending_strong /\ r.pending_weak = s.pending_weak
SameLocal(r, s) ==
  /\ r.open = s.open /\ r.refused = s.refused /\ r.diverted = s.diverted
  /\ r.local_strong = s.local_strong /\ r.local_weak = s.local_weak

\* The lists of r are those of s, but for the node's work.
SameLists(r, s) ==
  /\ Occurs("call", r.proc_todo) = Occurs("call", s.proc_todo)
  /\ ListsOK(s) => ListsOK(r)
  /\ \A th \in Thread : s.todo[th] = <<>> => r.todo[th] = <<>>
  /\ \A th \in Thread : Has(r.todo[th], "complete") => Has(s.todo[th], "complete")

\* Nothing is left to be told that was not, and the work for it is where it was.
Quiet(r, s) ==
  Pending(r) =>
    /\ Pending(s)
    /\ OnList(s) => OnList(r)
    /\ Has(r.proc_todo, "node") => Has(s.proc_todo, "node")
    /\ \A th \in Thread : Has(r.todo[th], "node") => Has(s.todo[th], "node")

Somewhere(s) == Has(s.proc_todo, "node") \/ \E th \in Thread : Has(s.todo[th], "node")

LEMMA OnListIs ==
  ASSUME NEW s \in NodeType
  PROVE  OnList(s) <=> Somewhere(s)
<1>1. Contains(s.proc_todo, "node") <=> Has(s.proc_todo, "node")
  <2>1. s.proc_todo \in Seq(Common)
    BY DEF NodeType
  <2> QED BY <2>1, ContainsIsHas
<1>2. ASSUME NEW th \in Thread PROVE Contains(s.todo[th], "node") <=> Has(s.todo[th], "node")
  <2>1. s.todo[th] \in Seq(Own)
    BY DEF NodeType
  <2> QED BY <2>1, ContainsIsHas
<1> QED BY <1>1, <1>2 DEF OnList, Somewhere

LEMMA TodoRemoved ==
  ASSUME NEW l \in Seq(Own), TodoOK(l)
  PROVE  TodoOK(RemoveFirst(l, "node"))
<1>1. CASE ~Has(l, "node")
  BY <1>1, NoneToRemove
<1>2. CASE Has(l, "node")
  <2>1. PICK k : k = RemoveFirst(l, "node")
    OBVIOUS
  <2>2. PICK at \in Nat : Without(l, k, at) /\ l[at] = "node"
    BY <1>2, <2>1, FirstIs
  <2>3. /\ at \in 1..Len(l) /\ Len(l) \in Nat
        /\ Len(k) = Len(l) - 1
        /\ DOMAIN k = 1..Len(k) /\ DOMAIN l = 1..Len(l)
        /\ \A i \in 1..Len(k) : k[i] = IF i < at THEN l[i] ELSE l[i + 1]
    BY <2>2 DEF Without
  <2>4. at = 1
    BY <2>2, <2>3 DEF TodoOK
  <2>5. ASSUME NEW i \in DOMAIN k
        PROVE  (k[i] = "node" => i = 1) /\ (k[i] = "complete" => i = Len(k))
    <3>1. i \in Nat /\ i >= 1 /\ i + 1 \in DOMAIN l /\ k[i] = l[i + 1]
      BY <2>3, <2>4
    <3>2. l[i + 1] = "node" => i + 1 = 1
      BY <3>1 DEF TodoOK
    <3>3. l[i + 1] = "complete" => i + 1 = Len(l)
      BY <3>1 DEF TodoOK
    <3>4. i + 1 # 1
      BY <3>1
    <3> QED BY <2>3, <3>1, <3>2, <3>3, <3>4
  <2> QED BY <2>1, <2>5 DEF TodoOK
<1> QED BY <1>1, <1>2

LEMMA UnlistedIs ==
  ASSUME NEW s \in NodeType
  PROVE  /\ Unlisted(s) \in NodeType
         /\ Unlisted(s).made = s.made
         /\ SameCounts(Unlisted(s), s) /\ SameFlags(Unlisted(s), s) /\ SameLocal(Unlisted(s), s)
         /\ SameLists(Unlisted(s), s)
         /\ ListsOK(s) => ~Somewhere(Unlisted(s))
<1>1. PICK p : p = RemoveFirst(s.proc_todo, "node")
  OBVIOUS
<1>2. PICK T : T = [th \in Thread |-> RemoveFirst(s.todo[th], "node")]
  OBVIOUS
<1>3. s.proc_todo \in Seq(Common) /\ s.todo \in [Thread -> Seq(Own)]
  BY DEF NodeType
<1>4. Removed(s.proc_todo, p, Common, "node")
  BY <1>1, <1>3, RemoveFirstIs
<1>5. ASSUME NEW th \in Thread PROVE Removed(s.todo[th], T[th], Own, "node")
  <2>1. s.todo[th] \in Seq(Own) /\ T[th] = RemoveFirst(s.todo[th], "node")
    BY <1>2, <1>3
  <2> QED BY <2>1, RemoveFirstIs
<1>6. p \in Seq(Common) /\ T \in [Thread -> Seq(Own)]
  BY <1>2, <1>4, <1>5 DEF Removed
<1>7. PICK r : r = Unlisted(s)
  OBVIOUS
<1>8. r = [s EXCEPT !.proc_todo = p, !.todo = T]
  BY <1>1, <1>2, <1>7 DEF Unlisted
<1>9. /\ r \in NodeType /\ r.made = s.made /\ r.proc_todo = p /\ r.todo = T
  BY <1>6, <1>8 DEF NodeType
<1>10. SameCounts(r, s) /\ SameFlags(r, s) /\ SameLocal(r, s)
  BY <1>8 DEF NodeType, SameCounts, SameFlags, SameLocal
<1>11. Occurs("call", p) = Occurs("call", s.proc_todo)
  BY <1>4 DEF Removed
<1>12. ASSUME OnceIn(s.proc_todo, "node")
       PROVE  ~Has(p, "node") /\ OnceIn(p, "node")
  BY <1>4, <1>12 DEF Removed, OnceIn, Has
<1>13. ASSUME NEW th \in Thread, TodoOK(s.todo[th]) PROVE ~Has(T[th], "node") /\ TodoOK(T[th])
  <2>1. OnceIn(s.todo[th], "node")
    BY <1>13 DEF OnceIn, TodoOK
  <2>2. TodoOK(T[th])
    BY <1>2, <1>3, <1>13, TodoRemoved
  <2> QED BY <1>5, <2>1, <2>2 DEF Removed
<1>14. ASSUME NEW th \in Thread
       PROVE  /\ s.todo[th] = <<>> => T[th] = <<>>
              /\ Has(T[th], "complete") => Has(s.todo[th], "complete")
  BY <1>5 DEF Removed
<1>15. SameLists(r, s)
  BY <1>9, <1>11, <1>12, <1>13, <1>14 DEF SameLists, ListsOK
<1>16. ListsOK(s) => ~Somewhere(r)
  BY <1>9, <1>12, <1>13 DEF Somewhere, ListsOK
<1> QED BY <1>7, <1>9, <1>10, <1>15, <1>16

LEMMA FreedIs ==
  ASSUME NEW s \in NodeType
  PROVE  /\ Freed(s) \in NodeType
         /\ SameCounts(Freed(s), s) /\ SameLocal(Freed(s), s) /\ SameLists(Freed(s), s)
         /\ ~Freed(s).made
         /\ ~Freed(s).has_strong /\ ~Freed(s).has_weak
         /\ ~Freed(s).pending_strong /\ ~Freed(s).pending_weak
<1>1. PICK u : u = Unlisted(s)
  OBVIOUS
<1>2. u \in NodeType /\ SameCounts(u, s) /\ SameLocal(u, s) /\ SameLists(u, s)
  BY <1>1, UnlistedIs
<1>3. PICK r : r = Freed(s)
  OBVIOUS
<1>4. r = [u EXCEPT !.made = FALSE,
             !.has_strong = FALSE, !.has_weak = FALSE,
             !.pending_strong = FALSE, !.pending_weak = FALSE]
  BY <1>1, <1>3 DEF Freed
<1>5. /\ r \in NodeType /\ ~r.made /\ ~r.has_strong /\ ~r.has_weak
      /\ ~r.pending_strong /\ ~r.pending_weak
      /\ r.todo = u.todo /\ r.proc_todo = u.proc_todo
  BY <1>2, <1>4 DEF NodeType
<1>6. SameCounts(r, u) /\ SameLocal(r, u)
  BY <1>2, <1>4 DEF NodeType, SameCounts, SameLocal
<1>7. SameCounts(r, s) /\ SameLocal(r, s)
  BY <1>2, <1>6 DEF SameCounts, SameLocal
<1>8. SameLists(r, s)
  BY <1>2, <1>5 DEF SameLists, ListsOK
<1> QED BY <1>3, <1>5, <1>7, <1>8

-----------------------------------------------------------------------------
(* Decrements.  Nothing is told and nothing is pending that was not before. *)

Steady(r, s) == SameFlags(r, s) /\ FlagsOK(r) /\ Quiet(r, s)
Placed(r, s) == r \in NodeType /\ r.open = s.open /\ r.refused = s.refused
                  /\ r.diverted = s.diverted /\ SameLists(r, s)
SameHeld(r, s) == r.local_strong = s.local_strong /\ r.local_weak = s.local_weak
NoRefs(s) == s.refs = {} => s.internal_strong <= 0

LEMMA SteadyMore ==
  ASSUME NEW r, NEW u, NEW s, Steady(r, u), Steady(u, s)
  PROVE  Steady(r, s)
<1>1. SameFlags(r, s) /\ FlagsOK(r)
  BY DEF Steady, SameFlags
<1>2. Quiet(r, s)
  BY DEF Steady, Quiet
<1> QED BY <1>1, <1>2 DEF Steady

LEMMA PlacedMore ==
  ASSUME NEW r, NEW u, NEW s, Placed(r, u), Placed(u, s)
  PROVE  Placed(r, s)
BY DEF Placed, SameLists

LEMMA NoRefsWhenCounted ==
  ASSUME NEW s, CardOK(s)
  PROVE  NoRefs(s)
<1>1. ASSUME s.refs = {} PROVE s.internal_strong <= 0
  <2>1. {h \in s.refs : s.strong[h] > 0} = {}
    BY <1>1
  <2>2. Cardinality({}) = 0
    BY FS_EmptySet
  <2>3. s.internal_strong = 0
    BY <2>1, <2>2 DEF CardOK
  <2> QED BY <2>3
<1> QED BY <1>1 DEF NoRefs

\* r counts no more than s and is on the same lists.
LEMMA LessIs ==
  ASSUME NEW s \in NodeType, NEW r \in NodeType, FlagsOK(s),
         r.todo = s.todo, r.proc_todo = s.proc_todo, r.made = s.made,
         r.has_strong = s.has_strong, r.has_weak = s.has_weak,
         r.pending_strong => s.pending_strong, r.pending_weak => s.pending_weak,
         Weak(r) => Weak(s), Strong(r) => Strong(s),
         r.local_weak = One(r.pending_weak)
  PROVE  FlagsOK(r) /\ Quiet(r, s)
<1>1. OnList(r) <=> OnList(s)
  <2>1. Somewhere(r) <=> Somewhere(s)
    BY DEF Somewhere
  <2> QED BY <2>1, OnListIs
<1>2. Pending(r) => Pending(s)
  BY DEF Pending
<1>3. Quiet(r, s)
  BY <1>1, <1>2 DEF Quiet
<1>4. FlagsOK(r)
  BY <1>1, <1>2 DEF FlagsOK
<1> QED BY <1>3, <1>4

LEMMA UnusedPlaced ==
  ASSUME NEW s \in NodeType
  PROVE  Placed(NodeUnused(s), s) /\ SameCounts(NodeUnused(s), s) /\ SameHeld(NodeUnused(s), s)
<1>1. PICK r : r = NodeUnused(s)
  OBVIOUS
<1>2. CASE r = s
  BY <1>1, <1>2 DEF Placed, SameCounts, SameHeld, SameLists
<1>3. CASE r = Freed(s)
  <2>1. r \in NodeType /\ SameCounts(r, s) /\ SameLocal(r, s) /\ SameLists(r, s)
    BY <1>3, FreedIs
  <2> QED BY <1>1, <2>1 DEF Placed, SameLocal, SameHeld
<1>4. CASE ~OnList(s) /\ r = [s EXCEPT !.proc_todo = Append(s.proc_todo, "node")]
  <2>1. PICK p : p = Append(s.proc_todo, "node")
    OBVIOUS
  <2>2. s.proc_todo \in Seq(Common) /\ "node" \in Common /\ "node" # "call"
    BY DEF NodeType, Common
  <2>3. p \in Seq(Common) /\ More(s.proc_todo, p, "call", "node" = "call")
    BY <2>1, <2>2, OccursAppend
  <2>4. One("node" = "call") = 0
    BY DEF One
  <2>5. Occurs("call", s.proc_todo) \in Nat
    BY <2>2, OccursType DEF OccursIs
  <2>6. Occurs("call", p) = Occurs("call", s.proc_todo)
    BY <2>3, <2>4, <2>5 DEF More
  <2>7. ~Has(s.proc_todo, "node")
    BY <1>4, OnListIs DEF Somewhere
  <2>8. OnceIn(p, "node")
    <3>1. /\ DOMAIN p = 1..(Len(s.proc_todo) + 1) /\ DOMAIN s.proc_todo = 1..Len(s.proc_todo)
          /\ Len(s.proc_todo) \in Nat
          /\ \A i \in 1..Len(s.proc_todo) : p[i] = s.proc_todo[i]
      BY <2>1, <2>2
    <3>2. \A i \in 1..(Len(s.proc_todo) + 1) :
             i \in 1..Len(s.proc_todo) \/ i = Len(s.proc_todo) + 1
      BY <3>1
    <3>3. \A i \in DOMAIN p : p[i] = "node" => i = Len(s.proc_todo) + 1
      BY <2>7, <3>1, <3>2 DEF Has
    <3> QED BY <3>3 DEF OnceIn
  <2>9. r = [s EXCEPT !.proc_todo = p]
    BY <1>4, <2>1
  <2>10. r \in NodeType /\ r.proc_todo = p /\ r.todo = s.todo
    BY <2>3, <2>9 DEF NodeType
  <2>11. SameCounts(r, s) /\ SameLocal(r, s)
    BY <2>9 DEF NodeType, SameCounts, SameLocal
  <2>12. SameLists(r, s)
    BY <2>6, <2>8, <2>10 DEF SameLists, ListsOK
  <2> QED BY <1>1, <2>10, <2>11, <2>12 DEF Placed, SameLocal, SameHeld
<1>5. \/ r = s \/ r = Freed(s)
      \/ ~OnList(s) /\ r = [s EXCEPT !.proc_todo = Append(s.proc_todo, "node")]
  BY <1>1 DEF NodeUnused
<1> QED BY <1>2, <1>3, <1>4, <1>5

LEMMA UnusedSteady ==
  ASSUME NEW s \in NodeType, s.open, FlagsOK(s), NoRefs(s)
  PROVE  Steady(NodeUnused(s), s)
<1>1. PICK r : r = NodeUnused(s)
  OBVIOUS
<1>0. r \in NodeType /\ SameCounts(r, s) /\ SameHeld(r, s)
  BY <1>1, UnusedPlaced DEF Placed
<1>2. CASE r = s
  BY <1>1, <1>2 DEF Steady, SameFlags, Quiet
<1>3. CASE /\ ~s.has_strong /\ ~s.has_weak /\ r = Freed(s)
           /\ s.refs = {} /\ s.local_strong = 0 /\ s.local_weak = 0
  <2>1. /\ ~r.made /\ ~r.has_strong /\ ~r.has_weak
        /\ ~r.pending_strong /\ ~r.pending_weak
    BY <1>3, FreedIs
  <2>2. ~s.pending_strong /\ ~s.pending_weak
    BY <1>3 DEF FlagsOK
  <2>3. SameFlags(r, s)
    BY <1>0, <1>3, <2>1, <2>2 DEF SameFlags, NodeType
  <2>4. ~Weak(r)
    <3>1. r.refs = {} /\ r.local_strong = 0 /\ r.local_weak = 0 /\ r.internal_strong <= 0
      BY <1>0, <1>3 DEF SameCounts, SameHeld, NoRefs
    <3>2. r.internal_strong \in Int
      BY <1>0 DEF NodeType
    <3> QED BY <3>1, <3>2 DEF Weak, Strong
  <2>5. ~Pending(r)
    BY <2>4 DEF Pending, Weak
  <2>6. r.local_weak = One(r.pending_weak)
    BY <1>0, <1>3, <2>1 DEF SameHeld, One
  <2>7. FlagsOK(r)
    BY <2>1, <2>4, <2>5, <2>6 DEF FlagsOK
  <2> QED BY <1>1, <2>3, <2>5, <2>7 DEF Steady, Quiet
<1>4. CASE ~OnList(s) /\ r = [s EXCEPT !.proc_todo = Append(s.proc_todo, "node")]
  <2>1. ~Pending(s)
    BY <1>4 DEF FlagsOK
  <2>2. /\ r.made = s.made /\ SameFlags(r, s) /\ SameLocal(r, s)
    BY <1>4 DEF NodeType, SameFlags, SameLocal
  <2>3. Strong(r) <=> Strong(s)
    BY <1>0, <2>2 DEF SameCounts, SameLocal, Strong
  <2>4. Weak(r) <=> Weak(s)
    BY <1>0, <2>2, <2>3 DEF SameCounts, SameLocal, Weak
  <2>5. ~Pending(r)
    BY <2>1, <2>2, <2>3, <2>4 DEF Pending, SameFlags
  <2>6. FlagsOK(r)
    BY <2>2, <2>4, <2>5 DEF FlagsOK, SameFlags, SameLocal
  <2> QED BY <1>1, <2>2, <2>5, <2>6 DEF Steady, Quiet
<1>5. CASE s.has_strong \/ s.has_weak
  <2>1. r = s \/ (~OnList(s) /\ r = [s EXCEPT !.proc_todo = Append(s.proc_todo, "node")])
    BY <1>1, <1>5 DEF NodeUnused
  <2> QED BY <1>2, <1>4, <2>1
<1>6. CASE ~s.has_strong /\ ~s.has_weak
  <2>1. \/ r = s
        \/ r = Freed(s) /\ s.refs = {} /\ s.local_strong = 0 /\ s.local_weak = 0
    BY <1>1, <1>6 DEF NodeUnused
  <2> QED BY <1>2, <1>3, <1>6, <2>1
<1> QED BY <1>5, <1>6

LEMMA DecStrongInternalIs ==
  ASSUME NEW s \in NodeType, NEW r, r = DecNodeStrongInternal(s)
  PROVE  /\ Placed(r, s) /\ SameHeld(r, s)
         /\ r.internal_strong = s.internal_strong - 1
         /\ r.refs = s.refs /\ r.strong = s.strong /\ r.weak = s.weak
         /\ s.open /\ FlagsOK(s) /\ (s.refs = {} => s.internal_strong <= 1) => Steady(r, s)
<1>0. PICK v \in Int : v = s.internal_strong - 1
  BY DEF NodeType
<1>1. PICK l : l = [s EXCEPT !.internal_strong = v]
  OBVIOUS
<1>2. /\ l \in NodeType /\ l.internal_strong = s.internal_strong - 1
      /\ l.refs = s.refs /\ l.strong = s.strong /\ l.weak = s.weak
      /\ l.todo = s.todo /\ l.proc_todo = s.proc_todo /\ l.made = s.made
      /\ SameFlags(l, s) /\ SameLocal(l, s)
  BY <1>0, <1>1 DEF NodeType, SameFlags, SameLocal
<1>3. r = IF Strong(l) THEN l ELSE NodeUnused(l)
  BY <1>0, <1>1 DEF DecNodeStrongInternal
<1>4. Placed(l, s) /\ SameHeld(l, s)
  BY <1>2 DEF Placed, SameLists, ListsOK, SameLocal, SameHeld
<1>5. ASSUME s.open, FlagsOK(s), s.refs = {} => s.internal_strong <= 1
      PROVE  Steady(l, s) /\ NoRefs(l) /\ l.open
  <2>1. s.internal_strong \in Int
    BY DEF NodeType
  <2>2. Strong(l) => Strong(s)
    BY <1>2, <2>1 DEF Strong, SameLocal
  <2>3. Weak(l) => Weak(s)
    BY <1>2, <2>2 DEF Weak, SameLocal
  <2>4. l.local_weak = One(l.pending_weak)
    BY <1>2, <1>5 DEF FlagsOK, SameFlags, SameLocal
  <2>5. /\ l.has_strong = s.has_strong /\ l.has_weak = s.has_weak
        /\ l.pending_strong => s.pending_strong
        /\ l.pending_weak => s.pending_weak
    BY <1>2 DEF SameFlags
  <2>6. FlagsOK(l) /\ Quiet(l, s)
    BY <1>2, <1>5, <2>2, <2>3, <2>4, <2>5, LessIs
  <2>7. NoRefs(l)
    BY <1>2, <1>5, <2>1 DEF NoRefs
  <2> QED BY <1>2, <1>5, <2>6, <2>7 DEF Steady, SameLocal
<1>6. CASE Strong(l)
  BY <1>2, <1>3, <1>4, <1>5, <1>6
<1>7. CASE ~Strong(l)
  <2>1. r = NodeUnused(l)
    BY <1>3, <1>7
  <2>2. Placed(r, l) /\ SameCounts(r, l) /\ SameHeld(r, l)
    BY <1>2, <2>1, UnusedPlaced
  <2>3. Placed(r, s)
    BY <1>4, <2>2, PlacedMore
  <2>4. ASSUME s.open, FlagsOK(s), s.refs = {} => s.internal_strong <= 1 PROVE Steady(r, s)
    <3>1. Steady(l, s) /\ NoRefs(l) /\ l.open
      BY <1>5, <2>4
    <3>2. FlagsOK(l)
      BY <3>1 DEF Steady
    <3>3. Steady(r, l)
      BY <1>2, <2>1, <3>1, <3>2, UnusedSteady
    <3> QED BY <3>1, <3>3, SteadyMore
  <2>5. /\ r.internal_strong = s.internal_strong - 1
        /\ r.refs = s.refs /\ r.strong = s.strong /\ r.weak = s.weak /\ SameHeld(r, s)
    BY <1>2, <1>4, <2>2 DEF SameCounts, SameHeld
  <2> QED BY <2>3, <2>4, <2>5
<1> QED BY <1>6, <1>7

LEMMA DecStrongLocalIs ==
  ASSUME NEW s \in NodeType, NEW r, r = DecNodeStrongLocal(s)
  PROVE  /\ Placed(r, s) /\ SameCounts(r, s)
         /\ r.local_strong = s.local_strong - 1 /\ r.local_weak = s.local_weak
         /\ s.open /\ FlagsOK(s) /\ NoRefs(s) => Steady(r, s)
<1>0. PICK v \in Int : v = s.local_strong - 1
  BY DEF NodeType
<1>1. PICK l : l = [s EXCEPT !.local_strong = v]
  OBVIOUS
<1>2. /\ l \in NodeType /\ l.local_strong = s.local_strong - 1
      /\ l.local_weak = s.local_weak /\ l.open = s.open
      /\ l.refused = s.refused /\ l.diverted = s.diverted
      /\ l.todo = s.todo /\ l.proc_todo = s.proc_todo /\ l.made = s.made
      /\ SameFlags(l, s) /\ SameCounts(l, s)
  BY <1>0, <1>1 DEF NodeType, SameFlags, SameCounts
<1>3. r = IF Strong(l) THEN l ELSE NodeUnused(l)
  BY <1>0, <1>1 DEF DecNodeStrongLocal
<1>4. Placed(l, s)
  BY <1>2 DEF Placed, SameLists, ListsOK
<1>5. ASSUME s.open, FlagsOK(s), NoRefs(s)
      PROVE  Steady(l, s) /\ NoRefs(l) /\ l.open
  <2>1. s.local_strong \in Int
    BY DEF NodeType
  <2>2. Strong(l) => Strong(s)
    BY <1>2, <2>1 DEF Strong, SameCounts
  <2>3. Weak(l) => Weak(s)
    BY <1>2, <2>2 DEF Weak, SameCounts
  <2>4. l.local_weak = One(l.pending_weak)
    BY <1>2, <1>5 DEF FlagsOK, SameFlags
  <2>5. /\ l.has_strong = s.has_strong /\ l.has_weak = s.has_weak
        /\ l.pending_strong => s.pending_strong
        /\ l.pending_weak => s.pending_weak
    BY <1>2 DEF SameFlags
  <2>6. FlagsOK(l) /\ Quiet(l, s)
    BY <1>2, <1>5, <2>2, <2>3, <2>4, <2>5, LessIs
  <2>7. NoRefs(l)
    BY <1>2, <1>5, <2>1 DEF NoRefs, SameCounts
  <2> QED BY <1>2, <1>5, <2>6, <2>7 DEF Steady
<1>6. CASE Strong(l)
  BY <1>2, <1>3, <1>4, <1>5, <1>6
<1>7. CASE ~Strong(l)
  <2>1. r = NodeUnused(l)
    BY <1>3, <1>7
  <2>2. Placed(r, l) /\ SameCounts(r, l) /\ SameHeld(r, l)
    BY <1>2, <2>1, UnusedPlaced
  <2>3. Placed(r, s)
    BY <1>4, <2>2, PlacedMore
  <2>4. ASSUME s.open, FlagsOK(s), NoRefs(s) PROVE Steady(r, s)
    <3>1. Steady(l, s) /\ NoRefs(l) /\ l.open
      BY <1>5, <2>4
    <3>2. FlagsOK(l)
      BY <3>1 DEF Steady
    <3>3. Steady(r, l)
      BY <1>2, <2>1, <3>1, <3>2, UnusedSteady
    <3> QED BY <3>1, <3>3, SteadyMore
  <2>5. /\ r.local_strong = s.local_strong - 1 /\ r.local_weak = s.local_weak
        /\ SameCounts(r, s)
    BY <1>2, <2>2 DEF SameCounts, SameHeld
  <2> QED BY <2>3, <2>4, <2>5
<1> QED BY <1>6, <1>7

LEMMA DecWeakInternalIs ==
  ASSUME NEW s \in NodeType, NEW r, r = DecNodeWeakInternal(s)
  PROVE  /\ Placed(r, s) /\ SameCounts(r, s) /\ SameHeld(r, s)
         /\ s.open /\ FlagsOK(s) /\ NoRefs(s) => Steady(r, s)
<1>1. CASE r = s
  BY <1>1 DEF Placed, SameLists, SameCounts, SameHeld, Steady, SameFlags, Quiet
<1>2. CASE r = NodeUnused(s)
  BY <1>2, UnusedPlaced, UnusedSteady
<1> QED BY <1>1, <1>2 DEF DecNodeWeakInternal

-----------------------------------------------------------------------------
(* References. *)

Counted(R, f) == {x \in R : f[x] > 0}
RefsBut(s, h) == \A x \in Holder \ {h} : x \in s.refs <=> s.strong[x] + s.weak[x] > 0

SetAt(k, f, h, n) == k = [f EXCEPT ![h] = n]
Recounts(r, s, f, g) == r = [s EXCEPT !.strong = f, !.weak = g]
Forgets(r, s, h) == r = [s EXCEPT !.refs = s.refs \ {h}, !.strong[h] = 0, !.weak[h] = 0]

LEMMA CardIs ==
  ASSUME NEW s
  PROVE  CardOK(s) <=> s.internal_strong = Cardinality(Counted(s.refs, s.strong))
BY DEF CardOK, Counted

LEMMA CountedFinite ==
  ASSUME NEW R \in SUBSET Holder, NEW f
  PROVE  IsFiniteSet(Counted(R, f)) /\ Cardinality(Counted(R, f)) \in Nat
<1>1. Counted(R, f) \in SUBSET Holder /\ IsFiniteSet(Holder)
  BY RefsAssumption DEF Counted
<1>2. IsFiniteSet(Counted(R, f))
  BY <1>1, FS_Subset
<1> QED BY <1>2, FS_CardinalityType

LEMMA CountedLess ==
  ASSUME NEW R \in SUBSET Holder, NEW f \in [Holder -> Nat], NEW h \in R, f[h] > 0,
         NEW k, SetAt(k, f, h, 0)
  PROVE  /\ Cardinality(Counted(R, k)) = Cardinality(Counted(R, f)) - 1
         /\ Counted(R \ {h}, k) = Counted(R, k)
<1>1. Counted(R, k) = Counted(R, f) \ {h} /\ Counted(R \ {h}, k) = Counted(R, k)
  BY DEF Counted, SetAt
<1>2. h \in Counted(R, f)
  BY DEF Counted
<1>3. IsFiniteSet(Counted(R, f)) /\ Cardinality(Counted(R, f)) \in Nat
  BY CountedFinite
<1>4. Cardinality(Counted(R, f) \ {h}) = Cardinality(Counted(R, f)) - 1
  BY <1>2, <1>3, FS_RemoveElement
<1> QED BY <1>1, <1>4

LEMMA CountedMore ==
  ASSUME NEW R \in SUBSET Holder, NEW f \in [Holder -> Nat], NEW h \in Holder, f[h] = 0,
         NEW k, SetAt(k, f, h, 1)
  PROVE  Cardinality(Counted(R \cup {h}, k)) = Cardinality(Counted(R, f)) + 1
<1>1. Counted(R \cup {h}, k) = Counted(R, f) \cup {h}
  BY DEF Counted, SetAt
<1>2. h \notin Counted(R, f)
  BY DEF Counted
<1>3. IsFiniteSet(Counted(R, f)) /\ Cardinality(Counted(R, f)) \in Nat
  BY CountedFinite
<1>4. Cardinality(Counted(R, f) \cup {h}) = Cardinality(Counted(R, f)) + 1
  BY <1>2, <1>3, FS_AddElement
<1> QED BY <1>1, <1>4

LEMMA CountedSame ==
  ASSUME NEW R \in SUBSET Holder, NEW f \in [Holder -> Nat], NEW h \in Holder,
         NEW n \in Nat, f[h] > 0 <=> n > 0, NEW k, SetAt(k, f, h, n)
  PROVE  Counted(R, k) = Counted(R, f)
<1>1. ASSUME NEW x \in R PROVE k[x] > 0 <=> f[x] > 0
  <2>1. CASE x = h
    BY <2>1 DEF SetAt
  <2>2. CASE x # h
    BY <2>2 DEF SetAt
  <2> QED BY <2>1, <2>2
<1> QED BY <1>1 DEF Counted

\* Only a reference's counts differ; whether there are any does not.
LEMMA RecountIs ==
  ASSUME NEW s \in NodeType, NEW f \in [Holder -> Nat], NEW g \in [Holder -> Nat],
         NEW r, Recounts(r, s, f, g)
  PROVE  /\ Placed(r, s) /\ SameHeld(r, s) /\ SameFlags(r, s)
         /\ r.internal_strong = s.internal_strong /\ r.refs = s.refs
         /\ r.strong = f /\ r.weak = g
         /\ FlagsOK(s) => Steady(r, s)
<1>1. /\ r \in NodeType
      /\ r.internal_strong = s.internal_strong /\ r.refs = s.refs
      /\ r.strong = f /\ r.weak = g
      /\ r.todo = s.todo /\ r.proc_todo = s.proc_todo /\ r.made = s.made
      /\ SameFlags(r, s) /\ SameLocal(r, s)
  BY DEF NodeType, SameFlags, SameLocal, Recounts
<1>2. Placed(r, s) /\ SameHeld(r, s)
  BY <1>1 DEF Placed, SameLists, ListsOK, SameLocal, SameHeld
<1>3. ASSUME FlagsOK(s) PROVE Steady(r, s)
  <2>1. (Strong(r) => Strong(s)) /\ (Weak(r) => Weak(s))
    BY <1>1 DEF Strong, Weak, SameLocal
  <2>2. r.local_weak = One(r.pending_weak)
    BY <1>1, <1>3 DEF FlagsOK, SameFlags, SameLocal
  <2>3. /\ r.has_strong = s.has_strong /\ r.has_weak = s.has_weak
        /\ r.pending_strong => s.pending_strong
        /\ r.pending_weak => s.pending_weak
    BY <1>1 DEF SameFlags
  <2>4. FlagsOK(r) /\ Quiet(r, s)
    BY <1>1, <1>3, <2>1, <2>2, <2>3, LessIs
  <2> QED BY <1>1, <2>4 DEF Steady
<1> QED BY <1>1, <1>2, <1>3

LEMMA ForgetIs ==
  ASSUME NEW s \in NodeType, NEW h \in Holder,
         NEW r, Forgets(r, s, h)
  PROVE  /\ Placed(r, s) /\ SameHeld(r, s) /\ SameFlags(r, s)
         /\ r.internal_strong = s.internal_strong /\ r.refs = s.refs \ {h}
         /\ SetAt(r.strong, s.strong, h, 0) /\ SetAt(r.weak, s.weak, h, 0)
         /\ FlagsOK(s) => Steady(r, s)
<1>1. PICK f \in [Holder -> Nat] : f = [s.strong EXCEPT ![h] = 0]
  BY DEF NodeType
<1>2. PICK g \in [Holder -> Nat] : g = [s.weak EXCEPT ![h] = 0]
  BY DEF NodeType
<1>8. PICK R \in SUBSET Holder : R = s.refs \ {h}
  BY DEF NodeType
<1>3. r = [s EXCEPT !.refs = R, !.strong = f, !.weak = g]
  BY <1>1, <1>2, <1>8 DEF Forgets
<1>4. /\ r \in NodeType
      /\ r.internal_strong = s.internal_strong /\ r.refs = R
      /\ r.strong = f /\ r.weak = g
      /\ r.todo = s.todo /\ r.proc_todo = s.proc_todo /\ r.made = s.made
      /\ SameFlags(r, s) /\ SameLocal(r, s)
  BY <1>3 DEF NodeType, SameFlags, SameLocal
<1>5. Placed(r, s) /\ SameHeld(r, s)
  BY <1>4 DEF Placed, SameLists, ListsOK, SameLocal, SameHeld
<1>6. ASSUME FlagsOK(s) PROVE Steady(r, s)
  <2>1. (Strong(r) => Strong(s)) /\ (Weak(r) => Weak(s))
    BY <1>4, <1>8 DEF Strong, Weak, SameLocal
  <2>2. r.local_weak = One(r.pending_weak)
    BY <1>4, <1>6 DEF FlagsOK, SameFlags, SameLocal
  <2>3. /\ r.has_strong = s.has_strong /\ r.has_weak = s.has_weak
        /\ r.pending_strong => s.pending_strong
        /\ r.pending_weak => s.pending_weak
    BY <1>4 DEF SameFlags
  <2>4. FlagsOK(r) /\ Quiet(r, s)
    <3>1. r \in NodeType /\ r.todo = s.todo /\ r.proc_todo = s.proc_todo /\ r.made = s.made
      BY <1>4
    <3> QED BY <1>6, <2>1, <2>2, <2>3, <3>1, LessIs
  <2> QED BY <1>4, <2>4 DEF Steady
<1> QED BY <1>1, <1>2, <1>4, <1>5, <1>6, <1>8 DEF SetAt

LEMMA HeldMore ==
  ASSUME NEW r, NEW u, NEW s, SameHeld(r, u), SameHeld(u, s)
  PROVE  SameHeld(r, s)
BY DEF SameHeld

LEMMA DeleteRefIs ==
  ASSUME NEW s \in NodeType, NEW h \in s.refs, CardOK(s), RefsBut(s, h),
         NEW r, r = DeleteRef(s, h)
  PROVE  /\ Placed(r, s) /\ SameHeld(r, s) /\ CountsOK(r)
         /\ SetAt(r.strong, s.strong, h, 0) /\ SetAt(r.weak, s.weak, h, 0)
         /\ s.open /\ FlagsOK(s) => Steady(r, s)
<1>0. /\ h \in Holder /\ s.refs \in SUBSET Holder /\ s.strong \in [Holder -> Nat]
      /\ s.weak \in [Holder -> Nat] /\ s.internal_strong \in Int
  BY DEF NodeType
<1>1. PICK u : u = IF s.strong[h] > 0 THEN DecNodeStrongInternal(s) ELSE s
  OBVIOUS
<1>2. /\ Placed(u, s) /\ SameHeld(u, s) /\ u \in NodeType
      /\ u.internal_strong = s.internal_strong - One(s.strong[h] > 0)
      /\ u.refs = s.refs /\ u.strong = s.strong /\ u.weak = s.weak
      /\ s.open /\ FlagsOK(s) => Steady(u, s)
  <2>1. CASE s.strong[h] > 0
    <3>1. u = DecNodeStrongInternal(s)
      BY <1>1, <2>1
    <3>2. s.refs = {} => s.internal_strong <= 1
      OBVIOUS
    <3>3. One(s.strong[h] > 0) = 1
      BY <2>1 DEF One
    <3> QED BY <3>1, <3>2, <3>3, DecStrongInternalIs DEF Placed
  <2>2. CASE ~(s.strong[h] > 0)
    <3>1. u = s /\ One(s.strong[h] > 0) = 0
      BY <1>1, <2>2 DEF One
    <3> QED BY <1>0, <3>1 DEF Placed, SameLists, SameHeld, Steady, SameFlags, Quiet
  <2> QED BY <2>1, <2>2
<1>3. PICK v : Forgets(v, u, h)
  BY DEF Forgets
<1>4. /\ Placed(v, u) /\ SameHeld(v, u) /\ SameFlags(v, u) /\ v \in NodeType
      /\ v.internal_strong = u.internal_strong /\ v.refs = s.refs \ {h}
      /\ SetAt(v.strong, s.strong, h, 0) /\ SetAt(v.weak, s.weak, h, 0)
      /\ FlagsOK(u) => Steady(v, u)
  <2>1. /\ Placed(v, u) /\ SameHeld(v, u) /\ SameFlags(v, u)
        /\ v.internal_strong = u.internal_strong /\ v.refs = u.refs \ {h}
        /\ SetAt(v.strong, u.strong, h, 0) /\ SetAt(v.weak, u.weak, h, 0)
        /\ FlagsOK(u) => Steady(v, u)
    <3>1. u \in NodeType /\ h \in Holder
      BY <1>0, <1>2
    <3> QED BY <1>3, <3>1, ForgetIs
  <2> QED BY <1>2, <2>1 DEF Placed
<1>5. CardOK(v)
  <2>1. s.internal_strong = Cardinality(Counted(s.refs, s.strong))
    BY CardIs
  <2>2. CASE s.strong[h] > 0
    <3>4. PICK R \in SUBSET Holder : R = s.refs
      BY <1>0
    <3>5. PICK f \in [Holder -> Nat] : f = s.strong
      BY <1>0
    <3>6. PICK k : k = v.strong
      OBVIOUS
    <3>7. h \in R /\ f[h] > 0 /\ SetAt(k, f, h, 0)
      BY <1>4, <2>2, <3>4, <3>5, <3>6
    <3>8. /\ Cardinality(Counted(R, k)) = Cardinality(Counted(R, f)) - 1
          /\ Counted(R \ {h}, k) = Counted(R, k)
      BY <3>7, CountedLess
    <3>1. Cardinality(Counted(s.refs, v.strong)) = Cardinality(Counted(s.refs, s.strong)) - 1
      BY <3>4, <3>5, <3>6, <3>8
    <3>2. Counted(s.refs \ {h}, v.strong) = Counted(s.refs, v.strong)
      BY <3>4, <3>5, <3>6, <3>8
    <3>3. v.internal_strong = Cardinality(Counted(v.refs, v.strong))
      BY <1>2, <1>4, <2>1, <2>2, <3>1, <3>2 DEF One
    <3> QED BY <3>3, CardIs
  <2>3. CASE ~(s.strong[h] > 0)
    <3>1. v.strong = s.strong
      BY <1>0, <1>4, <2>3 DEF SetAt
    <3>2. Counted(v.refs, v.strong) = Counted(s.refs, s.strong)
      BY <1>4, <2>3, <3>1 DEF Counted
    <3>3. v.internal_strong = s.internal_strong
      BY <1>0, <1>2, <1>4, <2>3 DEF One
    <3> QED BY <2>1, <3>2, <3>3, CardIs
  <2> QED BY <2>2, <2>3
<1>6. RefsOK(v)
  <2>1. ASSUME NEW x \in Holder PROVE x \in v.refs <=> v.strong[x] + v.weak[x] > 0
    <3>1. CASE x = h
      BY <1>0, <1>4, <3>1 DEF SetAt
    <3>2. CASE x # h
      <4>1. v.strong[x] = s.strong[x] /\ v.weak[x] = s.weak[x]
        BY <1>0, <1>4, <3>2 DEF SetAt
      <4> QED BY <1>4, <3>2, <4>1 DEF RefsBut
    <3> QED BY <3>1, <3>2
  <2>2. v.refs \in SUBSET Holder
    BY <1>4 DEF NodeType
  <2> QED BY <2>1, <2>2 DEF RefsOK
<1>7. r = DecNodeWeakInternal(v)
  BY <1>1, <1>3 DEF DeleteRef, Forgets
<1>8. /\ Placed(r, v) /\ SameCounts(r, v) /\ SameHeld(r, v)
      /\ v.open /\ FlagsOK(v) /\ NoRefs(v) => Steady(r, v)
  BY <1>4, <1>7, DecWeakInternalIs
<1>9. Placed(r, s) /\ SameHeld(r, s)
  <2>1. Placed(v, s) /\ SameHeld(v, s)
    BY <1>2, <1>4, PlacedMore, HeldMore
  <2> QED BY <1>8, <2>1, PlacedMore, HeldMore
<1>10. CountsOK(r)
  BY <1>5, <1>6, <1>8 DEF CountsOK, CardOK, RefsOK, SameCounts
<1>11. ASSUME s.open, FlagsOK(s) PROVE Steady(r, s)
  <2>1. Steady(u, s)
    BY <1>2, <1>11
  <2>2. Steady(v, u)
    BY <1>4, <2>1 DEF Steady
  <2>3. FlagsOK(v) /\ v.open /\ NoRefs(v)
    BY <1>2, <1>4, <1>5, <1>11, <2>2, NoRefsWhenCounted DEF Steady, Placed
  <2>4. Steady(r, v)
    BY <1>8, <2>3
  <2>5. Steady(v, s)
    BY <2>1, <2>2, SteadyMore
  <2> QED BY <2>4, <2>5, SteadyMore
<1> QED BY <1>4, <1>8, <1>9, <1>10, <1>11 DEF SameCounts

LEMMA PlacedType ==
  ASSUME NEW r, NEW s, Placed(r, s)
  PROVE  r \in NodeType /\ r.open = s.open /\ r.diverted = s.diverted
BY DEF Placed

Fewer(n) == IF n > 0 THEN n - 1 ELSE 0

LEMMA DecRefStrongIs ==
  ASSUME NEW s \in NodeType, NEW h \in Holder, CountsOK(s), NEW r, r = DecRefStrong(s, h)
  PROVE  /\ Placed(r, s) /\ SameHeld(r, s) /\ CountsOK(r)
         /\ SetAt(r.strong, s.strong, h, Fewer(s.strong[h])) /\ r.weak = s.weak
         /\ s.open /\ FlagsOK(s) => Steady(r, s)
<1>0. /\ s.refs \in SUBSET Holder /\ s.strong \in [Holder -> Nat]
      /\ s.weak \in [Holder -> Nat] /\ s.internal_strong \in Int
  BY DEF NodeType
<1>1. CASE s.strong[h] = 0
  <2>1. r = s
    BY <1>1 DEF DecRefStrong
  <2>2. SetAt(r.strong, s.strong, h, Fewer(s.strong[h]))
    BY <1>0, <1>1, <2>1 DEF Fewer, SetAt
  <2> QED BY <2>1, <2>2 DEF Placed, SameLists, SameHeld, Steady, SameFlags, Quiet
<1>2. CASE s.strong[h] > 0
  <2>1. PICK n \in Nat : n = s.strong[h] - 1
    BY <1>0, <1>2
  <2>2. PICK f \in [Holder -> Nat] : SetAt(f, s.strong, h, n)
    BY <1>0 DEF SetAt
  <2>3. PICK l : Recounts(l, s, f, s.weak)
    BY DEF Recounts
  <2>4. l = [s EXCEPT !.strong[h] = @ - 1]
    BY <2>1, <2>2, <2>3 DEF NodeType, Recounts, SetAt
  <2>5. /\ Placed(l, s) /\ SameHeld(l, s) /\ SameFlags(l, s)
        /\ l.internal_strong = s.internal_strong /\ l.refs = s.refs
        /\ l.strong = f /\ l.weak = s.weak
        /\ FlagsOK(s) => Steady(l, s)
    <3>1. PICK g \in [Holder -> Nat] : g = s.weak
      BY <1>0
    <3>2. Recounts(l, s, f, g)
      BY <2>3, <3>1
    <3> QED BY <3>1, <3>2, RecountIs
  <2>6. SetAt(f, s.strong, h, Fewer(s.strong[h]))
    BY <1>2, <2>1, <2>2 DEF Fewer
  <2>7. l \in NodeType /\ l.open = s.open
    BY <2>5, PlacedType
  <2>8. l.strong[h] = n /\ \A x \in Holder \ {h} : l.strong[x] = s.strong[x]
    BY <1>0, <2>2, <2>5 DEF SetAt
  <2>9. h \in s.refs
    BY <1>0, <1>2 DEF CountsOK, RefsOK
  <2>10. s.internal_strong = Cardinality(Counted(s.refs, s.strong))
    BY CardIs DEF CountsOK
  <2>11. RefsBut(l, h)
    BY <2>5, <2>8 DEF RefsBut, CountsOK, RefsOK
  <2>12. CASE n > 0
    <3>1. r = l
      BY <1>2, <2>4, <2>8, <2>12 DEF DecRefStrong
    <3>2. Counted(s.refs, f) = Counted(s.refs, s.strong)
      BY <1>0, <1>2, <2>2, <2>12, CountedSame
    <3>3. CardOK(l)
      BY <2>5, <2>10, <3>2, CardIs
    <3>4. RefsOK(l)
      <4>1. l.strong[h] + l.weak[h] > 0
        BY <1>0, <2>5, <2>8, <2>12
      <4> QED BY <1>0, <2>5, <2>9, <2>11, <4>1 DEF RefsOK, RefsBut
    <3> QED BY <2>5, <2>6, <3>1, <3>3, <3>4 DEF CountsOK
  <2>13. CASE n = 0
    <3>1. PICK w : w = DecNodeStrongInternal(l)
      OBVIOUS
    <3>2. r = Unneeded(w, h)
      BY <1>2, <2>4, <2>8, <2>13, <3>1 DEF DecRefStrong
    <3>3. /\ Placed(w, l) /\ SameHeld(w, l)
          /\ w.internal_strong = s.internal_strong - 1
          /\ w.refs = s.refs /\ w.strong = f /\ w.weak = s.weak
          /\ s.open /\ FlagsOK(l) => Steady(w, l)
      <4>1. l.refs = {} => l.internal_strong <= 1
        BY <2>5, <2>9
      <4> QED BY <2>5, <2>7, <3>1, <4>1, DecStrongInternalIs
    <3>4. w \in NodeType /\ w.open = s.open
      BY <2>7, <3>3, PlacedType
    <3>5. CardOK(w)
      <4>1. Cardinality(Counted(s.refs, f)) = Cardinality(Counted(s.refs, s.strong)) - 1
        <5>1. PICK R \in SUBSET Holder : R = s.refs
          BY <1>0
        <5>2. PICK k \in [Holder -> Nat] : k = s.strong
          BY <1>0
        <5>3. h \in R /\ k[h] > 0 /\ SetAt(f, k, h, 0)
          BY <1>2, <2>2, <2>9, <2>13, <5>1, <5>2
        <5>4. Cardinality(Counted(R, f)) = Cardinality(Counted(R, k)) - 1
          BY <5>3, CountedLess
        <5> QED BY <5>1, <5>2, <5>4
      <4> QED BY <2>10, <3>3, <4>1, CardIs
    <3>6. RefsBut(w, h)
      BY <2>5, <2>11, <3>3 DEF RefsBut
    <3>7. Placed(w, s) /\ SameHeld(w, s)
      BY <2>5, <3>3, PlacedMore, HeldMore
    <3>8. ASSUME s.open, FlagsOK(s) PROVE Steady(w, s)
      <4>1. Steady(l, s)
        BY <2>5, <3>8
      <4>2. Steady(w, l)
        BY <3>3, <3>8, <4>1 DEF Steady
      <4> QED BY <4>1, <4>2, SteadyMore
    <3>9. CASE s.weak[h] = 0
      <4>1. w.strong[h] = 0 /\ w.weak[h] = 0 /\ h \in w.refs
        BY <2>5, <2>8, <2>9, <2>13, <3>3, <3>9
      <4>2. r = DeleteRef(w, h)
        BY <3>2, <4>1 DEF Unneeded
      <4>3. /\ Placed(r, w) /\ SameHeld(r, w) /\ CountsOK(r)
            /\ SetAt(r.strong, w.strong, h, 0) /\ SetAt(r.weak, w.weak, h, 0)
            /\ w.open /\ FlagsOK(w) => Steady(r, w)
        BY <3>4, <3>5, <3>6, <4>1, <4>2, DeleteRefIs
      <4>4. r.strong = f /\ r.weak = s.weak
        BY <1>0, <2>2, <2>13, <3>3, <3>9, <4>3 DEF SetAt
      <4>5. Placed(r, s) /\ SameHeld(r, s)
        BY <3>7, <4>3, PlacedMore, HeldMore
      <4>6. ASSUME s.open, FlagsOK(s) PROVE Steady(r, s)
        <5>1. Steady(w, s)
          BY <3>8, <4>6
        <5>2. Steady(r, w)
          BY <3>4, <4>3, <4>6, <5>1 DEF Steady
        <5> QED BY <5>1, <5>2, SteadyMore
      <4> QED BY <2>6, <4>3, <4>4, <4>5, <4>6
    <3>10. CASE s.weak[h] # 0
      <4>1. r = w
        BY <3>2, <3>3, <3>10 DEF Unneeded
      <4>2. RefsOK(w)
        <5>1. w.strong[h] + w.weak[h] > 0
          BY <1>0, <2>5, <2>8, <2>13, <3>3, <3>10
        <5> QED BY <1>0, <2>9, <3>3, <3>6, <5>1 DEF RefsOK, RefsBut
      <4> QED BY <2>6, <3>3, <3>5, <3>7, <3>8, <4>1, <4>2 DEF CountsOK
    <3> QED BY <3>9, <3>10
  <2>14. n = 0 \/ n > 0
    OBVIOUS
  <2> QED BY <2>12, <2>13, <2>14
<1>3. s.strong[h] \in Nat
  BY <1>0
<1>4. s.strong[h] = 0 \/ s.strong[h] > 0
  BY <1>3
<1> QED BY <1>1, <1>2, <1>4

LEMMA DecRefWeakIs ==
  ASSUME NEW s \in NodeType, NEW h \in Holder, CountsOK(s), NEW r, r = DecRefWeak(s, h)
  PROVE  /\ Placed(r, s) /\ SameHeld(r, s) /\ CountsOK(r)
         /\ r.strong = s.strong /\ SetAt(r.weak, s.weak, h, Fewer(s.weak[h]))
         /\ s.open /\ FlagsOK(s) => Steady(r, s)
<1>0. /\ s.refs \in SUBSET Holder /\ s.strong \in [Holder -> Nat]
      /\ s.weak \in [Holder -> Nat] /\ s.internal_strong \in Int
  BY DEF NodeType
<1>1. CASE s.weak[h] = 0
  <2>1. r = s
    BY <1>1 DEF DecRefWeak
  <2>2. SetAt(r.weak, s.weak, h, Fewer(s.weak[h]))
    BY <1>0, <1>1, <2>1 DEF Fewer, SetAt
  <2> QED BY <2>1, <2>2 DEF Placed, SameLists, SameHeld, Steady, SameFlags, Quiet
<1>2. CASE s.weak[h] > 0
  <2>1. PICK n \in Nat : n = s.weak[h] - 1
    BY <1>0, <1>2
  <2>2. PICK g \in [Holder -> Nat] : SetAt(g, s.weak, h, n)
    BY <1>0 DEF SetAt
  <2>3. PICK f \in [Holder -> Nat] : f = s.strong
    BY <1>0
  <2>4. PICK l : Recounts(l, s, f, g)
    BY DEF Recounts
  <2>5. r = Unneeded(l, h)
    <3>1. l = [s EXCEPT !.weak[h] = @ - 1]
      BY <2>1, <2>2, <2>3, <2>4 DEF NodeType, Recounts, SetAt
    <3> QED BY <1>2, <3>1 DEF DecRefWeak
  <2>6. /\ Placed(l, s) /\ SameHeld(l, s) /\ SameFlags(l, s)
        /\ l.internal_strong = s.internal_strong /\ l.refs = s.refs
        /\ l.strong = f /\ l.weak = g
        /\ FlagsOK(s) => Steady(l, s)
    BY <2>4, RecountIs
  <2>7. SetAt(g, s.weak, h, Fewer(s.weak[h]))
    BY <1>2, <2>1, <2>2 DEF Fewer
  <2>8. l \in NodeType /\ l.open = s.open
    BY <2>6, PlacedType
  <2>9. l.weak[h] = n /\ \A x \in Holder \ {h} : l.weak[x] = s.weak[x]
    BY <1>0, <2>2, <2>6 DEF SetAt
  <2>10. h \in s.refs
    BY <1>0, <1>2 DEF CountsOK, RefsOK
  <2>11. CardOK(l)
    BY <2>3, <2>6 DEF CardOK, CountsOK
  <2>12. RefsBut(l, h)
    BY <2>3, <2>6, <2>9 DEF RefsBut, CountsOK, RefsOK
  <2>13. CASE s.strong[h] = 0 /\ n = 0
    <3>1. l.strong[h] = 0 /\ l.weak[h] = 0 /\ h \in l.refs
      BY <2>3, <2>6, <2>9, <2>10, <2>13
    <3>2. r = DeleteRef(l, h)
      BY <2>5, <3>1 DEF Unneeded
    <3>3. /\ Placed(r, l) /\ SameHeld(r, l) /\ CountsOK(r)
          /\ SetAt(r.strong, l.strong, h, 0) /\ SetAt(r.weak, l.weak, h, 0)
          /\ l.open /\ FlagsOK(l) => Steady(r, l)
      BY <2>8, <2>11, <2>12, <3>1, <3>2, DeleteRefIs
    <3>4. r.strong = s.strong /\ r.weak = g
      BY <1>0, <2>2, <2>3, <2>6, <2>13, <3>3 DEF SetAt
    <3>5. Placed(r, s) /\ SameHeld(r, s)
      BY <2>6, <3>3, PlacedMore, HeldMore
    <3>6. ASSUME s.open, FlagsOK(s) PROVE Steady(r, s)
      <4>1. Steady(l, s)
        BY <2>6, <3>6
      <4>2. Steady(r, l)
        BY <2>8, <3>3, <3>6, <4>1 DEF Steady
      <4> QED BY <4>1, <4>2, SteadyMore
    <3> QED BY <2>7, <3>3, <3>4, <3>5, <3>6
  <2>14. CASE ~(s.strong[h] = 0 /\ n = 0)
    <3>1. r = l
      BY <2>3, <2>5, <2>6, <2>9, <2>14 DEF Unneeded
    <3>2. RefsOK(l)
      <4>1. l.strong[h] + l.weak[h] > 0
        BY <1>0, <2>3, <2>6, <2>9, <2>14
      <4> QED BY <1>0, <2>6, <2>10, <2>12, <4>1 DEF RefsOK, RefsBut
    <3> QED BY <2>3, <2>6, <2>7, <2>11, <3>1, <3>2 DEF CountsOK
  <2> QED BY <2>13, <2>14
<1>3. s.weak[h] \in Nat
  BY <1>0
<1>4. s.weak[h] = 0 \/ s.weak[h] > 0
  BY <1>3
<1> QED BY <1>1, <1>2, <1>4

LEMMA IncRefWeakIs ==
  ASSUME NEW s \in NodeType, NEW h \in s.refs, CountsOK(s), NEW r, r = IncRefWeak(s, h)
  PROVE  /\ r \in NodeType /\ r.open = s.open /\ r.diverted = s.diverted /\ CountsOK(r)
         /\ s.open /\ FlagsOK(s) =>
              /\ Placed(r, s) /\ SameHeld(r, s) /\ Steady(r, s)
              /\ r.strong = s.strong /\ SetAt(r.weak, s.weak, h, s.weak[h] + 1)
<1>0. /\ s.refs \in SUBSET Holder /\ s.strong \in [Holder -> Nat] /\ h \in Holder
      /\ s.weak \in [Holder -> Nat] /\ s.internal_strong \in Int
  BY DEF NodeType
<1>1. CASE s.weak[h] = 0 /\ RefusesWeak(s)
  <2>1. r = [s EXCEPT !.refused = TRUE]
    BY <1>1 DEF IncRefWeak
  <2>2. r \in NodeType /\ r.open = s.open /\ r.diverted = s.diverted /\ SameCounts(r, s)
    BY <2>1 DEF NodeType, SameCounts
  <2>3. CountsOK(r)
    BY <2>2 DEF CountsOK, CardOK, RefsOK, SameCounts
  <2>4. ~FlagsOK(s)
    <3>1. Weak(s)
      BY DEF Weak
    <3> QED BY <1>1, <3>1 DEF FlagsOK, Pending, RefusesWeak
  <2> QED BY <2>2, <2>3, <2>4
<1>2. CASE ~(s.weak[h] = 0 /\ RefusesWeak(s))
  <2>1. PICK n \in Nat : n = s.weak[h] + 1
    BY <1>0
  <2>2. PICK g \in [Holder -> Nat] : SetAt(g, s.weak, h, n)
    BY <1>0 DEF SetAt
  <2>3. PICK f \in [Holder -> Nat] : f = s.strong
    BY <1>0
  <2>4. Recounts(r, s, f, g)
    BY <1>2, <2>1, <2>2, <2>3 DEF NodeType, Recounts, SetAt, IncRefWeak
  <2>6. /\ Placed(r, s) /\ SameHeld(r, s) /\ SameFlags(r, s)
        /\ r.internal_strong = s.internal_strong /\ r.refs = s.refs
        /\ r.strong = f /\ r.weak = g
        /\ FlagsOK(s) => Steady(r, s)
    BY <2>4, RecountIs
  <2>7. CardOK(r)
    BY <2>3, <2>6 DEF CardOK, CountsOK
  <2>8. RefsOK(r)
    <3>1. ASSUME NEW x \in Holder
          PROVE  s.strong[x] + s.weak[x] > 0 <=> r.strong[x] + r.weak[x] > 0
      <4>1. CASE x = h
        <5>1. s.strong[h] + s.weak[h] > 0
          BY <1>0 DEF CountsOK, RefsOK
        <5>2. r.weak[h] = n /\ r.strong[h] = s.strong[h]
          BY <1>0, <2>2, <2>3, <2>6 DEF SetAt
        <5>3. r.strong[h] + r.weak[h] > 0
          BY <1>0, <2>1, <5>2
        <5> QED BY <4>1, <5>1, <5>3
      <4>2. CASE x # h
        BY <1>0, <2>2, <2>3, <2>6, <4>2 DEF SetAt
      <4> QED BY <4>1, <4>2
    <3> QED BY <2>6, <3>1 DEF CountsOK, RefsOK
  <2> QED BY <2>1, <2>2, <2>3, <2>6, <2>7, <2>8, PlacedType DEF CountsOK
<1> QED BY <1>1, <1>2

\* One more strong count at a reference that has some.
LEMMA IncRefStrongIs ==
  ASSUME NEW s \in NodeType, NEW h \in Holder, CountsOK(s), s.strong[h] > 0, NEW list,
         NEW r, r = IncRefStrong(s, h, list)
  PROVE  /\ Placed(r, s) /\ SameHeld(r, s) /\ CountsOK(r) /\ r.internal_strong = s.internal_strong
         /\ SetAt(r.strong, s.strong, h, s.strong[h] + 1) /\ r.weak = s.weak
         /\ r.refs = s.refs
         /\ FlagsOK(s) => Steady(r, s)
<1>0. /\ s.refs \in SUBSET Holder /\ s.strong \in [Holder -> Nat]
      /\ s.weak \in [Holder -> Nat] /\ s.internal_strong \in Int
  BY DEF NodeType
<1>1. PICK n \in Nat : n = s.strong[h] + 1
  BY <1>0
<1>2. PICK f \in [Holder -> Nat] : SetAt(f, s.strong, h, n)
  BY <1>0 DEF SetAt
<1>3. PICK g \in [Holder -> Nat] : g = s.weak
  BY <1>0
<1>4. Recounts(r, s, f, g)
  BY <1>1, <1>2, <1>3 DEF NodeType, Recounts, SetAt, IncRefStrong
<1>5. /\ Placed(r, s) /\ SameHeld(r, s) /\ SameFlags(r, s)
      /\ r.internal_strong = s.internal_strong /\ r.refs = s.refs
      /\ r.strong = f /\ r.weak = g
      /\ FlagsOK(s) => Steady(r, s)
  BY <1>4, RecountIs
<1>6. CardOK(r)
  <2>1. s.internal_strong = Cardinality(Counted(s.refs, s.strong))
    BY CardIs DEF CountsOK
  <2>2. PICK R \in SUBSET Holder : R = s.refs
    BY <1>0
  <2>3. PICK k \in [Holder -> Nat] : k = s.strong
    BY <1>0
  <2>4. SetAt(f, k, h, n) /\ (k[h] > 0 <=> n > 0)
    BY <1>1, <1>2, <2>3
  <2>5. Counted(R, f) = Counted(R, k)
    BY <2>4, CountedSame
  <2> QED BY <1>5, <2>1, <2>2, <2>3, <2>5, CardIs
<1>7. RefsOK(r)
  <2>1. ASSUME NEW x \in Holder
        PROVE  s.strong[x] + s.weak[x] > 0 <=> r.strong[x] + r.weak[x] > 0
    <3>1. CASE x = h
      <4>1. r.strong[h] = n /\ r.weak[h] = s.weak[h]
        BY <1>0, <1>2, <1>3, <1>5 DEF SetAt
      <4>2. r.strong[h] + r.weak[h] > 0 /\ s.strong[h] + s.weak[h] > 0
        BY <1>0, <1>1, <4>1
      <4> QED BY <3>1, <4>2
    <3>2. CASE x # h
      BY <1>0, <1>2, <1>3, <1>5, <3>2 DEF SetAt
    <3> QED BY <3>1, <3>2
  <2> QED BY <1>5, <2>1 DEF CountsOK, RefsOK
<1> QED BY <1>1, <1>2, <1>3, <1>5, <1>6, <1>7 DEF CountsOK

\* The first strong count of a reference, old or new, with v the node's new count.
FirstStrong(r, s, h, v) ==
  r = [s EXCEPT !.internal_strong = v, !.refs = s.refs \cup {h}, !.strong[h] = 1]

LEMMA FirstStrongIs ==
  ASSUME NEW s \in NodeType, NEW h \in Holder, CountsOK(s), s.strong[h] = 0,
         NEW v \in Int, v = s.internal_strong + 1, NEW r, FirstStrong(r, s, h, v)
  PROVE  /\ Placed(r, s) /\ SameHeld(r, s) /\ CountsOK(r) /\ SameFlags(r, s)
         /\ r.made = s.made /\ r.todo = s.todo /\ r.proc_todo = s.proc_todo
         /\ r.internal_strong = v /\ v > 0
         /\ SetAt(r.strong, s.strong, h, s.strong[h] + 1) /\ r.weak = s.weak
<1>0. /\ s.refs \in SUBSET Holder /\ s.strong \in [Holder -> Nat]
      /\ s.weak \in [Holder -> Nat] /\ s.internal_strong \in Int
  BY DEF NodeType
<1>1. PICK f \in [Holder -> Nat] : SetAt(f, s.strong, h, 1)
  BY <1>0 DEF SetAt
<1>2. PICK R \in SUBSET Holder : R = s.refs \cup {h}
  BY <1>0
<1>3. r = [s EXCEPT !.internal_strong = v, !.refs = R, !.strong = f]
  BY <1>0, <1>1, <1>2 DEF FirstStrong, SetAt, NodeType
<1>4. /\ r \in NodeType /\ r.internal_strong = v /\ r.refs = R /\ r.strong = f
      /\ r.weak = s.weak /\ r.made = s.made /\ r.todo = s.todo /\ r.proc_todo = s.proc_todo
      /\ SameFlags(r, s) /\ SameLocal(r, s)
  BY <1>3 DEF NodeType, SameFlags, SameLocal
<1>5. Placed(r, s) /\ SameHeld(r, s)
  BY <1>4 DEF Placed, SameLists, ListsOK, SameLocal, SameHeld
<1>6. s.internal_strong = Cardinality(Counted(s.refs, s.strong)) /\ s.internal_strong \in Nat
  <2>1. s.internal_strong = Cardinality(Counted(s.refs, s.strong))
    BY CardIs DEF CountsOK
  <2>2. Cardinality(Counted(s.refs, s.strong)) \in Nat
    BY <1>0, CountedFinite
  <2> QED BY <2>1, <2>2
<1>7. CardOK(r)
  <2>1. PICK Q \in SUBSET Holder : Q = s.refs
    BY <1>0
  <2>2. PICK k \in [Holder -> Nat] : k = s.strong
    BY <1>0
  <2>3. SetAt(f, k, h, 1) /\ k[h] = 0
    BY <1>1, <2>2
  <2>4. Cardinality(Counted(Q \cup {h}, f)) = Cardinality(Counted(Q, k)) + 1
    BY <2>3, CountedMore
  <2> QED BY <1>2, <1>4, <1>6, <2>1, <2>2, <2>4, CardIs
<1>8. RefsOK(r)
  <2>1. ASSUME NEW x \in Holder PROVE x \in R <=> r.strong[x] + r.weak[x] > 0
    <3>1. CASE x = h
      <4>1. r.strong[h] = 1 /\ r.weak[h] = s.weak[h]
        BY <1>0, <1>1, <1>4 DEF SetAt
      <4>2. r.strong[h] + r.weak[h] > 0
        BY <1>0, <4>1
      <4> QED BY <1>2, <3>1, <4>2
    <3>2. CASE x # h
      <4>1. r.strong[x] = s.strong[x] /\ r.weak[x] = s.weak[x]
        BY <1>0, <1>1, <1>4, <3>2 DEF SetAt
      <4> QED BY <1>2, <3>2, <4>1 DEF CountsOK, RefsOK
    <3> QED BY <3>1, <3>2
  <2> QED BY <1>4, <2>1 DEF RefsOK
<1>9. s.strong[h] + 1 = 1
  OBVIOUS
<1> QED BY <1>1, <1>4, <1>5, <1>6, <1>7, <1>8, <1>9 DEF CountsOK

\* A handle passed on by a holder that has a strong reference.
LEMMA PassIs ==
  ASSUME NEW s \in NodeType, NEW h \in Holder, CountsOK(s), s.internal_strong > 0,
         NEW r, r = IncRefStrong(GetRefForNode(s, h), h, NoList)
  PROVE  /\ Placed(r, s) /\ SameHeld(r, s) /\ CountsOK(r)
         /\ SetAt(r.strong, s.strong, h, s.strong[h] + 1) /\ r.weak = s.weak
         /\ FlagsOK(s) => Steady(r, s)
<1>0. /\ s.refs \in SUBSET Holder /\ s.strong \in [Holder -> Nat]
      /\ s.weak \in [Holder -> Nat] /\ s.internal_strong \in Int
  BY DEF NodeType
<1>1. CASE s.strong[h] > 0
  <2>1. h \in s.refs
    BY <1>0, <1>1 DEF CountsOK, RefsOK
  <2>2. GetRefForNode(s, h) = s
    BY <2>1 DEF GetRefForNode, NodeType
  <2> QED BY <1>1, <2>2, IncRefStrongIs
<1>2. CASE s.strong[h] = 0
  <2>1. PICK v \in Int : v = s.internal_strong + 1
    BY <1>0
  <2>2. PICK u : u = GetRefForNode(s, h)
    OBVIOUS
  <2>3. /\ u.strong = s.strong /\ u.internal_strong = s.internal_strong
        /\ u = [s EXCEPT !.refs = s.refs \cup {h}]
    BY <2>2 DEF GetRefForNode, NodeType
  <2>4. ~RefusesStrong(u, NoList)
    BY <1>0, <2>3 DEF RefusesStrong
  <2>5. IncNodeStrong(u, NoList) = [u EXCEPT !.internal_strong = v]
    BY <2>1, <2>3 DEF IncNodeStrong
  <2>6. r = [IncNodeStrong(u, NoList) EXCEPT !.strong[h] = @ + 1]
    <3>1. ~(u.strong[h] > 0)
      BY <1>2, <2>3
    <3>2. r = IncRefStrong(u, h, NoList)
      BY <2>2
    <3> QED BY <2>4, <3>1, <3>2, Zenon DEF IncRefStrong
  <2>7. FirstStrong(r, s, h, v)
    <3>1. PICK R \in SUBSET Holder : R = s.refs \cup {h}
      BY <1>0
    <3>2. PICK f \in [Holder -> Nat] : f = [s.strong EXCEPT ![h] = 1]
      BY <1>0
    <3>3. PICK w : w = [u EXCEPT !.internal_strong = v]
      OBVIOUS
    <3>4. w = [s EXCEPT !.internal_strong = v, !.refs = R] /\ w.strong = s.strong
      BY <2>3, <3>1, <3>3 DEF NodeType
    <3>5. r = [w EXCEPT !.strong = [s.strong EXCEPT ![h] = s.strong[h] + 1]]
      BY <2>5, <2>6, <3>3, <3>4
    <3>6. [s.strong EXCEPT ![h] = s.strong[h] + 1] = f
      BY <1>0, <1>2, <3>2
    <3>7. r = [s EXCEPT !.internal_strong = v, !.refs = R, !.strong = f]
      BY <3>4, <3>5, <3>6 DEF NodeType
    <3> QED BY <1>0, <3>1, <3>2, <3>7 DEF FirstStrong, NodeType
  <2>8. /\ Placed(r, s) /\ SameHeld(r, s) /\ CountsOK(r) /\ SameFlags(r, s)
        /\ r.made = s.made /\ r.todo = s.todo /\ r.proc_todo = s.proc_todo
        /\ SetAt(r.strong, s.strong, h, s.strong[h] + 1) /\ r.weak = s.weak
    BY <1>2, <2>1, <2>7, FirstStrongIs
  <2>9. ASSUME FlagsOK(s) PROVE Steady(r, s)
    <3>1. Strong(s) /\ Weak(s)
      BY DEF Strong, Weak
    <3>2. r \in NodeType
      BY <2>8, PlacedType
    <3>3. /\ r.has_strong = s.has_strong /\ r.has_weak = s.has_weak
          /\ r.pending_strong => s.pending_strong
          /\ r.pending_weak => s.pending_weak
      BY <2>8 DEF SameFlags
    <3>4. r.local_weak = One(r.pending_weak)
      BY <2>8, <2>9 DEF FlagsOK, SameFlags, SameHeld
    <3>5. r.todo = s.todo /\ r.proc_todo = s.proc_todo /\ r.made = s.made
      BY <2>8
    <3>6. FlagsOK(r) /\ Quiet(r, s)
      BY <2>9, <3>1, <3>2, <3>3, <3>4, <3>5, LessIs
    <3> QED BY <2>8, <3>6 DEF Steady
  <2> QED BY <2>8, <2>9
<1>3. s.strong[h] \in Nat
  BY <1>0
<1>4. s.strong[h] = 0 \/ s.strong[h] > 0
  BY <1>3
<1> QED BY <1>1, <1>2, <1>4

-----------------------------------------------------------------------------
(* A transaction with the object in it: the work moves to the thread that   *)
(* sends.                                                                   *)

SentLists(r, s, th) ==
  /\ Occurs("call", r.proc_todo) = Occurs("call", s.proc_todo)
  /\ ListsOK(s) => ListsOK(r)
  /\ \A o \in Thread \ {th} : s.todo[o] = <<>> => r.todo[o] = <<>>
  /\ \A o \in Thread : Has(r.todo[o], "complete") => Has(s.todo[o], "complete")
  /\ Pending(r) /\ ListsOK(s) =>
       /\ Has(r.proc_todo, "node") => Pending(s) /\ Has(s.proc_todo, "node")
       /\ \A o \in Thread \ {th} :
            Has(r.todo[o], "node") => Pending(s) /\ Has(s.todo[o], "node")

\* r is s with one more strong reference for h.
SentTo(r, s, h) ==
  /\ r \in NodeType /\ r.open = s.open /\ r.refused = s.refused /\ r.diverted = s.diverted
  /\ SameHeld(r, s) /\ SameFlags(r, s) /\ CountsOK(r) /\ FlagsOK(r)
  /\ SetAt(r.strong, s.strong, h, s.strong[h] + 1) /\ r.weak = s.weak

LEMMA NewNodeIs ==
  ASSUME NEW s \in NodeType, FlagsOK(s), CardOK(s), s.local_strong >= 0,
         NEW r, r = IF s.made THEN s ELSE NewNode(s)
  PROVE  r = [s EXCEPT !.made = TRUE]
<1>1. CASE s.made
  BY <1>1 DEF NodeType
<1>2. CASE ~s.made
  <2>1. ~Weak(s)
    BY <1>2 DEF FlagsOK
  <2>2. s.refs = {} /\ ~(s.local_weak > 0) /\ ~(s.internal_strong > 0) /\ ~(s.local_strong > 0)
    BY <2>1 DEF Weak, Strong
  <2>3. s.local_weak = 0
    <3>1. s.local_weak = 0 \/ s.local_weak = 1
      BY DEF FlagsOK, One
    <3> QED BY <2>2, <3>1
  <2>4. s.local_strong = 0
    <3>1. s.local_strong \in Int
      BY DEF NodeType
    <3> QED BY <2>2, <3>1
  <2>5. s.internal_strong = 0
    <3>1. {h \in s.refs : s.strong[h] > 0} = {}
      BY <2>2
    <3> QED BY <3>1, FS_EmptySet DEF CardOK
  <2>6. r = [s EXCEPT !.made = TRUE, !.internal_strong = 0, !.local_strong = 0, !.local_weak = 0]
    BY <1>2 DEF NewNode
  <2> QED BY <2>3, <2>4, <2>5, <2>6 DEF NodeType
<1> QED BY <1>1, <1>2 DEF NodeType

Moved(r, q, th) == r = [Unlisted(q) EXCEPT !.todo[th] = Append(@, "node")]

\* The first increment, when the owner's strong reference is not asked for yet.
LEMMA MoveIs ==
  ASSUME NEW q \in NodeType, NEW th \in Thread, q.todo[th] = <<>>,
         NEW r, Moved(r, q, th)
  PROVE  /\ r \in NodeType /\ r.made = q.made
         /\ SameCounts(r, q) /\ SameFlags(r, q) /\ SameLocal(r, q)
         /\ Occurs("call", r.proc_todo) = Occurs("call", q.proc_todo)
         /\ ListsOK(q) => ListsOK(r) /\ ~Has(r.proc_todo, "node")
                            /\ \A o \in Thread \ {th} : ~Has(r.todo[o], "node")
         /\ \A o \in Thread \ {th} : q.todo[o] = <<>> => r.todo[o] = <<>>
         /\ \A o \in Thread : Has(r.todo[o], "complete") => Has(q.todo[o], "complete")
         /\ OnList(r)
<1>0. PICK x : x = Unlisted(q)
  OBVIOUS
<1>1. /\ x \in NodeType
      /\ x.made = q.made
      /\ SameCounts(x, q) /\ SameFlags(x, q) /\ SameLocal(x, q)
      /\ SameLists(x, q)
      /\ ListsOK(q) => ~Somewhere(x)
  BY <1>0, UnlistedIs
<1>2. x.todo[th] = <<>> /\ x.todo \in [Thread -> Seq(Own)]
  BY <1>1 DEF SameLists, NodeType
<1>3. PICK l : l = Append(x.todo[th], "node")
  OBVIOUS
<1>4. l \in Seq(Own) /\ \A c : Has(l, c) <=> "node" = c
  <2>1. "node" \in Own /\ x.todo[th] \in Seq(Own)
    BY <1>2 DEF Own
  <2>2. l \in Seq(Own) /\ \A c : Has(l, c) <=> Has(x.todo[th], c) \/ "node" = c
    BY <1>3, <2>1, OccursAppend
  <2>3. \A c : ~Has(x.todo[th], c)
    BY <1>2, OccursNever
  <2> QED BY <2>2, <2>3
<1>5. PICK T \in [Thread -> Seq(Own)] : T = [x.todo EXCEPT ![th] = l]
  BY <1>2, <1>4
<1>6. r = [x EXCEPT !.todo = T]
  BY <1>0, <1>1, <1>3, <1>5 DEF NodeType, Moved
<1>7. /\ r \in NodeType /\ r.made = q.made /\ r.todo = T /\ r.proc_todo = x.proc_todo
      /\ SameCounts(r, q) /\ SameFlags(r, q) /\ SameLocal(r, q)
  BY <1>1, <1>6 DEF NodeType, SameCounts, SameFlags, SameLocal
<1>8. T[th] = l /\ \A o \in Thread \ {th} : T[o] = x.todo[o]
  BY <1>2, <1>5
<1>9. OnList(r)
  <2>1. Somewhere(r)
    BY <1>4, <1>7, <1>8 DEF Somewhere
  <2> QED BY <1>7, <2>1, OnListIs
<1>10. TodoOK(l)
  <2>1. l = <<"node">>
    BY <1>2, <1>3
  <2>2. DOMAIN l = {1} /\ l[1] = "node"
    BY <2>1
  <2> QED BY <2>2 DEF TodoOK
<1>11. ListsOK(q) => ListsOK(r)
  BY <1>1, <1>7, <1>8, <1>10 DEF ListsOK, SameLists
<1>12. ListsOK(q) => /\ ~Has(r.proc_todo, "node")
                     /\ \A o \in Thread \ {th} : ~Has(r.todo[o], "node")
  BY <1>1, <1>7, <1>8 DEF Somewhere
<1>13. /\ Occurs("call", r.proc_todo) = Occurs("call", q.proc_todo)
       /\ \A o \in Thread \ {th} : q.todo[o] = <<>> => r.todo[o] = <<>>
  BY <1>1, <1>7, <1>8 DEF SameLists
<1>14. \A o \in Thread : Has(r.todo[o], "complete") => Has(q.todo[o], "complete")
  <2>1. ASSUME NEW o \in Thread, Has(r.todo[o], "complete") PROVE Has(q.todo[o], "complete")
    <3>1. o # th
      BY <1>4, <1>7, <1>8, <2>1
    <3> QED BY <1>1, <1>7, <1>8, <2>1, <3>1 DEF SameLists
  <2> QED BY <2>1
<1> QED BY <1>7, <1>9, <1>11, <1>12, <1>13, <1>14

LEMMA PendingIs ==
  ASSUME NEW r, NEW s, Strong(r) <=> Strong(s), Weak(r) <=> Weak(s),
         r.has_strong = s.has_strong, r.has_weak = s.has_weak
  PROVE  Pending(r) <=> Pending(s)
BY DEF Pending

LEMMA TranslateIs ==
  ASSUME NEW s \in NodeType, NEW th \in Thread, NEW h \in Holder,
         FlagsOK(s), CountsOK(s), s.local_strong >= 0, s.todo[th] = <<>>,
         NEW r, r = TranslateBinder(s, th, h)
  PROVE  SentTo(r, s, h) /\ SentLists(r, s, th)
<1>1. PICK m : m = IF s.made THEN s ELSE NewNode(s)
  OBVIOUS
<1>2. m = [s EXCEPT !.made = TRUE]
  BY <1>1, NewNodeIs DEF CountsOK
<1>3. /\ m \in NodeType /\ m.made /\ m.todo = s.todo /\ m.proc_todo = s.proc_todo
      /\ SameCounts(m, s) /\ SameFlags(m, s) /\ SameLocal(m, s)
  BY <1>2 DEF NodeType, SameCounts, SameFlags, SameLocal
<1>4. Pending(m) <=> Pending(s)
  <2>1. (Strong(m) <=> Strong(s)) /\ (Weak(m) <=> Weak(s))
    BY <1>3 DEF Strong, Weak, SameCounts, SameLocal
  <2>2. m.has_strong = s.has_strong /\ m.has_weak = s.has_weak
    BY <1>3 DEF SameFlags
  <2> QED BY <2>1, <2>2, PendingIs
<1>5. FlagsOK(m) /\ CountsOK(m)
  <2>1. OnList(m) <=> OnList(s)
    BY <1>3 DEF OnList
  <2>2. CountsOK(m)
    BY <1>3 DEF CountsOK, CardOK, RefsOK, SameCounts
  <2> QED BY <1>3, <1>4, <2>1, <2>2 DEF FlagsOK, SameFlags, SameLocal
<1>6. SameLists(m, s) /\ (ListsOK(m) <=> ListsOK(s))
  BY <1>3 DEF SameLists, ListsOK
<1>7. r = IncRefStrong(GetRefForNode(m, h), h, th)
  BY <1>1 DEF TranslateBinder
<1>0. /\ m.refs \in SUBSET Holder /\ m.strong \in [Holder -> Nat]
      /\ m.weak \in [Holder -> Nat] /\ m.internal_strong \in Int
  BY <1>3 DEF NodeType
<1>8. m.strong = s.strong /\ m.weak = s.weak
  BY <1>3 DEF SameCounts
<1>9. CASE m.strong[h] > 0
  <2>1. h \in m.refs
    BY <1>0, <1>5, <1>9 DEF CountsOK, RefsOK
  <2>2. GetRefForNode(m, h) = m
    BY <1>3, <2>1 DEF GetRefForNode, NodeType
  <2>3. r = IncRefStrong(m, h, th)
    BY <1>7, <2>2
  <2>4. /\ Placed(r, m) /\ SameHeld(r, m) /\ CountsOK(r)
        /\ SetAt(r.strong, m.strong, h, m.strong[h] + 1) /\ r.weak = m.weak
        /\ FlagsOK(m) => Steady(r, m)
    BY <1>3, <1>5, <1>9, <2>3, IncRefStrongIs
  <2>5. Steady(r, m)
    BY <1>5, <2>4
  <2>6. SentTo(r, s, h)
    BY <1>3, <1>8, <2>4, <2>5 DEF SentTo, Placed, Steady, SameHeld, SameLocal, SameFlags
  <2>7. SentLists(r, s, th)
    BY <1>3, <1>4, <1>6, <2>4, <2>5 DEF SentLists, Placed, SameLists, Steady, Quiet
  <2> QED BY <2>6, <2>7
<1>10. CASE m.strong[h] = 0
  <2>1. PICK v \in Int : v = m.internal_strong + 1
    BY <1>0
  <2>2. PICK u : u = GetRefForNode(m, h)
    OBVIOUS
  <2>3. PICK R \in SUBSET Holder : R = m.refs \cup {h}
    BY <1>0
  <2>4. PICK f \in [Holder -> Nat] : f = [m.strong EXCEPT ![h] = 1]
    BY <1>0
  <2>5. PICK w : w = [u EXCEPT !.internal_strong = v]
    OBVIOUS
  <2>6. u = [m EXCEPT !.refs = R] /\ u.strong = m.strong /\ u.has_strong = m.has_strong
    BY <2>2, <2>3, <1>3 DEF GetRefForNode, NodeType
  <2>7. w = [m EXCEPT !.internal_strong = v, !.refs = R]
    BY <2>5, <2>6, <1>3 DEF NodeType
  <2>8. PICK q : q = [m EXCEPT !.internal_strong = v, !.refs = R, !.strong = f]
    OBVIOUS
  <2>9. FirstStrong(q, m, h, v)
    BY <1>0, <1>3, <2>3, <2>4, <2>8 DEF FirstStrong, NodeType
  <2>10. /\ Placed(q, m) /\ SameHeld(q, m) /\ CountsOK(q) /\ SameFlags(q, m)
         /\ q.made = m.made /\ q.todo = m.todo /\ q.proc_todo = m.proc_todo
         /\ SetAt(q.strong, m.strong, h, m.strong[h] + 1) /\ q.weak = m.weak
    <3>1. m \in NodeType /\ CountsOK(m) /\ m.strong[h] = 0 /\ v = m.internal_strong + 1
      BY <1>3, <1>5, <1>10, <2>1
    <3> QED BY <2>9, <3>1, FirstStrongIs
  <2>11. q \in NodeType
    BY <2>10, PlacedType
  <2>12. r = [IncNodeStrong(u, th) EXCEPT !.strong[h] = @ + 1]
    <3>1. ~(u.strong[h] > 0)
      BY <1>10, <2>6
    <3>2. r = IncRefStrong(u, h, th)
      BY <1>7, <2>2
    <3>3. ~RefusesStrong(u, th)
      BY RefsAssumption DEF RefusesStrong, NoList
    <3> QED BY <3>1, <3>2, <3>3, Zenon DEF IncRefStrong
  <2>13. [m.strong EXCEPT ![h] = m.strong[h] + 1] = f
    BY <1>0, <1>10, <2>4
  <2>14. q.local_weak = One(q.pending_weak)
    BY <1>5, <2>10 DEF FlagsOK, SameHeld, SameFlags
  <2>15. CASE m.has_strong
    <3>1. IncNodeStrong(u, th) = w
      BY <2>1, <2>5, <2>6, <2>15 DEF IncNodeStrong
    <3>2. w.strong = m.strong
      BY <1>3, <2>7 DEF NodeType
    <3>3. r = [w EXCEPT !.strong = f]
      BY <2>12, <2>13, <3>1, <3>2
    <3>4. r = q
      BY <1>3, <2>7, <2>8, <3>3 DEF NodeType
    <3>5. ~Pending(q)
      BY <1>5, <2>10, <2>15 DEF FlagsOK, Pending, SameFlags
    <3>6. FlagsOK(q)
      BY <1>3, <1>5, <2>10, <2>14, <3>5 DEF FlagsOK, SameFlags
    <3>7. SentTo(q, s, h)
      BY <1>3, <1>8, <2>10, <2>11, <3>6 DEF SentTo, Placed, SameHeld, SameLocal, SameFlags
    <3>8. SentLists(q, s, th)
      BY <1>3, <1>6, <2>10, <3>5 DEF SentLists, ListsOK
    <3> QED BY <3>4, <3>7, <3>8
  <2>16. CASE ~m.has_strong
    <3>1. th # NoList
      BY RefsAssumption DEF NoList
    <3>2. IncNodeStrong(u, th) = [Unlisted(w) EXCEPT !.todo[th] = Append(@, "node")]
      BY <2>1, <2>5, <2>6, <2>16, <3>1 DEF IncNodeStrong
    <3>3. PICK p : p = RemoveFirst(m.proc_todo, "node")
      OBVIOUS
    <3>4. PICK T : T = [o \in Thread |-> RemoveFirst(m.todo[o], "node")]
      OBVIOUS
    <3>5. Unlisted(w) = [w EXCEPT !.proc_todo = p, !.todo = T]
      <4>1. w.proc_todo = m.proc_todo /\ w.todo = m.todo
        BY <1>3, <2>7 DEF NodeType
      <4>2. Unlisted(w) = [w EXCEPT !.proc_todo = RemoveFirst(w.proc_todo, "node"),
                                    !.todo = [o \in Thread |-> RemoveFirst(w.todo[o], "node")]]
        BY DEF Unlisted
      <4> QED BY <3>3, <3>4, <4>1, <4>2
    <3>6. Unlisted(q) = [q EXCEPT !.proc_todo = p, !.todo = T]
      <4>1. Unlisted(q) = [q EXCEPT !.proc_todo = RemoveFirst(q.proc_todo, "node"),
                                    !.todo = [o \in Thread |-> RemoveFirst(q.todo[o], "node")]]
        BY DEF Unlisted
      <4> QED BY <2>10, <3>3, <3>4, <4>1
    <3>7. PICK L : L = [T EXCEPT ![th] = Append(T[th], "node")]
      OBVIOUS
    <3>8. PICK y : y = [m EXCEPT !.internal_strong = v, !.refs = R, !.proc_todo = p, !.todo = T]
      OBVIOUS
    <3>9. Unlisted(w) = y
      BY <1>3, <2>7, <3>5, <3>8 DEF NodeType
    <3>10. y.todo = T /\ y.strong = m.strong
      BY <1>3, <3>8 DEF NodeType
    <3>11. IncNodeStrong(u, th) = [y EXCEPT !.todo = L]
      BY <3>2, <3>7, <3>9, <3>10
    <3>12. r = [[y EXCEPT !.todo = L] EXCEPT !.strong = f]
      <4>1. PICK z : z = [y EXCEPT !.todo = L]
        OBVIOUS
      <4>2. z.strong = m.strong
        BY <1>3, <3>8, <4>1 DEF NodeType
      <4>3. r = [z EXCEPT !.strong = [m.strong EXCEPT ![h] = m.strong[h] + 1]]
        BY <2>12, <3>11, <4>1, <4>2
      <4> QED BY <2>13, <4>1, <4>3
    <3>13. Moved(r, q, th)
      <4>1. PICK x : x = Unlisted(q)
        OBVIOUS
      <4>2. x = [m EXCEPT !.internal_strong = v, !.refs = R, !.strong = f,
                          !.proc_todo = p, !.todo = T]
        BY <1>3, <2>8, <3>6, <4>1 DEF NodeType
      <4>3. x.todo = T
        BY <1>3, <4>2 DEF NodeType
      <4>4. r = [x EXCEPT !.todo = L]
        BY <1>3, <3>8, <3>12, <4>2 DEF NodeType
      <4> QED BY <3>7, <4>1, <4>3, <4>4 DEF Moved
    <3>14. q.todo[th] = <<>>
      BY <1>3, <2>10
    <3>15. /\ r \in NodeType /\ r.made = q.made
           /\ SameCounts(r, q) /\ SameFlags(r, q) /\ SameLocal(r, q)
           /\ Occurs("call", r.proc_todo) = Occurs("call", q.proc_todo)
           /\ ListsOK(q) => ListsOK(r) /\ ~Has(r.proc_todo, "node")
                              /\ \A o \in Thread \ {th} : ~Has(r.todo[o], "node")
           /\ \A o \in Thread \ {th} : q.todo[o] = <<>> => r.todo[o] = <<>>
           /\ \A o \in Thread : Has(r.todo[o], "complete") => Has(q.todo[o], "complete")
           /\ OnList(r)
      BY <2>11, <3>13, <3>14, MoveIs
    <3>16. FlagsOK(r)
      BY <1>3, <1>5, <2>10, <2>14, <3>15 DEF FlagsOK, SameFlags, SameLocal
    <3>17. CountsOK(r)
      BY <2>10, <3>15 DEF CountsOK, CardOK, RefsOK, SameCounts
    <3>18. SentTo(r, s, h)
      <4>1. r.open = s.open /\ r.refused = s.refused /\ r.diverted = s.diverted /\ SameHeld(r, s)
        BY <1>3, <2>10, <3>15 DEF SameLocal, SameHeld, Placed
      <4>2. SameFlags(r, s)
        BY <1>3, <2>10, <3>15 DEF SameFlags
      <4>3. SetAt(r.strong, s.strong, h, s.strong[h] + 1) /\ r.weak = s.weak
        BY <1>8, <2>10, <3>15 DEF SameCounts
      <4> QED BY <3>15, <3>16, <3>17, <4>1, <4>2, <4>3 DEF SentTo
    <3>19. SentLists(r, s, th)
      <4>1. ListsOK(q) <=> ListsOK(s)
        BY <1>3, <2>10 DEF ListsOK
      <4> QED BY <1>3, <2>10, <3>15, <4>1 DEF SentLists
    <3> QED BY <3>18, <3>19
  <2> QED BY <2>15, <2>16
<1>11. m.strong[h] \in Nat
  BY <1>0
<1>12. m.strong[h] = 0 \/ m.strong[h] > 0
  BY <1>11
<1> QED BY <1>9, <1>10, <1>12

-----------------------------------------------------------------------------
(* What the owner is told, and what it answers. *)

SameHas(r, s) == r.has_strong = s.has_strong /\ r.has_weak = s.has_weak
HeldForCalls(s) == s.local_strong - One(s.pending_strong)
SameCalls(r, s) == HeldForCalls(r) = HeldForCalls(s)

LEMMA AcquireDoneIs ==
  ASSUME NEW s \in NodeType, s.open, FlagsOK(s), NoRefs(s), NEW r, r = AcquireDone(s)
  PROVE  /\ Placed(r, s) /\ SameCounts(r, s) /\ SameHas(r, s) /\ SameCalls(r, s)
         /\ FlagsOK(r) /\ Quiet(r, s)
<1>1. CASE s.made /\ s.pending_strong
  <2>1. PICK u : u = [s EXCEPT !.pending_strong = FALSE]
    OBVIOUS
  <2>2. /\ u \in NodeType /\ u.todo = s.todo /\ u.proc_todo = s.proc_todo /\ u.made = s.made
        /\ u.has_strong = s.has_strong /\ u.has_weak = s.has_weak
        /\ ~u.pending_strong /\ u.pending_weak = s.pending_weak
        /\ SameCounts(u, s) /\ SameLocal(u, s)
    BY <2>1 DEF NodeType, SameCounts, SameLocal
  <2>3. (Weak(u) => Weak(s)) /\ (Strong(u) => Strong(s))
    BY <2>2 DEF Weak, Strong, SameCounts, SameLocal
  <2>4. u.local_weak = One(u.pending_weak)
    BY <2>2 DEF FlagsOK, SameLocal
  <2>5. FlagsOK(u) /\ Quiet(u, s)
    BY <2>2, <2>3, <2>4, LessIs
  <2>6. u.open /\ NoRefs(u)
    BY <2>2 DEF SameLocal, NoRefs, SameCounts
  <2>7. r = DecNodeStrongLocal(u)
    BY <1>1, <2>1 DEF AcquireDone
  <2>8. /\ Placed(r, u) /\ SameCounts(r, u)
        /\ r.local_strong = u.local_strong - 1 /\ r.local_weak = u.local_weak
        /\ Steady(r, u)
    BY <2>2, <2>5, <2>6, <2>7, DecStrongLocalIs
  <2>9. Placed(u, s)
    BY <2>2 DEF Placed, SameLists, ListsOK, SameLocal
  <2>10. Placed(r, s) /\ SameCounts(r, s) /\ SameHas(r, s)
    BY <2>2, <2>8, <2>9, PlacedMore DEF SameCounts, SameHas, Steady, SameFlags
  <2>11. Quiet(r, s) /\ FlagsOK(r)
    BY <2>5, <2>8 DEF Quiet, Steady
  <2>12. SameCalls(r, s)
    <3>1. One(s.pending_strong) = 1 /\ One(r.pending_strong) = 0
      BY <1>1, <2>2, <2>8 DEF One, Steady, SameFlags
    <3>2. r.local_strong = s.local_strong - 1 /\ s.local_strong \in Int
      BY <2>2, <2>8 DEF SameLocal, NodeType
    <3> QED BY <3>1, <3>2 DEF SameCalls, HeldForCalls
  <2> QED BY <2>10, <2>11, <2>12
<1>2. CASE ~(s.made /\ s.pending_strong)
  <2>1. r = s
    BY <1>2 DEF AcquireDone
  <2> QED BY <2>1 DEF Placed, SameLists, SameCounts, SameHas, SameCalls, Quiet
<1> QED BY <1>1, <1>2

LEMMA IncrefsDoneIs ==
  ASSUME NEW s \in NodeType, s.open, FlagsOK(s), NoRefs(s), NEW r, r = IncrefsDone(s)
  PROVE  /\ Placed(r, s) /\ SameCounts(r, s) /\ SameHas(r, s) /\ SameCalls(r, s)
         /\ FlagsOK(r) /\ Quiet(r, s)
<1>1. CASE s.made /\ s.pending_weak
  <2>0. PICK v \in Int : v = s.local_weak - 1
    BY DEF NodeType
  <2>1. PICK u : u = [s EXCEPT !.pending_weak = FALSE, !.local_weak = v]
    OBVIOUS
  <2>2. /\ u \in NodeType /\ u.todo = s.todo /\ u.proc_todo = s.proc_todo /\ u.made = s.made
        /\ u.has_strong = s.has_strong /\ u.has_weak = s.has_weak
        /\ ~u.pending_weak /\ u.pending_strong = s.pending_strong
        /\ SameCounts(u, s) /\ u.local_weak = v /\ u.local_strong = s.local_strong
        /\ u.open = s.open /\ u.refused = s.refused /\ u.diverted = s.diverted
    BY <2>0, <2>1 DEF NodeType, SameCounts
  <2>3. s.local_weak = 1 /\ v = 0
    BY <1>1, <2>0 DEF FlagsOK, One
  <2>4. (Weak(u) => Weak(s)) /\ (Strong(u) => Strong(s))
    BY <2>2, <2>3 DEF Weak, Strong, SameCounts
  <2>5. u.local_weak = One(u.pending_weak)
    BY <2>2, <2>3 DEF One
  <2>6. FlagsOK(u) /\ Quiet(u, s)
    <3>1. u.pending_strong => s.pending_strong
      BY <2>2
    <3>2. u.pending_weak => s.pending_weak
      BY <2>2
    <3> QED BY <2>2, <2>4, <2>5, <3>1, <3>2, LessIs
  <2>7. u.open /\ NoRefs(u)
    BY <2>2 DEF NoRefs, SameCounts
  <2>8. r = IF u.local_weak > 0 \/ u.refs # {} THEN u ELSE NodeUnused(u)
    <3>1. PICK t : t = [s EXCEPT !.pending_weak = FALSE]
      OBVIOUS
    <3>2. t.local_weak = s.local_weak
      BY <3>1 DEF NodeType
    <3>3. [t EXCEPT !.local_weak = @ - 1] = u
      BY <2>0, <2>1, <3>1, <3>2 DEF NodeType
    <3>4. r = DecNodeWeakLocal(t)
      BY <1>1, <3>1 DEF IncrefsDone
    <3> QED BY <3>3, <3>4 DEF DecNodeWeakLocal
  <2>9. Placed(r, u) /\ SameCounts(r, u) /\ SameHeld(r, u) /\ Steady(r, u)
    <3>1. CASE r = u
      BY <2>2, <2>6, <3>1 DEF Placed, SameLists, SameCounts, SameHeld, Steady, SameFlags, Quiet
    <3>2. CASE r = NodeUnused(u)
      BY <2>2, <2>6, <2>7, <3>2, UnusedPlaced, UnusedSteady
    <3> QED BY <2>8, <3>1, <3>2
  <2>10. Placed(u, s)
    BY <2>2 DEF Placed, SameLists, ListsOK
  <2>11. Placed(r, s) /\ SameCounts(r, s) /\ SameHas(r, s)
    BY <2>2, <2>9, <2>10, PlacedMore DEF SameCounts, SameHas, Steady, SameFlags
  <2>12. Quiet(r, s) /\ FlagsOK(r)
    BY <2>6, <2>9 DEF Quiet, Steady
  <2>13. SameCalls(r, s)
    BY <2>2, <2>9 DEF SameCalls, HeldForCalls, SameHeld, Steady, SameFlags
  <2> QED BY <2>11, <2>12, <2>13
<1>2. CASE ~(s.made /\ s.pending_weak)
  <2>1. r = s
    BY <1>2 DEF IncrefsDone
  <2> QED BY <2>1 DEF Placed, SameLists, SameCounts, SameHas, SameCalls, Quiet
<1> QED BY <1>1, <1>2

\* One piece of news at a time, and which.
Tells(w, s) ==
  \/ w.cmd = <<>> /\ SameHas(w.s, s)
  \/ /\ w.cmd = <<"INCREFS">> /\ Pending(s)
     /\ ~s.has_weak /\ w.s.has_weak /\ w.s.has_strong = s.has_strong
  \/ /\ w.cmd = <<"ACQUIRE">> /\ Pending(s)
     /\ ~s.has_strong /\ w.s.has_strong /\ w.s.has_weak = s.has_weak
  \/ /\ w.cmd = <<"RELEASE">>
     /\ s.has_strong /\ ~w.s.has_strong /\ w.s.has_weak = s.has_weak
  \/ /\ w.cmd = <<"DECREFS">>
     /\ s.has_weak /\ ~w.s.has_weak /\ w.s.has_strong = s.has_strong

Works(r, s) ==
  /\ Placed(r, s) /\ SameCounts(r, s) /\ SameCalls(r, s) /\ FlagsOK(r) /\ Quiet(r, s)

LEMMA NodeWorkIs ==
  ASSUME NEW s \in NodeType, s.open, FlagsOK(s), NoRefs(s),
         s.local_strong >= One(s.pending_strong), NEW w, w = NodeWork(s)
  PROVE  Tells(w, s) /\ Works(w.s, s)
<1>0. /\ s.local_strong \in Int /\ s.local_weak \in Int /\ s.internal_strong \in Int
      /\ s.has_strong \in BOOLEAN /\ s.has_weak \in BOOLEAN
      /\ s.pending_strong \in BOOLEAN /\ s.pending_weak \in BOOLEAN
  BY DEF NodeType
<1>a. Strong(s) => Weak(s)
  BY DEF Weak
<1>1. CASE Weak(s) /\ ~s.has_weak
  <2>0. PICK v \in Int : v = s.local_weak + 1
    BY <1>0
  <2>1. PICK r : r = [s EXCEPT !.has_weak = TRUE, !.pending_weak = TRUE, !.local_weak = v]
    OBVIOUS
  <2>2. w = [cmd |-> <<"INCREFS">>, s |-> r]
    BY <1>1, <2>0, <2>1 DEF NodeWork, Told
  <2>3. /\ r \in NodeType /\ r.todo = s.todo /\ r.proc_todo = s.proc_todo /\ r.made = s.made
        /\ r.has_strong = s.has_strong /\ r.has_weak
        /\ r.pending_weak /\ r.pending_strong = s.pending_strong
        /\ SameCounts(r, s) /\ r.local_weak = v /\ r.local_strong = s.local_strong
        /\ r.open = s.open /\ r.refused = s.refused /\ r.diverted = s.diverted
    BY <2>0, <2>1 DEF NodeType, SameCounts
  <2>4. Placed(r, s)
    BY <2>3 DEF Placed, SameLists, ListsOK
  <2>5. SameCalls(r, s)
    BY <2>3 DEF SameCalls, HeldForCalls
  <2>6. Pending(s)
    BY <1>1 DEF Pending
  <2>7. OnList(s) /\ s.made
    BY <1>1, <2>6 DEF FlagsOK
  <2>8. OnList(r)
    BY <2>3, <2>7 DEF OnList
  <2>9. ~s.pending_weak
    BY <1>1 DEF FlagsOK
  <2>10. s.local_weak = 0
    BY <2>9 DEF FlagsOK, One
  <2>11. r.local_weak = One(r.pending_weak)
    BY <2>0, <2>3, <2>10 DEF One
  <2>12. FlagsOK(r)
    BY <2>3, <2>7, <2>8, <2>11 DEF FlagsOK
  <2>13. Quiet(r, s)
    BY <2>3, <2>6, <2>8 DEF Quiet
  <2>14. w.cmd = <<"INCREFS">> /\ w.s = r
    BY <2>2
  <2>15. Tells(w, s)
    BY <1>1, <2>3, <2>6, <2>14 DEF Tells
  <2> QED BY <2>3, <2>4, <2>5, <2>12, <2>13, <2>14, <2>15 DEF Works
<1>2. CASE ~(Weak(s) /\ ~s.has_weak) /\ Strong(s) /\ ~s.has_strong
  <2>0. PICK v \in Int : v = s.local_strong + 1
    BY <1>0
  <2>1. PICK r : r = [s EXCEPT !.has_strong = TRUE, !.pending_strong = TRUE, !.local_strong = v]
    OBVIOUS
  <2>2. w = [cmd |-> <<"ACQUIRE">>, s |-> r]
    BY <1>2, <2>0, <2>1 DEF NodeWork, Told
  <2>3. /\ r \in NodeType /\ r.todo = s.todo /\ r.proc_todo = s.proc_todo /\ r.made = s.made
        /\ r.has_weak = s.has_weak /\ r.has_strong
        /\ r.pending_strong /\ r.pending_weak = s.pending_weak
        /\ SameCounts(r, s) /\ r.local_strong = v /\ r.local_weak = s.local_weak
        /\ r.open = s.open /\ r.refused = s.refused /\ r.diverted = s.diverted
    BY <2>0, <2>1 DEF NodeType, SameCounts
  <2>4. Placed(r, s)
    BY <2>3 DEF Placed, SameLists, ListsOK
  <2>5. ~s.pending_strong
    BY <1>2 DEF FlagsOK
  <2>6. SameCalls(r, s)
    <3>1. One(r.pending_strong) = 1 /\ One(s.pending_strong) = 0
      BY <2>3, <2>5 DEF One
    <3>2. r.local_strong - 1 = s.local_strong - 0
      BY <1>0, <2>0, <2>3
    <3> QED BY <3>1, <3>2 DEF SameCalls, HeldForCalls
  <2>7. Pending(s)
    BY <1>2 DEF Pending
  <2>8. OnList(s) /\ s.made /\ s.has_weak
    BY <1>2, <1>a, <2>7 DEF FlagsOK
  <2>9. OnList(r)
    BY <2>3, <2>8 DEF OnList
  <2>10. r.local_weak = One(r.pending_weak)
    BY <2>3 DEF FlagsOK
  <2>11. FlagsOK(r)
    BY <2>3, <2>8, <2>9, <2>10 DEF FlagsOK
  <2>12. Quiet(r, s)
    BY <2>3, <2>7, <2>9 DEF Quiet
  <2>13. w.cmd = <<"ACQUIRE">> /\ w.s = r
    BY <2>2
  <2>14. Tells(w, s)
    BY <1>2, <2>3, <2>7, <2>13 DEF Tells
  <2> QED BY <2>3, <2>4, <2>6, <2>11, <2>12, <2>13, <2>14 DEF Works
<1>3. CASE ~(Weak(s) /\ ~s.has_weak) /\ ~Strong(s) /\ s.has_strong
  <2>1. PICK r : r = [s EXCEPT !.has_strong = FALSE]
    OBVIOUS
  <2>2. w = [cmd |-> <<"RELEASE">>, s |-> r]
    BY <1>3, <2>1 DEF NodeWork, Told
  <2>3. /\ r \in NodeType /\ r.todo = s.todo /\ r.proc_todo = s.proc_todo /\ r.made = s.made
        /\ r.has_weak = s.has_weak /\ ~r.has_strong
        /\ r.pending_strong = s.pending_strong /\ r.pending_weak = s.pending_weak
        /\ SameCounts(r, s) /\ SameLocal(r, s)
    BY <2>1 DEF NodeType, SameCounts, SameLocal
  <2>4. Placed(r, s)
    BY <2>3 DEF Placed, SameLists, ListsOK, SameLocal
  <2>5. SameCalls(r, s)
    BY <2>3 DEF SameCalls, HeldForCalls, SameLocal
  <2>6. ~s.pending_strong
    <3>1. ~(s.local_strong > 0)
      BY <1>3 DEF Strong
    <3>2. One(s.pending_strong) # 1
      BY <1>0, <3>1
    <3> QED BY <1>0, <3>2 DEF One
  <2>7. s.has_weak
    BY <1>3 DEF FlagsOK
  <2>8. (Strong(r) <=> Strong(s)) /\ (Weak(r) <=> Weak(s))
    BY <2>3 DEF Strong, Weak, SameCounts, SameLocal
  <2>9. ~Pending(r)
    BY <1>3, <2>3, <2>7, <2>8 DEF Pending
  <2>10. FlagsOK(r)
    BY <2>3, <2>6, <2>8, <2>9 DEF FlagsOK, SameLocal
  <2>11. w.cmd = <<"RELEASE">> /\ w.s = r
    BY <2>2
  <2>12. Tells(w, s)
    BY <1>3, <2>3, <2>11 DEF Tells
  <2> QED BY <2>4, <2>5, <2>9, <2>10, <2>11, <2>12, <2>3 DEF Works, Quiet
<1>4. CASE /\ ~(Weak(s) /\ ~s.has_weak) /\ ~(Strong(s) /\ ~s.has_strong)
           /\ ~(~Strong(s) /\ s.has_strong) /\ ~Weak(s) /\ s.has_weak
  <2>1. PICK r : r = [s EXCEPT !.has_weak = FALSE]
    OBVIOUS
  <2>2. w = [cmd |-> <<"DECREFS">>, s |-> r]
    BY <1>4, <2>1 DEF NodeWork, Told
  <2>3. /\ r \in NodeType /\ r.todo = s.todo /\ r.proc_todo = s.proc_todo /\ r.made = s.made
        /\ r.has_strong = s.has_strong /\ ~r.has_weak
        /\ r.pending_strong = s.pending_strong /\ r.pending_weak = s.pending_weak
        /\ SameCounts(r, s) /\ SameLocal(r, s)
    BY <2>1 DEF NodeType, SameCounts, SameLocal
  <2>4. Placed(r, s)
    BY <2>3 DEF Placed, SameLists, ListsOK, SameLocal
  <2>5. SameCalls(r, s)
    BY <2>3 DEF SameCalls, HeldForCalls, SameLocal
  <2>6. ~s.pending_weak
    <3>1. ~(s.local_weak > 0)
      BY <1>4 DEF Weak
    <3>2. One(s.pending_weak) # 1
      BY <1>0, <3>1 DEF FlagsOK
    <3> QED BY <1>0, <3>2 DEF One
  <2>7. ~s.has_strong
    BY <1>4, <1>a
  <2>8. (Strong(r) <=> Strong(s)) /\ (Weak(r) <=> Weak(s))
    BY <2>3 DEF Strong, Weak, SameCounts, SameLocal
  <2>9. ~Pending(r)
    BY <1>4, <1>a, <2>8 DEF Pending
  <2>10. FlagsOK(r)
    BY <1>4, <2>3, <2>6, <2>7, <2>8, <2>9 DEF FlagsOK, SameLocal
  <2>11. w.cmd = <<"DECREFS">> /\ w.s = r
    BY <2>2
  <2>12. Tells(w, s)
    BY <1>4, <2>3, <2>11 DEF Tells
  <2> QED BY <2>4, <2>5, <2>9, <2>10, <2>11, <2>12, <2>3 DEF Works, Quiet
<1>5. CASE /\ ~(Weak(s) /\ ~s.has_weak) /\ ~(Strong(s) /\ ~s.has_strong)
           /\ ~(~Strong(s) /\ s.has_strong) /\ ~(~Weak(s) /\ s.has_weak)
  <2>1. PICK r : r = IF Weak(s) THEN Unlisted(s) ELSE Freed(s)
    OBVIOUS
  <2>2. w = [cmd |-> <<>>, s |-> r]
    BY <1>5, <2>1 DEF NodeWork
  <2>3. ~Pending(s)
    BY <1>5 DEF Pending
  <2>4. /\ r \in NodeType /\ SameCounts(r, s) /\ SameLocal(r, s) /\ SameLists(r, s)
        /\ SameFlags(r, s) /\ (r.made <=> s.made /\ Weak(s))
    <3>1. CASE Weak(s)
      BY <2>1, <3>1, UnlistedIs
    <3>2. CASE ~Weak(s)
      <4>1. r = Freed(s)
        BY <2>1, <3>2
      <4>2. ~s.has_strong /\ ~s.has_weak
        BY <1>5, <1>a, <3>2
      <4>3. ~s.pending_strong /\ ~s.pending_weak
        BY <4>2 DEF FlagsOK
      <4>4. /\ r \in NodeType
            /\ SameCounts(r, s) /\ SameLocal(r, s) /\ SameLists(r, s)
            /\ ~r.made
            /\ ~r.has_strong /\ ~r.has_weak
            /\ ~r.pending_strong /\ ~r.pending_weak
        BY <4>1, FreedIs
      <4>5. SameFlags(r, s)
        BY <4>2, <4>3, <4>4 DEF SameFlags, NodeType
      <4> QED BY <3>2, <4>4, <4>5
    <3> QED BY <3>1, <3>2
  <2>5. (Strong(r) <=> Strong(s)) /\ (Weak(r) <=> Weak(s))
    BY <2>4 DEF Strong, Weak, SameCounts, SameLocal
  <2>6. ~Pending(r)
    BY <2>3, <2>4, <2>5, PendingIs DEF SameFlags
  <2>7. FlagsOK(r)
    <3>1. ~r.made => ~Weak(r) /\ ~r.has_weak
      BY <1>5, <2>4, <2>5 DEF FlagsOK, SameFlags
    <3> QED BY <2>4, <2>6, <3>1 DEF FlagsOK, SameFlags, SameLocal
  <2>8. Placed(r, s) /\ SameCalls(r, s) /\ SameHas(r, s)
    BY <2>4 DEF Placed, SameLocal, SameCalls, HeldForCalls, SameFlags, SameHas
  <2>9. w.cmd = <<>> /\ w.s = r
    BY <2>2
  <2> QED BY <2>4, <2>6, <2>7, <2>8, <2>9 DEF Tells, Works, Quiet
<1> QED BY <1>1, <1>2, <1>3, <1>4, <1>5

-----------------------------------------------------------------------------
(* The owner's threads, and the sums over them. *)

Returns == {"INCREFS", "ACQUIRE", "RELEASE", "DECREFS", "COMPLETE", "CALL"}
Answers == {"INCREFS_DONE", "ACQUIRE_DONE", "FREE"}
ThreadType == [doing : {"loop", "send", "failed", "call"}, in : Seq(Returns), out : Seq(Answers),
               weakDerefs : Nat, strongDerefs : Nat]
ObjectType == [alive : BOOLEAN, app : BOOLEAN, strong : Int, weak : Int, misused : BOOLEAN]

CallsOf(t)  == Occurs("CALL", t.in) + Occurs("FREE", t.out) + One(t.doing = "call")
StrongOf(t) == Occurs("RELEASE", t.in) + t.strongDerefs - Occurs("ACQUIRE", t.in)
WeakOf(t)   == Occurs("DECREFS", t.in) + t.weakDerefs - Occurs("INCREFS", t.in)

Calls(T)   == SumFunction([th \in Thread |-> CallsOf(T[th])])
Strongs(T) == SumFunction([th \in Thread |-> StrongOf(T[th])])
Weaks(T)   == SumFunction([th \in Thread |-> WeakOf(T[th])])

\* t became u: its calls, and what the object gets from it, changed by these.
Moves(t, u, a, b, c) ==
  CallsOf(u) = CallsOf(t) + a /\ StrongOf(u) = StrongOf(t) + b /\ WeakOf(u) = WeakOf(t) + c

LEMMA OneType ==
  ASSUME NEW b
  PROVE  One(b) \in Nat /\ (One(b) = 0 \/ One(b) = 1)
BY DEF One

LEMMA OfType ==
  ASSUME NEW t \in ThreadType
  PROVE  CallsOf(t) \in Nat /\ StrongOf(t) \in Int /\ WeakOf(t) \in Int
<1>1. /\ t.in \in Seq(Returns) /\ t.out \in Seq(Answers)
      /\ t.weakDerefs \in Nat /\ t.strongDerefs \in Nat
  BY DEF ThreadType
<1>2. \A c : Occurs(c, t.in) \in Nat /\ Occurs(c, t.out) \in Nat
  BY <1>1, OccursType DEF OccursIs
<1>3. One(t.doing = "call") \in Nat
  BY OneType
<1>4. CallsOf(t) \in Nat
  <2>1. Occurs("CALL", t.in) \in Nat /\ Occurs("FREE", t.out) \in Nat
    BY <1>2
  <2> QED BY <1>3, <2>1 DEF CallsOf
<1>5. StrongOf(t) \in Int
  <2>1. Occurs("RELEASE", t.in) \in Nat /\ Occurs("ACQUIRE", t.in) \in Nat
    BY <1>2
  <2> QED BY <1>1, <2>1 DEF StrongOf
<1>6. WeakOf(t) \in Int
  <2>1. Occurs("DECREFS", t.in) \in Nat /\ Occurs("INCREFS", t.in) \in Nat
    BY <1>2
  <2> QED BY <1>1, <2>1 DEF WeakOf
<1> QED BY <1>4, <1>5, <1>6

LEMMA CallsMove ==
  ASSUME NEW T \in [Thread -> ThreadType], NEW U \in [Thread -> ThreadType], NEW th \in Thread,
         \A o \in Thread \ {th} : U[o] = T[o]
  PROVE  /\ Calls(T) \in Nat /\ Strongs(T) \in Int /\ Weaks(T) \in Int
         /\ Calls(U) - Calls(T) = CallsOf(U[th]) - CallsOf(T[th]) /\ Calls(U) \in Nat
         /\ Strongs(U) - Strongs(T) = StrongOf(U[th]) - StrongOf(T[th]) /\ Strongs(U) \in Int
         /\ Weaks(U) - Weaks(T) = WeakOf(U[th]) - WeakOf(T[th]) /\ Weaks(U) \in Int
<1>0. IsFiniteSet(Thread)
  BY RefsAssumption
<1>1. /\ Calls(T) \in Nat /\ Calls(U) \in Nat
      /\ Calls(U) - Calls(T) = CallsOf(U[th]) - CallsOf(T[th])
  <2>1. PICK f : f = [o \in Thread |-> CallsOf(T[o])]
    OBVIOUS
  <2>2. PICK k : k = [o \in Thread |-> CallsOf(U[o])]
    OBVIOUS
  <2>3. f \in [Thread -> Nat] /\ k \in [Thread -> Nat]
    BY <2>1, <2>2, OfType
  <2>4. f \in [Thread -> Int] /\ k \in [Thread -> Int]
    BY <2>3
  <2>5. \A o \in Thread \ {th} : f[o] = k[o]
    BY <2>1, <2>2
  <2>6. SumMoves(f, k, th)
    BY <1>0, <2>4, <2>5, SumChanges
  <2>7. SumFunction(f) \in Nat /\ SumFunction(k) \in Nat
    BY <1>0, <2>3, SumCovers
  <2>8. Calls(T) = SumFunction(f) /\ Calls(U) = SumFunction(k)
    BY <2>1, <2>2 DEF Calls
  <2>9. f[th] = CallsOf(T[th]) /\ k[th] = CallsOf(U[th])
    BY <2>1, <2>2
  <2> QED BY <2>6, <2>7, <2>8, <2>9 DEF SumMoves
<1>2. /\ Strongs(T) \in Int /\ Strongs(U) \in Int
      /\ Strongs(U) - Strongs(T) = StrongOf(U[th]) - StrongOf(T[th])
  <2>1. PICK f : f = [o \in Thread |-> StrongOf(T[o])]
    OBVIOUS
  <2>2. PICK k : k = [o \in Thread |-> StrongOf(U[o])]
    OBVIOUS
  <2>3. f \in [Thread -> Int] /\ k \in [Thread -> Int]
    BY <2>1, <2>2, OfType
  <2>5. \A o \in Thread \ {th} : f[o] = k[o]
    BY <2>1, <2>2
  <2>6. SumMoves(f, k, th)
    BY <1>0, <2>3, <2>5, SumChanges
  <2>8. Strongs(T) = SumFunction(f) /\ Strongs(U) = SumFunction(k)
    BY <2>1, <2>2 DEF Strongs
  <2>9. f[th] = StrongOf(T[th]) /\ k[th] = StrongOf(U[th])
    BY <2>1, <2>2
  <2> QED BY <2>6, <2>8, <2>9 DEF SumMoves
<1>3. /\ Weaks(T) \in Int /\ Weaks(U) \in Int
      /\ Weaks(U) - Weaks(T) = WeakOf(U[th]) - WeakOf(T[th])
  <2>1. PICK f : f = [o \in Thread |-> WeakOf(T[o])]
    OBVIOUS
  <2>2. PICK k : k = [o \in Thread |-> WeakOf(U[o])]
    OBVIOUS
  <2>3. f \in [Thread -> Int] /\ k \in [Thread -> Int]
    BY <2>1, <2>2, OfType
  <2>5. \A o \in Thread \ {th} : f[o] = k[o]
    BY <2>1, <2>2
  <2>6. SumMoves(f, k, th)
    BY <1>0, <2>3, <2>5, SumChanges
  <2>8. Weaks(T) = SumFunction(f) /\ Weaks(U) = SumFunction(k)
    BY <2>1, <2>2 DEF Weaks
  <2>9. f[th] = WeakOf(T[th]) /\ k[th] = WeakOf(U[th])
    BY <2>1, <2>2
  <2> QED BY <2>6, <2>8, <2>9 DEF SumMoves
<1> QED BY <1>1, <1>2, <1>3

LEMMA CallsCover ==
  ASSUME NEW T \in [Thread -> ThreadType], NEW th \in Thread
  PROVE  Calls(T) \in Nat /\ Calls(T) >= CallsOf(T[th])
<1>1. PICK f : f = [o \in Thread |-> CallsOf(T[o])]
  OBVIOUS
<1>2. f \in [Thread -> Nat]
  BY <1>1, OfType
<1>3. SumFunction(f) \in Nat /\ SumFunction(f) >= f[th]
  BY <1>2, RefsAssumption, SumCovers
<1>4. Calls(T) = SumFunction(f) /\ f[th] = CallsOf(T[th])
  BY <1>1 DEF Calls
<1> QED BY <1>3, <1>4

\* The counts of calls, and of what the object has been given.
SumsOK(n, o, T) ==
  /\ HeldForCalls(n) = Occurs("call", n.proc_todo) + Calls(T)
  /\ o.strong = One(n.has_strong) + Strongs(T)
  /\ o.weak = One(n.has_weak) + Weaks(T)

\* From one state to the next, with a, b and c the changes in thread th.
Balances(n, o, m, p, a, b, c) ==
  /\ HeldForCalls(m) - Occurs("call", m.proc_todo)
       = HeldForCalls(n) - Occurs("call", n.proc_todo) + a
  /\ p.strong - One(m.has_strong) = o.strong - One(n.has_strong) + b
  /\ p.weak - One(m.has_weak) = o.weak - One(n.has_weak) + c

LEMMA SumsKept ==
  ASSUME NEW T \in [Thread -> ThreadType], NEW U \in [Thread -> ThreadType], NEW th \in Thread,
         \A o \in Thread \ {th} : U[o] = T[o],
         NEW n \in NodeType, NEW m \in NodeType, NEW o \in ObjectType, NEW p \in ObjectType,
         SumsOK(n, o, T),
         NEW a \in Int, NEW b \in Int, NEW c \in Int,
         Moves(T[th], U[th], a, b, c), Balances(n, o, m, p, a, b, c)
  PROVE  SumsOK(m, p, U)
<1>1. /\ Calls(T) \in Nat /\ Strongs(T) \in Int /\ Weaks(T) \in Int
      /\ Calls(U) - Calls(T) = CallsOf(U[th]) - CallsOf(T[th]) /\ Calls(U) \in Nat
      /\ Strongs(U) - Strongs(T) = StrongOf(U[th]) - StrongOf(T[th]) /\ Strongs(U) \in Int
      /\ Weaks(U) - Weaks(T) = WeakOf(U[th]) - WeakOf(T[th]) /\ Weaks(U) \in Int
  BY CallsMove
<1>2. /\ CallsOf(T[th]) \in Nat /\ StrongOf(T[th]) \in Int /\ WeakOf(T[th]) \in Int
  BY OfType
<1>3. /\ Calls(U) = Calls(T) + a /\ Strongs(U) = Strongs(T) + b /\ Weaks(U) = Weaks(T) + c
  BY <1>1, <1>2 DEF Moves
<1>4. ASSUME NEW x \in NodeType
      PROVE  /\ HeldForCalls(x) \in Int /\ Occurs("call", x.proc_todo) \in Nat
             /\ One(x.has_strong) \in Nat /\ One(x.has_weak) \in Nat
  <2>1. x.local_strong \in Int /\ x.proc_todo \in Seq(Common)
    BY DEF NodeType
  <2>2. One(x.pending_strong) \in Nat
    BY OneType
  <2> QED BY <2>1, <2>2, OneType, OccursType DEF HeldForCalls, OccursIs
<1>5. o.strong \in Int /\ o.weak \in Int /\ p.strong \in Int /\ p.weak \in Int
  BY DEF ObjectType
<1>6. HeldForCalls(m) = Occurs("call", m.proc_todo) + Calls(U)
  <2>1. PICK x \in Int : x = HeldForCalls(m)
    BY <1>4
  <2>2. PICK y \in Int : y = Occurs("call", m.proc_todo)
    BY <1>4
  <2>3. PICK z \in Int : z = HeldForCalls(n)
    BY <1>4
  <2>4. PICK k \in Int : k = Occurs("call", n.proc_todo)
    BY <1>4
  <2>5. PICK d \in Int : d = Calls(T)
    BY <1>1
  <2>6. x - y = z - k + a /\ z = k + d /\ Calls(U) = d + a
    BY <1>3, <2>1, <2>2, <2>3, <2>4, <2>5 DEF Balances, SumsOK
  <2>7. x = y + Calls(U)
    BY <1>1, <2>6
  <2> QED BY <2>1, <2>2, <2>7
<1>7. p.strong = One(m.has_strong) + Strongs(U)
  <2>1. PICK x \in Int : x = p.strong
    BY <1>5
  <2>2. PICK y \in Int : y = One(m.has_strong)
    BY <1>4
  <2>3. PICK z \in Int : z = o.strong
    BY <1>5
  <2>4. PICK k \in Int : k = One(n.has_strong)
    BY <1>4
  <2>5. PICK d \in Int : d = Strongs(T)
    BY <1>1
  <2>6. x - y = z - k + b /\ z = k + d /\ Strongs(U) = d + b
    BY <1>3, <2>1, <2>2, <2>3, <2>4, <2>5 DEF Balances, SumsOK
  <2>7. x = y + Strongs(U)
    BY <1>1, <2>6
  <2> QED BY <2>1, <2>2, <2>7
<1>8. p.weak = One(m.has_weak) + Weaks(U)
  <2>1. PICK x \in Int : x = p.weak
    BY <1>5
  <2>2. PICK y \in Int : y = One(m.has_weak)
    BY <1>4
  <2>3. PICK z \in Int : z = o.weak
    BY <1>5
  <2>4. PICK k \in Int : k = One(n.has_weak)
    BY <1>4
  <2>5. PICK d \in Int : d = Weaks(T)
    BY <1>1
  <2>6. x - y = z - k + c /\ z = k + d /\ Weaks(U) = d + c
    BY <1>3, <2>1, <2>2, <2>3, <2>4, <2>5 DEF Balances, SumsOK
  <2>7. x = y + Weaks(U)
    BY <1>1, <2>6
  <2> QED BY <2>1, <2>2, <2>7
<1> QED BY <1>6, <1>7, <1>8 DEF SumsOK

-----------------------------------------------------------------------------
(* What a thread's step does to its sums. *)

LEMMA InTailIs ==
  ASSUME NEW t \in ThreadType, t.in # <<>>, NEW u, u = [t EXCEPT !.in = Tail(@)]
  PROVE  /\ u \in ThreadType /\ Head(t.in) \in Returns
         /\ Head(t.in) = "CALL" => Moves(t, u, 0 - 1, 0, 0)
         /\ Head(t.in) = "RELEASE" => Moves(t, u, 0, 0 - 1, 0)
         /\ Head(t.in) = "ACQUIRE" => Moves(t, u, 0, 1, 0)
         /\ Head(t.in) = "DECREFS" => Moves(t, u, 0, 0, 0 - 1)
         /\ Head(t.in) = "INCREFS" => Moves(t, u, 0, 0, 1)
         /\ Head(t.in) = "COMPLETE" => Moves(t, u, 0, 0, 0)
         /\ \A c : Has(u.in, c) => Has(t.in, c)
<1>1. /\ t.in \in Seq(Returns) /\ t.out \in Seq(Answers)
      /\ t.weakDerefs \in Nat /\ t.strongDerefs \in Nat
  BY DEF ThreadType
<1>2. PICK l : l = Tail(t.in)
  OBVIOUS
<1>3. l \in Seq(Returns) /\ Head(t.in) \in Returns
  BY <1>1, <1>2
<1>4. \A c : More(l, t.in, c, Head(t.in) = c) /\ (Has(t.in, c) <=> Has(l, c) \/ Head(t.in) = c)
  BY <1>1, <1>2, OccursTail
<1>5. /\ u \in ThreadType /\ u.in = l /\ u.out = t.out /\ u.doing = t.doing
      /\ u.weakDerefs = t.weakDerefs /\ u.strongDerefs = t.strongDerefs
  BY <1>2, <1>3 DEF ThreadType
<1>6. \A c : Occurs(c, t.in) = Occurs(c, l) + One(Head(t.in) = c)
  BY <1>4 DEF More
<1>7. \A c : Occurs(c, l) \in Nat /\ Occurs(c, t.out) \in Nat
  BY <1>1, <1>3, OccursType DEF OccursIs
<1>8. One(t.doing = "call") \in Nat
  BY OneType
<1>9. PICK A \in Nat : A = Occurs("ACQUIRE", l)
  BY <1>7
<1>10. PICK R \in Nat : R = Occurs("RELEASE", l)
  BY <1>7
<1>11. PICK I \in Nat : I = Occurs("INCREFS", l)
  BY <1>7
<1>12. PICK D \in Nat : D = Occurs("DECREFS", l)
  BY <1>7
<1>13. PICK C \in Nat : C = Occurs("CALL", l)
  BY <1>7
<1>14. PICK F \in Nat : F = Occurs("FREE", t.out) + One(t.doing = "call")
  BY <1>7, <1>8
<1>15. PICK x \in Nat : x = t.strongDerefs
  BY <1>1
<1>16. PICK y \in Nat : y = t.weakDerefs
  BY <1>1
<1>17. CallsOf(u) = C + F /\ StrongOf(u) = R + x - A /\ WeakOf(u) = D + y - I
  <2>1. CallsOf(u) = C + Occurs("FREE", t.out) + One(t.doing = "call")
    BY <1>5, <1>13 DEF CallsOf
  <2>2. CallsOf(u) = C + F
    BY <1>7, <1>8, <1>14, <2>1
  <2>3. StrongOf(u) = R + x - A
    BY <1>5, <1>9, <1>10, <1>15 DEF StrongOf
  <2>4. WeakOf(u) = D + y - I
    BY <1>5, <1>11, <1>12, <1>16 DEF WeakOf
  <2> QED BY <2>2, <2>3, <2>4
<1>18. /\ CallsOf(t) = (C + One(Head(t.in) = "CALL")) + F
       /\ StrongOf(t) = (R + One(Head(t.in) = "RELEASE")) + x - (A + One(Head(t.in) = "ACQUIRE"))
       /\ WeakOf(t) = (D + One(Head(t.in) = "DECREFS")) + y - (I + One(Head(t.in) = "INCREFS"))
  <2>1. /\ Occurs("CALL", t.in) = C + One(Head(t.in) = "CALL")
        /\ Occurs("RELEASE", t.in) = R + One(Head(t.in) = "RELEASE")
        /\ Occurs("ACQUIRE", t.in) = A + One(Head(t.in) = "ACQUIRE")
        /\ Occurs("DECREFS", t.in) = D + One(Head(t.in) = "DECREFS")
        /\ Occurs("INCREFS", t.in) = I + One(Head(t.in) = "INCREFS")
    BY <1>6, <1>9, <1>10, <1>11, <1>12, <1>13
  <2>2. CallsOf(t) = (C + One(Head(t.in) = "CALL"))
                       + Occurs("FREE", t.out) + One(t.doing = "call")
    BY <2>1 DEF CallsOf
  <2>3. One(Head(t.in) = "CALL") \in Nat
    BY OneType
  <2>4. CallsOf(t) = (C + One(Head(t.in) = "CALL")) + F
    BY <1>7, <1>8, <1>14, <2>2, <2>3
  <2> QED BY <1>15, <1>16, <2>1, <2>4 DEF StrongOf, WeakOf
<1>19. ASSUME Head(t.in) = "CALL" PROVE Moves(t, u, 0 - 1, 0, 0)
  <2>1. One(Head(t.in) = "CALL") = 1
    BY <1>19 DEF One
  <2>2. One(Head(t.in) = "RELEASE") = 0
    BY <1>19 DEF One
  <2>3. One(Head(t.in) = "ACQUIRE") = 0
    BY <1>19 DEF One
  <2>4. One(Head(t.in) = "DECREFS") = 0
    BY <1>19 DEF One
  <2>5. One(Head(t.in) = "INCREFS") = 0
    BY <1>19 DEF One
  <2>6. CallsOf(t) = (C + 1) + F
    BY <1>18, <2>1
  <2>7. StrongOf(t) = (R + 0) + x - (A + 0)
    BY <1>18, <2>2, <2>3
  <2>8. WeakOf(t) = (D + 0) + y - (I + 0)
    BY <1>18, <2>4, <2>5
  <2> QED BY <1>17, <2>6, <2>7, <2>8 DEF Moves
<1>20. ASSUME Head(t.in) = "RELEASE" PROVE Moves(t, u, 0, 0 - 1, 0)
  <2>1. One(Head(t.in) = "CALL") = 0
    BY <1>20 DEF One
  <2>2. One(Head(t.in) = "RELEASE") = 1
    BY <1>20 DEF One
  <2>3. One(Head(t.in) = "ACQUIRE") = 0
    BY <1>20 DEF One
  <2>4. One(Head(t.in) = "DECREFS") = 0
    BY <1>20 DEF One
  <2>5. One(Head(t.in) = "INCREFS") = 0
    BY <1>20 DEF One
  <2>6. CallsOf(t) = (C + 0) + F
    BY <1>18, <2>1
  <2>7. StrongOf(t) = (R + 1) + x - (A + 0)
    BY <1>18, <2>2, <2>3
  <2>8. WeakOf(t) = (D + 0) + y - (I + 0)
    BY <1>18, <2>4, <2>5
  <2> QED BY <1>17, <2>6, <2>7, <2>8 DEF Moves
<1>21. ASSUME Head(t.in) = "ACQUIRE" PROVE Moves(t, u, 0, 1, 0)
  <2>1. One(Head(t.in) = "CALL") = 0
    BY <1>21 DEF One
  <2>2. One(Head(t.in) = "RELEASE") = 0
    BY <1>21 DEF One
  <2>3. One(Head(t.in) = "ACQUIRE") = 1
    BY <1>21 DEF One
  <2>4. One(Head(t.in) = "DECREFS") = 0
    BY <1>21 DEF One
  <2>5. One(Head(t.in) = "INCREFS") = 0
    BY <1>21 DEF One
  <2>6. CallsOf(t) = (C + 0) + F
    BY <1>18, <2>1
  <2>7. StrongOf(t) = (R + 0) + x - (A + 1)
    BY <1>18, <2>2, <2>3
  <2>8. WeakOf(t) = (D + 0) + y - (I + 0)
    BY <1>18, <2>4, <2>5
  <2> QED BY <1>17, <2>6, <2>7, <2>8 DEF Moves
<1>22. ASSUME Head(t.in) = "DECREFS" PROVE Moves(t, u, 0, 0, 0 - 1)
  <2>1. One(Head(t.in) = "CALL") = 0
    BY <1>22 DEF One
  <2>2. One(Head(t.in) = "RELEASE") = 0
    BY <1>22 DEF One
  <2>3. One(Head(t.in) = "ACQUIRE") = 0
    BY <1>22 DEF One
  <2>4. One(Head(t.in) = "DECREFS") = 1
    BY <1>22 DEF One
  <2>5. One(Head(t.in) = "INCREFS") = 0
    BY <1>22 DEF One
  <2>6. CallsOf(t) = (C + 0) + F
    BY <1>18, <2>1
  <2>7. StrongOf(t) = (R + 0) + x - (A + 0)
    BY <1>18, <2>2, <2>3
  <2>8. WeakOf(t) = (D + 1) + y - (I + 0)
    BY <1>18, <2>4, <2>5
  <2> QED BY <1>17, <2>6, <2>7, <2>8 DEF Moves
<1>23. ASSUME Head(t.in) = "INCREFS" PROVE Moves(t, u, 0, 0, 1)
  <2>1. One(Head(t.in) = "CALL") = 0
    BY <1>23 DEF One
  <2>2. One(Head(t.in) = "RELEASE") = 0
    BY <1>23 DEF One
  <2>3. One(Head(t.in) = "ACQUIRE") = 0
    BY <1>23 DEF One
  <2>4. One(Head(t.in) = "DECREFS") = 0
    BY <1>23 DEF One
  <2>5. One(Head(t.in) = "INCREFS") = 1
    BY <1>23 DEF One
  <2>6. CallsOf(t) = (C + 0) + F
    BY <1>18, <2>1
  <2>7. StrongOf(t) = (R + 0) + x - (A + 0)
    BY <1>18, <2>2, <2>3
  <2>8. WeakOf(t) = (D + 0) + y - (I + 1)
    BY <1>18, <2>4, <2>5
  <2> QED BY <1>17, <2>6, <2>7, <2>8 DEF Moves
<1>24. ASSUME Head(t.in) = "COMPLETE" PROVE Moves(t, u, 0, 0, 0)
  <2>1. One(Head(t.in) = "CALL") = 0
    BY <1>24 DEF One
  <2>2. One(Head(t.in) = "RELEASE") = 0
    BY <1>24 DEF One
  <2>3. One(Head(t.in) = "ACQUIRE") = 0
    BY <1>24 DEF One
  <2>4. One(Head(t.in) = "DECREFS") = 0
    BY <1>24 DEF One
  <2>5. One(Head(t.in) = "INCREFS") = 0
    BY <1>24 DEF One
  <2>6. CallsOf(t) = (C + 0) + F
    BY <1>18, <2>1
  <2>7. StrongOf(t) = (R + 0) + x - (A + 0)
    BY <1>18, <2>2, <2>3
  <2>8. WeakOf(t) = (D + 0) + y - (I + 0)
    BY <1>18, <2>4, <2>5
  <2> QED BY <1>17, <2>6, <2>7, <2>8 DEF Moves
<1> QED BY <1>3, <1>4, <1>5, <1>19, <1>20, <1>21, <1>22, <1>23, <1>24

LEMMA InMoreIs ==
  ASSUME NEW t \in ThreadType, NEW e \in Returns, NEW u, u = [t EXCEPT !.in = Append(@, e)]
  PROVE  /\ u \in ThreadType
         /\ e = "CALL" => Moves(t, u, 1, 0, 0)
         /\ e = "RELEASE" => Moves(t, u, 0, 1, 0)
         /\ e = "ACQUIRE" => Moves(t, u, 0, 0 - 1, 0)
         /\ e = "DECREFS" => Moves(t, u, 0, 0, 1)
         /\ e = "INCREFS" => Moves(t, u, 0, 0, 0 - 1)
         /\ e = "COMPLETE" => Moves(t, u, 0, 0, 0)
         /\ \A c : Has(u.in, c) <=> Has(t.in, c) \/ e = c
<1>1. /\ t.in \in Seq(Returns) /\ t.out \in Seq(Answers)
      /\ t.weakDerefs \in Nat /\ t.strongDerefs \in Nat
  BY DEF ThreadType
<1>2. PICK l : l = Append(t.in, e)
  OBVIOUS
<1>3. l \in Seq(Returns)
  BY <1>1, <1>2
<1>4. \A c : More(t.in, l, c, e = c) /\ (Has(l, c) <=> Has(t.in, c) \/ e = c)
  BY <1>1, <1>2, OccursAppend
<1>5. /\ u \in ThreadType /\ u.in = l /\ u.out = t.out /\ u.doing = t.doing
      /\ u.weakDerefs = t.weakDerefs /\ u.strongDerefs = t.strongDerefs
  BY <1>2, <1>3 DEF ThreadType
<1>6. \A c : Occurs(c, l) = Occurs(c, t.in) + One(e = c)
  BY <1>4 DEF More
<1>7. \A c : Occurs(c, t.in) \in Nat /\ Occurs(c, t.out) \in Nat
  BY <1>1, OccursType DEF OccursIs
<1>8. One(t.doing = "call") \in Nat
  BY OneType
<1>9. PICK A \in Nat : A = Occurs("ACQUIRE", t.in)
  BY <1>7
<1>10. PICK R \in Nat : R = Occurs("RELEASE", t.in)
  BY <1>7
<1>11. PICK I \in Nat : I = Occurs("INCREFS", t.in)
  BY <1>7
<1>12. PICK D \in Nat : D = Occurs("DECREFS", t.in)
  BY <1>7
<1>13. PICK C \in Nat : C = Occurs("CALL", t.in)
  BY <1>7
<1>14. PICK F \in Nat : F = Occurs("FREE", t.out) + One(t.doing = "call")
  BY <1>7, <1>8
<1>15. PICK x \in Nat : x = t.strongDerefs
  BY <1>1
<1>16. PICK y \in Nat : y = t.weakDerefs
  BY <1>1
<1>17. CallsOf(t) = C + F /\ StrongOf(t) = R + x - A /\ WeakOf(t) = D + y - I
  <2>1. CallsOf(t) = C + Occurs("FREE", t.out) + One(t.doing = "call")
    BY <1>13 DEF CallsOf
  <2> QED BY <1>7, <1>8, <1>9, <1>10, <1>11, <1>12, <1>14, <1>15, <1>16, <2>1 DEF StrongOf, WeakOf
<1>18. /\ CallsOf(u) = (C + One(e = "CALL")) + F
       /\ StrongOf(u) = (R + One(e = "RELEASE")) + x - (A + One(e = "ACQUIRE"))
       /\ WeakOf(u) = (D + One(e = "DECREFS")) + y - (I + One(e = "INCREFS"))
  <2>1. /\ Occurs("CALL", l) = C + One(e = "CALL")
        /\ Occurs("RELEASE", l) = R + One(e = "RELEASE")
        /\ Occurs("ACQUIRE", l) = A + One(e = "ACQUIRE")
        /\ Occurs("DECREFS", l) = D + One(e = "DECREFS")
        /\ Occurs("INCREFS", l) = I + One(e = "INCREFS")
    BY <1>6, <1>9, <1>10, <1>11, <1>12, <1>13
  <2>2. CallsOf(u) = (C + One(e = "CALL")) + Occurs("FREE", t.out) + One(t.doing = "call")
    BY <1>5, <2>1 DEF CallsOf
  <2>3. One(e = "CALL") \in Nat
    BY OneType
  <2>4. CallsOf(u) = (C + One(e = "CALL")) + F
    BY <1>7, <1>8, <1>14, <2>2, <2>3
  <2> QED BY <1>5, <1>15, <1>16, <2>1, <2>4 DEF StrongOf, WeakOf
<1>19. ASSUME e = "CALL" PROVE Moves(t, u, 1, 0, 0)
  BY <1>17, <1>18, <1>19 DEF Moves, One
<1>20. ASSUME e = "RELEASE" PROVE Moves(t, u, 0, 1, 0)
  BY <1>17, <1>18, <1>20 DEF Moves, One
<1>21. ASSUME e = "ACQUIRE" PROVE Moves(t, u, 0, 0 - 1, 0)
  BY <1>17, <1>18, <1>21 DEF Moves, One
<1>22. ASSUME e = "DECREFS" PROVE Moves(t, u, 0, 0, 1)
  BY <1>17, <1>18, <1>22 DEF Moves, One
<1>23. ASSUME e = "INCREFS" PROVE Moves(t, u, 0, 0, 0 - 1)
  BY <1>17, <1>18, <1>23 DEF Moves, One
<1>24. ASSUME e = "COMPLETE" PROVE Moves(t, u, 0, 0, 0)
  BY <1>17, <1>18, <1>24 DEF Moves, One
<1> QED BY <1>3, <1>4, <1>5, <1>19, <1>20, <1>21, <1>22, <1>23, <1>24

-----------------------------------------------------------------------------
(* The other steps of a thread. *)

LEMMA PartsType ==
  ASSUME NEW t \in ThreadType
  PROVE  /\ t.in \in Seq(Returns) /\ t.out \in Seq(Answers)
         /\ t.weakDerefs \in Nat /\ t.strongDerefs \in Nat
         /\ \A c : Occurs(c, t.in) \in Nat /\ Occurs(c, t.out) \in Nat
         /\ One(t.doing = "call") \in Nat
<1>1. /\ t.in \in Seq(Returns) /\ t.out \in Seq(Answers)
      /\ t.weakDerefs \in Nat /\ t.strongDerefs \in Nat
  BY DEF ThreadType
<1>2. \A c : Occurs(c, t.in) \in Nat /\ Occurs(c, t.out) \in Nat
  BY <1>1, OccursType DEF OccursIs
<1>3. One(t.doing = "call") \in Nat
  BY OneType
<1> QED BY <1>1, <1>2, <1>3

LEMMA MovesAdd ==
  ASSUME NEW t \in ThreadType, NEW u \in ThreadType, NEW w \in ThreadType,
         NEW a \in Int, NEW b \in Int, NEW c \in Int, NEW d \in Int, NEW e \in Int, NEW f \in Int,
         Moves(t, u, a, b, c), Moves(u, w, d, e, f)
  PROVE  Moves(t, w, a + d, b + e, c + f)
<1>1. /\ CallsOf(t) \in Int /\ StrongOf(t) \in Int /\ WeakOf(t) \in Int
  BY OfType
<1> QED BY <1>1 DEF Moves

LEMMA OutTailIs ==
  ASSUME NEW t \in ThreadType, t.out # <<>>, NEW u, u = [t EXCEPT !.out = Tail(@)]
  PROVE  /\ u \in ThreadType /\ Head(t.out) \in Answers
         /\ Head(t.out) = "FREE" => Moves(t, u, 0 - 1, 0, 0)
         /\ Head(t.out) # "FREE" => Moves(t, u, 0, 0, 0)
<1>1. t.out \in Seq(Answers) /\ Occurs("CALL", t.in) \in Nat /\ One(t.doing = "call") \in Nat
  BY PartsType
<1>2. PICK l : l = Tail(t.out)
  OBVIOUS
<1>3. l \in Seq(Answers) /\ Head(t.out) \in Answers
  BY <1>1, <1>2
<1>4. /\ u \in ThreadType /\ u.in = t.in /\ u.out = l /\ u.doing = t.doing
      /\ u.weakDerefs = t.weakDerefs /\ u.strongDerefs = t.strongDerefs
  BY <1>2, <1>3 DEF ThreadType
<1>5. StrongOf(u) = StrongOf(t) + 0 /\ WeakOf(u) = WeakOf(t) + 0
  <2>1. StrongOf(u) = StrongOf(t) /\ WeakOf(u) = WeakOf(t)
    BY <1>4 DEF StrongOf, WeakOf
  <2>2. StrongOf(t) \in Int /\ WeakOf(t) \in Int
    BY OfType
  <2> QED BY <2>1, <2>2
<1>6. Occurs("FREE", t.out) = Occurs("FREE", l) + One(Head(t.out) = "FREE")
  <2>1. More(l, t.out, "FREE", Head(t.out) = "FREE")
    BY <1>1, <1>2, OccursTail
  <2> QED BY <2>1 DEF More
<1>7. PICK F \in Nat : F = Occurs("FREE", l)
  BY <1>3, OccursType DEF OccursIs
<1>8. PICK C \in Nat : C = Occurs("CALL", t.in)
  BY <1>1
<1>9. PICK x \in Nat : x = One(t.doing = "call")
  BY <1>1
<1>10. CallsOf(u) = C + F + x
  BY <1>4, <1>7, <1>8, <1>9 DEF CallsOf
<1>11. CallsOf(t) = C + (F + One(Head(t.out) = "FREE")) + x
  BY <1>6, <1>7, <1>8, <1>9 DEF CallsOf
<1>12. ASSUME Head(t.out) = "FREE" PROVE Moves(t, u, 0 - 1, 0, 0)
  <2>1. One(Head(t.out) = "FREE") = 1
    BY <1>12 DEF One
  <2>2. CallsOf(t) = C + (F + 1) + x
    BY <1>11, <2>1
  <2> QED BY <1>5, <1>10, <2>2 DEF Moves
<1>13. ASSUME Head(t.out) # "FREE" PROVE Moves(t, u, 0, 0, 0)
  <2>1. One(Head(t.out) = "FREE") = 0
    BY <1>13 DEF One
  <2>2. CallsOf(t) = C + (F + 0) + x
    BY <1>11, <2>1
  <2> QED BY <1>5, <1>10, <2>2 DEF Moves
<1> QED BY <1>3, <1>4, <1>12, <1>13

LEMMA OutMoreIs ==
  ASSUME NEW t \in ThreadType, NEW e \in Answers, NEW u, u = [t EXCEPT !.out = Append(@, e)]
  PROVE  /\ u \in ThreadType
         /\ e = "FREE" => Moves(t, u, 1, 0, 0)
         /\ e # "FREE" => Moves(t, u, 0, 0, 0)
<1>1. t.out \in Seq(Answers) /\ Occurs("CALL", t.in) \in Nat /\ One(t.doing = "call") \in Nat
  BY PartsType
<1>2. PICK l : l = Append(t.out, e)
  OBVIOUS
<1>3. l \in Seq(Answers)
  BY <1>1, <1>2
<1>4. /\ u \in ThreadType /\ u.in = t.in /\ u.out = l /\ u.doing = t.doing
      /\ u.weakDerefs = t.weakDerefs /\ u.strongDerefs = t.strongDerefs
  BY <1>2, <1>3 DEF ThreadType
<1>5. StrongOf(u) = StrongOf(t) + 0 /\ WeakOf(u) = WeakOf(t) + 0
  <2>1. StrongOf(u) = StrongOf(t) /\ WeakOf(u) = WeakOf(t)
    BY <1>4 DEF StrongOf, WeakOf
  <2>2. StrongOf(t) \in Int /\ WeakOf(t) \in Int
    BY OfType
  <2> QED BY <2>1, <2>2
<1>6. Occurs("FREE", l) = Occurs("FREE", t.out) + One(e = "FREE")
  <2>1. More(t.out, l, "FREE", e = "FREE")
    BY <1>1, <1>2, OccursAppend
  <2> QED BY <2>1 DEF More
<1>7. PICK F \in Nat : F = Occurs("FREE", t.out)
  BY <1>1, OccursType DEF OccursIs
<1>8. PICK C \in Nat : C = Occurs("CALL", t.in)
  BY <1>1
<1>9. PICK x \in Nat : x = One(t.doing = "call")
  BY <1>1
<1>10. CallsOf(t) = C + F + x
  BY <1>7, <1>8, <1>9 DEF CallsOf
<1>11. CallsOf(u) = C + (F + One(e = "FREE")) + x
  BY <1>4, <1>6, <1>7, <1>8, <1>9 DEF CallsOf
<1>12. ASSUME e = "FREE" PROVE Moves(t, u, 1, 0, 0)
  <2>1. One(e = "FREE") = 1
    BY <1>12 DEF One
  <2>2. CallsOf(u) = C + (F + 1) + x
    BY <1>11, <2>1
  <2> QED BY <1>5, <1>10, <2>2 DEF Moves
<1>13. ASSUME e # "FREE" PROVE Moves(t, u, 0, 0, 0)
  <2>1. One(e = "FREE") = 0
    BY <1>13 DEF One
  <2>2. CallsOf(u) = C + (F + 0) + x
    BY <1>11, <2>1
  <2> QED BY <1>5, <1>10, <2>2 DEF Moves
<1> QED BY <1>4, <1>12, <1>13

LEMMA DoingIs ==
  ASSUME NEW t \in ThreadType, NEW d \in {"loop", "send", "failed", "call"},
         NEW u, u = [t EXCEPT !.doing = d]
  PROVE  /\ u \in ThreadType
         /\ (d = "call") = (t.doing = "call") => Moves(t, u, 0, 0, 0)
         /\ d = "call" /\ t.doing # "call" => Moves(t, u, 1, 0, 0)
         /\ d # "call" /\ t.doing = "call" => Moves(t, u, 0 - 1, 0, 0)
<1>1. Occurs("FREE", t.out) \in Nat /\ Occurs("CALL", t.in) \in Nat
  BY PartsType
<1>4. /\ u \in ThreadType /\ u.in = t.in /\ u.out = t.out /\ u.doing = d
      /\ u.weakDerefs = t.weakDerefs /\ u.strongDerefs = t.strongDerefs
  BY DEF ThreadType
<1>5. StrongOf(u) = StrongOf(t) + 0 /\ WeakOf(u) = WeakOf(t) + 0
  <2>1. StrongOf(u) = StrongOf(t) /\ WeakOf(u) = WeakOf(t)
    BY <1>4 DEF StrongOf, WeakOf
  <2>2. StrongOf(t) \in Int /\ WeakOf(t) \in Int
    BY OfType
  <2> QED BY <2>1, <2>2
<1>7. PICK F \in Nat : F = Occurs("FREE", t.out)
  BY <1>1
<1>8. PICK C \in Nat : C = Occurs("CALL", t.in)
  BY <1>1
<1>10. CallsOf(t) = C + F + One(t.doing = "call")
  BY <1>7, <1>8 DEF CallsOf
<1>11. CallsOf(u) = C + F + One(d = "call")
  BY <1>4, <1>7, <1>8 DEF CallsOf
<1>12. ASSUME (d = "call") = (t.doing = "call") PROVE Moves(t, u, 0, 0, 0)
  <2>1. One(d = "call") = One(t.doing = "call")
    BY <1>12
  <2>2. CallsOf(t) \in Int /\ CallsOf(u) = CallsOf(t)
    BY <1>10, <1>11, <2>1, OfType
  <2> QED BY <1>5, <2>2 DEF Moves
<1>13. ASSUME d = "call", t.doing # "call" PROVE Moves(t, u, 1, 0, 0)
  <2>1. One(d = "call") = 1 /\ One(t.doing = "call") = 0
    BY <1>13 DEF One
  <2>2. CallsOf(t) = C + F + 0 /\ CallsOf(u) = C + F + 1
    BY <1>10, <1>11, <2>1
  <2> QED BY <1>5, <2>2 DEF Moves
<1>14. ASSUME d # "call", t.doing = "call" PROVE Moves(t, u, 0 - 1, 0, 0)
  <2>1. One(d = "call") = 0 /\ One(t.doing = "call") = 1
    BY <1>14 DEF One
  <2>2. CallsOf(t) = C + F + 1 /\ CallsOf(u) = C + F + 0
    BY <1>10, <1>11, <2>1
  <2> QED BY <1>5, <2>2 DEF Moves
<1> QED BY <1>4, <1>12, <1>13, <1>14

LEMMA DerefsIs ==
  ASSUME NEW t \in ThreadType, NEW x \in Nat, NEW y \in Nat,
         NEW u, u = [t EXCEPT !.weakDerefs = y, !.strongDerefs = x]
  PROVE  u \in ThreadType /\ Moves(t, u, 0, x - t.strongDerefs, y - t.weakDerefs)
<1>1. /\ t.weakDerefs \in Nat /\ t.strongDerefs \in Nat
      /\ \A c : Occurs(c, t.in) \in Nat /\ Occurs(c, t.out) \in Nat
  BY PartsType
<1>4. /\ u \in ThreadType /\ u.in = t.in /\ u.out = t.out /\ u.doing = t.doing
      /\ u.weakDerefs = y /\ u.strongDerefs = x
  BY DEF ThreadType
<1>5. CallsOf(u) = CallsOf(t) + 0
  <2>1. CallsOf(u) = CallsOf(t)
    BY <1>4 DEF CallsOf
  <2>2. CallsOf(t) \in Int
    BY OfType
  <2> QED BY <2>1, <2>2
<1>6. PICK R \in Nat : R = Occurs("RELEASE", t.in)
  BY <1>1
<1>7. PICK A \in Nat : A = Occurs("ACQUIRE", t.in)
  BY <1>1
<1>8. PICK D \in Nat : D = Occurs("DECREFS", t.in)
  BY <1>1
<1>9. PICK I \in Nat : I = Occurs("INCREFS", t.in)
  BY <1>1
<1>10. PICK v \in Nat : v = t.strongDerefs
  BY <1>1
<1>11. PICK w \in Nat : w = t.weakDerefs
  BY <1>1
<1>12. StrongOf(u) = R + x - A /\ StrongOf(t) = R + v - A
  BY <1>4, <1>6, <1>7, <1>10 DEF StrongOf
<1>13. WeakOf(u) = D + y - I /\ WeakOf(t) = D + w - I
  BY <1>4, <1>8, <1>9, <1>11 DEF WeakOf
<1>14. StrongOf(u) = StrongOf(t) + (x - v) /\ WeakOf(u) = WeakOf(t) + (y - w)
  BY <1>12, <1>13
<1> QED BY <1>4, <1>5, <1>10, <1>11, <1>14 DEF Moves

\* The one thread that has a step, and the sums of all of them.
Steps(T, U, th, u) == U = [T EXCEPT ![th] = u]

LEMMA SumsStep ==
  ASSUME NEW T \in [Thread -> ThreadType], NEW th \in Thread, NEW u \in ThreadType,
         NEW U, Steps(T, U, th, u),
         NEW n \in NodeType, NEW m \in NodeType, NEW o \in ObjectType, NEW p \in ObjectType,
         SumsOK(n, o, T),
         NEW a \in Int, NEW b \in Int, NEW c \in Int,
         Moves(T[th], u, a, b, c), Balances(n, o, m, p, a, b, c)
  PROVE  U \in [Thread -> ThreadType] /\ SumsOK(m, p, U)
<1>1. /\ U \in [Thread -> ThreadType] /\ U[th] = u
      /\ \A k \in Thread \ {th} : U[k] = T[k]
  BY DEF Steps
<1>2. Moves(T[th], U[th], a, b, c)
  BY <1>1
<1> QED BY <1>1, <1>2, SumsKept

\* The driver's state changed, and what the owner is told did not.
LEMMA SumsSame ==
  ASSUME NEW n, NEW m, NEW o, NEW T, SumsOK(n, o, T), SameCalls(m, n), SameHas(m, n),
         Occurs("call", m.proc_todo) = Occurs("call", n.proc_todo)
  PROVE  SumsOK(m, o, T)
BY DEF SumsOK, SameCalls, SameHas

LEMMA CallsType ==
  ASSUME NEW T \in [Thread -> ThreadType]
  PROVE  Calls(T) \in Nat
<1>1. CASE Thread = {}
  <2>1. PICK f : f = [th \in Thread |-> CallsOf(T[th])]
    OBVIOUS
  <2>2. f \in [Thread -> {0}] /\ IsFiniteSet(Thread)
    BY <1>1, <2>1, RefsAssumption
  <2>3. SumFunction(f) = 0
    BY <2>2, SumOfNothing
  <2> QED BY <2>1, <2>3 DEF Calls
<1>2. CASE Thread # {}
  BY <1>2, CallsCover
<1> QED BY <1>1, <1>2

\* What the driver holds for calls is there, and what it holds until it is told is too.
LEMMA HeldEnough ==
  ASSUME NEW T \in [Thread -> ThreadType], NEW n \in NodeType, NEW o, SumsOK(n, o, T)
  PROVE  /\ n.local_strong >= One(n.pending_strong) /\ n.local_strong >= 0
         /\ HeldForCalls(n) >= Occurs("call", n.proc_todo)
         /\ \A th \in Thread : HeldForCalls(n) >= CallsOf(T[th])
<1>1. Calls(T) \in Nat
  BY CallsType
<1>2. n.local_strong \in Int /\ n.proc_todo \in Seq(Common)
  BY DEF NodeType
<1>3. PICK c \in Nat : c = Occurs("call", n.proc_todo)
  BY <1>2, OccursType DEF OccursIs
<1>4. PICK p \in Nat : p = One(n.pending_strong)
  BY OneType
<1>5. PICK d \in Nat : d = Calls(T)
  BY <1>1
<1>6. n.local_strong - p = c + d
  BY <1>3, <1>4, <1>5 DEF SumsOK, HeldForCalls
<1>7. /\ n.local_strong >= p /\ n.local_strong >= 0
      /\ n.local_strong - p >= c /\ n.local_strong - p >= d
  BY <1>2, <1>6
<1>8. ASSUME NEW th \in Thread PROVE n.local_strong - p >= CallsOf(T[th])
  <2>1. d >= CallsOf(T[th]) /\ CallsOf(T[th]) \in Nat
    BY <1>5, CallsCover, OfType
  <2> QED BY <1>2, <1>7, <2>1
<1> QED BY <1>3, <1>4, <1>7, <1>8 DEF HeldForCalls

-----------------------------------------------------------------------------
(* The invariant behind CountsAgree. *)

HolderType == [Holder -> [open : BOOLEAN, buffers : Nat, proxy : {"none", "weak", "strong"}]]

\* What holder h counts is what it holds, in the way libbinder does.
HeldAs(n, k, h) ==
  n.strong[h] = k.buffers + One(k.proxy = "strong") /\ n.weak[h] = One(k.proxy # "none")
HeldOK(n, H) == \A h \in Holder \ Unruly : HeldAs(n, H[h], h)

\* The references are always right; the rest is as long as the owner lives.
Right(n, H, o, T) ==
  /\ n \in NodeType /\ H \in HolderType /\ o \in ObjectType /\ T \in [Thread -> ThreadType]
  /\ CountsOK(n)
  /\ n.open => FlagsOK(n) /\ SumsOK(n, o, T) /\ HeldOK(n, H) /\ ~n.refused

CountInv ==
  /\ Right(node, holder, object, thread)
  /\ lock \in [by : Thread \cup {NoThread}, proc : BOOLEAN]
  /\ sends \in 0..MaxSends /\ passes \in 0..MaxPasses

\* Only holder h is about to count something else.
OnlyAt(m, n, J, H, h) ==
  \A x \in Holder \ {h} : J[x] = H[x] /\ m.strong[x] = n.strong[x] /\ m.weak[x] = n.weak[x]

LEMMA HeldKept ==
  ASSUME NEW n, NEW m, NEW H, NEW J, NEW h \in Holder, HeldOK(n, H), OnlyAt(m, n, J, H, h),
         h \notin Unruly => HeldAs(m, J[h], h)
  PROVE  HeldOK(m, J)
<1> SUFFICES ASSUME NEW x \in Holder \ Unruly PROVE HeldAs(m, J[x], x)
  BY DEF HeldOK
<1>1. CASE x = h
  BY <1>1
<1>2. CASE x # h
  <2>1. HeldAs(n, H[x], x)
    BY DEF HeldOK
  <2>2. J[x] = H[x] /\ m.strong[x] = n.strong[x] /\ m.weak[x] = n.weak[x]
    BY <1>2 DEF OnlyAt
  <2> QED BY <2>1, <2>2 DEF HeldAs
<1> QED BY <1>1, <1>2

LEMMA HeldSame ==
  ASSUME NEW n, NEW m, NEW H, HeldOK(n, H), SameCounts(m, n)
  PROVE  HeldOK(m, H)
BY DEF HeldOK, HeldAs, SameCounts

LEMMA SumsSteady ==
  ASSUME NEW n, NEW m, NEW o, NEW T, SumsOK(n, o, T),
         Placed(m, n), SameHeld(m, n), SameFlags(m, n)
  PROVE  SumsOK(m, o, T)
<1>1. SameCalls(m, n) /\ SameHas(m, n)
  BY DEF SameCalls, SameHas, HeldForCalls, SameHeld, SameFlags
<1>2. Occurs("call", m.proc_todo) = Occurs("call", n.proc_todo)
  BY DEF Placed, SameLists
<1> QED BY <1>1, <1>2, SumsSame

\* A holder's command.
LEMMA RightHeld ==
  ASSUME NEW n, NEW H, NEW o, NEW T, Right(n, H, o, T),
         NEW m, m \in NodeType, m.open = n.open, CountsOK(m),
         n.open => Placed(m, n) /\ SameHeld(m, n) /\ Steady(m, n),
         NEW J \in HolderType, NEW h \in Holder,
         n.open => OnlyAt(m, n, J, H, h) /\ (h \notin Unruly => HeldAs(m, J[h], h))
  PROVE  Right(m, J, o, T)
<1>1. CASE ~n.open
  BY <1>1 DEF Right
<1>2. CASE n.open
  <2>1. SumsOK(m, o, T)
    <3>1. SumsOK(n, o, T) /\ Placed(m, n) /\ SameHeld(m, n) /\ SameFlags(m, n)
      BY <1>2 DEF Right, Steady
    <3> QED BY <3>1, SumsSteady
  <2>2. HeldOK(m, J)
    <3>1. HeldOK(n, H) /\ OnlyAt(m, n, J, H, h) /\ (h \notin Unruly => HeldAs(m, J[h], h))
      BY <1>2 DEF Right
    <3> QED BY <3>1, HeldKept
  <2>3. FlagsOK(m) /\ ~m.refused
    BY <1>2 DEF Right, Steady, Placed
  <2> QED BY <2>1, <2>2, <2>3 DEF Right
<1> QED BY <1>1, <1>2

\* A step of one of the owner's threads.
LEMMA RightStep ==
  ASSUME NEW n, NEW H, NEW o, NEW T, Right(n, H, o, T), n.open, NEW th \in Thread,
         NEW u \in ThreadType, NEW U, Steps(T, U, th, u),
         NEW m \in NodeType, SameCounts(m, n), FlagsOK(m), m.refused = n.refused,
         NEW p \in ObjectType,
         NEW a \in Int, NEW b \in Int, NEW c \in Int,
         Moves(T[th], u, a, b, c), Balances(n, o, m, p, a, b, c)
  PROVE  Right(m, H, p, U)
<1>1. /\ n \in NodeType /\ H \in HolderType /\ o \in ObjectType /\ T \in [Thread -> ThreadType]
      /\ CountsOK(n) /\ SumsOK(n, o, T) /\ HeldOK(n, H) /\ ~n.refused
  BY DEF Right
<1>2. U \in [Thread -> ThreadType] /\ SumsOK(m, p, U)
  BY <1>1, SumsStep
<1>3. HeldOK(m, H)
  BY <1>1, HeldSame
<1>4. CountsOK(m)
  BY <1>1 DEF CountsOK, CardOK, RefsOK, SameCounts
<1> QED BY <1>1, <1>2, <1>3, <1>4 DEF Right

LEMMA BalancesAre ==
  ASSUME NEW n \in NodeType, NEW m \in NodeType, NEW o \in ObjectType, NEW p \in ObjectType,
         NEW x \in Int, NEW y \in Int, NEW v \in Int, NEW w \in Int, NEW d \in Int, NEW e \in Int,
         HeldForCalls(m) = HeldForCalls(n) + x,
         Occurs("call", m.proc_todo) = Occurs("call", n.proc_todo) + y,
         One(m.has_strong) = One(n.has_strong) + v, One(m.has_weak) = One(n.has_weak) + w,
         p.strong = o.strong + d, p.weak = o.weak + e
  PROVE  Balances(n, o, m, p, x - y, d - v, e - w)
<1>1. n.local_strong \in Int /\ n.proc_todo \in Seq(Common)
  BY DEF NodeType
<1>2. PICK k \in Int : k = HeldForCalls(n)
  BY <1>1, OneType DEF HeldForCalls
<1>3. PICK l \in Nat : l = Occurs("call", n.proc_todo)
  BY <1>1, OccursType DEF OccursIs
<1>4. PICK s \in Nat : s = One(n.has_strong)
  BY OneType
<1>5. PICK q \in Nat : q = One(n.has_weak)
  BY OneType
<1>6. PICK i \in Int : i = o.strong
  BY DEF ObjectType
<1>7. PICK j \in Int : j = o.weak
  BY DEF ObjectType
<1>8. HeldForCalls(m) - Occurs("call", m.proc_todo) = (k + x) - (l + y)
  BY <1>2, <1>3
<1>9. p.strong - One(m.has_strong) = (i + d) - (s + v)
  BY <1>4, <1>6
<1>10. p.weak - One(m.has_weak) = (j + e) - (q + w)
  BY <1>5, <1>7
<1>11. /\ (k + x) - (l + y) = k - l + (x - y)
       /\ (i + d) - (s + v) = i - s + (d - v)
       /\ (j + e) - (q + w) = j - q + (e - w)
  OBVIOUS
<1> QED BY <1>2, <1>3, <1>4, <1>5, <1>6, <1>7, <1>8, <1>9, <1>10, <1>11 DEF Balances

\* The node's part of it stands, and the object gets d and e.
LEMMA BalancesSame ==
  ASSUME NEW n \in NodeType, NEW m \in NodeType, NEW o \in ObjectType, NEW p \in ObjectType,
         SameCalls(m, n), SameHas(m, n),
         Occurs("call", m.proc_todo) = Occurs("call", n.proc_todo),
         NEW d \in Int, NEW e \in Int, p.strong = o.strong + d, p.weak = o.weak + e
  PROVE  Balances(n, o, m, p, 0, d, e)
<1>1. n.local_strong \in Int /\ n.proc_todo \in Seq(Common)
  BY DEF NodeType
<1>2. PICK k \in Int : k = HeldForCalls(n)
  BY <1>1, OneType DEF HeldForCalls
<1>3. PICK l \in Nat : l = Occurs("call", n.proc_todo)
  BY <1>1, OccursType DEF OccursIs
<1>4. PICK s \in Nat : s = One(n.has_strong)
  BY OneType
<1>5. PICK q \in Nat : q = One(n.has_weak)
  BY OneType
<1>6. PICK i \in Int : i = o.strong
  BY DEF ObjectType
<1>7. PICK j \in Int : j = o.weak
  BY DEF ObjectType
<1>8. HeldForCalls(m) = k /\ Occurs("call", m.proc_todo) = l
      /\ One(m.has_strong) = s /\ One(m.has_weak) = q
  BY <1>2, <1>3, <1>4, <1>5 DEF SameCalls, SameHas
<1>9. k - l = k - l + 0 /\ (i + d) - s = i - s + d /\ (j + e) - q = j - q + e
  OBVIOUS
<1> QED BY <1>2, <1>3, <1>4, <1>5, <1>6, <1>7, <1>8, <1>9 DEF Balances

-----------------------------------------------------------------------------
(* The holders' commands. *)

LEMMA OnlyAtStrong ==
  ASSUME NEW n, n \in NodeType, NEW m, NEW H \in HolderType, NEW J,
         NEW h \in Holder, NEW v, NEW k,
         SetAt(m.strong, n.strong, h, v), m.weak = n.weak, SetAt(J, H, h, k)
  PROVE  OnlyAt(m, n, J, H, h) /\ J[h] = k /\ m.strong[h] = v
BY DEF OnlyAt, SetAt, NodeType, HolderType

LEMMA OnlyAtWeak ==
  ASSUME NEW n, n \in NodeType, NEW m, NEW H \in HolderType, NEW J,
         NEW h \in Holder, NEW v, NEW k,
         SetAt(m.weak, n.weak, h, v), m.strong = n.strong, SetAt(J, H, h, k)
  PROVE  OnlyAt(m, n, J, H, h) /\ J[h] = k /\ m.weak[h] = v
BY DEF OnlyAt, SetAt, NodeType, HolderType

LEMMA OnlyAtHolder ==
  ASSUME NEW n, NEW H \in HolderType, NEW J, NEW h \in Holder, NEW k, SetAt(J, H, h, k)
  PROVE  OnlyAt(n, n, J, H, h) /\ J[h] = k
BY DEF OnlyAt, HolderType, SetAt

\* What the counts say of a holder.
LEMMA KnownIs ==
  ASSUME NEW n \in NodeType, CountsOK(n), NEW h \in Holder
  PROVE  /\ n.strong[h] \in Nat /\ n.weak[h] \in Nat
         /\ n.strong[h] > 0 => h \in n.refs /\ n.internal_strong > 0
         /\ n.weak[h] > 0 => h \in n.refs
         /\ h \notin n.refs => n.strong[h] = 0 /\ n.weak[h] = 0
<1>1. n.strong[h] \in Nat /\ n.weak[h] \in Nat /\ n.refs \in SUBSET Holder
  BY DEF NodeType
<1>2. h \in n.refs <=> n.strong[h] + n.weak[h] > 0
  BY DEF CountsOK, RefsOK
<1>3. ASSUME n.strong[h] > 0, h \in n.refs PROVE n.internal_strong > 0
  <2>1. PICK C : C = Counted(n.refs, n.strong)
    OBVIOUS
  <2>2. h \in C
    BY <1>3, <2>1 DEF Counted
  <2>3. IsFiniteSet(C) /\ Cardinality(C) \in Nat
    BY <1>1, <2>1, CountedFinite
  <2>4. Cardinality(C) # 0
    BY <2>2, <2>3, FS_EmptySet
  <2>5. n.internal_strong = Cardinality(C)
    BY <2>1, CardIs DEF CountsOK
  <2> QED BY <2>3, <2>4, <2>5
<1> QED BY <1>1, <1>2, <1>3

LEMMA SteadySelf ==
  ASSUME NEW n, n \in NodeType, FlagsOK(n)
  PROVE  Placed(n, n) /\ SameHeld(n, n) /\ Steady(n, n)
BY DEF Placed, SameLists, SameHeld, Steady, SameFlags, Quiet

\* A command about a reference that is not there.
LEMMA RightIdle ==
  ASSUME NEW n, NEW H, NEW o, NEW T, Right(n, H, o, T),
         NEW h \in Holder, NEW J \in HolderType, NEW k, SetAt(J, H, h, k),
         n.open /\ h \notin Unruly => HeldAs(n, k, h)
  PROVE  Right(n, J, o, T)
<1>1. n \in NodeType /\ H \in HolderType /\ CountsOK(n)
  BY DEF Right
<1>2. OnlyAt(n, n, J, H, h) /\ J[h] = k
  BY <1>1, OnlyAtHolder
<1>3. n.open => Placed(n, n) /\ SameHeld(n, n) /\ Steady(n, n)
  BY <1>1, SteadySelf DEF Right
<1>4. n.open => OnlyAt(n, n, J, H, h) /\ (h \notin Unruly => HeldAs(n, J[h], h))
  BY <1>2
<1> QED BY <1>1, <1>3, <1>4, RightHeld

-----------------------------------------------------------------------------
(* What each command of a holder does to the invariant. *)

\* What a holder's command leaves alone.
Apart(m, n) ==
  m.open = n.open /\ m.diverted = n.diverted /\ (n.open => Placed(m, n) /\ Quiet(m, n))

Proxied(k, s, w) == One(k.proxy = "strong") = s /\ One(k.proxy # "none") = w

LEMMA ProxyIs ==
  ASSUME NEW k
  PROVE  /\ k.proxy = "none" => Proxied(k, 0, 0)
         /\ k.proxy = "weak" => Proxied(k, 0, 1)
         /\ k.proxy = "strong" => Proxied(k, 1, 1)
BY DEF Proxied, One

LEMMA RightCommand ==
  ASSUME NEW n, NEW H, NEW o, NEW T, Right(n, H, o, T),
         NEW m, m \in NodeType, m.open = n.open, m.diverted = n.diverted, CountsOK(m),
         n.open => Placed(m, n) /\ SameHeld(m, n) /\ Steady(m, n),
         NEW J \in HolderType, NEW h \in Holder,
         n.open => OnlyAt(m, n, J, H, h) /\ (h \notin Unruly => HeldAs(m, J[h], h))
  PROVE  Right(m, J, o, T) /\ Apart(m, n)
<1>1. Right(m, J, o, T)
  BY RightHeld
<1>2. Apart(m, n)
  BY DEF Apart, Steady
<1> QED BY <1>1, <1>2

LEMMA RightNothing ==
  ASSUME NEW n, NEW H, NEW o, NEW T, Right(n, H, o, T),
         NEW h \in Holder, NEW J \in HolderType, NEW k, SetAt(J, H, h, k),
         n.open /\ h \notin Unruly => HeldAs(n, k, h)
  PROVE  Right(n, J, o, T) /\ Apart(n, n)
<1>1. Right(n, J, o, T)
  BY RightIdle
<1>2. Apart(n, n)
  BY SteadySelf DEF Apart, Steady, Right
<1> QED BY <1>1, <1>2

LEMMA IncrefsRight ==
  ASSUME NEW n, NEW H, NEW o, NEW T, Right(n, H, o, T), NEW h \in Holder,
         h \in Unruly \/ (H[h].proxy = "none" /\ H[h].buffers > 0),
         NEW J, J = [H EXCEPT ![h].proxy = "weak"],
         NEW m, m = IF h \in n.refs THEN IncRefWeak(n, h) ELSE n
  PROVE  J \in HolderType /\ Right(m, J, o, T) /\ Apart(m, n)
<1>1. n \in NodeType /\ H \in HolderType /\ CountsOK(n)
  BY DEF Right
<1>2. PICK k : k = [H[h] EXCEPT !.proxy = "weak"]
  OBVIOUS
<1>3. SetAt(J, H, h, k) /\ J \in HolderType /\ k.proxy = "weak" /\ k.buffers = H[h].buffers
      /\ H[h].buffers \in Nat /\ k.buffers \in Nat
  BY <1>1, <1>2 DEF HolderType, SetAt
<1>4. Proxied(k, 0, 1)
  BY <1>3, ProxyIs
<1>5. n.strong[h] \in Nat /\ n.weak[h] \in Nat
  BY <1>1, KnownIs
<1>6. ASSUME n.open, h \notin Unruly
      PROVE  n.strong[h] = k.buffers /\ n.strong[h] > 0 /\ n.weak[h] = 0 /\ h \in n.refs
  <2>1. HeldAs(n, H[h], h)
    BY <1>6 DEF Right, HeldOK
  <2>2. Proxied(H[h], 0, 0)
    BY <1>6, ProxyIs
  <2>3. n.strong[h] = H[h].buffers + 0 /\ n.weak[h] = 0
    BY <2>1, <2>2 DEF HeldAs, Proxied
  <2>4. n.strong[h] = k.buffers /\ n.strong[h] > 0
    BY <1>3, <1>6, <2>3
  <2> QED BY <1>1, <2>3, <2>4, KnownIs
<1>7. CASE h \notin n.refs
  <2>1. m = n
    BY <1>7
  <2>2. n.open /\ h \notin Unruly => HeldAs(n, k, h)
    BY <1>6, <1>7
  <2> QED BY <1>3, <2>1, <2>2, RightNothing
<1>8. CASE h \in n.refs
  <2>1. m = IncRefWeak(n, h)
    BY <1>8
  <2>2. /\ m \in NodeType /\ m.open = n.open /\ m.diverted = n.diverted /\ CountsOK(m)
        /\ n.open /\ FlagsOK(n) =>
              /\ Placed(m, n) /\ SameHeld(m, n) /\ Steady(m, n)
              /\ m.strong = n.strong /\ SetAt(m.weak, n.weak, h, n.weak[h] + 1)
    BY <1>1, <1>8, <2>1, IncRefWeakIs
  <2>3. ASSUME n.open
        PROVE  OnlyAt(m, n, J, H, h) /\ (h \notin Unruly => HeldAs(m, J[h], h))
    <3>1. m.strong = n.strong /\ SetAt(m.weak, n.weak, h, n.weak[h] + 1)
      BY <2>2, <2>3 DEF Right
    <3>2. OnlyAt(m, n, J, H, h) /\ J[h] = k /\ m.weak[h] = n.weak[h] + 1
      BY <1>1, <1>3, <3>1 DEF OnlyAt, SetAt, NodeType, HolderType
    <3>3. ASSUME h \notin Unruly PROVE HeldAs(m, k, h)
      <4>1. m.strong[h] = k.buffers /\ m.weak[h] = 0 + 1
        BY <1>6, <2>3, <3>1, <3>2, <3>3
      <4>2. k.buffers + 0 = k.buffers
        BY <1>3
      <4> QED BY <1>4, <4>1, <4>2 DEF HeldAs, Proxied
    <3> QED BY <3>2, <3>3
  <2>4. n.open => Placed(m, n) /\ SameHeld(m, n) /\ Steady(m, n)
    BY <2>2 DEF Right
  <2> QED BY <1>3, <2>2, <2>3, <2>4, RightCommand
<1> QED BY <1>7, <1>8

LEMMA AcquireRight ==
  ASSUME NEW n, NEW H, NEW o, NEW T, Right(n, H, o, T), NEW h \in Holder,
         h \in Unruly \/ (H[h].proxy = "weak" /\ H[h].buffers > 0),
         NEW J, J = [H EXCEPT ![h].proxy = "strong"],
         NEW m, m = IF h \in n.refs /\ n.strong[h] > 0 THEN IncRefStrong(n, h, NoList) ELSE n
  PROVE  J \in HolderType /\ Right(m, J, o, T) /\ Apart(m, n)
<1>1. n \in NodeType /\ H \in HolderType /\ CountsOK(n)
  BY DEF Right
<1>2. PICK k : k = [H[h] EXCEPT !.proxy = "strong"]
  OBVIOUS
<1>3. SetAt(J, H, h, k) /\ J \in HolderType /\ k.proxy = "strong" /\ k.buffers = H[h].buffers
      /\ H[h].buffers \in Nat /\ k.buffers \in Nat
  BY <1>1, <1>2 DEF HolderType, SetAt
<1>4. Proxied(k, 1, 1)
  BY <1>3, ProxyIs
<1>5. n.strong[h] \in Nat /\ n.weak[h] \in Nat
  BY <1>1, KnownIs
<1>6. ASSUME n.open, h \notin Unruly
      PROVE  n.strong[h] = k.buffers /\ n.strong[h] > 0 /\ n.weak[h] = 1 /\ h \in n.refs
  <2>1. HeldAs(n, H[h], h)
    BY <1>6 DEF Right, HeldOK
  <2>2. Proxied(H[h], 0, 1)
    BY <1>6, ProxyIs
  <2>3. n.strong[h] = H[h].buffers + 0 /\ n.weak[h] = 1
    BY <2>1, <2>2 DEF HeldAs, Proxied
  <2>4. n.strong[h] = k.buffers /\ n.strong[h] > 0
    BY <1>3, <1>6, <2>3
  <2> QED BY <1>1, <2>3, <2>4, KnownIs
<1>7. CASE ~(h \in n.refs /\ n.strong[h] > 0)
  <2>1. m = n
    BY <1>7
  <2>2. n.open /\ h \notin Unruly => HeldAs(n, k, h)
    BY <1>6, <1>7
  <2> QED BY <1>3, <2>1, <2>2, RightNothing
<1>8. CASE h \in n.refs /\ n.strong[h] > 0
  <2>1. m = IncRefStrong(n, h, NoList)
    BY <1>8
  <2>2. /\ Placed(m, n) /\ SameHeld(m, n) /\ CountsOK(m)
        /\ SetAt(m.strong, n.strong, h, n.strong[h] + 1) /\ m.weak = n.weak
        /\ FlagsOK(n) => Steady(m, n)
    BY <1>1, <1>8, <2>1, IncRefStrongIs
  <2>3. OnlyAt(m, n, J, H, h) /\ J[h] = k /\ m.strong[h] = n.strong[h] + 1
    BY <1>1, <1>3, <2>2 DEF OnlyAt, SetAt, NodeType, HolderType
  <2>4. ASSUME n.open, h \notin Unruly PROVE HeldAs(m, k, h)
    <4>1. m.strong[h] = k.buffers + 1 /\ m.weak[h] = 1
      BY <1>6, <2>2, <2>3, <2>4
    <4> QED BY <1>4, <4>1 DEF HeldAs, Proxied
  <2>5. n.open => Placed(m, n) /\ SameHeld(m, n) /\ Steady(m, n)
    BY <2>2 DEF Right
  <2>6. m \in NodeType /\ m.open = n.open /\ m.diverted = n.diverted
    BY <2>2, PlacedType
  <2>7. n.open => OnlyAt(m, n, J, H, h) /\ (h \notin Unruly => HeldAs(m, J[h], h))
    BY <2>3, <2>4
  <2> QED BY <1>3, <2>2, <2>5, <2>6, <2>7, RightCommand
<1> QED BY <1>7, <1>8

LEMMA FewerIs ==
  /\ Fewer(0) = 0
  /\ \A n \in Nat : Fewer(n) \in Nat /\ Fewer(n + 1) = n
BY DEF Fewer

LEMMA ReleaseRight ==
  ASSUME NEW n, NEW H, NEW o, NEW T, Right(n, H, o, T), NEW h \in Holder,
         h \in Unruly \/ H[h].proxy = "strong",
         NEW J, J = [H EXCEPT ![h].proxy = "weak"],
         NEW m, m = IF h \in n.refs /\ n.strong[h] > 0 THEN DecRefStrong(n, h) ELSE n
  PROVE  J \in HolderType /\ Right(m, J, o, T) /\ Apart(m, n)
<1>1. n \in NodeType /\ H \in HolderType /\ CountsOK(n)
  BY DEF Right
<1>2. PICK k : k = [H[h] EXCEPT !.proxy = "weak"]
  OBVIOUS
<1>3. SetAt(J, H, h, k) /\ J \in HolderType /\ k.proxy = "weak" /\ k.buffers = H[h].buffers
      /\ H[h].buffers \in Nat /\ k.buffers \in Nat
  BY <1>1, <1>2 DEF HolderType, SetAt
<1>4. Proxied(k, 0, 1)
  BY <1>3, ProxyIs
<1>5. n.strong[h] \in Nat /\ n.weak[h] \in Nat
  BY <1>1, KnownIs
<1>6. ASSUME n.open, h \notin Unruly
      PROVE  n.strong[h] = k.buffers + 1 /\ n.strong[h] > 0 /\ n.weak[h] = 1 /\ h \in n.refs
  <2>1. HeldAs(n, H[h], h)
    BY <1>6 DEF Right, HeldOK
  <2>2. Proxied(H[h], 1, 1)
    BY <1>6, ProxyIs
  <2>3. n.strong[h] = H[h].buffers + 1 /\ n.weak[h] = 1
    BY <2>1, <2>2 DEF HeldAs, Proxied
  <2>4. n.strong[h] = k.buffers + 1 /\ n.strong[h] > 0
    BY <1>3, <2>3
  <2> QED BY <1>1, <2>3, <2>4, KnownIs
<1>7. CASE ~(h \in n.refs /\ n.strong[h] > 0)
  <2>1. m = n
    BY <1>7
  <2>2. n.open /\ h \notin Unruly => HeldAs(n, k, h)
    BY <1>6, <1>7
  <2> QED BY <1>3, <2>1, <2>2, RightNothing
<1>8. CASE h \in n.refs /\ n.strong[h] > 0
  <2>1. m = DecRefStrong(n, h)
    BY <1>8
  <2>2. /\ Placed(m, n) /\ SameHeld(m, n) /\ CountsOK(m)
        /\ SetAt(m.strong, n.strong, h, Fewer(n.strong[h])) /\ m.weak = n.weak
        /\ n.open /\ FlagsOK(n) => Steady(m, n)
    BY <1>1, <2>1, DecRefStrongIs
  <2>3. OnlyAt(m, n, J, H, h) /\ J[h] = k /\ m.strong[h] = Fewer(n.strong[h])
    BY <1>1, <1>3, <2>2 DEF OnlyAt, SetAt, NodeType, HolderType
  <2>4. ASSUME n.open, h \notin Unruly PROVE HeldAs(m, k, h)
    <4>1. m.strong[h] = Fewer(k.buffers + 1) /\ m.weak[h] = 1
      BY <1>6, <2>2, <2>3, <2>4
    <4>2. m.strong[h] = k.buffers + 0
      BY <1>3, <4>1, FewerIs
    <4> QED BY <1>4, <4>1, <4>2 DEF HeldAs, Proxied
  <2>5. n.open => Placed(m, n) /\ SameHeld(m, n) /\ Steady(m, n)
    BY <2>2 DEF Right
  <2>6. m \in NodeType /\ m.open = n.open /\ m.diverted = n.diverted
    BY <2>2, PlacedType
  <2>7. n.open => OnlyAt(m, n, J, H, h) /\ (h \notin Unruly => HeldAs(m, J[h], h))
    BY <2>3, <2>4
  <2> QED BY <1>3, <2>2, <2>5, <2>6, <2>7, RightCommand
<1> QED BY <1>7, <1>8

LEMMA DecrefsRight ==
  ASSUME NEW n, NEW H, NEW o, NEW T, Right(n, H, o, T), NEW h \in Holder,
         h \in Unruly \/ H[h].proxy = "weak",
         NEW J, J = [H EXCEPT ![h].proxy = "none"],
         NEW m, m = IF h \in n.refs THEN DecRefWeak(n, h) ELSE n
  PROVE  J \in HolderType /\ Right(m, J, o, T) /\ Apart(m, n)
<1>1. n \in NodeType /\ H \in HolderType /\ CountsOK(n)
  BY DEF Right
<1>2. PICK k : k = [H[h] EXCEPT !.proxy = "none"]
  OBVIOUS
<1>3. SetAt(J, H, h, k) /\ J \in HolderType /\ k.proxy = "none" /\ k.buffers = H[h].buffers
      /\ H[h].buffers \in Nat /\ k.buffers \in Nat
  BY <1>1, <1>2 DEF HolderType, SetAt
<1>4. Proxied(k, 0, 0)
  BY <1>3, ProxyIs
<1>5. n.strong[h] \in Nat /\ n.weak[h] \in Nat
  BY <1>1, KnownIs
<1>6. ASSUME n.open, h \notin Unruly
      PROVE  n.strong[h] = k.buffers + 0 /\ n.weak[h] = 0 + 1 /\ h \in n.refs
  <2>1. HeldAs(n, H[h], h)
    BY <1>6 DEF Right, HeldOK
  <2>2. Proxied(H[h], 0, 1)
    BY <1>6, ProxyIs
  <2>3. n.strong[h] = H[h].buffers + 0 /\ n.weak[h] = 1
    BY <2>1, <2>2 DEF HeldAs, Proxied
  <2>4. n.weak[h] > 0
    BY <2>3
  <2> QED BY <1>1, <1>3, <2>3, <2>4, KnownIs
<1>7. CASE h \notin n.refs
  <2>1. m = n
    BY <1>7
  <2>2. n.open /\ h \notin Unruly => HeldAs(n, k, h)
    BY <1>6, <1>7
  <2> QED BY <1>3, <2>1, <2>2, RightNothing
<1>8. CASE h \in n.refs
  <2>1. m = DecRefWeak(n, h)
    BY <1>8
  <2>2. /\ Placed(m, n) /\ SameHeld(m, n) /\ CountsOK(m)
        /\ m.strong = n.strong /\ SetAt(m.weak, n.weak, h, Fewer(n.weak[h]))
        /\ n.open /\ FlagsOK(n) => Steady(m, n)
    BY <1>1, <2>1, DecRefWeakIs
  <2>3. OnlyAt(m, n, J, H, h) /\ J[h] = k /\ m.weak[h] = Fewer(n.weak[h])
    BY <1>1, <1>3, <2>2 DEF OnlyAt, SetAt, NodeType, HolderType
  <2>4. ASSUME n.open, h \notin Unruly PROVE HeldAs(m, k, h)
    <4>1. m.weak[h] = Fewer(0 + 1) /\ m.strong[h] = k.buffers + 0
      BY <1>6, <2>2, <2>3, <2>4
    <4>2. m.weak[h] = 0
      BY <4>1, FewerIs
    <4> QED BY <1>4, <4>1, <4>2 DEF HeldAs, Proxied
  <2>5. n.open => Placed(m, n) /\ SameHeld(m, n) /\ Steady(m, n)
    BY <2>2 DEF Right
  <2>6. m \in NodeType /\ m.open = n.open /\ m.diverted = n.diverted
    BY <2>2, PlacedType
  <2>7. n.open => OnlyAt(m, n, J, H, h) /\ (h \notin Unruly => HeldAs(m, J[h], h))
    BY <2>3, <2>4
  <2> QED BY <1>3, <2>2, <2>5, <2>6, <2>7, RightCommand
<1> QED BY <1>7, <1>8

LEMMA FreeBufferRight ==
  ASSUME NEW n, NEW H, NEW o, NEW T, Right(n, H, o, T), NEW h \in Holder, H[h].buffers > 0,
         NEW J, J = [H EXCEPT ![h].buffers = @ - 1],
         NEW m, m = IF h \in n.refs THEN DecRefStrong(n, h) ELSE n
  PROVE  J \in HolderType /\ Right(m, J, o, T) /\ Apart(m, n)
<1>1. n \in NodeType /\ H \in HolderType /\ CountsOK(n)
  BY DEF Right
<1>0. PICK b \in Nat : H[h].buffers = b + 1
  <2>1. H[h].buffers \in Nat
    BY <1>1 DEF HolderType
  <2>2. H[h].buffers - 1 \in Nat /\ H[h].buffers = (H[h].buffers - 1) + 1
    BY <2>1
  <2> QED BY <2>2
<1>2. PICK k : k = [H[h] EXCEPT !.buffers = b]
  OBVIOUS
<1>3. SetAt(J, H, h, k) /\ J \in HolderType /\ k.proxy = H[h].proxy /\ k.buffers = b
  <2>1. H[h] \in [open : BOOLEAN, buffers : Nat, proxy : {"none", "weak", "strong"}]
    BY <1>1 DEF HolderType
  <2>2. /\ k \in [open : BOOLEAN, buffers : Nat, proxy : {"none", "weak", "strong"}]
        /\ k.proxy = H[h].proxy /\ k.buffers = b
    BY <1>2, <2>1
  <2>3. H[h].buffers - 1 = b
    BY <1>0
  <2>4. SetAt(J, H, h, k)
    BY <1>1, <1>2, <2>3 DEF HolderType, SetAt
  <2>5. J \in HolderType
    BY <1>1, <2>2, <2>4 DEF HolderType, SetAt
  <2> QED BY <2>2, <2>4, <2>5
<1>5. n.strong[h] \in Nat /\ n.weak[h] \in Nat
  BY <1>1, KnownIs
<1>9. PICK p \in Nat : p = One(k.proxy = "strong")
  BY OneType
<1>6. ASSUME n.open, h \notin Unruly
      PROVE  n.strong[h] = (b + p) + 1 /\ n.weak[h] = One(k.proxy # "none") /\ h \in n.refs
  <2>1. HeldAs(n, H[h], h)
    BY <1>6 DEF Right, HeldOK
  <2>3. n.strong[h] = (b + 1) + p /\ n.weak[h] = One(k.proxy # "none")
    BY <1>0, <1>3, <1>9, <2>1 DEF HeldAs
  <2>4. n.strong[h] > 0 /\ n.strong[h] = (b + p) + 1
    BY <2>3
  <2> QED BY <1>1, <2>3, <2>4, KnownIs
<1>7. CASE h \notin n.refs
  <2>1. m = n
    BY <1>7
  <2>2. n.open /\ h \notin Unruly => HeldAs(n, k, h)
    BY <1>6, <1>7
  <2> QED BY <1>3, <2>1, <2>2, RightNothing
<1>8. CASE h \in n.refs
  <2>1. m = DecRefStrong(n, h)
    BY <1>8
  <2>2. /\ Placed(m, n) /\ SameHeld(m, n) /\ CountsOK(m)
        /\ SetAt(m.strong, n.strong, h, Fewer(n.strong[h])) /\ m.weak = n.weak
        /\ n.open /\ FlagsOK(n) => Steady(m, n)
    BY <1>1, <2>1, DecRefStrongIs
  <2>3. OnlyAt(m, n, J, H, h) /\ J[h] = k /\ m.strong[h] = Fewer(n.strong[h])
    BY <1>1, <1>3, <2>2 DEF OnlyAt, SetAt, NodeType, HolderType
  <2>4. ASSUME n.open, h \notin Unruly PROVE HeldAs(m, k, h)
    <4>1. m.strong[h] = Fewer((b + p) + 1) /\ m.weak[h] = One(k.proxy # "none")
      BY <1>6, <2>2, <2>3, <2>4
    <4>2. b + p \in Nat
      OBVIOUS
    <4>3. m.strong[h] = b + p
      BY <4>1, <4>2, FewerIs
    <4> QED BY <1>3, <1>9, <4>1, <4>3 DEF HeldAs
  <2>5. n.open => Placed(m, n) /\ SameHeld(m, n) /\ Steady(m, n)
    BY <2>2 DEF Right
  <2>6. m \in NodeType /\ m.open = n.open /\ m.diverted = n.diverted
    BY <2>2, PlacedType
  <2>7. n.open => OnlyAt(m, n, J, H, h) /\ (h \notin Unruly => HeldAs(m, J[h], h))
    BY <2>3, <2>4
  <2> QED BY <1>3, <2>2, <2>5, <2>6, <2>7, RightCommand
<1> QED BY <1>7, <1>8

\* A handle, once more, that is counted somewhere.
MoreBuffers(J, H, h) == J = [H EXCEPT ![h].buffers = @ + 1]

LEMMA MoreBuffersIs ==
  ASSUME NEW n, n \in NodeType, NEW m, NEW H \in HolderType, NEW h \in Holder,
         NEW J, MoreBuffers(J, H, h),
         SetAt(m.strong, n.strong, h, n.strong[h] + 1), m.weak = n.weak
  PROVE  /\ J \in HolderType /\ OnlyAt(m, n, J, H, h)
         /\ HeldAs(n, H[h], h) => HeldAs(m, J[h], h)
<1>0. PICK b \in Nat : H[h].buffers = b
  BY DEF HolderType
<1>1. PICK k : k = [H[h] EXCEPT !.buffers = b + 1]
  OBVIOUS
<1>2. SetAt(J, H, h, k) /\ J \in HolderType /\ k.proxy = H[h].proxy /\ k.buffers = b + 1
  BY <1>0, <1>1 DEF HolderType, MoreBuffers, SetAt
<1>3. OnlyAt(m, n, J, H, h) /\ J[h] = k /\ m.strong[h] = n.strong[h] + 1
  BY <1>2 DEF OnlyAt, SetAt, NodeType, HolderType
<1>4. PICK p \in Nat : p = One(k.proxy = "strong")
  BY OneType
<1>5. ASSUME HeldAs(n, H[h], h) PROVE HeldAs(m, k, h)
  <2>1. n.strong[h] = b + p /\ n.weak[h] = One(k.proxy # "none")
    BY <1>0, <1>2, <1>4, <1>5 DEF HeldAs
  <2>2. m.strong[h] = (b + 1) + p /\ m.weak[h] = One(k.proxy # "none")
    BY <1>3, <2>1
  <2> QED BY <1>2, <1>4, <2>2 DEF HeldAs
<1> QED BY <1>2, <1>3, <1>5

LEMMA PassRight ==
  ASSUME NEW n, NEW H, NEW o, NEW T, Right(n, H, o, T), NEW h \in Holder, n.internal_strong > 0,
         NEW J, MoreBuffers(J, H, h), NEW m, m = IncRefStrong(GetRefForNode(n, h), h, NoList)
  PROVE  J \in HolderType /\ Right(m, J, o, T) /\ Apart(m, n)
<1>1. n \in NodeType /\ H \in HolderType /\ CountsOK(n)
  BY DEF Right
<1>2. /\ Placed(m, n) /\ SameHeld(m, n) /\ CountsOK(m)
      /\ SetAt(m.strong, n.strong, h, n.strong[h] + 1) /\ m.weak = n.weak
      /\ FlagsOK(n) => Steady(m, n)
  BY <1>1, PassIs
<1>3. /\ J \in HolderType /\ OnlyAt(m, n, J, H, h)
      /\ HeldAs(n, H[h], h) => HeldAs(m, J[h], h)
  BY <1>1, <1>2, MoreBuffersIs
<1>4. n.open => OnlyAt(m, n, J, H, h) /\ (h \notin Unruly => HeldAs(m, J[h], h))
  BY <1>3 DEF Right, HeldOK
<1>5. n.open => Placed(m, n) /\ SameHeld(m, n) /\ Steady(m, n)
  BY <1>2 DEF Right
<1>6. m \in NodeType /\ m.open = n.open /\ m.diverted = n.diverted
  BY <1>2, PlacedType
<1> QED BY <1>2, <1>3, <1>4, <1>5, <1>6, RightCommand

LEMMA DiesRight ==
  ASSUME NEW n, NEW H, NEW o, NEW T, Right(n, H, o, T), NEW h \in Holder,
         NEW J, J = [H EXCEPT ![h] = [open |-> FALSE, buffers |-> 0, proxy |-> "none"]],
         NEW m, m = IF h \in n.refs THEN DeleteRef(n, h) ELSE n
  PROVE  J \in HolderType /\ Right(m, J, o, T) /\ Apart(m, n)
<1>1. n \in NodeType /\ H \in HolderType /\ CountsOK(n)
  BY DEF Right
<1>2. PICK k : k = [open |-> FALSE, buffers |-> 0, proxy |-> "none"]
  OBVIOUS
<1>3. SetAt(J, H, h, k) /\ J \in HolderType /\ k.proxy = "none" /\ k.buffers = 0
  BY <1>1, <1>2 DEF HolderType, SetAt
<1>4. Proxied(k, 0, 0)
  BY <1>3, ProxyIs
<1>5. ASSUME NEW r, r.strong[h] = 0, r.weak[h] = 0 PROVE HeldAs(r, k, h)
  <2>1. r.strong[h] = 0 + 0
    BY <1>5
  <2> QED BY <1>3, <1>4, <1>5, <2>1 DEF HeldAs, Proxied
<1>7. CASE h \notin n.refs
  <2>1. m = n
    BY <1>7
  <2>2. HeldAs(n, k, h)
    BY <1>1, <1>5, <1>7, KnownIs
  <2> QED BY <1>3, <2>1, <2>2, RightNothing
<1>8. CASE h \in n.refs
  <2>1. m = DeleteRef(n, h)
    BY <1>8
  <2>2. CardOK(n) /\ RefsBut(n, h)
    BY <1>1 DEF CountsOK, RefsOK, RefsBut
  <2>3. /\ Placed(m, n) /\ SameHeld(m, n) /\ CountsOK(m)
        /\ SetAt(m.strong, n.strong, h, 0) /\ SetAt(m.weak, n.weak, h, 0)
        /\ n.open /\ FlagsOK(n) => Steady(m, n)
    BY <1>1, <1>8, <2>1, <2>2, DeleteRefIs
  <2>4. OnlyAt(m, n, J, H, h) /\ J[h] = k /\ m.strong[h] = 0 /\ m.weak[h] = 0
    BY <1>1, <1>3, <2>3 DEF OnlyAt, SetAt, NodeType, HolderType
  <2>5. HeldAs(m, k, h)
    BY <1>5, <2>4
  <2>6. n.open => Placed(m, n) /\ SameHeld(m, n) /\ Steady(m, n)
    BY <2>3 DEF Right
  <2>7. m \in NodeType /\ m.open = n.open /\ m.diverted = n.diverted
    BY <2>3, PlacedType
  <2> QED BY <1>3, <2>3, <2>4, <2>5, <2>6, <2>7, RightCommand
<1> QED BY <1>7, <1>8

\* A buffer that the owner gets counts as a local reference until it is freed.
Called(m, n) == m = [IncNodeLocal(n) EXCEPT !.proc_todo = Append(@, "call")]

LEMMA CallRight ==
  ASSUME NEW n, NEW H, NEW o, NEW T, Right(n, H, o, T), n.open, n.internal_strong > 0,
         NEW m, Called(m, n)
  PROVE  /\ Right(m, H, o, T) /\ m.open = n.open /\ m.diverted = n.diverted
         /\ m.proc_todo = Append(n.proc_todo, "call") /\ m.todo = n.todo
         /\ Pending(m) <=> Pending(n)
<1>1. /\ n \in NodeType /\ H \in HolderType /\ CountsOK(n) /\ FlagsOK(n) /\ SumsOK(n, o, T)
      /\ HeldOK(n, H) /\ ~n.refused
  BY DEF Right
<1>2. PICK v \in Int : v = n.local_strong + 1
  BY <1>1 DEF NodeType
<1>3. PICK p : p = Append(n.proc_todo, "call")
  OBVIOUS
<1>4. n.proc_todo \in Seq(Common) /\ "call" \in Common
  BY <1>1 DEF NodeType, Common
<1>5. /\ p \in Seq(Common)
      /\ \A c : /\ More(n.proc_todo, p, c, "call" = c)
                /\ Has(p, c) <=> Has(n.proc_todo, c) \/ "call" = c
  BY <1>3, <1>4, OccursAppend
<1>6. m = [n EXCEPT !.local_strong = v, !.proc_todo = p]
  BY <1>1, <1>2, <1>3 DEF Called, IncNodeLocal, NodeType
<1>7. /\ m \in NodeType /\ m.open = n.open /\ m.diverted = n.diverted /\ m.refused = n.refused
      /\ m.proc_todo = p /\ m.todo = n.todo /\ m.local_strong = v /\ m.made = n.made
      /\ m.internal_strong = n.internal_strong /\ m.refs = n.refs /\ m.local_weak = n.local_weak
  BY <1>1, <1>5, <1>6 DEF NodeType
<1>8. SameCounts(m, n) /\ SameFlags(m, n)
  BY <1>1, <1>6 DEF NodeType, SameCounts, SameFlags
<1>9. Strong(m) /\ Strong(n) /\ Weak(m) /\ Weak(n)
  BY <1>7 DEF Strong, Weak
<1>10. Pending(m) <=> Pending(n)
  BY <1>8, <1>9, PendingIs DEF SameFlags
<1>11. OnList(n) <=> OnList(m)
  <2>1. Somewhere(n) <=> Somewhere(m)
    BY <1>5, <1>7 DEF Somewhere
  <2> QED BY <1>1, <1>7, <2>1, OnListIs
<1>12. FlagsOK(m)
  BY <1>1, <1>7, <1>8, <1>9, <1>10, <1>11 DEF FlagsOK, SameFlags
<1>13. CountsOK(m) /\ HeldOK(m, H)
  BY <1>1, <1>8, HeldSame DEF CountsOK, CardOK, RefsOK, SameCounts
<1>14. SumsOK(m, o, T)
  <2>1. PICK k \in Nat : k = One(n.pending_strong)
    BY OneType
  <2>2. One(m.pending_strong) = k
    BY <1>8, <2>1 DEF SameFlags
  <2>3. n.local_strong \in Int
    BY <1>1 DEF NodeType
  <2>4. PICK c \in Nat : c = Occurs("call", n.proc_todo)
    BY <1>4, OccursType DEF OccursIs
  <2>5. Occurs("call", p) = c + 1
    <3>1. More(n.proc_todo, p, "call", "call" = "call")
      BY <1>5
    <3>2. One("call" = "call") = 1
      BY DEF One
    <3> QED BY <2>4, <3>1, <3>2 DEF More
  <2>6. PICK d : d = Calls(T)
    OBVIOUS
  <2>7. d \in Nat
    <3>1. T \in [Thread -> ThreadType]
      BY DEF Right
    <3> QED BY <1>1, <2>6, <3>1, CallsType
  <2>8. n.local_strong - k = c + d
    BY <1>1, <2>1, <2>4, <2>6 DEF SumsOK, HeldForCalls
  <2>9. v - k = (c + 1) + d
    BY <1>2, <2>3, <2>7, <2>8
  <2>10. HeldForCalls(m) = Occurs("call", m.proc_todo) + Calls(T)
    BY <1>7, <2>2, <2>5, <2>6, <2>9 DEF HeldForCalls
  <2> QED BY <1>1, <1>8, <2>10 DEF SumsOK, SameFlags
<1> QED BY <1>1, <1>3, <1>7, <1>10, <1>12, <1>13, <1>14 DEF Right

-----------------------------------------------------------------------------
(* What each step of the owner's threads does to the invariant. *)

LEMMA DroppedIs ==
  ASSUME NEW o \in ObjectType, NEW T, NEW p, p = Dropped(o, T)
  PROVE  /\ p \in ObjectType /\ p.app = o.app /\ p.misused = o.misused
         /\ p.strong = o.strong /\ p.weak = o.weak
         /\ p.alive <=> /\ o.alive
                        /\ o.app \/ o.strong > 0 \/ \E th \in Thread : Keeps(T[th])
BY DEF ObjectType, Dropped

\* Nothing happens to the node.
LEMMA RightThread ==
  ASSUME NEW n, NEW H, NEW o, NEW T, Right(n, H, o, T), n.open, NEW th \in Thread,
         NEW u \in ThreadType, NEW U, Steps(T, U, th, u), NEW p \in ObjectType,
         NEW d \in Int, NEW e \in Int, p.strong = o.strong + d, p.weak = o.weak + e,
         Moves(T[th], u, 0, d, e)
  PROVE  Right(n, H, p, U)
<1>1. n \in NodeType /\ o \in ObjectType /\ FlagsOK(n)
  BY DEF Right
<1>2. SameCalls(n, n) /\ SameHas(n, n) /\ SameCounts(n, n)
  BY DEF SameCalls, SameHas, SameCounts
<1>3. Balances(n, o, n, p, 0, d, e)
  BY <1>1, <1>2, BalancesSame
<1> QED BY <1>1, <1>2, <1>3, RightStep

LEMMA RightQuietThread ==
  ASSUME NEW n, NEW H, NEW o, NEW T, Right(n, H, o, T), n.open, NEW th \in Thread,
         NEW u \in ThreadType, NEW U, Steps(T, U, th, u), NEW p \in ObjectType,
         p.strong = o.strong, p.weak = o.weak, Moves(T[th], u, 0, 0, 0)
  PROVE  Right(n, H, p, U)
<1>1. o \in ObjectType
  BY DEF Right
<1>2. p.strong = o.strong + 0 /\ p.weak = o.weak + 0
  BY <1>1 DEF ObjectType
<1> QED BY <1>2, RightThread

\* The app's own reference, and whether the object lives, are not counted.
LEMMA RightObject ==
  ASSUME NEW n, NEW H, NEW o, NEW T, Right(n, H, o, T), NEW p \in ObjectType,
         p.strong = o.strong, p.weak = o.weak
  PROVE  Right(n, H, p, T)
BY DEF Right, SumsOK

-----------------------------------------------------------------------------
(* Sending the object. *)

Does(u, t, d) == u = [t EXCEPT !.doing = d]
Queued(m, s, th) == m = [s EXCEPT !.todo[th] = Append(@, "complete")]

LEMMA QueuedIs ==
  ASSUME NEW s \in NodeType, NEW th \in Thread, NEW m, Queued(m, s, th)
  PROVE  /\ m \in NodeType /\ m.open = s.open /\ m.refused = s.refused
         /\ m.diverted = s.diverted /\ m.made = s.made
         /\ m.proc_todo = s.proc_todo
         /\ SameCounts(m, s) /\ SameFlags(m, s) /\ SameHeld(m, s)
         /\ \A o \in Thread : Has(m.todo[o], "node") <=> Has(s.todo[o], "node")
         /\ \A o \in Thread \ {th} : m.todo[o] = s.todo[o]
         /\ m.todo[th] = Append(s.todo[th], "complete")
         /\ FlagsOK(s) => FlagsOK(m)
         /\ Pending(m) <=> Pending(s)
<1>1. s.todo[th] \in Seq(Own) /\ "complete" \in Own /\ s.todo \in [Thread -> Seq(Own)]
  BY DEF NodeType, Own
<1>2. PICK l : l = Append(s.todo[th], "complete")
  OBVIOUS
<1>3. l \in Seq(Own) /\ \A c : Has(l, c) <=> Has(s.todo[th], c) \/ "complete" = c
  BY <1>1, <1>2, OccursAppend
<1>4. PICK D : D = [s.todo EXCEPT ![th] = l]
  OBVIOUS
<1>5. D \in [Thread -> Seq(Own)] /\ D[th] = l /\ \A o \in Thread \ {th} : D[o] = s.todo[o]
  BY <1>1, <1>3, <1>4
<1>6. m = [s EXCEPT !.todo = D]
  BY <1>1, <1>2, <1>4 DEF Queued, NodeType
<1>7. /\ m \in NodeType /\ m.open = s.open /\ m.refused = s.refused
      /\ m.diverted = s.diverted /\ m.made = s.made
      /\ m.proc_todo = s.proc_todo /\ m.todo = D
      /\ m.local_weak = s.local_weak /\ m.local_strong = s.local_strong
  BY <1>5, <1>6 DEF NodeType
<1>8. SameCounts(m, s) /\ SameFlags(m, s)
  BY <1>6 DEF NodeType, SameCounts, SameFlags
<1>9. \A o \in Thread : Has(m.todo[o], "node") <=> Has(s.todo[o], "node")
  BY <1>3, <1>5, <1>7
<1>10. OnList(m) <=> OnList(s)
  <2>1. Somewhere(m) <=> Somewhere(s)
    BY <1>7, <1>9 DEF Somewhere
  <2> QED BY <1>7, <2>1, OnListIs
<1>11. (Strong(m) <=> Strong(s)) /\ (Weak(m) <=> Weak(s))
  BY <1>7, <1>8 DEF Strong, Weak, SameCounts
<1>12. Pending(m) <=> Pending(s)
  BY <1>8, <1>11 DEF Pending, SameFlags
<1>13. FlagsOK(s) => FlagsOK(m)
  BY <1>7, <1>8, <1>10, <1>11, <1>12 DEF FlagsOK, SameFlags
<1> QED BY <1>2, <1>5, <1>7, <1>8, <1>9, <1>12, <1>13 DEF SameHeld

LEMMA SentRight ==
  ASSUME NEW n, NEW H, NEW o, NEW T, Right(n, H, o, T), n.open,
         NEW th \in Thread, NEW h \in Holder, n.todo[th] = <<>>, T[th].doing = "loop",
         NEW J, MoreBuffers(J, H, h),
         NEW u, Does(u, T[th], "send"), NEW U, Steps(T, U, th, u),
         NEW s, s = TranslateBinder(n, th, h), NEW m, Queued(m, s, th)
  PROVE  Right(m, J, o, U)
<1>1. /\ n \in NodeType /\ H \in HolderType /\ CountsOK(n) /\ FlagsOK(n) /\ SumsOK(n, o, T)
      /\ HeldOK(n, H) /\ ~n.refused /\ o \in ObjectType /\ T \in [Thread -> ThreadType]
  BY DEF Right
<1>2. n.local_strong >= 0
  BY <1>1, HeldEnough
<1>3. SentTo(s, n, h) /\ SentLists(s, n, th)
  BY <1>1, <1>2, TranslateIs
<1>4. s \in NodeType
  BY <1>3 DEF SentTo
<1>5. /\ m \in NodeType /\ m.open = s.open /\ m.refused = s.refused
      /\ m.proc_todo = s.proc_todo
      /\ SameCounts(m, s) /\ SameFlags(m, s) /\ SameHeld(m, s) /\ FlagsOK(s) => FlagsOK(m)
  BY <1>4, QueuedIs
<1>5a. FlagsOK(m)
  BY <1>4, <1>3, QueuedIs DEF SentTo
<1>6. SumsOK(m, o, T)
  <2>1. SameCalls(s, n) /\ SameHas(s, n)
    BY <1>3 DEF SentTo, SameCalls, SameHas, HeldForCalls, SameHeld, SameFlags
  <2>2. Occurs("call", s.proc_todo) = Occurs("call", n.proc_todo)
    BY <1>3 DEF SentLists
  <2>3. SumsOK(s, o, T)
    BY <1>1, <2>1, <2>2, SumsSame
  <2>4. SameFlags(m, s) /\ SameHeld(m, s) /\ m.proc_todo = s.proc_todo
    BY <1>4, QueuedIs
  <2>5. /\ SameCalls(m, s) /\ SameHas(m, s)
        /\ Occurs("call", m.proc_todo) = Occurs("call", s.proc_todo)
    BY <2>4 DEF SameCalls, SameHas, HeldForCalls, SameHeld, SameFlags
  <2> QED BY <2>3, <2>5, SumsSame
<1>7. u \in ThreadType /\ Moves(T[th], u, 0, 0, 0)
  <2>1. T[th] \in ThreadType /\ ("send" = "call") = (T[th].doing = "call")
    BY <1>1
  <2> QED BY <2>1, DoingIs DEF Does
<1>8. Balances(m, o, m, o, 0, 0, 0)
  <2>1. SameCalls(m, m) /\ SameHas(m, m) /\ o.strong = o.strong + 0 /\ o.weak = o.weak + 0
    BY <1>1 DEF SameCalls, SameHas, ObjectType
  <2>2. m \in NodeType
    BY <1>5
  <2> QED BY <1>1, <2>1, <2>2, BalancesSame
<1>9. U \in [Thread -> ThreadType] /\ SumsOK(m, o, U)
  <2>1. m \in NodeType
    BY <1>5
  <2> QED BY <1>1, <1>6, <1>7, <1>8, <2>1, SumsStep
<1>10. SetAt(m.strong, n.strong, h, n.strong[h] + 1) /\ m.weak = n.weak
  <2>1. SameCounts(m, s)
    BY <1>4, QueuedIs
  <2> QED BY <1>3, <2>1 DEF SentTo, SameCounts
<1>11. /\ J \in HolderType /\ OnlyAt(m, n, J, H, h)
       /\ HeldAs(n, H[h], h) => HeldAs(m, J[h], h)
  BY <1>1, <1>10, MoreBuffersIs
<1>12. HeldOK(m, J)
  <2>1. h \notin Unruly => HeldAs(m, J[h], h)
    BY <1>1, <1>11 DEF HeldOK
  <2> QED BY <1>1, <1>11, <2>1, HeldKept
<1>13. CountsOK(m) /\ ~m.refused
  <2>1. SameCounts(m, s) /\ m.refused = s.refused
    BY <1>4, QueuedIs
  <2> QED BY <1>1, <1>3, <2>1 DEF SentTo, CountsOK, CardOK, RefsOK, SameCounts
<1>14. m \in NodeType
  BY <1>4, QueuedIs
<1> QED BY <1>1, <1>5a, <1>9, <1>11, <1>12, <1>13, <1>14 DEF Right

\* What the counts say is all there is to know of the references.
LEMMA SameReferences ==
  ASSUME NEW n \in NodeType, NEW m \in NodeType, CountsOK(n), CountsOK(m),
         m.strong = n.strong, m.weak = n.weak
  PROVE  SameCounts(m, n)
<1>1. m.refs = n.refs
  BY DEF CountsOK, RefsOK
<1> QED BY <1>1 DEF CountsOK, CardOK, SameCounts

\* A send that fails behind the object: the references are what they were.
Failed(m, r, b) == m = [r EXCEPT !.diverted = b]

LEMMA FailedIs ==
  ASSUME NEW n, NEW H, NEW o, NEW T, Right(n, H, o, T), n.open,
         NEW th \in Thread, NEW h \in Holder, n.todo[th] = <<>>,
         NEW s, s = TranslateBinder(n, th, h), NEW r, r = DecRefStrong(s, h),
         NEW b \in BOOLEAN, NEW m, Failed(m, r, b)
  PROVE  /\ m \in NodeType /\ m.open /\ SameCounts(m, n) /\ SameHeld(m, n) /\ SameFlags(m, n)
         /\ FlagsOK(m) /\ m.diverted = b /\ m.refused = n.refused
         /\ SentTo(s, n, h) /\ SentLists(s, n, th)
         /\ Placed(r, s) /\ Quiet(r, s) /\ m.todo = r.todo /\ m.proc_todo = r.proc_todo
         /\ Occurs("call", m.proc_todo) = Occurs("call", n.proc_todo)
         /\ (Pending(m) <=> Pending(r)) /\ (Pending(m) <=> Pending(n))
<1>1. /\ n \in NodeType /\ H \in HolderType /\ CountsOK(n) /\ FlagsOK(n) /\ SumsOK(n, o, T)
      /\ T \in [Thread -> ThreadType]
  BY DEF Right
<1>2. n.local_strong >= 0
  BY <1>1, HeldEnough
<1>3. SentTo(s, n, h) /\ SentLists(s, n, th)
  BY <1>1, <1>2, TranslateIs
<1>4. s \in NodeType /\ CountsOK(s) /\ s.open /\ FlagsOK(s)
  BY <1>3 DEF SentTo
<1>5. /\ Placed(r, s) /\ SameHeld(r, s) /\ CountsOK(r)
      /\ SetAt(r.strong, s.strong, h, Fewer(s.strong[h])) /\ r.weak = s.weak
      /\ s.open /\ FlagsOK(s) => Steady(r, s)
  BY <1>4, DecRefStrongIs
<1>6. Steady(r, s) /\ r \in NodeType /\ r.open = s.open
  BY <1>4, <1>5, PlacedType
<1>7. r.strong = n.strong /\ r.weak = n.weak
  <2>1. /\ n.strong \in [Holder -> Nat] /\ s.strong \in [Holder -> Nat]
        /\ r.strong \in [Holder -> Nat]
    BY <1>1, <1>4, <1>6 DEF NodeType
  <2>2. SetAt(s.strong, n.strong, h, n.strong[h] + 1) /\ s.weak = n.weak
    BY <1>3 DEF SentTo
  <2>3. \A x \in Holder \ {h} : r.strong[x] = n.strong[x]
    BY <1>5, <2>1, <2>2 DEF SetAt
  <2>4. s.strong[h] = n.strong[h] + 1 /\ r.strong[h] = Fewer(s.strong[h]) /\ n.strong[h] \in Nat
    BY <1>5, <2>1, <2>2 DEF SetAt
  <2>5. r.strong[h] = n.strong[h]
    BY <2>4, FewerIs
  <2>6. \A x \in Holder : r.strong[x] = n.strong[x]
    BY <2>3, <2>5
  <2> QED BY <1>5, <2>1, <2>2, <2>6
<1>8. /\ m \in NodeType /\ m.open = r.open /\ m.diverted = b /\ m.refused = r.refused
      /\ m.todo = r.todo /\ m.proc_todo = r.proc_todo /\ m.made = r.made
      /\ m.strong = r.strong /\ m.weak = r.weak /\ m.refs = r.refs
      /\ m.internal_strong = r.internal_strong
      /\ m.local_strong = r.local_strong /\ m.local_weak = r.local_weak
      /\ m.has_strong = r.has_strong /\ m.has_weak = r.has_weak
      /\ m.pending_strong = r.pending_strong /\ m.pending_weak = r.pending_weak
  BY <1>6 DEF NodeType, Failed
<1>9. SameCounts(r, n)
  BY <1>1, <1>5, <1>6, <1>7, SameReferences
<1>10. SameCounts(m, n)
  BY <1>8, <1>9 DEF SameCounts
<1>11. SameHeld(m, n) /\ SameFlags(m, n)
  BY <1>3, <1>5, <1>6, <1>8 DEF SameHeld, SameFlags, SentTo, Steady
<1>12. (Strong(m) <=> Strong(r)) /\ (Weak(m) <=> Weak(r)) /\ (Pending(m) <=> Pending(r))
       /\ (OnList(m) <=> OnList(r))
  BY <1>8 DEF Strong, Weak, Pending, OnList
<1>13. FlagsOK(m)
  BY <1>6, <1>8, <1>12 DEF Steady, FlagsOK
<1>14. Pending(m) <=> Pending(n)
  BY <1>10, <1>11 DEF Pending, Strong, Weak, SameCounts, SameHeld, SameFlags
<1>15. Occurs("call", m.proc_todo) = Occurs("call", n.proc_todo)
  BY <1>3, <1>5, <1>8 DEF Placed, SameLists, SentLists
<1>16. m.refused = n.refused
  BY <1>3, <1>5, <1>8 DEF Placed, SentTo
<1> QED BY <1>3, <1>4, <1>5, <1>6, <1>8, <1>10, <1>11, <1>12, <1>13, <1>14, <1>15, <1>16
        DEF Steady

LEMMA FailedRight ==
  ASSUME NEW n, NEW H, NEW o, NEW T, Right(n, H, o, T), n.open,
         NEW th \in Thread, NEW h \in Holder, n.todo[th] = <<>>, T[th].doing = "loop",
         NEW u, Does(u, T[th], "failed"), NEW U, Steps(T, U, th, u),
         NEW s, s = TranslateBinder(n, th, h), NEW r, r = DecRefStrong(s, h),
         NEW b \in BOOLEAN, NEW m, Failed(m, r, b)
  PROVE  Right(m, H, o, U)
<1>1. n \in NodeType /\ o \in ObjectType /\ T \in [Thread -> ThreadType]
  BY DEF Right
<1>2. /\ m \in NodeType /\ m.open /\ SameCounts(m, n) /\ SameHeld(m, n) /\ SameFlags(m, n)
      /\ FlagsOK(m) /\ m.refused = n.refused
      /\ Occurs("call", m.proc_todo) = Occurs("call", n.proc_todo)
  BY FailedIs
<1>3. u \in ThreadType /\ Moves(T[th], u, 0, 0, 0)
  <2>1. T[th] \in ThreadType /\ ("failed" = "call") = (T[th].doing = "call")
    BY <1>1
  <2> QED BY <2>1, DoingIs DEF Does
<1>4. SameCalls(m, n) /\ SameHas(m, n) /\ o.strong = o.strong + 0 /\ o.weak = o.weak + 0
  BY <1>1, <1>2 DEF SameCalls, SameHas, HeldForCalls, SameHeld, SameFlags, ObjectType
<1>5. Balances(n, o, m, o, 0, 0, 0)
  BY <1>1, <1>2, <1>4, BalancesSame
<1> QED BY <1>1, <1>2, <1>3, <1>5, RightStep

-----------------------------------------------------------------------------
(* The driver's answers, and a turn of a read. *)

Answered(u, v, e) == u = [v EXCEPT !.out = Append(@, e)]
Taken(v, t) == v = [t EXCEPT !.in = Tail(@)]
Wrote(v, t) == v = [t EXCEPT !.out = Tail(@)]
Heard(v, t, e) == v = [t EXCEPT !.in = Append(@, e)]

\* What the owner's answer does to the driver's state.
DoneIs(m, n, e) ==
  m = CASE e = "ACQUIRE_DONE" -> AcquireDone(n)
        [] e = "INCREFS_DONE" -> IncrefsDone(n)
        [] e = "FREE" -> DecNodeStrongLocal(n)

LEMMA WriteRight ==
  ASSUME NEW n, NEW H, NEW o, NEW T, Right(n, H, o, T), n.open,
         NEW th \in Thread, T[th].out # <<>>,
         NEW u, Wrote(u, T[th]), NEW U, Steps(T, U, th, u),
         NEW m, DoneIs(m, n, Head(T[th].out))
  PROVE  Right(m, H, o, U) /\ Placed(m, n) /\ Quiet(m, n)
<1>1. /\ n \in NodeType /\ CountsOK(n) /\ FlagsOK(n) /\ SumsOK(n, o, T)
      /\ o \in ObjectType /\ T \in [Thread -> ThreadType] /\ T[th] \in ThreadType
  BY DEF Right
<1>2. NoRefs(n)
  BY <1>1, NoRefsWhenCounted DEF CountsOK
<1>3. PICK e : e = Head(T[th].out)
  OBVIOUS
<1>4. /\ u \in ThreadType /\ e \in Answers
      /\ e = "FREE" => Moves(T[th], u, 0 - 1, 0, 0)
      /\ e # "FREE" => Moves(T[th], u, 0, 0, 0)
  BY <1>1, <1>3, OutTailIs DEF Wrote
<1>5. CASE e # "FREE"
  <2>1. /\ Placed(m, n) /\ SameCounts(m, n) /\ SameHas(m, n) /\ SameCalls(m, n)
        /\ FlagsOK(m) /\ Quiet(m, n)
    <3>1. CASE e = "ACQUIRE_DONE"
      <4>1. m = AcquireDone(n)
        BY <1>3, <3>1 DEF DoneIs
      <4> QED BY <1>1, <1>2, <4>1, AcquireDoneIs
    <3>2. CASE e = "INCREFS_DONE"
      <4>1. m = IncrefsDone(n)
        BY <1>3, <3>2 DEF DoneIs
      <4> QED BY <1>1, <1>2, <4>1, IncrefsDoneIs
    <3> QED BY <1>4, <1>5, <3>1, <3>2 DEF Answers
  <2>2. m \in NodeType /\ m.refused = n.refused
        /\ Occurs("call", m.proc_todo) = Occurs("call", n.proc_todo)
    BY <2>1 DEF Placed, SameLists
  <2>3. o.strong = o.strong + 0 /\ o.weak = o.weak + 0
    BY <1>1 DEF ObjectType
  <2>4. Balances(n, o, m, o, 0, 0, 0)
    BY <1>1, <2>1, <2>2, <2>3, BalancesSame
  <2>5. Moves(T[th], u, 0, 0, 0)
    BY <1>4, <1>5
  <2> QED BY <1>1, <1>4, <2>1, <2>2, <2>4, <2>5, RightStep
<1>6. CASE e = "FREE"
  <2>1. m = DecNodeStrongLocal(n)
    BY <1>3, <1>6 DEF DoneIs
  <2>2. /\ Placed(m, n) /\ SameCounts(m, n)
        /\ m.local_strong = n.local_strong - 1
        /\ n.open /\ FlagsOK(n) /\ NoRefs(n) => Steady(m, n)
    BY <1>1, <2>1, DecStrongLocalIs
  <2>3. FlagsOK(m) /\ Quiet(m, n) /\ SameFlags(m, n)
    BY <1>1, <1>2, <2>2 DEF Steady
  <2>4. m \in NodeType /\ m.refused = n.refused
        /\ Occurs("call", m.proc_todo) = Occurs("call", n.proc_todo)
    BY <2>2 DEF Placed, SameLists
  <2>5. Balances(n, o, m, o, 0 - 1, 0, 0)
    <3>1. n.local_strong \in Int /\ n.proc_todo \in Seq(Common)
      BY <1>1 DEF NodeType
    <3>2. PICK k \in Nat : k = One(n.pending_strong)
      BY OneType
    <3>3. One(m.pending_strong) = k
      BY <2>3, <3>2 DEF SameFlags
    <3>4. PICK x \in Int : x = n.local_strong
      BY <3>1
    <3>5. HeldForCalls(n) = x - k /\ HeldForCalls(m) = (x - 1) - k
      BY <2>2, <3>2, <3>3, <3>4 DEF HeldForCalls
    <3>6. PICK c \in Nat : c = Occurs("call", n.proc_todo)
      BY <3>1, OccursType DEF OccursIs
    <3>7. (x - 1) - k - c = (x - k) - c + (0 - 1)
      OBVIOUS
    <3>8. HeldForCalls(m) - Occurs("call", m.proc_todo)
            = HeldForCalls(n) - Occurs("call", n.proc_todo) + (0 - 1)
      BY <2>4, <3>5, <3>6, <3>7
    <3>9. PICK a \in Int : a = o.strong - One(n.has_strong)
      BY <1>1, OneType DEF ObjectType
    <3>10. PICK b \in Int : b = o.weak - One(n.has_weak)
      BY <1>1, OneType DEF ObjectType
    <3>11. o.strong - One(m.has_strong) = a /\ o.weak - One(m.has_weak) = b
      BY <2>3, <3>9, <3>10 DEF SameFlags
    <3>12. a = a + 0 /\ b = b + 0
      OBVIOUS
    <3> QED BY <3>8, <3>9, <3>10, <3>11, <3>12 DEF Balances
  <2>6. Moves(T[th], u, 0 - 1, 0, 0)
    BY <1>4, <1>6
  <2>7. 0 - 1 \in Int
    OBVIOUS
  <2> QED BY <1>1, <1>4, <2>2, <2>3, <2>4, <2>5, <2>6, <2>7, RightStep
<1> QED BY <1>5, <1>6

-----------------------------------------------------------------------------
(* Work taken off a list. *)

TookOwn(m, n, th) == m = [n EXCEPT !.todo[th] = Tail(@)]
TookProc(m, n)    == m = [n EXCEPT !.proc_todo = Tail(@)]

\* The end of a transaction comes off a thread's list, behind it there is nothing.
LEMMA TookOwnIs ==
  ASSUME NEW n \in NodeType, FlagsOK(n), NEW th \in Thread, n.todo[th] # <<>>,
         Head(n.todo[th]) = "complete", NEW m, TookOwn(m, n, th)
  PROVE  /\ m \in NodeType /\ SameCounts(m, n) /\ SameFlags(m, n) /\ SameLocal(m, n)
         /\ FlagsOK(m) /\ m.made = n.made /\ m.proc_todo = n.proc_todo
         /\ (Pending(m) <=> Pending(n))
         /\ \A o \in Thread \ {th} : m.todo[o] = n.todo[o]
         /\ TodoOK(n.todo[th]) => m.todo[th] = <<>>
         /\ Has(m.todo[th], "node") => Has(n.todo[th], "node")
<1>1. n.todo[th] \in Seq(Own) /\ n.todo \in [Thread -> Seq(Own)]
  BY DEF NodeType
<1>2. PICK l : l = Tail(n.todo[th])
  OBVIOUS
<1>3. l \in Seq(Own) /\ \A c : Has(n.todo[th], c) <=> Has(l, c) \/ Head(n.todo[th]) = c
  BY <1>1, <1>2, OccursTail
<1>4. PICK D : D = [n.todo EXCEPT ![th] = l]
  OBVIOUS
<1>5. D \in [Thread -> Seq(Own)] /\ D[th] = l /\ \A o \in Thread \ {th} : D[o] = n.todo[o]
  BY <1>1, <1>3, <1>4
<1>6. m = [n EXCEPT !.todo = D]
  BY <1>1, <1>2, <1>4 DEF TookOwn, NodeType
<1>7. /\ m \in NodeType /\ m.made = n.made
      /\ m.proc_todo = n.proc_todo /\ m.todo = D
      /\ m.local_weak = n.local_weak /\ m.local_strong = n.local_strong
  BY <1>5, <1>6 DEF NodeType
<1>8. SameCounts(m, n) /\ SameFlags(m, n) /\ SameLocal(m, n)
  BY <1>6 DEF NodeType, SameCounts, SameFlags, SameLocal
<1>9. \A o \in Thread : Has(m.todo[o], "node") <=> Has(n.todo[o], "node")
  BY <1>3, <1>5, <1>7
<1>10. OnList(m) <=> OnList(n)
  <2>1. Somewhere(m) <=> Somewhere(n)
    BY <1>7, <1>9 DEF Somewhere
  <2> QED BY <1>7, <2>1, OnListIs
<1>11. (Strong(m) <=> Strong(n)) /\ (Weak(m) <=> Weak(n))
  BY <1>7, <1>8 DEF Strong, Weak, SameCounts
<1>12. Pending(m) <=> Pending(n)
  BY <1>8, <1>11 DEF Pending, SameFlags
<1>13. FlagsOK(m)
  BY <1>7, <1>8, <1>10, <1>11, <1>12 DEF FlagsOK, SameFlags
<1>14. ASSUME TodoOK(n.todo[th]) PROVE l = <<>>
  <2>1. 1 \in DOMAIN n.todo[th] /\ n.todo[th][1] = "complete"
    BY <1>1
  <2>2. Len(n.todo[th]) = 1
    BY <1>14, <2>1 DEF TodoOK
  <2> QED BY <1>1, <1>2, <2>2
<1> QED BY <1>5, <1>7, <1>8, <1>9, <1>12, <1>13, <1>14

LEMMA TookProcIs ==
  ASSUME NEW n \in NodeType, FlagsOK(n), n.proc_todo # <<>>,
         Head(n.proc_todo) = "call", NEW m, TookProc(m, n)
  PROVE  /\ m \in NodeType /\ SameCounts(m, n) /\ SameFlags(m, n) /\ SameLocal(m, n)
         /\ FlagsOK(m) /\ m.made = n.made /\ m.todo = n.todo
         /\ (Pending(m) <=> Pending(n))
         /\ OnceIn(n.proc_todo, "node") => OnceIn(m.proc_todo, "node")
         /\ (Has(m.proc_todo, "node") <=> Has(n.proc_todo, "node"))
         /\ Occurs("call", n.proc_todo) = Occurs("call", m.proc_todo) + 1
<1>1. n.proc_todo \in Seq(Common)
  BY DEF NodeType
<1>2. PICK l : l = Tail(n.proc_todo)
  OBVIOUS
<1>3. /\ l \in Seq(Common)
      /\ \A c : /\ Has(n.proc_todo, c) <=> Has(l, c) \/ Head(n.proc_todo) = c
                /\ More(l, n.proc_todo, c, Head(n.proc_todo) = c)
  BY <1>1, <1>2, OccursTail
<1>6. m = [n EXCEPT !.proc_todo = l]
  BY <1>2 DEF TookProc, NodeType
<1>7. /\ m \in NodeType /\ m.made = n.made
      /\ m.proc_todo = l /\ m.todo = n.todo
      /\ m.local_weak = n.local_weak /\ m.local_strong = n.local_strong
  BY <1>3, <1>6 DEF NodeType
<1>8. SameCounts(m, n) /\ SameFlags(m, n) /\ SameLocal(m, n)
  BY <1>6 DEF NodeType, SameCounts, SameFlags, SameLocal
<1>9. Has(m.proc_todo, "node") <=> Has(n.proc_todo, "node")
  BY <1>3, <1>7
<1>10. OnList(m) <=> OnList(n)
  <2>1. Somewhere(m) <=> Somewhere(n)
    BY <1>7, <1>9 DEF Somewhere
  <2> QED BY <1>7, <2>1, OnListIs
<1>11. (Strong(m) <=> Strong(n)) /\ (Weak(m) <=> Weak(n))
  BY <1>7, <1>8 DEF Strong, Weak, SameCounts
<1>12. Pending(m) <=> Pending(n)
  BY <1>8, <1>11 DEF Pending, SameFlags
<1>13. FlagsOK(m)
  BY <1>7, <1>8, <1>10, <1>11, <1>12 DEF FlagsOK, SameFlags
<1>14. ASSUME OnceIn(n.proc_todo, "node") PROVE OnceIn(l, "node")
  <2> SUFFICES ASSUME NEW i \in DOMAIN l, NEW j \in DOMAIN l, l[i] = "node", l[j] = "node"
               PROVE  i = j
    BY DEF OnceIn
  <2>1. /\ i + 1 \in DOMAIN n.proc_todo /\ n.proc_todo[i + 1] = l[i]
        /\ j + 1 \in DOMAIN n.proc_todo /\ n.proc_todo[j + 1] = l[j]
        /\ i \in Nat /\ j \in Nat
    BY <1>1, <1>2
  <2>2. i + 1 = j + 1
    BY <1>14, <2>1 DEF OnceIn
  <2> QED BY <2>1, <2>2
<1>15. Occurs("call", n.proc_todo) = Occurs("call", l) + 1
  <2>1. One(Head(n.proc_todo) = "call") = 1
    BY DEF One
  <2> QED BY <1>3, <2>1 DEF More
<1> QED BY <1>7, <1>8, <1>9, <1>12, <1>13, <1>14, <1>15

-----------------------------------------------------------------------------
(* A turn of a read. *)

TurnOf(w, n, th) ==
  \/ /\ Tells(w, n) /\ Works(w.s, n)
     /\ Has(n.todo[th], "node") \/ (n.todo[th] = <<>> /\ Has(n.proc_todo, "node"))
  \/ /\ w.cmd = <<"COMPLETE">> /\ n.todo[th] # <<>> /\ Head(n.todo[th]) = "complete"
     /\ TookOwn(w.s, n, th)
  \/ /\ w.cmd = <<"CALL">> /\ n.todo[th] = <<>> /\ n.proc_todo # <<>>
     /\ Head(n.proc_todo) = "call" /\ TookProc(w.s, n)

LEMMA TurnIs ==
  ASSUME NEW n, n = node, NEW H, NEW o, NEW T, Right(n, H, o, T), n.open, NEW th \in Thread,
         n.todo[th] # <<>> \/ n.proc_todo # <<>>, NEW w, w = Turn(th)
  PROVE  TurnOf(w, n, th)
<1>1. /\ n \in NodeType /\ CountsOK(n) /\ FlagsOK(n) /\ SumsOK(n, o, T)
      /\ T \in [Thread -> ThreadType]
  BY DEF Right
<1>2. NoRefs(n) /\ n.local_strong >= One(n.pending_strong)
  BY <1>1, NoRefsWhenCounted, HeldEnough DEF CountsOK
<1>3. n.todo[th] \in Seq(Own) /\ n.proc_todo \in Seq(Common)
  BY <1>1 DEF NodeType
<1>4. PICK work : work = IF n.todo[th] # <<>> THEN Head(n.todo[th]) ELSE Head(n.proc_todo)
  OBVIOUS
<1>5. PICK taken : taken = IF n.todo[th] # <<>> THEN [n EXCEPT !.todo[th] = Tail(@)]
                           ELSE [n EXCEPT !.proc_todo = Tail(@)]
  OBVIOUS
<1>6. w = CASE work = "node"     -> NodeWork(n)
            [] work = "complete" -> Told("COMPLETE", taken)
            [] work = "call"     -> Told("CALL", taken)
  BY <1>4, <1>5 DEF Turn
<1>7. CASE n.todo[th] # <<>>
  <2>1. work = Head(n.todo[th]) /\ work \in {"node", "complete"}
    BY <1>3, <1>4, <1>7 DEF Own
  <2>2. CASE work = "node"
    <3>1. w = NodeWork(n)
      BY <1>6, <2>2
    <3>2. Tells(w, n) /\ Works(w.s, n)
      BY <1>1, <1>2, <3>1, NodeWorkIs
    <3>3. Has(n.todo[th], "node")
      BY <1>3, <1>7, <2>1, <2>2 DEF Has
    <3> QED BY <3>2, <3>3 DEF TurnOf
  <2>3. CASE work = "complete"
    <3>1. w = Told("COMPLETE", taken)
      BY <1>6, <2>3
    <3>2. taken = [n EXCEPT !.todo[th] = Tail(@)]
      BY <1>5, <1>7
    <3>3. w.cmd = <<"COMPLETE">> /\ TookOwn(w.s, n, th)
      BY <3>1, <3>2 DEF Told, TookOwn
    <3> QED BY <1>7, <2>1, <2>3, <3>3 DEF TurnOf
  <2> QED BY <2>1, <2>2, <2>3
<1>8. CASE n.todo[th] = <<>>
  <2>1. n.proc_todo # <<>> /\ work = Head(n.proc_todo) /\ work \in {"node", "call"}
    BY <1>3, <1>4, <1>8 DEF Common
  <2>2. CASE work = "node"
    <3>1. w = NodeWork(n)
      BY <1>6, <2>2
    <3>2. Tells(w, n) /\ Works(w.s, n)
      BY <1>1, <1>2, <3>1, NodeWorkIs
    <3>3. Has(n.proc_todo, "node")
      BY <1>3, <2>1, <2>2 DEF Has
    <3> QED BY <1>8, <3>2, <3>3 DEF TurnOf
  <2>3. CASE work = "call"
    <3>1. w = Told("CALL", taken)
      BY <1>6, <2>3
    <3>2. taken = [n EXCEPT !.proc_todo = Tail(@)]
      BY <1>5, <1>8
    <3>3. w.cmd = <<"CALL">> /\ TookProc(w.s, n)
      BY <3>1, <3>2 DEF Told, TookProc
    <3> QED BY <1>8, <2>1, <2>3, <3>3 DEF TurnOf
  <2> QED BY <2>1, <2>2, <2>3
<1> QED BY <1>7, <1>8

LEMMA ConcatIs ==
  ASSUME NEW S, NEW l \in Seq(S), NEW e
  PROVE  l \o <<>> = l /\ l \o <<e>> = Append(l, e)
OBVIOUS

Reads(u, t, cmd) == u = [t EXCEPT !.in = @ \o cmd]

LEMMA ReadsIs ==
  ASSUME NEW t \in ThreadType, NEW cmd, NEW u, Reads(u, t, cmd)
  PROVE  /\ cmd = <<>> => u = t
         /\ \A e \in Returns : cmd = <<e>> => Heard(u, t, e)
<1>1. t.in \in Seq(Returns)
  BY DEF ThreadType
<1>2. ASSUME cmd = <<>> PROVE u = t
  <2>1. t.in \o cmd = t.in
    BY <1>1, <1>2, ConcatIs
  <2>2. u = [t EXCEPT !.in = t.in]
    BY <2>1 DEF Reads
  <2> QED BY <2>2 DEF ThreadType
<1>3. ASSUME NEW e \in Returns, cmd = <<e>> PROVE Heard(u, t, e)
  <2>1. t.in \o cmd = Append(t.in, e)
    BY <1>1, <1>3, ConcatIs
  <2> QED BY <2>1 DEF Reads, Heard
<1> QED BY <1>2, <1>3

LEMMA HeardIs ==
  ASSUME NEW t \in ThreadType, NEW e \in Returns, NEW u, Heard(u, t, e)
  PROVE  /\ u \in ThreadType
         /\ e = "CALL" => Moves(t, u, 1, 0, 0)
         /\ e = "RELEASE" => Moves(t, u, 0, 1, 0)
         /\ e = "ACQUIRE" => Moves(t, u, 0, 0 - 1, 0)
         /\ e = "DECREFS" => Moves(t, u, 0, 0, 1)
         /\ e = "INCREFS" => Moves(t, u, 0, 0, 0 - 1)
         /\ e = "COMPLETE" => Moves(t, u, 0, 0, 0)
<1>1. u = [t EXCEPT !.in = Append(@, e)]
  BY DEF Heard
<1> QED BY <1>1, InMoreIs

LEMMA ReadRight ==
  ASSUME NEW n, NEW H, NEW o, NEW T, Right(n, H, o, T), n.open, NEW th \in Thread,
         NEW w, TurnOf(w, n, th), NEW u, Reads(u, T[th], w.cmd), NEW U, Steps(T, U, th, u)
  PROVE  Right(w.s, H, o, U)
<1>1. /\ n \in NodeType /\ FlagsOK(n) /\ T[th] \in ThreadType /\ o \in ObjectType
  BY DEF Right
<1>2. PICK m : m = w.s
  OBVIOUS
<1>3. o.strong \in Int /\ o.weak \in Int /\ 0 - 1 \in Int
  BY <1>1 DEF ObjectType
<1>4. PICK i \in Int : i = o.strong
  BY <1>3
<1>5. PICK j \in Int : j = o.weak
  BY <1>3
<1>6. o.strong = o.strong + 0 /\ o.weak = o.weak + 0
  BY <1>3
<1>7. n.local_strong \in Int /\ n.proc_todo \in Seq(Common)
  BY <1>1 DEF NodeType
<1>8. PICK k \in Int : k = HeldForCalls(n)
  BY <1>7, OneType DEF HeldForCalls
<1>9. PICK l \in Nat : l = Occurs("call", n.proc_todo)
  BY <1>7, OccursType DEF OccursIs
<1>10. PICK s \in Nat : s = One(n.has_strong)
  BY OneType
<1>11. PICK q \in Nat : q = One(n.has_weak)
  BY OneType
<1>12. CASE Tells(w, n) /\ Works(w.s, n)
  <2>1. /\ m \in NodeType /\ SameCounts(m, n) /\ SameCalls(m, n)
        /\ FlagsOK(m) /\ m.refused = n.refused
        /\ Occurs("call", m.proc_todo) = Occurs("call", n.proc_todo)
    BY <1>2, <1>12 DEF Works, Placed, SameLists
  <2>2. HeldForCalls(m) - Occurs("call", m.proc_todo) = k - l /\ k - l = k - l + 0
    BY <1>8, <1>9, <2>1 DEF SameCalls
  <2>3. /\ i - s = i - s + 0 /\ j - q = j - q + 0
        /\ i - 1 = i - 0 + (0 - 1) /\ j - 1 = j - 0 + (0 - 1)
        /\ i - 0 = i - 1 + 1 /\ j - 0 = j - 1 + 1
    OBVIOUS
  <2>4. CASE w.cmd = <<>>
    <3>1. u = T[th] /\ SameHas(m, n)
      <4>1. SameHas(m, n)
        BY <1>2, <1>12, <2>4 DEF Tells
      <4> QED BY <1>1, <2>4, <4>1, ReadsIs
    <3>2. u \in ThreadType /\ Moves(T[th], u, 0, 0, 0)
      BY <1>1, <3>1, OfType DEF Moves
    <3>3. Balances(n, o, m, o, 0, 0, 0)
      BY <1>1, <1>6, <2>1, <3>1, BalancesSame
    <3> QED BY <1>1, <1>2, <2>1, <3>2, <3>3, RightStep
  <2>5. CASE w.cmd = <<"INCREFS">>
    <3>1. ~n.has_weak /\ m.has_weak /\ m.has_strong = n.has_strong
      BY <1>2, <1>12, <2>5 DEF Tells
    <3>2. u \in ThreadType /\ Moves(T[th], u, 0, 0, 0 - 1)
      <4>1. Heard(u, T[th], "INCREFS") /\ "INCREFS" \in Returns
        BY <1>1, <2>5, ReadsIs DEF Returns
      <4> QED BY <1>1, <4>1, HeardIs
    <3>3. One(n.has_weak) = 0 /\ One(m.has_weak) = 1 /\ One(m.has_strong) = s
      BY <1>10, <3>1 DEF One
    <3>4. Balances(n, o, m, o, 0, 0, 0 - 1)
      BY <1>4, <1>5, <1>8, <1>9, <1>10, <2>2, <2>3, <3>3 DEF Balances
    <3> QED BY <1>1, <1>2, <1>3, <2>1, <3>2, <3>4, RightStep
  <2>6. CASE w.cmd = <<"ACQUIRE">>
    <3>1. ~n.has_strong /\ m.has_strong /\ m.has_weak = n.has_weak
      BY <1>2, <1>12, <2>6 DEF Tells
    <3>2. u \in ThreadType /\ Moves(T[th], u, 0, 0 - 1, 0)
      <4>1. Heard(u, T[th], "ACQUIRE") /\ "ACQUIRE" \in Returns
        BY <1>1, <2>6, ReadsIs DEF Returns
      <4> QED BY <1>1, <4>1, HeardIs
    <3>3. One(n.has_strong) = 0 /\ One(m.has_strong) = 1 /\ One(m.has_weak) = q
      BY <1>11, <3>1 DEF One
    <3>4. Balances(n, o, m, o, 0, 0 - 1, 0)
      BY <1>4, <1>5, <1>8, <1>9, <1>11, <2>2, <2>3, <3>3 DEF Balances
    <3> QED BY <1>1, <1>2, <1>3, <2>1, <3>2, <3>4, RightStep
  <2>7. CASE w.cmd = <<"RELEASE">>
    <3>1. n.has_strong /\ ~m.has_strong /\ m.has_weak = n.has_weak
      BY <1>2, <1>12, <2>7 DEF Tells
    <3>2. u \in ThreadType /\ Moves(T[th], u, 0, 1, 0)
      <4>1. Heard(u, T[th], "RELEASE") /\ "RELEASE" \in Returns
        BY <1>1, <2>7, ReadsIs DEF Returns
      <4> QED BY <1>1, <4>1, HeardIs
    <3>3. One(n.has_strong) = 1 /\ One(m.has_strong) = 0 /\ One(m.has_weak) = q
      BY <1>11, <3>1 DEF One
    <3>4. Balances(n, o, m, o, 0, 1, 0)
      BY <1>4, <1>5, <1>8, <1>9, <1>11, <2>2, <2>3, <3>3 DEF Balances
    <3> QED BY <1>1, <1>2, <1>3, <2>1, <3>2, <3>4, RightStep
  <2>8. CASE w.cmd = <<"DECREFS">>
    <3>1. n.has_weak /\ ~m.has_weak /\ m.has_strong = n.has_strong
      BY <1>2, <1>12, <2>8 DEF Tells
    <3>2. u \in ThreadType /\ Moves(T[th], u, 0, 0, 1)
      <4>1. Heard(u, T[th], "DECREFS") /\ "DECREFS" \in Returns
        BY <1>1, <2>8, ReadsIs DEF Returns
      <4> QED BY <1>1, <4>1, HeardIs
    <3>3. One(n.has_weak) = 1 /\ One(m.has_weak) = 0 /\ One(m.has_strong) = s
      BY <1>10, <3>1 DEF One
    <3>4. Balances(n, o, m, o, 0, 0, 1)
      BY <1>4, <1>5, <1>8, <1>9, <1>10, <2>2, <2>3, <3>3 DEF Balances
    <3> QED BY <1>1, <1>2, <1>3, <2>1, <3>2, <3>4, RightStep
  <2> QED BY <1>12, <2>4, <2>5, <2>6, <2>7, <2>8 DEF Tells
<1>13. CASE /\ w.cmd = <<"COMPLETE">> /\ n.todo[th] # <<>> /\ Head(n.todo[th]) = "complete"
            /\ TookOwn(w.s, n, th)
  <2>1. /\ m \in NodeType /\ SameCounts(m, n) /\ SameFlags(m, n) /\ SameLocal(m, n)
        /\ FlagsOK(m) /\ m.proc_todo = n.proc_todo
    BY <1>1, <1>2, <1>13, TookOwnIs
  <2>2. SameCalls(m, n) /\ SameHas(m, n) /\ m.refused = n.refused
        /\ Occurs("call", m.proc_todo) = Occurs("call", n.proc_todo)
    BY <2>1 DEF SameCalls, SameHas, HeldForCalls, SameLocal, SameFlags
  <2>3. Balances(n, o, m, o, 0, 0, 0)
    BY <1>1, <1>6, <2>1, <2>2, BalancesSame
  <2>4. u \in ThreadType /\ Moves(T[th], u, 0, 0, 0)
    <3>1. Heard(u, T[th], "COMPLETE") /\ "COMPLETE" \in Returns
      BY <1>1, <1>13, ReadsIs DEF Returns
    <3> QED BY <1>1, <3>1, HeardIs
  <2> QED BY <1>1, <1>2, <2>1, <2>2, <2>3, <2>4, RightStep
<1>14. CASE /\ w.cmd = <<"CALL">> /\ n.todo[th] = <<>> /\ n.proc_todo # <<>>
            /\ Head(n.proc_todo) = "call" /\ TookProc(w.s, n)
  <2>1. /\ m \in NodeType /\ SameCounts(m, n) /\ SameFlags(m, n) /\ SameLocal(m, n)
        /\ FlagsOK(m) /\ Occurs("call", n.proc_todo) = Occurs("call", m.proc_todo) + 1
    BY <1>1, <1>2, <1>14, TookProcIs
  <2>2. SameCalls(m, n) /\ SameHas(m, n) /\ m.refused = n.refused
    BY <2>1 DEF SameCalls, SameHas, HeldForCalls, SameLocal, SameFlags
  <2>3. Balances(n, o, m, o, 1, 0, 0)
    <3>1. m.proc_todo \in Seq(Common)
      BY <2>1 DEF NodeType
    <3>2. PICK c \in Nat : c = Occurs("call", m.proc_todo)
      BY <3>1, OccursType DEF OccursIs
    <3>3. l = c + 1 /\ HeldForCalls(m) = k
      BY <1>8, <1>9, <2>1, <2>2, <3>2 DEF SameCalls
    <3>4. k - c = k - l + 1 /\ i - s = i - s + 0 /\ j - q = j - q + 0
      BY <3>3
    <3>5. One(m.has_strong) = s /\ One(m.has_weak) = q
      BY <1>10, <1>11, <2>2 DEF SameHas
    <3> QED BY <1>4, <1>5, <1>8, <1>9, <1>10, <1>11, <3>2, <3>3, <3>4, <3>5 DEF Balances
  <2>4. u \in ThreadType /\ Moves(T[th], u, 1, 0, 0)
    <3>1. Heard(u, T[th], "CALL") /\ "CALL" \in Returns
      BY <1>1, <1>14, ReadsIs DEF Returns
    <3> QED BY <1>1, <3>1, HeardIs
  <2> QED BY <1>1, <1>2, <2>1, <2>2, <2>3, <2>4, RightStep
<1> QED BY <1>12, <1>13, <1>14 DEF TurnOf

-----------------------------------------------------------------------------
(* A thread executes what it was told. *)

LEMMA TakenIs ==
  ASSUME NEW t \in ThreadType, t.in # <<>>, NEW v, Taken(v, t)
  PROVE  /\ v \in ThreadType /\ Head(t.in) \in Returns
         /\ Head(t.in) = "CALL" => Moves(t, v, 0 - 1, 0, 0)
         /\ Head(t.in) = "RELEASE" => Moves(t, v, 0, 0 - 1, 0)
         /\ Head(t.in) = "ACQUIRE" => Moves(t, v, 0, 1, 0)
         /\ Head(t.in) = "DECREFS" => Moves(t, v, 0, 0, 0 - 1)
         /\ Head(t.in) = "INCREFS" => Moves(t, v, 0, 0, 1)
         /\ Head(t.in) = "COMPLETE" => Moves(t, v, 0, 0, 0)
<1>1. v = [t EXCEPT !.in = Tail(@)]
  BY DEF Taken
<1> QED BY <1>1, InTailIs

LEMMA AnsweredIs ==
  ASSUME NEW v \in ThreadType, NEW e \in Answers, NEW u, Answered(u, v, e)
  PROVE  /\ u \in ThreadType
         /\ e = "FREE" => Moves(v, u, 1, 0, 0)
         /\ e # "FREE" => Moves(v, u, 0, 0, 0)
<1>1. u = [v EXCEPT !.out = Append(@, e)]
  BY DEF Answered
<1> QED BY <1>1, OutMoreIs

LEMMA DoesIs ==
  ASSUME NEW t \in ThreadType, NEW d \in {"loop", "send", "failed", "call"}, NEW u, Does(u, t, d)
  PROVE  /\ u \in ThreadType
         /\ (d = "call") = (t.doing = "call") => Moves(t, u, 0, 0, 0)
         /\ d = "call" /\ t.doing # "call" => Moves(t, u, 1, 0, 0)
         /\ d # "call" /\ t.doing = "call" => Moves(t, u, 0 - 1, 0, 0)
<1>1. u = [t EXCEPT !.doing = d]
  BY DEF Does
<1> QED BY <1>1, DoingIs

Owes(u, v, x, y) == u = [v EXCEPT !.strongDerefs = x, !.weakDerefs = y]

LEMMA OwesIs ==
  ASSUME NEW v \in ThreadType, NEW x \in Nat, NEW y \in Nat, NEW u, Owes(u, v, x, y)
  PROVE  u \in ThreadType /\ Moves(v, u, 0, x - v.strongDerefs, y - v.weakDerefs)
<1>1. u = [v EXCEPT !.weakDerefs = y, !.strongDerefs = x]
  BY DEF Owes, ThreadType
<1> QED BY <1>1, DerefsIs

\* The step, and what the object gets in it.
Executes(p, o, u, t) ==
  \E v : /\ Taken(v, t)
         /\ \/ /\ Head(t.in) = "INCREFS" /\ Answered(u, v, "INCREFS_DONE")
               /\ p.weak = o.weak + 1 /\ p.strong = o.strong
            \/ /\ Head(t.in) = "ACQUIRE" /\ Answered(u, v, "ACQUIRE_DONE")
               /\ p.weak = o.weak /\ p.strong = o.strong + 1
            \/ /\ p.weak = o.weak /\ p.strong = o.strong
               /\ \/ Head(t.in) = "RELEASE" /\ Owes(u, v, v.strongDerefs + 1, v.weakDerefs)
                  \/ Head(t.in) = "DECREFS" /\ Owes(u, v, v.strongDerefs, v.weakDerefs + 1)
                  \/ Head(t.in) = "COMPLETE" /\ Does(u, v, "loop")
                  \/ /\ Head(t.in) = "CALL"
                     /\ Does(u, v, "call") \/ Answered(u, v, "FREE")

Gets(p, o, u, t) ==
  \E d, e \in Int : p.strong = o.strong + d /\ p.weak = o.weak + e /\ Moves(t, u, 0, d, e)

LEMMA ExecuteMoves ==
  ASSUME NEW t \in ThreadType, t.in # <<>>, t.doing # "call", NEW u,
         NEW o \in ObjectType, NEW p \in ObjectType, Executes(p, o, u, t)
  PROVE  u \in ThreadType /\ Gets(p, o, u, t)
<1>1. PICK v : /\ Taken(v, t)
               /\ \/ /\ Head(t.in) = "INCREFS" /\ Answered(u, v, "INCREFS_DONE")
                     /\ p.weak = o.weak + 1 /\ p.strong = o.strong
                  \/ /\ Head(t.in) = "ACQUIRE" /\ Answered(u, v, "ACQUIRE_DONE")
                     /\ p.weak = o.weak /\ p.strong = o.strong + 1
                  \/ /\ p.weak = o.weak /\ p.strong = o.strong
                     /\ \/ Head(t.in) = "RELEASE" /\ Owes(u, v, v.strongDerefs + 1, v.weakDerefs)
                        \/ Head(t.in) = "DECREFS" /\ Owes(u, v, v.strongDerefs, v.weakDerefs + 1)
                        \/ Head(t.in) = "COMPLETE" /\ Does(u, v, "loop")
                        \/ /\ Head(t.in) = "CALL"
                           /\ Does(u, v, "call") \/ Answered(u, v, "FREE")
  BY DEF Executes
<1>2. v \in ThreadType /\ v.doing = t.doing
  <2>1. v \in ThreadType
    BY <1>1, TakenIs
  <2>2. v = [t EXCEPT !.in = Tail(@)]
    BY <1>1 DEF Taken
  <2> QED BY <2>1, <2>2 DEF ThreadType
<1>3. o.strong \in Int /\ o.weak \in Int /\ p.strong \in Int /\ p.weak \in Int
      /\ o.strong = o.strong + 0 /\ o.weak = o.weak + 0 /\ 0 - 1 \in Int
  BY DEF ObjectType
<1>4. v.strongDerefs \in Nat /\ v.weakDerefs \in Nat
  BY <1>2 DEF ThreadType
<1>5. CASE /\ Head(t.in) = "INCREFS" /\ Answered(u, v, "INCREFS_DONE")
           /\ p.weak = o.weak + 1 /\ p.strong = o.strong
  <2>1. Moves(t, v, 0, 0, 1)
    BY <1>1, <1>5, TakenIs
  <2>2. u \in ThreadType /\ Moves(v, u, 0, 0, 0)
    <3>1. "INCREFS_DONE" \in Answers /\ "INCREFS_DONE" # "FREE"
      BY DEF Answers
    <3> QED BY <1>2, <1>5, <3>1, AnsweredIs
  <2>3. Moves(t, u, 0 + 0, 0 + 0, 1 + 0)
    BY <1>2, <2>1, <2>2, MovesAdd
  <2>4. Moves(t, u, 0, 0, 1)
    BY <2>3
  <2> QED BY <1>3, <1>5, <2>2, <2>4 DEF Gets
<1>6. CASE /\ Head(t.in) = "ACQUIRE" /\ Answered(u, v, "ACQUIRE_DONE")
           /\ p.weak = o.weak /\ p.strong = o.strong + 1
  <2>1. Moves(t, v, 0, 1, 0)
    BY <1>1, <1>6, TakenIs
  <2>2. u \in ThreadType /\ Moves(v, u, 0, 0, 0)
    <3>1. "ACQUIRE_DONE" \in Answers /\ "ACQUIRE_DONE" # "FREE"
      BY DEF Answers
    <3> QED BY <1>2, <1>6, <3>1, AnsweredIs
  <2>3. Moves(t, u, 0 + 0, 1 + 0, 0 + 0)
    BY <1>2, <2>1, <2>2, MovesAdd
  <2>4. Moves(t, u, 0, 1, 0)
    BY <2>3
  <2> QED BY <1>3, <1>6, <2>2, <2>4 DEF Gets
<1>7. CASE p.weak = o.weak /\ p.strong = o.strong
           /\ Head(t.in) = "RELEASE" /\ Owes(u, v, v.strongDerefs + 1, v.weakDerefs)
  <2>1. Moves(t, v, 0, 0 - 1, 0)
    BY <1>1, <1>7, TakenIs
  <2>2. u \in ThreadType /\ Moves(v, u, 0, 1, 0)
    <3>1. PICK x \in Nat : x = v.strongDerefs + 1
      BY <1>4
    <3>2. u \in ThreadType /\ Moves(v, u, 0, x - v.strongDerefs, v.weakDerefs - v.weakDerefs)
      BY <1>2, <1>4, <1>7, <3>1, OwesIs
    <3>3. x - v.strongDerefs = 1 /\ v.weakDerefs - v.weakDerefs = 0
      BY <1>4, <3>1
    <3> QED BY <3>2, <3>3
  <2>5. PICK less \in Int : less = 0 - 1
    BY <1>3
  <2>6. Moves(t, v, 0, less, 0)
    BY <2>1, <2>5
  <2>3. Moves(t, u, 0 + 0, less + 1, 0 + 0)
    BY <1>2, <2>2, <2>6, MovesAdd
  <2>4. Moves(t, u, 0, 0, 0)
    BY <2>3, <2>5
  <2> QED BY <1>3, <1>7, <2>2, <2>4 DEF Gets
<1>8. CASE p.weak = o.weak /\ p.strong = o.strong
           /\ Head(t.in) = "DECREFS" /\ Owes(u, v, v.strongDerefs, v.weakDerefs + 1)
  <2>1. Moves(t, v, 0, 0, 0 - 1)
    BY <1>1, <1>8, TakenIs
  <2>2. u \in ThreadType /\ Moves(v, u, 0, 0, 1)
    <3>1. PICK x \in Nat : x = v.weakDerefs + 1
      BY <1>4
    <3>2. u \in ThreadType /\ Moves(v, u, 0, v.strongDerefs - v.strongDerefs, x - v.weakDerefs)
      BY <1>2, <1>4, <1>8, <3>1, OwesIs
    <3>3. x - v.weakDerefs = 1 /\ v.strongDerefs - v.strongDerefs = 0
      BY <1>4, <3>1
    <3> QED BY <3>2, <3>3
  <2>5. PICK less \in Int : less = 0 - 1
    BY <1>3
  <2>6. Moves(t, v, 0, 0, less)
    BY <2>1, <2>5
  <2>3. Moves(t, u, 0 + 0, 0 + 0, less + 1)
    BY <1>2, <2>2, <2>6, MovesAdd
  <2>4. Moves(t, u, 0, 0, 0)
    BY <2>3, <2>5
  <2> QED BY <1>3, <1>8, <2>2, <2>4 DEF Gets
<1>9. CASE p.weak = o.weak /\ p.strong = o.strong /\ Head(t.in) = "COMPLETE" /\ Does(u, v, "loop")
  <2>1. Moves(t, v, 0, 0, 0)
    BY <1>1, <1>9, TakenIs
  <2>2. u \in ThreadType /\ Moves(v, u, 0, 0, 0)
    <3>1. ("loop" = "call") = (v.doing = "call") /\ "loop" \in {"loop", "send", "failed", "call"}
      BY <1>2
    <3> QED BY <1>2, <1>9, <3>1, DoesIs
  <2>3. Moves(t, u, 0 + 0, 0 + 0, 0 + 0)
    BY <1>2, <2>1, <2>2, MovesAdd
  <2>4. Moves(t, u, 0, 0, 0)
    BY <2>3
  <2> QED BY <1>3, <1>9, <2>2, <2>4 DEF Gets
<1>10. CASE p.weak = o.weak /\ p.strong = o.strong /\ Head(t.in) = "CALL"
            /\ (Does(u, v, "call") \/ Answered(u, v, "FREE"))
  <2>1. Moves(t, v, 0 - 1, 0, 0)
    BY <1>1, <1>10, TakenIs
  <2>2. u \in ThreadType /\ Moves(v, u, 1, 0, 0)
    <3>1. CASE Does(u, v, "call")
      <4>1. "call" \in {"loop", "send", "failed", "call"} /\ v.doing # "call"
        BY <1>2
      <4> QED BY <1>2, <3>1, <4>1, DoesIs
    <3>2. CASE Answered(u, v, "FREE")
      <4>1. "FREE" \in Answers
        BY DEF Answers
      <4> QED BY <1>2, <3>2, <4>1, AnsweredIs
    <3> QED BY <1>10, <3>1, <3>2
  <2>3. Moves(t, u, (0 - 1) + 1, 0 + 0, 0 + 0)
    BY <1>2, <1>3, <2>1, <2>2, MovesAdd
  <2>4. Moves(t, u, 0, 0, 0)
    BY <2>3
  <2> QED BY <1>3, <1>10, <2>2, <2>4 DEF Gets
<1> QED BY <1>1, <1>5, <1>6, <1>7, <1>8, <1>9, <1>10

LEMMA ExecuteRight ==
  ASSUME NEW n, NEW H, NEW o, NEW T, Right(n, H, o, T), n.open, NEW th \in Thread,
         T[th].in # <<>>, T[th].doing # "call",
         NEW u, NEW p \in ObjectType, Executes(p, o, u, T[th]), NEW U, Steps(T, U, th, u)
  PROVE  Right(n, H, p, U)
<1>1. o \in ObjectType /\ T[th] \in ThreadType
  BY DEF Right
<1>2. u \in ThreadType /\ Gets(p, o, u, T[th])
  BY <1>1, ExecuteMoves
<1>3. PICK d, e \in Int :
        p.strong = o.strong + d /\ p.weak = o.weak + e /\ Moves(T[th], u, 0, d, e)
  BY <1>2 DEF Gets
<1> QED BY <1>2, <1>3, RightThread

\* The call returns, and its buffer is to be freed.
LEMMA EndCallRight ==
  ASSUME NEW n, NEW H, NEW o, NEW T, Right(n, H, o, T), n.open, NEW th \in Thread,
         T[th].doing = "call", NEW v, Does(v, T[th], "loop"), NEW u, Answered(u, v, "FREE"),
         NEW U, Steps(T, U, th, u), NEW p \in ObjectType, p.strong = o.strong, p.weak = o.weak
  PROVE  Right(n, H, p, U)
<1>1. T[th] \in ThreadType /\ 0 - 1 \in Int
  BY DEF Right
<1>2. v \in ThreadType /\ Moves(T[th], v, 0 - 1, 0, 0)
  <2>1. "loop" \in {"loop", "send", "failed", "call"} /\ "loop" # "call"
    OBVIOUS
  <2> QED BY <1>1, <2>1, DoesIs
<1>3. u \in ThreadType /\ Moves(v, u, 1, 0, 0)
  <2>1. "FREE" \in Answers
    BY DEF Answers
  <2> QED BY <1>2, <2>1, AnsweredIs
<1>4. Moves(T[th], u, (0 - 1) + 1, 0 + 0, 0 + 0)
  BY <1>1, <1>2, <1>3, MovesAdd
<1>5. Moves(T[th], u, 0, 0, 0)
  BY <1>4
<1> QED BY <1>3, <1>5, RightQuietThread

\* What the driver has released is dropped.
LEMMA DerefsRight ==
  ASSUME NEW n, NEW H, NEW o, NEW T, Right(n, H, o, T), n.open, NEW th \in Thread,
         NEW u, Owes(u, T[th], 0, 0), NEW U, Steps(T, U, th, u), NEW p \in ObjectType,
         p.strong = o.strong - T[th].strongDerefs, p.weak = o.weak - T[th].weakDerefs
  PROVE  Right(n, H, p, U)
<1>1. T[th] \in ThreadType /\ o \in ObjectType
  BY DEF Right
<1>2. PICK x \in Nat : x = T[th].strongDerefs
  BY <1>1 DEF ThreadType
<1>3. PICK y \in Nat : y = T[th].weakDerefs
  BY <1>1 DEF ThreadType
<1>4. u \in ThreadType /\ Moves(T[th], u, 0, 0 - x, 0 - y)
  <2>1. u \in ThreadType /\ Moves(T[th], u, 0, 0 - T[th].strongDerefs, 0 - T[th].weakDerefs)
    BY <1>1, OwesIs
  <2> QED BY <1>2, <1>3, <2>1
<1>5. p.strong = o.strong + (0 - x) /\ p.weak = o.weak + (0 - y) /\ 0 - x \in Int /\ 0 - y \in Int
  BY <1>1, <1>2, <1>3 DEF ObjectType
<1> QED BY <1>4, <1>5, RightThread

-----------------------------------------------------------------------------
(* The invariant holds at first, and every step keeps it. *)

LEMMA IdleIs ==
  Idle \in ThreadType /\ CallsOf(Idle) = 0 /\ StrongOf(Idle) = 0 /\ WeakOf(Idle) = 0
<1>1. /\ Idle.in = <<>> /\ Idle.out = <<>> /\ Idle.weakDerefs = 0 /\ Idle.strongDerefs = 0
      /\ Idle.doing = "loop"
  BY DEF Idle
<1>2. \A c : Occurs(c, <<>>) = 0
  BY OccursNever
<1>3. One("loop" = "call") = 0
  BY DEF One
<1>4. Idle \in ThreadType
  <2>1. <<>> \in Seq(Returns) /\ <<>> \in Seq(Answers)
    OBVIOUS
  <2> QED BY <2>1 DEF Idle, ThreadType
<1>5. CallsOf(Idle) = 0
  <2>1. Occurs("CALL", <<>>) = 0 /\ Occurs("FREE", <<>>) = 0
    BY <1>2
  <2>2. CallsOf(Idle) = 0 + 0 + 0
    BY <1>1, <1>3, <2>1 DEF CallsOf
  <2> QED BY <2>2
<1>6. StrongOf(Idle) = 0
  <2>1. Occurs("RELEASE", <<>>) = 0 /\ Occurs("ACQUIRE", <<>>) = 0
    BY <1>2
  <2>2. StrongOf(Idle) = 0 + 0 - 0
    BY <1>1, <2>1 DEF StrongOf
  <2> QED BY <2>2
<1>7. WeakOf(Idle) = 0
  <2>1. Occurs("DECREFS", <<>>) = 0 /\ Occurs("INCREFS", <<>>) = 0
    BY <1>2
  <2>2. WeakOf(Idle) = 0 + 0 - 0
    BY <1>1, <2>1 DEF WeakOf
  <2> QED BY <2>2
<1> QED BY <1>4, <1>5, <1>6, <1>7

LEMMA InitRight == Init => CountInv
<1> SUFFICES ASSUME Init PROVE CountInv
  OBVIOUS
<1>1. PICK n : n = node
  OBVIOUS
<1>2. /\ n.made = FALSE /\ n.open = TRUE /\ n.internal_strong = 0 /\ n.local_strong = 0
      /\ n.local_weak = 0 /\ n.has_strong = FALSE /\ n.has_weak = FALSE
      /\ n.pending_strong = FALSE /\ n.pending_weak = FALSE /\ n.refs = {}
      /\ n.strong = [h \in Holder |-> 0] /\ n.weak = [h \in Holder |-> 0]
      /\ n.todo = [th \in Thread |-> <<>>] /\ n.proc_todo = <<>>
      /\ n.refused = FALSE /\ n.diverted = FALSE
  BY <1>1 DEF Init
<1>3. n \in NodeType
  <2>1. <<>> \in Seq(Own) /\ <<>> \in Seq(Common)
    OBVIOUS
  <2>2. /\ [h \in Holder |-> 0] \in [Holder -> Nat]
        /\ [th \in Thread |-> <<>>] \in [Thread -> Seq(Own)]
    BY <2>1
  <2> QED BY <1>1, <2>1, <2>2 DEF Init, NodeType
<1>4. /\ holder \in HolderType /\ object \in ObjectType
      /\ thread \in [Thread -> ThreadType] /\ \A th \in Thread : thread[th] = Idle
      /\ object.strong = 0 /\ object.weak = 0
      /\ \A h \in Holder : holder[h].buffers = 0 /\ holder[h].proxy = "none"
  BY IdleIs DEF Init, HolderType, ObjectType
<1>5. CountsOK(n)
  <2>1. {h \in n.refs : n.strong[h] > 0} = {}
    BY <1>2
  <2>2. Cardinality({}) = 0
    BY FS_EmptySet
  <2>3. CardOK(n)
    BY <1>2, <2>1, <2>2 DEF CardOK
  <2>4. {h \in Holder : n.strong[h] + n.weak[h] > 0} = {}
    BY <1>2
  <2> QED BY <1>2, <2>3, <2>4 DEF CountsOK, RefsOK
<1>6. FlagsOK(n)
  <2>1. ~Strong(n) /\ ~Weak(n)
    BY <1>2 DEF Strong, Weak
  <2>2. One(n.pending_weak) = 0
    BY <1>2 DEF One
  <2> QED BY <1>2, <2>1, <2>2 DEF FlagsOK, Pending
<1>7. SumsOK(n, object, thread)
  <2>0. IsFiniteSet(Thread)
    BY RefsAssumption
  <2>1. Calls(thread) = 0
    <3>1. PICK f : f = [th \in Thread |-> CallsOf(thread[th])]
      OBVIOUS
    <3>2. f \in [Thread -> {0}]
      BY <1>4, <3>1, IdleIs
    <3>3. SumFunction(f) = 0
      BY <2>0, <3>2, SumOfNothing
    <3> QED BY <3>1, <3>3 DEF Calls
  <2>2. Strongs(thread) = 0
    <3>1. PICK f : f = [th \in Thread |-> StrongOf(thread[th])]
      OBVIOUS
    <3>2. f \in [Thread -> {0}]
      BY <1>4, <3>1, IdleIs
    <3>3. SumFunction(f) = 0
      BY <2>0, <3>2, SumOfNothing
    <3> QED BY <3>1, <3>3 DEF Strongs
  <2>3. Weaks(thread) = 0
    <3>1. PICK f : f = [th \in Thread |-> WeakOf(thread[th])]
      OBVIOUS
    <3>2. f \in [Thread -> {0}]
      BY <1>4, <3>1, IdleIs
    <3>3. SumFunction(f) = 0
      BY <2>0, <3>2, SumOfNothing
    <3> QED BY <3>1, <3>3 DEF Weaks
  <2>4. One(n.pending_strong) = 0 /\ One(n.has_strong) = 0 /\ One(n.has_weak) = 0
    BY <1>2 DEF One
  <2>5. Occurs("call", n.proc_todo) = 0
    BY <1>2, OccursNever
  <2>6. HeldForCalls(n) = 0 - 0
    BY <1>2, <2>4 DEF HeldForCalls
  <2>7. 0 - 0 = 0 + 0 /\ 0 = 0 + 0
    OBVIOUS
  <2> QED BY <1>4, <2>1, <2>2, <2>3, <2>4, <2>5, <2>6, <2>7 DEF SumsOK
<1>8. HeldOK(n, holder)
  <2> SUFFICES ASSUME NEW h \in Holder \ Unruly PROVE HeldAs(n, holder[h], h)
    BY DEF HeldOK
  <2>1. Proxied(holder[h], 0, 0) /\ holder[h].buffers = 0
    BY <1>4, ProxyIs
  <2>2. n.strong[h] = 0 /\ n.weak[h] = 0 /\ 0 = 0 + 0
    BY <1>2
  <2> QED BY <2>1, <2>2 DEF HeldAs, Proxied
<1>9. Right(node, holder, object, thread)
  BY <1>1, <1>2, <1>3, <1>4, <1>5, <1>6, <1>7, <1>8 DEF Right
<1>10. /\ lock \in [by : Thread \cup {NoThread}, proc : BOOLEAN]
       /\ sends \in 0..MaxSends /\ passes \in 0..MaxPasses
  BY RefsAssumption DEF Init, Free
<1> QED BY <1>9, <1>10 DEF CountInv

LEMMA ExecuteIs ==
  ASSUME NEW o, o = object, NEW T, T = thread, o \in ObjectType, T \in [Thread -> ThreadType],
         NEW th \in Thread, Execute(th), NEW p, p = object', NEW U, U = thread'
  PROVE  /\ p \in ObjectType /\ T[th].in # <<>> /\ T[th].doing # "call" /\ node.open
         /\ \E u : Steps(T, U, th, u) /\ Executes(p, o, u, T[th])
<1>1. T[th].in # <<>> /\ T[th].doing # "call" /\ node.open
  BY DEF Execute
<1>2. T[th] \in ThreadType
  OBVIOUS
<1>3. PICK v : v = [T[th] EXCEPT !.in = Tail(@)]
  OBVIOUS
<1>4. Taken(v, T[th]) /\ v \in ThreadType
  <2>1. Taken(v, T[th])
    BY <1>3 DEF Taken
  <2> QED BY <1>1, <1>2, <2>1, TakenIs
<1>5. Head(T[th].in) \in Returns
  BY <1>1, <1>2, <1>4, TakenIs
<1>6. o.strong + 1 \in Int /\ o.weak + 1 \in Int
  BY DEF ObjectType
<1>7. CASE Head(T[th].in) = "INCREFS"
  <2>1. PICK u : u = [v EXCEPT !.out = Append(@, "INCREFS_DONE")]
    OBVIOUS
  <2>2. Steps(T, U, th, u)
    BY <1>3, <1>7, <2>1 DEF Execute, Steps
  <2>3. p \in ObjectType /\ p.weak = o.weak + 1 /\ p.strong = o.strong
    <3>1. p = [o EXCEPT !.weak = @ + 1, !.misused = @ \/ ~(object.alive \/ object.weak > 0)]
      BY <1>7 DEF Execute
    <3> QED BY <1>6, <3>1 DEF ObjectType
  <2>4. Answered(u, v, "INCREFS_DONE")
    BY <2>1 DEF Answered
  <2>5. Executes(p, o, u, T[th])
    BY <1>4, <1>7, <2>3, <2>4 DEF Executes
  <2> QED BY <1>1, <2>2, <2>3, <2>5
<1>8. CASE Head(T[th].in) = "ACQUIRE"
  <2>1. PICK u : u = [v EXCEPT !.out = Append(@, "ACQUIRE_DONE")]
    OBVIOUS
  <2>2. Steps(T, U, th, u)
    BY <1>3, <1>8, <2>1 DEF Execute, Steps
  <2>3. p \in ObjectType /\ p.weak = o.weak /\ p.strong = o.strong + 1
    <3>1. p = [o EXCEPT !.strong = @ + 1, !.misused = @ \/ ~object.alive]
      BY <1>8 DEF Execute
    <3> QED BY <1>6, <3>1 DEF ObjectType
  <2>4. Answered(u, v, "ACQUIRE_DONE")
    BY <2>1 DEF Answered
  <2>5. Executes(p, o, u, T[th])
    BY <1>4, <1>8, <2>3, <2>4 DEF Executes
  <2> QED BY <1>1, <2>2, <2>3, <2>5
<1>9. CASE Head(T[th].in) = "RELEASE"
  <2>1. PICK u : u = [v EXCEPT !.strongDerefs = @ + 1]
    OBVIOUS
  <2>2. Steps(T, U, th, u) /\ p = o
    BY <1>3, <1>9, <2>1 DEF Execute, Steps
  <2>3. Owes(u, v, v.strongDerefs + 1, v.weakDerefs)
    BY <1>4, <2>1 DEF Owes, ThreadType
  <2>4. Executes(p, o, u, T[th])
    BY <1>4, <1>9, <2>2, <2>3 DEF Executes
  <2> QED BY <1>1, <2>2, <2>4
<1>10. CASE Head(T[th].in) = "DECREFS"
  <2>1. PICK u : u = [v EXCEPT !.weakDerefs = @ + 1]
    OBVIOUS
  <2>2. Steps(T, U, th, u) /\ p = o
    BY <1>3, <1>10, <2>1 DEF Execute, Steps
  <2>3. Owes(u, v, v.strongDerefs, v.weakDerefs + 1)
    BY <1>4, <2>1 DEF Owes, ThreadType
  <2>4. Executes(p, o, u, T[th])
    BY <1>4, <1>10, <2>2, <2>3 DEF Executes
  <2> QED BY <1>1, <2>2, <2>4
<1>11. CASE Head(T[th].in) = "COMPLETE"
  <2>1. PICK u : u = [v EXCEPT !.doing = "loop"]
    OBVIOUS
  <2>2. Steps(T, U, th, u) /\ p = Dropped(o, U)
    BY <1>3, <1>11, <2>1 DEF Execute, Steps
  <2>3. p \in ObjectType /\ p.weak = o.weak /\ p.strong = o.strong
    BY <2>2, DroppedIs
  <2>4. Does(u, v, "loop")
    BY <2>1 DEF Does
  <2>5. Executes(p, o, u, T[th])
    BY <1>4, <1>11, <2>3, <2>4 DEF Executes
  <2> QED BY <1>1, <2>2, <2>3, <2>5
<1>12. CASE Head(T[th].in) = "CALL"
  <2>1. PICK u : u = IF object.alive THEN [v EXCEPT !.doing = "call"]
                     ELSE [v EXCEPT !.out = Append(@, "FREE")]
    OBVIOUS
  <2>2. Steps(T, U, th, u)
    BY <1>3, <1>12, <2>1 DEF Execute, Steps
  <2>3. p \in ObjectType /\ p.weak = o.weak /\ p.strong = o.strong
    <3>1. p = [o EXCEPT !.misused = @ \/ ~(object.alive \/ object.weak > 0)]
      BY <1>12 DEF Execute
    <3> QED BY <3>1 DEF ObjectType
  <2>4. Does(u, v, "call") \/ Answered(u, v, "FREE")
    BY <2>1 DEF Does, Answered
  <2>5. Executes(p, o, u, T[th])
    BY <1>4, <1>12, <2>3, <2>4 DEF Executes
  <2> QED BY <1>1, <2>2, <2>3, <2>5
<1> QED BY <1>5, <1>7, <1>8, <1>9, <1>10, <1>11, <1>12 DEF Returns

\* The owner is gone, and the references outlive it.
LEMMA OwnerDiesRight ==
  ASSUME Right(node, holder, object, thread), OwnerDies
  PROVE  Right(node', holder', object', thread') /\ ~node'.open /\ node'.diverted = node.diverted
<1>1. PICK n : n = node
  OBVIOUS
<1>2. n \in NodeType /\ CountsOK(n) /\ object \in ObjectType /\ holder \in HolderType
  BY <1>1 DEF Right
<1>3. PICK r : r = IF n.made THEN NodeRelease(n) ELSE n
  OBVIOUS
<1>4. r \in NodeType /\ SameCounts(r, n) /\ r.diverted = n.diverted
  <2>1. CASE ~n.made
    BY <1>2, <1>3, <2>1 DEF SameCounts
  <2>2. CASE n.made /\ n.refs = {}
    <3>1. PICK f : f = Freed(n)
      OBVIOUS
    <3>2. f \in NodeType /\ SameCounts(f, n) /\ f.diverted = n.diverted
      BY <1>2, <3>1, FreedIs DEF SameLocal
    <3>3. r = [f EXCEPT !.open = FALSE]
      BY <1>3, <2>2, <3>1 DEF NodeRelease
    <3> QED BY <3>2, <3>3 DEF NodeType, SameCounts
  <2>3. CASE n.made /\ n.refs # {}
    <3>1. PICK f : f = Unlisted(n)
      OBVIOUS
    <3>2. f \in NodeType /\ SameCounts(f, n) /\ f.diverted = n.diverted
      BY <1>2, <3>1, UnlistedIs DEF SameLocal
    <3>3. r = [f EXCEPT !.open = FALSE, !.local_strong = 0, !.local_weak = 0]
      BY <1>3, <2>3, <3>1 DEF NodeRelease
    <3>6. PICK z \in Int : z = 0
      OBVIOUS
    <3>7. r = [f EXCEPT !.open = FALSE, !.local_strong = z, !.local_weak = z]
      BY <3>3, <3>6
    <3>4. r \in NodeType /\ r.diverted = f.diverted
      BY <3>2, <3>7 DEF NodeType
    <3>5. SameCounts(r, f)
      BY <3>2, <3>3 DEF NodeType, SameCounts
    <3> QED BY <3>2, <3>4, <3>5 DEF SameCounts
  <2> QED BY <2>1, <2>2, <2>3
<1>5. PICK m : m = node'
  OBVIOUS
<1>6. m = [r EXCEPT !.open = FALSE, !.proc_todo = <<>>, !.todo = [th \in Thread |-> <<>>]]
  BY <1>1, <1>3, <1>5 DEF OwnerDies
<1>7. m \in NodeType /\ SameCounts(m, r) /\ ~m.open /\ m.diverted = r.diverted
  <2>1. <<>> \in Seq(Common) /\ [th \in Thread |-> <<>>] \in [Thread -> Seq(Own)]
    OBVIOUS
  <2> QED BY <1>4, <1>6, <2>1 DEF NodeType, SameCounts
<1>8. CountsOK(m)
  BY <1>2, <1>4, <1>7 DEF CountsOK, CardOK, RefsOK, SameCounts
<1>9. object' \in ObjectType /\ holder' \in HolderType /\ thread' \in [Thread -> ThreadType]
  <2>1. object' = [object EXCEPT !.alive = FALSE, !.strong = 0, !.weak = 0]
        /\ holder' = holder /\ thread' = [th \in Thread |-> Idle]
    BY DEF OwnerDies
  <2>3. PICK z \in Int : z = 0
    OBVIOUS
  <2>4. object' = [object EXCEPT !.alive = FALSE, !.strong = z, !.weak = z]
    BY <2>1, <2>3
  <2>2. object' \in ObjectType
    BY <1>2, <2>4 DEF ObjectType
  <2> QED BY <1>2, <2>1, <2>2, IdleIs
<1> QED BY <1>1, <1>4, <1>5, <1>7, <1>8, <1>9 DEF Right

-----------------------------------------------------------------------------
(* The model's actions, in the terms of the lemmas above: the owner's. *)

Counts == Right(node, holder, object, thread)

LEMMA SendObjectCounts ==
  ASSUME Counts, NEW th \in Thread, NEW h \in Holder, SendObject(th, h)
  PROVE  Counts'
<1>1. PICK n : n = node
  OBVIOUS
<1>2. PICK H : H = holder
  OBVIOUS
<1>3. PICK o : o = object
  OBVIOUS
<1>4. PICK T : T = thread
  OBVIOUS
<1>5. Right(n, H, o, T) /\ n.open /\ n.todo[th] = <<>> /\ T[th].doing = "loop"
  BY <1>1, <1>2, <1>3, <1>4 DEF Counts, SendObject, AtDriver
<1>6. n \in NodeType /\ H \in HolderType /\ T \in [Thread -> ThreadType]
  BY <1>5 DEF Right
<1>7. PICK s : s = TranslateBinder(n, th, h)
  OBVIOUS
<1>8. CASE /\ node' = [s EXCEPT !.todo[th] = Append(@, "complete")]
           /\ holder' = [holder EXCEPT ![h].buffers = @ + 1]
           /\ thread' = [thread EXCEPT ![th].doing = "send"]
  <2>1. PICK u : u = [T[th] EXCEPT !.doing = "send"]
    OBVIOUS
  <2>2. PICK m : m = node'
    OBVIOUS
  <2>3. PICK J : J = holder'
    OBVIOUS
  <2>4. PICK U : U = thread'
    OBVIOUS
  <2>5. Does(u, T[th], "send") /\ Queued(m, s, th) /\ MoreBuffers(J, H, h) /\ Steps(T, U, th, u)
    BY <1>2, <1>4, <1>8, <2>1, <2>2, <2>3, <2>4 DEF Does, Queued, MoreBuffers, Steps
  <2>6. Right(m, J, o, U)
    BY <1>5, <1>7, <2>5, SentRight
  <2>7. object' = o
    BY <1>3 DEF SendObject
  <2> QED BY <2>2, <2>3, <2>4, <2>6, <2>7 DEF Counts
<1>9. CASE /\ node' = [DecRefStrong(s, h) EXCEPT
                         !.diverted = @ \/ \E x \in Thread \ {th} : Listed(x)]
           /\ thread' = [thread EXCEPT ![th].doing = "failed"]
           /\ holder' = holder
  <2>1. PICK u : u = [T[th] EXCEPT !.doing = "failed"]
    OBVIOUS
  <2>2. PICK m : m = node'
    OBVIOUS
  <2>3. PICK r : r = DecRefStrong(s, h)
    OBVIOUS
  <2>4. PICK U : U = thread'
    OBVIOUS
  <2>5. PICK b : b = (r.diverted \/ \E x \in Thread \ {th} : Listed(x))
    OBVIOUS
  <2>6. b \in BOOLEAN
    BY <2>5
  <2>7. Does(u, T[th], "failed") /\ Failed(m, r, b) /\ Steps(T, U, th, u)
    BY <1>4, <1>9, <2>1, <2>2, <2>3, <2>4, <2>5 DEF Does, Failed, Steps
  <2>8. Right(m, H, o, U)
    BY <1>5, <1>7, <2>3, <2>6, <2>7, FailedRight
  <2>9. object' = o /\ holder' = H
    BY <1>2, <1>3, <1>9 DEF SendObject
  <2> QED BY <2>2, <2>4, <2>8, <2>9 DEF Counts
<1> QED BY <1>1, <1>7, <1>8, <1>9 DEF SendObject

LEMMA SendFailedCounts ==
  ASSUME Counts, NEW th \in Thread, SendFailed(th)
  PROVE  Counts'
<1>1. PICK o : o = object
  OBVIOUS
<1>2. PICK T : T = thread
  OBVIOUS
<1>3. PICK p : p = object'
  OBVIOUS
<1>4. PICK U : U = thread'
  OBVIOUS
<1>5. PICK u : u = [T[th] EXCEPT !.doing = "loop"]
  OBVIOUS
<1>6. /\ Right(node, holder, o, T) /\ node.open /\ T[th].doing = "failed"
      /\ Steps(T, U, th, u) /\ Does(u, T[th], "loop") /\ p = Dropped(o, U)
      /\ node' = node /\ holder' = holder
  BY <1>1, <1>2, <1>3, <1>4, <1>5 DEF Counts, SendFailed, Steps, Does
<1>7. o \in ObjectType /\ T[th] \in ThreadType
  BY <1>6 DEF Right
<1>8. p \in ObjectType /\ p.strong = o.strong /\ p.weak = o.weak
  BY <1>6, <1>7, DroppedIs
<1>9. u \in ThreadType /\ Moves(T[th], u, 0, 0, 0)
  <2>1. /\ ("loop" = "call") = (T[th].doing = "call")
        /\ "loop" \in {"loop", "send", "failed", "call"}
    BY <1>6
  <2> QED BY <1>6, <1>7, <2>1, DoesIs
<1>10. Right(node, holder, p, U)
  BY <1>6, <1>8, <1>9, RightQuietThread
<1> QED BY <1>3, <1>4, <1>6, <1>10 DEF Counts

LEMMA WriteDoneCounts ==
  ASSUME Counts, NEW th \in Thread, WriteDone(th)
  PROVE  Counts'
<1>1. PICK n : n = node
  OBVIOUS
<1>2. PICK T : T = thread
  OBVIOUS
<1>3. PICK m : m = node'
  OBVIOUS
<1>4. PICK U : U = thread'
  OBVIOUS
<1>5. PICK u : u = [T[th] EXCEPT !.out = Tail(@)]
  OBVIOUS
<1>6. /\ Right(n, holder, object, T) /\ n.open /\ T[th].out # <<>>
      /\ Steps(T, U, th, u) /\ Wrote(u, T[th])
      /\ object' = object /\ holder' = holder
  BY <1>1, <1>2, <1>4, <1>5 DEF Counts, WriteDone, AtDriver, Steps, Wrote
<1>7. DoneIs(m, n, Head(T[th].out))
  BY <1>1, <1>2, <1>3 DEF WriteDone, DoneIs
<1>8. Right(m, holder, object, U)
  BY <1>6, <1>7, WriteRight
<1> QED BY <1>3, <1>4, <1>6, <1>8 DEF Counts

LEMMA ReadIs ==
  ASSUME Counts, NEW th \in Thread, Read(th)
  PROVE  \E w, u : /\ w = Turn(th) /\ TurnOf(w, node, th) /\ node.open /\ node' = w.s
                   /\ Reads(u, thread[th], w.cmd) /\ Steps(thread, thread', th, u)
                   /\ holder' = holder /\ object' = object
<1>1. PICK n : n = node
  OBVIOUS
<1>2. PICK w : w = Turn(th)
  OBVIOUS
<1>3. PICK u : u = [thread[th] EXCEPT !.in = @ \o w.cmd]
  OBVIOUS
<1>4. /\ Right(n, holder, object, thread) /\ n.open
      /\ n.todo[th] # <<>> \/ n.proc_todo # <<>>
      /\ node' = w.s /\ holder' = holder /\ object' = object
  BY <1>1, <1>2 DEF Counts, Read
<1>5. TurnOf(w, n, th)
  BY <1>1, <1>2, <1>4, TurnIs
<1>6. Reads(u, thread[th], w.cmd) /\ Steps(thread, thread', th, u)
  BY <1>2, <1>3 DEF Reads, Steps, Read
<1> QED BY <1>1, <1>2, <1>4, <1>5, <1>6

LEMMA ReadCounts ==
  ASSUME Counts, NEW th \in Thread, Read(th)
  PROVE  Counts'
<1>1. PICK w, u : /\ w = Turn(th) /\ TurnOf(w, node, th) /\ node.open /\ node' = w.s
                  /\ Reads(u, thread[th], w.cmd) /\ Steps(thread, thread', th, u)
                  /\ holder' = holder /\ object' = object
  BY ReadIs
<1>2. PICK n : n = node
  OBVIOUS
<1>3. PICK T : T = thread
  OBVIOUS
<1>4. PICK U : U = thread'
  OBVIOUS
<1>5. Right(n, holder, object, T) /\ n.open /\ TurnOf(w, n, th)
      /\ Reads(u, T[th], w.cmd) /\ Steps(T, U, th, u)
  BY <1>1, <1>2, <1>3, <1>4 DEF Counts
<1>6. Right(w.s, holder, object, U)
  BY <1>5, ReadRight
<1> QED BY <1>1, <1>4, <1>6 DEF Counts

LEMMA ExecuteCounts ==
  ASSUME Counts, NEW th \in Thread, Execute(th)
  PROVE  Counts'
<1>1. PICK o : o = object
  OBVIOUS
<1>2. PICK T : T = thread
  OBVIOUS
<1>3. PICK p : p = object'
  OBVIOUS
<1>4. PICK U : U = thread'
  OBVIOUS
<1>5. Right(node, holder, o, T) /\ node' = node /\ holder' = holder
  BY <1>1, <1>2 DEF Counts, Execute
<1>6. o \in ObjectType /\ T \in [Thread -> ThreadType]
  BY <1>5 DEF Right
<1>7. /\ p \in ObjectType /\ T[th].in # <<>> /\ T[th].doing # "call" /\ node.open
      /\ \E u : Steps(T, U, th, u) /\ Executes(p, o, u, T[th])
  BY <1>1, <1>2, <1>3, <1>4, <1>6, ExecuteIs
<1>8. PICK u : Steps(T, U, th, u) /\ Executes(p, o, u, T[th])
  BY <1>7
<1>9. Right(node, holder, p, U)
  BY <1>5, <1>7, <1>8, ExecuteRight
<1> QED BY <1>3, <1>4, <1>5, <1>9 DEF Counts

LEMMA EndCallCounts ==
  ASSUME Counts, NEW th \in Thread, EndCall(th)
  PROVE  Counts'
<1>1. PICK o : o = object
  OBVIOUS
<1>2. PICK T : T = thread
  OBVIOUS
<1>3. PICK p : p = object'
  OBVIOUS
<1>4. PICK U : U = thread'
  OBVIOUS
<1>5. PICK stored \in BOOLEAN : p = Dropped([o EXCEPT !.app = @ \/ stored], U)
  BY <1>1, <1>3, <1>4 DEF EndCall
<1>6. /\ Right(node, holder, o, T) /\ node.open /\ T[th].doing = "call"
      /\ node' = node /\ holder' = holder
      /\ U = [T EXCEPT ![th].doing = "loop", ![th].out = Append(@, "FREE")]
  BY <1>1, <1>2, <1>4 DEF Counts, EndCall
<1>7. o \in ObjectType /\ T \in [Thread -> ThreadType]
  BY <1>6 DEF Right
<1>8. PICK v : v = [T[th] EXCEPT !.doing = "loop"]
  OBVIOUS
<1>9. PICK u : u = [v EXCEPT !.out = Append(@, "FREE")]
  OBVIOUS
<1>10. Does(v, T[th], "loop") /\ Answered(u, v, "FREE") /\ Steps(T, U, th, u)
  <2>1. T[th] \in ThreadType
    BY <1>7
  <2>2. u = [T[th] EXCEPT !.doing = "loop", !.out = Append(@, "FREE")]
    BY <1>8, <1>9, <2>1 DEF ThreadType
  <2> QED BY <1>6, <1>7, <1>8, <1>9, <2>2 DEF Does, Answered, Steps
<1>11. PICK q : q = [o EXCEPT !.app = @ \/ stored]
  OBVIOUS
<1>12. q \in ObjectType /\ q.strong = o.strong /\ q.weak = o.weak
  BY <1>7, <1>11 DEF ObjectType
<1>13. p \in ObjectType /\ p.strong = o.strong /\ p.weak = o.weak
  <2>1. p = Dropped(q, U)
    BY <1>5, <1>11
  <2> QED BY <1>12, <2>1, DroppedIs
<1>14. Right(node, holder, p, U)
  BY <1>6, <1>10, <1>13, EndCallRight
<1> QED BY <1>3, <1>4, <1>6, <1>14 DEF Counts

LEMMA DerefsCounts ==
  ASSUME Counts, NEW th \in Thread, processPendingDerefs(th)
  PROVE  Counts'
<1>1. PICK o : o = object
  OBVIOUS
<1>2. PICK T : T = thread
  OBVIOUS
<1>3. PICK p : p = object'
  OBVIOUS
<1>4. PICK U : U = thread'
  OBVIOUS
<1>5. /\ Right(node, holder, o, T) /\ node.open /\ node' = node /\ holder' = holder
      /\ U = [T EXCEPT ![th].weakDerefs = 0, ![th].strongDerefs = 0]
      /\ p = Dropped([o EXCEPT !.weak = @ - T[th].weakDerefs,
                               !.strong = @ - T[th].strongDerefs], U)
  BY <1>1, <1>2, <1>3, <1>4 DEF Counts, processPendingDerefs
<1>6. o \in ObjectType /\ T \in [Thread -> ThreadType] /\ T[th] \in ThreadType
  BY <1>5 DEF Right
<1>7. PICK u : u = [T[th] EXCEPT !.strongDerefs = 0, !.weakDerefs = 0]
  OBVIOUS
<1>8. Owes(u, T[th], 0, 0) /\ Steps(T, U, th, u)
  BY <1>5, <1>6, <1>7 DEF Owes, Steps, ThreadType
<1>9. PICK x \in Int : x = o.strong - T[th].strongDerefs
  BY <1>6 DEF ObjectType, ThreadType
<1>10. PICK y \in Int : y = o.weak - T[th].weakDerefs
  BY <1>6 DEF ObjectType, ThreadType
<1>11. PICK q : q = [o EXCEPT !.weak = y, !.strong = x]
  OBVIOUS
<1>12. q \in ObjectType /\ q.strong = x /\ q.weak = y
  BY <1>6, <1>11 DEF ObjectType
<1>13. p = Dropped(q, U)
  BY <1>5, <1>6, <1>9, <1>10, <1>11 DEF ObjectType
<1>14. p \in ObjectType /\ p.strong = x /\ p.weak = y
  BY <1>12, <1>13, DroppedIs
<1>15. Right(node, holder, p, U)
  BY <1>5, <1>8, <1>9, <1>10, <1>14, DerefsRight
<1> QED BY <1>3, <1>4, <1>5, <1>15 DEF Counts

LEMMA AppDropsCounts ==
  ASSUME Counts, AppDrops
  PROVE  Counts'
<1>1. PICK o : o = object
  OBVIOUS
<1>2. PICK p : p = object'
  OBVIOUS
<1>3. /\ Right(node, holder, o, thread) /\ node' = node /\ holder' = holder /\ thread' = thread
      /\ p = Dropped([o EXCEPT !.app = FALSE], thread)
  BY <1>1, <1>2 DEF Counts, AppDrops
<1>4. o \in ObjectType
  BY <1>3 DEF Right
<1>5. PICK q : q = [o EXCEPT !.app = FALSE]
  OBVIOUS
<1>6. q \in ObjectType /\ q.strong = o.strong /\ q.weak = o.weak
  BY <1>4, <1>5 DEF ObjectType
<1>7. p \in ObjectType /\ p.strong = o.strong /\ p.weak = o.weak
  <2>1. p = Dropped(q, thread)
    BY <1>3, <1>5
  <2> QED BY <1>6, <2>1, DroppedIs
<1>8. Right(node, holder, p, thread)
  BY <1>3, <1>7, RightObject
<1> QED BY <1>2, <1>3, <1>8 DEF Counts

-----------------------------------------------------------------------------
(* The holders' actions. *)

LEMMA BC_INCREFS_Counts ==
  ASSUME Counts, NEW h \in Holder, BC_INCREFS(h)
  PROVE  Counts' /\ Apart(node', node)
<1>1. PICK n : n = node
  OBVIOUS
<1>2. PICK H : H = holder
  OBVIOUS
<1>3. PICK m : m = node'
  OBVIOUS
<1>4. PICK J : J = holder'
  OBVIOUS
<1>5. /\ Right(n, H, object, thread) /\ object' = object /\ thread' = thread
      /\ h \in Unruly \/ (H[h].proxy = "none" /\ H[h].buffers > 0)
  BY <1>1, <1>2 DEF Counts, BC_INCREFS
<1>6. J = [H EXCEPT ![h].proxy = "weak"]
  BY <1>2, <1>4 DEF BC_INCREFS
<1>7. m = IF h \in n.refs THEN IncRefWeak(n, h) ELSE n
  BY <1>1, <1>3 DEF BC_INCREFS, Known, KnownStrong
<1>8. Right(m, J, object, thread) /\ Apart(m, n)
  BY <1>5, <1>6, <1>7, IncrefsRight
<1> QED BY <1>1, <1>3, <1>4, <1>5, <1>8 DEF Counts

LEMMA BC_ACQUIRE_Counts ==
  ASSUME Counts, NEW h \in Holder, BC_ACQUIRE(h)
  PROVE  Counts' /\ Apart(node', node)
<1>1. PICK n : n = node
  OBVIOUS
<1>2. PICK H : H = holder
  OBVIOUS
<1>3. PICK m : m = node'
  OBVIOUS
<1>4. PICK J : J = holder'
  OBVIOUS
<1>5. /\ Right(n, H, object, thread) /\ object' = object /\ thread' = thread
      /\ h \in Unruly \/ (H[h].proxy = "weak" /\ H[h].buffers > 0)
  BY <1>1, <1>2 DEF Counts, BC_ACQUIRE
<1>6. J = [H EXCEPT ![h].proxy = "strong"]
  BY <1>2, <1>4 DEF BC_ACQUIRE
<1>7. m = IF h \in n.refs /\ n.strong[h] > 0 THEN IncRefStrong(n, h, NoList) ELSE n
  BY <1>1, <1>3 DEF BC_ACQUIRE, Known, KnownStrong
<1>8. Right(m, J, object, thread) /\ Apart(m, n)
  BY <1>5, <1>6, <1>7, AcquireRight
<1> QED BY <1>1, <1>3, <1>4, <1>5, <1>8 DEF Counts

LEMMA BC_RELEASE_Counts ==
  ASSUME Counts, NEW h \in Holder, BC_RELEASE(h)
  PROVE  Counts' /\ Apart(node', node)
<1>1. PICK n : n = node
  OBVIOUS
<1>2. PICK H : H = holder
  OBVIOUS
<1>3. PICK m : m = node'
  OBVIOUS
<1>4. PICK J : J = holder'
  OBVIOUS
<1>5. /\ Right(n, H, object, thread) /\ object' = object /\ thread' = thread
      /\ h \in Unruly \/ H[h].proxy = "strong"
  BY <1>1, <1>2 DEF Counts, BC_RELEASE
<1>6. J = [H EXCEPT ![h].proxy = "weak"]
  BY <1>2, <1>4 DEF BC_RELEASE
<1>7. m = IF h \in n.refs /\ n.strong[h] > 0 THEN DecRefStrong(n, h) ELSE n
  BY <1>1, <1>3 DEF BC_RELEASE, Known, KnownStrong
<1>8. Right(m, J, object, thread) /\ Apart(m, n)
  BY <1>5, <1>6, <1>7, ReleaseRight
<1> QED BY <1>1, <1>3, <1>4, <1>5, <1>8 DEF Counts

LEMMA BC_DECREFS_Counts ==
  ASSUME Counts, NEW h \in Holder, BC_DECREFS(h)
  PROVE  Counts' /\ Apart(node', node)
<1>1. PICK n : n = node
  OBVIOUS
<1>2. PICK H : H = holder
  OBVIOUS
<1>3. PICK m : m = node'
  OBVIOUS
<1>4. PICK J : J = holder'
  OBVIOUS
<1>5. /\ Right(n, H, object, thread) /\ object' = object /\ thread' = thread
      /\ h \in Unruly \/ H[h].proxy = "weak"
  BY <1>1, <1>2 DEF Counts, BC_DECREFS
<1>6. J = [H EXCEPT ![h].proxy = "none"]
  BY <1>2, <1>4 DEF BC_DECREFS
<1>7. m = IF h \in n.refs THEN DecRefWeak(n, h) ELSE n
  BY <1>1, <1>3 DEF BC_DECREFS, Known, KnownStrong
<1>8. Right(m, J, object, thread) /\ Apart(m, n)
  BY <1>5, <1>6, <1>7, DecrefsRight
<1> QED BY <1>1, <1>3, <1>4, <1>5, <1>8 DEF Counts

LEMMA BC_FREE_BUFFER_Counts ==
  ASSUME Counts, NEW h \in Holder, BC_FREE_BUFFER(h)
  PROVE  Counts' /\ Apart(node', node)
<1>1. PICK n : n = node
  OBVIOUS
<1>2. PICK H : H = holder
  OBVIOUS
<1>3. PICK m : m = node'
  OBVIOUS
<1>4. PICK J : J = holder'
  OBVIOUS
<1>5. /\ Right(n, H, object, thread) /\ object' = object /\ thread' = thread
      /\ H[h].buffers > 0
  BY <1>1, <1>2 DEF Counts, BC_FREE_BUFFER
<1>6. J = [H EXCEPT ![h].buffers = @ - 1]
  BY <1>2, <1>4 DEF BC_FREE_BUFFER
<1>7. m = IF h \in n.refs THEN DecRefStrong(n, h) ELSE n
  BY <1>1, <1>3 DEF BC_FREE_BUFFER, Known, KnownStrong
<1>8. Right(m, J, object, thread) /\ Apart(m, n)
  BY <1>5, <1>6, <1>7, FreeBufferRight
<1> QED BY <1>1, <1>3, <1>4, <1>5, <1>8 DEF Counts

LEMMA HolderDies_Counts ==
  ASSUME Counts, NEW h \in Holder, HolderDies(h)
  PROVE  Counts' /\ Apart(node', node)
<1>1. PICK n : n = node
  OBVIOUS
<1>2. PICK H : H = holder
  OBVIOUS
<1>3. PICK m : m = node'
  OBVIOUS
<1>4. PICK J : J = holder'
  OBVIOUS
<1>5. /\ Right(n, H, object, thread) /\ object' = object /\ thread' = thread
  BY <1>1, <1>2 DEF Counts, HolderDies
<1>6. J = [H EXCEPT ![h] = [open |-> FALSE, buffers |-> 0, proxy |-> "none"]]
  BY <1>2, <1>4 DEF HolderDies
<1>7. m = IF h \in n.refs THEN DeleteRef(n, h) ELSE n
  BY <1>1, <1>3 DEF HolderDies, Known, KnownStrong
<1>8. Right(m, J, object, thread) /\ Apart(m, n)
  BY <1>5, <1>6, <1>7, DiesRight
<1> QED BY <1>1, <1>3, <1>4, <1>5, <1>8 DEF Counts

LEMMA PassHandleCounts ==
  ASSUME Counts, NEW h \in Holder, NEW to \in Holder, PassHandle(h, to)
  PROVE  Counts' /\ Apart(node', node)
<1>1. PICK n : n = node
  OBVIOUS
<1>2. PICK H : H = holder
  OBVIOUS
<1>3. PICK m : m = node'
  OBVIOUS
<1>4. PICK J : J = holder'
  OBVIOUS
<1>5. /\ Right(n, H, object, thread) /\ object' = object /\ thread' = thread /\ n.strong[h] > 0
  BY <1>1, <1>2 DEF Counts, PassHandle, KnownStrong
<1>6. MoreBuffers(J, H, to) /\ m = IncRefStrong(GetRefForNode(n, to), to, NoList)
  BY <1>1, <1>2, <1>3, <1>4 DEF PassHandle, MoreBuffers
<1>7. n.internal_strong > 0
  <2>1. n \in NodeType /\ CountsOK(n)
    BY <1>5 DEF Right
  <2> QED BY <1>5, <2>1, KnownIs
<1>8. Right(m, J, object, thread) /\ Apart(m, n)
  BY <1>5, <1>6, <1>7, PassRight
<1> QED BY <1>1, <1>3, <1>4, <1>5, <1>8 DEF Counts

LEMMA CallObjectCounts ==
  ASSUME Counts, NEW h \in Holder, CallObject(h)
  PROVE  /\ Counts' /\ node'.open = node.open /\ node'.diverted = node.diverted
         /\ node'.proc_todo = Append(node.proc_todo, "call") /\ node'.todo = node.todo
         /\ (Pending(node') <=> Pending(node))
<1>1. PICK n : n = node
  OBVIOUS
<1>3. PICK m : m = node'
  OBVIOUS
<1>5. /\ Right(n, holder, object, thread) /\ object' = object /\ thread' = thread
      /\ holder' = holder /\ n.strong[h] > 0 /\ n.open
  BY <1>1 DEF Counts, CallObject, KnownStrong
<1>6. Called(m, n)
  BY <1>1, <1>3 DEF CallObject, Called
<1>7. n.internal_strong > 0
  <2>1. n \in NodeType /\ CountsOK(n)
    BY <1>5 DEF Right
  <2> QED BY <1>5, <2>1, KnownIs
<1>8. /\ Right(m, holder, object, thread) /\ m.open = n.open /\ m.diverted = n.diverted
      /\ m.proc_todo = Append(n.proc_todo, "call") /\ m.todo = n.todo
      /\ (Pending(m) <=> Pending(n))
  BY <1>5, <1>6, <1>7, CallRight
<1> QED BY <1>1, <1>3, <1>5, <1>8 DEF Counts

LEMMA CountsStep ==
  ASSUME Counts, [Next]_vars
  PROVE  Counts'
<1>1. CASE UNCHANGED vars
  BY <1>1 DEF vars, Counts
<1>2. ASSUME NEW th \in Thread, Owner(th) PROVE Counts'
  <2>1. CASE SendFailed(th)
    BY <2>1, SendFailedCounts
  <2>2. CASE WriteDone(th)
    BY <2>2, WriteDoneCounts
  <2>3. CASE Read(th)
    BY <2>3, ReadCounts
  <2>4. CASE ReadReturns(th)
    BY <2>4 DEF ReadReturns, Counts
  <2>5. CASE Execute(th)
    BY <2>5, ExecuteCounts
  <2>6. CASE EndCall(th)
    BY <2>6, EndCallCounts
  <2>7. CASE processPendingDerefs(th)
    BY <2>7, DerefsCounts
  <2> QED BY <1>2, <2>1, <2>2, <2>3, <2>4, <2>5, <2>6, <2>7 DEF Owner
<1>3. ASSUME NEW h \in Holder, Holds(h) PROVE Counts'
  <2>1. CASE BC_INCREFS(h)
    BY <2>1, BC_INCREFS_Counts
  <2>2. CASE BC_ACQUIRE(h)
    BY <2>2, BC_ACQUIRE_Counts
  <2>3. CASE BC_RELEASE(h)
    BY <2>3, BC_RELEASE_Counts
  <2>4. CASE BC_DECREFS(h)
    BY <2>4, BC_DECREFS_Counts
  <2>5. CASE BC_FREE_BUFFER(h)
    BY <2>5, BC_FREE_BUFFER_Counts
  <2>6. CASE CallObject(h)
    BY <2>6, CallObjectCounts
  <2>7. CASE HolderDies(h)
    BY <2>7, HolderDies_Counts
  <2>8. ASSUME NEW to \in Holder, PassHandle(h, to) PROVE Counts'
    BY <2>8, PassHandleCounts
  <2> QED BY <1>3, <2>1, <2>2, <2>3, <2>4, <2>5, <2>6, <2>7, <2>8 DEF Holds
<1>4. ASSUME NEW th \in Thread, NEW h \in Holder, SendObject(th, h) PROVE Counts'
  BY <1>4, SendObjectCounts
<1>5. CASE AppDrops
  BY <1>5, AppDropsCounts
<1>6. CASE OwnerDies
  BY <1>6, OwnerDiesRight DEF Counts
<1> QED BY <1>1, <1>2, <1>3, <1>4, <1>5, <1>6 DEF Next

\* Who reads, and how often was sent, stay within bounds.
Bounded ==
  /\ lock \in [by : Thread \cup {NoThread}, proc : BOOLEAN]
  /\ sends \in 0..MaxSends /\ passes \in 0..MaxPasses

LEMMA BoundedStep ==
  ASSUME Bounded, [Next]_vars
  PROVE  Bounded'
<1>0. MaxSends \in Nat /\ MaxPasses \in Nat
  BY RefsAssumption
<1>1. CASE UNCHANGED vars
  BY <1>1 DEF vars, Bounded
<1>2. ASSUME NEW th \in Thread, Owner(th) PROVE Bounded'
  <2>1. CASE Read(th)
    <3>1. PICK b \in BOOLEAN : lock' = [by |-> th, proc |-> b]
      BY <2>1 DEF Read, Bounded
    <3>2. UNCHANGED <<sends, passes>>
      BY <2>1 DEF Read
    <3> QED BY <3>1, <3>2 DEF Bounded
  <2>2. CASE ReadReturns(th)
    BY <2>2 DEF ReadReturns, Bounded, Free
  <2>3. CASE SendFailed(th) \/ WriteDone(th) \/ Execute(th) \/ EndCall(th)
             \/ processPendingDerefs(th)
    <3>1. UNCHANGED <<lock, sends, passes>>
      BY <2>3 DEF SendFailed, WriteDone, Execute, EndCall, processPendingDerefs
    <3> QED BY <3>1 DEF Bounded
  <2> QED BY <1>2, <2>1, <2>2, <2>3 DEF Owner
<1>3. ASSUME NEW h \in Holder, Holds(h) PROVE Bounded'
  <2>1. CASE BC_INCREFS(h) \/ BC_ACQUIRE(h) \/ BC_RELEASE(h) \/ BC_DECREFS(h)
             \/ BC_FREE_BUFFER(h) \/ HolderDies(h)
    <3>1. UNCHANGED <<lock, sends, passes>>
      BY <2>1 DEF BC_INCREFS, BC_ACQUIRE, BC_RELEASE, BC_DECREFS, BC_FREE_BUFFER, HolderDies
    <3> QED BY <3>1 DEF Bounded
  <2>2. CASE CallObject(h)
    <3>1. UNCHANGED <<lock, sends>> /\ passes < MaxPasses /\ passes' = passes + 1
      BY <2>2 DEF CallObject
    <3> QED BY <1>0, <3>1 DEF Bounded
  <2>3. ASSUME NEW to \in Holder, PassHandle(h, to) PROVE Bounded'
    <3>1. UNCHANGED <<lock, sends>> /\ passes < MaxPasses /\ passes' = passes + 1
      BY <2>3 DEF PassHandle
    <3> QED BY <1>0, <3>1 DEF Bounded
  <2> QED BY <1>3, <2>1, <2>2, <2>3 DEF Holds
<1>4. ASSUME NEW th \in Thread, NEW h \in Holder, SendObject(th, h) PROVE Bounded'
  <2>1. UNCHANGED <<lock, passes>> /\ sends < MaxSends /\ sends' = sends + 1
    BY <1>4 DEF SendObject
  <2> QED BY <1>0, <2>1 DEF Bounded
<1>5. CASE AppDrops \/ OwnerDies
  <2>1. UNCHANGED <<lock, sends, passes>>
    BY <1>5 DEF AppDrops, OwnerDies
  <2> QED BY <2>1 DEF Bounded
<1> QED BY <1>1, <1>2, <1>3, <1>4, <1>5 DEF Next

LEMMA CountInvHolds == Spec => []CountInv
<1>1. Init => CountInv
  BY InitRight
<1>2. CountInv /\ [Next]_vars => CountInv'
  <2> SUFFICES ASSUME CountInv, [Next]_vars PROVE CountInv'
    OBVIOUS
  <2>1. Counts /\ Bounded
    BY DEF CountInv, Counts, Bounded
  <2>2. Counts' /\ Bounded'
    BY <2>1, CountsStep, BoundedStep
  <2> QED BY <2>2 DEF CountInv, Counts, Bounded
<1> QED BY <1>1, <1>2, PTL DEF Spec

LEMMA CountInvIsRight == CountInv => CountsAgree
<1> SUFFICES ASSUME CountInv, node.open PROVE CountsAgree
  BY DEF CountsAgree
<1>1. /\ node \in NodeType /\ CountsOK(node) /\ FlagsOK(node) /\ SumsOK(node, object, thread)
      /\ HeldOK(node, holder) /\ ~node.refused /\ thread \in [Thread -> ThreadType]
  BY DEF CountInv, Right
<1>2. CallsUnfreed = Occurs("call", node.proc_todo) + Calls(thread)
  BY DEF CallsUnfreed, Calls, CallsOf
<1>3. node.local_strong = CallsUnfreed + One(node.pending_strong)
  <2>1. node.local_strong \in Int /\ node.proc_todo \in Seq(Common)
    BY <1>1 DEF NodeType
  <2>2. PICK x \in Int : x = node.local_strong
    BY <2>1
  <2>3. PICK k \in Nat : k = One(node.pending_strong)
    BY OneType
  <2>4. PICK c \in Nat : c = Occurs("call", node.proc_todo)
    BY <2>1, OccursType DEF OccursIs
  <2>5. PICK d \in Nat : d = Calls(thread)
    BY <1>1, CallsType
  <2>6. x - k = c + d
    BY <1>1, <2>2, <2>3, <2>4, <2>5 DEF SumsOK, HeldForCalls
  <2>7. x = (c + d) + k
    BY <2>6
  <2> QED BY <1>2, <2>2, <2>3, <2>4, <2>5, <2>7
<1>4. /\ object.strong = One(node.has_strong)
           + SumFunction([th \in Thread |->
               Occurs("RELEASE", thread[th].in) + thread[th].strongDerefs
                 - Occurs("ACQUIRE", thread[th].in)])
      /\ object.weak = One(node.has_weak)
           + SumFunction([th \in Thread |->
               Occurs("DECREFS", thread[th].in) + thread[th].weakDerefs
                 - Occurs("INCREFS", thread[th].in)])
  BY <1>1 DEF SumsOK, Strongs, Weaks, StrongOf, WeakOf
<1>5. \A h \in Holder \ Unruly :
        /\ node.strong[h] = holder[h].buffers + One(holder[h].proxy = "strong")
        /\ node.weak[h] = One(holder[h].proxy # "none")
  BY <1>1 DEF HeldOK, HeldAs
<1>6. /\ node.internal_strong = Cardinality({h \in node.refs : node.strong[h] > 0})
      /\ node.refs = {h \in Holder : node.strong[h] + node.weak[h] > 0}
  BY <1>1 DEF CountsOK, CardOK, RefsOK
<1>7. node.local_weak = One(node.pending_weak) /\ (~node.made => ~Weak(node))
  BY <1>1 DEF FlagsOK
<1> QED BY <1>1, <1>3, <1>4, <1>5, <1>6, <1>7 DEF CountsAgree

\* binder_inc_ref, binder_dec_ref, binder_inc_node and binder_dec_node count what
\* there is, and so does executeCommand with processPendingDerefs: the driver's
\* counts are those of its references, buffers and unanswered BR_ACQUIRE and
\* BR_INCREFS, a reference's are those of its holder's buffers and proxies, and
\* the object's are the driver's once what the threads heard is executed.
THEOREM CountsStayRight == Spec => []CountsAgree
<1>1. CountInv => CountsAgree
  BY CountInvIsRight
<1> QED BY <1>1, CountInvHolds, PTL

-----------------------------------------------------------------------------
(* What the owner's threads have heard and are to hear. *)

LastOK(l) == \A i \in DOMAIN l : l[i] = "COMPLETE" => i = Len(l)

\* The end of a transaction is the last a thread hears, and finds it sending.
ThreadOK(t, l) ==
  /\ Has(t.in, "COMPLETE") => l = <<>>
  /\ Has(t.in, "COMPLETE") \/ Has(l, "complete") => t.doing = "send"
  /\ LastOK(t.in)
  /\ Has(t.in, "CALL") => t.doing # "send"

\* Who is told to take a reference, or will be, still sends the object.
GivenOK(n, t, l) ==
  /\ Has(t.in, "INCREFS") \/ Has(t.in, "ACQUIRE") => t.doing = "send"
  /\ Pending(n) /\ Has(l, "node") => t.doing = "send"

ThreadFine(n, t, l) == ThreadOK(t, l) /\ (~n.diverted => GivenOK(n, t, l))

LockType == [by : Thread \cup {NoThread}, proc : BOOLEAN]
LockOK(lk, T) == lk.by # NoThread /\ lk.proc => T[lk.by].doing # "send"
KeptOK(o, T)  == o.app \/ (\E th \in Thread : Keeps(T[th])) => o.alive
NodeFine(n, o) ==
  ~n.diverted => /\ Pending(n) => ~Has(n.proc_todo, "node")
                 /\ o.strong > 0 => o.alive

Fine(n, o, T, lk) ==
  /\ ~n.diverted => ~o.misused
  /\ n.open => /\ ListsOK(n) /\ LockOK(lk, T) /\ KeptOK(o, T) /\ NodeFine(n, o)
               /\ \A x \in Thread : ThreadFine(n, T[x], n.todo[x])

-----------------------------------------------------------------------------
(* A strong handle, or a call under way, reaches an object that lives. *)

LEMMA StrongsType ==
  ASSUME NEW T \in [Thread -> ThreadType], \A th \in Thread : ~Has(T[th].in, "ACQUIRE")
  PROVE  Strongs(T) \in Nat
<1>1. ASSUME NEW th \in Thread PROVE StrongOf(T[th]) \in Nat
  <2>1. T[th].in \in Seq(Returns) /\ T[th].strongDerefs \in Nat
    BY DEF ThreadType
  <2>2. PICK a \in Nat : a = Occurs("RELEASE", T[th].in)
    BY <2>1, OccursType DEF OccursIs
  <2>3. PICK b \in Nat : b = Occurs("ACQUIRE", T[th].in) /\ ~(b > 0)
    BY <2>1, OccursType DEF OccursIs
  <2>4. PICK d \in Nat : d = T[th].strongDerefs
    BY <2>1
  <2>5. b = 0
    BY <2>3
  <2>6. a + d - 0 \in Nat
    OBVIOUS
  <2> QED BY <2>2, <2>3, <2>4, <2>5, <2>6 DEF StrongOf
<1>2. PICK f : f = [th \in Thread |-> StrongOf(T[th])]
  OBVIOUS
<1>3. f \in [Thread -> Nat] /\ IsFiniteSet(Thread)
  BY <1>1, <1>2, RefsAssumption
<1>4. SumFunction(f) \in Nat
  BY <1>3, SumCovers
<1> QED BY <1>2, <1>4 DEF Strongs

LEMMA SendersKeep ==
  ASSUME NEW o, NEW T, KeptOK(o, T), NEW th \in Thread, T[th].doing = "send"
  PROVE  o.alive
BY DEF KeptOK, Keeps

LEMMA Reaches ==
  ASSUME NEW n, NEW H, NEW o, NEW T, NEW lk, Right(n, H, o, T), Fine(n, o, T, lk),
         n.open, ~n.diverted, Strong(n)
  PROVE  o.alive
<1>1. /\ n \in NodeType /\ o \in ObjectType /\ T \in [Thread -> ThreadType]
      /\ FlagsOK(n) /\ SumsOK(n, o, T)
  BY DEF Right
<1>2. /\ KeptOK(o, T) /\ (Pending(n) => ~Has(n.proc_todo, "node")) /\ (o.strong > 0 => o.alive)
      /\ \A x \in Thread : GivenOK(n, T[x], n.todo[x])
  BY DEF Fine, NodeFine, ThreadFine
<1>3. CASE ~n.has_strong
  <2>1. Pending(n)
    BY <1>3 DEF Pending
  <2>2. Somewhere(n)
    BY <1>1, <2>1, OnListIs DEF FlagsOK
  <2>3. PICK th \in Thread : Has(n.todo[th], "node")
    BY <1>2, <2>1, <2>2 DEF Somewhere
  <2>4. T[th].doing = "send"
    BY <1>2, <2>1, <2>3 DEF GivenOK
  <2> QED BY <1>2, <2>4, SendersKeep
<1>4. CASE n.has_strong /\ \E th \in Thread : Has(T[th].in, "ACQUIRE")
  <2>1. PICK th \in Thread : Has(T[th].in, "ACQUIRE")
    BY <1>4
  <2>2. T[th].doing = "send"
    BY <1>2, <2>1 DEF GivenOK
  <2> QED BY <1>2, <2>2, SendersKeep
<1>5. CASE n.has_strong /\ \A th \in Thread : ~Has(T[th].in, "ACQUIRE")
  <2>1. PICK k \in Nat : k = Strongs(T)
    BY <1>1, <1>5, StrongsType
  <2>2. One(n.has_strong) = 1
    BY <1>5 DEF One
  <2>3. o.strong = 1 + k
    BY <1>1, <2>1, <2>2 DEF SumsOK
  <2>4. 1 + k > 0
    OBVIOUS
  <2> QED BY <1>2, <2>3, <2>4
<1> QED BY <1>3, <1>4, <1>5

LEMMA CallReaches ==
  ASSUME NEW n, NEW H, NEW o, NEW T, NEW lk, Right(n, H, o, T), Fine(n, o, T, lk),
         n.open, ~n.diverted, NEW th \in Thread, Has(T[th].in, "CALL")
  PROVE  o.alive
<1>1. /\ n \in NodeType /\ T \in [Thread -> ThreadType] /\ T[th] \in ThreadType
      /\ SumsOK(n, o, T)
  BY DEF Right
<1>2. T[th].in \in Seq(Returns) /\ T[th].out \in Seq(Answers)
  BY <1>1 DEF ThreadType
<1>3. PICK a \in Nat : a = Occurs("CALL", T[th].in) /\ a > 0
  BY <1>2, OccursType DEF OccursIs
<1>4. PICK b \in Nat : b = Occurs("FREE", T[th].out)
  BY <1>2, OccursType DEF OccursIs
<1>5. PICK c \in Nat : c = One(T[th].doing = "call")
  BY OneType
<1>6. CallsOf(T[th]) = a + b + c
  BY <1>3, <1>4, <1>5 DEF CallsOf
<1>7. HeldForCalls(n) >= CallsOf(T[th])
  BY <1>1, HeldEnough
<1>8. PICK k \in Nat : k = One(n.pending_strong)
  BY OneType
<1>9. PICK x \in Int : x = n.local_strong
  BY <1>1 DEF NodeType
<1>10. x - k >= a + b + c
  BY <1>6, <1>7, <1>8, <1>9 DEF HeldForCalls
<1>11. x > 0
  BY <1>3, <1>10
<1>12. Strong(n)
  BY <1>9, <1>11 DEF Strong
<1> QED BY <1>12, Reaches

-----------------------------------------------------------------------------
(* The driver's state changes, and nobody is to hear more. *)

Finer(m, n) ==
  /\ m.open = n.open /\ m.diverted = n.diverted
  /\ ListsOK(n) => ListsOK(m)
  /\ Pending(m) => Pending(n)
  /\ Pending(m) /\ Has(m.proc_todo, "node") => Has(n.proc_todo, "node")
  /\ \A x \in Thread :
       /\ n.todo[x] = <<>> => m.todo[x] = <<>>
       /\ Has(m.todo[x], "complete") => Has(n.todo[x], "complete")
       /\ Pending(m) /\ Has(m.todo[x], "node") => Has(n.todo[x], "node")

LEMMA FinerFine ==
  ASSUME NEW n, NEW m, NEW o, NEW T, NEW lk, Fine(n, o, T, lk), Finer(m, n)
  PROVE  Fine(m, o, T, lk)
<1>1. m.open = n.open /\ m.diverted = n.diverted
  BY DEF Finer
<1>2. ASSUME n.open
      PROVE  /\ ListsOK(m) /\ LockOK(lk, T) /\ KeptOK(o, T) /\ NodeFine(m, o)
             /\ \A x \in Thread : ThreadFine(m, T[x], m.todo[x])
  <2>1. /\ ListsOK(n) /\ LockOK(lk, T) /\ KeptOK(o, T) /\ NodeFine(n, o)
        /\ \A x \in Thread : ThreadFine(n, T[x], n.todo[x])
    BY <1>2 DEF Fine
  <2>2. ListsOK(m)
    BY <2>1 DEF Finer
  <2>3. NodeFine(m, o)
    BY <1>1, <2>1 DEF NodeFine, Finer
  <2>4. ASSUME NEW x \in Thread PROVE ThreadFine(m, T[x], m.todo[x])
    <3>1. ThreadFine(n, T[x], n.todo[x])
      BY <2>1
    <3>2. /\ n.todo[x] = <<>> => m.todo[x] = <<>>
          /\ Has(m.todo[x], "complete") => Has(n.todo[x], "complete")
          /\ Pending(m) /\ Has(m.todo[x], "node") => Has(n.todo[x], "node")
          /\ Pending(m) => Pending(n)
      BY DEF Finer
    <3>3. ThreadOK(T[x], m.todo[x])
      BY <3>1, <3>2 DEF ThreadFine, ThreadOK
    <3>4. ~m.diverted => GivenOK(m, T[x], m.todo[x])
      BY <1>1, <3>1, <3>2 DEF ThreadFine, GivenOK
    <3> QED BY <3>3, <3>4 DEF ThreadFine
  <2> QED BY <2>1, <2>2, <2>3, <2>4
<1>3. ~m.diverted => ~o.misused
  BY <1>1 DEF Fine
<1> QED BY <1>1, <1>2, <1>3 DEF Fine

LEMMA QuietIsFiner ==
  ASSUME NEW n, NEW m, Placed(m, n), Quiet(m, n)
  PROVE  Finer(m, n)
BY DEF Placed, SameLists, Quiet, Finer

LEMMA ApartFine ==
  ASSUME NEW n, NEW m, NEW o, NEW T, NEW lk, Fine(n, o, T, lk), Apart(m, n)
  PROVE  Fine(m, o, T, lk)
<1>1. CASE n.open
  <2>1. Finer(m, n)
    BY <1>1, QuietIsFiner DEF Apart
  <2> QED BY <2>1, FinerFine
<1>2. CASE ~n.open
  BY <1>2 DEF Apart, Fine
<1> QED BY <1>1, <1>2

LEMMA CallIsFiner ==
  ASSUME NEW n \in NodeType, NEW m, m.open = n.open, m.diverted = n.diverted,
         m.proc_todo = Append(n.proc_todo, "call"), m.todo = n.todo, Pending(m) <=> Pending(n)
  PROVE  Finer(m, n)
<1>1. n.proc_todo \in Seq(Common) /\ "call" \in Common
  BY DEF NodeType, Common
<1>2. PICK l : l = Append(n.proc_todo, "call")
  OBVIOUS
<1>3. \A c : Has(l, c) <=> Has(n.proc_todo, c) \/ "call" = c
  BY <1>1, <1>2, OccursAppend
<1>4. ASSUME OnceIn(n.proc_todo, "node") PROVE OnceIn(l, "node")
  <2> SUFFICES ASSUME NEW i \in DOMAIN l, NEW j \in DOMAIN l, l[i] = "node", l[j] = "node"
               PROVE  i = j
    BY DEF OnceIn
  <2>1. /\ i \in DOMAIN n.proc_todo /\ n.proc_todo[i] = "node"
        /\ j \in DOMAIN n.proc_todo /\ n.proc_todo[j] = "node"
    BY <1>1, <1>2
  <2> QED BY <1>4, <2>1 DEF OnceIn
<1>5. ListsOK(n) => ListsOK(m)
  BY <1>2, <1>4 DEF ListsOK
<1>6. Has(m.proc_todo, "node") => Has(n.proc_todo, "node")
  BY <1>2, <1>3
<1> QED BY <1>5, <1>6 DEF Finer

LEMMA TookOwnIsFiner ==
  ASSUME NEW n \in NodeType, FlagsOK(n), ListsOK(n), NEW th \in Thread, n.todo[th] # <<>>,
         Head(n.todo[th]) = "complete", NEW m, TookOwn(m, n, th)
  PROVE  Finer(m, n) /\ m.todo[th] = <<>>
<1>1. TodoOK(n.todo[th])
  BY DEF ListsOK
<1>2. /\ SameLocal(m, n) /\ m.proc_todo = n.proc_todo
      /\ (Pending(m) <=> Pending(n))
      /\ \A o \in Thread \ {th} : m.todo[o] = n.todo[o]
      /\ TodoOK(n.todo[th]) => m.todo[th] = <<>>
  BY TookOwnIs
<1>3. m.todo[th] = <<>>
  BY <1>1, <1>2
<1>4. TodoOK(<<>>) /\ \A c : ~Has(<<>>, c)
  BY OccursNever DEF TodoOK
<1>5. ListsOK(m)
  BY <1>2, <1>3, <1>4 DEF ListsOK
<1>6. \A x \in Thread :
        /\ n.todo[x] = <<>> => m.todo[x] = <<>>
        /\ Has(m.todo[x], "complete") => Has(n.todo[x], "complete")
        /\ Has(m.todo[x], "node") => Has(n.todo[x], "node")
  BY <1>2, <1>3, <1>4
<1> QED BY <1>2, <1>3, <1>5, <1>6 DEF Finer, SameLocal

LEMMA TookProcIsFiner ==
  ASSUME NEW n \in NodeType, FlagsOK(n), n.proc_todo # <<>>,
         Head(n.proc_todo) = "call", NEW m, TookProc(m, n)
  PROVE  Finer(m, n)
<1>1. /\ SameLocal(m, n) /\ m.todo = n.todo
      /\ (Pending(m) <=> Pending(n))
      /\ OnceIn(n.proc_todo, "node") => OnceIn(m.proc_todo, "node")
      /\ (Has(m.proc_todo, "node") <=> Has(n.proc_todo, "node"))
  BY TookProcIs
<1> QED BY <1>1 DEF Finer, SameLocal, ListsOK

-----------------------------------------------------------------------------
(* A thread does something, the driver nothing. *)

LEMMA FineThread ==
  ASSUME NEW n, NEW o, NEW T \in [Thread -> ThreadType], NEW lk, Fine(n, o, T, lk), n.open,
         NEW th \in Thread, NEW u, NEW U, Steps(T, U, th, u), NEW p, NEW k,
         ThreadFine(n, u, n.todo[th]), LockOK(k, U), KeptOK(p, U),
         ~n.diverted => ~p.misused /\ (p.strong > 0 => p.alive)
  PROVE  Fine(n, p, U, k)
<1>1. U[th] = u /\ \A x \in Thread \ {th} : U[x] = T[x]
  BY DEF Steps
<1>2. ListsOK(n) /\ NodeFine(n, o) /\ \A x \in Thread : ThreadFine(n, T[x], n.todo[x])
  BY DEF Fine
<1>3. \A x \in Thread : ThreadFine(n, U[x], n.todo[x])
  BY <1>1, <1>2
<1>4. NodeFine(n, p)
  BY <1>2 DEF NodeFine
<1> QED BY <1>2, <1>3, <1>4 DEF Fine

LEMMA LockKept ==
  ASSUME NEW T \in [Thread -> ThreadType], NEW lk \in LockType, LockOK(lk, T),
         NEW th \in Thread, NEW u, NEW U, Steps(T, U, th, u),
         u.doing = "send" => T[th].doing = "send"
  PROVE  LockOK(lk, U)
<1>1. U[th] = u /\ \A x \in Thread \ {th} : U[x] = T[x]
  BY DEF Steps
<1>2. lk.by \in Thread \cup {NoThread}
  BY DEF LockType
<1> QED BY <1>1, <1>2 DEF LockOK

\* The object is kept by no more than before.
LEMMA KeptFewer ==
  ASSUME NEW T \in [Thread -> ThreadType], NEW o, KeptOK(o, T),
         NEW th \in Thread, NEW u, NEW U, Steps(T, U, th, u), Keeps(u) => Keeps(T[th]),
         NEW q, q.alive = o.alive, q.app => o.alive
  PROVE  KeptOK(q, U)
<1>1. U[th] = u /\ \A x \in Thread \ {th} : U[x] = T[x]
  BY DEF Steps
<1>2. (\E x \in Thread : Keeps(U[x])) => \E x \in Thread : Keeps(T[x])
  BY <1>1
<1> QED BY <1>2 DEF KeptOK

LEMMA KeptDropped ==
  ASSUME NEW q \in ObjectType, NEW U, KeptOK(q, U), NEW p, p = Dropped(q, U)
  PROVE  /\ KeptOK(p, U) /\ p.misused = q.misused /\ p.strong = q.strong
         /\ q.strong > 0 /\ q.alive => p.alive
<1>1. /\ p.app = q.app /\ p.misused = q.misused /\ p.strong = q.strong
      /\ p.alive <=> /\ q.alive
                     /\ q.app \/ q.strong > 0 \/ \E th \in Thread : Keeps(U[th])
  BY DroppedIs
<1> QED BY <1>1 DEF KeptOK

\* It hears no more, and does what it did.
LEMMA ThreadKept ==
  ASSUME NEW n, NEW t, NEW l, ThreadFine(n, t, l), NEW u, u.doing = t.doing,
         \A c : Has(u.in, c) => Has(t.in, c), LastOK(u.in)
  PROVE  ThreadFine(n, u, l)
<1>1. ThreadOK(u, l)
  BY DEF ThreadFine, ThreadOK
<1>2. ~n.diverted => GivenOK(n, u, l)
  BY DEF ThreadFine, GivenOK
<1> QED BY <1>1, <1>2 DEF ThreadFine

\* It did not send, and does not.
LEMMA ThreadMoved ==
  ASSUME NEW n, NEW t, NEW l, ThreadFine(n, t, l), t.doing # "send", NEW u, u.doing # "send",
         \A c : Has(u.in, c) => Has(t.in, c), LastOK(u.in)
  PROVE  ThreadFine(n, u, l)
<1>1. ThreadOK(u, l)
  BY DEF ThreadFine, ThreadOK
<1>2. ~n.diverted => GivenOK(n, u, l)
  BY DEF ThreadFine, GivenOK
<1> QED BY <1>1, <1>2 DEF ThreadFine

LEMMA NothingHeard ==
  LastOK(<<>>) /\ \A c : ~Has(<<>>, c)
BY OccursNever DEF LastOK

LEMMA LastMore ==
  ASSUME NEW S, NEW l \in Seq(S), NEW e \in S, ~Has(l, "COMPLETE")
  PROVE  LastOK(Append(l, e))
<1>1. PICK k : k = Append(l, e)
  OBVIOUS
<1>2. /\ Len(k) = Len(l) + 1 /\ Len(l) \in Nat /\ DOMAIN k = 1..Len(k) /\ DOMAIN l = 1..Len(l)
      /\ \A i \in 1..Len(l) : k[i] = l[i]
  BY <1>1
<1>3. ASSUME NEW i \in DOMAIN k, k[i] = "COMPLETE" PROVE i = Len(k)
  <2>1. i \notin 1..Len(l)
    BY <1>2, <1>3 DEF Has
  <2> QED BY <1>2, <2>1
<1> QED BY <1>1, <1>3 DEF LastOK

LEMMA LastTail ==
  ASSUME NEW S, NEW l \in Seq(S), l # <<>>, LastOK(l)
  PROVE  LastOK(Tail(l)) /\ (Head(l) = "COMPLETE" => Tail(l) = <<>>)
<1>1. PICK k : k = Tail(l)
  OBVIOUS
<1>2. /\ Len(k) = Len(l) - 1 /\ Len(l) \in Nat /\ DOMAIN k = 1..Len(k) /\ DOMAIN l = 1..Len(l)
      /\ \A i \in 1..Len(k) : k[i] = l[i + 1]
  BY <1>1
<1>3. ASSUME NEW i \in DOMAIN k, k[i] = "COMPLETE" PROVE i = Len(k)
  <2>1. i \in Nat /\ i + 1 \in DOMAIN l /\ l[i + 1] = "COMPLETE"
    BY <1>2, <1>3
  <2>2. i + 1 = Len(l)
    BY <2>1 DEF LastOK
  <2> QED BY <1>2, <2>1, <2>2
<1>4. ASSUME Head(l) = "COMPLETE" PROVE Tail(l) = <<>>
  <2>1. 1 \in DOMAIN l /\ l[1] = "COMPLETE"
    BY <1>4
  <2>2. Len(l) = 1
    BY <2>1 DEF LastOK
  <2>3. k \in Seq(S) /\ l \in Seq(S) /\ l # <<>>
    BY <1>1
  <2>4. k = <<>>
    BY <1>1, <2>2, <2>3
  <2> QED BY <1>1, <2>4
<1> QED BY <1>1, <1>3, <1>4 DEF LastOK

\* It hears one thing more.
LEMMA ThreadHeard ==
  ASSUME NEW t \in ThreadType, NEW e \in Returns, NEW u, Heard(u, t, e),
         NEW n, NEW l, ThreadFine(n, t, l), ~Has(t.in, "COMPLETE"),
         e = "COMPLETE" => l = <<>> /\ t.doing = "send",
         e = "CALL" => t.doing # "send",
         ~n.diverted /\ e \in {"INCREFS", "ACQUIRE"} => t.doing = "send"
  PROVE  ThreadFine(n, u, l)
<1>1. t.in \in Seq(Returns)
  BY DEF ThreadType
<1>2. PICK k : k = Append(t.in, e)
  OBVIOUS
<1>3. LastOK(k) /\ \A c : Has(k, c) <=> Has(t.in, c) \/ e = c
  BY <1>1, <1>2, LastMore, OccursAppend
<1>4. u.in = k /\ u.doing = t.doing
  BY <1>2 DEF Heard, ThreadType
<1>5. ThreadOK(u, l)
  <2>1. Has(u.in, "COMPLETE") <=> e = "COMPLETE"
    BY <1>3, <1>4
  <2>2. Has(u.in, "CALL") => u.doing # "send"
    BY <1>3, <1>4 DEF ThreadFine, ThreadOK
  <2>3. Has(l, "complete") => u.doing = "send"
    BY <1>4 DEF ThreadFine, ThreadOK
  <2> QED BY <1>3, <1>4, <2>1, <2>2, <2>3 DEF ThreadOK
<1>6. ~n.diverted => GivenOK(n, u, l)
  BY <1>3, <1>4 DEF ThreadFine, GivenOK
<1> QED BY <1>5, <1>6 DEF ThreadFine

-----------------------------------------------------------------------------
(* A read. *)

\* Who may read, and that the first turn looks whether proc->todo is read.
MayRead(n, t, th, lk, k) ==
  /\ k.by = th
  /\ n.todo[th] # <<>> \/ k.proc
  /\ \/ t.in = <<>> /\ (k.proc => t.doing # "send")
     \/ lk.by = th /\ k.proc = lk.proc

LEMMA NotCompleted ==
  ASSUME NEW n, NEW o, NEW T \in [Thread -> ThreadType], NEW lk, Fine(n, o, T, lk), n.open,
         NEW th \in Thread, NEW k, MayRead(n, T[th], th, lk, k)
  PROVE  ~Has(T[th].in, "COMPLETE") /\ (k.proc => T[th].doing # "send")
<1>1. ThreadOK(T[th], n.todo[th]) /\ LockOK(lk, T)
  BY DEF Fine, ThreadFine
<1>2. NoThread # th
  BY RefsAssumption
<1>3. k.proc => T[th].doing # "send"
  BY <1>1, <1>2 DEF LockOK, MayRead
<1>4. ASSUME Has(T[th].in, "COMPLETE") PROVE FALSE
  <2>1. n.todo[th] = <<>> /\ T[th].doing = "send"
    BY <1>1, <1>4 DEF ThreadOK
  <2> QED BY <1>3, <2>1 DEF MayRead
<1> QED BY <1>3, <1>4

LEMMA ReadFine ==
  ASSUME NEW n, NEW H, NEW o, NEW T, Right(n, H, o, T), n.open, NEW th \in Thread,
         NEW lk, Fine(n, o, T, lk), NEW k, MayRead(n, T[th], th, lk, k),
         NEW w, TurnOf(w, n, th), NEW u, Reads(u, T[th], w.cmd), NEW U, Steps(T, U, th, u)
  PROVE  Fine(w.s, o, U, k)
<1>1. /\ n \in NodeType /\ FlagsOK(n) /\ T \in [Thread -> ThreadType] /\ T[th] \in ThreadType
  BY DEF Right
<1>2. ~Has(T[th].in, "COMPLETE") /\ (k.proc => T[th].doing # "send")
  BY <1>1, NotCompleted
<1>3. PICK m : m = w.s
  OBVIOUS
<1>4. /\ ListsOK(n) /\ KeptOK(o, T) /\ NodeFine(n, o) /\ (~n.diverted => ~o.misused)
      /\ ThreadFine(n, T[th], n.todo[th])
  BY DEF Fine
<1>5. Finer(m, n)
  <2>1. CASE Tells(w, n) /\ Works(w.s, n)
    BY <1>3, <2>1, QuietIsFiner DEF Works
  <2>2. CASE /\ n.todo[th] # <<>> /\ Head(n.todo[th]) = "complete"
             /\ TookOwn(w.s, n, th)
    BY <1>1, <1>3, <1>4, <2>2, TookOwnIsFiner
  <2>3. CASE n.proc_todo # <<>> /\ Head(n.proc_todo) = "call" /\ TookProc(w.s, n)
    BY <1>1, <1>3, <2>3, TookProcIsFiner
  <2> QED BY <2>1, <2>2, <2>3 DEF TurnOf
<1>6. Fine(m, o, T, lk) /\ m.open = n.open /\ m.diverted = n.diverted
  BY <1>5, FinerFine DEF Finer
<1>7. ThreadFine(m, T[th], m.todo[th])
  BY <1>6 DEF Fine
<1>8. U[th] = u
  BY <1>1 DEF Steps
<1>9. ThreadFine(m, u, m.todo[th]) /\ u.doing = T[th].doing
  <2>1. CASE w.cmd = <<>>
    BY <1>1, <1>7, <2>1, ReadsIs
  <2>2. ASSUME NEW e \in Returns, w.cmd = <<e>>,
               e = "COMPLETE" => m.todo[th] = <<>> /\ T[th].doing = "send",
               e = "CALL" => T[th].doing # "send",
               ~m.diverted /\ e \in {"INCREFS", "ACQUIRE"} => T[th].doing = "send"
        PROVE  ThreadFine(m, u, m.todo[th]) /\ u.doing = T[th].doing
    <3>1. Heard(u, T[th], e)
      BY <1>1, <2>2, ReadsIs
    <3>2. ThreadFine(m, u, m.todo[th])
      BY <1>1, <1>2, <1>7, <2>2, <3>1, ThreadHeard
    <3>3. u.doing = T[th].doing
      BY <1>1, <3>1 DEF Heard, ThreadType
    <3> QED BY <3>2, <3>3
  <2>3. CASE Tells(w, n) /\ (Has(n.todo[th], "node") \/ Has(n.proc_todo, "node"))
    <3>1. ASSUME Pending(n), ~n.diverted PROVE T[th].doing = "send"
      <4>1. Has(n.todo[th], "node")
        BY <1>4, <2>3, <3>1 DEF NodeFine
      <4> QED BY <1>4, <3>1, <4>1 DEF ThreadFine, GivenOK
    <3>2. CASE w.cmd = <<"INCREFS">> /\ Pending(n)
      <4>1. ~m.diverted => T[th].doing = "send"
        BY <1>6, <3>1, <3>2
      <4> QED BY <2>2, <3>2, <4>1 DEF Returns
    <3>3. CASE w.cmd = <<"ACQUIRE">> /\ Pending(n)
      <4>1. ~m.diverted => T[th].doing = "send"
        BY <1>6, <3>1, <3>3
      <4> QED BY <2>2, <3>3, <4>1 DEF Returns
    <3>4. CASE w.cmd = <<"RELEASE">>
      BY <2>2, <3>4 DEF Returns
    <3>5. CASE w.cmd = <<"DECREFS">>
      BY <2>2, <3>5 DEF Returns
    <3> QED BY <2>1, <2>3, <3>2, <3>3, <3>4, <3>5 DEF Tells
  <2>4. CASE /\ w.cmd = <<"COMPLETE">> /\ n.todo[th] # <<>> /\ Head(n.todo[th]) = "complete"
             /\ TookOwn(w.s, n, th)
    <3>1. m.todo[th] = <<>>
      BY <1>1, <1>3, <1>4, <2>4, TookOwnIsFiner
    <3>2. Has(n.todo[th], "complete")
      <4>1. n.todo[th] \in Seq(Own)
        BY <1>1 DEF NodeType
      <4> QED BY <2>4, <4>1 DEF Has
    <3>3. T[th].doing = "send"
      BY <1>4, <3>2 DEF ThreadFine, ThreadOK
    <3> QED BY <2>2, <2>4, <3>1, <3>3 DEF Returns
  <2>5. CASE w.cmd = <<"CALL">> /\ n.todo[th] = <<>>
    <3>1. T[th].doing # "send"
      BY <1>2, <2>5 DEF MayRead
    <3> QED BY <2>2, <2>5, <3>1 DEF Returns
  <2> QED BY <2>3, <2>4, <2>5 DEF TurnOf
<1>10. LockOK(k, U)
  BY <1>2, <1>8, <1>9 DEF LockOK, MayRead
<1>11. KeptOK(o, U)
  <2>1. Keeps(u) => Keeps(T[th])
    BY <1>9 DEF Keeps
  <2>2. o.app => o.alive
    BY <1>4 DEF KeptOK
  <2> QED BY <1>1, <1>4, <2>1, <2>2, KeptFewer
<1>12. ~m.diverted => ~o.misused /\ (o.strong > 0 => o.alive)
  BY <1>4, <1>6 DEF NodeFine
<1> QED BY <1>1, <1>3, <1>6, <1>9, <1>10, <1>11, <1>12, FineThread

-----------------------------------------------------------------------------
(* A thread executes what it was told, and the object is there. *)

Uses(p, o) ==
  p.app = o.app /\ p.alive = o.alive /\ (p.misused => o.misused \/ ~o.alive)

Treats(p, o, u, t, U) ==
  /\ u.in = Tail(t.in)
  /\ \/ Head(t.in) \in {"INCREFS", "ACQUIRE"} /\ u.doing = t.doing /\ Uses(p, o)
     \/ Head(t.in) \in {"RELEASE", "DECREFS"} /\ u.doing = t.doing /\ p = o
     \/ Head(t.in) = "COMPLETE" /\ u.doing = "loop" /\ p = Dropped(o, U)
     \/ /\ Head(t.in) = "CALL" /\ Uses(p, o) /\ p.strong = o.strong
        /\ (o.alive /\ u.doing = "call") \/ (~o.alive /\ u.doing = t.doing)

LEMMA TreatsIs ==
  ASSUME NEW o, o = object, NEW T, T = thread, o \in ObjectType, T \in [Thread -> ThreadType],
         NEW th \in Thread, Execute(th), NEW p, p = object', NEW U, U = thread'
  PROVE  \E u : Steps(T, U, th, u) /\ Treats(p, o, u, T[th], U)
<1>1. T[th].in # <<>> /\ T[th] \in ThreadType
  BY DEF Execute
<1>2. PICK v : v = [T[th] EXCEPT !.in = Tail(@)]
  OBVIOUS
<1>3. v.in = Tail(T[th].in) /\ v.doing = T[th].doing /\ v \in ThreadType
  <2>1. Taken(v, T[th])
    BY <1>2 DEF Taken
  <2>2. v \in ThreadType
    BY <1>1, <2>1, TakenIs
  <2> QED BY <1>1, <1>2, <2>2 DEF ThreadType
<1>4. Head(T[th].in) \in Returns
  <2>1. Taken(v, T[th])
    BY <1>2 DEF Taken
  <2> QED BY <1>1, <2>1, TakenIs
<1>5. CASE Head(T[th].in) = "INCREFS"
  <2>1. PICK u : u = [v EXCEPT !.out = Append(@, "INCREFS_DONE")]
    OBVIOUS
  <2>2. Steps(T, U, th, u)
    BY <1>2, <1>5, <2>1 DEF Execute, Steps
  <2>3. Uses(p, o)
    <3>1. p = [o EXCEPT !.weak = @ + 1, !.misused = @ \/ ~(object.alive \/ object.weak > 0)]
      BY <1>5 DEF Execute
    <3> QED BY <3>1 DEF ObjectType, Uses
  <2>4. u.in = Tail(T[th].in) /\ u.doing = T[th].doing
    BY <1>3, <2>1 DEF ThreadType
  <2>5. Treats(p, o, u, T[th], U)
    BY <1>5, <2>3, <2>4 DEF Treats
  <2> QED BY <2>2, <2>5
<1>6. CASE Head(T[th].in) = "ACQUIRE"
  <2>1. PICK u : u = [v EXCEPT !.out = Append(@, "ACQUIRE_DONE")]
    OBVIOUS
  <2>2. Steps(T, U, th, u)
    BY <1>2, <1>6, <2>1 DEF Execute, Steps
  <2>3. Uses(p, o)
    <3>1. p = [o EXCEPT !.strong = @ + 1, !.misused = @ \/ ~object.alive]
      BY <1>6 DEF Execute
    <3> QED BY <3>1 DEF ObjectType, Uses
  <2>4. u.in = Tail(T[th].in) /\ u.doing = T[th].doing
    BY <1>3, <2>1 DEF ThreadType
  <2>5. Treats(p, o, u, T[th], U)
    BY <1>6, <2>3, <2>4 DEF Treats
  <2> QED BY <2>2, <2>5
<1>7. CASE Head(T[th].in) = "RELEASE"
  <2>1. PICK u : u = [v EXCEPT !.strongDerefs = @ + 1]
    OBVIOUS
  <2>2. Steps(T, U, th, u) /\ p = o
    BY <1>2, <1>7, <2>1 DEF Execute, Steps
  <2>3. u.in = Tail(T[th].in) /\ u.doing = T[th].doing
    BY <1>3, <2>1 DEF ThreadType
  <2>4. Treats(p, o, u, T[th], U)
    BY <1>7, <2>2, <2>3 DEF Treats
  <2> QED BY <2>2, <2>4
<1>8. CASE Head(T[th].in) = "DECREFS"
  <2>1. PICK u : u = [v EXCEPT !.weakDerefs = @ + 1]
    OBVIOUS
  <2>2. Steps(T, U, th, u) /\ p = o
    BY <1>2, <1>8, <2>1 DEF Execute, Steps
  <2>3. u.in = Tail(T[th].in) /\ u.doing = T[th].doing
    BY <1>3, <2>1 DEF ThreadType
  <2>4. Treats(p, o, u, T[th], U)
    BY <1>8, <2>2, <2>3 DEF Treats
  <2> QED BY <2>2, <2>4
<1>9. CASE Head(T[th].in) = "COMPLETE"
  <2>1. PICK u : u = [v EXCEPT !.doing = "loop"]
    OBVIOUS
  <2>2. Steps(T, U, th, u) /\ p = Dropped(o, U)
    BY <1>2, <1>9, <2>1 DEF Execute, Steps
  <2>3. u.in = Tail(T[th].in) /\ u.doing = "loop"
    BY <1>3, <2>1 DEF ThreadType
  <2>4. Treats(p, o, u, T[th], U)
    BY <1>9, <2>2, <2>3 DEF Treats
  <2> QED BY <2>2, <2>4
<1>10. CASE Head(T[th].in) = "CALL"
  <2>1. PICK u : u = IF object.alive THEN [v EXCEPT !.doing = "call"]
                     ELSE [v EXCEPT !.out = Append(@, "FREE")]
    OBVIOUS
  <2>2. Steps(T, U, th, u)
    BY <1>2, <1>10, <2>1 DEF Execute, Steps
  <2>3. Uses(p, o) /\ p.strong = o.strong
    <3>1. p = [o EXCEPT !.misused = @ \/ ~(object.alive \/ object.weak > 0)]
      BY <1>10 DEF Execute
    <3> QED BY <3>1 DEF ObjectType, Uses
  <2>4. u.in = Tail(T[th].in)
        /\ ((o.alive /\ u.doing = "call") \/ (~o.alive /\ u.doing = T[th].doing))
    BY <1>3, <2>1 DEF ThreadType
  <2>5. Treats(p, o, u, T[th], U)
    BY <1>10, <2>3, <2>4 DEF Treats
  <2> QED BY <2>2, <2>5
<1> QED BY <1>4, <1>5, <1>6, <1>7, <1>8, <1>9, <1>10 DEF Returns

LEMMA ExecuteFine ==
  ASSUME NEW n, NEW H, NEW o, NEW T, Right(n, H, o, T), n.open, NEW th \in Thread,
         NEW lk \in LockType, Fine(n, o, T, lk), T[th].in # <<>>, T[th].doing # "call",
         NEW u, NEW U, Steps(T, U, th, u), NEW p, Treats(p, o, u, T[th], U)
  PROVE  Fine(n, p, U, lk)
<1>1. T \in [Thread -> ThreadType] /\ T[th] \in ThreadType /\ o \in ObjectType
  BY DEF Right
<1>2. /\ LockOK(lk, T) /\ KeptOK(o, T) /\ (~n.diverted => ~o.misused)
      /\ (~n.diverted => (o.strong > 0 => o.alive))
      /\ ThreadFine(n, T[th], n.todo[th])
  BY DEF Fine, NodeFine
<1>3. /\ T[th].in \in Seq(Returns) /\ u.in = Tail(T[th].in)
  BY <1>1 DEF ThreadType, Treats
<1>4. /\ LastOK(u.in) /\ (Head(T[th].in) = "COMPLETE" => u.in = <<>>)
      /\ \A c : Has(u.in, c) => Has(T[th].in, c)
      /\ Has(T[th].in, Head(T[th].in))
  BY <1>2, <1>3, LastTail, OccursTail DEF ThreadFine, ThreadOK
<1>5. o.app => o.alive
  BY <1>2 DEF KeptOK
<1>6. CASE Head(T[th].in) \in {"INCREFS", "ACQUIRE"} /\ u.doing = T[th].doing /\ Uses(p, o)
  <2>1. ThreadFine(n, u, n.todo[th])
    BY <1>2, <1>4, <1>6, ThreadKept
  <2>2. LockOK(lk, U)
    BY <1>1, <1>2, <1>6, LockKept
  <2>3. KeptOK(p, U)
    <3>1. Keeps(u) => Keeps(T[th])
      BY <1>6 DEF Keeps
    <3>2. p.alive = o.alive /\ (p.app => o.alive)
      BY <1>5, <1>6 DEF Uses
    <3> QED BY <1>1, <1>2, <3>1, <3>2, KeptFewer
  <2>4. ASSUME ~n.diverted PROVE ~p.misused /\ (p.strong > 0 => p.alive)
    <3>1. T[th].doing = "send"
      BY <1>2, <1>4, <1>6, <2>4 DEF ThreadFine, GivenOK
    <3>2. o.alive
      BY <1>2, <3>1, SendersKeep
    <3> QED BY <1>2, <1>6, <2>4, <3>2 DEF Uses
  <2> QED BY <1>1, <2>1, <2>2, <2>3, <2>4, FineThread
<1>7. CASE u.doing = T[th].doing /\ p = o
  <2>1. ThreadFine(n, u, n.todo[th])
    BY <1>2, <1>4, <1>7, ThreadKept
  <2>2. LockOK(lk, U)
    BY <1>1, <1>2, <1>7, LockKept
  <2>3. KeptOK(p, U)
    <3>1. Keeps(u) => Keeps(T[th])
      BY <1>7 DEF Keeps
    <3> QED BY <1>1, <1>2, <1>5, <1>7, <3>1, KeptFewer
  <2>4. ~n.diverted => ~p.misused /\ (p.strong > 0 => p.alive)
    BY <1>2, <1>7
  <2> QED BY <1>1, <2>1, <2>2, <2>3, <2>4, FineThread
<1>8. CASE Head(T[th].in) = "COMPLETE" /\ u.doing = "loop" /\ p = Dropped(o, U)
  <2>1. ThreadFine(n, u, n.todo[th])
    <3>1. n.todo[th] = <<>> /\ u.in = <<>>
      BY <1>2, <1>4, <1>8 DEF ThreadFine, ThreadOK
    <3> QED BY <3>1, NothingHeard DEF ThreadFine, ThreadOK, GivenOK
  <2>2. LockOK(lk, U)
    BY <1>1, <1>2, <1>8, LockKept
  <2>3. KeptOK(o, U)
    <3>1. Keeps(u) => Keeps(T[th])
      BY <1>8 DEF Keeps
    <3> QED BY <1>1, <1>2, <1>5, <3>1, KeptFewer
  <2>4. /\ KeptOK(p, U) /\ p.misused = o.misused /\ p.strong = o.strong
        /\ o.strong > 0 /\ o.alive => p.alive
    BY <1>1, <1>8, <2>3, KeptDropped
  <2>5. ~n.diverted => ~p.misused /\ (p.strong > 0 => p.alive)
    BY <1>2, <2>4
  <2> QED BY <1>1, <2>1, <2>2, <2>4, <2>5, FineThread
<1>9. CASE Head(T[th].in) = "CALL" /\ Uses(p, o) /\ p.strong = o.strong
           /\ ((o.alive /\ u.doing = "call") \/ (~o.alive /\ u.doing = T[th].doing))
  <2>1. T[th].doing # "send"
    BY <1>2, <1>4, <1>9 DEF ThreadFine, ThreadOK
  <2>2. u.doing # "send"
    BY <1>9, <2>1
  <2>3. ThreadFine(n, u, n.todo[th])
    BY <1>2, <1>4, <2>1, <2>2, ThreadMoved
  <2>4. LockOK(lk, U)
    BY <1>1, <1>2, <2>2, LockKept
  <2>5. KeptOK(p, U)
    <3>1. CASE o.alive
      BY <1>9, <3>1 DEF KeptOK, Uses
    <3>2. CASE ~o.alive
      <4>1. Keeps(u) => Keeps(T[th])
        BY <1>9, <3>2 DEF Keeps
      <4>2. p.alive = o.alive /\ (p.app => o.alive)
        BY <1>5, <1>9 DEF Uses
      <4> QED BY <1>1, <1>2, <4>1, <4>2, KeptFewer
    <3> QED BY <3>1, <3>2
  <2>6. ASSUME ~n.diverted PROVE ~p.misused /\ (p.strong > 0 => p.alive)
    <3>1. Has(T[th].in, "CALL")
      BY <1>4, <1>9
    <3>2. o.alive
      BY <2>6, <3>1, CallReaches
    <3> QED BY <1>2, <1>9, <2>6, <3>2 DEF Uses
  <2> QED BY <1>1, <2>3, <2>4, <2>5, <2>6, FineThread
<1> QED BY <1>6, <1>7, <1>8, <1>9 DEF Treats

-----------------------------------------------------------------------------
(* A transaction with the object in it. *)

LEMMA ListsSent ==
  ASSUME NEW n, NEW s, NEW m, NEW th \in Thread, SentLists(s, n, th), n.todo[th] = <<>>,
         ListsOK(s), s \in NodeType, Queued(m, s, th)
  PROVE  ListsOK(m)
<1>1. /\ m.proc_todo = s.proc_todo
      /\ \A o \in Thread \ {th} : m.todo[o] = s.todo[o]
      /\ m.todo[th] = Append(s.todo[th], "complete")
  BY QueuedIs
<1>2. s.todo[th] \in Seq(Own) /\ TodoOK(s.todo[th])
  BY DEF ListsOK, NodeType
<1>3. ~Has(s.todo[th], "complete")
  BY NothingHeard DEF SentLists
<1>4. PICK l : l = s.todo[th]
  OBVIOUS
<1>5. PICK k : k = Append(l, "complete")
  OBVIOUS
<1>6. /\ Len(k) = Len(l) + 1 /\ Len(l) \in Nat /\ DOMAIN k = 1..Len(k) /\ DOMAIN l = 1..Len(l)
      /\ \A i \in 1..Len(l) : k[i] = l[i]
      /\ k[Len(k)] = "complete"
  BY <1>2, <1>4, <1>5
<1>7. ASSUME NEW i \in DOMAIN k
      PROVE  (k[i] = "node" => i = 1) /\ (k[i] = "complete" => i = Len(k))
  <2>1. CASE i \in DOMAIN l
    <3>1. k[i] = l[i]
      BY <1>6, <2>1
    <3>2. (l[i] = "node" => i = 1) /\ l[i] # "complete"
      BY <1>2, <1>3, <1>4, <2>1 DEF TodoOK, Has
    <3> QED BY <3>1, <3>2
  <2>2. CASE i \notin DOMAIN l
    <3>1. i = Len(k)
      BY <1>6, <2>2
    <3> QED BY <1>6, <3>1
  <2> QED BY <2>1, <2>2
<1>8. TodoOK(k)
  BY <1>7 DEF TodoOK
<1> QED BY <1>1, <1>4, <1>5, <1>8 DEF ListsOK

LEMMA SentFine ==
  ASSUME NEW n, NEW H, NEW o, NEW T, Right(n, H, o, T), n.open, NEW lk, Fine(n, o, T, lk),
         lk.by = NoThread, NEW th \in Thread, NEW h \in Holder, n.todo[th] = <<>>,
         T[th].in = <<>>, o.app,
         NEW u, Does(u, T[th], "send"), NEW U, Steps(T, U, th, u),
         NEW s, s = TranslateBinder(n, th, h), NEW m, Queued(m, s, th)
  PROVE  Fine(m, o, U, lk)
<1>1. /\ n \in NodeType /\ CountsOK(n) /\ FlagsOK(n) /\ SumsOK(n, o, T)
      /\ T \in [Thread -> ThreadType] /\ T[th] \in ThreadType
  BY DEF Right
<1>2. n.local_strong >= 0
  BY <1>1, HeldEnough
<1>3. SentTo(s, n, h) /\ SentLists(s, n, th)
  BY <1>1, <1>2, TranslateIs
<1>4. s \in NodeType /\ s.open = n.open /\ s.diverted = n.diverted
  BY <1>3 DEF SentTo
<1>5. /\ ListsOK(n) /\ KeptOK(o, T) /\ NodeFine(n, o) /\ (~n.diverted => ~o.misused)
      /\ \A x \in Thread : ThreadFine(n, T[x], n.todo[x])
  BY DEF Fine
<1>6. /\ m.open = s.open /\ m.diverted = s.diverted /\ m.proc_todo = s.proc_todo
      /\ \A x \in Thread : Has(m.todo[x], "node") <=> Has(s.todo[x], "node")
      /\ \A x \in Thread \ {th} : m.todo[x] = s.todo[x]
      /\ (Pending(m) <=> Pending(s))
  <2>1. s \in NodeType /\ Queued(m, s, th)
    BY <1>4
  <2> QED BY <2>1, QueuedIs
<1>7. ListsOK(m)
  <2>1. ListsOK(s)
    BY <1>3, <1>5 DEF SentLists
  <2> QED BY <1>3, <1>4, <2>1, ListsSent
<1>8. o.alive
  BY <1>5 DEF KeptOK
<1>9. NodeFine(m, o)
  <2>1. ASSUME ~m.diverted, Pending(m), Has(m.proc_todo, "node") PROVE FALSE
    <3>1. Pending(n) /\ Has(n.proc_todo, "node")
      BY <1>3, <1>5, <1>6, <2>1 DEF SentLists
    <3> QED BY <1>4, <1>5, <1>6, <2>1, <3>1 DEF NodeFine
  <2> QED BY <1>8, <2>1 DEF NodeFine
<1>10. U[th] = u /\ \A x \in Thread \ {th} : U[x] = T[x]
  BY <1>1 DEF Steps
<1>11. ASSUME NEW x \in Thread \ {th} PROVE ThreadFine(m, U[x], m.todo[x])
  <2>1. ThreadFine(n, T[x], n.todo[x]) /\ U[x] = T[x] /\ m.todo[x] = s.todo[x]
    BY <1>5, <1>6, <1>10
  <2>2. /\ n.todo[x] = <<>> => s.todo[x] = <<>>
        /\ Has(s.todo[x], "complete") => Has(n.todo[x], "complete")
        /\ Pending(s) /\ Has(s.todo[x], "node") => Pending(n) /\ Has(n.todo[x], "node")
    BY <1>3, <1>5 DEF SentLists
  <2>3. ThreadOK(T[x], s.todo[x])
    BY <2>1, <2>2 DEF ThreadFine, ThreadOK
  <2>4. ~m.diverted => GivenOK(m, T[x], s.todo[x])
    BY <1>4, <1>6, <2>1, <2>2 DEF ThreadFine, GivenOK
  <2> QED BY <2>1, <2>3, <2>4 DEF ThreadFine
<1>12. ThreadFine(m, U[th], m.todo[th])
  <2>1. u.in = <<>> /\ u.doing = "send"
    BY <1>1 DEF Does, ThreadType
  <2> QED BY <1>10, <2>1, NothingHeard DEF ThreadFine, ThreadOK, GivenOK
<1>13. LockOK(lk, U) /\ KeptOK(o, U)
  BY <1>8 DEF LockOK, KeptOK
<1> QED BY <1>4, <1>5, <1>6, <1>7, <1>9, <1>11, <1>12, <1>13 DEF Fine

\* b says whether the transaction took the work from a thread that sends.
Diverts(b, n, th) ==
  b = (n.diverted \/ \E x \in Thread \ {th} : Has(n.todo[x], "node"))

LEMMA FailedFine ==
  ASSUME NEW n, NEW H, NEW o, NEW T, Right(n, H, o, T), n.open, NEW lk, Fine(n, o, T, lk),
         lk.by = NoThread, NEW th \in Thread, NEW h \in Holder, n.todo[th] = <<>>,
         T[th].in = <<>>, o.app,
         NEW u, Does(u, T[th], "failed"), NEW U, Steps(T, U, th, u),
         NEW s, s = TranslateBinder(n, th, h), NEW r, r = DecRefStrong(s, h),
         NEW b \in BOOLEAN, Diverts(b, n, th), NEW m, Failed(m, r, b)
  PROVE  Fine(m, o, U, lk)
<1>1. /\ n \in NodeType /\ FlagsOK(n) /\ T \in [Thread -> ThreadType] /\ T[th] \in ThreadType
  BY DEF Right
<1>2. /\ ListsOK(n) /\ KeptOK(o, T) /\ NodeFine(n, o) /\ (~n.diverted => ~o.misused)
      /\ \A x \in Thread : ThreadFine(n, T[x], n.todo[x])
  BY DEF Fine
<1>3. /\ m.open /\ m.diverted = b /\ SentLists(s, n, th) /\ Placed(r, s)
      /\ m.todo = r.todo /\ m.proc_todo = r.proc_todo /\ (Pending(m) <=> Pending(n))
  BY FailedIs
<1>4. ListsOK(m)
  <2>1. ListsOK(r)
    BY <1>2, <1>3 DEF SentLists, Placed, SameLists
  <2> QED BY <1>3, <2>1 DEF ListsOK
<1>5. o.alive
  BY <1>2 DEF KeptOK
<1>6. ~m.diverted => ~n.diverted /\ ~Pending(m)
  <2>1. ASSUME ~b, Pending(n) PROVE FALSE
    <3>1. Somewhere(n)
      BY <1>1, <2>1, OnListIs DEF FlagsOK
    <3>2. ~n.diverted /\ \A x \in Thread \ {th} : ~Has(n.todo[x], "node")
      BY <2>1 DEF Diverts
    <3>3. ~Has(n.todo[th], "node")
      BY NothingHeard
    <3>4. ~Has(n.proc_todo, "node")
      BY <1>2, <2>1, <3>2 DEF NodeFine
    <3> QED BY <3>1, <3>2, <3>3, <3>4 DEF Somewhere
  <2> QED BY <1>3, <2>1 DEF Diverts
<1>7. NodeFine(m, o)
  BY <1>5, <1>6 DEF NodeFine
<1>8. U[th] = u /\ \A x \in Thread \ {th} : U[x] = T[x]
  BY <1>1 DEF Steps
<1>9. ASSUME NEW x \in Thread
      PROVE  Has(m.todo[x], "complete") => Has(n.todo[x], "complete")
  BY <1>3 DEF SentLists, Placed, SameLists
<1>10. ASSUME NEW x \in Thread \ {th} PROVE ThreadFine(m, U[x], m.todo[x])
  <2>1. ThreadFine(n, T[x], n.todo[x]) /\ U[x] = T[x]
    BY <1>2, <1>8
  <2>2. n.todo[x] = <<>> => m.todo[x] = <<>>
    BY <1>3 DEF SentLists, Placed, SameLists
  <2>3. ThreadOK(T[x], m.todo[x])
    BY <1>9, <2>1, <2>2 DEF ThreadFine, ThreadOK
  <2>4. ~m.diverted => GivenOK(m, T[x], m.todo[x])
    BY <1>6, <2>1 DEF ThreadFine, GivenOK
  <2> QED BY <2>1, <2>3, <2>4 DEF ThreadFine
<1>11. ThreadFine(m, U[th], m.todo[th])
  <2>1. u.in = <<>> /\ u.doing = "failed"
    BY <1>1 DEF Does, ThreadType
  <2>2. ~Has(m.todo[th], "complete")
    BY <1>9, NothingHeard
  <2> QED BY <1>6, <1>8, <2>1, <2>2, NothingHeard DEF ThreadFine, ThreadOK, GivenOK
<1>12. LockOK(lk, U) /\ KeptOK(o, U)
  BY <1>5 DEF LockOK, KeptOK
<1> QED BY <1>2, <1>3, <1>4, <1>6, <1>7, <1>10, <1>11, <1>12 DEF Fine

-----------------------------------------------------------------------------
(* References that are dropped. *)

\* Thread th, which does not send, drops what q has no more.
LEMMA DropsFine ==
  ASSUME NEW n, NEW o, NEW T \in [Thread -> ThreadType], n.open,
         NEW lk \in LockType, Fine(n, o, T, lk), NEW th \in Thread, T[th].doing # "send",
         NEW u, u.in = T[th].in, u.doing \in {"loop", T[th].doing},
         NEW U, Steps(T, U, th, u),
         NEW q \in ObjectType, q.alive = o.alive, q.app => o.alive, q.misused = o.misused,
         q.strong > 0 => o.strong > 0, NEW p, p = Dropped(q, U)
  PROVE  Fine(n, p, U, lk)
<1>1. /\ LockOK(lk, T) /\ KeptOK(o, T) /\ (~n.diverted => ~o.misused)
      /\ (~n.diverted => (o.strong > 0 => o.alive))
      /\ ThreadFine(n, T[th], n.todo[th])
  BY DEF Fine, NodeFine
<1>2. u.doing # "send" /\ (Keeps(u) => Keeps(T[th]))
  BY DEF Keeps
<1>3. ThreadFine(n, u, n.todo[th])
  <2>1. LastOK(u.in) /\ \A c : Has(u.in, c) => Has(T[th].in, c)
    BY <1>1 DEF ThreadFine, ThreadOK
  <2> QED BY <1>1, <1>2, <2>1, ThreadMoved
<1>4. LockOK(lk, U)
  BY <1>1, <1>2, LockKept
<1>5. KeptOK(q, U)
  BY <1>1, <1>2, KeptFewer
<1>6. /\ KeptOK(p, U) /\ p.misused = q.misused /\ p.strong = q.strong
      /\ q.strong > 0 /\ q.alive => p.alive
  BY <1>5, KeptDropped
<1>7. ~n.diverted => ~p.misused /\ (p.strong > 0 => p.alive)
  BY <1>1, <1>6
<1> QED BY <1>3, <1>4, <1>6, <1>7, FineThread

LEMMA AppDropsFine ==
  ASSUME NEW n, NEW o, NEW T, n.open, NEW lk, Fine(n, o, T, lk),
         NEW q \in ObjectType, q.alive = o.alive, ~q.app, q.misused = o.misused,
         q.strong = o.strong, NEW p, p = Dropped(q, T)
  PROVE  Fine(n, p, T, lk)
<1>1. /\ ListsOK(n) /\ LockOK(lk, T) /\ KeptOK(o, T) /\ NodeFine(n, o)
      /\ \A x \in Thread : ThreadFine(n, T[x], n.todo[x])
      /\ (~n.diverted => ~o.misused)
  BY DEF Fine
<1>2. KeptOK(q, T)
  BY <1>1 DEF KeptOK
<1>3. /\ KeptOK(p, T) /\ p.misused = q.misused /\ p.strong = q.strong
      /\ q.strong > 0 /\ q.alive => p.alive
  BY <1>2, KeptDropped
<1>4. NodeFine(n, p)
  BY <1>1, <1>3 DEF NodeFine
<1> QED BY <1>1, <1>3, <1>4 DEF Fine

-----------------------------------------------------------------------------
(* Every step keeps what is Fine. *)

\* The inductive invariant behind RemoteKeepsObject.
Inv == CountInv /\ Fine(node, object, thread, lock)

LEMMA InvParts ==
  ASSUME Inv
  PROVE  /\ Counts /\ lock \in LockType /\ Fine(node, object, thread, lock)
         /\ Right(node, holder, object, thread)
BY DEF Inv, CountInv, Counts, LockType

LEMMA FreeIs == Free \in LockType /\ Free.by = NoThread /\ Free.proc = FALSE
BY DEF Free, LockType

LEMMA InitFine == Init => Fine(node, object, thread, lock)
<1> SUFFICES ASSUME Init PROVE Fine(node, object, thread, lock)
  OBVIOUS
<1>1. /\ node.proc_todo = <<>> /\ (\A th \in Thread : node.todo[th] = <<>>)
      /\ object.alive /\ ~object.misused
      /\ lock.by = NoThread
      /\ \A th \in Thread : thread[th] = Idle
  BY FreeIs DEF Init
<1>2. Idle.in = <<>> /\ Idle.doing = "loop"
  BY DEF Idle
<1>3. ListsOK(node)
  <2>1. OnceIn(<<>>, "node") /\ TodoOK(<<>>)
    BY DEF OnceIn, TodoOK
  <2> QED BY <1>1, <2>1 DEF ListsOK
<1>4. LockOK(lock, thread) /\ KeptOK(object, thread)
  BY <1>1 DEF LockOK, KeptOK
<1>5. NodeFine(node, object)
  BY <1>1, NothingHeard DEF NodeFine
<1>6. ASSUME NEW th \in Thread PROVE ThreadFine(node, thread[th], node.todo[th])
  <2>1. thread[th].in = <<>> /\ thread[th].doing = "loop" /\ node.todo[th] = <<>>
    BY <1>1, <1>2
  <2> QED BY <2>1, NothingHeard DEF ThreadFine, ThreadOK, GivenOK
<1> QED BY <1>1, <1>3, <1>4, <1>5, <1>6 DEF Fine

LEMMA SendObjectFine ==
  ASSUME Inv, NEW th \in Thread, NEW h \in Holder, SendObject(th, h)
  PROVE  Fine(node', object', thread', lock')
<1>1. PICK n : n = node
  OBVIOUS
<1>2. PICK o : o = object
  OBVIOUS
<1>3. PICK T : T = thread
  OBVIOUS
<1>4. PICK lk : lk = lock
  OBVIOUS
<1>5. PICK m : m = node'
  OBVIOUS
<1>6. PICK U : U = thread'
  OBVIOUS
<1>7. /\ Right(n, holder, o, T) /\ n.open /\ Fine(n, o, T, lk) /\ lk.by = NoThread
      /\ n.todo[th] = <<>> /\ T[th].in = <<>> /\ o.app
      /\ lock' = lk /\ object' = o
  BY <1>1, <1>2, <1>3, <1>4, InvParts, FreeIs DEF SendObject, AtDriver, Settled
<1>8. n \in NodeType
  BY <1>7 DEF Right
<1>9. PICK s : s = TranslateBinder(n, th, h)
  OBVIOUS
<1>10. CASE /\ node' = [s EXCEPT !.todo[th] = Append(@, "complete")]
            /\ thread' = [thread EXCEPT ![th].doing = "send"]
  <2>1. PICK u : u = [T[th] EXCEPT !.doing = "send"]
    OBVIOUS
  <2>2. Does(u, T[th], "send") /\ Queued(m, s, th) /\ Steps(T, U, th, u)
    BY <1>3, <1>5, <1>6, <1>10, <2>1 DEF Does, Queued, Steps
  <2>3. Fine(m, o, U, lk)
    BY <1>7, <1>9, <2>2, SentFine
  <2> QED BY <1>5, <1>6, <1>7, <2>3
<1>11. CASE /\ node' = [DecRefStrong(s, h) EXCEPT
                          !.diverted = @ \/ \E x \in Thread \ {th} : Listed(x)]
            /\ thread' = [thread EXCEPT ![th].doing = "failed"]
  <2>1. PICK u : u = [T[th] EXCEPT !.doing = "failed"]
    OBVIOUS
  <2>2. PICK r : r = DecRefStrong(s, h)
    OBVIOUS
  <2>3. PICK b : b = (r.diverted \/ \E x \in Thread \ {th} : Listed(x))
    OBVIOUS
  <2>4. b \in BOOLEAN
    BY <2>3
  <2>5. Does(u, T[th], "failed") /\ Failed(m, r, b) /\ Steps(T, U, th, u)
    BY <1>3, <1>5, <1>6, <1>11, <2>1, <2>2, <2>3 DEF Does, Failed, Steps
  <2>6. Placed(r, s) /\ SentTo(s, n, h)
    BY <1>7, <1>9, <2>2, <2>4, <2>5, FailedIs
  <2>7. r.diverted = n.diverted
    BY <2>6 DEF Placed, SentTo
  <2>8. ASSUME NEW x \in Thread PROVE Listed(x) <=> Has(n.todo[x], "node")
    <3>1. n.todo[x] \in Seq(Own)
      BY <1>8 DEF NodeType
    <3> QED BY <1>1, <3>1, ContainsIsHas DEF Listed
  <2>9. Diverts(b, n, th)
    BY <2>3, <2>7, <2>8 DEF Diverts
  <2>10. Fine(m, o, U, lk)
    BY <1>7, <1>9, <2>2, <2>4, <2>5, <2>9, FailedFine
  <2> QED BY <1>5, <1>6, <1>7, <2>10
<1> QED BY <1>1, <1>9, <1>10, <1>11 DEF SendObject

LEMMA SendFailedFine ==
  ASSUME Inv, NEW th \in Thread, SendFailed(th)
  PROVE  Fine(node', object', thread', lock')
<1>1. PICK n : n = node
  OBVIOUS
<1>2. PICK o : o = object
  OBVIOUS
<1>3. PICK T : T = thread
  OBVIOUS
<1>4. PICK U : U = thread'
  OBVIOUS
<1>5. PICK p : p = object'
  OBVIOUS
<1>6. PICK u : u = [T[th] EXCEPT !.doing = "loop"]
  OBVIOUS
<1>7. /\ Right(n, holder, o, T) /\ n.open /\ lock \in LockType /\ Fine(n, o, T, lock)
      /\ T[th].doing = "failed" /\ Steps(T, U, th, u) /\ p = Dropped(o, U)
      /\ node' = n /\ lock' = lock
  BY <1>1, <1>2, <1>3, <1>4, <1>5, <1>6, InvParts DEF SendFailed, Steps
<1>8. T \in [Thread -> ThreadType] /\ T[th] \in ThreadType /\ o \in ObjectType
  BY <1>7 DEF Right
<1>9. u.in = T[th].in /\ u.doing = "loop"
  BY <1>6, <1>8 DEF ThreadType
<1>10. o.app => o.alive
  BY <1>7 DEF Fine, KeptOK
<1>11. u.doing \in {"loop", T[th].doing} /\ T[th].doing # "send"
  BY <1>7, <1>9
<1>12. Fine(n, p, U, lock)
  BY <1>7, <1>8, <1>9, <1>10, <1>11, DropsFine
<1> QED BY <1>4, <1>5, <1>7, <1>12

LEMMA WriteDoneFine ==
  ASSUME Inv, NEW th \in Thread, WriteDone(th)
  PROVE  Fine(node', object', thread', lock')
<1>1. PICK n : n = node
  OBVIOUS
<1>2. PICK T : T = thread
  OBVIOUS
<1>3. PICK m : m = node'
  OBVIOUS
<1>4. PICK U : U = thread'
  OBVIOUS
<1>5. PICK u : u = [T[th] EXCEPT !.out = Tail(@)]
  OBVIOUS
<1>6. PICK o : o = object
  OBVIOUS
<1>7. /\ Right(n, holder, o, T) /\ n.open /\ T[th].out # <<>>
      /\ Fine(n, o, T, lock) /\ lock.by = NoThread
      /\ Steps(T, U, th, u) /\ Wrote(u, T[th])
      /\ object' = o /\ lock' = lock
  BY <1>1, <1>2, <1>4, <1>5, <1>6, InvParts, FreeIs DEF WriteDone, AtDriver, Steps, Wrote
<1>8. DoneIs(m, n, Head(T[th].out))
  BY <1>1, <1>2, <1>3 DEF WriteDone, DoneIs
<1>9. Placed(m, n) /\ Quiet(m, n)
  BY <1>7, <1>8, WriteRight
<1>10. Fine(m, o, T, lock) /\ m.open
  <2>1. Finer(m, n)
    BY <1>9, QuietIsFiner
  <2> QED BY <1>7, <2>1, FinerFine DEF Finer
<1>11. T \in [Thread -> ThreadType] /\ T[th] \in ThreadType
  BY <1>7 DEF Right
<1>12. u.in = T[th].in /\ u.doing = T[th].doing
  BY <1>5, <1>11 DEF ThreadType
<1>13. /\ ThreadFine(m, T[th], m.todo[th]) /\ KeptOK(o, T)
       /\ (~m.diverted => ~o.misused /\ (o.strong > 0 => o.alive))
  BY <1>10 DEF Fine, NodeFine
<1>14. ThreadFine(m, u, m.todo[th])
  <2>1. LastOK(u.in) /\ \A c : Has(u.in, c) => Has(T[th].in, c)
    BY <1>12, <1>13 DEF ThreadFine, ThreadOK
  <2> QED BY <1>12, <1>13, <2>1, ThreadKept
<1>15. KeptOK(o, U)
  <2>1. (Keeps(u) => Keeps(T[th])) /\ (o.app => o.alive)
    BY <1>12, <1>13 DEF Keeps, KeptOK
  <2> QED BY <1>7, <1>11, <1>13, <2>1, KeptFewer
<1>16. LockOK(lock, U)
  BY <1>7 DEF LockOK
<1>17. Fine(m, o, U, lock)
  BY <1>7, <1>10, <1>11, <1>13, <1>14, <1>15, <1>16, FineThread
<1> QED BY <1>3, <1>4, <1>7, <1>17

LEMMA ReadsFine ==
  ASSUME Inv, NEW th \in Thread, Read(th)
  PROVE  Fine(node', object', thread', lock')
<1>0. Counts
  BY InvParts
<1>1. PICK w, u : /\ w = Turn(th) /\ TurnOf(w, node, th) /\ node.open /\ node' = w.s
                  /\ Reads(u, thread[th], w.cmd) /\ Steps(thread, thread', th, u)
                  /\ holder' = holder /\ object' = object
  BY <1>0, ReadIs
<1>2. PICK n : n = node
  OBVIOUS
<1>3. PICK T : T = thread
  OBVIOUS
<1>4. PICK U : U = thread'
  OBVIOUS
<1>5. PICK o : o = object
  OBVIOUS
<1>6. PICK lk : lk = lock
  OBVIOUS
<1>7. PICK k : k = lock'
  OBVIOUS
<1>8. /\ Right(n, holder, o, T) /\ n.open /\ TurnOf(w, n, th) /\ Fine(n, o, T, lk)
      /\ Reads(u, T[th], w.cmd) /\ Steps(T, U, th, u)
  BY <1>1, <1>2, <1>3, <1>4, <1>5, <1>6, InvParts
<1>9. MayRead(n, T[th], th, lk, k)
  <2>1. PICK c : c = IF lk = Free THEN T[th].doing = "loop" /\ n.todo[th] = <<>> ELSE lk.proc
    OBVIOUS
  <2>2. /\ (lk = Free /\ T[th].in = <<>>) \/ lk.by = th
        /\ n.todo[th] # <<>> \/ (c /\ n.proc_todo # <<>>)
        /\ k = [by |-> th, proc |-> c]
    BY <1>2, <1>3, <1>6, <1>7, <2>1 DEF Read, Settled
  <2>3. k.by = th /\ k.proc = c /\ (n.todo[th] # <<>> \/ k.proc)
    BY <2>2
  <2>4. CASE lk = Free /\ T[th].in = <<>>
    <3>1. k.proc => T[th].doing # "send"
      BY <2>1, <2>3, <2>4
    <3> QED BY <2>3, <2>4, <3>1 DEF MayRead
  <2>5. CASE lk.by = th
    <3>1. lk # Free
      BY <2>5, FreeIs, RefsAssumption
    <3>2. k.proc = lk.proc
      BY <2>1, <2>3, <3>1
    <3> QED BY <2>3, <2>5, <3>2 DEF MayRead
  <2> QED BY <2>2, <2>4, <2>5
<1>10. Fine(w.s, o, U, k)
  BY <1>8, <1>9, ReadFine
<1> QED BY <1>1, <1>4, <1>5, <1>7, <1>10

LEMMA ReadReturnsFine ==
  ASSUME Inv, NEW th \in Thread, ReadReturns(th)
  PROVE  Fine(node', object', thread', lock')
<1>1. /\ Fine(node, object, thread, lock) /\ lock'.by = NoThread
      /\ node' = node /\ object' = object /\ thread' = thread
  BY InvParts, FreeIs DEF ReadReturns
<1>2. LockOK(lock', thread)
  BY <1>1 DEF LockOK
<1> QED BY <1>1, <1>2 DEF Fine

LEMMA ExecutesFine ==
  ASSUME Inv, NEW th \in Thread, Execute(th)
  PROVE  Fine(node', object', thread', lock')
<1>1. PICK o : o = object
  OBVIOUS
<1>2. PICK T : T = thread
  OBVIOUS
<1>3. PICK p : p = object'
  OBVIOUS
<1>4. PICK U : U = thread'
  OBVIOUS
<1>5. /\ Right(node, holder, o, T) /\ node.open /\ node' = node
      /\ lock \in LockType /\ Fine(node, o, T, lock) /\ lock' = lock
      /\ T[th].in # <<>> /\ T[th].doing # "call"
  BY <1>1, <1>2, InvParts DEF Execute
<1>6. o \in ObjectType /\ T \in [Thread -> ThreadType]
  BY <1>5 DEF Right
<1>7. PICK u : Steps(T, U, th, u) /\ Treats(p, o, u, T[th], U)
  BY <1>1, <1>2, <1>3, <1>4, <1>6, TreatsIs
<1>8. Fine(node, p, U, lock)
  BY <1>5, <1>7, ExecuteFine
<1> QED BY <1>3, <1>4, <1>5, <1>8

LEMMA EndCallFine ==
  ASSUME Inv, NEW th \in Thread, EndCall(th)
  PROVE  Fine(node', object', thread', lock')
<1>1. PICK o : o = object
  OBVIOUS
<1>2. PICK T : T = thread
  OBVIOUS
<1>3. PICK p : p = object'
  OBVIOUS
<1>4. PICK U : U = thread'
  OBVIOUS
<1>5. PICK stored \in BOOLEAN : p = Dropped([o EXCEPT !.app = @ \/ stored], U)
  BY <1>1, <1>3, <1>4 DEF EndCall
<1>6. /\ Right(node, holder, o, T) /\ node.open /\ T[th].doing = "call"
      /\ lock \in LockType /\ Fine(node, o, T, lock)
      /\ node' = node /\ lock' = lock
      /\ U = [T EXCEPT ![th].doing = "loop", ![th].out = Append(@, "FREE")]
  BY <1>1, <1>2, <1>4, InvParts DEF EndCall
<1>7. o \in ObjectType /\ T \in [Thread -> ThreadType] /\ T[th] \in ThreadType
  BY <1>6 DEF Right
<1>8. PICK u : u = [T[th] EXCEPT !.doing = "loop", !.out = Append(@, "FREE")]
  OBVIOUS
<1>9. Steps(T, U, th, u)
  BY <1>6, <1>7, <1>8 DEF Steps
<1>10. u.in = T[th].in /\ u.doing = "loop"
  BY <1>7, <1>8 DEF ThreadType
<1>11. PICK q : q = [o EXCEPT !.app = @ \/ stored]
  OBVIOUS
<1>12. o.alive
  BY <1>6 DEF Fine, KeptOK, Keeps
<1>13. /\ q \in ObjectType /\ q.alive = o.alive /\ (q.app => o.alive) /\ q.misused = o.misused
       /\ (q.strong > 0 => o.strong > 0)
  BY <1>7, <1>11, <1>12 DEF ObjectType
<1>14. p = Dropped(q, U) /\ T[th].doing # "send" /\ u.doing \in {"loop", T[th].doing}
  BY <1>5, <1>6, <1>10, <1>11
<1>15. Fine(node, p, U, lock)
  BY <1>6, <1>7, <1>9, <1>10, <1>13, <1>14, DropsFine
<1> QED BY <1>3, <1>4, <1>6, <1>15

LEMMA DerefsFine ==
  ASSUME Inv, NEW th \in Thread, processPendingDerefs(th)
  PROVE  Fine(node', object', thread', lock')
<1>1. PICK o : o = object
  OBVIOUS
<1>2. PICK T : T = thread
  OBVIOUS
<1>3. PICK p : p = object'
  OBVIOUS
<1>4. PICK U : U = thread'
  OBVIOUS
<1>5. /\ Right(node, holder, o, T) /\ node.open /\ T[th].doing = "loop"
      /\ lock \in LockType /\ Fine(node, o, T, lock)
      /\ node' = node /\ lock' = lock
      /\ U = [T EXCEPT ![th].weakDerefs = 0, ![th].strongDerefs = 0]
      /\ p = Dropped([o EXCEPT !.weak = @ - T[th].weakDerefs,
                               !.strong = @ - T[th].strongDerefs], U)
  BY <1>1, <1>2, <1>3, <1>4, InvParts DEF processPendingDerefs
<1>6. o \in ObjectType /\ T \in [Thread -> ThreadType] /\ T[th] \in ThreadType
  BY <1>5 DEF Right
<1>7. PICK u : u = [T[th] EXCEPT !.weakDerefs = 0, !.strongDerefs = 0]
  OBVIOUS
<1>8. Steps(T, U, th, u) /\ u.in = T[th].in /\ u.doing = T[th].doing
  BY <1>5, <1>6, <1>7 DEF Steps, ThreadType
<1>9. PICK d \in Nat : d = T[th].strongDerefs
  BY <1>6 DEF ThreadType
<1>10. PICK x \in Int : x = o.strong - d
  BY <1>6 DEF ObjectType
<1>11. PICK y \in Int : y = o.weak - T[th].weakDerefs
  BY <1>6 DEF ObjectType, ThreadType
<1>12. PICK q : q = [o EXCEPT !.weak = y, !.strong = x]
  OBVIOUS
<1>13. q \in ObjectType /\ q.strong = x /\ q.alive = o.alive /\ q.app = o.app
       /\ q.misused = o.misused
  BY <1>6, <1>12 DEF ObjectType
<1>14. q.strong > 0 => o.strong > 0
  <2>1. o.strong \in Int
    BY <1>6 DEF ObjectType
  <2> QED BY <1>9, <1>10, <1>13, <2>1
<1>15. p = Dropped(q, U)
  BY <1>5, <1>6, <1>9, <1>10, <1>11, <1>12 DEF ObjectType
<1>16. (q.app => o.alive) /\ T[th].doing # "send" /\ u.doing \in {"loop", T[th].doing}
  BY <1>5, <1>8, <1>13 DEF Fine, KeptOK
<1>17. Fine(node, p, U, lock)
  BY <1>5, <1>6, <1>8, <1>13, <1>14, <1>15, <1>16, DropsFine
<1> QED BY <1>3, <1>4, <1>5, <1>17

LEMMA AppDropsIsFine ==
  ASSUME Inv, AppDrops
  PROVE  Fine(node', object', thread', lock')
<1>1. PICK o : o = object
  OBVIOUS
<1>2. PICK p : p = object'
  OBVIOUS
<1>3. /\ Right(node, holder, o, thread) /\ node' = node /\ thread' = thread /\ lock' = lock
      /\ node.open /\ Fine(node, o, thread, lock)
      /\ p = Dropped([o EXCEPT !.app = FALSE], thread)
  BY <1>1, <1>2, InvParts DEF AppDrops
<1>4. o \in ObjectType
  BY <1>3 DEF Right
<1>5. PICK q : q = [o EXCEPT !.app = FALSE]
  OBVIOUS
<1>6. /\ q \in ObjectType /\ q.strong = o.strong /\ q.alive = o.alive /\ ~q.app
      /\ q.misused = o.misused
  BY <1>4, <1>5 DEF ObjectType
<1>7. p = Dropped(q, thread)
  BY <1>3, <1>5
<1>8. Fine(node, p, thread, lock)
  BY <1>3, <1>6, <1>7, AppDropsFine
<1> QED BY <1>2, <1>3, <1>8

LEMMA OwnerDiesFine ==
  ASSUME Inv, OwnerDies
  PROVE  Fine(node', object', thread', lock')
<1>1. ~node'.open /\ node'.diverted = node.diverted
  BY InvParts, OwnerDiesRight
<1>2. object'.misused = object.misused
  <2>1. object \in ObjectType
    BY InvParts DEF Right
  <2> QED BY <2>1 DEF OwnerDies, ObjectType
<1>3. ~node.diverted => ~object.misused
  BY InvParts DEF Fine
<1> QED BY <1>1, <1>2, <1>3 DEF Fine

LEMMA HoldsFine ==
  ASSUME Inv, NEW h \in Holder, Holds(h)
  PROVE  Fine(node', object', thread', lock')
<1>1. Counts /\ Fine(node, object, thread, lock) /\ node \in NodeType
  BY InvParts DEF Right
<1>2. UNCHANGED <<object, thread, lock>>
  BY DEF Holds, BC_INCREFS, BC_ACQUIRE, BC_RELEASE, BC_DECREFS, BC_FREE_BUFFER,
         CallObject, HolderDies, PassHandle
<1>3. CASE CallObject(h)
  <2>1. PICK n : n = node
    OBVIOUS
  <2>2. PICK m : m = node'
    OBVIOUS
  <2>3. /\ n \in NodeType /\ m.open = n.open /\ m.diverted = n.diverted
        /\ m.proc_todo = Append(n.proc_todo, "call") /\ m.todo = n.todo
        /\ (Pending(m) <=> Pending(n))
    BY <1>1, <1>3, <2>1, <2>2, CallObjectCounts
  <2>4. Finer(m, n)
    BY <2>3, CallIsFiner
  <2>5. Fine(m, object, thread, lock)
    BY <1>1, <2>1, <2>4, FinerFine
  <2> QED BY <1>2, <2>2, <2>5
<1>4. CASE ~CallObject(h)
  <2>1. Apart(node', node)
    <3>1. CASE BC_INCREFS(h)
      BY <1>1, <3>1, BC_INCREFS_Counts
    <3>2. CASE BC_ACQUIRE(h)
      BY <1>1, <3>2, BC_ACQUIRE_Counts
    <3>3. CASE BC_RELEASE(h)
      BY <1>1, <3>3, BC_RELEASE_Counts
    <3>4. CASE BC_DECREFS(h)
      BY <1>1, <3>4, BC_DECREFS_Counts
    <3>5. CASE BC_FREE_BUFFER(h)
      BY <1>1, <3>5, BC_FREE_BUFFER_Counts
    <3>6. CASE HolderDies(h)
      BY <1>1, <3>6, HolderDies_Counts
    <3>7. ASSUME NEW to \in Holder, PassHandle(h, to) PROVE Apart(node', node)
      BY <1>1, <3>7, PassHandleCounts
    <3> QED BY <1>4, <3>1, <3>2, <3>3, <3>4, <3>5, <3>6, <3>7 DEF Holds
  <2>2. PICK n : n = node
    OBVIOUS
  <2>3. PICK m : m = node'
    OBVIOUS
  <2>4. Fine(m, object, thread, lock)
    BY <1>1, <2>1, <2>2, <2>3, ApartFine
  <2> QED BY <1>2, <2>3, <2>4
<1> QED BY <1>3, <1>4

LEMMA FineStep ==
  ASSUME Inv, [Next]_vars
  PROVE  Fine(node', object', thread', lock')
<1>1. CASE UNCHANGED vars
  BY <1>1, InvParts DEF vars
<1>2. ASSUME NEW th \in Thread, Owner(th) PROVE Fine(node', object', thread', lock')
  <2>1. CASE SendFailed(th)
    BY <2>1, SendFailedFine
  <2>2. CASE WriteDone(th)
    BY <2>2, WriteDoneFine
  <2>3. CASE Read(th)
    BY <2>3, ReadsFine
  <2>4. CASE ReadReturns(th)
    BY <2>4, ReadReturnsFine
  <2>5. CASE Execute(th)
    BY <2>5, ExecutesFine
  <2>6. CASE EndCall(th)
    BY <2>6, EndCallFine
  <2>7. CASE processPendingDerefs(th)
    BY <2>7, DerefsFine
  <2> QED BY <1>2, <2>1, <2>2, <2>3, <2>4, <2>5, <2>6, <2>7 DEF Owner
<1>3. ASSUME NEW h \in Holder, Holds(h) PROVE Fine(node', object', thread', lock')
  BY <1>3, HoldsFine
<1>4. ASSUME NEW th \in Thread, NEW h \in Holder, SendObject(th, h)
      PROVE  Fine(node', object', thread', lock')
  BY <1>4, SendObjectFine
<1>5. CASE AppDrops
  BY <1>5, AppDropsIsFine
<1>6. CASE OwnerDies
  BY <1>6, OwnerDiesFine
<1> QED BY <1>1, <1>2, <1>3, <1>4, <1>5, <1>6 DEF Next

LEMMA InvHolds == Spec => []Inv
<1>1. Init => Inv
  BY InitRight, InitFine DEF Inv
<1>2. Inv /\ [Next]_vars => Inv'
  <2> SUFFICES ASSUME Inv, [Next]_vars PROVE Inv'
    OBVIOUS
  <2>1. Counts /\ Bounded
    BY DEF Inv, CountInv, Counts, Bounded
  <2>2. Counts' /\ Bounded'
    BY <2>1, CountsStep, BoundedStep
  <2>3. CountInv'
    BY <2>2 DEF CountInv, Counts, Bounded
  <2> QED BY <2>3, FineStep DEF Inv
<1> QED BY <1>1, <1>2, PTL DEF Spec

LEMMA InvReaches == Inv => RemoteKeepsObject
<1> SUFFICES ASSUME Inv, ~node.diverted
             PROVE  /\ ~object.misused
                    /\ node.open /\ node.made /\ Strong(node) => object.alive
  BY DEF RemoteKeepsObject, ReferencedObjectLives
<1>1. Right(node, holder, object, thread) /\ Fine(node, object, thread, lock)
  BY InvParts
<1>2. ~object.misused
  BY <1>1 DEF Fine
<1>3. node.open /\ Strong(node) => object.alive
  BY <1>1, Reaches
<1> QED BY <1>2, <1>3

\* Until a failed transaction takes the work from the thread it waits for, the
\* order in which binder_thread_read tells the owner's threads of references, and
\* in which they execute that, keeps the object alive as long as any process has
\* a strong handle to it or a call to it is on its way.
THEOREM RemoteKeeps == Spec => []RemoteKeepsObject
<1>1. Inv => RemoteKeepsObject
  BY InvReaches
<1> QED BY <1>1, InvHolds, PTL

-----------------------------------------------------------------------------
(* What else the invariants say. *)

LEMMA CountInvHasTypes == CountInv => TypeOK
<1> SUFFICES ASSUME CountInv PROVE TypeOK
  OBVIOUS
<1>1. /\ node \in NodeType /\ holder \in HolderType /\ object \in ObjectType
      /\ thread \in [Thread -> ThreadType] /\ CardOK(node)
      /\ lock \in [by : Thread \cup {NoThread}, proc : BOOLEAN]
      /\ sends \in 0..MaxSends /\ passes \in 0..MaxPasses
  BY DEF CountInv, Right, CountsOK
<1>2. node.internal_strong \in Nat
  <2>1. PICK S : S = {h \in node.refs : node.strong[h] > 0}
    OBVIOUS
  <2>2. S \subseteq Holder
    BY <1>1, <2>1 DEF NodeType
  <2>3. Cardinality(S) \in Nat
    BY <2>2, RefsAssumption, FS_Subset, FS_CardinalityType
  <2> QED BY <1>1, <2>1, <2>3 DEF CardOK
<1>3. node \in [made : BOOLEAN, open : BOOLEAN,
               internal_strong : Nat, local_strong : Int, local_weak : Int,
               has_strong : BOOLEAN, has_weak : BOOLEAN,
               pending_strong : BOOLEAN, pending_weak : BOOLEAN,
               refs : SUBSET Holder, strong : [Holder -> Nat], weak : [Holder -> Nat],
               todo : [Thread -> Seq({"node", "complete"})],
               proc_todo : Seq({"node", "call"}),
               refused : BOOLEAN, diverted : BOOLEAN]
  BY <1>1, <1>2 DEF NodeType, Own, Common
<1>4. thread \in [Thread -> [doing : {"loop", "send", "failed", "call"},
                             in : Seq({"INCREFS", "ACQUIRE", "RELEASE", "DECREFS",
                                       "COMPLETE", "CALL"}),
                             out : Seq({"INCREFS_DONE", "ACQUIRE_DONE", "FREE"}),
                             weakDerefs : Nat, strongDerefs : Nat]]
  BY <1>1 DEF ThreadType, Returns, Answers
<1> QED BY <1>1, <1>3, <1>4 DEF TypeOK, HolderType, ObjectType

\* Every variable keeps its type: no count of references that must be a natural
\* number (a reference's strong and weak, internal_strong) is decremented at zero.
THEOREM TypeCorrect == Spec => []TypeOK
<1> QED BY CountInvHolds, CountInvHasTypes, PTL

-----------------------------------------------------------------------------
\* Only a transaction that fails takes the work from the thread it waits for.
LEMMA NotDiverted ==
  ASSUME Inv, [Next]_vars, ~SendsMayFail
  PROVE  node'.diverted = node.diverted
<1>0. Counts /\ node \in NodeType /\ Right(node, holder, object, thread)
      /\ Fine(node, object, thread, lock)
  BY InvParts DEF Right
<1>1. CASE UNCHANGED vars
  BY <1>1 DEF vars
<1>2. ASSUME NEW th \in Thread, Owner(th) PROVE node'.diverted = node.diverted
  <2>1. CASE WriteDone(th)
    <3>1. PICK n : n = node
      OBVIOUS
    <3>2. PICK T : T = thread
      OBVIOUS
    <3>3. PICK m : m = node'
      OBVIOUS
    <3>4. PICK U : U = thread'
      OBVIOUS
    <3>5. PICK u : u = [T[th] EXCEPT !.out = Tail(@)]
      OBVIOUS
    <3>6. /\ Right(n, holder, object, T) /\ n.open /\ T[th].out # <<>>
          /\ Steps(T, U, th, u) /\ Wrote(u, T[th])
      BY <1>0, <2>1, <3>1, <3>2, <3>4, <3>5 DEF WriteDone, AtDriver, Steps, Wrote
    <3>7. DoneIs(m, n, Head(T[th].out))
      BY <2>1, <3>1, <3>2, <3>3 DEF WriteDone, DoneIs
    <3>8. Placed(m, n)
      BY <3>6, <3>7, WriteRight
    <3> QED BY <3>1, <3>3, <3>8 DEF Placed
  <2>2. CASE Read(th)
    <3>1. PICK w, u : TurnOf(w, node, th) /\ node' = w.s
      BY <1>0, <2>2, ReadIs
    <3>2. CASE Works(w.s, node)
      BY <3>1, <3>2 DEF Works, Placed
    <3>3. CASE TookOwn(w.s, node, th) \/ TookProc(w.s, node)
      BY <1>0, <3>1, <3>3 DEF TookOwn, TookProc, NodeType
    <3> QED BY <3>1, <3>2, <3>3 DEF TurnOf
  <2>3. CASE SendFailed(th) \/ ReadReturns(th) \/ Execute(th) \/ EndCall(th)
             \/ processPendingDerefs(th)
    BY <2>3 DEF SendFailed, ReadReturns, Execute, EndCall, processPendingDerefs
  <2> QED BY <1>2, <2>1, <2>2, <2>3 DEF Owner
<1>3. ASSUME NEW h \in Holder, Holds(h) PROVE node'.diverted = node.diverted
  <2>1. CASE CallObject(h)
    BY <1>0, <2>1, CallObjectCounts
  <2>2. CASE BC_INCREFS(h)
    BY <1>0, <2>2, BC_INCREFS_Counts DEF Apart
  <2>3. CASE BC_ACQUIRE(h)
    BY <1>0, <2>3, BC_ACQUIRE_Counts DEF Apart
  <2>4. CASE BC_RELEASE(h)
    BY <1>0, <2>4, BC_RELEASE_Counts DEF Apart
  <2>5. CASE BC_DECREFS(h)
    BY <1>0, <2>5, BC_DECREFS_Counts DEF Apart
  <2>6. CASE BC_FREE_BUFFER(h)
    BY <1>0, <2>6, BC_FREE_BUFFER_Counts DEF Apart
  <2>7. CASE HolderDies(h)
    BY <1>0, <2>7, HolderDies_Counts DEF Apart
  <2>8. ASSUME NEW to \in Holder, PassHandle(h, to) PROVE node'.diverted = node.diverted
    BY <1>0, <2>8, PassHandleCounts DEF Apart
  <2> QED BY <1>3, <2>1, <2>2, <2>3, <2>4, <2>5, <2>6, <2>7, <2>8 DEF Holds
<1>4. ASSUME NEW th \in Thread, NEW h \in Holder, SendObject(th, h)
      PROVE  node'.diverted = node.diverted
  <2>1. PICK n : n = node
    OBVIOUS
  <2>2. PICK s : s = TranslateBinder(n, th, h)
    OBVIOUS
  <2>3. PICK m : m = node'
    OBVIOUS
  <2>4. Queued(m, s, th) /\ n.open /\ n.todo[th] = <<>>
    BY <1>4, <2>1, <2>2, <2>3 DEF SendObject, AtDriver, Queued
  <2>5. n \in NodeType /\ FlagsOK(n) /\ CountsOK(n) /\ n.local_strong >= 0
    <3>1. Right(n, holder, object, thread)
      BY <1>0, <2>1
    <3>2. n \in NodeType /\ thread \in [Thread -> ThreadType] /\ SumsOK(n, object, thread)
          /\ FlagsOK(n) /\ CountsOK(n)
      BY <2>4, <3>1 DEF Right
    <3>3. n.local_strong >= 0
      BY <3>2, HeldEnough
    <3> QED BY <3>2, <3>3
  <2>6. SentTo(s, n, h)
    BY <2>2, <2>4, <2>5, TranslateIs
  <2>7. s \in NodeType /\ s.diverted = n.diverted
    BY <2>6 DEF SentTo
  <2>8. m.diverted = s.diverted
    BY <2>4, <2>7 DEF Queued, NodeType
  <2> QED BY <2>1, <2>3, <2>7, <2>8
<1>5. CASE AppDrops
  BY <1>5 DEF AppDrops
<1>6. CASE OwnerDies
  BY <1>0, <1>6, OwnerDiesRight
<1> QED BY <1>1, <1>2, <1>3, <1>4, <1>5, <1>6 DEF Next

\* The parcel of the thread that is told to acquire the object keeps it.
LEMMA AcquireFinds ==
  ASSUME Inv, ~node.diverted, ReferencedObjectLives
  PROVE  AcquireFindsObject
<1> SUFFICES ASSUME NEW th \in Thread, node.open, thread[th].in # <<>>,
                    Head(thread[th].in) = "ACQUIRE"
             PROVE  object.alive
  BY DEF AcquireFindsObject
<1>1. thread[th].in \in Seq(Returns)
  <2>1. thread \in [Thread -> ThreadType]
    BY InvParts DEF Right
  <2>2. thread[th] \in ThreadType
    BY <2>1
  <2> QED BY <2>2 DEF ThreadType
<1>2. Has(thread[th].in, "ACQUIRE")
  <2>1. 1 \in DOMAIN thread[th].in /\ thread[th].in[1] = "ACQUIRE"
    BY <1>1
  <2> QED BY <2>1 DEF Has
<1>3. GivenOK(node, thread[th], node.todo[th]) /\ KeptOK(object, thread)
  BY InvParts DEF Fine, ThreadFine
<1>4. thread[th].doing = "send"
  BY <1>2, <1>3 DEF GivenOK
<1> QED BY <1>3, <1>4 DEF KeptOK, Keeps

\* When no transaction fails behind the object in it (binder_transaction's error
\* path, which drops the reference again), the owner never touches an object that
\* is gone: BR_INCREFS and calls find it, and the assertion of BR_ACQUIRE holds.
THEOREM NeverMisused ==
  ASSUME ~SendsMayFail
  PROVE  Spec => [](ReferencedObjectLives /\ AcquireFindsObject)
<1>1. Init => ~node.diverted
  BY DEF Init
<1>2. Inv /\ ~node.diverted /\ [Next]_vars => (~node.diverted)'
  BY NotDiverted
<1>3. Inv /\ ~node.diverted => ReferencedObjectLives
  BY InvReaches DEF RemoteKeepsObject
<1>4. Inv /\ ~node.diverted => ReferencedObjectLives /\ AcquireFindsObject
  BY <1>3, AcquireFinds
<1> QED BY <1>1, <1>2, <1>4, InvHolds, PTL DEF Spec
===============================================================================
