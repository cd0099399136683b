-------------------------- MODULE BinderAllocProofs --------------------------
(***************************************************************************)
(* Proofs about the buffer allocator.  The functions of the driver turn one *)
(* state of the area into the next: each of them gets a lemma that says     *)
(* which parts of the invariant it keeps and which it leaves for the next   *)
(* function to restore.  A buffer that is being freed, or whose header is   *)
(* about to go, is for these lemmas an allocated buffer of which nothing is *)
(* asked: so the pages are exact at every intermediate state.               *)
(***************************************************************************)
EXTENDS BinderAlloc, FiniteSetTheorems, WellFoundedInduction, TLAPS

Nothing == <<0, 0, 0>>

Area == [headers : SUBSET Addresses,
         free    : SUBSET Addresses,
         key     : [Addresses -> 0..Size],
         asked   : [Addresses -> Requests \cup {Nothing}],
         async   : SUBSET Addresses,
         given   : SUBSET Addresses,
         pages   : SUBSET Pages,
         bug     : BOOLEAN]

\* The first address behind the data that was asked for.
Extent(s, a) == Data(a) + Total(s.asked[a])

\* n is where the buffer at a ends: at the next header or with the area.
Ends(s, a, n) ==
  /\ n \in s.headers \cup {Size}
  /\ a < n
  /\ \A b \in s.headers : a < b => n <= b

Fits(s, a) ==
  /\ Extent(s, a) <= Size
  /\ \A b \in s.headers : a < b => Extent(s, a) <= b
  /\ \/ s.asked[a] = Nothing
     \/ s.asked[a] \in Requests /\ Representable(s.asked[a])

Shape(s) ==
  /\ s \in Area
  /\ 0 \in s.headers
  /\ s.free \subseteq s.headers
  /\ s.async \subseteq Allocated(s)
  /\ \A a \in Addresses : a \notin Allocated(s) => s.asked[a] = Nothing
  /\ \A a \in s.headers : Fits(s, a)

\* A page is there exactly if a buffer lies on it.
Touched(s, q) ==
  \E a \in s.headers : PageOf(a) <= q /\ q <= PageOf(Extent(s, a) - 1)
Exact(s) == \A q \in Pages : q \in s.pages <=> Touched(s, q)

\* The buffers whose key is the size they have, those that are not larger than
\* they need to be, and no two free neighbours.
Keyed(s, but) == \A a \in s.free \ but : s.key[a] = binder_buffer_size(s, a)
Tight(s, but) ==
  \A a \in Allocated(s) \ but :
    NextHeader(s, a) <= Extent(s, a) + Header + Slack
Spaced(s) ==
  \A a, b \in s.free : a < b => \E c \in s.headers : a < c /\ c < b

AsyncOf(s) == UNION {a..Extent(s, a) - 1 : a \in s.async}
SpaceLeft(s, n) == n + Cardinality(AsyncOf(s)) = Size \div 2

Inv ==
  /\ TypeOK
  /\ Shape(area)
  /\ life # "gone" => Exact(area)
  /\ Keyed(area, {}) /\ Tight(area, {}) /\ Spaced(area)
  /\ SpaceLeft(area, space)
  /\ ~area.bug

-----------------------------------------------------------------------------
(* Arithmetic. *)

\* A set of numbers that is not empty has a least member.
LEMMA HasMin ==
  ASSUME NEW S \in SUBSET Nat, S # {}
  PROVE  \E m \in S : \A x \in S : m <= x
<1> DEFINE R == {p \in Nat \X Nat : p[1] < p[2]}
<1>1. IsWellFoundedOn(R, Nat)
  BY NatLessThanWellFounded, Zenon DEF OpToRel
<1>2. \A x, y \in Nat : <<y, x>> \in R <=> y < x
  OBVIOUS
<1> HIDE DEF R
<1>3. PICK m \in S : \A y \in S : ~ (<<y, m>> \in R)
  BY <1>1, WFMin
<1>4. ASSUME NEW y \in S PROVE m <= y
  <2>1. ~ (y < m)
    BY <1>2, <1>3
  <2> QED BY <2>1
<1> QED BY <1>4

\* What Min and Max choose.
LEMMA MinIsLeast ==
  ASSUME NEW S \in SUBSET Nat, S # {}
  PROVE  Min(S) \in S /\ \A x \in S : Min(S) <= x
<1>1. \E m \in S : \A x \in S : m <= x
  BY HasMin
<1> QED BY <1>1 DEF Min

LEMMA MaxIsGreatest ==
  ASSUME NEW S \in SUBSET Nat, S # {}, NEW top \in Nat, \A x \in S : x <= top
  PROVE  Max(S) \in S /\ \A x \in S : x <= Max(S)
<1> DEFINE D == {n \in Nat : top - n \in S}
<1>1. \A x \in S : top - x \in D
  OBVIOUS
<1>2. PICK d \in D : \A x \in D : d <= x
  <2>1. D \in SUBSET Nat /\ D # {}
    BY <1>1
  <2> HIDE DEF D
  <2> QED BY <2>1, HasMin
<1>3. top - d \in S /\ d \in Nat
  BY <1>2
<1>4. \A x \in S : x <= top - d
  <2> TAKE x \in S
  <2>1. d <= top - x
    BY <1>1, <1>2
  <2> QED BY <2>1, <1>3
<1>5. \E m \in S : \A x \in S : m >= x
  BY <1>3, <1>4
<1> QED BY <1>5 DEF Max

\* The constants as numbers.
LEMMA Numbers ==
  /\ Size \in Nat \ {0} /\ PageSize \in Nat \ {0} /\ Header \in Nat \ {0}
  /\ Word \in Nat \ {0} /\ Slack \in Nat \ {0} /\ Wrap \in Nat \ {0}
  /\ Header + Slack < PageSize
  /\ Size < Wrap
BY AllocAssumption

\* What a page number says of an address.
LEMMA PageFacts ==
  ASSUME NEW x \in Nat
  PROVE  /\ PageOf(x) \in Nat
         /\ PageSize * PageOf(x) <= x
         /\ x < PageSize * PageOf(x) + PageSize
<1> DEFINE p == PageSize
<1>1. p \in Nat \ {0}
  BY Numbers
<1> HIDE DEF p
<1>2. x \div p \in Nat /\ p * (x \div p) <= x /\ x < p * (x \div p) + p
  BY <1>1
<1> QED BY <1>2 DEF PageOf, p

LEMMA PagesGrow ==
  ASSUME NEW x \in Nat, NEW y \in Nat, x <= y
  PROVE  PageOf(x) <= PageOf(y)
<1> DEFINE p == PageSize
<1>1. p \in Nat \ {0}
  BY Numbers
<1> HIDE DEF p
<1>2. x \div p <= y \div p
  BY <1>1
<1> QED BY <1>2 DEF PageOf, p

LEMMA OnePageOn ==
  ASSUME NEW x \in Nat
  PROVE  PageOf(x + PageSize) = PageOf(x) + 1
<1> DEFINE p == PageSize
<1>1. p \in Nat \ {0}
  BY Numbers
<1> HIDE DEF p
<1>2. (x + p) \div p = x \div p + 1
  BY <1>1
<1> QED BY <1>2 DEF PageOf, p

\* Less than a page further on is at most the next page.
LEMMA NextPageAtMost ==
  ASSUME NEW x \in Nat, NEW y \in Nat, y < x + PageSize
  PROVE  PageOf(y) <= PageOf(x) + 1
<1>1. x + PageSize \in Nat /\ y <= x + PageSize
  BY Numbers
<1> QED BY <1>1, PagesGrow, OnePageOn

LEMMA RoundedUp ==
  ASSUME NEW x \in Nat, 0 < x
  PROVE  PageAlign(x) = PageOf(x - 1) + 1
<1>1. x - 1 \in Nat /\ x + PageSize - 1 = (x - 1) + PageSize
  BY Numbers
<1> QED BY <1>1, OnePageOn DEF PageAlign, PageOf

\* The pages of the area are those of its addresses.
LEMMA SizeInPages ==
  /\ PageOf(Size) \in Nat
  /\ Pages = 0..PageOf(Size) - 1
  /\ \A x \in Nat : x < Size => PageOf(x) \in Pages
<1>1. PageOf(Size) \in Nat /\ Pages = 0..PageOf(Size) - 1
  BY Numbers, PageFacts DEF Pages, PageOf
<1>2. ASSUME NEW x \in Nat, x < Size PROVE PageOf(x) \in Pages
  <2> DEFINE p == PageSize
             z == Size
  <2>1. p \in Nat \ {0} /\ z \in Nat \ {0} /\ x < z
    BY Numbers, <1>2
  <2>2. (z % p) = 0
    BY AllocAssumption DEF p, z
  <2> HIDE DEF p, z
  <2>3. x \div p < z \div p
    BY <2>1, <2>2
  <2>4. PageOf(x) < PageOf(Size)
    BY <2>3 DEF PageOf, p, z
  <2> QED BY <2>4, <1>1, PageFacts
<1> QED BY <1>1, <1>2
-----------------------------------------------------------------------------
(* Neighbours. *)

LEMMA AddressFacts ==
  /\ Addresses \subseteq Nat
  /\ \A a \in Addresses : a < Size /\ Data(a) \in Nat /\ a < Data(a)
BY Numbers DEF Addresses, Data

\* The next header, or the end of the area, is there and is the only such
\* address; the size of a buffer is up to it.
LEMMA NextIs ==
  ASSUME NEW s \in Area, NEW a \in Addresses
  PROVE  /\ Ends(s, a, NextHeader(s, a))
         /\ NextHeader(s, a) \in Nat /\ NextHeader(s, a) <= Size
         /\ \A n : Ends(s, a, n) => n = NextHeader(s, a)
         /\ binder_buffer_size(s, a) = NextHeader(s, a) - Data(a)
<1> DEFINE S == Above(s, a) \cup {Size}
           n == NextHeader(s, a)
<1>1. s.headers \subseteq Addresses /\ Size \in Nat
  BY Numbers DEF Area
<1>2. S \in SUBSET Nat /\ S # {}
  BY <1>1, AddressFacts DEF Above
<1>3. n \in S /\ \A x \in S : n <= x
  <2> HIDE DEF S
  <2>1. n = Min(S)
    BY DEF n, S, NextHeader
  <2> QED BY <2>1, <1>2, MinIsLeast
<1>4. a < Size
  BY AddressFacts
<1>5. Ends(s, a, n) /\ n \in Nat /\ n <= Size
  <2>1. n \in s.headers \cup {Size} /\ a < n
    BY <1>3, <1>4 DEF Above
  <2>2. \A b \in s.headers : a < b => n <= b
    BY <1>3, <1>1, AddressFacts DEF Above
  <2>3. n \in Nat /\ n <= Size
    BY <1>2, <1>3
  <2> QED BY <2>1, <2>2, <2>3 DEF Ends
<1>6. ASSUME NEW x, Ends(s, a, x) PROVE x = n
  <2>1. x \in s.headers \cup {Size} /\ a < x
    BY <1>6 DEF Ends
  <2>2. x \in Nat /\ x <= Size
    <3> HIDE DEF S, n
    <3>1. CASE x = Size
      BY <3>1, <1>1
    <3>2. CASE x # Size
      <4>1. x \in Addresses
        BY <3>2, <2>1, <1>1
      <4> QED BY <4>1, AddressFacts, Numbers
    <3> QED BY <3>1, <3>2
  <2>3. x \in S
    BY <2>1, <2>2, <1>1, AddressFacts DEF Above
  <2>4. n <= x
    BY <2>3, <1>3
  <2>5. CASE n = Size
    BY <2>4, <2>2, <2>5, <1>1
  <2>6. CASE n # Size
    <3>1. n \in s.headers /\ a < n
      BY <2>6, <1>5 DEF Ends
    <3>2. x <= n
      BY <3>1, <1>6 DEF Ends
    <3> QED BY <3>2, <2>4, <2>2, <1>5
  <2> QED BY <2>5, <2>6
<1> QED BY <1>5, <1>6 DEF binder_buffer_size

\* The buffer below.
LEMMA PrevIs ==
  ASSUME NEW s \in Area, NEW a \in Addresses, Below(s, a) # {}
  PROVE  /\ Max(Below(s, a)) \in s.headers /\ Max(Below(s, a)) < a
         /\ \A b \in s.headers : b < a => b <= Max(Below(s, a))
<1>1. s.headers \subseteq Addresses /\ Size \in Nat
  BY Numbers DEF Area
<1>2. Below(s, a) \in SUBSET Nat /\ \A x \in Below(s, a) : x <= Size
  BY <1>1, AddressFacts DEF Below
<1>3. /\ Max(Below(s, a)) \in Below(s, a)
      /\ \A x \in Below(s, a) : x <= Max(Below(s, a))
  BY <1>1, <1>2, MaxIsGreatest
<1> QED BY <1>3 DEF Below

\* The buffer above, where there is one, is what NextHeader says.
LEMMA AboveIs ==
  ASSUME NEW s \in Area, NEW a \in Addresses
  PROVE  /\ Above(s, a) = {} => NextHeader(s, a) = Size
         /\ Above(s, a) # {} => /\ Min(Above(s, a)) = NextHeader(s, a)
                                /\ NextHeader(s, a) \in s.headers
         /\ NextHeader(s, a) # Size => Above(s, a) # {}
<1>1. s.headers \subseteq Addresses /\ Size \in Nat
  BY Numbers DEF Area
<1>2. Ends(s, a, NextHeader(s, a))
  BY NextIs
<1>3. NextHeader(s, a) # Size => Above(s, a) # {}
  BY <1>2 DEF Ends, Above
<1>4. ASSUME Above(s, a) # {}
      PROVE  Min(Above(s, a)) = NextHeader(s, a) /\ NextHeader(s, a) \in s.headers
  <2> DEFINE m == Min(Above(s, a))
  <2>1. Above(s, a) \in SUBSET Nat
    BY <1>1, AddressFacts DEF Above
  <2>2. m \in Above(s, a) /\ \A x \in Above(s, a) : m <= x
    BY <2>1, <1>4, MinIsLeast
  <2> HIDE DEF m
  <2>3. Ends(s, a, m)
    BY <2>2, <1>1, AddressFacts DEF Above, Ends
  <2>4. m = NextHeader(s, a)
    BY <2>3, NextIs
  <2> QED BY <2>4, <2>2 DEF m, Above
<1> QED BY <1>3, <1>4

\* Two states with the same headers have the same neighbours.
LEMMA SameHeaders ==
  ASSUME NEW s, NEW u, s.headers = u.headers, NEW a
  PROVE  /\ NextHeader(s, a) = NextHeader(u, a)
         /\ binder_buffer_size(s, a) = binder_buffer_size(u, a)
         /\ Above(s, a) = Above(u, a) /\ Below(s, a) = Below(u, a)
BY DEF NextHeader, binder_buffer_size, Above, Below

-----------------------------------------------------------------------------
(* Requests. *)

\* Rounding up to words.
LEMMA RoundsUp ==
  ASSUME NEW n \in Nat
  PROVE  /\ Up(n) \in Nat /\ n <= Up(n) /\ Up(n) < n + Word
         /\ Up(n) % Word = 0
<1> DEFINE w == Word
           x == n + w - 1
<1>1. w \in Nat \ {0}
  BY Numbers
<1> HIDE DEF w
<1>2. x \in Nat /\ x \div w \in Nat /\ w * (x \div w) <= x /\ x < w * (x \div w) + w
  BY <1>1
<1>3. (x \div w) * w = w * (x \div w)
  BY <1>1, <1>2
<1>4. ((x \div w) * w) % w = 0
  BY <1>1, <1>2
<1>5. Up(n) = (x \div w) * w
  BY DEF Up, w
<1> HIDE DEF x
<1>6. x = n + w - 1
  BY DEF x
<1>7. (x \div w) * w \in Nat /\ n <= (x \div w) * w /\ (x \div w) * w < n + w
  BY <1>1, <1>2, <1>3, <1>6
<1> QED BY <1>4, <1>5, <1>7 DEF w

\* Nothing is asked of a free buffer.
LEMMA NothingIsNothing == Total(Nothing) = 0 /\ Needs(Nothing) = 0
<1>1. Wrap % Word = 0 /\ Word \in Nat \ {0} /\ Wrap \in Nat \ {0}
  BY AllocAssumption
<1>2. Word <= Wrap
  BY <1>1
<1>3. (Word - 1) % Wrap = Word - 1 /\ (Word - 1) \div Word = 0
  BY <1>1, <1>2
<1>4. Aligned(0) = 0 /\ Up(0) = 0
  BY <1>1, <1>3 DEF Aligned, Up
<1>5. 0 % Wrap = 0
  BY <1>1
<1> QED BY <1>4, <1>5 DEF Nothing, Total, DataOffsets, Needs

\* Multiples.
LEMMA Multiples ==
  ASSUME NEW w \in Nat \ {0}, NEW x \in Nat, NEW y \in Nat, x % w = 0, y % w = 0
  PROVE  /\ (x + y) % w = 0
         /\ x < y => x + w <= y
<1> DEFINE i == x \div w
           j == y \div w
<1>1. i \in Nat /\ j \in Nat /\ x = w * i /\ y = w * j
  OBVIOUS
<1>2. x + y = w * (i + j) /\ i + j \in Nat
  BY <1>1
<1>3. (w * (i + j)) % w = 0
  BY <1>1
<1>4. (x + y) % w = 0
  BY <1>2, <1>3
<1>5. ASSUME x < y PROVE x + w <= y
  <2> HIDE DEF i, j
  <2>1. i < j
    <3>1. ~ (j <= i)
      <4> SUFFICES ASSUME j <= i PROVE FALSE
        OBVIOUS
      <4>1. w * j <= w * i
        BY <1>1
      <4> QED BY <4>1, <1>1, <1>5
    <3> QED BY <3>1, <1>1
  <2>2. i + 1 <= j
    BY <2>1, <1>1
  <2>3. w * (i + 1) <= w * j /\ w * (i + 1) = w * i + w
    BY <2>2, <1>1
  <2> QED BY <2>3, <1>1
<1> QED BY <1>4, <1>5

\* Rounding up wraps around a size_t or not.  When the sum is not below what
\* was added to, nothing wrapped: both are whole words.
LEMMA NoWrap ==
  ASSUME NEW x \in 0..Wrap - 1, x % Word = 0, NEW n \in 0..Wrap - 1,
         (x + Aligned(n)) % Wrap >= n
  PROVE  /\ Aligned(n) = Up(n)
         /\ (x + Aligned(n)) % Wrap = x + Up(n)
         /\ x + Up(n) \in 0..Wrap - 1 /\ (x + Up(n)) % Word = 0
<1> DEFINE w == Word
           z == Wrap
           u == Up(n)
           v == Aligned(n)
           m == n + w - 1
<1>1. w \in Nat \ {0} /\ z \in Nat \ {0} /\ (z % w) = 0 /\ x \in Nat /\ n \in Nat
  BY AllocAssumption DEF w, z
<1>2. u \in Nat /\ n <= u /\ u < n + w /\ (u % w) = 0
  <2>1. n \in Nat
    BY <1>1
  <2> HIDE DEF w, u
  <2> QED BY <2>1, RoundsUp DEF w, u
<1>3. x < z /\ n < z
  BY <1>1
<1>4. ((x + v) % z) >= n /\ (x % w) = 0
  OBVIOUS
<1>5. v = ((m % z) \div w) * w /\ u = (m \div w) * w
  BY DEF Aligned, Up
<1>6. m = n + w - 1 /\ m \in Nat
  BY <1>1
<1> HIDE DEF w, z, u, v, m
<1>7. w <= z
  <2>1. z \in Nat /\ 0 < z /\ (0 % w) = 0
    BY <1>1
  <2>2. 0 + w <= z
    BY <2>1, <1>1, Multiples
  <2> QED BY <2>2, <1>1
<1>8. CASE m < z
  <2>1. m % z = m
    BY <1>8, <1>6, <1>1
  <2>2. v = u /\ u < z
    BY <2>1, <1>5, <1>2, <1>6, <1>8, <1>1
  <2>3. x + u < z
    <3> SUFFICES ASSUME z <= x + u PROVE FALSE
      BY <1>1, <1>2
    <3>1. x + u - z \in Nat /\ x + u - z < z
      BY <1>1, <1>2, <1>3, <2>2
    <3>2. (x + u) % z = x + u - z
      BY <3>1, <1>1, <1>2
    <3>3. x + w <= z
      BY <1>1, <1>3, <1>4, Multiples
    <3>4. n <= x + u - z
      BY <3>2, <1>4, <2>2
    <3> QED BY <3>3, <3>4, <1>1, <1>2
  <2>4. (x + u) % z = x + u /\ x + u \in 0..z - 1
    BY <2>3, <1>1, <1>2
  <2>5. (x + u) % w = 0
    BY <1>1, <1>2, <1>4, Multiples
  <2> QED BY <2>2, <2>4, <2>5 DEF w, z, u, v
<1>9. CASE z <= m
  <2>1. m - z \in Nat /\ m - z < z /\ m - z < w
    BY <1>9, <1>6, <1>1, <1>3, <1>7
  <2>2. m % z = m - z
    BY <2>1, <1>6, <1>1
  <2>3. (m - z) \div w = 0
    BY <2>1, <1>1
  <2>4. v = 0
    BY <2>2, <2>3, <1>5, <1>1
  <2>5. (x + v) % z = x
    BY <2>4, <1>1, <1>3
  <2>6. x + w <= z
    BY <1>1, <1>3, <1>4, Multiples
  <2>7. n <= x
    BY <2>5, <1>4
  <2> QED BY <2>6, <2>7, <1>9, <1>6, <1>1
<1> QED BY <1>8, <1>9, <1>6, <1>1

LEMMA AlignedType ==
  ASSUME NEW n \in 0..Wrap - 1
  PROVE  Aligned(n) \in 0..Wrap - 1 /\ Aligned(n) % Word = 0
<1> DEFINE w == Word
           z == Wrap
           m == (n + w - 1) % z
<1>1. w \in Nat \ {0} /\ z \in Nat \ {0} /\ n \in Nat
  BY Numbers
<1>2. n + w - 1 \in Nat
  BY <1>1
<1>3. m \in Nat /\ m < z
  BY <1>1, <1>2
<1>4. Aligned(n) = (m \div w) * w
  BY DEF Aligned
<1> HIDE DEF w, z, m
<1>5. m \div w \in Nat /\ w * (m \div w) <= m
  BY <1>1, <1>3
<1>6. (m \div w) * w = w * (m \div w) /\ w * (m \div w) \in Nat
  BY <1>1, <1>5
<1>7. (w * (m \div w)) % w = 0
  <2>1. \A i \in Nat : (w * i) % w = 0
    BY <1>1
  <2> QED BY <2>1, <1>5
<1>8. Aligned(n) \in 0..z - 1
  BY <1>4, <1>5, <1>6, <1>3, <1>1
<1> QED BY <1>4, <1>6, <1>7, <1>8 DEF w, z

\* So a request that is not refused gets what it needs.
LEMMA RepresentableIsEnough ==
  ASSUME NEW r \in Requests, Representable(r)
  PROVE  Total(r) = Needs(r) /\ Total(r) \in 0..Wrap - 1
<1> DEFINE a == Aligned(r[1])
           b == Aligned(r[2])
           c == Aligned(r[3])
           d == DataOffsets(r)
<1>1. r[1] \in 0..Wrap - 1 /\ r[2] \in 0..Wrap - 1 /\ r[3] \in 0..Wrap - 1
  BY AllocAssumption
<1>2. /\ a \in 0..Wrap - 1 /\ a % Word = 0
      /\ b \in 0..Wrap - 1 /\ b % Word = 0
  BY <1>1, AlignedType
<1>3. a + b = b + a
  BY <1>2
<1>4. (b + a) % Wrap >= r[1] /\ (a + b) % Wrap >= r[2] /\ d = (a + b) % Wrap
  BY <1>3 DEF Representable, DataOffsets
<1>5. Total(r) = (d + c) % Wrap /\ (d + c) % Wrap >= r[3]
  BY DEF Representable, Total
<1>6. /\ b = Up(r[2])
      /\ d = a + Up(r[2]) /\ d \in 0..Wrap - 1 /\ d % Word = 0
  <2> HIDE DEF a, d
  <2>1. (a + Aligned(r[2])) % Wrap >= r[2]
    BY <1>4
  <2> QED BY <2>1, <1>1, <1>2, <1>4, NoWrap
<1>7. a = Up(r[1])
  <2> HIDE DEF b
  <2>1. (b + Aligned(r[1])) % Wrap >= r[1]
    BY <1>4
  <2> QED BY <2>1, <1>1, <1>2, NoWrap
<1>8. Total(r) = d + Up(r[3]) /\ d + Up(r[3]) \in 0..Wrap - 1
  <2> HIDE DEF d
  <2> QED BY <1>1, <1>5, <1>6, NoWrap
<1>9. Needs(r) = Up(r[1]) + Up(r[2]) + Up(r[3])
  BY DEF Needs
<1> QED BY <1>6, <1>7, <1>8, <1>9
-----------------------------------------------------------------------------
(* Where buffers lie. *)

\* A buffer's extent, and what Shape says of it, as numbers.
LEMMA Extents ==
  ASSUME NEW s, Shape(s), NEW a \in s.headers
  PROVE  /\ a \in Addresses /\ a \in Nat /\ s.asked[a] \in Requests \cup {Nothing}
         /\ Total(s.asked[a]) \in Nat /\ Total(s.asked[a]) = Needs(s.asked[a])
         /\ Extent(s, a) \in Nat /\ Extent(s, a) = a + Header + Total(s.asked[a])
         /\ Extent(s, a) <= Size
         /\ \A b \in s.headers : a < b => Extent(s, a) <= b
<1>1. s \in Area /\ Fits(s, a)
  BY DEF Shape
<1>2. a \in Addresses /\ s.asked[a] \in Requests \cup {Nothing}
  BY <1>1 DEF Area
<1>3. a \in Nat
  BY <1>2, AddressFacts
<1>4. Total(s.asked[a]) \in Nat /\ Total(s.asked[a]) = Needs(s.asked[a])
  <2>1. CASE s.asked[a] = Nothing
    BY <2>1, NothingIsNothing
  <2>2. CASE s.asked[a] \in Requests /\ Representable(s.asked[a])
    <3> DEFINE r == s.asked[a]
    <3>1. r \in Requests /\ Representable(r)
      BY <2>2
    <3> HIDE DEF r
    <3>2. Total(r) = Needs(r) /\ Total(r) \in 0..Wrap - 1
      BY <3>1, RepresentableIsEnough
    <3> QED BY <3>2, Numbers DEF r
  <2> QED BY <1>1, <2>1, <2>2 DEF Fits
<1>5. Extent(s, a) = a + Header + Total(s.asked[a])
  BY DEF Extent, Data
<1>6. Extent(s, a) \in Nat
  BY <1>3, <1>4, <1>5, Numbers
<1> QED BY <1>1, <1>2, <1>3, <1>4, <1>5, <1>6 DEF Fits

\* The pages of a buffer: the first is not above the last, both are in the
\* area, and buffers in the order of their addresses have pages in that order.
LEMMA PagesOf ==
  ASSUME NEW s, Shape(s), NEW a \in s.headers
  PROVE  /\ PageOf(a) \in Nat /\ PageOf(Extent(s, a) - 1) \in Nat
         /\ PageOf(a) <= PageOf(Extent(s, a) - 1)
         /\ PageOf(Extent(s, a) - 1) < PageOf(Size)
         /\ \A b \in s.headers : a < b => PageOf(Extent(s, a) - 1) <= PageOf(b)
<1>1. /\ a \in Nat /\ Extent(s, a) \in Nat /\ Extent(s, a) <= Size
      /\ a <= Extent(s, a) - 1
  BY Extents, Numbers
<1>2. Extent(s, a) - 1 \in Nat /\ Extent(s, a) - 1 < Size
  BY <1>1, Numbers
<1> DEFINE x == Extent(s, a) - 1
<1>3. x \in Nat /\ x < Size /\ a <= x /\ \A b \in s.headers : a < b => x < b
  BY <1>1, <1>2, Extents
<1> HIDE DEF x
<1>4. PageOf(a) \in Nat /\ PageOf(x) \in Nat /\ PageOf(a) <= PageOf(x)
  BY <1>1, <1>3, PageFacts, PagesGrow
<1>5. PageOf(x) \in Pages
  BY <1>3, SizeInPages
<1>6. PageOf(x) < PageOf(Size)
  BY <1>5, SizeInPages
<1>7. ASSUME NEW b \in s.headers, a < b PROVE PageOf(x) <= PageOf(b)
  <2>1. b \in Nat /\ x <= b
    BY <1>3, <1>7, Extents
  <2> QED BY <2>1, <1>3, PagesGrow
<1> QED BY <1>4, <1>6, <1>7 DEF x

\* The header of a buffer of which nothing is asked: it lies on one page or two.
LEMMA HeaderPages ==
  ASSUME NEW s, Shape(s), NEW a \in s.headers, s.asked[a] = Nothing
  PROVE  /\ Extent(s, a) - 1 = a + Header - 1 /\ Extent(s, a) = Data(a)
         /\ PageOf(Extent(s, a) - 1) = buffer_end_page(a)
         /\ PageOf(a) = buffer_start_page(a)
         /\ buffer_start_page(a) \in Nat /\ buffer_end_page(a) \in Nat
         /\ buffer_start_page(a) <= buffer_end_page(a)
         /\ buffer_end_page(a) <= buffer_start_page(a) + 1
<1>1. /\ a \in Nat /\ Extent(s, a) = a + Header + Total(s.asked[a])
      /\ Total(s.asked[a]) = 0
  BY Extents, NothingIsNothing
<1>2. Extent(s, a) - 1 = a + Header - 1 /\ Extent(s, a) = Data(a)
  BY <1>1, Numbers DEF Data
<1>3. a + Header - 1 \in Nat /\ a + Header - 1 < a + PageSize
  BY <1>1, Numbers
<1>4. PageOf(a + Header - 1) <= PageOf(a) + 1
  BY <1>1, <1>3, NextPageAtMost
<1> QED BY <1>2, <1>4, PagesOf DEF buffer_start_page, buffer_end_page

-----------------------------------------------------------------------------
(* binder_delete_free_buffer. *)

\* Another buffer than the one at a lies on the page.
Shared(s, a, q) ==
  \E c \in s.headers \ {a} : PageOf(c) <= q /\ q <= PageOf(Extent(s, c) - 1)

\* The first page of a header goes exactly if no other buffer lies on it, and
\* so does the last: looking at the two neighbours is enough.
LEMMA NeighboursAreEnough ==
  ASSUME NEW s, Shape(s), NEW a \in s.headers, a # 0, s.asked[a] = Nothing,
         s.asked[Max(Below(s, a))] = Nothing
  PROVE  /\ Below(s, a) # {}
         /\ FreesStart(s, a) <=> ~Shared(s, a, buffer_start_page(a))
         /\ FreesEnd(s, a) <=> ~Shared(s, a, buffer_end_page(a))
<1> DEFINE S == buffer_start_page(a)
           E == buffer_end_page(a)
           p == Max(Below(s, a))
           P == buffer_end_page(p)
           n == Min(Above(s, a))
           N == buffer_start_page(n)
           L(c) == PageOf(Extent(s, c) - 1)
<1>1. s \in Area /\ a \in Addresses /\ 0 \in s.headers /\ s.headers \subseteq Addresses
  BY Extents DEF Shape, Area
<1>2. Below(s, a) # {}
  BY <1>1, AddressFacts DEF Below
<1>3. p \in s.headers /\ p < a /\ \A c \in s.headers : c < a => c <= p
  BY <1>1, <1>2, PrevIs
<1>4. /\ S = PageOf(a) /\ E = L(a) /\ S \in Nat /\ E \in Nat /\ S <= E
      /\ P = L(p) /\ P \in Nat
  BY <1>3, HeaderPages
<1>5. \A c \in s.headers :
        /\ PageOf(c) \in Nat /\ L(c) \in Nat /\ PageOf(c) <= L(c)
        /\ \A d \in s.headers : c < d => L(c) <= PageOf(d)
  BY PagesOf
<1>6. P <= S
  BY <1>3, <1>4, <1>5
<1>7. \A c \in s.headers : c < a => L(c) <= P
  <2> TAKE c \in s.headers
  <2> HAVE c < a
  <2>1. c \in Nat /\ p \in Nat /\ c <= p
    BY <1>1, <1>3, AddressFacts
  <2>2. c = p \/ c < p
    BY <2>1
  <2>3. CASE c < p
    BY <2>3, <1>3, <1>4, <1>5
  <2> QED BY <2>2, <2>3, <1>4
<1>8. Above(s, a) # {} =>
        /\ n \in s.headers /\ a < n /\ N = PageOf(n) /\ E <= N
  <2> HAVE Above(s, a) # {}
  <2>1. n = NextHeader(s, a) /\ n \in s.headers
    BY <1>1, AboveIs
  <2>2. a < n
    BY <1>1, <2>1, NextIs DEF Ends
  <2> QED BY <2>1, <2>2, <1>4, <1>5 DEF buffer_start_page
<1>9. \A c \in s.headers : a < c => Above(s, a) # {} /\ N <= PageOf(c)
  <2> TAKE c \in s.headers
  <2> HAVE a < c
  <2>1. Above(s, a) # {}
    BY DEF Above
  <2>2. n = NextHeader(s, a) /\ n \in s.headers
    BY <2>1, <1>1, AboveIs
  <2>3. n <= c
    BY <1>1, <2>2, NextIs DEF Ends
  <2>4. PageOf(n) <= PageOf(c)
    BY <2>2, <2>3, <1>1, AddressFacts, PagesGrow
  <2> QED BY <2>1, <2>4 DEF buffer_start_page
<1>10. \A c \in s.headers \ {a} : c < a \/ a < c
  <2> TAKE c \in s.headers \ {a}
  <2>1. c \in Nat /\ a \in Nat /\ c # a
    BY <1>1, AddressFacts
  <2> QED BY <2>1
<1>11. \A q : Shared(s, a, q) <=>
         \E c \in s.headers \ {a} : PageOf(c) <= q /\ q <= L(c)
  BY DEF Shared
<1>12. /\ FreesStart(s, a) <=> ~(P = S) /\ ~(Above(s, a) # {} /\ N = E /\ S = E)
       /\ FreesEnd(s, a) <=> ~(P = S /\ P = E) /\ ~(Above(s, a) # {} /\ N = E)
  BY DEF FreesStart, FreesEnd, SharesPrev, SharesNext
<1> HIDE DEF S, E, p, P, n, N, L
<1>13. (P = S \/ (Above(s, a) # {} /\ N = E /\ S = E)) <=> Shared(s, a, S)
  <2>1. ASSUME P = S PROVE Shared(s, a, S)
    <3>1. p \in s.headers \ {a} /\ PageOf(p) <= S /\ S <= L(p)
      BY <2>1, <1>1, <1>3, <1>4, <1>5, AddressFacts
    <3> QED BY <3>1, <1>11
  <2>2. ASSUME Above(s, a) # {}, N = E, S = E PROVE Shared(s, a, S)
    <3>1. n \in s.headers \ {a} /\ PageOf(n) <= S /\ S <= L(n)
      BY <2>2, <1>1, <1>4, <1>5, <1>8, AddressFacts
    <3> QED BY <3>1, <1>11
  <2>3. ASSUME NEW c \in s.headers \ {a}, PageOf(c) <= S, S <= L(c)
        PROVE  P = S \/ (Above(s, a) # {} /\ N = E /\ S = E)
    <3>1. CASE c < a
      BY <3>1, <2>3, <1>4, <1>5, <1>6, <1>7
    <3>2. CASE a < c
      <4>1. Above(s, a) # {} /\ N <= PageOf(c)
        BY <3>2, <1>9
      <4>2. N = PageOf(n) /\ E <= N /\ PageOf(n) \in Nat
        BY <4>1, <1>5, <1>8
      <4> QED BY <4>1, <4>2, <2>3, <1>4, <1>5
    <3> QED BY <3>1, <3>2, <1>10
  <2> QED BY <2>1, <2>2, <2>3, <1>11
<1>14. ((P = S /\ P = E) \/ (Above(s, a) # {} /\ N = E)) <=> Shared(s, a, E)
  <2>1. ASSUME P = S, P = E PROVE Shared(s, a, E)
    <3>1. p \in s.headers \ {a} /\ PageOf(p) <= E /\ E <= L(p)
      BY <2>1, <1>1, <1>3, <1>4, <1>5, AddressFacts
    <3> QED BY <3>1, <1>11
  <2>2. ASSUME Above(s, a) # {}, N = E PROVE Shared(s, a, E)
    <3>1. n \in s.headers \ {a} /\ PageOf(n) <= E /\ E <= L(n)
      BY <2>2, <1>1, <1>4, <1>5, <1>8, AddressFacts
    <3> QED BY <3>1, <1>11
  <2>3. ASSUME NEW c \in s.headers \ {a}, PageOf(c) <= E, E <= L(c)
        PROVE  (P = S /\ P = E) \/ (Above(s, a) # {} /\ N = E)
    <3>1. CASE c < a
      BY <3>1, <2>3, <1>4, <1>5, <1>6, <1>7
    <3>2. CASE a < c
      <4>1. Above(s, a) # {} /\ N <= PageOf(c)
        BY <3>2, <1>9
      <4>2. N = PageOf(n) /\ E <= N /\ PageOf(n) \in Nat
        BY <4>1, <1>5, <1>8
      <4> QED BY <4>1, <4>2, <2>3, <1>4, <1>5
    <3> QED BY <3>1, <3>2, <1>10
  <2> QED BY <2>1, <2>2, <2>3, <1>11
<1> QED BY <1>2, <1>12, <1>13, <1>14 DEF S, E
\* What binder_delete_free_buffer changes: a header goes, and the pages that no
\* other buffer lies on.
LEMMA DeleteKeepsPages ==
  ASSUME NEW s, Shape(s), Exact(s), ~s.bug,
         NEW a \in s.headers, a # 0, a \notin s.free, a \notin s.async,
         s.asked[a] = Nothing, s.asked[Max(Below(s, a))] = Nothing,
         NEW u, u = DeleteFree(s, a)
  PROVE  /\ Shape(u) /\ Exact(u) /\ ~u.bug
         /\ u.headers = s.headers \ {a} /\ u.free = s.free /\ u.key = s.key
         /\ u.asked = s.asked /\ u.async = s.async /\ u.given = s.given
<1> DEFINE S == buffer_start_page(a)
           E == buffer_end_page(a)
           from == IF FreesStart(s, a) THEN S ELSE E
           last == IF FreesEnd(s, a) THEN E ELSE S
           gone == [s EXCEPT !.headers = @ \ {a},
                             !.bug = @ \/ Below(s, a) = {}]
           R == from..(last + 1) - 1
           H == {q \in {S, E} : ~Shared(s, a, q)}
<1>1. s \in Area /\ s.bug = FALSE
  BY DEF Shape, Area
<1>2. /\ Below(s, a) # {}
      /\ FreesStart(s, a) <=> ~Shared(s, a, S)
      /\ FreesEnd(s, a) <=> ~Shared(s, a, E)
  BY NeighboursAreEnough
<1>3. /\ S = PageOf(a) /\ E = PageOf(Extent(s, a) - 1)
      /\ S \in Nat /\ E \in Nat /\ S <= E /\ E <= S + 1 /\ E < PageOf(Size)
  BY HeaderPages, PagesOf
<1>4. gone = [s EXCEPT !.headers = @ \ {a}]
  BY <1>1, <1>2 DEF Area
<1>5. S \in s.pages /\ E \in s.pages
  <2>1. S \in Pages /\ E \in Pages
    BY <1>3, SizeInPages
  <2>2. Touched(s, S) /\ Touched(s, E)
    BY <1>3 DEF Touched
  <2> QED BY <2>1, <2>2 DEF Exact
<1>6. FreesStart(s, a) \/ FreesEnd(s, a) => R = H
  <2> HIDE DEF S, E
  <2> SUFFICES ASSUME FreesStart(s, a) \/ FreesEnd(s, a) PROVE R = H
    OBVIOUS
  <2>1. CASE FreesStart(s, a) /\ FreesEnd(s, a)
    <3>1. R = S..E /\ H = {S, E}
      BY <2>1, <1>2, <1>3
    <3> QED BY <3>1, <1>3
  <2>2. CASE FreesStart(s, a) /\ ~FreesEnd(s, a)
    <3>1. R = S..S /\ H = {S}
      BY <2>2, <1>2, <1>3
    <3> QED BY <3>1, <1>3
  <2>3. CASE ~FreesStart(s, a) /\ FreesEnd(s, a)
    <3>1. R = E..E /\ H = {E}
      BY <2>3, <1>2, <1>3
    <3> QED BY <3>1, <1>3
  <2> QED BY <2>1, <2>2, <2>3
<1>7. ~(FreesStart(s, a) \/ FreesEnd(s, a)) => H = {}
  BY <1>2
<1>8. u = [s EXCEPT !.headers = @ \ {a}, !.pages = @ \ H]
  <2>1. CASE FreesStart(s, a) \/ FreesEnd(s, a)
    <3>1. u = UnmapPages(gone, from, last + 1)
      BY <2>1 DEF DeleteFree
    <3>2. u = [gone EXCEPT !.bug = @ \/ ~(R \subseteq gone.pages),
                           !.pages = @ \ R]
      BY <3>1 DEF UnmapPages
    <3>3. R = H /\ H \subseteq s.pages
      BY <2>1, <1>5, <1>6
    <3> HIDE DEF R, H, gone
    <3>4. gone.pages = s.pages /\ gone.bug = FALSE /\ s \in Area
      BY <1>1, <1>4 DEF Area
    <3>5. ~(R \subseteq gone.pages) = FALSE
      BY <3>3, <3>4
    <3> QED BY <3>2, <3>3, <3>4, <3>5, <1>4 DEF Area
  <2>2. CASE ~(FreesStart(s, a) \/ FreesEnd(s, a))
    <3>1. u = gone
      BY <2>2 DEF DeleteFree
    <3>2. s.pages \ H = s.pages
      BY <2>2, <1>7
    <3> HIDE DEF H, gone
    <3> QED BY <3>1, <3>2, <1>1, <1>4 DEF Area
  <2> QED BY <2>1, <2>2
<1> HIDE DEF S, E, from, last, gone, R
<1>9. /\ u.headers = s.headers \ {a} /\ u.free = s.free /\ u.key = s.key
      /\ u.asked = s.asked /\ u.async = s.async /\ u.given = s.given
      /\ u.pages = s.pages \ H /\ u.bug = FALSE
      /\ u \in Area
  <2> HIDE DEF H
  <2> QED BY <1>1, <1>8 DEF Area
<1>10. Shape(u)
  <2>1. 0 \in u.headers /\ u.free \subseteq u.headers
    BY <1>9 DEF Shape
  <2>2. Allocated(u) = Allocated(s) \ {a}
    BY <1>9 DEF Allocated
  <2>3. u.async \subseteq Allocated(u)
    BY <2>2, <1>9 DEF Shape
  <2>4. \A b \in Addresses : b \notin Allocated(u) => u.asked[b] = Nothing
    BY <2>2, <1>9 DEF Shape
  <2>5. ASSUME NEW b \in u.headers PROVE Fits(u, b)
    <3>1. b \in s.headers /\ Fits(s, b)
      BY <2>5, <1>9 DEF Shape
    <3>2. Extent(u, b) = Extent(s, b)
      BY <1>9 DEF Extent
    <3> QED BY <3>1, <3>2, <1>9 DEF Fits
  <2> QED BY <2>1, <2>3, <2>4, <2>5, <1>9 DEF Shape
<1>11. Exact(u)
  <2> SUFFICES ASSUME NEW q \in Pages
               PROVE  q \in u.pages <=> Touched(u, q)
    BY DEF Exact
  <2>1. q \in Nat
    BY SizeInPages
  <2>2. Touched(u, q) <=> Shared(s, a, q)
    <3>1. \A c : Extent(u, c) = Extent(s, c)
      BY <1>9 DEF Extent
    <3> QED BY <3>1, <1>9 DEF Touched, Shared
  <2>3. q \in s.pages <=> Touched(s, q)
    BY DEF Exact
  <2>4. Touched(s, q) <=> Shared(s, a, q) \/ (S <= q /\ q <= E)
    BY <1>3 DEF Touched, Shared
  <2>5. S <= q /\ q <= E <=> q \in {S, E}
    BY <2>1, <1>3
  <2> QED BY <2>2, <2>3, <2>4, <2>5, <1>9
<1> QED BY <1>9, <1>10, <1>11

-----------------------------------------------------------------------------
(* binder_free_buf. *)

Whole(s) ==
  /\ Shape(s) /\ Exact(s) /\ ~s.bug
  /\ Keyed(s, {}) /\ Tight(s, {}) /\ Spaced(s)

\* The buffer at a is given up, and is not yet in the tree of free buffers.
GivenUp(s, a) ==
  /\ Shape(s) /\ Exact(s) /\ ~s.bug
  /\ Keyed(s, {}) /\ Tight(s, {a}) /\ Spaced(s)
  /\ a \in s.headers /\ a \notin s.free /\ a \notin s.async
  /\ s.asked[a] = Nothing

\* What is asked for stays between the two.
SameAsked(s, u) == u.asked = s.asked /\ u.async = s.async /\ u.given = s.given

\* Only the buffer below a header that goes gets another end.
LEMMA NextWithout ==
  ASSUME NEW s \in Area, NEW u \in Area, NEW a, u.headers = s.headers \ {a},
         NEW c \in Addresses, NextHeader(s, c) # a
  PROVE  NextHeader(u, c) = NextHeader(s, c)
<1>1. Ends(s, c, NextHeader(s, c))
  BY NextIs
<1> DEFINE n == NextHeader(s, c)
<1> HIDE DEF n
<1>2. Ends(u, c, n)
  BY <1>1 DEF Ends, n
<1> QED BY <1>2, NextIs DEF n

\* A size can be a key.
LEMMA SizeIsKey ==
  ASSUME NEW s, Shape(s), NEW a \in s.headers
  PROVE  /\ binder_buffer_size(s, a) \in 0..Size
         /\ Extent(s, a) <= NextHeader(s, a)
         /\ Total(s.asked[a]) <= binder_buffer_size(s, a)
<1>1. /\ a \in Addresses /\ a \in Nat /\ Extent(s, a) \in Nat
      /\ Extent(s, a) = a + Header + Total(s.asked[a])
      /\ Total(s.asked[a]) \in Nat
      /\ Extent(s, a) <= Size
      /\ \A b \in s.headers : a < b => Extent(s, a) <= b
  BY Extents
<1> DEFINE n == NextHeader(s, a)
<1>2. /\ n \in s.headers \cup {Size} /\ a < n /\ n \in Nat /\ n <= Size
      /\ binder_buffer_size(s, a) = n - Data(a)
  BY <1>1, NextIs DEF Shape, Ends
<1>3. Extent(s, a) <= n
  BY <1>1, <1>2
<1>4. Data(a) = a + Header /\ Header \in Nat /\ Size \in Nat
  BY Numbers DEF Data
<1> HIDE DEF n
<1> QED BY <1>1, <1>2, <1>3, <1>4 DEF n

\* The first part of binder_free_buf: up to the merges.
Inside(s, a) == UnmapPages(s, PageAlign(Data(a)),
                           PageOf(Data(a) + binder_buffer_size(s, a)))
Freed(s, a) ==
  [Inside(s, a) EXCEPT
     !.bug = @ \/ a \in s.free
               \/ Total(s.asked[a]) > binder_buffer_size(s, a),
     !.asked[a] = Nothing,
     !.async = @ \ {a}, !.given = @ \ {a}]

\* The pages inside a buffer go when it is given up.
LEMMA GivesUp ==
  ASSUME NEW s, Whole(s), NEW a \in Allocated(s), NEW u, u = Freed(s, a)
  PROVE  /\ GivenUp(u, a)
         /\ u.asked = [s.asked EXCEPT ![a] = Nothing]
         /\ u.async = s.async \ {a} /\ u.headers = s.headers /\ u.free = s.free
<1> DEFINE n == NextHeader(s, a)
           e == Extent(s, a)
           d == Data(a)
           R == PageAlign(d)..PageOf(n) - 1
           in == Inside(s, a)
<1>1. /\ Shape(s) /\ Exact(s) /\ s.bug = FALSE /\ s \in Area
      /\ Keyed(s, {}) /\ Tight(s, {}) /\ Spaced(s)
  BY DEF Whole, Shape, Area
<1>2. a \in s.headers /\ a \notin s.free /\ a \in Addresses /\ a \in Nat
  BY <1>1, Extents DEF Allocated
<1>3. /\ n \in s.headers \cup {Size} /\ a < n /\ n \in Nat /\ n <= Size
      /\ \A b \in s.headers : a < b => n <= b
      /\ binder_buffer_size(s, a) = n - d
  BY <1>1, <1>2, NextIs DEF Ends
<1>4. /\ e \in Nat /\ e = a + Header + Total(s.asked[a]) /\ e <= n
      /\ d = a + Header /\ d \in Nat /\ d <= e
      /\ Total(s.asked[a]) \in Nat
      /\ Total(s.asked[a]) <= binder_buffer_size(s, a)
  BY <1>1, <1>2, Extents, SizeIsKey, Numbers DEF Data
<1>5. n <= e + Header + Slack
  BY <1>1 DEF Tight
<1>6. d + binder_buffer_size(s, a) = n
  BY <1>3, <1>4
<1>7. /\ in = [s EXCEPT !.bug = @ \/ ~(R \subseteq s.pages), !.pages = @ \ R]
  BY <1>6 DEF UnmapPages, Inside
<1>8. ~(Total(s.asked[a]) > binder_buffer_size(s, a))
  BY <1>3, <1>4
<1>9. PageAlign(d) = PageOf(d - 1) + 1 /\ d - 1 \in Nat /\ a <= d - 1 /\ e - 1 \in Nat
  BY <1>2, <1>4, Numbers, RoundedUp
<1> HIDE DEF n, e, d
<1>10. /\ PageOf(a) <= PageOf(d - 1) /\ PageOf(d - 1) <= PageOf(e - 1)
       /\ PageOf(a) \in Nat /\ PageOf(d - 1) \in Nat /\ PageOf(e - 1) \in Nat
       /\ PageOf(n) \in Nat /\ PageOf(e - 1) <= PageOf(n)
  <2>1. d - 1 <= e - 1 /\ e - 1 <= n
    BY <1>3, <1>4, <1>9
  <2> QED BY <2>1, <1>2, <1>3, <1>9, PageFacts, PagesGrow
<1>11. PageOf(n) - 1 <= PageOf(e - 1)
  <2>1. n < (e - 1) + PageSize \/ n = (e - 1) + PageSize
    BY <1>3, <1>4, <1>5, Numbers
  <2>2. PageOf(n) <= PageOf(e - 1) + 1
    <3> DEFINE x == e - 1
    <3>1. x \in Nat /\ n \in Nat /\ (n < x + PageSize \/ n = x + PageSize)
      BY <2>1, <1>3, <1>9
    <3> HIDE DEF x
    <3>2. CASE n < x + PageSize
      BY <3>1, <3>2, NextPageAtMost DEF x
    <3>3. CASE n = x + PageSize
      <4>1. PageOf(n) = PageOf(x) + 1
        BY <3>1, <3>3, OnePageOn
      <4> QED BY <4>1, <1>10 DEF x
    <3> QED BY <3>1, <3>2, <3>3
  <2> QED BY <2>2, <1>10
<1>12. R \subseteq s.pages
  <2> SUFFICES ASSUME NEW q \in R PROVE q \in s.pages
    OBVIOUS
  <2>1. /\ q \in Nat /\ PageOf(d - 1) + 1 <= q /\ q <= PageOf(n) - 1
    BY <1>9, <1>10
  <2>2. PageOf(a) <= q /\ q <= PageOf(e - 1)
    BY <2>1, <1>10, <1>11
  <2>3. Touched(s, q)
    BY <2>2, <1>2 DEF Touched, e
  <2>4. PageOf(e - 1) < PageOf(Size)
    BY <1>1, <1>2, PagesOf DEF e
  <2>5. q \in Pages
    BY <2>1, <2>2, <2>4, <1>10, SizeInPages
  <2> QED BY <2>3, <2>5, <1>1 DEF Exact
<1> HIDE DEF R, in
<1>13. in = [s EXCEPT !.pages = @ \ R]
  <2>1. ~(R \subseteq s.pages) = FALSE
    BY <1>12
  <2> QED BY <2>1, <1>1, <1>7 DEF Area
<1>14. u = [s EXCEPT !.pages = @ \ R, !.asked[a] = Nothing,
                     !.async = @ \ {a}, !.given = @ \ {a}]
  <2>1. (a \in s.free \/ Total(s.asked[a]) > binder_buffer_size(s, a)) = FALSE
    BY <1>2, <1>8
  <2>2. in.bug = FALSE /\ in \in Area
    BY <1>1, <1>13 DEF Area
  <2> QED BY <2>1, <2>2, <1>1, <1>13 DEF Area, Freed, in
<1>15. /\ u.headers = s.headers /\ u.free = s.free /\ u.key = s.key
       /\ u.asked = [s.asked EXCEPT ![a] = Nothing]
       /\ u.async = s.async \ {a} /\ u.pages = s.pages \ R /\ u.bug = FALSE
       /\ u \in Area
  <2> DEFINE k == [s.asked EXCEPT ![a] = Nothing]
  <2>1. k \in [Addresses -> Requests \cup {Nothing}]
    BY <1>1 DEF Area
  <2>2. u = [s EXCEPT !.pages = @ \ R, !.asked = k,
                      !.async = @ \ {a}, !.given = @ \ {a}]
    BY <1>1, <1>14 DEF Area
  <2> HIDE DEF k
  <2>3. s \in Area
    BY <1>1
  <2>4. /\ u.headers = s.headers /\ u.free = s.free /\ u.key = s.key
        /\ u.asked = k
        /\ u.async = s.async \ {a} /\ u.pages = s.pages \ R /\ u.bug = s.bug
    BY <2>2, <2>3 DEF Area
  <2>5. u \in Area
    <3>1. /\ s.pages \ R \in SUBSET Pages
          /\ s.async \ {a} \in SUBSET Addresses /\ s.given \ {a} \in SUBSET Addresses
      BY <2>3 DEF Area
    <3> DEFINE p == s.pages \ R
               y == s.async \ {a}
               g == s.given \ {a}
    <3>2. u = [s EXCEPT !.pages = p, !.asked = k, !.async = y, !.given = g]
      BY <2>2, <2>3 DEF Area
    <3>3. p \in SUBSET Pages /\ y \in SUBSET Addresses /\ g \in SUBSET Addresses
      BY <3>1
    <3> HIDE DEF p, y, g
    <3> QED BY <2>1, <2>3, <3>2, <3>3 DEF Area
  <2> QED BY <2>4, <2>5, <1>1 DEF k
<1>16. /\ Extent(u, a) = d
       /\ \A b \in s.headers \ {a} : Extent(u, b) = Extent(s, b)
       /\ u.asked[a] = Nothing
  <2>1. s.asked \in [Addresses -> Requests \cup {Nothing}] /\ s.headers \subseteq Addresses
    BY <1>1 DEF Area
  <2>2. u.asked[a] = Nothing /\ \A b \in s.headers \ {a} : u.asked[b] = s.asked[b]
    BY <2>1, <1>2, <1>15
  <2>3. Extent(u, a) = d + 0
    BY <2>2, NothingIsNothing DEF Extent, d
  <2>4. d + 0 = d
    BY <1>4
  <2> QED BY <2>2, <2>3, <2>4 DEF Extent
<1>17. Shape(u)
  <2>1. Allocated(u) = Allocated(s)
    BY <1>15 DEF Allocated
  <2>2. u.async \subseteq Allocated(u) /\ 0 \in u.headers /\ u.free \subseteq u.headers
    BY <2>1, <1>1, <1>15 DEF Shape
  <2>3. \A b \in Addresses : b \notin Allocated(u) => u.asked[b] = Nothing
    BY <2>1, <1>1, <1>15 DEF Shape, Area
  <2>4. ASSUME NEW b \in u.headers PROVE Fits(u, b)
    <3>1. CASE b = a
      <4>1. d <= Size
        BY <1>3, <1>4, Numbers
      <4>2. \A c \in s.headers : a < c => d <= c
        <5> TAKE c \in s.headers
        <5> HAVE a < c
        <5>1. n <= c /\ c \in Nat
          BY <1>1, <1>3, Extents
        <5> QED BY <5>1, <1>3, <1>4
      <4> QED BY <4>1, <4>2, <3>1, <1>15, <1>16 DEF Fits
    <3>2. CASE b # a
      <4>1. Fits(s, b) /\ u.asked[b] = s.asked[b]
        BY <2>4, <3>2, <1>1, <1>15 DEF Shape, Area
      <4> QED BY <4>1, <3>2, <2>4, <1>15, <1>16 DEF Fits
    <3> QED BY <3>1, <3>2
  <2> QED BY <2>2, <2>3, <2>4, <1>15 DEF Shape
<1>18. Exact(u)
  <2> SUFFICES ASSUME NEW q \in Pages
               PROVE  q \in u.pages <=> Touched(u, q)
    BY DEF Exact
  <2>1. q \in Nat /\ q <= PageOf(Size) - 1 /\ PageOf(Size) \in Nat
    BY SizeInPages
  <2>2. q \in s.pages <=> Touched(s, q)
    BY <1>1 DEF Exact
  <2>3. q \in R <=> PageOf(d - 1) + 1 <= q /\ q <= PageOf(n) - 1
    BY <2>1, <1>9, <1>10 DEF R
  <2>4. Touched(u, q) <=> \/ PageOf(a) <= q /\ q <= PageOf(d - 1)
                          \/ Shared(s, a, q)
    BY <1>2, <1>15, <1>16 DEF Touched, Shared
  <2>5. Touched(s, q) <=> \/ PageOf(a) <= q /\ q <= PageOf(e - 1)
                          \/ Shared(s, a, q)
    BY <1>2 DEF Touched, Shared, e
  <2>6. ASSUME Shared(s, a, q) PROVE q \notin R
    <3>1. PICK c \in s.headers \ {a} :
            PageOf(c) <= q /\ q <= PageOf(Extent(s, c) - 1)
      BY <2>6 DEF Shared
    <3>2. c \in Nat /\ PageOf(c) \in Nat /\ PageOf(Extent(s, c) - 1) \in Nat
      BY <1>1, Extents, PagesOf
    <3>3. CASE c < a
      <4>1. PageOf(Extent(s, c) - 1) <= PageOf(a)
        BY <3>3, <1>1, <1>2, PagesOf
      <4> QED BY <4>1, <3>1, <3>2, <2>1, <2>3, <1>10
    <3>4. CASE a < c
      <4>1. n <= c
        BY <3>4, <1>3
      <4>2. PageOf(n) <= PageOf(c)
        BY <4>1, <3>2, <1>3, PagesGrow
      <4> QED BY <4>2, <3>1, <3>2, <2>1, <2>3, <1>10
    <3> QED BY <3>2, <3>3, <3>4, <1>2
  <2>7. ASSUME q = PageOf(n) PROVE Shared(s, a, q)
    <3>1. n \in s.headers \ {a}
      BY <2>7, <2>1, <1>2, <1>3
    <3>2. PageOf(n) <= PageOf(Extent(s, n) - 1)
      BY <3>1, <1>1, PagesOf
    <3> QED BY <3>1, <3>2, <2>1, <2>7 DEF Shared
  <2>8. ASSUME PageOf(a) <= q, q <= PageOf(e - 1), q \notin R
        PROVE  (PageOf(a) <= q /\ q <= PageOf(d - 1)) \/ Shared(s, a, q)
    BY <2>1, <2>3, <2>7, <2>8, <1>10
  <2>9. ASSUME PageOf(a) <= q, q <= PageOf(d - 1)
        PROVE  q \notin R /\ q <= PageOf(e - 1)
    BY <2>1, <2>3, <2>9, <1>10
  <2> QED BY <2>2, <2>4, <2>5, <2>6, <2>8, <2>9, <1>15
<1>19. Keyed(u, {}) /\ Tight(u, {a}) /\ Spaced(u)
  <2>1. \A b : NextHeader(u, b) = NextHeader(s, b)
    BY <1>15 DEF NextHeader, Above
  <2>2. \A b : binder_buffer_size(u, b) = binder_buffer_size(s, b)
    BY <2>1 DEF binder_buffer_size
  <2>3. Allocated(u) = Allocated(s) /\ Allocated(s) \subseteq s.headers
    BY <1>15 DEF Allocated
  <2>4. Tight(u, {a})
    BY <2>1, <2>3, <1>1, <1>16 DEF Tight
  <2> QED BY <2>2, <2>4, <1>1, <1>15 DEF Keyed, Spaced
<1> QED BY <1>2, <1>15, <1>16, <1>17, <1>18, <1>19 DEF GivenUp

\* A header, the one above it, and a buffer whose end is that one: it is the
\* buffer below.
LEMMA BelowNext ==
  ASSUME NEW s \in Area, NEW b \in s.headers, NEW p \in s.headers, p < b,
         \A c \in s.headers : c < b => c <= p,
         NEW c \in s.headers, NextHeader(s, c) = b
  PROVE  c = p
<1>1. b \in Nat /\ p \in Nat /\ c \in Nat /\ c \in Addresses
  BY AddressFacts DEF Area
<1>2. c < b /\ \A x \in s.headers : c < x => b <= x
  BY <1>1, NextIs DEF Ends
<1>3. c <= p
  BY <1>2
<1>4. ~ (c < p)
  <2> SUFFICES ASSUME c < p PROVE FALSE
    OBVIOUS
  <2>1. b <= p
    BY <1>2
  <2> QED BY <2>1, <1>1
<1> QED BY <1>1, <1>3, <1>4

\* A buffer taken out of the tree.
LEMMA ErasedIs ==
  ASSUME NEW s, Shape(s), Exact(s), NEW b \in s.free, NEW u, u = Erase(s, b)
  PROVE  /\ Shape(u) /\ Exact(u)
         /\ u.headers = s.headers /\ u.free = s.free \ {b}
         /\ u.key = [s.key EXCEPT ![b] = 0] /\ u.pages = s.pages
         /\ u.bug = s.bug /\ SameAsked(s, u)
         /\ u.asked[b] = Nothing /\ b \notin u.async
<1>1. s \in Area /\ b \in s.headers /\ b \in Addresses
  BY DEF Shape, Area
<1> DEFINE k == [s.key EXCEPT ![b] = 0]
           f == s.free \ {b}
<1>2. k \in [Addresses -> 0..Size] /\ f \in SUBSET Addresses
  BY <1>1, Numbers DEF Area
<1>3. u = [s EXCEPT !.free = f, !.key = k]
  BY <1>1 DEF Erase, Area
<1> HIDE DEF k, f
<1>4. /\ u.headers = s.headers /\ u.free = f /\ u.key = k /\ u.pages = s.pages
      /\ u.bug = s.bug /\ u.asked = s.asked /\ u.async = s.async
      /\ u.given = s.given
  BY <1>1, <1>3 DEF Area
<1>5. u \in Area
  BY <1>1, <1>2, <1>3 DEF Area
<1>6. b \notin Allocated(s)
  BY DEF Allocated
<1>7. u.asked[b] = Nothing /\ b \notin u.async
  BY <1>1, <1>4, <1>6 DEF Shape
<1>8. Allocated(u) = Allocated(s) \cup {b}
  BY <1>1, <1>4 DEF Allocated, f
<1>9. \A c : Extent(u, c) = Extent(s, c)
  BY <1>4 DEF Extent
<1>10. \A c \in u.headers : Fits(u, c)
  BY <1>4, <1>9 DEF Fits, Shape
<1>11. /\ 0 \in u.headers /\ u.free \subseteq u.headers
       /\ u.async \subseteq Allocated(u)
       /\ \A c \in Addresses : c \notin Allocated(u) => u.asked[c] = Nothing
  BY <1>4, <1>8 DEF Shape, f
<1>12. Exact(u)
  BY <1>4, <1>9 DEF Exact, Touched
<1> QED BY <1>4, <1>5, <1>7, <1>10, <1>11, <1>12 DEF Shape, SameAsked, f, k

\* The buffer above is merged in; the one above that is not free.
LEMMA MergesNext ==
  ASSUME NEW s, NEW a, GivenUp(s, a), NEW u, u = MergeNext(s, a)
  PROVE  /\ GivenUp(u, a) /\ SameAsked(s, u)
         /\ NextHeader(u, a) \notin u.free
<1> DEFINE b == Min(Above(s, a))
<1>1. /\ s \in Area /\ a \in s.headers /\ a \in Addresses /\ a \in Nat
      /\ s.headers \subseteq Addresses /\ s.free \subseteq s.headers
      /\ s.bug = FALSE
      /\ s.key \in [Addresses -> 0..Size]
  BY Extents DEF GivenUp, Shape, Area
<1>2. CASE ~(Above(s, a) # {} /\ b \in s.free)
  <2>1. u = s
    BY <1>2 DEF MergeNext
  <2>2. NextHeader(s, a) \notin s.free
    <3>1. CASE Above(s, a) = {}
      <4>1. NextHeader(s, a) = Size
        BY <3>1, <1>1, AboveIs
      <4> QED BY <4>1, <1>1, AddressFacts, Numbers
    <3>2. CASE Above(s, a) # {}
      <4>1. b = NextHeader(s, a)
        BY <3>2, <1>1, AboveIs
      <4> QED BY <4>1, <3>2, <1>2
    <3> QED BY <3>1, <3>2
  <2> QED BY <2>1, <2>2 DEF SameAsked
<1>3. CASE Above(s, a) # {} /\ b \in s.free
  <2>1. b = NextHeader(s, a) /\ b \in s.headers
    BY <1>1, <1>3, AboveIs
  <2>2. a < b /\ \A c \in s.headers : a < c => b <= c
    BY <1>1, <2>1, NextIs DEF Ends
  <2> DEFINE e == Erase(s, b)
  <2>3. u = DeleteFree(e, b)
    BY <1>3 DEF MergeNext
  <2> HIDE DEF b
  <2>4. /\ Shape(e) /\ Exact(e) /\ e.bug = FALSE
        /\ e.headers = s.headers /\ e.free = s.free \ {b}
        /\ e.key = [s.key EXCEPT ![b] = 0] /\ SameAsked(s, e)
        /\ e.asked[b] = Nothing /\ b \notin e.async
    BY <1>1, <1>3, ErasedIs DEF GivenUp
  <2> HIDE DEF e
  <2>5. e \in Area /\ b \in Nat /\ b \in Addresses /\ b # 0
    <3>1. e \in Area
      BY <2>4 DEF Shape
    <3>2. b \in Addresses
      BY <1>1, <2>1
    <3>3. b \in Nat
      BY <3>2, AddressFacts
    <3> QED BY <3>1, <3>2, <3>3, <2>2, <1>1
  <2>6. \A c \in s.headers : c < b => c <= a
    <3> TAKE c \in s.headers
    <3> HAVE c < b
    <3>1. c \in Nat
      BY <1>1, AddressFacts
    <3>2. ~ (a < c)
      BY <2>2, <2>5, <3>1
    <3> QED BY <3>1, <3>2, <1>1
  <2>7. Max(Below(e, b)) = a
    <3>1. Below(e, b) # {}
      BY <1>1, <2>2, <2>4 DEF Below
    <3>2. /\ Max(Below(e, b)) \in s.headers /\ Max(Below(e, b)) < b
          /\ \A c \in s.headers : c < b => c <= Max(Below(e, b))
      BY <3>1, <2>4, <2>5, PrevIs
    <3>3. Max(Below(e, b)) <= a /\ a <= Max(Below(e, b))
      BY <3>2, <2>2, <2>6, <1>1
    <3>4. Max(Below(e, b)) \in Nat
      BY <3>2, <1>1, AddressFacts
    <3> QED BY <3>3, <3>4, <1>1
  <2>8. e.asked[a] = Nothing
    BY <2>4 DEF GivenUp, SameAsked
  <2>9. /\ Shape(u) /\ Exact(u) /\ ~u.bug
        /\ u.headers = e.headers \ {b} /\ u.free = e.free /\ u.key = e.key
        /\ u.asked = e.asked /\ u.async = e.async /\ u.given = e.given
    <3>1. b \in e.headers /\ b \notin e.free /\ ~e.bug
      BY <2>1, <2>4
    <3>2. e.asked[Max(Below(e, b))] = Nothing
      BY <2>7, <2>8
    <3> QED BY <3>1, <3>2, <2>3, <2>4, <2>5, DeleteKeepsPages
  <2>10. /\ u.headers = s.headers \ {b} /\ u.free = s.free \ {b} /\ u \in Area
         /\ \A c \in s.free \ {b} : u.key[c] = s.key[c]
         /\ SameAsked(s, u)
    BY <1>1, <2>4, <2>9 DEF SameAsked, Shape
  <2>11. \A c \in s.headers \ {a} : NextHeader(s, c) # b
    <3> SUFFICES ASSUME NEW c \in s.headers \ {a}, NextHeader(s, c) = b
                 PROVE  FALSE
      OBVIOUS
    <3>1. c = a
      BY <1>1, <2>1, <2>2, <2>6, BelowNext
    <3> QED BY <3>1
  <2>12. \A c \in s.headers \ {a} : NextHeader(u, c) = NextHeader(s, c)
    <3> TAKE c \in s.headers \ {a}
    <3>1. c \in Addresses /\ NextHeader(s, c) # b
      BY <1>1, <2>11
    <3> QED BY <3>1, <1>1, <2>10, NextWithout
  <2>13. Keyed(u, {})
    <3> SUFFICES ASSUME NEW c \in u.free
                 PROVE  u.key[c] = binder_buffer_size(u, c)
      BY DEF Keyed
    <3>1. c \in s.free \ {b} /\ c \in s.headers \ {a}
      BY <2>10, <1>1 DEF GivenUp
    <3>2. s.key[c] = binder_buffer_size(s, c)
      BY <3>1 DEF GivenUp, Keyed
    <3>3. NextHeader(u, c) = NextHeader(s, c)
      BY <3>1, <2>12
    <3> QED BY <3>1, <3>2, <3>3, <2>10 DEF binder_buffer_size
  <2>14. Tight(u, {a})
    <3> SUFFICES ASSUME NEW c \in Allocated(u) \ {a}
                 PROVE  NextHeader(u, c) <= Extent(u, c) + Header + Slack
      BY DEF Tight
    <3>1. c \in Allocated(s) \ {a} /\ c \in s.headers \ {a}
      BY <2>10 DEF Allocated
    <3>2. NextHeader(s, c) <= Extent(s, c) + Header + Slack
      BY <3>1 DEF GivenUp, Tight
    <3>3. NextHeader(u, c) = NextHeader(s, c)
      BY <3>1, <2>12
    <3>4. Extent(u, c) = Extent(s, c)
      BY <2>10 DEF Extent, SameAsked
    <3> QED BY <3>2, <3>3, <3>4
  <2>15. Spaced(u)
    <3> SUFFICES ASSUME NEW x \in u.free, NEW y \in u.free, x < y
                 PROVE  \E c \in u.headers : x < c /\ c < y
      BY DEF Spaced
    <3>1. x \in s.free /\ y \in s.free /\ x # b /\ x # a /\ x \in s.headers
      BY <2>10, <1>1 DEF GivenUp
    <3>2. PICK c \in s.headers : x < c /\ c < y
      BY <3>1, <3>1 DEF GivenUp, Spaced
    <3>3. x \in Nat /\ y \in Nat /\ c \in Nat
      BY <3>1, <1>1, AddressFacts
    <3>4. CASE c # b
      BY <3>2, <3>4, <2>10
    <3>5. CASE c = b
      <4>1. x <= a
        BY <3>1, <3>2, <3>5, <2>6
      <4>2. x < a /\ a < y
        BY <4>1, <3>1, <3>2, <3>3, <3>5, <2>2, <2>5, <1>1
      <4>3. a \in u.headers
        BY <1>1, <2>2, <2>5, <2>10
      <4> QED BY <4>2, <4>3
    <3> QED BY <3>4, <3>5
  <2>16. NextHeader(u, a) \notin u.free
    <3> SUFFICES ASSUME NextHeader(u, a) \in u.free PROVE FALSE
      OBVIOUS
    <3> DEFINE n == NextHeader(u, a)
    <3>1. a < n /\ \A c \in u.headers : a < c => n <= c
      BY <1>1, <2>10, NextIs DEF Ends
    <3>2. n \in s.free /\ n # b /\ n \in s.headers /\ n \in Nat
      BY <2>10, <1>1, AddressFacts
    <3> HIDE DEF n
    <3>3. b < n
      BY <3>1, <3>2, <2>2, <2>5
    <3>4. PICK c \in s.headers : b < c /\ c < n
      BY <3>2, <3>3, <1>3 DEF GivenUp, Spaced, b
    <3>5. c \in u.headers /\ a < c /\ c \in Nat
      <4>1. c \in Nat
        BY <1>1, AddressFacts
      <4>2. b < c
        BY <3>4
      <4>3. c # b /\ a < c
        BY <4>1, <4>2, <2>2, <2>5, <1>1
      <4> QED BY <4>1, <4>3, <2>10
    <3>6. n <= c
      BY <3>1, <3>5
    <3> QED BY <3>2, <3>4, <3>5, <3>6
  <2>17. /\ a \in u.headers /\ a \notin u.free /\ a \notin u.async
         /\ u.asked[a] = Nothing
    BY <1>1, <2>2, <2>5, <2>10 DEF GivenUp, SameAsked
  <2> QED BY <2>9, <2>10, <2>13, <2>14, <2>15, <2>16, <2>17 DEF GivenUp
<1> QED BY <1>2, <1>3

\* A buffer put into the tree.
LEMMA InsertedIs ==
  ASSUME NEW s, Shape(s), Exact(s), NEW b \in s.headers, b \notin s.async,
         s.asked[b] = Nothing, NEW u, u = InsertFree(s, b)
  PROVE  /\ Shape(u) /\ Exact(u)
         /\ u.headers = s.headers /\ u.free = s.free \cup {b}
         /\ u.key = [s.key EXCEPT ![b] = binder_buffer_size(s, b)]
         /\ u.pages = s.pages /\ u.bug = s.bug /\ SameAsked(s, u)
<1>1. s \in Area /\ b \in Addresses /\ binder_buffer_size(s, b) \in 0..Size
  BY Extents, SizeIsKey DEF Shape
<1> DEFINE k == [s.key EXCEPT ![b] = binder_buffer_size(s, b)]
           f == s.free \cup {b}
<1>2. k \in [Addresses -> 0..Size] /\ f \in SUBSET Addresses
  BY <1>1 DEF Area
<1>3. u = [s EXCEPT !.free = f, !.key = k]
  BY <1>1 DEF InsertFree, Area
<1> HIDE DEF k, f
<1>4. /\ u.headers = s.headers /\ u.free = f /\ u.key = k /\ u.pages = s.pages
      /\ u.bug = s.bug /\ u.asked = s.asked /\ u.async = s.async
      /\ u.given = s.given
  BY <1>1, <1>3 DEF Area
<1>5. u \in Area
  BY <1>1, <1>2, <1>3 DEF Area
<1>6. Allocated(u) = Allocated(s) \ {b}
  BY <1>1, <1>4 DEF Allocated, f
<1>7. \A c : Extent(u, c) = Extent(s, c)
  BY <1>4 DEF Extent
<1>8. \A c \in u.headers : Fits(u, c)
  BY <1>4, <1>7 DEF Fits, Shape
<1>9. /\ 0 \in u.headers /\ u.free \subseteq u.headers
      /\ u.async \subseteq Allocated(u)
      /\ \A c \in Addresses : c \notin Allocated(u) => u.asked[c] = Nothing
  BY <1>4, <1>6 DEF Shape, f
<1>10. Exact(u)
  BY <1>4, <1>7 DEF Exact, Touched
<1> QED BY <1>4, <1>5, <1>8, <1>9, <1>10 DEF Shape, SameAsked, f, k

\* The buffer goes into the tree, or the free buffer below takes it in.
LEMMA MergesPrev ==
  ASSUME NEW s, NEW a, GivenUp(s, a), NextHeader(s, a) \notin s.free,
         NEW u, u = MergePrev(s, a)
  PROVE  Whole(u) /\ SameAsked(s, u)
<1> DEFINE b == Max(Below(s, a))
           n == NextHeader(s, a)
<1>1. /\ s \in Area /\ a \in s.headers /\ a \in Addresses /\ a \in Nat
      /\ s.headers \subseteq Addresses /\ s.free \subseteq s.headers
      /\ s.bug = FALSE
      /\ s.key \in [Addresses -> 0..Size]
  BY Extents DEF GivenUp, Shape, Area
<1>2. /\ Shape(s) /\ Exact(s) /\ a \notin s.free /\ a \notin s.async
      /\ s.asked[a] = Nothing
      /\ Keyed(s, {}) /\ Tight(s, {a}) /\ Spaced(s)
  BY DEF GivenUp
<1>3. /\ a < n /\ n \in s.headers \cup {Size} /\ n \in Nat
      /\ \A c \in s.headers : a < c => n <= c
      /\ n \notin s.free
  BY <1>1, NextIs DEF Ends
<1> HIDE DEF n
<1>4. \A y \in s.free : a < y => n \in s.headers /\ n < y
  <2> TAKE y \in s.free
  <2> HAVE a < y
  <2>1. y \in s.headers /\ y \in Nat /\ y < Size
    BY <1>1, AddressFacts
  <2>2. n <= y /\ n # y
    BY <2>1, <1>3
  <2> QED BY <2>1, <2>2, <1>3, Numbers
<1>5. CASE ~(Below(s, a) # {} /\ b \in s.free)
  <2>1. u = InsertFree(s, a)
    BY <1>5 DEF MergePrev
  <2>2. /\ Shape(u) /\ Exact(u) /\ u.bug = FALSE
        /\ u.headers = s.headers /\ u.free = s.free \cup {a}
        /\ u.key = [s.key EXCEPT ![a] = binder_buffer_size(s, a)]
        /\ SameAsked(s, u)
    BY <2>1, <1>1, <1>2, InsertedIs
  <2>3. \A x \in s.free : x < a => \E c \in s.headers : x < c /\ c < a
    <3> TAKE x \in s.free
    <3> HAVE x < a
    <3>1. Below(s, a) # {} /\ x \in s.headers
      BY <1>1 DEF Below
    <3>2. b \in s.headers /\ b < a /\ x <= b
      BY <3>1, <1>1, PrevIs
    <3>3. b \notin s.free
      BY <3>1, <1>5
    <3>4. x \in Nat /\ b \in Nat /\ x # b
      BY <3>2, <3>3, <1>1, AddressFacts
    <3> HIDE DEF b
    <3> QED BY <3>2, <3>4
  <2> HIDE DEF b
  <2>4. Spaced(u)
    <3> SUFFICES ASSUME NEW x \in u.free, NEW y \in u.free, x < y
                 PROVE  \E c \in u.headers : x < c /\ c < y
      BY DEF Spaced
    <3>1. x \in s.headers /\ y \in s.headers /\ x \in Nat /\ y \in Nat
      BY <1>1, <2>2, AddressFacts
    <3>2. CASE x \in s.free /\ y \in s.free
      BY <3>2, <1>2, <2>2 DEF Spaced
    <3>3. CASE x \in s.free /\ y = a
      BY <3>3, <2>2, <2>3
    <3>4. CASE x = a /\ y \in s.free
      BY <3>4, <1>3, <1>4, <2>2
    <3> QED BY <3>1, <3>2, <3>3, <3>4, <2>2
  <2>5. \A c : NextHeader(u, c) = NextHeader(s, c)
    BY <2>2 DEF NextHeader, Above
  <2>6. Keyed(u, {})
    <3> SUFFICES ASSUME NEW c \in u.free
                 PROVE  u.key[c] = binder_buffer_size(u, c)
      BY DEF Keyed
    <3>1. binder_buffer_size(u, c) = binder_buffer_size(s, c)
      BY <2>5 DEF binder_buffer_size
    <3>2. CASE c = a
      BY <3>1, <3>2, <1>1, <2>2
    <3>3. CASE c # a
      <4>1. c \in s.free /\ c \in Addresses
        BY <3>3, <2>2, <1>1
      <4>2. u.key[c] = s.key[c]
        BY <4>1, <3>3, <2>2, <1>1
      <4> QED BY <4>1, <4>2, <3>1, <1>2 DEF Keyed
    <3> QED BY <3>2, <3>3
  <2>7. Tight(u, {})
    <3> SUFFICES ASSUME NEW c \in Allocated(u)
                 PROVE  NextHeader(u, c) <= Extent(u, c) + Header + Slack
      BY DEF Tight
    <3>1. c \in Allocated(s) \ {a}
      BY <2>2 DEF Allocated
    <3>2. NextHeader(s, c) <= Extent(s, c) + Header + Slack
      BY <3>1, <1>2 DEF Tight
    <3>3. Extent(u, c) = Extent(s, c)
      BY <2>2 DEF Extent, SameAsked
    <3> QED BY <3>2, <3>3, <2>5
  <2> QED BY <2>2, <2>4, <2>6, <2>7 DEF Whole
<1>6. CASE Below(s, a) # {} /\ b \in s.free
  <2> DEFINE d == DeleteFree(s, a)
             e == Erase(d, b)
  <2>1. u = InsertFree(e, b)
    BY <1>6 DEF MergePrev
  <2>2. /\ b \in s.headers /\ b < a /\ \A c \in s.headers : c < a => c <= b
        /\ b \in Addresses /\ b \in Nat
    BY <1>1, <1>6, PrevIs, AddressFacts
  <2>3. s.asked[b] = Nothing
    BY <1>2, <1>6, <2>2 DEF Shape, Allocated
  <2>4. /\ Shape(d) /\ Exact(d) /\ d.bug = FALSE
        /\ d.headers = s.headers \ {a} /\ d.free = s.free /\ d.key = s.key
        /\ d.asked = s.asked /\ d.async = s.async /\ d.given = s.given
        /\ d \in Area
    <3>1. ~s.bug /\ a # 0
      BY <1>1, <2>2
    <3>2. Shape(d) /\ Exact(d) /\ ~d.bug
          /\ d.headers = s.headers \ {a} /\ d.free = s.free /\ d.key = s.key
          /\ d.asked = s.asked /\ d.async = s.async /\ d.given = s.given
      BY <3>1, <2>3, <1>1, <1>2, DeleteKeepsPages
    <3> QED BY <3>2 DEF Shape, Area
  <2> HIDE DEF d
  <2>5. b \in d.free
    BY <1>6, <2>4
  <2>6. /\ Shape(e) /\ Exact(e) /\ e.bug = FALSE
        /\ e.headers = d.headers /\ e.free = d.free \ {b}
        /\ e.key = [d.key EXCEPT ![b] = 0] /\ SameAsked(d, e)
        /\ e.asked[b] = Nothing /\ b \notin e.async
    <3> HIDE DEF b
    <3> QED BY <2>4, <2>5, ErasedIs
  <2> HIDE DEF e, b
  <2>7. b \in e.headers
    BY <2>2, <2>4, <2>6, <1>1
  <2>8. /\ Shape(u) /\ Exact(u) /\ u.bug = FALSE
        /\ u.headers = e.headers /\ u.free = e.free \cup {b}
        /\ u.key = [e.key EXCEPT ![b] = binder_buffer_size(e, b)]
        /\ SameAsked(e, u)
    BY <2>1, <2>6, <2>7, InsertedIs
  <2>9. /\ u.headers = s.headers \ {a} /\ u.free = s.free /\ SameAsked(s, u)
        /\ u \in Area
    BY <2>4, <2>5, <2>6, <2>8 DEF SameAsked, Shape
  <2>10. \A c \in s.headers \ {b} : NextHeader(u, c) = NextHeader(s, c)
    <3> TAKE c \in s.headers \ {b}
    <3>1. NextHeader(s, c) # a
      <4> SUFFICES ASSUME NextHeader(s, c) = a PROVE FALSE
        OBVIOUS
      <4>1. c = b
        BY <1>1, <2>2, BelowNext
      <4> QED BY <4>1
    <3>2. c \in Addresses
      BY <1>1
    <3> QED BY <3>1, <3>2, <1>1, <2>9, NextWithout
  <2>11. Keyed(u, {})
    <3> SUFFICES ASSUME NEW c \in u.free
                 PROVE  u.key[c] = binder_buffer_size(u, c)
      BY DEF Keyed
    <3>1. CASE c = b
      <4>1. NextHeader(u, b) = NextHeader(e, b)
        BY <2>8 DEF NextHeader, Above
      <4>2. binder_buffer_size(u, b) = binder_buffer_size(e, b)
        BY <4>1 DEF binder_buffer_size
      <4>3. e.key \in [Addresses -> 0..Size]
        BY <2>6 DEF Shape, Area
      <4> QED BY <4>2, <4>3, <3>1, <2>2, <2>8
    <3>2. CASE c # b
      <4>1. c \in s.free /\ c \in s.headers \ {b} /\ c \in Addresses
        BY <3>2, <2>9, <1>1
      <4>2. e.key = [s.key EXCEPT ![b] = 0]
        BY <2>4, <2>6
      <4>3. e.key[c] = s.key[c] /\ e.key \in [Addresses -> 0..Size]
        BY <4>1, <4>2, <3>2, <1>1, <2>6 DEF Shape, Area
      <4>4. u.key[c] = s.key[c]
        BY <4>1, <4>3, <3>2, <2>8
      <4>5. NextHeader(u, c) = NextHeader(s, c)
        BY <4>1, <2>10
      <4>6. s.key[c] = binder_buffer_size(s, c)
        BY <4>1, <1>2 DEF Keyed
      <4> QED BY <4>4, <4>5, <4>6 DEF binder_buffer_size
    <3> QED BY <3>1, <3>2
  <2>12. Tight(u, {})
    <3> SUFFICES ASSUME NEW c \in Allocated(u)
                 PROVE  NextHeader(u, c) <= Extent(u, c) + Header + Slack
      BY DEF Tight
    <3>1. c \in Allocated(s) \ {a} /\ c \in s.headers \ {b}
      BY <2>9, <1>6 DEF Allocated, b
    <3>2. NextHeader(s, c) <= Extent(s, c) + Header + Slack
      BY <3>1, <1>2 DEF Tight
    <3>3. Extent(u, c) = Extent(s, c)
      BY <2>9 DEF Extent, SameAsked
    <3>4. NextHeader(u, c) = NextHeader(s, c)
      BY <3>1, <2>10
    <3> QED BY <3>2, <3>3, <3>4
  <2>13. Spaced(u)
    <3> SUFFICES ASSUME NEW x \in u.free, NEW y \in u.free, x < y
                 PROVE  \E c \in u.headers : x < c /\ c < y
      BY DEF Spaced
    <3>1. x \in s.free /\ y \in s.free /\ x \in s.headers /\ y \in s.headers
      BY <2>9, <1>1
    <3>2. PICK c \in s.headers : x < c /\ c < y
      BY <3>1, <1>2 DEF Spaced
    <3>3. x \in Nat /\ y \in Nat
      BY <3>1, <1>1, AddressFacts
    <3>4. CASE c # a
      BY <3>2, <3>4, <2>9
    <3>5. CASE c = a
      <4>1. x < a /\ a < y /\ x <= b
        BY <3>1, <3>2, <3>5, <2>2
      <4>2. n \in s.headers /\ n < y
        BY <4>1, <3>1, <1>4
      <4>3. n \in u.headers /\ x < n
        BY <4>1, <4>2, <3>3, <2>9, <1>1, <1>3
      <4> QED BY <4>2, <4>3
    <3> QED BY <3>4, <3>5
  <2> QED BY <2>8, <2>9, <2>11, <2>12, <2>13 DEF Whole
<1> QED BY <1>5, <1>6

\* binder_free_buf keeps the area whole, and takes back what was asked for.
LEMMA FreesWhole ==
  ASSUME NEW s, Whole(s), NEW a \in Allocated(s), NEW u, u = FreeBuffer(s, a)
  PROVE  /\ Whole(u)
         /\ u.asked = [s.asked EXCEPT ![a] = Nothing]
         /\ u.async = s.async \ {a}
<1> DEFINE freed == Freed(s, a)
           m == MergeNext(freed, a)
<1>1. u = MergePrev(m, a)
  BY DEF FreeBuffer, Freed, Inside, Nothing
<1>2. /\ GivenUp(freed, a)
      /\ freed.asked = [s.asked EXCEPT ![a] = Nothing]
      /\ freed.async = s.async \ {a}
  BY GivesUp
<1> HIDE DEF freed
<1>3. GivenUp(m, a) /\ SameAsked(freed, m) /\ NextHeader(m, a) \notin m.free
  BY <1>2, MergesNext
<1> HIDE DEF m
<1>4. Whole(u) /\ SameAsked(m, u)
  BY <1>1, <1>3, MergesPrev
<1> QED BY <1>2, <1>3, <1>4 DEF SameAsked

-----------------------------------------------------------------------------
(* binder_alloc_buf. *)

\* How much is taken of the free buffer at a, when n bytes are enough: what is
\* left is either a buffer of its own or too little for one.
LEMMA TakenIs ==
  ASSUME NEW s, Whole(s), NEW a \in s.free, NEW n \in Nat, s.key[a] >= n
  PROVE  /\ Taken(s, a, n) = n \/ Taken(s, a, n) = n + Header
         /\ Taken(s, a, n) = n => NextHeader(s, a) <= Data(a) + n + Header + Slack
         /\ Data(a) + Taken(s, a, n) <= NextHeader(s, a)
<1> DEFINE w == binder_buffer_size(s, a)
           m == NextHeader(s, a)
<1>1. s \in Area /\ a \in Addresses /\ a \in s.headers
  BY DEF Whole, Shape, Area
<1>2. m \in Nat /\ w = m - Data(a) /\ Data(a) \in Nat
  BY <1>1, NextIs, AddressFacts
<1>3. n <= w
  BY <1>2 DEF Whole, Keyed
<1>4. Taken(s, a, n) = IF w = n \/ n + Header + Slack >= w THEN n ELSE n + Header
  BY DEF Taken
<1>5. Header \in Nat \ {0} /\ Slack \in Nat
  BY Numbers
<1> HIDE DEF w, m
<1>6. CASE w = n \/ n + Header + Slack >= w
  <2>1. Taken(s, a, n) = n
    BY <1>4, <1>6
  <2> QED BY <2>1, <1>2, <1>3, <1>5, <1>6 DEF m
<1>7. CASE ~(w = n \/ n + Header + Slack >= w)
  <2>1. Taken(s, a, n) = n + Header
    BY <1>4, <1>7
  <2> QED BY <2>1, <1>2, <1>3, <1>5, <1>7 DEF m
<1> QED BY <1>6, <1>7

\* The buffer with what is taken of it, behind it a header when room is left.
Split(s, a, n) == Taken(s, a, n) # n
AsyncWith(s, a, isAsync) == IF isAsync THEN s.async \cup {a} ELSE s.async
TakenFrom(s, a, r, isAsync) ==
  [s EXCEPT !.headers = IF Split(s, a, Total(r)) THEN @ \cup {Data(a) + Total(r)} ELSE @,
            !.free = @ \ {a}, !.key[a] = 0, !.asked[a] = r,
            !.async = AsyncWith(s, a, isAsync),
            !.pages = @ \cup PageAlign(Data(a))..LastPage(s, a, Total(r)) - 1]

\* The pages that are mapped are there for nobody else.
LEMMA PagesAreNew ==
  ASSUME NEW s, Whole(s), NEW a \in s.free, NEW n \in Nat, s.key[a] >= n,
         NEW q \in Pages
  PROVE  LET new == q \in PageAlign(Data(a))..LastPage(s, a, n) - 1
             end == Data(a) + Taken(s, a, n)
         IN  /\ new => q \notin s.pages
             /\ new \/ q \in s.pages <=>
                  \/ Shared(s, a, q)
                  \/ PageOf(a) <= q /\ q <= PageOf(end - 1)
<1> DEFINE d == Data(a)
           e == d + Taken(s, a, n)
           N == NextHeader(s, a)
           new == q \in PageAlign(d)..LastPage(s, a, n) - 1
<1>1. s \in Area /\ Shape(s) /\ Exact(s) /\ a \in s.headers /\ a \in Addresses
  BY DEF Whole, Shape, Area
<1>2. s.asked[a] = Nothing
  BY <1>1 DEF Shape, Allocated
<1>3. a \in Nat /\ d = a + Header /\ d \in Nat /\ Header \in Nat \ {0}
  BY <1>1, AddressFacts, Numbers DEF Data
<1>4. /\ N \in s.headers \cup {Size} /\ a < N /\ N \in Nat /\ N <= Size
      /\ \A b \in s.headers : a < b => N <= b
      /\ d + binder_buffer_size(s, a) = N
  BY <1>1, <1>3, NextIs DEF Ends
<1>5. e \in Nat /\ d <= e /\ e <= N
  BY <1>3, TakenIs
<1>6. PageAlign(d) = PageOf(d - 1) + 1 /\ PageAlign(e) = PageOf(e - 1) + 1
  BY <1>3, <1>5, RoundedUp
<1>7. LastPage(s, a, n) = Min({PageAlign(e), PageOf(N)})
  BY <1>4 DEF LastPage
<1>8. Extent(s, a) - 1 = d - 1
  <2>1. Extent(s, a) = d
    BY <1>1, <1>2, HeaderPages
  <2> QED BY <2>1
<1> HIDE DEF d, e, N
<1>9. /\ PageOf(a) \in Nat /\ PageOf(d - 1) \in Nat /\ PageOf(e - 1) \in Nat
      /\ PageOf(N) \in Nat
      /\ PageOf(a) <= PageOf(d - 1) /\ PageOf(d - 1) <= PageOf(e - 1)
      /\ PageOf(e - 1) <= PageOf(N)
  <2>1. d - 1 \in Nat /\ e - 1 \in Nat /\ a <= d - 1 /\ d - 1 <= e - 1 /\ e - 1 <= N
    BY <1>3, <1>4, <1>5
  <2> QED BY <2>1, <1>3, <1>4, PageFacts, PagesGrow
<1>10. q \in Nat /\ q <= PageOf(Size) - 1 /\ PageOf(Size) \in Nat
  BY SizeInPages
<1>11. new <=> PageOf(d - 1) < q /\ q <= PageOf(e - 1) /\ q < PageOf(N)
  <2> DEFINE l == LastPage(s, a, n)
  <2>1. {PageAlign(e), PageOf(N)} \in SUBSET Nat
    BY <1>6, <1>9
  <2>2. l \in {PageAlign(e), PageOf(N)} /\ l <= PageAlign(e) /\ l <= PageOf(N)
    BY <2>1, <1>7, MinIsLeast
  <2> HIDE DEF l
  <2>3. l \in Nat /\ (l = PageOf(e - 1) + 1 \/ l = PageOf(N))
        /\ l <= PageOf(e - 1) + 1 /\ l <= PageOf(N)
    BY <2>1, <2>2, <1>6
  <2>4. new <=> PageOf(d - 1) + 1 <= q /\ q <= l - 1
    BY <2>3, <1>6, <1>9, <1>10 DEF l
  <2> QED BY <2>3, <2>4, <1>9, <1>10
<1>12. q \in s.pages <=> \/ Shared(s, a, q)
                         \/ PageOf(a) <= q /\ q <= PageOf(d - 1)
  <2>1. q \in s.pages <=> Touched(s, q)
    BY <1>1 DEF Exact
  <2>2. PageOf(Extent(s, a) - 1) = PageOf(d - 1)
    BY <1>8
  <2> QED BY <2>1, <2>2, <1>1 DEF Touched, Shared
<1>13. ASSUME Shared(s, a, q) PROVE q <= PageOf(a) \/ PageOf(N) <= q
  <2>1. PICK c \in s.headers \ {a} :
          PageOf(c) <= q /\ q <= PageOf(Extent(s, c) - 1)
    BY <1>13 DEF Shared
  <2>2. c \in Nat /\ PageOf(c) \in Nat /\ PageOf(Extent(s, c) - 1) \in Nat
    BY <1>1, Extents, PagesOf
  <2>3. CASE c < a
    <3>1. PageOf(Extent(s, c) - 1) <= PageOf(a)
      BY <2>3, <1>1, PagesOf
    <3> QED BY <3>1, <2>1, <2>2, <1>9, <1>10
  <2>4. CASE a < c
    <3>1. N <= c
      BY <2>4, <1>4
    <3>2. PageOf(N) <= PageOf(c)
      BY <3>1, <2>2, <1>4, PagesGrow
    <3> QED BY <3>2, <2>1, <2>2, <1>9, <1>10
  <2> QED BY <2>2, <2>3, <2>4, <1>3
<1>14. ASSUME q = PageOf(N) PROVE Shared(s, a, q)
  <2>1. N \in s.headers \ {a}
    BY <1>14, <1>3, <1>4, <1>10
  <2>2. PageOf(N) <= PageOf(Extent(s, N) - 1)
    BY <2>1, <1>1, PagesOf
  <2> QED BY <2>1, <2>2, <1>10, <1>14 DEF Shared
<1> HIDE DEF new
<1>15. new => q \notin s.pages
  BY <1>9, <1>10, <1>11, <1>12, <1>13
<1>16. new \/ q \in s.pages <=>
         Shared(s, a, q) \/ (PageOf(a) <= q /\ q <= PageOf(e - 1))
  BY <1>9, <1>10, <1>11, <1>12, <1>13, <1>14
<1> QED BY <1>15, <1>16 DEF new, e, d

Took(s, a, r, isAsync, u) ==
  /\ Shape(u) /\ Exact(u)
  /\ u.headers = IF Split(s, a, Total(r))
                 THEN s.headers \cup {Data(a) + Total(r)} ELSE s.headers
  /\ u.free = s.free \ {a} /\ u.key = [s.key EXCEPT ![a] = 0]
  /\ u.asked = [s.asked EXCEPT ![a] = r]
  /\ u.async = AsyncWith(s, a, isAsync)
  /\ u.bug = FALSE
  /\ Split(s, a, Total(r)) =>
       /\ Data(a) + Total(r) \in Addresses \ s.headers
       /\ a < Data(a) + Total(r)
       /\ Data(a) + Total(r) < NextHeader(s, a)
       /\ u.asked[Data(a) + Total(r)] = Nothing
       /\ Data(a) + Total(r) \notin u.async

\* What binder_alloc_buf has done before it puts the rest into the tree.
LEMMA TakesFrom ==
  ASSUME NEW s, Whole(s), NEW a \in s.free, NEW r \in Requests, Representable(r),
         s.key[a] >= Total(r), NEW isAsync,
         NEW u, u = TakenFrom(s, a, r, isAsync)
  PROVE  Took(s, a, r, isAsync, u)
<1> DEFINE n == Total(r)
           h == Data(a) + n
           split == Split(s, a, n)
           e == Data(a) + Taken(s, a, n)
           N == NextHeader(s, a)
           R == PageAlign(Data(a))..LastPage(s, a, n) - 1
           hs == IF split THEN s.headers \cup {h} ELSE s.headers
           k == [s.key EXCEPT ![a] = 0]
           ask == [s.asked EXCEPT ![a] = r]
           as == AsyncWith(s, a, isAsync)
           p == s.pages \cup R
<1>1. /\ s \in Area /\ Shape(s) /\ Exact(s) /\ s.bug = FALSE
      /\ a \in s.headers /\ a \in Addresses /\ a \in Nat
      /\ s.headers \subseteq Addresses
  BY AddressFacts DEF Whole, Shape, Area
<1>2. n \in Nat
  BY RepresentableIsEnough, Numbers
<1>3. Data(a) = a + Header /\ Header \in Nat \ {0} /\ Slack \in Nat /\ Size \in Nat
  BY Numbers DEF Data
<1>4. /\ Taken(s, a, n) = n \/ Taken(s, a, n) = n + Header
      /\ Taken(s, a, n) = n => N <= Data(a) + n + Header + Slack
      /\ e <= N
  <2>1. s.key[a] >= n
    OBVIOUS
  <2> HIDE DEF n
  <2> QED BY <2>1, <1>2, TakenIs
<1>5. /\ a < N /\ N \in Nat /\ N <= Size
      /\ \A b \in s.headers : a < b => N <= b
  BY <1>1, NextIs DEF Ends
<1>6. h \in Nat /\ a < h /\ h <= e /\ e \in Nat /\ (split => e = h + Header)
      /\ (~split => e = h)
  BY <1>1, <1>2, <1>3, <1>4 DEF Split
<1>7. split => /\ h \in Addresses \ s.headers
               /\ h < N /\ s.asked[h] = Nothing /\ h \notin s.async /\ h # a
               /\ h \notin s.free
  <2> HIDE DEF h, N, e
  <2> HAVE split
  <2>1. h < N /\ h < Size
    BY <1>3, <1>4, <1>5, <1>6
  <2>2. h \in Addresses
    BY <2>1, <1>6, <1>3 DEF Addresses
  <2>3. h \notin s.headers
    BY <2>1, <1>5, <1>6
  <2>4. h \notin Allocated(s)
    BY <2>3 DEF Allocated
  <2> QED BY <2>1, <2>2, <2>3, <2>4, <1>1, <1>6 DEF Shape
<1>8. \A q \in Pages : /\ q \in R => q \notin s.pages
                       /\ q \in R \/ q \in s.pages <=>
                            \/ Shared(s, a, q)
                            \/ PageOf(a) <= q /\ q <= PageOf(e - 1)
  <2>1. s.key[a] >= n
    OBVIOUS
  <2> HIDE DEF n
  <2> QED BY <2>1, <1>2, PagesAreNew
<1>9. R \subseteq Pages
  <2> SUFFICES ASSUME NEW q \in R PROVE q \in Pages
    OBVIOUS
  <2>1. PageAlign(Data(a)) = PageOf(Data(a) - 1) + 1 /\ PageOf(Data(a) - 1) \in Nat
    BY <1>1, <1>3, RoundedUp, PageFacts
  <2>2. PageOf(N) \in Nat /\ PageOf(N) <= PageOf(Size)
    BY <1>5, <1>3, PageFacts, PagesGrow
  <2>3. Data(a) + binder_buffer_size(s, a) = N
    BY <1>1, <1>3, NextIs
  <2>4. PageAlign(e) \in Nat
    <3>1. e - 1 \in Nat /\ 0 < e
      BY <1>6, <1>1
    <3> QED BY <3>1, <1>6, RoundedUp, PageFacts
  <2>5. LastPage(s, a, n) \in Nat /\ LastPage(s, a, n) <= PageOf(N)
    <3>1. LastPage(s, a, n) = Min({PageAlign(e), PageOf(N)})
      BY <2>3 DEF LastPage
    <3>2. {PageAlign(e), PageOf(N)} \in SUBSET Nat
      BY <2>2, <2>4
    <3> HIDE DEF e, N
    <3> QED BY <3>1, <3>2, MinIsLeast
  <2>6. q \in Nat /\ q <= PageOf(Size) - 1
    BY <2>1, <2>2, <2>5, SizeInPages
  <2> QED BY <2>6, SizeInPages
<1>10. u = [s EXCEPT !.headers = hs, !.free = @ \ {a}, !.key = k, !.asked = ask,
                     !.async = as, !.pages = p]
  BY <1>1 DEF TakenFrom, Area
<1>11. /\ k \in [Addresses -> 0..Size] /\ ask \in [Addresses -> Requests \cup {Nothing}]
       /\ hs \in SUBSET Addresses /\ as \in SUBSET Addresses /\ p \in SUBSET Pages
  BY <1>1, <1>3, <1>7, <1>9 DEF Area, AsyncWith
<1> DEFINE f == s.free \ {a}
<1>12. /\ u = [s EXCEPT !.headers = hs, !.free = f, !.key = k, !.asked = ask,
                        !.async = as, !.pages = p]
       /\ f \in SUBSET Addresses
  BY <1>1, <1>10 DEF Area
<1> HIDE DEF hs, k, ask, as, p, f
<1>13. u.headers = hs /\ u.free = f /\ u.key = k /\ u.asked = ask /\ u.async = as
       /\ u.pages = p /\ u.bug = FALSE
  BY <1>1, <1>12 DEF Area
<1>14. u \in Area
  BY <1>1, <1>11, <1>12 DEF Area
<1> HIDE DEF h, n, e, N, R, split
<1>15. ask[a] = r /\ \A b \in Addresses : b # a => ask[b] = s.asked[b]
  BY <1>1 DEF ask, Area
<1>16. /\ Extent(u, a) = h
       /\ \A b \in s.headers \ {a} : Extent(u, b) = Extent(s, b)
       /\ split => Extent(u, h) = e /\ u.asked[h] = Nothing
  <2>1. Extent(u, a) = h
    BY <1>13, <1>15 DEF Extent, h, n
  <2>2. \A b \in s.headers \ {a} : Extent(u, b) = Extent(s, b)
    BY <1>1, <1>13, <1>15 DEF Extent
  <2>3. ASSUME split PROVE Extent(u, h) = e /\ u.asked[h] = Nothing
    <3>1. u.asked[h] = Nothing
      BY <2>3, <1>7, <1>13, <1>15
    <3>2. Extent(u, h) = h + Header + 0
      BY <3>1, NothingIsNothing DEF Extent, Data
    <3> QED BY <3>1, <3>2, <2>3, <1>3, <1>6
  <2> QED BY <2>1, <2>2, <2>3
<1>17. Shape(u)
  <2>1. 0 \in u.headers /\ u.free \subseteq u.headers
    BY <1>1, <1>13 DEF Shape, hs, f
  <2>2. \A b \in Addresses : b \notin Allocated(u) => b \notin Allocated(s) /\ b # a
    BY <1>1, <1>13 DEF Allocated, hs, f
  <2>3. u.async \subseteq Allocated(u)
    <3>1. Allocated(s) \cup {a} \subseteq Allocated(u)
      BY <1>1, <1>13 DEF Allocated, hs, f
    <3> QED BY <3>1, <1>1, <1>13 DEF Shape, as, AsyncWith
  <2>4. \A b \in Addresses : b \notin Allocated(u) => u.asked[b] = Nothing
    BY <2>2, <1>1, <1>13, <1>15 DEF Shape
  <2>5. ASSUME NEW b \in u.headers PROVE Fits(u, b)
    <3>1. u.headers \subseteq Addresses /\ \A c \in u.headers : c \in Nat
      BY <1>14, AddressFacts DEF Area
    <3>2. \A c \in u.headers : c \in s.headers \/ (split /\ c = h)
      BY <1>13 DEF hs
    <3>3. CASE b = a
      <4>1. h <= Size
        BY <1>3, <1>4, <1>5, <1>6
      <4>2. \A c \in u.headers : a < c => h <= c
        <5> TAKE c \in u.headers
        <5> HAVE a < c
        <5>1. CASE c \in s.headers
          BY <5>1, <3>1, <1>4, <1>5, <1>6
        <5>2. CASE c = h
          BY <5>2, <1>6
        <5> QED BY <5>1, <5>2, <3>2
      <4>3. u.asked[a] \in Requests /\ Representable(u.asked[a])
        BY <1>13, <1>15
      <4> QED BY <4>1, <4>2, <4>3, <3>3, <1>16 DEF Fits
    <3>4. CASE b \in s.headers \ {a}
      <4>1. Fits(s, b) /\ Extent(u, b) = Extent(s, b) /\ u.asked[b] = s.asked[b]
        BY <3>4, <1>1, <1>13, <1>15, <1>16 DEF Shape
      <4>2. \A c \in u.headers : b < c => Extent(u, b) <= c
        <5> TAKE c \in u.headers
        <5> HAVE b < c
        <5>1. CASE c \in s.headers
          BY <5>1, <4>1 DEF Fits
        <5>2. CASE split /\ c = h
          <6>1. b < a
            <7>1. ~ (a < b)
              BY <5>2, <3>1, <1>5, <1>6, <1>7, <3>4
            <7> QED BY <7>1, <3>1, <3>4, <1>1
          <6>2. Extent(s, b) <= a /\ Extent(s, b) \in Nat
            BY <6>1, <4>1, <1>1, <3>4, Extents DEF Fits
          <6> QED BY <6>2, <5>2, <4>1, <1>1, <1>6
        <5> QED BY <5>1, <5>2, <3>2
      <4> QED BY <4>1, <4>2 DEF Fits
    <3>5. CASE split /\ b = h
      <4>1. e <= Size
        BY <1>3, <1>4, <1>5, <1>6
      <4>2. \A c \in u.headers : h < c => e <= c
        <5> TAKE c \in u.headers
        <5> HAVE h < c
        <5>1. c \in s.headers /\ a < c
          BY <3>1, <3>2, <1>1, <1>6
        <5>2. N <= c
          BY <5>1, <1>5
        <5> QED BY <5>2, <3>1, <1>4, <1>5, <1>6
      <4> QED BY <4>1, <4>2, <3>5, <1>16 DEF Fits
    <3> QED BY <2>5, <3>2, <3>3, <3>4, <3>5
  <2> QED BY <2>1, <2>3, <2>4, <2>5, <1>14 DEF Shape
<1>18. Exact(u)
  <2> SUFFICES ASSUME NEW q \in Pages
               PROVE  q \in u.pages <=> Touched(u, q)
    BY DEF Exact
  <2>1. q \in Nat
    BY SizeInPages
  <2>2. q \in u.pages <=> \/ Shared(s, a, q)
                          \/ PageOf(a) <= q /\ q <= PageOf(e - 1)
    BY <1>8, <1>13 DEF p
  <2>3. Touched(u, q) <=> \/ Shared(s, a, q)
                          \/ PageOf(a) <= q /\ q <= PageOf(h - 1)
                          \/ split /\ PageOf(h) <= q /\ q <= PageOf(e - 1)
    <3>1. \A c : c \in u.headers <=> c = a \/ c \in s.headers \ {a} \/ (split /\ c = h)
      BY <1>1, <1>13 DEF hs
    <3> QED BY <3>1, <1>16 DEF Touched, Shared
  <2>4. CASE ~split
    <3>1. e = h
      BY <2>4, <1>6
    <3> QED BY <2>2, <2>3, <2>4, <3>1
  <2>5. CASE split
    <3> DEFINE x == h - 1
               y == e - 1
    <3>1. x \in Nat /\ y \in Nat /\ a <= h /\ x <= y /\ h <= y /\ h < x + PageSize + 1
          /\ a <= x
      BY <2>5, <1>1, <1>3, <1>6, Numbers
    <3>2. PageOf(h) <= PageOf(x) + 1
      <4>1. h < x + PageSize \/ h = x + PageSize
        BY <3>1, <1>6, Numbers
      <4>2. CASE h < x + PageSize
        BY <4>2, <3>1, <1>6, NextPageAtMost
      <4>3. CASE h = x + PageSize
        <5>1. PageOf(x + PageSize) = PageOf(x) + 1
          BY <3>1, OnePageOn
        <5>2. PageOf(x) \in Nat
          BY <3>1, PageFacts
        <5> QED BY <5>1, <5>2, <4>3
      <4> QED BY <4>1, <4>2, <4>3
    <3>3. /\ PageOf(a) \in Nat /\ PageOf(h) \in Nat /\ PageOf(x) \in Nat
          /\ PageOf(y) \in Nat
          /\ PageOf(a) <= PageOf(h) /\ PageOf(x) <= PageOf(y) /\ PageOf(h) <= PageOf(y)
      <4> HIDE DEF x, y
      <4> QED BY <3>1, <1>1, <1>6, PageFacts, PagesGrow
    <3>4. PageOf(a) <= q /\ q <= PageOf(y) <=>
            \/ PageOf(a) <= q /\ q <= PageOf(x)
            \/ PageOf(h) <= q /\ q <= PageOf(y)
      <4> HIDE DEF x, y
      <4> QED BY <3>2, <3>3, <2>1
    <3> QED BY <2>2, <2>3, <2>5, <3>4
  <2> QED BY <2>4, <2>5
<1>19. split => /\ h \in Addresses \ s.headers /\ a < h /\ h < N
                /\ u.asked[h] = Nothing /\ h \notin u.async
  BY <1>6, <1>7, <1>13, <1>16 DEF as, AsyncWith
<1> QED BY <1>13, <1>17, <1>18, <1>19 DEF Took, n, h, split, N, hs, k, ask, as, f

\* binder_alloc_buf keeps the area whole.
LEMMA AllocatesWhole ==
  ASSUME NEW s, Whole(s), NEW a \in s.free, NEW r \in Requests, Representable(r),
         s.key[a] >= Total(r), NEW isAsync,
         NEW u, u = Allocate(s, a, r, isAsync)
  PROVE  /\ Whole(u)
         /\ u.asked = [s.asked EXCEPT ![a] = r]
         /\ u.async = AsyncWith(s, a, isAsync)
<1> DEFINE n == Total(r)
           h == Data(a) + n
           N == NextHeader(s, a)
           R == PageAlign(Data(a))..LastPage(s, a, n) - 1
           t == TakenFrom(s, a, r, isAsync)
           split == Split(s, a, n)
<1>1. /\ s \in Area /\ s.bug = FALSE
      /\ a \in s.headers /\ a \in Addresses /\ a \in Nat
      /\ s.headers \subseteq Addresses /\ s.free \subseteq s.headers
      /\ s.key \in [Addresses -> 0..Size]
      /\ Keyed(s, {}) /\ Tight(s, {}) /\ Spaced(s)
  BY AddressFacts DEF Whole, Shape, Area
<1>2. n \in Nat /\ s.key[a] >= n
  BY RepresentableIsEnough, Numbers
<1>3. /\ a < N /\ N \in s.headers \cup {Size} /\ N \in Nat /\ N <= Size
      /\ \A b \in s.headers : a < b => N <= b
  BY <1>1, NextIs DEF Ends
<1>4. R \cap s.pages = {}
  <2> SUFFICES ASSUME NEW q \in R, q \in s.pages PROVE FALSE
    OBVIOUS
  <2>1. q \in Pages
    BY <1>1 DEF Area
  <2> HIDE DEF n
  <2>2. q \in R => q \notin s.pages
    BY <2>1, <1>2, PagesAreNew
  <2> QED BY <2>2
<1> DEFINE m == MapPages(s, PageAlign(Data(a)), LastPage(s, a, n))
           w == [Erase(m, a) EXCEPT !.asked[a] = r,
                                    !.async = IF isAsync THEN @ \cup {a} ELSE @]
<1>5. m = [s EXCEPT !.pages = @ \cup R]
  <2>1. (R \cap s.pages # {}) = FALSE
    BY <1>4
  <2>2. m = [s EXCEPT !.bug = @ \/ R \cap s.pages # {}, !.pages = @ \cup R]
    BY DEF MapPages
  <2> HIDE DEF R, m
  <2> QED BY <2>1, <2>2, <1>1 DEF Area
<1>6. ~split => w = t
  <2> HIDE DEF R, m, n
  <2> QED BY <1>1, <1>5 DEF TakenFrom, AsyncWith, Erase, Area, n, R
<1>7. split => [w EXCEPT !.headers = @ \cup {h}] = t
  <2> HIDE DEF R, m, n, h
  <2> QED BY <1>1, <1>5 DEF TakenFrom, AsyncWith, Erase, Area, n, R, h
<1>8. u = IF ~split THEN w ELSE InsertFree([w EXCEPT !.headers = @ \cup {h}], h)
  BY DEF Allocate, Split
<1> HIDE DEF m, w
<1>9. u = IF split THEN InsertFree(t, h) ELSE t
  <2> HIDE DEF t, split, h
  <2> QED BY <1>6, <1>7, <1>8
<1>10. /\ Shape(t) /\ Exact(t) /\ t.bug = FALSE
       /\ t.headers = IF split THEN s.headers \cup {h} ELSE s.headers
       /\ t.free = s.free \ {a} /\ t.key = [s.key EXCEPT ![a] = 0]
       /\ t.asked = [s.asked EXCEPT ![a] = r]
       /\ t.async = AsyncWith(s, a, isAsync)
       /\ split => /\ h \in Addresses \ s.headers /\ a < h /\ h < N
                   /\ t.asked[h] = Nothing /\ h \notin t.async
  <2>1. t = TakenFrom(s, a, r, isAsync)
    OBVIOUS
  <2> HIDE DEF t, n
  <2>2. s.key[a] >= Total(r)
    OBVIOUS
  <2>3. Took(s, a, r, isAsync, t)
    BY <2>1, <2>2, TakesFrom
  <2> QED BY <2>3 DEF Took, n
<1> HIDE DEF t, split
<1>11. split => /\ Shape(u) /\ Exact(u) /\ u.headers = t.headers
                /\ u.free = t.free \cup {h}
                /\ u.key = [t.key EXCEPT ![h] = binder_buffer_size(t, h)]
                /\ u.bug = t.bug /\ SameAsked(t, u)
  <2> HIDE DEF h
  <2> HAVE split
  <2>1. h \in t.headers /\ h \notin t.async /\ t.asked[h] = Nothing
    BY <1>10
  <2>2. u = InsertFree(t, h) /\ Shape(t) /\ Exact(t)
    BY <1>9, <1>10
  <2> QED BY <2>1, <2>2, InsertedIs
<1> HIDE DEF h, N
<1>12. /\ Shape(u) /\ Exact(u) /\ u.bug = FALSE
       /\ u.asked = [s.asked EXCEPT ![a] = r]
       /\ u.async = AsyncWith(s, a, isAsync)
       /\ u.headers = IF split THEN s.headers \cup {h} ELSE s.headers
       /\ u.free = IF split THEN (s.free \ {a}) \cup {h} ELSE s.free \ {a}
  <2>1. CASE split
    BY <2>1, <1>10, <1>11 DEF SameAsked
  <2>2. CASE ~split
    <3>1. u = t
      BY <2>2, <1>9
    <3> QED BY <2>2, <3>1, <1>10
  <2> QED BY <2>1, <2>2
<1>13. u \in Area /\ t \in Area /\ u.headers \subseteq Addresses
       /\ u.key \in [Addresses -> 0..Size]
  BY <1>10, <1>12 DEF Shape, Area
<1>14. \A c \in s.headers \ {a} : NextHeader(u, c) = NextHeader(s, c)
  <2> TAKE c \in s.headers \ {a}
  <2>1. c \in Addresses /\ c \in Nat /\ c # a
    BY <1>1, AddressFacts
  <2> DEFINE x == NextHeader(s, c)
  <2>2. /\ x \in s.headers \cup {Size} /\ c < x /\ x \in Nat
        /\ \A b \in s.headers : c < b => x <= b
    BY <1>1, <2>1, NextIs DEF Ends
  <2> HIDE DEF x
  <2>3. ASSUME split, c < h PROVE x <= h
    <3>1. h \in Nat /\ a < h /\ h < N
      BY <2>3, <1>10, AddressFacts
    <3>2. ~ (a < c)
      BY <2>1, <2>3, <3>1, <1>3
    <3>3. x <= a
      BY <2>1, <2>2, <3>2, <1>1
    <3> QED BY <3>1, <3>3, <2>2, <1>1
  <2>4. Ends(u, c, x)
    BY <2>2, <2>3, <1>12 DEF Ends
  <2> QED BY <2>1, <2>4, <1>13, NextIs DEF x
<1>15. Keyed(u, {})
  <2> SUFFICES ASSUME NEW c \in u.free
               PROVE  u.key[c] = binder_buffer_size(u, c)
    BY DEF Keyed
  <2>1. CASE split /\ c = h
    <3>1. NextHeader(u, h) = NextHeader(t, h)
      BY <2>1, <1>11 DEF NextHeader, Above
    <3>2. binder_buffer_size(u, h) = binder_buffer_size(t, h)
      BY <3>1 DEF binder_buffer_size
    <3>3. t.key \in [Addresses -> 0..Size] /\ h \in Addresses
      BY <2>1, <1>10, <1>13 DEF Area
    <3> QED BY <2>1, <3>2, <3>3, <1>11
  <2>2. CASE c \in s.free \ {a}
    <3>1. c \in s.headers \ {a} /\ c \in Addresses /\ c # a /\ (split => c # h)
      BY <2>2, <1>1, <1>10
    <3>2. t.key[c] = s.key[c] /\ t.key \in [Addresses -> 0..Size]
      BY <3>1, <1>1, <1>10, <1>13 DEF Area
    <3>3. u.key[c] = t.key[c]
      <4>1. CASE split
        BY <4>1, <3>1, <3>2, <1>11
      <4>2. CASE ~split
        BY <4>2, <1>9
      <4> QED BY <4>1, <4>2
    <3>4. NextHeader(u, c) = NextHeader(s, c)
      BY <3>1, <1>14
    <3>5. s.key[c] = binder_buffer_size(s, c)
      BY <2>2, <1>1 DEF Keyed
    <3> QED BY <3>2, <3>3, <3>4, <3>5 DEF binder_buffer_size
  <2> QED BY <2>1, <2>2, <1>12
<1>16. Tight(u, {})
  <2> SUFFICES ASSUME NEW c \in Allocated(u)
               PROVE  NextHeader(u, c) <= Extent(u, c) + Header + Slack
    BY DEF Tight
  <2>1. c = a \/ (c \in Allocated(s) /\ c \in s.headers \ {a})
    <3>1. CASE split
      BY <3>1, <1>1, <1>12 DEF Allocated
    <3>2. CASE ~split
      BY <3>2, <1>1, <1>12 DEF Allocated
    <3> QED BY <3>1, <3>2
  <2>2. s.asked \in [Addresses -> Requests \cup {Nothing}]
    BY <1>1 DEF Area
  <2>3. CASE c = a
    <3>1. u.asked[a] = r
      BY <2>2, <1>1, <1>12
    <3>2. Extent(u, a) = h
      BY <3>1 DEF Extent, h, n
    <3>3. h \in Nat /\ h = Data(a) + n
      BY <1>1, <1>2, AddressFacts DEF h
    <3>4. CASE ~split
      <4>1. NextHeader(u, a) = NextHeader(s, a)
        BY <3>4, <1>12 DEF NextHeader, Above
      <4>2. Taken(s, a, n) = n
        BY <3>4 DEF split, Split
      <4>3. NextHeader(s, a) <= Data(a) + n + Header + Slack
        <5> HIDE DEF n
        <5> QED BY <4>2, <1>2, TakenIs
      <4> QED BY <4>1, <4>3, <3>2, <3>3, <2>3
    <3>5. CASE split
      <4>1. h \in u.headers /\ a < h /\ h < N
        BY <3>5, <1>10, <1>12
      <4>2. \A b \in u.headers : a < b => h <= b
        <5> TAKE b \in u.headers
        <5> HAVE a < b
        <5>1. b = h \/ (b \in s.headers /\ b \in Nat)
          BY <1>12, <1>1, AddressFacts
        <5>2. CASE b \in s.headers /\ b \in Nat
          BY <5>2, <4>1, <3>3, <1>3
        <5> QED BY <5>1, <5>2, <3>3
      <4>3. Ends(u, a, h)
        BY <4>1, <4>2 DEF Ends
      <4>4. NextHeader(u, a) = h
        BY <4>3, <1>1, <1>13, NextIs
      <4> QED BY <4>4, <3>2, <3>3, <2>3, Numbers
    <3> QED BY <3>4, <3>5
  <2>4. CASE c \in Allocated(s) /\ c \in s.headers \ {a}
    <3>1. NextHeader(s, c) <= Extent(s, c) + Header + Slack
      BY <2>4, <1>1 DEF Tight
    <3>2. NextHeader(u, c) = NextHeader(s, c)
      BY <2>4, <1>14
    <3>3. u.asked[c] = s.asked[c]
      BY <2>2, <2>4, <1>1, <1>12
    <3> QED BY <3>1, <3>2, <3>3 DEF Extent
  <2> QED BY <2>1, <2>3, <2>4
<1>17. Spaced(u)
  <2> SUFFICES ASSUME NEW x \in u.free, NEW y \in u.free, x < y
               PROVE  \E c \in u.headers : x < c /\ c < y
    BY DEF Spaced
  <2>1. s.headers \subseteq u.headers
    BY <1>12
  <2>2. \A z \in u.free : z \in Nat /\ (z \in s.free \ {a} \/ (split /\ z = h))
    <3> TAKE z \in u.free
    <3>1. z \in s.free \ {a} \/ (split /\ z = h)
      BY <1>12
    <3> QED BY <3>1, <1>1, <1>10, AddressFacts
  <2>3. CASE x \in s.free \ {a} /\ y \in s.free \ {a}
    BY <2>1, <2>3, <1>1 DEF Spaced
  <2>4. CASE split /\ y = h /\ x \in s.free \ {a}
    <3>1. x \in s.headers /\ h < N /\ a < h /\ x # a
      BY <2>4, <1>1, <1>10
    <3>2. ~ (a < x)
      BY <2>2, <2>4, <3>1, <1>3
    <3>3. x < a
      BY <2>2, <3>1, <3>2, <1>1
    <3> QED BY <3>1, <3>3, <2>1, <2>4, <1>1
  <2>5. CASE split /\ x = h /\ y \in s.free \ {a}
    <3>1. y \in s.headers /\ h < N /\ a < h /\ y \in Addresses
      BY <2>5, <1>1, <1>10
    <3>2. a < y
      BY <2>2, <2>5, <3>1, <1>1
    <3>3. N <= y
      BY <3>1, <3>2, <1>3
    <3>4. PICK c \in s.headers : a < c /\ c < y
      BY <2>5, <3>2, <1>1 DEF Spaced
    <3>5. N <= c /\ c \in Nat
      BY <3>4, <1>1, <1>3, AddressFacts
    <3>6. N < y
      BY <3>4, <3>5, <1>3, <2>2
    <3>7. N \in s.headers
      BY <3>1, <3>6, <1>3, AddressFacts, Numbers
    <3> QED BY <3>1, <3>6, <3>7, <2>1, <2>5
  <2>6. ~(split /\ x = h /\ y = h)
    BY <2>2
  <2> QED BY <2>2, <2>3, <2>4, <2>5, <2>6
<1> QED BY <1>12, <1>15, <1>16, <1>17 DEF Whole

-----------------------------------------------------------------------------
(* The space for oneway calls. *)

\* The bytes of the oneway buffers but for the one at a.
AsyncRest(s, a) == UNION {b..Extent(s, b) - 1 : b \in s.async \ {a}}

\* The bytes of one oneway buffer are nobody else's.
LEMMA AsyncBytesAdd ==
  ASSUME NEW s, Shape(s), NEW a \in s.async
  PROVE  /\ Cardinality(AsyncOf(s)) \in Nat /\ Cardinality(AsyncRest(s, a)) \in Nat
         /\ Cardinality(AsyncOf(s)) =
              Cardinality(AsyncRest(s, a)) + Total(s.asked[a]) + Header
<1> DEFINE X == AsyncRest(s, a)
           Y == a..Extent(s, a) - 1
<1>1. s.async \subseteq s.headers
  BY DEF Shape, Allocated
<1>2. \A b \in s.headers :
        /\ b \in Nat /\ Extent(s, b) \in Nat /\ Extent(s, b) <= Size
        /\ \A c \in s.headers : b < c => Extent(s, b) <= c
  BY Extents
<1>3. AsyncOf(s) = X \cup Y
  BY DEF AsyncOf, AsyncRest
<1>4. X \subseteq 0..Size - 1
  <2> SUFFICES ASSUME NEW b \in s.async \ {a}, NEW x \in b..Extent(s, b) - 1
               PROVE  x \in 0..Size - 1
    BY DEF AsyncRest
  <2>1. b \in Nat /\ Extent(s, b) \in Nat /\ Extent(s, b) <= Size
    BY <1>1, <1>2
  <2> QED BY <2>1, Numbers
<1>5. X \cap Y = {}
  <2> SUFFICES ASSUME NEW b \in s.async \ {a}, NEW x \in b..Extent(s, b) - 1,
                      x \in Y
               PROVE  FALSE
    BY DEF AsyncRest
  <2>1. /\ a \in Nat /\ b \in Nat /\ Extent(s, a) \in Nat /\ Extent(s, b) \in Nat
        /\ a < b => Extent(s, a) <= b
        /\ b < a => Extent(s, b) <= a
        /\ a # b
    BY <1>1, <1>2
  <2>2. x \in Int /\ a <= x /\ x <= Extent(s, a) - 1 /\ b <= x /\ x <= Extent(s, b) - 1
    BY <2>1
  <2> QED BY <2>1, <2>2
<1>6. /\ a \in Nat /\ Total(s.asked[a]) \in Nat
      /\ Extent(s, a) = a + Header + Total(s.asked[a]) /\ Extent(s, a) \in Nat
  BY <1>1, Extents
<1>7. IsFiniteSet(Y) /\ Cardinality(Y) = Total(s.asked[a]) + Header
  <2> DEFINE e == Extent(s, a) - 1
  <2>1. a \in Int /\ e \in Int /\ ~(a > e)
        /\ e - a + 1 = Total(s.asked[a]) + Header
    BY <1>6, Numbers
  <2> HIDE DEF e
  <2>2. IsFiniteSet(a..e) /\ Cardinality(a..e) = e - a + 1
    BY <2>1, FS_Interval
  <2> QED BY <2>1, <2>2 DEF e
<1>8. IsFiniteSet(X)
  <2>1. IsFiniteSet(0..Size - 1)
    BY Numbers, FS_Interval
  <2> HIDE DEF X
  <2> QED BY <2>1, <1>4, FS_Subset
<1> HIDE DEF X, Y
<1>9. /\ Cardinality(X \cup Y) = Cardinality(X) + Cardinality(Y) - Cardinality(X \cap Y)
      /\ Cardinality(X) \in Nat /\ Cardinality(Y) \in Nat
  BY <1>7, <1>8, FS_Union, FS_CardinalityType
<1>10. Cardinality(X \cap Y) = 0
  BY <1>5, FS_EmptySet
<1> QED BY <1>3, <1>6, <1>7, <1>9, <1>10, Numbers DEF X

LEMMA AsyncIsFinite ==
  ASSUME NEW s, Shape(s)
  PROVE  Cardinality(AsyncOf(s)) \in Nat
<1>1. CASE s.async = {}
  <2>1. AsyncOf(s) = {}
    BY <1>1 DEF AsyncOf
  <2> QED BY <2>1, FS_EmptySet
<1>2. CASE s.async # {}
  <2>1. PICK a \in s.async : TRUE
    BY <1>2
  <2> QED BY <2>1, AsyncBytesAdd
<1> QED BY <1>1, <1>2

\* What is left fits a size_t.
LEMMA SpaceIsSmall ==
  ASSUME NEW s, Shape(s), NEW m \in Nat, SpaceLeft(s, m)
  PROVE  m \in 0..Wrap - 1
<1>1. Cardinality(AsyncOf(s)) \in Nat
  BY AsyncIsFinite
<1> DEFINE z == Size
<1>2. z \in Nat /\ z < Wrap /\ Wrap \in Nat
  BY Numbers
<1> HIDE DEF z
<1>3. z \div 2 <= z /\ z \div 2 \in Nat
  BY <1>2
<1>4. m <= z \div 2
  BY <1>1, <1>3 DEF SpaceLeft, z
<1> QED BY <1>2, <1>3, <1>4

\* An allocation takes from the space what the oneway buffer occupies.
LEMMA AllocatesSpace ==
  ASSUME NEW s, Whole(s), NEW a \in s.free, NEW r \in Requests, Representable(r),
         NEW u, Whole(u), u.asked = [s.asked EXCEPT ![a] = r],
         NEW m \in Nat, SpaceLeft(s, m)
  PROVE  /\ u.async = s.async => SpaceLeft(u, m)
         /\ u.async = s.async \cup {a} => SpaceLeft(u, m - (Total(r) + Header))
<1>1. /\ s \in Area /\ Shape(s) /\ Shape(u) /\ a \in Addresses
      /\ s.async \subseteq Addresses /\ a \notin s.async
      /\ s.asked \in [Addresses -> Requests \cup {Nothing}]
  BY DEF Whole, Shape, Area, Allocated
<1>2. \A b \in s.async : Extent(u, b) = Extent(s, b)
  BY <1>1 DEF Extent
<1>3. ASSUME u.async = s.async PROVE SpaceLeft(u, m)
  <2>1. AsyncOf(u) = AsyncOf(s)
    BY <1>2, <1>3 DEF AsyncOf
  <2> QED BY <2>1 DEF SpaceLeft
<1>4. ASSUME u.async = s.async \cup {a}
      PROVE  SpaceLeft(u, m - (Total(r) + Header))
  <2>1. AsyncRest(u, a) = AsyncOf(s)
    BY <1>1, <1>2, <1>4 DEF AsyncOf, AsyncRest
  <2>2. u.asked[a] = r /\ a \in u.async
    BY <1>1, <1>4
  <2>3. /\ Cardinality(AsyncOf(u)) \in Nat /\ Cardinality(AsyncOf(s)) \in Nat
        /\ Cardinality(AsyncOf(u)) = Cardinality(AsyncOf(s)) + Total(r) + Header
    BY <1>1, <2>1, <2>2, AsyncBytesAdd
  <2>4. Total(r) \in Nat
    BY RepresentableIsEnough, Numbers
  <2>5. m + Cardinality(AsyncOf(s)) = Size \div 2
    BY DEF SpaceLeft
  <2>6. (m - (Total(r) + Header)) + Cardinality(AsyncOf(u)) = m + Cardinality(AsyncOf(s))
    BY <2>3, <2>4, Numbers
  <2> QED BY <2>5, <2>6 DEF SpaceLeft
<1> QED BY <1>3, <1>4

\* A buffer that is freed gives back exactly that.
LEMMA FreesSpace ==
  ASSUME NEW s, Whole(s), NEW a \in Allocated(s),
         NEW u, Whole(u), u.asked = [s.asked EXCEPT ![a] = Nothing],
         u.async = s.async \ {a}, NEW m \in Nat, SpaceLeft(s, m)
  PROVE  GivenBack(s, a) \in Nat /\ SpaceLeft(u, m + GivenBack(s, a))
<1>1. /\ s \in Area /\ Shape(s) /\ a \in Addresses
      /\ s.async \subseteq Addresses /\ a \in s.headers
      /\ s.asked \in [Addresses -> Requests \cup {Nothing}]
  BY DEF Whole, Shape, Area, Allocated
<1>2. \A b \in s.async \ {a} : Extent(u, b) = Extent(s, b)
  BY <1>1 DEF Extent
<1>3. AsyncOf(u) = AsyncRest(s, a)
  BY <1>2 DEF AsyncOf, AsyncRest
<1>4. Total(s.asked[a]) \in Nat
  BY <1>1, Extents
<1>5. CASE a \in s.async
  <2>1. GivenBack(s, a) = Total(s.asked[a]) + Header
    BY <1>5 DEF GivenBack
  <2>2. /\ Cardinality(AsyncOf(s)) \in Nat /\ Cardinality(AsyncOf(u)) \in Nat
        /\ Cardinality(AsyncOf(s)) =
             Cardinality(AsyncOf(u)) + Total(s.asked[a]) + Header
    BY <1>1, <1>3, <1>5, AsyncBytesAdd
  <2>3. m + Cardinality(AsyncOf(s)) = Size \div 2
    BY DEF SpaceLeft
  <2>4. (m + GivenBack(s, a)) + Cardinality(AsyncOf(u)) = m + Cardinality(AsyncOf(s))
    BY <2>1, <2>2, <1>4, Numbers
  <2> QED BY <2>1, <2>3, <2>4, <1>4, Numbers DEF SpaceLeft
<1>6. CASE a \notin s.async
  <2>1. GivenBack(s, a) = 0
    BY <1>6 DEF GivenBack
  <2>2. AsyncRest(s, a) = AsyncOf(s)
    BY <1>6 DEF AsyncRest, AsyncOf
  <2>3. m + 0 = m
    OBVIOUS
  <2> QED BY <2>1, <2>2, <2>3, <1>3 DEF SpaceLeft
<1> QED BY <1>5, <1>6

-----------------------------------------------------------------------------
(* The invariant. *)

LEMMA WholeNow == ASSUME Inv, life # "gone" PROVE Whole(area)
BY DEF Inv, Whole

LEMMA TypeIsArea == TypeOK <=> /\ area \in Area /\ space \in 0..Wrap - 1
                               /\ life \in {"open", "unmapped", "releasing", "gone"}
BY DEF TypeOK, Area, Nothing

\* binder_mmap: one free buffer, and the page of its header.
LEMMA InitInv == Init => Inv
<1> SUFFICES ASSUME Init PROVE Inv
  OBVIOUS
<1> DEFINE h == {0}
           f == {}
           k == [a \in Addresses |-> 0]
           ask == [a \in Addresses |-> Nothing]
           s == [headers |-> h, free |-> f, key |-> k, asked |-> ask,
                 async |-> f, given |-> f, pages |-> h, bug |-> FALSE]
<1>1. area = InsertFree(s, 0) /\ space = Size \div 2 /\ life = "open"
  BY DEF Init, Nothing
<1>2. PageSize <= Size
  <2> DEFINE p == PageSize
             z == Size
  <2>1. p \in Nat \ {0} /\ z \in Nat \ {0}
    BY Numbers
  <2>2. (z % p) = 0
    BY AllocAssumption DEF p, z
  <2> HIDE DEF p, z
  <2>3. (0 % p) = 0 /\ 0 \in Nat /\ 0 < z /\ z \in Nat
    BY <2>1
  <2>4. 0 + p <= z
    BY <2>1, <2>2, <2>3, Multiples
  <2> QED BY <2>1, <2>4 DEF p, z
<1>3. 0 \in Addresses /\ 0 \in Pages
  <2>1. 0 \in Addresses
    BY Numbers DEF Addresses
  <2>2. PageOf(0) = 0
    BY Numbers DEF PageOf
  <2>3. PageOf(0) \in Pages
    BY Numbers, SizeInPages
  <2> QED BY <2>1, <2>2, <2>3
<1>4. /\ h \in SUBSET Addresses /\ f \in SUBSET Addresses /\ h \in SUBSET Pages
      /\ k \in [Addresses -> 0..Size] /\ ask \in [Addresses -> Requests \cup {Nothing}]
  BY <1>3, Numbers
<1>5. \A a \in Addresses : ask[a] = Nothing
  OBVIOUS
<1> HIDE DEF k, ask
<1>6. /\ s \in Area /\ s.headers = {0} /\ s.free = {} /\ s.asked = ask
      /\ s.async = {} /\ s.pages = {0} /\ s.bug = FALSE
  BY <1>4 DEF Area
<1> HIDE DEF s, h, f
<1>7. s.asked[0] = Nothing /\ Extent(s, 0) = Header
  <2>1. s.asked[0] = Nothing
    BY <1>3, <1>5, <1>6
  <2>2. Extent(s, 0) = 0 + Header + 0
    BY <2>1, NothingIsNothing DEF Extent, Data
  <2> QED BY <2>1, <2>2, Numbers
<1>8. Shape(s)
  <2>1. Fits(s, 0)
    BY <1>2, <1>6, <1>7, Numbers DEF Fits
  <2> QED BY <2>1, <1>5, <1>6 DEF Shape
<1>9. Exact(s)
  <2>1. PageOf(0) = 0 /\ PageOf(Header - 1) = 0
    <3> DEFINE p == PageSize
               x == Header - 1
    <3>1. p \in Nat \ {0} /\ x \in Nat /\ x < p
      BY Numbers
    <3> HIDE DEF p, x
    <3>2. 0 \div p = 0 /\ x \div p = 0
      BY <3>1
    <3> QED BY <3>2 DEF PageOf, p, x
  <2> SUFFICES ASSUME NEW q \in Pages PROVE q \in s.pages <=> Touched(s, q)
    BY DEF Exact
  <2>2. q \in Nat
    BY SizeInPages
  <2>3. Touched(s, q) <=> 0 <= q /\ q <= 0
    BY <2>1, <1>6, <1>7 DEF Touched
  <2> QED BY <2>2, <2>3, <1>6
<1>10. /\ Shape(area) /\ Exact(area)
       /\ area.headers = s.headers /\ area.free = s.free \cup {0}
       /\ area.key = [s.key EXCEPT ![0] = binder_buffer_size(s, 0)]
       /\ area.pages = s.pages /\ area.bug = s.bug /\ SameAsked(s, area)
  BY <1>1, <1>6, <1>7, <1>8, <1>9, InsertedIs
<1>11. Keyed(area, {})
  <2>1. NextHeader(area, 0) = NextHeader(s, 0)
    BY <1>10 DEF NextHeader, Above
  <2>2. s.key \in [Addresses -> 0..Size]
    BY <1>6 DEF Area
  <2> QED BY <2>1, <2>2, <1>3, <1>6, <1>10 DEF Keyed, binder_buffer_size
<1>12. Tight(area, {}) /\ Spaced(area)
  BY <1>6, <1>10 DEF Tight, Spaced, Allocated
<1>13. SpaceLeft(area, space) /\ space \in Nat
  <2>1. AsyncOf(area) = {}
    BY <1>6, <1>10 DEF AsyncOf, SameAsked
  <2>2. Cardinality(AsyncOf(area)) = 0
    BY <2>1, FS_EmptySet
  <2> DEFINE z == Size
  <2>3. z \in Nat
    BY Numbers
  <2> HIDE DEF z
  <2>4. z \div 2 \in Nat
    BY <2>3
  <2> QED BY <2>2, <2>4, <1>1 DEF SpaceLeft, z
<1>14. space \in 0..Wrap - 1
  BY <1>10, <1>13, SpaceIsSmall
<1>15. TypeOK
  BY <1>1, <1>10, <1>14, TypeIsArea DEF Shape
<1> QED BY <1>6, <1>10, <1>11, <1>12, <1>13, <1>15 DEF Inv

\* What an operation has to leave behind.
LEMMA InvAfter ==
  ASSUME Whole(area'), space' \in Nat, SpaceLeft(area', space'),
         life' \in {"open", "unmapped", "releasing", "gone"}
  PROVE  Inv'
<1>1. Shape(area') /\ area' \in Area
  BY DEF Whole, Shape
<1>2. space' \in 0..Wrap - 1
  BY <1>1, SpaceIsSmall
<1>3. TypeOK'
  BY <1>1, <1>2 DEF TypeOK, Area, Nothing
<1> QED BY <1>3 DEF Inv, Whole

\* binder_alloc_buf.
LEMMA AllocInv ==
  ASSUME Inv, NEW r \in Requests, NEW isAsync \in BOOLEAN,
         binder_alloc_buf(r, isAsync)
  PROVE  Inv'
<1> DEFINE n == Total(r)
<1>1. life = "open" /\ Representable(r) /\ life' = life
  BY DEF binder_alloc_buf
<1>2. Whole(area) /\ space \in Nat /\ SpaceLeft(area, space)
  BY <1>1, WholeNow, Numbers DEF Inv, TypeOK
<1>3. PICK a \in BestFits(area, n) : area' = Allocate(area, a, r, isAsync)
  BY DEF binder_alloc_buf
<1>4. n \in Nat
  BY <1>1, RepresentableIsEnough, Numbers
<1>5. area \in Area /\ area.key \in [Addresses -> 0..Size]
      /\ area.free \subseteq area.headers /\ area.headers \subseteq Addresses
  BY <1>2 DEF Whole, Shape, Area
<1>6. a \in area.free /\ area.key[a] >= n
  <2>1. a \in area.free /\ (area.key[a] = n \/ area.key[a] > n)
    <3> HIDE DEF n
    <3> QED BY DEF BestFits
  <2>2. area.key[a] \in Nat
    BY <2>1, <1>5, Numbers
  <2> QED BY <2>1, <2>2, <1>4
<1>7. /\ Whole(area') /\ area'.asked = [area.asked EXCEPT ![a] = r]
      /\ area'.async = AsyncWith(area, a, isAsync)
  <2>1. area.key[a] >= Total(r)
    BY <1>6
  <2> QED BY <2>1, <1>1, <1>2, <1>3, <1>6, AllocatesWhole
<1>8. /\ area'.async = area.async => SpaceLeft(area', space)
      /\ area'.async = area.async \cup {a} => SpaceLeft(area', space - (n + Header))
  BY <1>1, <1>2, <1>6, <1>7, AllocatesSpace
<1>9. CASE isAsync = TRUE
  <2>1. space' = space - (n + Header) /\ AsyncRoom(n)
    BY <1>9 DEF binder_alloc_buf
  <2>2. area'.async = area.async \cup {a}
    BY <1>7, <1>9 DEF AsyncWith
  <2>3. (n + Header) % Wrap = n + Header
    <3>1. a \in area.headers /\ Shape(area)
      BY <1>2, <1>5, <1>6 DEF Whole
    <3>2. a \in Nat /\ NextHeader(area, a) \in Nat /\ NextHeader(area, a) <= Size
          /\ binder_buffer_size(area, a) = NextHeader(area, a) - Data(a)
      BY <3>1, <1>5, NextIs, AddressFacts
    <3>3. area.key[a] = binder_buffer_size(area, a)
      BY <1>2, <1>6 DEF Whole, Keyed
    <3>4. n + Header <= Size /\ n + Header \in Nat
      BY <3>2, <3>3, <1>4, <1>6, Numbers DEF Data
    <3> DEFINE x == n + Header
               z == Wrap
    <3>5. x \in Nat /\ z \in Nat /\ x < z
      BY <3>4, Numbers
    <3> HIDE DEF x, z
    <3>6. x % z = x
      BY <3>5
    <3> QED BY <3>6 DEF x, z
  <2>4. space - (n + Header) \in Nat
    BY <2>1, <2>3, <1>2, <1>4, Numbers DEF AsyncRoom
  <2> QED BY <2>1, <2>2, <2>4, <1>1, <1>7, <1>8, InvAfter
<1>10. CASE isAsync = FALSE
  <2>1. space' = space
    BY <1>10 DEF binder_alloc_buf
  <2>2. area'.async = area.async
    BY <1>7, <1>10 DEF AsyncWith
  <2> QED BY <2>1, <2>2, <1>1, <1>2, <1>7, <1>8, InvAfter
<1> QED BY <1>9, <1>10

\* binder_free_buf, by whoever calls it.
LEMMA FreeInv ==
  ASSUME Inv, life # "gone", NEW a \in Allocated(area),
         area' = FreeBuffer(area, a), space' = space + GivenBack(area, a),
         life' \in {"open", "unmapped", "releasing", "gone"}
  PROVE  Inv'
<1>1. Whole(area) /\ space \in Nat /\ SpaceLeft(area, space)
  BY WholeNow, Numbers DEF Inv, TypeOK
<1>2. /\ Whole(area') /\ area'.asked = [area.asked EXCEPT ![a] = Nothing]
      /\ area'.async = area.async \ {a}
  BY <1>1, FreesWhole
<1>3. GivenBack(area, a) \in Nat /\ SpaceLeft(area', space + GivenBack(area, a))
  BY <1>1, <1>2, FreesSpace
<1> QED BY <1>1, <1>2, <1>3, InvAfter

\* Return and the release of the last pages change neither headers nor trees.
LEMMA SameBuffers ==
  ASSUME Inv, area'.headers = area.headers, area'.free = area.free,
         area'.key = area.key, area'.asked = area.asked,
         area'.async = area.async, area'.bug = area.bug, area' \in Area,
         space' = space, life' \in {"open", "unmapped", "releasing", "gone"},
         life' = "gone" \/ (life # "gone" /\ area'.pages = area.pages)
  PROVE  Inv'
<1>1. \A a : /\ Extent(area', a) = Extent(area, a)
             /\ NextHeader(area', a) = NextHeader(area, a)
  BY DEF Extent, NextHeader, Above
<1>2. \A a : Fits(area', a) <=> Fits(area, a)
  BY <1>1 DEF Fits
<1>3. Allocated(area') = Allocated(area)
  BY DEF Allocated
<1>4. Shape(area')
  BY <1>2, <1>3 DEF Inv, Shape
<1>5. life' # "gone" => Exact(area')
  BY <1>1 DEF Inv, Exact, Touched
<1>6. Keyed(area', {}) /\ Tight(area', {}) /\ Spaced(area')
  BY <1>1, <1>3 DEF Inv, Keyed, Tight, Spaced, binder_buffer_size
<1>7. AsyncOf(area') = AsyncOf(area)
  BY <1>1 DEF AsyncOf
<1>8. SpaceLeft(area', space')
  BY <1>7 DEF Inv, SpaceLeft
<1>9. TypeOK'
  BY DEF Inv, TypeOK, Area, Nothing
<1> QED BY <1>4, <1>5, <1>6, <1>8, <1>9 DEF Inv

LEMMA NextInv == Inv /\ [Next]_vars => Inv'
<1> SUFFICES ASSUME Inv, [Next]_vars PROVE Inv'
  OBVIOUS
<1>1. area \in Area /\ space \in 0..Wrap - 1
      /\ life \in {"open", "unmapped", "releasing", "gone"}
  BY TypeIsArea DEF Inv
<1>2. ASSUME NEW r \in Requests, NEW isAsync \in BOOLEAN,
             binder_alloc_buf(r, isAsync)
      PROVE  Inv'
  BY <1>2, AllocInv
<1>3. ASSUME NEW a \in Addresses, Return(a) PROVE Inv'
  <2> DEFINE g == area.given \cup {a}
  <2>1. area' = [area EXCEPT !.given = g] /\ g \in SUBSET Addresses
    BY <1>1, <1>3 DEF Return, Area
  <2> HIDE DEF g
  <2>2. /\ area'.headers = area.headers /\ area'.free = area.free
        /\ area'.key = area.key /\ area'.asked = area.asked
        /\ area'.async = area.async /\ area'.bug = area.bug
        /\ area'.pages = area.pages /\ area' \in Area
    BY <1>1, <2>1 DEF Area
  <2>3. space' = space /\ life' = life /\ life # "gone"
    BY <1>3 DEF Return
  <2> QED BY <2>2, <2>3, <1>1, SameBuffers
<1>4. ASSUME NEW a \in Addresses, TransactionFails(a) PROVE Inv'
  <2>1. life # "gone" /\ life' = life /\ a \in Allocated(area)
        /\ area' = FreeBuffer(area, a) /\ space' = space + GivenBack(area, a)
    BY <1>4 DEF TransactionFails, Free
  <2> QED BY <2>1, <1>1, FreeInv
<1>5. ASSUME NEW x \in 0..Size, UserFrees(x) PROVE Inv'
  <2>1. PICK a \in Allocated(area) : Free(a)
    BY <1>5 DEF UserFrees
  <2>2. life # "gone" /\ life' = life
        /\ area' = FreeBuffer(area, a) /\ space' = space + GivenBack(area, a)
    BY <1>5, <2>1 DEF UserFrees, Free
  <2> QED BY <2>2, <1>1, FreeInv
<1>6. CASE Unmap
  <2>1. area' = area /\ space' = space /\ life' = "unmapped" /\ life # "gone"
    BY <1>6 DEF Unmap
  <2> QED BY <2>1, <1>1, SameBuffers
<1>7. CASE ReleaseBuffer
  <2> DEFINE a == Min(Allocated(area))
  <2>1. life # "gone" /\ life' = "releasing" /\ Allocated(area) # {}
        /\ area' = FreeBuffer(area, a) /\ space' = space + GivenBack(area, a)
    BY <1>7 DEF ReleaseBuffer
  <2>2. Allocated(area) \in SUBSET Nat
    BY <1>1, AddressFacts DEF Area, Allocated
  <2>3. a \in Allocated(area)
    BY <2>1, <2>2, MinIsLeast
  <2> HIDE DEF a
  <2> QED BY <2>1, <2>3, FreeInv
<1>8. CASE ReleasePages
  <2>1. area' = [area EXCEPT !.pages = {}] /\ life' = "gone" /\ space' = space
    BY <1>8 DEF ReleasePages
  <2>2. /\ area'.headers = area.headers /\ area'.free = area.free
        /\ area'.key = area.key /\ area'.asked = area.asked
        /\ area'.async = area.async /\ area'.bug = area.bug /\ area' \in Area
    BY <1>1, <2>1 DEF Area
  <2> QED BY <2>1, <2>2, SameBuffers
<1>9. CASE UNCHANGED vars
  BY <1>9 DEF vars, Inv, TypeOK, Shape, Exact, Keyed, Tight, Spaced, SpaceLeft
<1> QED BY <1>2, <1>3, <1>4, <1>5, <1>6, <1>7, <1>8, <1>9 DEF Next

LEMMA AlwaysInv == Spec => []Inv
BY InitInv, NextInv, PTL DEF Spec

\* The pages that addresses in a row lie on are in a row.
LEMMA PagesInARow ==
  ASSUME NEW lo \in Nat, NEW hi \in Nat, lo <= hi
  PROVE  {PageOf(x) : x \in lo..hi} = PageOf(lo)..PageOf(hi)
<1>1. PageOf(lo) \in Nat /\ PageOf(hi) \in Nat
  BY PageFacts
<1>2. ASSUME NEW x \in lo..hi PROVE PageOf(x) \in PageOf(lo)..PageOf(hi)
  <2>1. x \in Nat /\ lo <= x /\ x <= hi
    OBVIOUS
  <2>2. PageOf(x) \in Nat /\ PageOf(lo) <= PageOf(x) /\ PageOf(x) <= PageOf(hi)
    BY <2>1, PageFacts, PagesGrow
  <2> QED BY <2>2, <1>1
<1>3. ASSUME NEW q \in PageOf(lo)..PageOf(hi)
      PROVE  \E x \in lo..hi : PageOf(x) = q
  <2>1. q \in Nat /\ PageOf(lo) <= q /\ q <= PageOf(hi)
    BY <1>1
  <2>2. CASE q = PageOf(lo)
    BY <2>2
  <2>3. CASE q # PageOf(lo)
    <3> DEFINE p == PageSize
               x == p * q
               l == PageOf(lo)
               h == PageOf(hi)
    <3>1. p \in Nat \ {0} /\ l \in Nat /\ h \in Nat /\ l < q /\ q <= h
          /\ lo < p * l + p /\ p * h <= hi
      <4>1. p \in Nat \ {0} /\ l \in Nat /\ h \in Nat /\ l < q /\ q <= h
        BY <2>1, <2>3, <1>1, Numbers
      <4>2. lo < PageSize * PageOf(lo) + PageSize
        BY PageFacts
      <4>3. PageSize * PageOf(hi) <= hi
        BY PageFacts
      <4> QED BY <4>1, <4>2, <4>3
    <3> HIDE DEF p, l, h
    <3>2. p * (l + 1) <= p * q /\ p * (l + 1) = p * l + p /\ p * q <= p * h
          /\ p * l \in Nat /\ p * q \in Nat /\ p * h \in Nat
      <4>1. l + 1 <= q
        BY <3>1, <2>1
      <4> QED BY <4>1, <3>1, <2>1
    <3>3. p * q \in lo..hi
      BY <3>1, <3>2
    <3>4. (p * q) \div p = q
      BY <3>1, <2>1
    <3>5. PageOf(x) = q
      BY <3>4 DEF PageOf, p
    <3> QED BY <3>3, <3>5
  <2> QED BY <2>2, <2>3
<1> QED BY <1>2, <1>3

\* The pages of a buffer's header and of its data.
LEMMA BufferPages ==
  ASSUME NEW s, Shape(s), NEW a \in s.headers
  PROVE  Touches(a, Header) \cup Touches(Data(a), Total(s.asked[a]))
           = PageOf(a)..PageOf(Extent(s, a) - 1)
<1> DEFINE d == Data(a)
           n == Total(s.asked[a])
           e == Extent(s, a) - 1
<1>1. /\ a \in Nat /\ d \in Nat /\ n \in Nat /\ d = a + Header /\ Header \in Nat \ {0}
      /\ Extent(s, a) = d + n
  BY Extents, Numbers DEF Data
<1>2. e = d + n - 1 /\ e \in Nat /\ a <= e
  BY <1>1
<1>3. Touches(a, Header) = {PageOf(x) : x \in a..d - 1}
      /\ Touches(d, n) = {PageOf(x) : x \in d..d + n - 1}
  BY <1>1 DEF Touches
<1> HIDE DEF d, n, e
<1>4. (a..d - 1) \cup (d..d + n - 1) = a..e
  BY <1>1, <1>2
<1>5. Touches(a, Header) \cup Touches(d, n) = {PageOf(x) : x \in a..e}
  <2> DEFINE U == a..d - 1
             V == d..d + n - 1
             W == a..e
  <2>1. Touches(a, Header) = {PageOf(x) : x \in U} /\ Touches(d, n) = {PageOf(x) : x \in V}
    BY <1>3
  <2>2. U \cup V = W
    BY <1>4
  <2> HIDE DEF U, V, W
  <2>3. Touches(a, Header) \cup Touches(d, n) = {PageOf(x) : x \in W}
    BY <2>1, <2>2
  <2> QED BY <2>3 DEF W
<1>6. {PageOf(x) : x \in a..e} = PageOf(a)..PageOf(e)
  BY <1>1, <1>2, PagesInARow
<1> QED BY <1>5, <1>6 DEF d, n, e

-----------------------------------------------------------------------------
(* The theorems. *)

\* The state of the allocator has its type in every area, for every sizes of
\* pages, headers and words and whatever is asked for (binder_proc).
THEOREM TypeCorrect == Spec => []TypeOK
<1>1. Inv => TypeOK
  BY DEF Inv
<1> QED BY <1>1, AlwaysInv, PTL

\* binder_alloc_buf never gives less than the request needs, no header lies in
\* another buffer, and binder_free_buf merges all there is to merge.
THEOREM BuffersAlwaysFit == Spec => []BuffersFit
<1>1. Inv => BuffersFit
  <2> SUFFICES ASSUME Inv PROVE BuffersFit
    OBVIOUS
  <2>1. Shape(area) /\ area \in Area /\ 0 \in area.headers
        /\ area.free \subseteq area.headers /\ area.headers \subseteq Addresses
        /\ Spaced(area)
    BY DEF Inv, Shape, Area
  <2>2. \A a \in area.headers : binder_buffer_size(area, a) >= 0
    BY <2>1, SizeIsKey, Numbers
  <2>3. \A a \in Allocated(area) :
          Needs(area.asked[a]) <= binder_buffer_size(area, a)
    <3> TAKE a \in Allocated(area)
    <3>1. a \in area.headers
      BY DEF Allocated
    <3>2. Total(area.asked[a]) = Needs(area.asked[a])
      BY <3>1, <2>1, Extents
    <3>3. Total(area.asked[a]) <= binder_buffer_size(area, a)
      BY <3>1, <2>1, SizeIsKey
    <3> QED BY <3>2, <3>3
  <2>4. \A a \in area.free : Above(area, a) # {} => Min(Above(area, a)) \notin area.free
    <3> TAKE a \in area.free
    <3> HAVE Above(area, a) # {}
    <3> DEFINE n == NextHeader(area, a)
    <3>1. a \in Addresses
      BY <2>1
    <3>2. Min(Above(area, a)) = n
      BY <3>1, <2>1, AboveIs
    <3>3. a < n /\ n \in Nat /\ \A c \in area.headers : a < c => n <= c
      BY <3>1, <2>1, NextIs DEF Ends
    <3> HIDE DEF n
    <3>4. ASSUME n \in area.free PROVE FALSE
      <4>1. PICK c \in area.headers : a < c /\ c < n
        BY <3>3, <3>4, <2>1 DEF Spaced
      <4>2. n <= c /\ c \in Nat
        BY <4>1, <3>3, <2>1, AddressFacts
      <4> QED BY <4>1, <4>2, <3>3
    <3> QED BY <3>2, <3>4
  <2> QED BY <2>1, <2>2, <2>3, <2>4 DEF BuffersFit
<1> QED BY <1>1, AlwaysInv, PTL

\* A page is there exactly as long as a byte of a header or of an allocated
\* buffer lies on it: binder_update_page_range and binder_delete_free_buffer
\* neither leave a page behind nor take one that is in use.
THEOREM PagesAlwaysExact == Spec => []PagesExact
<1>1. Inv => PagesExact
  <2> SUFFICES ASSUME Inv, life # "gone"
               PROVE  area.pages = (UNION {Touches(a, Header) : a \in area.headers})
                        \cup (UNION {Touches(Data(a), Total(area.asked[a])) :
                                       a \in Allocated(area)})
    BY DEF PagesExact
  <2>1. Shape(area) /\ Exact(area) /\ area \in Area /\ area.pages \subseteq Pages
    BY DEF Inv, Shape, Area
  <2> DEFINE S(a) == Touches(a, Header)
             D(a) == Touches(Data(a), Total(area.asked[a]))
             P == (UNION {S(a) : a \in area.headers})
                    \cup (UNION {D(a) : a \in Allocated(area)})
  <2>2. ASSUME NEW a \in area.headers
        PROVE  S(a) \cup D(a) = PageOf(a)..PageOf(Extent(area, a) - 1)
    BY <2>1, BufferPages DEF Inv
  <2>3. ASSUME NEW a \in area.headers, a \notin Allocated(area) PROVE D(a) = {}
    <3>1. a \in Addresses /\ area.asked[a] = Nothing
      BY <2>1, <2>3 DEF Shape, Area
    <3>2. Total(area.asked[a]) = 0 /\ Data(a) \in Nat
      BY <3>1, NothingIsNothing, AddressFacts
    <3> QED BY <3>2 DEF Touches
  <2>4. Allocated(area) \subseteq area.headers
    BY DEF Allocated
  <2> HIDE DEF S, D
  <2>5. P = UNION {S(a) \cup D(a) : a \in area.headers}
    BY <2>3, <2>4
  <2>6. \A a \in area.headers : PageOf(a)..PageOf(Extent(area, a) - 1) \subseteq Pages
    <3> TAKE a \in area.headers
    <3>1. PageOf(a) \in Nat /\ PageOf(Extent(area, a) - 1) \in Nat
          /\ PageOf(Extent(area, a) - 1) < PageOf(Size)
      BY <2>1, PagesOf
    <3> QED BY <3>1, SizeInPages
  <2> HIDE DEF P
  <2>7. ASSUME NEW q \in Pages PROVE q \in area.pages <=> q \in P
    <3>1. q \in area.pages <=>
            \E a \in area.headers : PageOf(a) <= q /\ q <= PageOf(Extent(area, a) - 1)
      BY <2>1 DEF Exact, Touched
    <3>2. \A a \in area.headers :
            q \in PageOf(a)..PageOf(Extent(area, a) - 1) <=>
              PageOf(a) <= q /\ q <= PageOf(Extent(area, a) - 1)
      <4> TAKE a \in area.headers
      <4>1. PageOf(a) \in Nat /\ PageOf(Extent(area, a) - 1) \in Nat /\ q \in Nat
        BY <2>1, PagesOf, SizeInPages
      <4> QED BY <4>1
    <3>3. q \in P <=> \E a \in area.headers : q \in S(a) \cup D(a)
      BY <2>5
    <3> QED BY <3>1, <3>2, <3>3, <2>2
  <2>8. P \subseteq Pages
    BY <2>2, <2>5, <2>6
  <2>9. area.pages = P
    BY <2>1, <2>7, <2>8
  <2> QED BY <2>9 DEF P, S, D
<1> QED BY <1>1, AlwaysInv, PTL

\* The space for oneway calls is half of the area less the oneway buffers, and
\* never negative: free_async_space is neither leaked nor given back twice, and
\* no oneway call gets a buffer beyond it.
THEOREM AsyncSpaceAlwaysExact == Spec => []AsyncSpaceExact
<1>1. Inv => AsyncSpaceExact
  <2> SUFFICES ASSUME Inv PROVE AsyncSpaceExact
    OBVIOUS
  <2>1. \A a \in area.async :
          a..Extent(area, a) - 1 = a..Data(a) + Total(area.asked[a]) - 1
    <3> TAKE a \in area.async
    <3>1. Shape(area) /\ a \in area.headers
      BY DEF Inv, Shape, Allocated
    <3>2. Extent(area, a) - 1 = Data(a) + Total(area.asked[a]) - 1
      BY <3>1, Extents, Numbers DEF Data
    <3> QED BY <3>2
  <2>2. AsyncOf(area) = AsyncBytes
    <3> DEFINE E(a) == a..Extent(area, a) - 1
               B(a) == a..Data(a) + Total(area.asked[a]) - 1
    <3>1. AsyncOf(area) = UNION {E(a) : a \in area.async}
      BY DEF AsyncOf
    <3>2. AsyncBytes = UNION {B(a) : a \in area.async}
      BY DEF AsyncBytes
    <3>3. \A a \in area.async : E(a) = B(a)
      BY <2>1
    <3> HIDE DEF E, B
    <3> QED BY <3>1, <3>2, <3>3
  <2>3. space >= 0
    BY Numbers DEF Inv, TypeOK
  <2> QED BY <2>2, <2>3 DEF Inv, Shape, SpaceLeft, AsyncSpaceExact
<1> QED BY <1>1, AlwaysInv, PTL

\* The tree of free buffers stays ordered by the sizes its walks compute.
THEOREM TreeAlwaysOrdered == Spec => []TreeIsOrdered
<1>1. Inv => TreeIsOrdered
  BY DEF Inv, Keyed, TreeIsOrdered
<1> QED BY <1>1, AlwaysInv, PTL

\* No BUG_ON of the allocator fires.
THEOREM NeverBugOn == Spec => []NoBugOn
<1>1. Inv => NoBugOn
  BY DEF Inv, NoBugOn
<1> QED BY <1>1, AlwaysInv, PTL

=============================================================================
