-------------------------- MODULE BinderDeathProofs --------------------------
(***************************************************************************)
(* What holds of death notifications for any threads, any number of calls  *)
(* of linkToDeath and whoever exits.                                       *)
(*                                                                         *)
(* The inductive invariant has four parts: where the driver's records are  *)
(* (DriverInv), what the threads and the proxy are up to (ThreadInv), how  *)
(* many references and acknowledgements are out (CountInv), and what the   *)
(* recipients know (FateInv).                                              *)
(***************************************************************************)
EXTENDS BinderDeath, FunctionTheorems, FiniteSetTheorems, SequenceTheorems, TLAPS

-----------------------------------------------------------------------------
(* The driver's records: each is at one place, and what its type says.     *)

Distinct(s) == \A i, j \in DOMAIN s : s[i] = s[j] => i = j
Apart(s, t) == Elements(s) \cap Elements(t) = {}

ListsOK(dr) ==
  /\ Distinct(dr.proc_todo) /\ Distinct(dr.delivered)
  /\ Apart(dr.proc_todo, dr.delivered)
  /\ \A th \in Thread : /\ Distinct(dr.todo[th])
                        /\ Apart(dr.todo[th], dr.proc_todo)
                        /\ Apart(dr.todo[th], dr.delivered)
  /\ \A th, u \in Thread : th # u => Apart(dr.todo[th], dr.todo[u])

RecordOK(dr, d) ==
  /\ OnList(dr, d) => d <= dr.made /\ dr.frees[d] = 0
  /\ OnList(dr, d) /\ d # dr.ref => dr.type[d] \in {"dead_and_clear", "clear"}
  /\ d \in Elements(dr.delivered) => dr.type[d] # "clear"
  /\ dr.frees[d] <= 1
  /\ dr.frees[d] = 1 => d <= dr.made /\ d # dr.ref
  /\ dr.open /\ d <= dr.made /\ dr.frees[d] = 0 => d = dr.ref \/ OnList(dr, d)
  /\ dr.type[d] \in {"dead", "dead_and_clear"} => ~dr.node
  /\ d > dr.made => dr.type[d] = "none"

RecordsOK(dr) == \A d \in Deaths : RecordOK(dr, d)

RefOK(dr) ==
  /\ dr.ref <= dr.made
  /\ dr.ref # NoDeath => /\ dr.type[dr.ref] \in {"none", "dead"}
                         /\ dr.node => ~OnList(dr, dr.ref)
                         /\ OnList(dr, dr.ref) => dr.type[dr.ref] = "dead"
  /\ ~dr.open => \A d \in 1..dr.made : dr.frees[d] = 1

DriverInv(dr) == dr \in Drivers /\ ListsOK(dr) /\ RecordsOK(dr) /\ RefOK(dr)

LiveIn(dr) == {d \in 1..dr.made : dr.frees[d] = 0}

-----------------------------------------------------------------------------
(* The proxy and the threads. *)

Holding == {"linking", "unlinking", "clearing"}

ThreadOK(th) ==
  /\ lock = th <=> thread[th].at \in Holding
  /\ thread[th].at = "linking" => /\ driver.open => driver.ref # NoDeath
                                  /\ proxy.vector /\ proxy.held
                                  /\ thread[th].link = links /\ links > 0
  /\ thread[th].at = "unlinking" => /\ driver.ref = NoDeath
                                    /\ proxy.vector /\ proxy.held /\ proxy.obituaries = {}
  /\ thread[th].at = "clearing" => driver.ref = NoDeath /\ proxy.vector
  /\ thread[th].in # <<>> => thread[th].at \in {"idle", "reporting"}
  /\ thread[th].left # {} => proxy.sent /\ thread[th].at \in {"reporting", "done"}
  /\ thread[th].at = "reporting" => thread[th].left # {}
  /\ \A i \in DOMAIN thread[th].in : thread[th].in[i] = "dead" => i = Len(thread[th].in)

ThreadInv ==
  /\ thread \in [Thread -> ThreadStates]
  /\ lock \in Thread \cup {NoThread}
  /\ links \in 0..MaxLinks /\ driver.made <= links
  /\ \A th \in Thread : ThreadOK(th)

ProxyInv ==
  /\ proxy \in Proxies
  /\ proxy.vector => ~proxy.sent
  /\ proxy.obituaries # {} => proxy.vector
  /\ ~proxy.exists => ~proxy.held /\ proxy.refs = 0
  /\ proxy.refs <= driver.made
  /\ DriverAgrees

\* What the threads have read and not yet acted upon.
Positions(s, c) == {i \in DOMAIN s : s[i] = c}
UnackOf(t) ==
  Positions(t.in, "dead")
    \cup (IF t.at \in {"unsent", "clearing", "reporting", "done"} THEN {0} ELSE {})
    \cup (IF t.at = "done" /\ t.left # {} THEN {-1} ELSE {})

Pairs(F)     == UNION {{u} \X F[u] : u \in Thread}
ClearsOf(ts) == Pairs([u \in Thread |-> Positions(ts[u].in, "clear")])
AcksOf(ts)   == Pairs([u \in Thread |-> UnackOf(ts[u])])

Quiet == Exiting = {} /\ ~MayExit

CountInv ==
  /\ IsFiniteSet(ClearsOf(thread)) /\ IsFiniteSet(AcksOf(thread))
  /\ proxy.refs >= Cardinality(LiveIn(driver)) + Cardinality(ClearsOf(thread))
  /\ Quiet => proxy.refs = Cardinality(LiveIn(driver)) + Cardinality(ClearsOf(thread)) /\ driver.open
  /\ driver.open => Len(driver.delivered) = Cardinality(AcksOf(thread))

Fates == {"new", "linked", "refused", "unlinked", "told", "told_again"}

FateOK(th) ==
  /\ thread[th].at = "linking" => fate[thread[th].link] = "new"
  /\ thread[th].at \in {"unsent", "clearing"} => ~driver.node
  /\ \A i \in DOMAIN thread[th].in : thread[th].in[i] = "dead" => ~driver.node
  /\ \A l \in thread[th].left :
       /\ fate[l] = "linked" /\ l \notin proxy.obituaries
       /\ \A u \in Thread : u # th => l \notin thread[u].left

FateInv ==
  /\ fate \in [Links -> Fates]
  /\ \A l \in Links : l > links => fate[l] = "new"
  /\ proxy.sent => ~driver.node
  /\ \A l \in proxy.obituaries : fate[l] = "linked"
  /\ \A th \in Thread : FateOK(th)

IInv == DriverInv(driver) /\ ThreadInv /\ ProxyInv /\ CountInv /\ FateInv

-----------------------------------------------------------------------------
(* Lists of records. *)

LEMMA EmptyList == Elements(<<>>) = {} /\ Distinct(<<>>)
BY DEF Elements, Distinct

LEMMA AppendList ==
  ASSUME NEW S, NEW s \in Seq(S), NEW d \in S
  PROVE  /\ Append(s, d) \in Seq(S)
         /\ Elements(Append(s, d)) = Elements(s) \cup {d}
         /\ Distinct(s) /\ d \notin Elements(s) => Distinct(Append(s, d))
<1>1. /\ Append(s, d) \in Seq(S) /\ Len(Append(s, d)) = Len(s) + 1
      /\ \A i \in 1..Len(s) : Append(s, d)[i] = s[i]
      /\ Append(s, d)[Len(s) + 1] = d
  BY AppendProperties
<1>2. DOMAIN s = 1..Len(s) /\ DOMAIN Append(s, d) = 1..Len(s) + 1 /\ Len(s) \in Nat
  BY <1>1, LenProperties
<1>3. Elements(Append(s, d)) = Elements(s) \cup {d}
  BY <1>1, <1>2 DEF Elements
<1>4. Distinct(s) /\ d \notin Elements(s) => Distinct(Append(s, d))
  BY <1>1, <1>2 DEF Elements, Distinct
<1> QED BY <1>1, <1>3, <1>4

LEMMA TailList ==
  ASSUME NEW S, NEW s \in Seq(S), s # <<>>
  PROVE  /\ Tail(s) \in Seq(S) /\ Head(s) \in S
         /\ Elements(s) = Elements(Tail(s)) \cup {Head(s)}
         /\ Distinct(s) => Distinct(Tail(s)) /\ Head(s) \notin Elements(Tail(s))
<1>1. /\ Head(s) \in S /\ Tail(s) \in Seq(S) /\ Len(Tail(s)) = Len(s) - 1
      /\ \A i \in 1..Len(Tail(s)) : Tail(s)[i] = s[i + 1]
  BY HeadTailProperties
<1>2. /\ DOMAIN s = 1..Len(s) /\ DOMAIN Tail(s) = 1..Len(s) - 1 /\ Len(s) \in Nat
      /\ Len(s) # 0 /\ Head(s) = s[1]
  BY <1>1, LenProperties, EmptySeq
<1>3. Elements(s) = Elements(Tail(s)) \cup {Head(s)}
  <2>1. ASSUME NEW x \in Elements(s) PROVE x \in Elements(Tail(s)) \cup {Head(s)}
    <3>1. PICK i \in 1..Len(s) : x = s[i]
      BY <1>2 DEF Elements
    <3>2. CASE i = 1
      BY <3>1, <3>2, <1>2
    <3>3. CASE i # 1
      <4>1. i - 1 \in 1..Len(s) - 1 /\ Tail(s)[i - 1] = s[i]
        BY <3>3, <1>1, <1>2
      <4> QED BY <4>1, <3>1, <1>2 DEF Elements
    <3> QED BY <3>2, <3>3
  <2>2. ASSUME NEW x \in Elements(Tail(s)) PROVE x \in Elements(s)
    BY <1>1, <1>2 DEF Elements
  <2>3. Head(s) \in Elements(s)
    BY <1>2 DEF Elements
  <2> QED BY <2>1, <2>2, <2>3
<1>4. ASSUME Distinct(s) PROVE Distinct(Tail(s)) /\ Head(s) \notin Elements(Tail(s))
  BY <1>1, <1>2, <1>4 DEF Elements, Distinct
<1> QED BY <1>1, <1>3, <1>4

\* What a read takes from the front of a list, and what it leaves.
LEMMA SplitList ==
  ASSUME NEW S, NEW s \in Seq(S), NEW n \in 1..Len(s)
  PROVE  /\ Rest(s, n) \in Seq(S) /\ s[n] \in Elements(s) /\ s[n] \in S
         /\ Elements(SubSeq(s, 1, n)) = {s[i] : i \in 1..n}
         /\ Elements(s) = {s[i] : i \in 1..n} \cup Elements(Rest(s, n))
         /\ Distinct(s) => /\ Distinct(Rest(s, n))
                           /\ {s[i] : i \in 1..n} \cap Elements(Rest(s, n)) = {}
<1>1. DOMAIN s = 1..Len(s) /\ Len(s) \in Nat /\ \A i \in 1..Len(s) : s[i] \in S
  BY LenProperties, ElementOfSeq
<1>2. /\ Rest(s, n) \in Seq(S) /\ DOMAIN Rest(s, n) = 1..Len(s) - n
      /\ \A i \in 1..Len(s) - n : Rest(s, n)[i] = s[n + i]
  <2>1. /\ SubSeq(s, n + 1, Len(s)) \in Seq(S)
        /\ Len(SubSeq(s, n + 1, Len(s))) = Len(s) - n
        /\ \A i \in 1..Len(s) - n : SubSeq(s, n + 1, Len(s))[i] = s[n + i]
    <3>1. n + 1 \in Int /\ Len(s) \in Int /\ \A i \in n + 1..Len(s) : s[i] \in S
      BY <1>1
    <3> DEFINE t == SubSeq(s, n + 1, Len(s))
    <3>2. /\ t \in Seq(S)
          /\ Len(t) = IF n + 1 <= Len(s) THEN Len(s) - (n + 1) + 1 ELSE 0
          /\ \A i \in 1..Len(s) - (n + 1) + 1 : t[i] = s[n + 1 + i - 1]
      BY <3>1, SubSeqProperties
    <3> HIDE DEF t
    <3>3. Len(t) = Len(s) - n
      <4>1. Len(t) = IF n + 1 <= Len(s) THEN Len(s) - (n + 1) + 1 ELSE 0
        BY <3>2
      <4>2. Len(s) \in Nat /\ n \in Nat /\ n <= Len(s)
        BY <1>1
      <4> QED BY <4>1, <4>2
    <3>4. ASSUME NEW i \in 1..Len(s) - n PROVE t[i] = s[n + i]
      <4>1. i \in 1..Len(s) - (n + 1) + 1 /\ n + 1 + i - 1 = n + i
        BY <1>1
      <4> QED BY <3>2, <4>1
    <3> QED BY <3>2, <3>3, <3>4 DEF t
  <2> QED BY <2>1, LenProperties DEF Rest
<1>3. /\ DOMAIN SubSeq(s, 1, n) = 1..n
      /\ \A i \in 1..n : SubSeq(s, 1, n)[i] = s[i]
  BY <1>1
<1>4. Elements(SubSeq(s, 1, n)) = {s[i] : i \in 1..n}
  BY <1>3 DEF Elements
<1>5. Elements(s) = {s[i] : i \in 1..n} \cup Elements(Rest(s, n))
  <2>1. ASSUME NEW x \in Elements(s) PROVE x \in {s[i] : i \in 1..n} \cup Elements(Rest(s, n))
    <3>1. PICK i \in 1..Len(s) : x = s[i]
      BY <1>1 DEF Elements
    <3>2. CASE i > n
      <4>1. i - n \in 1..Len(s) - n /\ Rest(s, n)[i - n] = s[i]
        BY <3>2, <1>1, <1>2
      <4> QED BY <4>1, <3>1, <1>2 DEF Elements
    <3>3. CASE i \in 1..n
      BY <3>1, <3>3
    <3> QED BY <3>2, <3>3, <1>1
  <2>2. ASSUME NEW x \in Elements(Rest(s, n)) PROVE x \in Elements(s)
    BY <1>1, <1>2 DEF Elements
  <2>3. {s[i] : i \in 1..n} \subseteq Elements(s)
    BY <1>1 DEF Elements
  <2> QED BY <2>1, <2>2, <2>3
<1>6. ASSUME Distinct(s)
      PROVE  Distinct(Rest(s, n)) /\ {s[i] : i \in 1..n} \cap Elements(Rest(s, n)) = {}
  <2>1. Distinct(Rest(s, n))
    <3> SUFFICES ASSUME NEW i \in 1..Len(s) - n, NEW j \in 1..Len(s) - n,
                        Rest(s, n)[i] = Rest(s, n)[j]
                 PROVE  i = j
      BY <1>2 DEF Distinct
    <3>1. n + i \in 1..Len(s) /\ n + j \in 1..Len(s) /\ s[n + i] = s[n + j]
      BY <1>1, <1>2
    <3>2. n + i = n + j
      BY <3>1, <1>1, <1>6 DEF Distinct
    <3> QED BY <3>2, <1>1
  <2>2. ASSUME NEW i \in 1..n, s[i] \in Elements(Rest(s, n)) PROVE FALSE
    <3>1. PICK j \in 1..Len(s) - n : s[i] = Rest(s, n)[j]
      BY <2>2, <1>2 DEF Elements
    <3>2. i \in 1..Len(s) /\ n + j \in 1..Len(s) /\ s[i] = s[n + j] /\ i # n + j
      BY <3>1, <1>1, <1>2
    <3> QED BY <3>2, <1>1, <1>6 DEF Distinct
  <2> QED BY <2>1, <2>2
<1> QED BY <1>1, <1>2, <1>4, <1>5, <1>6 DEF Elements

LEMMA PushList ==
  ASSUME NEW S, NEW s \in Seq(S), NEW d \in S
  PROVE  /\ <<d>> \o s \in Seq(S) /\ Len(<<d>> \o s) = Len(s) + 1
         /\ Elements(<<d>> \o s) = Elements(s) \cup {d}
         /\ Distinct(s) /\ d \notin Elements(s) => Distinct(<<d>> \o s)
<1>1. /\ <<d>> \o s \in Seq(S) /\ Len(<<d>> \o s) = Len(s) + 1
      /\ (<<d>> \o s)[1] = d
      /\ \A i \in 2..Len(s) + 1 : (<<d>> \o s)[i] = s[i - 1]
  <2>1. <<d>> \in Seq(S) /\ Len(<<d>>) = 1 /\ <<d>>[1] = d
    OBVIOUS
  <2> QED BY <2>1, ConcatProperties, LenProperties
<1>2. DOMAIN s = 1..Len(s) /\ DOMAIN (<<d>> \o s) = 1..Len(s) + 1 /\ Len(s) \in Nat
  BY <1>1, LenProperties
<1>3. Elements(<<d>> \o s) = Elements(s) \cup {d}
  <2>1. ASSUME NEW x \in Elements(<<d>> \o s) PROVE x \in Elements(s) \cup {d}
    <3>1. PICK i \in 1..Len(s) + 1 : x = (<<d>> \o s)[i]
      BY <1>2 DEF Elements
    <3>2. CASE i # 1
      <4>1. i - 1 \in 1..Len(s) /\ x = s[i - 1]
        BY <3>1, <3>2, <1>1, <1>2
      <4> QED BY <4>1, <1>2 DEF Elements
    <3> QED BY <3>1, <3>2, <1>1
  <2>2. ASSUME NEW x \in Elements(s) PROVE x \in Elements(<<d>> \o s)
    <3>1. PICK i \in 1..Len(s) : x = s[i]
      BY <1>2 DEF Elements
    <3>2. i + 1 \in 2..Len(s) + 1 /\ (i + 1) - 1 = i
      BY <1>2
    <3> DEFINE t == <<d>> \o s
    <3>3. t[i + 1] = x /\ i + 1 \in DOMAIN t
      BY <3>1, <3>2, <1>1, <1>2
    <3> HIDE DEF t
    <3>4. x \in Elements(t)
      BY <3>3 DEF Elements
    <3> QED BY <3>4 DEF t
  <2>3. d \in Elements(<<d>> \o s)
    BY <1>1, <1>2 DEF Elements
  <2> QED BY <2>1, <2>2, <2>3
<1>4. ASSUME Distinct(s), d \notin Elements(s) PROVE Distinct(<<d>> \o s)
  <2> SUFFICES ASSUME NEW i \in 1..Len(s) + 1, NEW j \in 1..Len(s) + 1,
                      (<<d>> \o s)[i] = (<<d>> \o s)[j]
               PROVE  i = j
    BY <1>2 DEF Distinct
  <2>1. \A k \in 2..Len(s) + 1 : k - 1 \in DOMAIN s /\ (<<d>> \o s)[k] = s[k - 1] /\ s[k - 1] # d
    BY <1>1, <1>2, <1>4 DEF Elements
  <2> QED BY <2>1, <1>1, <1>2, <1>4 DEF Distinct
<1> QED BY <1>1, <1>3, <1>4

-----------------------------------------------------------------------------
(* The driver's operators. *)

LEMMA Counters ==
  /\ \A d \in Deaths : d \in Nat /\ d > 0 /\ d <= MaxLinks
  /\ NoDeath \notin Deaths /\ MaxLinks \in Nat
BY DeathAssumption DEF Deaths, NoDeath

LEMMA DriverFields ==
  ASSUME NEW dr \in Drivers
  PROVE  /\ dr.node \in BOOLEAN /\ dr.open \in BOOLEAN /\ dr.made \in 0..MaxLinks
         /\ dr.ref \in Deaths \cup {NoDeath} /\ dr.type \in [Deaths -> Types]
         /\ dr.frees \in [Deaths -> Nat] /\ dr.proc_todo \in Seq(Deaths)
         /\ dr.todo \in [Thread -> Seq(Deaths)] /\ dr.delivered \in Seq(Deaths)
BY DEF Drivers

LEMMA QueueDeathEffect ==
  ASSUME NEW dr \in Drivers, ListsOK(dr), NEW th \in Thread, NEW d \in Deaths, ~OnList(dr, d)
  PROVE  LET q == QueueDeath(dr, th, d)
         IN  /\ q \in Drivers /\ ListsOK(q)
             /\ q.node = dr.node /\ q.open = dr.open /\ q.made = dr.made /\ q.ref = dr.ref
             /\ q.type = dr.type /\ q.frees = dr.frees /\ q.delivered = dr.delivered
             /\ \A x \in Deaths : OnList(q, x) <=> OnList(dr, x) \/ x = d
<1>0. /\ dr.proc_todo \in Seq(Deaths) /\ dr.todo \in [Thread -> Seq(Deaths)]
      /\ dr.todo[th] \in Seq(Deaths)
  BY DriverFields
<1> DEFINE q == QueueDeath(dr, th, d)
<1>1. CASE th \in Loopers
  <2> DEFINE l == Append(dr.todo[th], d)
  <2>1. /\ l \in Seq(Deaths) /\ Elements(l) = Elements(dr.todo[th]) \cup {d}
        /\ Distinct(l)
    BY <1>0, AppendList DEF ListsOK, OnList
  <2> DEFINE t == [dr.todo EXCEPT ![th] = l]
  <2> HIDE DEF l
  <2>2. q = [dr EXCEPT !.todo = t]
    BY <1>1 DEF QueueDeath, l
  <2>3. /\ t \in [Thread -> Seq(Deaths)] /\ t[th] = l
        /\ \A u \in Thread : u # th => t[u] = dr.todo[u]
    BY <2>1, <1>0
  <2> HIDE DEF q, t
  <2>4. /\ q \in Drivers /\ q.todo = t /\ q.proc_todo = dr.proc_todo
        /\ q.node = dr.node /\ q.open = dr.open /\ q.made = dr.made /\ q.ref = dr.ref
        /\ q.type = dr.type /\ q.frees = dr.frees /\ q.delivered = dr.delivered
    BY <2>2, <2>3 DEF Drivers
  <2>5. q.todo[th] = l /\ \A u \in Thread : u # th => q.todo[u] = dr.todo[u]
    BY <2>3, <2>4
  <2> HIDE DEF q
  <2>6. \A x \in Deaths : OnList(q, x) <=> OnList(dr, x) \/ x = d
    BY <2>1, <2>4, <2>5 DEF OnList
  <2>7. ListsOK(q)
    <3>1. ASSUME NEW u \in Thread
          PROVE  /\ Distinct(q.todo[u]) /\ Apart(q.todo[u], q.proc_todo)
                 /\ Apart(q.todo[u], q.delivered)
      BY <2>1, <2>4, <2>5 DEF ListsOK, OnList, Apart
    <3>2. ASSUME NEW u \in Thread, NEW v \in Thread, u # v
          PROVE  Apart(q.todo[u], q.todo[v])
      <4>1. /\ Apart(dr.todo[u], dr.todo[v])
            /\ d \notin Elements(dr.todo[u]) /\ d \notin Elements(dr.todo[v])
        BY <3>2 DEF ListsOK, OnList
      <4>2. CASE u = th
        BY <3>2, <4>1, <4>2, <2>1, <2>5 DEF Apart
      <4>3. CASE v = th
        BY <3>2, <4>1, <4>3, <2>1, <2>5 DEF Apart
      <4> QED BY <4>1, <4>2, <4>3, <2>5
    <3> QED BY <3>1, <3>2, <2>4 DEF ListsOK
  <2> QED BY <2>4, <2>6, <2>7 DEF q
<1>2. CASE th \notin Loopers
  <2> DEFINE l == Append(dr.proc_todo, d)
  <2>1. /\ l \in Seq(Deaths) /\ Elements(l) = Elements(dr.proc_todo) \cup {d}
        /\ Distinct(l)
    BY <1>0, AppendList DEF ListsOK, OnList
  <2> HIDE DEF l
  <2>2. q = [dr EXCEPT !.proc_todo = l]
    BY <1>2 DEF QueueDeath, l
  <2>3. q \in Drivers /\ q.todo = dr.todo /\ q.proc_todo = l
        /\ q.node = dr.node /\ q.open = dr.open /\ q.made = dr.made /\ q.ref = dr.ref
        /\ q.type = dr.type /\ q.frees = dr.frees /\ q.delivered = dr.delivered
    BY <2>1, <2>2 DEF Drivers
  <2> HIDE DEF q
  <2>4. \A x \in Deaths : OnList(q, x) <=> OnList(dr, x) \/ x = d
    BY <2>1, <2>3 DEF OnList
  <2>5. ListsOK(q)
    BY <2>1, <2>3 DEF ListsOK, OnList, Apart
  <2> QED BY <2>3, <2>4, <2>5 DEF q
<1> QED BY <1>1, <1>2

\* A change of the other fields leaves the lists as they were.
LEMMA SameLists ==
  ASSUME NEW dr, NEW q, q.proc_todo = dr.proc_todo, q.todo = dr.todo, q.delivered = dr.delivered
  PROVE  /\ ListsOK(dr) => ListsOK(q)
         /\ \A x \in Deaths : OnList(q, x) <=> OnList(dr, x)
BY DEF ListsOK, OnList

LEMMA RequestDeathEffect ==
  ASSUME NEW dr, DriverInv(dr), dr.open, NEW th \in Thread, dr.made < MaxLinks
  PROVE  LET q == RequestDeath(dr, th)
         IN  /\ DriverInv(q) /\ q.ref # NoDeath /\ q.open /\ q.delivered = dr.delivered
             /\ q.node = dr.node
             /\ dr.ref # NoDeath => q = dr
             /\ dr.ref = NoDeath => /\ q.made = dr.made + 1
                                    /\ LiveIn(q) = LiveIn(dr) \cup {q.made}
<1> DEFINE d == dr.made + 1
           new == [dr EXCEPT !.made = d, !.ref = d]
           dead == [new EXCEPT !.type = [dr.type EXCEPT ![d] = "dead"]]
           q == RequestDeath(dr, th)
<1>1. CASE dr.ref # NoDeath
  BY <1>1 DEF RequestDeath
<1>2. CASE dr.ref = NoDeath
  <2>1. /\ dr \in Drivers /\ d \in Deaths /\ d \in 0..MaxLinks /\ d \in Nat
        /\ dr.made \in Nat /\ d = dr.made + 1
        /\ dr.type \in [Deaths -> Types] /\ dr.frees \in [Deaths -> Nat]
    BY DriverFields, Counters DEF DriverInv, Deaths
  <2>2. ~OnList(dr, d) /\ dr.frees[d] = 0
    <3>1. ~ (d <= dr.made) /\ dr.frees[d] \in Nat
      BY <2>1
    <3> QED BY <3>1, <2>1 DEF DriverInv, RecordsOK, RecordOK
  <2> HIDE DEF d
  <2>3. /\ new \in Drivers /\ new.made = d /\ new.ref = d /\ new.type = dr.type
        /\ new.node = dr.node /\ new.open = dr.open /\ new.frees = dr.frees
        /\ new.proc_todo = dr.proc_todo /\ new.todo = dr.todo /\ new.delivered = dr.delivered
    BY <2>1 DEF Drivers
  <2> HIDE DEF new
  <2>4. ListsOK(new) /\ \A x \in Deaths : OnList(new, x) <=> OnList(dr, x)
    BY <2>3, SameLists DEF DriverInv
  <2>5. \A x \in Deaths : x <= d <=> x <= dr.made \/ x = d
    <3> SUFFICES ASSUME NEW x \in Deaths PROVE x <= d <=> x <= dr.made \/ x = d
      OBVIOUS
    <3>1. x \in Nat
      BY Counters
    <3> QED BY <3>1, <2>1
  <2>6. LiveIn(new) = LiveIn(dr) \cup {d}
    <3>1. 1..d = (1..dr.made) \cup {d}
      BY <2>1
    <3> QED BY <3>1, <2>2, <2>3 DEF LiveIn
  <2>7. dr.type[d] = "none"
    BY <2>1, Counters DEF DriverInv, RecordsOK, RecordOK
  <2>8. CASE dr.node
    <3>1. q = new
      BY <1>2, <2>8 DEF RequestDeath, new, d
    <3>2. RecordsOK(new)
      <4> SUFFICES ASSUME NEW x \in Deaths PROVE RecordOK(new, x)
        BY DEF RecordsOK
      <4>1. RecordOK(dr, x)
        BY DEF DriverInv, RecordsOK
      <4> QED BY <4>1, <2>1, <2>2, <2>3, <2>4, <2>5, <1>2, Counters DEF RecordOK
    <3>3. RefOK(new)
      BY <2>1, <2>2, <2>3, <2>4, <2>7 DEF RefOK
    <3> QED BY <3>1, <3>2, <3>3, <2>1, <2>3, <2>4, <2>6, <1>2, Counters DEF DriverInv
  <2>9. CASE ~dr.node
    <3>1. /\ dead \in Drivers /\ dead.made = d /\ dead.ref = d /\ dead.type[d] = "dead"
          /\ \A x \in Deaths : x # d => dead.type[x] = dr.type[x]
          /\ dead.node = dr.node /\ dead.open = dr.open /\ dead.frees = dr.frees
          /\ dead.proc_todo = dr.proc_todo /\ dead.todo = dr.todo
          /\ dead.delivered = dr.delivered
      BY <2>1, <2>3 DEF Drivers, Types
    <3>2. q = QueueDeath(dead, th, d)
      BY <1>2, <2>9, <2>3 DEF RequestDeath, new, d
    <3> HIDE DEF dead, q
    <3>3. ListsOK(dead) /\ \A x \in Deaths : OnList(dead, x) <=> OnList(dr, x)
      BY <3>1, SameLists DEF DriverInv
    <3>4. ~OnList(dead, d)
      BY <2>1, <2>2, <3>3
    <3>5. /\ q \in Drivers /\ ListsOK(q)
          /\ q.node = dr.node /\ q.open = dr.open /\ q.made = d /\ q.ref = d
          /\ q.type = dead.type /\ q.frees = dr.frees /\ q.delivered = dr.delivered
          /\ \A x \in Deaths : OnList(q, x) <=> OnList(dr, x) \/ x = d
      <4>1. LET r == QueueDeath(dead, th, d)
            IN  /\ r \in Drivers /\ ListsOK(r)
                /\ r.node = dead.node /\ r.open = dead.open /\ r.made = dead.made
                /\ r.ref = dead.ref /\ r.type = dead.type /\ r.frees = dead.frees
                /\ r.delivered = dead.delivered
                /\ \A x \in Deaths : OnList(r, x) <=> OnList(dead, x) \/ x = d
        <5>1. dead \in Drivers /\ ListsOK(dead) /\ ~OnList(dead, d) /\ d \in Deaths
          BY <3>1, <3>3, <3>4, <2>1
        <5> QED BY <5>1, QueueDeathEffect
      <4> QED BY <4>1, <3>1, <3>2, <3>3
    <3>6. RecordsOK(q)
      <4> SUFFICES ASSUME NEW x \in Deaths PROVE RecordOK(q, x)
        BY DEF RecordsOK
      <4>1. RecordOK(dr, x)
        BY DEF DriverInv, RecordsOK
      <4>2. x # d => q.type[x] = dr.type[x]
        BY <3>1, <3>5
      <4>3. d \notin Elements(dr.delivered)
        BY <2>2 DEF OnList
      <4> QED BY <4>1, <4>2, <4>3, <3>1, <3>5, <2>1, <2>2, <2>5, <2>9, <1>2, Counters DEF RecordOK
    <3>7. RefOK(q)
      BY <2>1, <3>1, <3>5, <2>9 DEF RefOK
    <3>8. LiveIn(q) = LiveIn(dr) \cup {d}
      BY <2>3, <2>6, <3>5 DEF LiveIn
    <3> QED BY <3>5, <3>6, <3>7, <3>8, <2>1, <1>2, Counters DEF DriverInv, q, d
  <2> QED BY <2>8, <2>9
<1> QED BY <1>1, <1>2

LEMMA ClearDeathEffect ==
  ASSUME NEW dr, DriverInv(dr), dr.open, NEW th \in Thread
  PROVE  LET q == ClearDeath(dr, th)
         IN  /\ DriverInv(q) /\ q.ref = NoDeath /\ q.open /\ q.delivered = dr.delivered
             /\ q.node = dr.node /\ q.made = dr.made /\ LiveIn(q) = LiveIn(dr)
<1> DEFINE d == dr.ref
           q == ClearDeath(dr, th)
           Cleared(type) == [dr EXCEPT !.ref = NoDeath, !.type = [dr.type EXCEPT ![d] = type]]
<1>1. CASE dr.ref = NoDeath
  BY <1>1 DEF ClearDeath
<1>2. CASE dr.ref # NoDeath
  <2>1. /\ dr \in Drivers /\ d \in Deaths /\ dr.made \in Nat /\ d = dr.ref /\ d <= dr.made
        /\ d \in Nat /\ dr.type \in [Deaths -> Types] /\ dr.frees \in [Deaths -> Nat]
    <3>1. dr \in Drivers /\ RefOK(dr)
      BY DEF DriverInv
    <3>2. dr.ref \in Deaths \cup {NoDeath} /\ dr.made \in 0..MaxLinks
      BY <3>1, DriverFields
    <3>3. dr.type \in [Deaths -> Types] /\ dr.frees \in [Deaths -> Nat]
      BY <3>1, DriverFields
    <3>4. d \in Deaths /\ d \in Nat /\ dr.made \in Nat
      <4>1. d \in Deaths
        BY <3>2, <1>2
      <4> QED BY <4>1, <3>2, Counters
    <3>5. d <= dr.made
      BY <3>1 DEF RefOK
    <3> QED BY <3>1, <3>3, <3>4, <3>5
  <2>2. RecordOK(dr, d) /\ (OnList(dr, d) => dr.type[d] = "dead") /\ dr.frees[d] = 0
    BY <1>2, <2>1 DEF DriverInv, RecordsOK, RefOK, RecordOK
  <2>3. /\ Cleared("clear") \in Drivers /\ Cleared("dead_and_clear") \in Drivers
        /\ \A type \in {"clear", "dead_and_clear"} :
             LET c == Cleared(type)
             IN  /\ c.ref = NoDeath /\ c.type[d] = type
                 /\ \A x \in Deaths : x # d => c.type[x] = dr.type[x]
                 /\ c.node = dr.node /\ c.open = dr.open /\ c.made = dr.made
                 /\ c.frees = dr.frees /\ c.proc_todo = dr.proc_todo /\ c.todo = dr.todo
                 /\ c.delivered = dr.delivered
    BY <2>1 DEF Drivers, Types
  <2>4. CASE OnList(dr, d)
    <3> DEFINE c == Cleared("dead_and_clear")
    <3>1. q = c
      BY <1>2, <2>4 DEF ClearDeath
    <3>2. /\ c \in Drivers /\ c.ref = NoDeath /\ c.type[d] = "dead_and_clear"
          /\ \A x \in Deaths : x # d => c.type[x] = dr.type[x]
          /\ c.node = dr.node /\ c.open = dr.open /\ c.made = dr.made
          /\ c.frees = dr.frees /\ c.proc_todo = dr.proc_todo /\ c.todo = dr.todo
          /\ c.delivered = dr.delivered
      BY <2>3
    <3> HIDE DEF c, q, d
    <3>3. ListsOK(c) /\ \A x \in Deaths : OnList(c, x) <=> OnList(dr, x)
      BY <3>2, SameLists DEF DriverInv
    <3>4. RecordsOK(c)
      <4> SUFFICES ASSUME NEW x \in Deaths PROVE RecordOK(c, x)
        BY DEF RecordsOK
      <4>1. RecordOK(dr, x)
        BY DEF DriverInv, RecordsOK
      <4>2. CASE x = d
        BY <4>2, <2>1, <2>2, <2>4, <3>2, <3>3, <1>2 DEF RecordOK
      <4>3. CASE x # d
        BY <4>1, <4>3, <2>1, <3>2, <3>3, Counters DEF RecordOK
      <4> QED BY <4>2, <4>3
    <3>5. RefOK(c)
      BY <3>2, <2>1 DEF RefOK, NoDeath
    <3> QED BY <3>1, <3>2, <3>3, <3>4, <3>5 DEF DriverInv, LiveIn, q
  <2>5. CASE ~OnList(dr, d)
    <3> DEFINE c == Cleared("clear")
    <3>1. q = QueueDeath(c, th, d)
      BY <1>2, <2>5 DEF ClearDeath
    <3>2. /\ c \in Drivers /\ c.ref = NoDeath /\ c.type[d] = "clear"
          /\ \A x \in Deaths : x # d => c.type[x] = dr.type[x]
          /\ c.node = dr.node /\ c.open = dr.open /\ c.made = dr.made
          /\ c.frees = dr.frees /\ c.proc_todo = dr.proc_todo /\ c.todo = dr.todo
          /\ c.delivered = dr.delivered
      BY <2>3
    <3> HIDE DEF c, q, d
    <3>3. ListsOK(c) /\ \A x \in Deaths : OnList(c, x) <=> OnList(dr, x)
      BY <3>2, SameLists DEF DriverInv
    <3>4. /\ q \in Drivers /\ ListsOK(q)
          /\ q.node = dr.node /\ q.open = dr.open /\ q.made = dr.made /\ q.ref = NoDeath
          /\ q.type = c.type /\ q.frees = dr.frees /\ q.delivered = dr.delivered
          /\ \A x \in Deaths : OnList(q, x) <=> OnList(dr, x) \/ x = d
      <4>1. LET r == QueueDeath(c, th, d)
            IN  /\ r \in Drivers /\ ListsOK(r)
                /\ r.node = c.node /\ r.open = c.open /\ r.made = c.made
                /\ r.ref = c.ref /\ r.type = c.type /\ r.frees = c.frees
                /\ r.delivered = c.delivered
                /\ \A x \in Deaths : OnList(r, x) <=> OnList(c, x) \/ x = d
        <5>1. c \in Drivers /\ ListsOK(c) /\ ~OnList(c, d) /\ d \in Deaths
          BY <3>2, <3>3, <2>1, <2>5
        <5> QED BY <5>1, QueueDeathEffect
      <4> QED BY <4>1, <3>1, <3>2, <3>3
    <3>5. RecordsOK(q)
      <4> SUFFICES ASSUME NEW x \in Deaths PROVE RecordOK(q, x)
        BY DEF RecordsOK
      <4>1. RecordOK(dr, x)
        BY DEF DriverInv, RecordsOK
      <4>2. d \notin Elements(dr.delivered)
        BY <2>5 DEF OnList
      <4>3. CASE x = d
        BY <4>2, <4>3, <2>1, <2>2, <3>2, <3>4, <1>2 DEF RecordOK
      <4>4. CASE x # d
        BY <4>1, <4>4, <2>1, <3>2, <3>4, Counters DEF RecordOK
      <4> QED BY <4>3, <4>4
    <3>6. RefOK(q)
      BY <3>4, <2>1 DEF RefOK, NoDeath
    <3> QED BY <3>4, <3>5, <3>6 DEF DriverInv, LiveIn, q
  <2> QED BY <2>4, <2>5
<1> QED BY <1>1, <1>2

LEMMA DeathDoneEffect ==
  ASSUME NEW dr, DriverInv(dr), dr.open, NEW th \in Thread, dr.delivered # <<>>
  PROVE  LET q == DeathDone(dr, th)
         IN  /\ DriverInv(q) /\ q.ref = dr.ref /\ q.open
             /\ Len(q.delivered) = Len(dr.delivered) - 1
             /\ q.node = dr.node /\ q.made = dr.made /\ LiveIn(q) = LiveIn(dr)
<1> DEFINE d == Head(dr.delivered)
           l == Tail(dr.delivered)
           done == [dr EXCEPT !.delivered = l]
           c == [done EXCEPT !.type = [dr.type EXCEPT ![d] = "clear"]]
           q == DeathDone(dr, th)
<1>1. /\ dr \in Drivers /\ dr.delivered \in Seq(Deaths) /\ dr.made \in Nat
      /\ dr.type \in [Deaths -> Types] /\ dr.frees \in [Deaths -> Nat]
      /\ ListsOK(dr) /\ RefOK(dr)
  BY DriverFields DEF DriverInv
<1>2. /\ l \in Seq(Deaths) /\ d \in Deaths /\ Elements(dr.delivered) = Elements(l) \cup {d}
      /\ Distinct(l) /\ d \notin Elements(l) /\ Len(l) = Len(dr.delivered) - 1
  <2>1. Distinct(dr.delivered)
    BY <1>1 DEF ListsOK
  <2>2. Len(l) = Len(dr.delivered) - 1
    BY <1>1, HeadTailProperties
  <2> QED BY <2>1, <2>2, <1>1, TailList
<1> HIDE DEF d, l
<1>3. /\ done \in Drivers /\ done.delivered = l
      /\ done.ref = dr.ref /\ done.type = dr.type /\ done.node = dr.node /\ done.open = dr.open
      /\ done.made = dr.made /\ done.frees = dr.frees /\ done.proc_todo = dr.proc_todo
      /\ done.todo = dr.todo
  BY <1>1, <1>2 DEF Drivers
<1>4. /\ c \in Drivers /\ c.delivered = l
      /\ c.ref = dr.ref /\ c.node = dr.node /\ c.open = dr.open
      /\ c.made = dr.made /\ c.frees = dr.frees /\ c.proc_todo = dr.proc_todo
      /\ c.todo = dr.todo /\ c.type = [dr.type EXCEPT ![d] = "clear"]
  BY <1>1, <1>2 DEF Drivers, Types
<1>5. dr.type[d] = "dead_and_clear" => q = QueueDeath(c, th, d)
  BY DEF DeathDone, d, l
<1>6. dr.type[d] # "dead_and_clear" => q = done
  BY DEF DeathDone, d, l
<1> HIDE DEF c, done, q
<1>7. /\ ListsOK(done) /\ ListsOK(c)
      /\ ~OnList(done, d) /\ ~OnList(c, d)
      /\ \A x \in Deaths : x # d => (OnList(done, x) <=> OnList(dr, x)) /\ (OnList(c, x) <=> OnList(dr, x))
      /\ OnList(dr, d) /\ d \in Elements(dr.delivered)
  <2>1. ListsOK(done) /\ ListsOK(c)
    BY <1>1, <1>2, <1>3, <1>4 DEF ListsOK, Apart
  <2>2. ~OnList(done, d) /\ ~OnList(c, d)
    BY <1>1, <1>2, <1>3, <1>4 DEF ListsOK, Apart, OnList
  <2> QED BY <2>1, <2>2, <1>1, <1>2, <1>3, <1>4 DEF OnList
<1>8. RecordOK(dr, d) /\ \A x \in Deaths : RecordOK(dr, x)
  BY <1>2 DEF DriverInv, RecordsOK
<1>9. CASE dr.type[d] = "dead_and_clear"
  <2>1. /\ q \in Drivers /\ ListsOK(q)
        /\ q.node = dr.node /\ q.open = dr.open /\ q.made = dr.made /\ q.ref = dr.ref
        /\ q.type = c.type /\ q.frees = dr.frees /\ q.delivered = l
        /\ \A x \in Deaths : OnList(q, x) <=> OnList(c, x) \/ x = d
    <3>1. LET r == QueueDeath(c, th, d)
          IN  /\ r \in Drivers /\ ListsOK(r)
              /\ r.node = c.node /\ r.open = c.open /\ r.made = c.made
              /\ r.ref = c.ref /\ r.type = c.type /\ r.frees = c.frees
              /\ r.delivered = c.delivered
              /\ \A x \in Deaths : OnList(r, x) <=> OnList(c, x) \/ x = d
      <4>1. c \in Drivers /\ ListsOK(c) /\ ~OnList(c, d) /\ d \in Deaths
        BY <1>2, <1>4, <1>7
      <4> QED BY <4>1, QueueDeathEffect
    <3> QED BY <3>1, <1>4, <1>5, <1>9
  <2>2. q.type[d] = "clear" /\ \A x \in Deaths : x # d => q.type[x] = dr.type[x]
    BY <2>1, <1>1, <1>2, <1>4
  <2>3. d # dr.ref
    BY <1>1, <1>2, <1>9, Counters DEF RefOK
  <2>4. RecordsOK(q)
    <3> SUFFICES ASSUME NEW x \in Deaths PROVE RecordOK(q, x)
      BY DEF RecordsOK
    <3>1. CASE x = d
      BY <3>1, <2>1, <2>2, <2>3, <1>2, <1>7, <1>8 DEF RecordOK
    <3>2. CASE x # d
      BY <3>2, <2>1, <2>2, <1>2, <1>7, <1>8 DEF RecordOK
    <3> QED BY <3>1, <3>2
  <2>5. RefOK(q)
    BY <2>1, <2>2, <2>3, <1>1, <1>7, <1>8, DriverFields DEF RefOK
  <2> QED BY <2>1, <2>4, <2>5, <1>2 DEF DriverInv, LiveIn, q
<1>10. CASE dr.type[d] # "dead_and_clear"
  <2>1. d = dr.ref
    BY <1>7, <1>8, <1>10 DEF RecordOK
  <2>2. RecordsOK(done)
    <3> SUFFICES ASSUME NEW x \in Deaths PROVE RecordOK(done, x)
      BY DEF RecordsOK
    <3> QED BY <2>1, <1>2, <1>3, <1>7, <1>8 DEF RecordOK
  <2>3. RefOK(done)
    BY <2>1, <1>1, <1>3, <1>7 DEF RefOK
  <2> QED BY <2>2, <2>3, <1>2, <1>3, <1>6, <1>7, <1>10 DEF DriverInv, LiveIn, q
<1> QED BY <1>9, <1>10

LEMMA NodeReleaseEffect ==
  ASSUME NEW dr, DriverInv(dr), dr.open, dr.node
  PROVE  LET q == NodeRelease(dr)
         IN  /\ DriverInv(q) /\ q.ref = dr.ref /\ q.open /\ q.delivered = dr.delivered
             /\ ~q.node /\ q.made = dr.made /\ LiveIn(q) = LiveIn(dr)
<1> DEFINE d == dr.ref
           l == Append(dr.proc_todo, d)
           dead == [dr EXCEPT !.node = FALSE]
           t == [dr.type EXCEPT ![d] = "dead"]
           q == NodeRelease(dr)
<1>1. /\ dr \in Drivers /\ dr.proc_todo \in Seq(Deaths) /\ dr.made \in Nat
      /\ dr.ref \in Deaths \cup {NoDeath}
      /\ dr.type \in [Deaths -> Types] /\ dr.frees \in [Deaths -> Nat]
      /\ ListsOK(dr) /\ RefOK(dr) /\ \A x \in Deaths : RecordOK(dr, x)
  BY DriverFields DEF DriverInv, RecordsOK
<1>2. CASE d = NoDeath
  <2>1. q = dead
    BY <1>2 DEF NodeRelease
  <2>2. /\ dead \in Drivers /\ dead.ref = dr.ref /\ dead.type = dr.type /\ dead.node = FALSE
        /\ dead.open = dr.open /\ dead.made = dr.made /\ dead.frees = dr.frees
        /\ dead.proc_todo = dr.proc_todo /\ dead.todo = dr.todo
        /\ dead.delivered = dr.delivered
    BY <1>1 DEF Drivers
  <2> HIDE DEF dead, q
  <2>3. ListsOK(dead) /\ \A x \in Deaths : OnList(dead, x) <=> OnList(dr, x)
    BY <2>2, <1>1, SameLists
  <2>4. RecordsOK(dead)
    BY <2>2, <2>3, <1>1 DEF RecordsOK, RecordOK
  <2>5. RefOK(dead)
    BY <2>2, <1>1, <1>2 DEF RefOK
  <2> QED BY <2>1, <2>2, <2>3, <2>4, <2>5 DEF DriverInv, LiveIn, q
<1>3. CASE d # NoDeath
  <2>1. /\ d \in Deaths /\ ~OnList(dr, d) /\ d <= dr.made /\ dr.frees[d] = 0
        /\ dr.type[d] \in {"none", "dead"}
    BY <1>1, <1>3 DEF RefOK, RecordOK
  <2>2. /\ l \in Seq(Deaths) /\ Elements(l) = Elements(dr.proc_todo) \cup {d} /\ Distinct(l)
    BY <1>1, <2>1, AppendList DEF ListsOK, OnList
  <2>3. t \in [Deaths -> Types] /\ t[d] = "dead" /\ \A x \in Deaths : x # d => t[x] = dr.type[x]
    BY <1>1, <2>1 DEF Types
  <2> HIDE DEF l, t
  <2>4. q = [dr EXCEPT !.node = FALSE, !.type = t, !.proc_todo = l]
    BY <1>3 DEF NodeRelease, l, t
  <2> HIDE DEF q
  <2>5. /\ q \in Drivers /\ q.ref = d /\ q.type = t /\ q.node = FALSE
        /\ q.open = dr.open /\ q.made = dr.made /\ q.frees = dr.frees
        /\ q.proc_todo = l /\ q.todo = dr.todo /\ q.delivered = dr.delivered
    BY <2>2, <2>3, <2>4, <1>1 DEF Drivers
  <2>6. \A x \in Deaths : OnList(q, x) <=> OnList(dr, x) \/ x = d
    BY <2>2, <2>5 DEF OnList
  <2>7. ListsOK(q)
    <3>1. /\ d \notin Elements(dr.delivered) /\ \A u \in Thread : d \notin Elements(dr.todo[u])
      BY <2>1 DEF OnList
    <3>2. Apart(l, dr.delivered)
      BY <3>1, <2>2, <1>1 DEF ListsOK, Apart
    <3>3. \A u \in Thread : Apart(dr.todo[u], l)
      BY <3>1, <2>2, <1>1 DEF ListsOK, Apart
    <3> QED BY <3>2, <3>3, <2>2, <2>5, <1>1 DEF ListsOK
  <2>8. RecordsOK(q)
    <3> SUFFICES ASSUME NEW x \in Deaths PROVE RecordOK(q, x)
      BY DEF RecordsOK
    <3>1. RecordOK(dr, x) /\ d \notin Elements(dr.delivered)
      BY <1>1, <2>1 DEF OnList
    <3>2. CASE x = d
      <4>1. ~(d > dr.made)
        <5>1. d \in Nat
          BY <2>1, Counters
        <5> QED BY <5>1, <2>1, <1>1
      <4> QED BY <4>1, <3>1, <3>2, <2>1, <2>3, <2>5, <2>6 DEF RecordOK
    <3>3. CASE x # d
      BY <3>1, <3>3, <2>1, <2>3, <2>5, <2>6 DEF RecordOK
    <3> QED BY <3>2, <3>3
  <2>9. RefOK(q)
    BY <2>1, <2>3, <2>5, <1>1 DEF RefOK
  <2> QED BY <2>5, <2>7, <2>8, <2>9 DEF DriverInv, LiveIn, q
<1> QED BY <1>2, <1>3

\* What the read of the first n records of a thread's list or of proc->todo
\* leaves with the driver.
ReadFrom(dr, th, own, n) ==
  LET list == IF own THEN dr.todo[th] ELSE dr.proc_todo
  IN  [Deliver(dr, list, n) EXCEPT !.todo[th] = IF own THEN Rest(list, n) ELSE @,
                                   !.proc_todo = IF own THEN @ ELSE Rest(list, n)]

ReadResult(dr, th, own, list, n) ==
  LET q == ReadFrom(dr, th, own, n)
      cleared == {i \in 1..n : dr.type[list[i]] = "clear"}
  IN  /\ DriverInv(q) /\ q.ref = dr.ref /\ q.open /\ q.node = dr.node /\ q.made = dr.made
      /\ LiveIn(q) = LiveIn(dr) \ {list[i] : i \in cleared}
      /\ Len(q.delivered) = Len(dr.delivered) + (IF n \in cleared THEN 0 ELSE 1)
      /\ \A i \in 1..n : list[i] \in LiveIn(dr)
      /\ \A i, j \in 1..n : list[i] = list[j] => i = j
      /\ \A i \in 1..n : dr.type[list[i]] # "clear" => i = n /\ ~dr.node

LEMMA ReadEffect ==
  ASSUME NEW dr, DriverInv(dr), dr.open, NEW th \in Thread, NEW own \in BOOLEAN,
         NEW list, list = IF own THEN dr.todo[th] ELSE dr.proc_todo,
         NEW n \in MayDeliver(dr, list)
  PROVE  ReadResult(dr, th, own, list, n)
<1> DEFINE cleared == {i \in 1..n : dr.type[list[i]] = "clear"}
           read == {list[i] : i \in 1..n}
           rest == Rest(list, n)
           q == ReadFrom(dr, th, own, n)
           t == IF own THEN [dr.todo EXCEPT ![th] = rest] ELSE dr.todo
           p == IF own THEN dr.proc_todo ELSE rest
           f == [d \in Deaths |-> IF d \in read /\ dr.type[d] = "clear"
                                  THEN dr.frees[d] + 1 ELSE dr.frees[d]]
           l == IF dr.type[list[n]] = "clear" THEN dr.delivered ELSE <<list[n]>> \o dr.delivered
<1>1. /\ dr \in Drivers /\ dr.proc_todo \in Seq(Deaths) /\ dr.made \in Nat
      /\ dr.todo \in [Thread -> Seq(Deaths)] /\ dr.delivered \in Seq(Deaths)
      /\ dr.ref \in Deaths \cup {NoDeath}
      /\ dr.type \in [Deaths -> Types] /\ dr.frees \in [Deaths -> Nat]
      /\ ListsOK(dr) /\ RefOK(dr) /\ \A x \in Deaths : RecordOK(dr, x)
  BY DriverFields DEF DriverInv, RecordsOK
<1>2. list \in Seq(Deaths) /\ n \in 1..Len(list) /\ Distinct(list)
      /\ \A x \in Elements(list) : OnList(dr, x) /\ x \notin Elements(dr.delivered)
  <2>1. CASE own
    BY <2>1, <1>1 DEF MayDeliver, ListsOK, OnList, Apart
  <2>2. CASE ~own
    BY <2>2, <1>1 DEF MayDeliver, ListsOK, OnList, Apart
  <2> QED BY <2>1, <2>2
<1>3. /\ rest \in Seq(Deaths) /\ list[n] \in Elements(list) /\ list[n] \in Deaths
      /\ Elements(SubSeq(list, 1, n)) = read
      /\ Elements(list) = read \cup Elements(rest)
      /\ Distinct(rest) /\ read \cap Elements(rest) = {}
  <2>1. /\ Rest(list, n) \in Seq(Deaths) /\ list[n] \in Elements(list) /\ list[n] \in Deaths
        /\ Elements(SubSeq(list, 1, n)) = {list[i] : i \in 1..n}
        /\ Elements(list) = {list[i] : i \in 1..n} \cup Elements(Rest(list, n))
        /\ Distinct(list) => /\ Distinct(Rest(list, n))
                             /\ {list[i] : i \in 1..n} \cap Elements(Rest(list, n)) = {}
    <3>1. list \in Seq(Deaths) /\ n \in 1..Len(list)
      BY <1>2
    <3> QED BY <3>1, SplitList
  <2> QED BY <2>1, <1>2
<1>4. /\ \A i \in 1..n : list[i] \in Deaths /\ i \in DOMAIN list
      /\ \A i, j \in 1..n : list[i] = list[j] => i = j
      /\ n \in Nat \ {0} /\ read \subseteq Deaths
  <2>1. DOMAIN list = 1..Len(list) /\ Len(list) \in Nat
    BY <1>2, LenProperties
  <2>2. \A i \in 1..n : i \in 1..Len(list)
    BY <1>2, <2>1
  <2>3. \A i \in 1..n : list[i] \in Deaths
    BY <2>2, <1>2, ElementOfSeq
  <2> QED BY <2>1, <2>2, <2>3, <1>2 DEF Distinct
<1>5. \A i \in 1..n : dr.type[list[i]] # "clear" => i = n
  BY <1>4 DEF MayDeliver
<1>6. \A x \in read : x \in Deaths /\ OnList(dr, x) /\ x <= dr.made /\ dr.frees[x] = 0
                      /\ x \notin Elements(dr.delivered)
  BY <1>1, <1>2, <1>3, <1>4 DEF RecordOK
<1>7. \A x \in read : dr.type[x] \in {"dead", "dead_and_clear", "clear"}
  <2> SUFFICES ASSUME NEW x \in read PROVE dr.type[x] \in {"dead", "dead_and_clear", "clear"}
    OBVIOUS
  <2>1. x \in Deaths /\ OnList(dr, x) /\ x # NoDeath
    BY <1>6, Counters
  <2>2. CASE x = dr.ref
    BY <2>1, <2>2, <1>1 DEF RefOK
  <2>3. CASE x # dr.ref
    BY <2>1, <2>3, <1>1 DEF RecordOK
  <2> QED BY <2>2, <2>3
<1>8. \A x \in read : dr.type[x] # "clear" => ~dr.node
  BY <1>1, <1>6, <1>7 DEF RecordOK
<1>9. q = [dr EXCEPT !.frees = f, !.delivered = l, !.todo = t, !.proc_todo = p]
  <2> DEFINE e == Deliver(dr, list, n)
  <2>1. e = [dr EXCEPT !.frees = f, !.delivered = l]
    <3>1. f = [d \in Deaths |-> IF d \in Elements(SubSeq(list, 1, n)) /\ dr.type[d] = "clear"
                                THEN dr.frees[d] + 1 ELSE dr.frees[d]]
      BY <1>3
    <3> QED BY <3>1 DEF Deliver
  <2>2. e.todo = dr.todo /\ e.proc_todo = dr.proc_todo
    BY <2>1, <1>1 DEF Drivers
  <2>3. q = [e EXCEPT !.todo = [e.todo EXCEPT ![th] = IF own THEN rest ELSE e.todo[th]],
                      !.proc_todo = IF own THEN e.proc_todo ELSE rest]
    <3>1. q = [Deliver(dr, list, n) EXCEPT !.todo[th] = IF own THEN Rest(list, n) ELSE @,
                                           !.proc_todo = IF own THEN @ ELSE Rest(list, n)]
      BY DEF ReadFrom
    <3> QED BY <3>1
  <2>4. t = [dr.todo EXCEPT ![th] = IF own THEN rest ELSE dr.todo[th]]
    BY <1>1
  <2> HIDE DEF e, f, l, t, rest, q
  <2>5. q = [e EXCEPT !.todo = t, !.proc_todo = p]
    BY <2>2, <2>3, <2>4
  <2> QED BY <2>1, <2>5
<1>10. /\ l \in Seq(Deaths) /\ Distinct(l)
       /\ Elements(l) = Elements(dr.delivered) \cup
                         (IF dr.type[list[n]] = "clear" THEN {} ELSE {list[n]})
       /\ Len(l) = Len(dr.delivered) + (IF n \in cleared THEN 0 ELSE 1)
  <2>1. list[n] \notin Elements(dr.delivered) /\ Distinct(dr.delivered)
    BY <1>1, <1>2, <1>3 DEF ListsOK
  <2>2. n \in cleared <=> dr.type[list[n]] = "clear"
    BY <1>4
  <2>3. Len(dr.delivered) \in Nat
    BY <1>1, LenProperties
  <2>4. CASE dr.type[list[n]] = "clear"
    <3>1. l = dr.delivered /\ n \in cleared
      BY <2>2, <2>4
    <3> HIDE DEF l, cleared
    <3> QED BY <3>1, <2>1, <2>3, <2>4, <1>1
  <2>5. CASE dr.type[list[n]] # "clear"
    <3>1. /\ <<list[n]>> \o dr.delivered \in Seq(Deaths)
          /\ Len(<<list[n]>> \o dr.delivered) = Len(dr.delivered) + 1
          /\ Elements(<<list[n]>> \o dr.delivered) = Elements(dr.delivered) \cup {list[n]}
          /\ Distinct(<<list[n]>> \o dr.delivered)
      BY <2>1, <1>1, <1>3, PushList
    <3> QED BY <3>1, <2>2, <2>5
  <2> QED BY <2>4, <2>5
<1>11. /\ t \in [Thread -> Seq(Deaths)] /\ p \in Seq(Deaths)
       /\ f \in [Deaths -> Nat]
       /\ \A x \in Deaths : f[x] = IF x \in read /\ dr.type[x] = "clear" THEN 1 ELSE dr.frees[x]
  <2>1. t \in [Thread -> Seq(Deaths)] /\ p \in Seq(Deaths)
    <3> HIDE DEF rest
    <3> QED BY <1>1, <1>3
  <2>2. /\ f \in [Deaths -> Nat]
        /\ \A x \in Deaths : f[x] = IF x \in read /\ dr.type[x] = "clear"
                                   THEN dr.frees[x] + 1 ELSE dr.frees[x]
    <3> HIDE DEF read
    <3> QED BY <1>1
  <2>3. \A x \in read : dr.frees[x] + 1 = 1
    BY <1>6
  <2> HIDE DEF f, read
  <2> QED BY <2>1, <2>2, <2>3
<1>12. /\ own => p = dr.proc_todo /\ t[th] = rest
       /\ ~own => p = rest /\ t = dr.todo
       /\ \A u \in Thread : u # th => t[u] = dr.todo[u]
  BY <1>1
<1> HIDE DEF q, f, l, t, p, rest
<1>13. /\ q \in Drivers /\ q.frees = f /\ q.delivered = l /\ q.todo = t /\ q.proc_todo = p
       /\ q.node = dr.node /\ q.open = dr.open /\ q.made = dr.made /\ q.ref = dr.ref
       /\ q.type = dr.type
  BY <1>1, <1>9, <1>10, <1>11 DEF Drivers
<1>14. \A x \in Elements(l) : x \in Elements(dr.delivered) \/ (x = list[n] /\ dr.type[x] # "clear")
  BY <1>10
<1>15. \A x \in read : dr.type[x] # "clear" => x = list[n]
  BY <1>5
<1> HIDE DEF read, cleared
<1>16. ListsOK(q) /\ \A x \in Deaths :
          OnList(q, x) <=> OnList(dr, x) /\ ~(x \in read /\ dr.type[x] = "clear")
  <2>1. CASE own
    <3>1. /\ list = dr.todo[th] /\ p = dr.proc_todo /\ t[th] = rest
      BY <2>1, <1>12
    <3>2. /\ Apart(list, dr.proc_todo) /\ Apart(list, dr.delivered)
          /\ \A u \in Thread : u # th => Apart(list, dr.todo[u]) /\ Apart(dr.todo[u], list)
      BY <3>1, <1>1 DEF ListsOK
    <3>3. ListsOK(q)
      <4>1. /\ Distinct(p) /\ Distinct(l) /\ Apart(p, l)
        BY <3>1, <3>2, <1>1, <1>3, <1>10, <1>14 DEF ListsOK, Apart
      <4>2. Distinct(t[th]) /\ Apart(t[th], p) /\ Apart(t[th], l)
        <5>1. list[n] \notin Elements(rest)
          BY <1>3, <1>4 DEF read
        <5> QED BY <5>1, <3>1, <3>2, <1>3, <1>14 DEF Apart
      <4>3. ASSUME NEW u \in Thread, u # th
            PROVE  /\ Distinct(t[u]) /\ Apart(t[u], p) /\ Apart(t[u], l)
                   /\ Apart(t[u], t[th]) /\ Apart(t[th], t[u])
        <5>1. /\ Distinct(dr.todo[u]) /\ Apart(dr.todo[u], dr.proc_todo)
              /\ Apart(dr.todo[u], dr.delivered) /\ Apart(list, dr.todo[u])
          BY <4>3, <3>2, <1>1 DEF ListsOK
        <5>2. t[u] = dr.todo[u]
          BY <4>3, <1>12
        <5> QED BY <5>1, <5>2, <3>1, <1>3, <1>14 DEF Apart
      <4>4. ASSUME NEW u \in Thread, NEW v \in Thread, u # v PROVE Apart(t[u], t[v])
        <5>1. CASE u # th /\ v # th
          BY <5>1, <4>4, <1>1, <1>12 DEF ListsOK
        <5> QED BY <5>1, <4>3, <4>4
      <4> QED BY <4>1, <4>2, <4>3, <4>4, <1>13 DEF ListsOK
    <3>4. ASSUME NEW x \in Deaths
          PROVE  OnList(q, x) <=> OnList(dr, x) /\ ~(x \in read /\ dr.type[x] = "clear")
      <4>1. CASE x \in Elements(list)
        <5>1. x \notin Elements(dr.proc_todo) /\ x \notin Elements(dr.delivered)
              /\ \A u \in Thread : u # th => x \notin Elements(dr.todo[u])
          BY <4>1, <3>2 DEF Apart
        <5>2. OnList(q, x) <=> x \in Elements(rest) \/ x \in Elements(l)
          BY <5>1, <3>1, <1>12, <1>13 DEF OnList
        <5> QED BY <5>1, <5>2, <4>1, <3>1, <1>3, <1>10, <1>15 DEF OnList
      <4>2. CASE x \notin Elements(list)
        <5>1. x \notin read /\ x \notin Elements(rest) /\ x # list[n]
          BY <4>2, <1>3
        <5> QED BY <5>1, <4>2, <3>1, <1>10, <1>12, <1>13 DEF OnList
      <4> QED BY <4>1, <4>2
    <3> QED BY <3>3, <3>4
  <2>2. CASE ~own
    <3>1. /\ list = dr.proc_todo /\ p = rest /\ t = dr.todo
      BY <2>2, <1>12
    <3>2. /\ Apart(list, dr.delivered)
          /\ \A u \in Thread : Apart(dr.todo[u], list)
      BY <3>1, <1>1 DEF ListsOK
    <3>3. ListsOK(q)
      <4>1. /\ Distinct(p) /\ Distinct(l) /\ Apart(p, l)
        <5>1. list[n] \notin Elements(rest)
          BY <1>3, <1>4 DEF read
        <5> QED BY <5>1, <3>1, <3>2, <1>3, <1>10, <1>14 DEF Apart
      <4>2. ASSUME NEW u \in Thread
            PROVE  /\ Distinct(t[u]) /\ Apart(t[u], p) /\ Apart(t[u], l)
        <5>1. /\ Distinct(dr.todo[u]) /\ Apart(dr.todo[u], list)
              /\ Apart(dr.todo[u], dr.delivered)
          BY <3>2, <1>1 DEF ListsOK
        <5> QED BY <5>1, <3>1, <1>3, <1>14 DEF Apart
      <4> QED BY <4>1, <4>2, <3>1, <1>1, <1>13 DEF ListsOK
    <3>4. ASSUME NEW x \in Deaths
          PROVE  OnList(q, x) <=> OnList(dr, x) /\ ~(x \in read /\ dr.type[x] = "clear")
      <4>1. CASE x \in Elements(list)
        <5>1. x \notin Elements(dr.delivered) /\ \A u \in Thread : x \notin Elements(dr.todo[u])
          BY <4>1, <3>2 DEF Apart
        <5>2. OnList(q, x) <=> x \in Elements(rest) \/ x \in Elements(l)
          BY <5>1, <3>1, <1>13 DEF OnList
        <5> QED BY <5>1, <5>2, <4>1, <3>1, <1>3, <1>10, <1>15 DEF OnList
      <4>2. CASE x \notin Elements(list)
        <5>1. x \notin read /\ x \notin Elements(rest) /\ x # list[n]
          BY <4>2, <1>3
        <5> QED BY <5>1, <4>2, <3>1, <1>10, <1>13 DEF OnList
      <4> QED BY <4>1, <4>2
    <3> QED BY <3>3, <3>4
  <2> QED BY <2>1, <2>2
<1>17. RecordsOK(q)
  <2> SUFFICES ASSUME NEW x \in Deaths PROVE RecordOK(q, x)
    BY DEF RecordsOK
  <2>1. RecordOK(dr, x)
    BY <1>1
  <2>2. x \in Elements(l) => dr.type[x] # "clear"
    BY <2>1, <1>14 DEF RecordOK
  <2>3. CASE x \in read /\ dr.type[x] = "clear"
    <3>1. x # dr.ref /\ q.frees[x] = 1 /\ ~OnList(q, x) /\ x <= dr.made
      BY <2>3, <1>1, <1>6, <1>11, <1>13, <1>16, Counters DEF RefOK
    <3> QED BY <3>1, <2>1, <2>2, <2>3, <1>13 DEF RecordOK
  <2>4. CASE ~(x \in read /\ dr.type[x] = "clear")
    <3>1. q.frees[x] = dr.frees[x] /\ (OnList(q, x) <=> OnList(dr, x))
      BY <2>4, <1>11, <1>13, <1>16
    <3> QED BY <3>1, <2>1, <2>2, <1>13 DEF RecordOK
  <2> QED BY <2>3, <2>4
<1>18. RefOK(q)
  <2>1. dr.ref # NoDeath => dr.ref \in Deaths
    BY <1>1
  <2> QED BY <2>1, <1>1, <1>13, <1>16 DEF RefOK
<1>19. \A i \in 1..n : list[i] \in LiveIn(dr)
  <2> SUFFICES ASSUME NEW i \in 1..n PROVE list[i] \in LiveIn(dr)
    OBVIOUS
  <2>1. list[i] \in read
    BY DEF read
  <2> QED BY <2>1, <1>1, <1>6, Counters DEF LiveIn
<1>20. LiveIn(q) = LiveIn(dr) \ {list[i] : i \in cleared}
  <2>1. {list[i] : i \in cleared} = {x \in read : dr.type[x] = "clear"}
    BY DEF cleared, read
  <2>2. 1..dr.made \subseteq Deaths
    BY <1>1, DriverFields, Counters DEF Deaths
  <2>3. ASSUME NEW x \in 1..dr.made
        PROVE  q.frees[x] = 0 <=> dr.frees[x] = 0 /\ ~(x \in read /\ dr.type[x] = "clear")
    <3>1. x \in Deaths
      BY <2>2
    <3>2. q.frees[x] = IF x \in read /\ dr.type[x] = "clear" THEN 1 ELSE dr.frees[x]
      BY <3>1, <1>11, <1>13
    <3> QED BY <3>2
  <2> QED BY <2>1, <2>3, <1>13 DEF LiveIn
<1>21. \A i \in 1..n : dr.type[list[i]] # "clear" => i = n /\ ~dr.node
  BY <1>5, <1>8 DEF read
<1> QED BY <1>4, <1>10, <1>13, <1>16, <1>17, <1>18, <1>19, <1>20, <1>21 DEF DriverInv, q, cleared, ReadResult

LEMMA ReleaseThreadsEffect ==
  ASSUME NEW dr, DriverInv(dr), dr.open, NEW ths \in SUBSET Thread
  PROVE  LET q == ReleaseThreads(dr, ths)
         IN  /\ DriverInv(q) /\ q.ref = dr.ref /\ q.open /\ q.delivered = dr.delivered
             /\ q.proc_todo = dr.proc_todo
             /\ q.node = dr.node /\ q.made = dr.made /\ LiveIn(q) \subseteq LiveIn(dr)
             /\ \A u \in ths : q.todo[u] = <<>>
<1> DEFINE records == UNION {Elements(dr.todo[u]) : u \in ths}
           f == [d \in Deaths |-> IF d \in records /\ dr.type[d] \in {"dead_and_clear", "clear"}
                                  THEN dr.frees[d] + 1 ELSE dr.frees[d]]
           t == [u \in Thread |-> IF u \in ths THEN <<>> ELSE dr.todo[u]]
           q == ReleaseThreads(dr, ths)
<1>1. /\ dr \in Drivers /\ dr.made \in Nat /\ dr.made <= MaxLinks
      /\ dr.todo \in [Thread -> Seq(Deaths)]
      /\ dr.ref \in Deaths \cup {NoDeath}
      /\ dr.type \in [Deaths -> Types] /\ dr.frees \in [Deaths -> Nat]
      /\ ListsOK(dr) /\ RefOK(dr) /\ \A x \in Deaths : RecordOK(dr, x)
  BY DriverFields DEF DriverInv, RecordsOK
<1>2. q = [dr EXCEPT !.frees = f, !.todo = t]
  <2> DEFINE e == [dr EXCEPT !.frees = f]
  <2>1. e.todo = dr.todo
    BY <1>1 DEF Drivers
  <2>2. q = [e EXCEPT !.todo = [u \in Thread |-> IF u \in ths THEN <<>> ELSE e.todo[u]]]
    BY DEF ReleaseThreads, ReleaseWork
  <2> HIDE DEF f, q
  <2> QED BY <2>1, <2>2
<1>3. /\ f \in [Deaths -> Nat] /\ t \in [Thread -> Seq(Deaths)]
      /\ \A u \in ths : t[u] = <<>>
      /\ \A u \in Thread : u \notin ths => t[u] = dr.todo[u]
      /\ \A x \in Deaths : f[x] = IF x \in records /\ dr.type[x] \in {"dead_and_clear", "clear"}
                                  THEN dr.frees[x] + 1 ELSE dr.frees[x]
  <2> HIDE DEF records
  <2> QED BY <1>1
<1>4. \A u \in ths : Elements(t[u]) = {} /\ Distinct(t[u])
  BY <1>3, EmptyList
<1> HIDE DEF q, f, t
<1>5. /\ q \in Drivers /\ q.frees = f /\ q.todo = t /\ q.proc_todo = dr.proc_todo
      /\ q.delivered = dr.delivered /\ q.node = dr.node /\ q.open = dr.open
      /\ q.made = dr.made /\ q.ref = dr.ref /\ q.type = dr.type
  BY <1>1, <1>2, <1>3 DEF Drivers
<1>6. \A x \in records : OnList(dr, x) /\ \E u \in ths : x \in Elements(dr.todo[u])
  BY DEF OnList
<1>7. \A x \in Deaths : OnList(q, x) <=> OnList(dr, x) /\ x \notin records
  <2> SUFFICES ASSUME NEW x \in Deaths PROVE OnList(q, x) <=> OnList(dr, x) /\ x \notin records
    OBVIOUS
  <2>1. CASE x \in records
    <3>1. PICK u \in ths : x \in Elements(dr.todo[u])
      BY <2>1, <1>6
    <3>2. x \notin Elements(dr.proc_todo) /\ x \notin Elements(dr.delivered)
      BY <3>1, <1>1 DEF ListsOK, Apart
    <3>3. \A v \in Thread : v # u => x \notin Elements(dr.todo[v])
      BY <3>1, <1>1 DEF ListsOK, Apart
    <3> QED BY <2>1, <3>1, <3>2, <3>3, <1>3, <1>4, <1>5 DEF OnList
  <2>2. CASE x \notin records
    <3>1. \A u \in ths : x \notin Elements(dr.todo[u])
      BY <2>2
    <3> HIDE DEF records
    <3> QED BY <2>2, <3>1, <1>3, <1>4, <1>5 DEF OnList
  <2> QED BY <2>1, <2>2
<1> HIDE DEF records
<1>8. ListsOK(q)
  <2>1. ASSUME NEW u \in Thread
        PROVE  Elements(t[u]) \subseteq Elements(dr.todo[u]) /\ Distinct(t[u])
    BY <1>1, <1>3, <1>4 DEF ListsOK
  <2> QED BY <2>1, <1>1, <1>5 DEF ListsOK, Apart
<1>9. RecordsOK(q)
  <2> SUFFICES ASSUME NEW x \in Deaths PROVE RecordOK(q, x)
    BY DEF RecordsOK
  <2>1. RecordOK(dr, x) /\ (OnList(q, x) <=> OnList(dr, x) /\ x \notin records)
    BY <1>1, <1>7
  <2>2. CASE x \in records
    <3>1. OnList(dr, x) /\ x <= dr.made /\ dr.frees[x] = 0 /\ ~OnList(q, x)
      BY <2>1, <2>2, <1>6 DEF RecordOK
    <3>2. x = dr.ref \/ dr.type[x] \in {"dead_and_clear", "clear"}
      BY <2>1, <3>1 DEF RecordOK
    <3>3. x = dr.ref => dr.type[x] \notin {"dead_and_clear", "clear"}
      BY <1>1, Counters DEF RefOK
    <3>4. q.frees[x] = IF dr.type[x] \in {"dead_and_clear", "clear"} THEN 1 ELSE 0
      BY <2>2, <3>1, <1>3, <1>5
    <3> QED BY <2>1, <3>1, <3>2, <3>3, <3>4, <1>5 DEF RecordOK
  <2>3. CASE x \notin records
    <3>1. q.frees[x] = dr.frees[x]
      BY <2>3, <1>3, <1>5
    <3> QED BY <2>1, <2>3, <3>1, <1>5 DEF RecordOK
  <2> QED BY <2>2, <2>3
<1>10. RefOK(q)
  <2>1. dr.ref # NoDeath => dr.ref \in Deaths
    BY <1>1
  <2> QED BY <2>1, <1>1, <1>5, <1>7 DEF RefOK
<1>11. LiveIn(q) \subseteq LiveIn(dr)
  <2>1. ASSUME NEW x \in 1..dr.made, q.frees[x] = 0 PROVE dr.frees[x] = 0
    <3>1. x \in Deaths /\ dr.frees[x] \in Nat
      BY <1>1, Counters DEF Deaths
    <3> QED BY <2>1, <3>1, <1>3, <1>5
  <2> QED BY <2>1, <1>5 DEF LiveIn
<1> QED BY <1>3, <1>5, <1>8, <1>9, <1>10, <1>11 DEF DriverInv, q

LEMMA ReleaseProcessEffect ==
  ASSUME NEW dr, DriverInv(dr), dr.open
  PROVE  LET q == ReleaseProcess(dr)
         IN  /\ DriverInv(q) /\ q.ref = NoDeath /\ ~q.open
             /\ q.node = dr.node /\ q.made = dr.made /\ LiveIn(q) = {}
<1> DEFINE r == ReleaseThreads(dr, Thread)
           lists == Elements(dr.proc_todo) \cup Elements(dr.delivered)
           e == DeleteRef(r)
           f == [d \in Deaths |-> IF d \in lists \ {dr.ref} /\ e.type[d] \in {"dead_and_clear", "clear"}
                                  THEN e.frees[d] + 1 ELSE e.frees[d]]
           q == ReleaseProcess(dr)
<1>1. LET s == ReleaseThreads(dr, Thread)
      IN  /\ DriverInv(s) /\ s.ref = dr.ref /\ s.open /\ s.delivered = dr.delivered
          /\ s.proc_todo = dr.proc_todo
          /\ s.node = dr.node /\ s.made = dr.made /\ LiveIn(s) \subseteq LiveIn(dr)
          /\ \A u \in Thread : s.todo[u] = <<>>
  BY ReleaseThreadsEffect
<1>2. q = [e EXCEPT !.frees = f, !.open = FALSE, !.proc_todo = <<>>, !.delivered = <<>>]
  BY DEF ReleaseProcess, ReleaseWork
<1> HIDE DEF r, q
<1>3. /\ DriverInv(r) /\ r.ref = dr.ref /\ r.open /\ r.node = dr.node /\ r.made = dr.made
      /\ lists = Elements(r.proc_todo) \cup Elements(r.delivered)
      /\ \A u \in Thread : r.todo[u] = <<>>
  BY <1>1 DEF r
<1>4. /\ r \in Drivers /\ r.made \in Nat /\ r.made <= MaxLinks
      /\ r.todo \in [Thread -> Seq(Deaths)] /\ r.ref \in Deaths \cup {NoDeath}
      /\ r.type \in [Deaths -> Types] /\ r.frees \in [Deaths -> Nat]
      /\ RefOK(r) /\ \A x \in Deaths : RecordOK(r, x)
  BY <1>3, DriverFields DEF DriverInv, RecordsOK
<1>5. /\ e \in Drivers /\ e.ref = NoDeath /\ e.node = r.node /\ e.made = r.made
      /\ e.type = r.type /\ e.todo = r.todo
      /\ \A x \in Deaths : e.frees[x] = IF x = r.ref THEN r.frees[x] + 1 ELSE r.frees[x]
  <2>1. CASE r.ref = NoDeath
    BY <2>1, <1>4, Counters DEF DeleteRef
  <2>2. CASE r.ref # NoDeath
    <3> DEFINE g == [r.frees EXCEPT ![r.ref] = @ + 1]
    <3>1. e = [r EXCEPT !.frees = g, !.ref = NoDeath]
      BY <2>2 DEF DeleteRef
    <3>2. /\ g \in [Deaths -> Nat]
          /\ \A x \in Deaths : g[x] = IF x = r.ref THEN r.frees[x] + 1 ELSE r.frees[x]
      BY <2>2, <1>4
    <3> HIDE DEF g, e
    <3> QED BY <3>1, <3>2, <1>4 DEF Drivers
  <2> QED BY <2>1, <2>2
<1> HIDE DEF e, lists
<1>6. /\ f \in [Deaths -> Nat]
      /\ \A x \in Deaths : f[x] = IF x \in lists \ {dr.ref} /\ r.type[x] \in {"dead_and_clear", "clear"}
                                  THEN e.frees[x] + 1 ELSE e.frees[x]
  <2>1. e.frees \in [Deaths -> Nat]
    BY <1>5, DriverFields
  <2> QED BY <2>1, <1>5
<1> HIDE DEF f
<1>7. /\ q \in Drivers /\ q.ref = NoDeath /\ ~q.open /\ q.node = r.node /\ q.made = r.made
      /\ q.type = r.type /\ q.frees = f /\ q.proc_todo = <<>> /\ q.delivered = <<>>
      /\ q.todo = r.todo
  <2>1. <<>> \in Seq(Deaths)
    OBVIOUS
  <2> QED BY <2>1, <1>2, <1>5, <1>6 DEF Drivers
<1>8. \A x \in Deaths : ~OnList(q, x)
  BY <1>3, <1>7, EmptyList DEF OnList
<1>9. \A x \in Deaths : OnList(r, x) <=> x \in lists
  BY <1>3, EmptyList DEF OnList
<1>10. ListsOK(q)
  BY <1>3, <1>7, EmptyList DEF ListsOK, Apart
<1>11. \A x \in Deaths : q.frees[x] <= 1 /\ (q.frees[x] = 1 <=> x <= r.made)
  <2> SUFFICES ASSUME NEW x \in Deaths
               PROVE  q.frees[x] <= 1 /\ (q.frees[x] = 1 <=> x <= r.made)
    OBVIOUS
  <2>1. RecordOK(r, x) /\ r.frees[x] \in Nat /\ x \in Nat
    BY <1>4, Counters
  <2>2. CASE x = r.ref
    <3>1. q.frees[x] = r.frees[x] + 1
      BY <2>2, <1>3, <1>5, <1>6, <1>7
    <3>2. x <= r.made /\ r.frees[x] = 0
      BY <2>1, <2>2, <1>4 DEF RefOK, RecordOK
    <3> QED BY <3>1, <3>2
  <2>3. CASE x # r.ref /\ x \in lists
    <3>1. r.type[x] \in {"dead_and_clear", "clear"} /\ x <= r.made /\ r.frees[x] = 0
      BY <2>1, <2>3, <1>9 DEF RecordOK
    <3>2. q.frees[x] = r.frees[x] + 1
      BY <2>3, <3>1, <1>3, <1>5, <1>6, <1>7
    <3> QED BY <3>1, <3>2
  <2>4. CASE x # r.ref /\ x \notin lists
    <3>1. q.frees[x] = r.frees[x]
      BY <2>4, <1>5, <1>6, <1>7
    <3> QED BY <2>1, <2>4, <3>1, <1>3, <1>9 DEF RecordOK
  <2> QED BY <2>2, <2>3, <2>4
<1>12. RecordsOK(q)
  <2> SUFFICES ASSUME NEW x \in Deaths PROVE RecordOK(q, x)
    BY DEF RecordsOK
  <2>1. RecordOK(r, x)
    BY <1>4
  <2>2. x # NoDeath /\ x \notin Elements(q.delivered)
    BY <1>7, EmptyList, Counters
  <2> QED BY <2>1, <2>2, <1>7, <1>8, <1>11 DEF RecordOK
<1>13. 1..r.made \subseteq Deaths
  BY <1>4, Counters DEF Deaths
<1>14. RefOK(q)
  BY <1>4, <1>7, <1>11, <1>13 DEF RefOK, NoDeath
<1>15. LiveIn(q) = {}
  <2>1. ASSUME NEW x \in 1..r.made PROVE q.frees[x] = 1
    BY <1>11, <1>13, <1>4
  <2> QED BY <2>1, <1>7 DEF LiveIn
<1> QED BY <1>3, <1>7, <1>10, <1>12, <1>14, <1>15 DEF DriverInv, q

-----------------------------------------------------------------------------
(* Counting: sets that are as large as each other, and what threads have.  *)

LEMMA Matched ==
  ASSUME NEW S, NEW T, NEW f \in [S -> T], IsFiniteSet(S) \/ IsFiniteSet(T),
         \A a, b \in S : f[a] = f[b] => a = b, \A t \in T : \E a \in S : f[a] = t
  PROVE  IsFiniteSet(S) /\ IsFiniteSet(T) /\ Cardinality(S) = Cardinality(T)
<1>1. f \in Bijection(S, T)
  BY Fun_IsBij
<1>2. ExistsBijection(S, T)
  BY <1>1 DEF ExistsBijection
<1>3. ExistsBijection(T, S)
  BY <1>2, Fun_ExistsBijSymmetric
<1>4. CASE IsFiniteSet(S)
  BY <1>2, <1>4, FS_Bijection
<1>5. CASE IsFiniteSet(T)
  BY <1>3, <1>5, FS_Bijection
<1> QED BY <1>4, <1>5

LEMMA PairsChange ==
  ASSUME NEW F, NEW G, NEW th \in Thread, \A u \in Thread : u # th => G[u] = F[u],
         IsFiniteSet(Pairs(F)), IsFiniteSet(G[th])
  PROVE  /\ IsFiniteSet(Pairs(G)) /\ IsFiniteSet(F[th])
         /\ Cardinality(Pairs(F)) \in Nat /\ Cardinality(Pairs(G)) \in Nat
         /\ Cardinality(F[th]) \in Nat /\ Cardinality(G[th]) \in Nat
         /\ Cardinality(F[th]) <= Cardinality(Pairs(F))
         /\ Cardinality(Pairs(G)) = Cardinality(Pairs(F)) - Cardinality(F[th]) + Cardinality(G[th])
<1> DEFINE Others == UNION {{u} \X F[u] : u \in Thread \ {th}}
           One(X) == {th} \X X
           P == Pairs(F)
           Q == Pairs(G)
<1>1. P = Others \cup One(F[th]) /\ Others \cap One(F[th]) = {}
  BY DEF Pairs
<1>2. Q = Others \cup One(G[th]) /\ Others \cap One(G[th]) = {}
  BY DEF Pairs
<1>3. ASSUME NEW X, IsFiniteSet(X) \/ IsFiniteSet(One(X))
      PROVE  /\ IsFiniteSet(X) /\ IsFiniteSet(One(X)) /\ Cardinality(X) = Cardinality(One(X))
             /\ Cardinality(X) \in Nat
  <2> DEFINE f == [x \in X |-> <<th, x>>]
  <2>1. /\ f \in [X -> One(X)]
        /\ \A a, b \in X : f[a] = f[b] => a = b
        /\ \A t \in One(X) : \E a \in X : f[a] = t
    OBVIOUS
  <2> HIDE DEF f
  <2>2. IsFiniteSet(X) /\ IsFiniteSet(One(X)) /\ Cardinality(X) = Cardinality(One(X))
    BY <1>3, <2>1, Matched
  <2> QED BY <2>2, FS_CardinalityType
<1> HIDE DEF Others, One, P, Q
<1>4. IsFiniteSet(P)
  BY DEF P
<1>5. IsFiniteSet(Others) /\ IsFiniteSet(One(F[th])) /\ Cardinality(One(F[th])) <= Cardinality(P)
  BY <1>1, <1>4, FS_Subset
<1>6. IsFiniteSet(F[th]) /\ Cardinality(F[th]) = Cardinality(One(F[th])) /\ Cardinality(F[th]) \in Nat
  BY <1>3, <1>5
<1>7. IsFiniteSet(One(G[th])) /\ Cardinality(G[th]) = Cardinality(One(G[th])) /\ Cardinality(G[th]) \in Nat
  BY <1>3
<1>8. Cardinality({}) = 0
  BY FS_EmptySet
<1>9. Cardinality(P) = Cardinality(Others) + Cardinality(One(F[th])) - 0
  BY <1>1, <1>5, <1>8, FS_Union
<1>10. IsFiniteSet(Q) /\ Cardinality(Q) = Cardinality(Others) + Cardinality(One(G[th])) - 0
  <2> DEFINE A == Others
             B == One(G[th])
  <2>1. /\ IsFiniteSet(A \cup B)
        /\ Cardinality(A \cup B) = Cardinality(A) + Cardinality(B) - Cardinality(A \cap B)
    <3>1. IsFiniteSet(A) /\ IsFiniteSet(B)
      BY <1>5, <1>7
    <3> HIDE DEF A, B
    <3> QED BY <3>1, FS_Union
  <2> QED BY <2>1, <1>2, <1>8
<1>11. Cardinality(P) \in Nat /\ Cardinality(Q) \in Nat /\ Cardinality(Others) \in Nat
  BY <1>4, <1>5, <1>10, FS_CardinalityType
<1> QED BY <1>5, <1>6, <1>7, <1>9, <1>10, <1>11 DEF P, Q

LEMMA PositionsFinite ==
  ASSUME NEW S, NEW s \in Seq(S), NEW c
  PROVE  IsFiniteSet(Positions(s, c)) /\ Cardinality(Positions(s, c)) \in Nat
<1>1. DOMAIN s = 1..Len(s) /\ Len(s) \in Nat
  BY LenProperties
<1>2. IsFiniteSet(1..Len(s))
  BY <1>1, FS_Interval
<1>3. Positions(s, c) \in SUBSET (1..Len(s))
  BY <1>1 DEF Positions
<1>4. IsFiniteSet(Positions(s, c))
  BY <1>2, <1>3, FS_Subset
<1> QED BY <1>4, FS_CardinalityType

LEMMA PositionsOfTail ==
  ASSUME NEW S, NEW s \in Seq(S), s # <<>>, NEW c
  PROVE  /\ Cardinality(Positions(Tail(s), c)) =
              Cardinality(Positions(s, c)) - (IF Head(s) = c THEN 1 ELSE 0)
         /\ Head(s) = c => Cardinality(Positions(s, c)) >= 1
<1>1. /\ Head(s) = s[1] /\ Tail(s) \in Seq(S) /\ Len(Tail(s)) = Len(s) - 1
      /\ \A i \in 1..Len(Tail(s)) : Tail(s)[i] = s[i + 1]
  BY HeadTailProperties
<1>2. /\ DOMAIN s = 1..Len(s) /\ Len(s) \in Nat /\ DOMAIN Tail(s) = 1..Len(s) - 1
      /\ Len(s) # 0
  BY <1>1, LenProperties, EmptySeq
<1> DEFINE P == Positions(s, c)
           Q == Positions(Tail(s), c)
           f == [i \in Q |-> i + 1]
<1>3. IsFiniteSet(P) /\ Cardinality(P) \in Nat
  BY PositionsFinite
<1>4. IsFiniteSet(P \ {1}) /\ Cardinality(P \ {1}) = IF 1 \in P THEN Cardinality(P) - 1 ELSE Cardinality(P)
  BY <1>3, FS_RemoveElement
<1>5. 1 \in P <=> Head(s) = c
  BY <1>1, <1>2 DEF Positions
<1>6. \A i \in Q : i \in Nat /\ i + 1 \in P \ {1}
  BY <1>1, <1>2 DEF Positions
<1>7. ASSUME NEW t \in P \ {1} PROVE t - 1 \in Q /\ (t - 1) + 1 = t
  <2>1. t \in 1..Len(s) /\ s[t] = c /\ t # 1
    BY <1>2 DEF Positions
  <2>2. t - 1 \in 1..Len(s) - 1 /\ (t - 1) + 1 = t
    BY <2>1, <1>2
  <2> QED BY <2>1, <2>2, <1>1, <1>2 DEF Positions
<1> HIDE DEF P, Q
<1>8. /\ f \in [Q -> P \ {1}]
      /\ \A a, b \in Q : f[a] = f[b] => a = b
      /\ \A t \in P \ {1} : \E a \in Q : f[a] = t
  BY <1>6, <1>7
<1> HIDE DEF f
<1>9. Cardinality(Q) = Cardinality(P \ {1})
  BY <1>4, <1>8, Matched
<1>10. Cardinality(P \ {1}) \in Nat
  BY <1>4, FS_CardinalityType
<1> QED BY <1>3, <1>4, <1>5, <1>9, <1>10 DEF P, Q

LEMMA ThreadFields ==
  ASSUME NEW t \in ThreadStates
  PROVE  /\ t.at \in Places /\ t.link \in Links \cup {0} /\ t.left \in SUBSET Links
         /\ t.in \in Seq({"dead", "clear"})
BY DEF ThreadStates

\* What one thread has not acknowledged.
Weight(t) ==
  Cardinality(Positions(t.in, "dead"))
    + (IF t.at \in {"unsent", "clearing", "reporting", "done"} THEN 1 ELSE 0)
    + (IF t.at = "done" /\ t.left # {} THEN 1 ELSE 0)

LEMMA UnackWeight ==
  ASSUME NEW t \in ThreadStates
  PROVE  IsFiniteSet(UnackOf(t)) /\ Cardinality(UnackOf(t)) = Weight(t) /\ Weight(t) \in Nat
<1> DEFINE A == Positions(t.in, "dead")
           B == A \cup (IF t.at \in {"unsent", "clearing", "reporting", "done"} THEN {0} ELSE {})
           C == B \cup (IF t.at = "done" /\ t.left # {} THEN {-1} ELSE {})
<1>1. IsFiniteSet(A) /\ Cardinality(A) \in Nat
  BY ThreadFields, PositionsFinite
<1>2. \A i \in A : i \in Nat /\ i >= 1
  <2>1. DOMAIN t.in = 1..Len(t.in) /\ Len(t.in) \in Nat
    BY ThreadFields, LenProperties
  <2> QED BY <2>1 DEF Positions
<1>3. 0 \notin A /\ -1 \notin A
  BY <1>2
<1> HIDE DEF A
<1>4. /\ IsFiniteSet(B) /\ -1 \notin B
      /\ Cardinality(B) = Cardinality(A) + (IF t.at \in {"unsent", "clearing", "reporting", "done"} THEN 1 ELSE 0)
  <2>1. IsFiniteSet(A \cup {0}) /\ Cardinality(A \cup {0}) = Cardinality(A) + 1
    BY <1>1, <1>3, FS_AddElement
  <2> QED BY <2>1, <1>1, <1>3
<1> HIDE DEF B
<1>5. /\ IsFiniteSet(C)
      /\ Cardinality(C) = Cardinality(B) + (IF t.at = "done" /\ t.left # {} THEN 1 ELSE 0)
  <2>1. IsFiniteSet(B \cup {-1}) /\ Cardinality(B \cup {-1}) = Cardinality(B) + 1
    BY <1>4, FS_AddElement
  <2>2. Cardinality(B) \in Nat
    BY <1>4, FS_CardinalityType
  <2> QED BY <2>1, <2>2, <1>4
<1>6. C = UnackOf(t)
  BY DEF A, B, UnackOf
<1> QED BY <1>1, <1>4, <1>5, <1>6 DEF A, Weight

LEMMA ClearsChange ==
  ASSUME NEW f \in [Thread -> ThreadStates], NEW g \in [Thread -> ThreadStates], NEW th \in Thread,
         \A u \in Thread : u # th => g[u] = f[u], IsFiniteSet(ClearsOf(f))
  PROVE  LET p == Positions(f[th].in, "clear")
             q == Positions(g[th].in, "clear")
         IN  /\ IsFiniteSet(ClearsOf(g)) /\ Cardinality(p) \in Nat /\ Cardinality(q) \in Nat
             /\ Cardinality(ClearsOf(f)) \in Nat /\ Cardinality(ClearsOf(g)) \in Nat
             /\ Cardinality(p) <= Cardinality(ClearsOf(f))
             /\ Cardinality(ClearsOf(g)) = Cardinality(ClearsOf(f)) - Cardinality(p) + Cardinality(q)
<1> DEFINE F == [u \in Thread |-> Positions(f[u].in, "clear")]
           G == [u \in Thread |-> Positions(g[u].in, "clear")]
<1>1. /\ F[th] = Positions(f[th].in, "clear") /\ G[th] = Positions(g[th].in, "clear")
      /\ \A u \in Thread : u # th => G[u] = F[u]
      /\ ClearsOf(f) = Pairs(F) /\ ClearsOf(g) = Pairs(G)
  BY DEF ClearsOf
<1>2. IsFiniteSet(Positions(g[th].in, "clear"))
  <2>1. g[th].in \in Seq({"dead", "clear"})
    BY ThreadFields
  <2> QED BY <2>1, PositionsFinite
<1> HIDE DEF F, G
<1>3. IsFiniteSet(Pairs(F)) /\ IsFiniteSet(G[th]) /\ \A u \in Thread : u # th => G[u] = F[u]
  BY <1>1, <1>2
<1>4. /\ IsFiniteSet(Pairs(G)) /\ IsFiniteSet(F[th])
      /\ Cardinality(Pairs(F)) \in Nat /\ Cardinality(Pairs(G)) \in Nat
      /\ Cardinality(F[th]) \in Nat /\ Cardinality(G[th]) \in Nat
      /\ Cardinality(F[th]) <= Cardinality(Pairs(F))
      /\ Cardinality(Pairs(G)) = Cardinality(Pairs(F)) - Cardinality(F[th]) + Cardinality(G[th])
  BY <1>3, PairsChange
<1> QED BY <1>1, <1>4

LEMMA AcksChange ==
  ASSUME NEW f \in [Thread -> ThreadStates], NEW g \in [Thread -> ThreadStates], NEW th \in Thread,
         \A u \in Thread : u # th => g[u] = f[u], IsFiniteSet(AcksOf(f))
  PROVE  /\ IsFiniteSet(AcksOf(g)) /\ Weight(f[th]) \in Nat /\ Weight(g[th]) \in Nat
         /\ Cardinality(AcksOf(f)) \in Nat /\ Cardinality(AcksOf(g)) \in Nat
         /\ Weight(f[th]) <= Cardinality(AcksOf(f))
         /\ Cardinality(AcksOf(g)) = Cardinality(AcksOf(f)) - Weight(f[th]) + Weight(g[th])
<1> DEFINE F == [u \in Thread |-> UnackOf(f[u])]
           G == [u \in Thread |-> UnackOf(g[u])]
<1>1. /\ F[th] = UnackOf(f[th]) /\ G[th] = UnackOf(g[th])
      /\ \A u \in Thread : u # th => G[u] = F[u]
      /\ AcksOf(f) = Pairs(F) /\ AcksOf(g) = Pairs(G)
  BY DEF AcksOf
<1>2. /\ IsFiniteSet(UnackOf(g[th])) /\ Cardinality(UnackOf(g[th])) = Weight(g[th])
      /\ Cardinality(UnackOf(f[th])) = Weight(f[th])
  <2>1. f[th] \in ThreadStates /\ g[th] \in ThreadStates
    OBVIOUS
  <2> QED BY <2>1, UnackWeight
<1> HIDE DEF F, G
<1>3. IsFiniteSet(Pairs(F)) /\ IsFiniteSet(G[th]) /\ \A u \in Thread : u # th => G[u] = F[u]
  BY <1>1, <1>2
<1>4. /\ IsFiniteSet(Pairs(G)) /\ IsFiniteSet(F[th])
      /\ Cardinality(Pairs(F)) \in Nat /\ Cardinality(Pairs(G)) \in Nat
      /\ Cardinality(F[th]) \in Nat /\ Cardinality(G[th]) \in Nat
      /\ Cardinality(F[th]) <= Cardinality(Pairs(F))
      /\ Cardinality(Pairs(G)) = Cardinality(Pairs(F)) - Cardinality(F[th]) + Cardinality(G[th])
  BY <1>3, PairsChange
<1> QED BY <1>1, <1>2, <1>4

LEMMA SameCounts ==
  ASSUME NEW f, NEW g,
         \A u \in Thread : g[u].in = f[u].in /\ UnackOf(g[u]) = UnackOf(f[u])
  PROVE  ClearsOf(g) = ClearsOf(f) /\ AcksOf(g) = AcksOf(f)
<1>1. [u \in Thread |-> Positions(g[u].in, "clear")] = [u \in Thread |-> Positions(f[u].in, "clear")]
  OBVIOUS
<1>2. [u \in Thread |-> UnackOf(g[u])] = [u \in Thread |-> UnackOf(f[u])]
  OBVIOUS
<1> QED BY <1>1, <1>2 DEF ClearsOf, AcksOf

\* The live records are those of the reference and of the lists.
LEMMA LiveCount ==
  ASSUME NEW dr, DriverInv(dr)
  PROVE  /\ IsFiniteSet(LiveIn(dr)) /\ Cardinality(LiveIn(dr)) \in Nat
         /\ dr.ref # NoDeath => Cardinality(LiveIn(dr)) >= 1
         /\ dr.delivered # <<>> => Cardinality(LiveIn(dr)) >= 1
<1>1. /\ dr \in Drivers /\ dr.made \in Nat /\ dr.ref \in Deaths \cup {NoDeath}
      /\ dr.delivered \in Seq(Deaths) /\ dr.frees \in [Deaths -> Nat]
      /\ RefOK(dr) /\ \A x \in Deaths : RecordOK(dr, x)
  BY DriverFields DEF DriverInv, RecordsOK
<1>2. IsFiniteSet(1..dr.made) /\ LiveIn(dr) \in SUBSET (1..dr.made)
  <2>1. 1 \in Int /\ dr.made \in Int
    BY <1>1
  <2>2. IsFiniteSet(1..dr.made)
    BY <2>1, FS_Interval
  <2> QED BY <2>2 DEF LiveIn
<1>3. IsFiniteSet(LiveIn(dr))
  BY <1>2, FS_Subset
<1>4. Cardinality(LiveIn(dr)) \in Nat
  BY <1>3, FS_CardinalityType
<1>5. LiveIn(dr) # {} => Cardinality(LiveIn(dr)) >= 1
  BY <1>3, <1>4, FS_EmptySet
<1>6. ASSUME dr.ref # NoDeath PROVE dr.ref \in LiveIn(dr)
  <2>1. dr.ref \in Deaths /\ dr.ref <= dr.made /\ RecordOK(dr, dr.ref)
    BY <1>1, <1>6 DEF RefOK
  <2>2. dr.ref \in Nat /\ dr.ref > 0
    BY <2>1, Counters
  <2>3. dr.frees[dr.ref] = 0
    BY <2>1, <1>1 DEF RecordOK
  <2> QED BY <2>1, <2>2, <2>3, <1>1 DEF LiveIn
<1>7. ASSUME dr.delivered # <<>> PROVE LiveIn(dr) # {}
  <2> DEFINE x == Head(dr.delivered)
  <2>1. x \in Deaths /\ x \in Elements(dr.delivered)
    BY <1>1, <1>7, TailList
  <2>2. x <= dr.made /\ dr.frees[x] = 0
    BY <2>1, <1>1 DEF RecordOK, OnList
  <2>3. x \in Nat /\ x > 0
    BY <2>1, Counters
  <2> HIDE DEF x
  <2> QED BY <2>2, <2>3, <1>1 DEF LiveIn
<1> QED BY <1>3, <1>4, <1>5, <1>6, <1>7

-----------------------------------------------------------------------------
(* The steps. *)

LEMMA StateFacts ==
  ASSUME IInv
  PROVE  /\ driver \in Drivers /\ driver.made \in Nat /\ driver.node \in BOOLEAN
         /\ driver.open \in BOOLEAN /\ driver.delivered \in Seq(Deaths)
         /\ driver.ref \in Deaths \cup {NoDeath}
         /\ links \in Nat /\ links <= MaxLinks /\ driver.made <= links
         /\ proxy \in Proxies /\ proxy.exists \in BOOLEAN /\ proxy.held \in BOOLEAN
         /\ proxy.refs \in Nat /\ proxy.vector \in BOOLEAN /\ proxy.sent \in BOOLEAN
         /\ proxy.obituaries \in SUBSET Links
         /\ lock \in Thread \cup {NoThread}
         /\ thread \in [Thread -> ThreadStates] /\ fate \in [Links -> Fates]
<1>1. DriverInv(driver) /\ ThreadInv /\ ProxyInv /\ FateInv
  BY DEF IInv
<1>2. driver \in Drivers
  BY <1>1 DEF DriverInv
<1>3. /\ driver.made \in Nat /\ driver.node \in BOOLEAN
      /\ driver.open \in BOOLEAN /\ driver.delivered \in Seq(Deaths)
      /\ driver.ref \in Deaths \cup {NoDeath}
  BY <1>2, DriverFields
<1>4. proxy \in Proxies
  BY <1>1 DEF ProxyInv
<1>5. /\ proxy.exists \in BOOLEAN /\ proxy.held \in BOOLEAN
      /\ proxy.refs \in Nat /\ proxy.vector \in BOOLEAN /\ proxy.sent \in BOOLEAN
      /\ proxy.obituaries \in SUBSET Links
  BY <1>4 DEF Proxies
<1> QED BY <1>1, <1>2, <1>3, <1>4, <1>5, Counters DEF ThreadInv, FateInv

LEMMA ThreadFacts ==
  ASSUME IInv, NEW th \in Thread
  PROVE  /\ thread[th] \in ThreadStates /\ thread[th].at \in Places
         /\ thread[th].link \in Links \cup {0} /\ thread[th].left \in SUBSET Links
         /\ thread[th].in \in Seq({"dead", "clear"}) /\ ThreadOK(th) /\ FateOK(th)
<1>1. thread[th] \in ThreadStates
  BY StateFacts
<1> QED BY <1>1, ThreadFields DEF IInv, ThreadInv, FateInv

-----------------------------------------------------------------------------
\* What a step of thread th leaves to the other threads: either nobody else is
\* in mLock, or what they rely on there stays.
LEMMA OtherThreads ==
  ASSUME IInv, NEW th, \A u \in Thread : u # th => thread'[u] = thread[u],
         proxy.sent => proxy'.sent,
         \/ lock \in {th, NoThread} /\ lock' \in {th, NoThread}
         \/ /\ lock' = lock /\ links' = links
            /\ proxy.vector => proxy'.vector
            /\ proxy.held => proxy'.held
            /\ proxy'.obituaries \subseteq proxy.obituaries
            /\ driver.ref = NoDeath => driver'.ref = NoDeath
            /\ driver'.open => driver.open /\ (driver.ref # NoDeath => driver'.ref # NoDeath)
  PROVE  \A u \in Thread : u # th => ThreadOK(u)'
<1> SUFFICES ASSUME NEW u \in Thread, u # th PROVE ThreadOK(u)'
  OBVIOUS
<1>1. ThreadOK(u) /\ thread'[u] = thread[u] /\ u # NoThread
  BY ThreadFacts, DeathAssumption
<1>2. CASE lock \in {th, NoThread} /\ lock' \in {th, NoThread}
  <2>1. thread[u].at \notin Holding
    BY <1>1, <1>2 DEF ThreadOK
  <2> QED BY <1>1, <1>2, <2>1 DEF ThreadOK, Holding
<1>3. CASE /\ lock' = lock /\ links' = links
           /\ proxy.vector => proxy'.vector
           /\ proxy.held => proxy'.held
           /\ proxy'.obituaries \subseteq proxy.obituaries
           /\ driver.ref = NoDeath => driver'.ref = NoDeath
           /\ driver'.open => driver.open /\ (driver.ref # NoDeath => driver'.ref # NoDeath)
  BY <1>1, <1>3 DEF ThreadOK, Holding
<1> QED BY <1>2, <1>3

\* A step of thread th that changes no recipient's fate.
LEMMA SameFates ==
  ASSUME IInv, NEW th, \A u \in Thread : u # th => thread'[u] = thread[u],
         UNCHANGED <<fate, links>>, proxy'.obituaries \subseteq proxy.obituaries,
         ~driver.node => ~driver'.node, proxy'.sent => ~driver'.node,
         th \in Thread =>
           /\ thread'[th].at = "linking" => thread[th].at = "linking" /\ thread'[th].link = thread[th].link
           /\ thread'[th].at \in {"unsent", "clearing"} => ~driver'.node
           /\ \A i \in DOMAIN thread'[th].in : thread'[th].in[i] = "dead" => ~driver'.node
           /\ thread'[th].left \subseteq thread[th].left \cup (proxy.obituaries \ proxy'.obituaries)
  PROVE  FateInv'
<1>1. FateInv /\ \A u \in Thread : FateOK(u)
  BY DEF IInv, FateInv
<1>2. ASSUME NEW u \in Thread, u # th PROVE FateOK(u)'
  <2>1. FateOK(u) /\ thread'[u] = thread[u]
    BY <1>1, <1>2
  <2>2. ASSUME NEW l \in thread[u].left
        PROVE  /\ fate[l] = "linked" /\ l \notin proxy.obituaries
               /\ \A v \in Thread : v # u => l \notin thread[v].left
    BY <2>1 DEF FateOK
  <2>3. ASSUME NEW l \in thread[u].left, NEW v \in Thread, v # u PROVE l \notin thread'[v].left
    <3>1. CASE v = th
      BY <2>2, <2>3, <3>1
    <3>2. CASE v # th
      BY <2>2, <2>3, <3>2
    <3> QED BY <3>1, <3>2
  <2> QED BY <2>1, <2>2, <2>3 DEF FateOK
<1>3. ASSUME th \in Thread PROVE FateOK(th)'
  <2>1. FateOK(th)
    BY <1>1, <1>3
  <2>2. ASSUME NEW l \in thread'[th].left
        PROVE  /\ fate[l] = "linked" /\ l \notin proxy'.obituaries
               /\ \A v \in Thread : v # th => l \notin thread'[v].left
    <3>1. l \in thread[th].left \/ (l \in proxy.obituaries /\ l \notin proxy'.obituaries)
      BY <1>3, <2>2
    <3>2. CASE l \in thread[th].left
      BY <2>1, <3>2 DEF FateOK
    <3>3. CASE l \in proxy.obituaries /\ l \notin proxy'.obituaries
      BY <1>1, <3>3 DEF FateOK, FateInv
    <3> QED BY <3>1, <3>2, <3>3
  <2> QED BY <1>3, <2>1, <2>2 DEF FateOK
<1>4. \A u \in Thread : FateOK(u)'
  BY <1>2, <1>3
<1> QED BY <1>1, <1>4 DEF FateInv

Clears(t)     == Cardinality(Positions(t.in, "clear"))
ClearCount(f) == Cardinality(ClearsOf(f))
AckCount(f)   == Cardinality(AcksOf(f))
LiveNumber(r) == Cardinality(LiveIn(r))

LEMMA Counts ==
  ASSUME IInv
  PROVE  /\ ClearCount(thread) \in Nat /\ AckCount(thread) \in Nat /\ LiveNumber(driver) \in Nat
         /\ proxy.refs \in Nat /\ proxy.refs >= LiveNumber(driver) + ClearCount(thread)
         /\ Quiet => proxy.refs = LiveNumber(driver) + ClearCount(thread) /\ driver.open
         /\ driver.open => Len(driver.delivered) = AckCount(thread)
<1>1. CountInv /\ DriverInv(driver)
  BY DEF IInv
<1>2. LiveNumber(driver) \in Nat
  BY <1>1, LiveCount DEF LiveNumber
<1>3. ClearCount(thread) \in Nat /\ AckCount(thread) \in Nat
  BY <1>1, FS_CardinalityType DEF CountInv, ClearCount, AckCount
<1>4. proxy.refs \in Nat
  BY StateFacts
<1> QED BY <1>1, <1>2, <1>3, <1>4 DEF CountInv, ClearCount, AckCount, LiveNumber

\* How a step of thread th changes what is unread and unacknowledged.
LEMMA CountsChange ==
  ASSUME IInv, NEW th \in Thread, thread' \in [Thread -> ThreadStates],
         \A u \in Thread : u # th => thread'[u] = thread[u]
  PROVE  /\ IsFiniteSet(ClearsOf(thread')) /\ IsFiniteSet(AcksOf(thread'))
         /\ Clears(thread[th]) \in Nat /\ Clears(thread'[th]) \in Nat
         /\ Weight(thread[th]) \in Nat /\ Weight(thread'[th]) \in Nat
         /\ ClearCount(thread') \in Nat /\ AckCount(thread') \in Nat
         /\ Clears(thread[th]) <= ClearCount(thread) /\ Weight(thread[th]) <= AckCount(thread)
         /\ ClearCount(thread') = ClearCount(thread) - Clears(thread[th]) + Clears(thread'[th])
         /\ AckCount(thread') = AckCount(thread) - Weight(thread[th]) + Weight(thread'[th])
<1>1. IsFiniteSet(ClearsOf(thread)) /\ IsFiniteSet(AcksOf(thread)) /\ thread \in [Thread -> ThreadStates]
  BY DEF IInv, CountInv, ThreadInv
<1>2. LET p == Positions(thread[th].in, "clear")
          q == Positions(thread'[th].in, "clear")
      IN  /\ IsFiniteSet(ClearsOf(thread')) /\ Cardinality(p) \in Nat /\ Cardinality(q) \in Nat
          /\ Cardinality(ClearsOf(thread)) \in Nat /\ Cardinality(ClearsOf(thread')) \in Nat
          /\ Cardinality(p) <= Cardinality(ClearsOf(thread))
          /\ Cardinality(ClearsOf(thread')) = Cardinality(ClearsOf(thread)) - Cardinality(p) + Cardinality(q)
  BY <1>1, ClearsChange
<1>3. /\ IsFiniteSet(AcksOf(thread')) /\ Weight(thread[th]) \in Nat /\ Weight(thread'[th]) \in Nat
      /\ Cardinality(AcksOf(thread)) \in Nat /\ Cardinality(AcksOf(thread')) \in Nat
      /\ Weight(thread[th]) <= Cardinality(AcksOf(thread))
      /\ Cardinality(AcksOf(thread')) = Cardinality(AcksOf(thread)) - Weight(thread[th]) + Weight(thread'[th])
  BY <1>1, AcksChange
<1> QED BY <1>2, <1>3 DEF Clears, ClearCount, AckCount

\* A step of thread th after which as much is unread and unacknowledged.
LEMMA SameCountInv ==
  ASSUME IInv, NEW th \in Thread, thread' \in [Thread -> ThreadStates],
         \A u \in Thread : u # th => thread'[u] = thread[u],
         Clears(thread'[th]) = Clears(thread[th]), Weight(thread'[th]) = Weight(thread[th]),
         proxy'.refs = proxy.refs, LiveIn(driver') = LiveIn(driver),
         driver'.open = driver.open, driver'.delivered = driver.delivered
  PROVE  CountInv'
<1>1. /\ IsFiniteSet(ClearsOf(thread')) /\ IsFiniteSet(AcksOf(thread'))
      /\ ClearCount(thread') = ClearCount(thread) /\ AckCount(thread') = AckCount(thread)
  <2>1. /\ IsFiniteSet(ClearsOf(thread')) /\ IsFiniteSet(AcksOf(thread'))
        /\ Clears(thread[th]) \in Nat /\ Weight(thread[th]) \in Nat
        /\ ClearCount(thread') = ClearCount(thread) - Clears(thread[th]) + Clears(thread'[th])
        /\ AckCount(thread') = AckCount(thread) - Weight(thread[th]) + Weight(thread'[th])
    BY CountsChange
  <2>2. ClearCount(thread) \in Nat /\ AckCount(thread) \in Nat
    BY Counts
  <2> QED BY <2>1, <2>2
<1>2. /\ proxy.refs >= LiveNumber(driver) + ClearCount(thread)
      /\ Quiet => proxy.refs = LiveNumber(driver) + ClearCount(thread) /\ driver.open
      /\ driver.open => Len(driver.delivered) = AckCount(thread)
  BY Counts
<1> QED BY <1>1, <1>2 DEF CountInv, LiveNumber, ClearCount, AckCount, Quiet

-----------------------------------------------------------------------------
\* The call of linkToDeath that comes next.
LEMMA NextLink ==
  ASSUME IInv, links < MaxLinks
  PROVE  /\ links \in Nat /\ links + 1 \in Links /\ fate[links + 1] = "new"
         /\ links + 1 \in 0..MaxLinks
<1>1. links \in Nat /\ MaxLinks \in Nat /\ FateInv
  BY StateFacts, Counters DEF IInv
<1>2. links + 1 \in Links /\ links + 1 \in 0..MaxLinks /\ links + 1 > links
  BY <1>1 DEF Links
<1> QED BY <1>1, <1>2 DEF FateInv

LEMMA LinkRefused ==
  ASSUME IInv, driver.open, links < MaxLinks, proxy.sent, lock = NoThread,
         links' = links + 1, fate' = [fate EXCEPT ![links'] = "refused"],
         UNCHANGED <<driver, proxy, lock, thread>>
  PROVE  IInv'
<1>1. links + 1 \in Links /\ fate[links + 1] = "new" /\ links \in Nat
  BY NextLink
<1>2. ASSUME NEW th \in Thread PROVE thread[th].at # "linking" /\ ThreadOK(th) /\ FateOK(th)
  BY ThreadFacts, DeathAssumption DEF ThreadOK, Holding
<1>3. DriverInv(driver)'
  BY DEF IInv
<1>4. ThreadInv'
  <2>1. ASSUME NEW th \in Thread PROVE ThreadOK(th)'
    BY <1>2 DEF ThreadOK
  <2> QED BY <2>1, <1>1, StateFacts, DeathAssumption DEF ThreadInv, Links
<1>5. ProxyInv'
  BY DEF IInv, ProxyInv, DriverAgrees
<1>6. CountInv'
  BY DEF IInv, CountInv
<1>7. FateInv'
  <2>1. fate' \in [Links -> Fates] /\ \A l \in Links : l # links + 1 => fate'[l] = fate[l]
    BY StateFacts DEF Fates
  <2>2. \A l \in Links : l > links + 1 => l > links /\ l # links + 1
    BY <1>1 DEF Links
  <2>3. ASSUME NEW th \in Thread PROVE FateOK(th)'
    <3>1. \A l \in thread[th].left : l \in Links /\ l # links + 1
      BY <1>1, <1>2, ThreadFacts DEF FateOK
    <3> QED BY <1>2, <2>1, <3>1 DEF FateOK
  <2>4. \A l \in proxy.obituaries : l \in Links /\ l # links + 1
    BY <1>1, StateFacts DEF IInv, FateInv
  <2> QED BY <2>1, <2>2, <2>3, <2>4 DEF IInv, FateInv
<1> QED BY <1>3, <1>4, <1>5, <1>6, <1>7 DEF IInv

LEMMA LinkAccepted ==
  ASSUME IInv, driver.open, NEW th \in Thread, InApplication(th), proxy.held, links < MaxLinks,
         ~proxy.sent, TakeLock(th), links' = links + 1,
         thread' = [thread EXCEPT ![th].at = "linking", ![th].link = links'],
         proxy' = Watched(proxy),
         driver' = IF proxy.vector THEN driver ELSE RequestDeath(driver, th),
         UNCHANGED fate
  PROVE  IInv'
<1>1. /\ thread[th].at = "idle" /\ thread[th].in = <<>> /\ thread[th].left = {}
      /\ lock = NoThread /\ lock' = th
  BY ThreadFacts DEF InApplication, ThreadOK, TakeLock
<1>2. proxy.vector <=> driver.ref # NoDeath
  BY <1>1 DEF IInv, ProxyInv, DriverAgrees
<1>3. /\ DriverInv(driver') /\ driver'.ref # NoDeath /\ driver'.open
      /\ driver'.delivered = driver.delivered /\ driver'.node = driver.node
      /\ proxy.vector => driver' = driver
      /\ ~proxy.vector => /\ driver'.made = driver.made + 1
                          /\ LiveIn(driver') = LiveIn(driver) \cup {driver'.made}
  <2>1. CASE proxy.vector
    BY <1>2, <2>1 DEF IInv
  <2>2. CASE ~proxy.vector
    <3>1. DriverInv(driver) /\ driver.made < MaxLinks /\ driver.ref = NoDeath
      BY <1>2, <2>2, StateFacts, Counters DEF IInv
    <3>2. LET q == RequestDeath(driver, th)
          IN  /\ DriverInv(q) /\ q.ref # NoDeath /\ q.open /\ q.delivered = driver.delivered
              /\ q.node = driver.node
              /\ driver.ref # NoDeath => q = driver
              /\ driver.ref = NoDeath => /\ q.made = driver.made + 1
                                         /\ LiveIn(q) = LiveIn(driver) \cup {q.made}
      BY <3>1, RequestDeathEffect
    <3> QED BY <2>2, <3>1, <3>2
  <2> QED BY <2>1, <2>2
<1>4. /\ proxy' \in [exists : BOOLEAN, held : BOOLEAN, refs : Nat, vector : BOOLEAN,
                     obituaries : SUBSET Links, sent : BOOLEAN]
      /\ proxy'.vector /\ ~proxy'.sent /\ proxy'.held /\ proxy'.exists = proxy.exists
      /\ proxy'.obituaries = proxy.obituaries
      /\ proxy'.refs = IF proxy.vector THEN proxy.refs ELSE proxy.refs + 1
  <2>0. /\ proxy.refs \in Nat
        /\ proxy \in [exists : BOOLEAN, held : BOOLEAN, refs : Nat, vector : BOOLEAN,
                      obituaries : SUBSET Links, sent : BOOLEAN]
    <3>1. proxy \in Proxies /\ proxy.refs \in Nat
      BY StateFacts
    <3> QED BY <3>1 DEF Proxies
  <2>1. CASE proxy.vector
    BY <2>0, <2>1 DEF Watched
  <2>2. CASE ~proxy.vector
    <3>1. proxy' = [proxy EXCEPT !.vector = TRUE, !.refs = proxy.refs + 1]
      BY <2>2 DEF Watched
    <3>2. proxy.refs + 1 \in Nat
      BY <2>0
    <3> QED BY <2>0, <2>2, <3>1, <3>2
  <2> QED BY <2>1, <2>2
<1>5. /\ thread' \in [Thread -> ThreadStates]
      /\ thread'[th].at = "linking" /\ thread'[th].link = links + 1
      /\ thread'[th].left = {} /\ thread'[th].in = <<>>
      /\ \A u \in Thread : u # th => thread'[u] = thread[u]
  <2>1. links + 1 \in Links
    BY NextLink
  <2> DEFINE r == [thread[th] EXCEPT !.at = "linking", !.link = links + 1]
  <2>2. /\ r \in ThreadStates /\ r.at = "linking" /\ r.link = links + 1 /\ r.left = {} /\ r.in = <<>>
    BY <2>1, <1>1, ThreadFacts DEF ThreadStates, Places
  <2>3. thread' = [thread EXCEPT ![th] = r]
    BY StateFacts
  <2> HIDE DEF r
  <2> QED BY <2>2, <2>3, StateFacts
<1>6. \A u \in Thread : thread[u].at \notin Holding
  BY <1>1, ThreadFacts, DeathAssumption DEF ThreadOK
<1>7. ThreadInv'
  <2>1. ASSUME NEW u \in Thread PROVE ThreadOK(u)'
    <3>1. CASE u = th
      BY <3>1, <1>1, <1>3, <1>4, <1>5, StateFacts DEF ThreadOK, Holding
    <3>2. CASE u # th
      <4>1. ThreadOK(u) /\ thread[u].at \notin Holding /\ thread'[u] = thread[u]
        BY <3>2, <1>5, <1>6, ThreadFacts
      <4>2. thread[u].left = {}
        BY <4>1 DEF ThreadOK
      <4> QED BY <3>2, <4>1, <4>2, <1>1 DEF ThreadOK, Holding
    <3> QED BY <3>1, <3>2
  <2>2. links' \in 0..MaxLinks /\ driver'.made <= links'
    <3>1. /\ links + 1 \in 0..MaxLinks /\ links \in Nat /\ driver.made \in Nat
          /\ driver.made <= links
      BY NextLink, StateFacts
    <3>2. driver'.made = driver.made \/ driver'.made = driver.made + 1
      BY <1>3
    <3> QED BY <3>1, <3>2
  <2> QED BY <2>1, <2>2, <1>1, <1>5 DEF ThreadInv
<1>8. /\ ClearsOf(thread') = ClearsOf(thread) /\ AcksOf(thread') = AcksOf(thread)
  <2>1. UnackOf(thread'[th]) = UnackOf(thread[th]) /\ thread'[th].in = thread[th].in
    BY <1>1, <1>5 DEF UnackOf
  <2>2. \A u \in Thread : thread'[u].in = thread[u].in /\ UnackOf(thread'[u]) = UnackOf(thread[u])
    BY <2>1, <1>5
  <2> QED BY <2>2, SameCounts
<1>9. CountInv'
  <2>1. /\ IsFiniteSet(ClearsOf(thread)) /\ IsFiniteSet(AcksOf(thread))
        /\ Cardinality(ClearsOf(thread)) \in Nat
        /\ IsFiniteSet(LiveIn(driver)) /\ Cardinality(LiveIn(driver)) \in Nat
    BY LiveCount, FS_CardinalityType DEF IInv, CountInv
  <2>2. Cardinality(LiveIn(driver')) = Cardinality(LiveIn(driver)) + (IF proxy.vector THEN 0 ELSE 1)
    <3>1. CASE proxy.vector
      BY <3>1, <2>1, <1>3
    <3>2. CASE ~proxy.vector
      <4>1. driver'.made \notin LiveIn(driver)
        <5>1. driver.made \in Nat /\ driver'.made = driver.made + 1
          BY <3>2, <1>3, StateFacts
        <5> QED BY <5>1 DEF LiveIn
      <4> QED BY <3>2, <4>1, <2>1, <1>3, FS_AddElement
    <3> QED BY <3>1, <3>2
  <2> QED BY <2>1, <2>2, <1>3, <1>4, <1>8, StateFacts DEF IInv, CountInv
<1>10. ProxyInv'
  <2>0. /\ proxy.refs \in Nat /\ driver.made \in Nat /\ proxy.refs <= driver.made
        /\ driver'.made \in 0..MaxLinks /\ MaxLinks \in Nat
    <3>1. driver' \in Drivers
      BY <1>3 DEF DriverInv
    <3>2. driver'.made \in 0..MaxLinks
      BY <3>1 DEF Drivers
    <3> QED BY <3>2, StateFacts, Counters DEF IInv, ProxyInv
  <2>1. proxy'.refs <= driver'.made /\ proxy'.refs \in 0..MaxLinks
    <3>1. CASE proxy.vector
      BY <3>1, <2>0, <1>3, <1>4
    <3>2. CASE ~proxy.vector
      BY <3>2, <2>0, <1>3, <1>4
    <3> QED BY <3>1, <3>2
  <2>2. proxy' \in Proxies
    BY <2>1, <1>4 DEF Proxies
  <2> QED BY <2>1, <2>2, <1>3, <1>4, DeathAssumption DEF IInv, ProxyInv, DriverAgrees
<1>11. FateInv'
  <2>1. fate[links + 1] = "new" /\ links \in Nat
    BY NextLink
  <2>2. ASSUME NEW u \in Thread PROVE FateOK(u)'
    <3>1. CASE u = th
      BY <3>1, <2>1, <1>5 DEF FateOK
    <3>2. CASE u # th
      <4>1. FateOK(u) /\ ThreadOK(u) /\ thread'[u] = thread[u]
        BY <3>2, <1>5, ThreadFacts
      <4>2. thread[u].left = {}
        BY <4>1 DEF ThreadOK
      <4> QED BY <4>1, <4>2, <1>3, <1>6 DEF FateOK, Holding
    <3> QED BY <3>1, <3>2
  <2>3. \A l \in Links : l > links + 1 => l > links
    BY <2>1 DEF Links
  <2> QED BY <2>2, <2>3, <1>3, <1>4 DEF IInv, FateInv
<1> QED BY <1>3, <1>7, <1>9, <1>10, <1>11 DEF IInv

LEMMA GoToEffect ==
  ASSUME IInv, NEW th \in Thread, NEW place \in Places, GoTo(th, place)
  PROVE  /\ thread' \in [Thread -> ThreadStates]
         /\ thread'[th].at = place /\ thread'[th].link = thread[th].link
         /\ thread'[th].left = thread[th].left /\ thread'[th].in = thread[th].in
         /\ \A u \in Thread : u # th => thread'[u] = thread[u]
<1> DEFINE r == [thread[th] EXCEPT !.at = place]
<1>1. /\ r \in ThreadStates /\ r.at = place /\ r.link = thread[th].link
      /\ r.left = thread[th].left /\ r.in = thread[th].in
  BY ThreadFacts DEF ThreadStates
<1>2. thread' = [thread EXCEPT ![th] = r] /\ thread \in [Thread -> ThreadStates]
  BY StateFacts DEF GoTo
<1> HIDE DEF r
<1> QED BY <1>1, <1>2

LEMMA AddObituaryStep ==
  ASSUME IInv, driver.open, NEW th \in Thread, AddObituary(th)
  PROVE  IInv'
<1> DEFINE l == thread[th].link
<1>1. /\ thread[th].at = "linking" /\ lock = th /\ lock' = NoThread
      /\ driver.ref # NoDeath /\ proxy.vector /\ proxy.held /\ l = links /\ links > 0
      /\ thread[th].left = {} /\ thread[th].in = <<>> /\ fate[l] = "new"
  BY ThreadFacts DEF AddObituary, At, Unlock, ThreadOK, FateOK, Holding
<1>2. l \in Links
  BY <1>1, StateFacts DEF Links
<1>3. /\ fate' \in [Links -> Fates] /\ fate'[l] = "linked"
      /\ \A x \in Links : x # l => fate'[x] = fate[x]
  BY <1>2, StateFacts DEF AddObituary, Fates
<1>4. /\ proxy' \in Proxies /\ proxy'.obituaries = proxy.obituaries \cup {l}
      /\ proxy'.exists = proxy.exists /\ proxy'.held = proxy.held /\ proxy'.refs = proxy.refs
      /\ proxy'.vector = proxy.vector /\ proxy'.sent = proxy.sent
  BY <1>2, StateFacts DEF AddObituary, Proxies
<1>5. /\ thread' \in [Thread -> ThreadStates]
      /\ thread'[th].at = "idle" /\ thread'[th].left = {} /\ thread'[th].in = <<>>
      /\ \A u \in Thread : u # th => thread'[u] = thread[u]
  <2> DEFINE r == [thread[th] EXCEPT !.at = "idle", !.link = 0]
  <2>1. r \in ThreadStates /\ r.at = "idle" /\ r.left = {} /\ r.in = <<>>
    BY <1>1, ThreadFacts DEF ThreadStates, Places
  <2>2. thread' = [thread EXCEPT ![th] = r] /\ thread \in [Thread -> ThreadStates]
    BY StateFacts DEF AddObituary
  <2> HIDE DEF r
  <2> QED BY <2>1, <2>2
<1>6. UNCHANGED <<driver, links>>
  BY DEF AddObituary
<1> HIDE DEF l
<1>7. DriverInv(driver)'
  BY <1>6 DEF IInv
<1>8. ThreadInv'
  <2>1. \A u \in Thread : u # th => ThreadOK(u)'
    BY <1>1, <1>4, <1>5, OtherThreads
  <2>2. ThreadOK(th)'
    BY <1>1, <1>5, DeathAssumption DEF ThreadOK, Holding
  <2> QED BY <1>1, <1>5, <1>6, <2>1, <2>2 DEF IInv, ThreadInv
<1>9. ProxyInv'
  BY <1>1, <1>4, <1>6 DEF IInv, ProxyInv, DriverAgrees
<1>10. CountInv'
  <2>1. Clears(thread'[th]) = Clears(thread[th]) /\ Weight(thread'[th]) = Weight(thread[th])
    BY <1>1, <1>5 DEF Clears, Weight
  <2> QED BY <2>1, <1>4, <1>5, <1>6, SameCountInv
<1>11. FateInv'
  <2>1. \A u \in Thread : thread[u].at \notin Holding \/ u = th
    BY <1>1, ThreadFacts DEF ThreadOK
  <2>2. ASSUME NEW u \in Thread, NEW x \in thread'[u].left
        PROVE  /\ x \in thread[u].left /\ u # th /\ x # l /\ fate'[x] = "linked"
               /\ x \notin proxy'.obituaries
    <3>1. u # th /\ x \in thread[u].left
      BY <2>2, <1>5
    <3>2. x \in Links /\ fate[x] = "linked" /\ x \notin proxy.obituaries
      BY <3>1, ThreadFacts DEF FateOK
    <3> QED BY <3>1, <3>2, <1>1, <1>3, <1>4
  <2>3. ASSUME NEW u \in Thread PROVE FateOK(u)'
    <3>1. CASE u = th
      BY <3>1, <1>5 DEF FateOK
    <3>2. CASE u # th
      <4>1. FateOK(u) /\ thread'[u] = thread[u]
        BY <3>2, <1>5, ThreadFacts
      <4>2. thread[u].at # "linking"
        BY <2>1, <3>2 DEF Holding
      <4>3. \A x \in thread[u].left : \A v \in Thread : v # u => x \notin thread'[v].left
        BY <2>2, <4>1 DEF FateOK
      <4> QED BY <4>1, <4>2, <4>3, <2>2, <1>6 DEF FateOK
    <3> QED BY <3>1, <3>2
  <2>4. \A x \in Links : x > links => x # l
    BY <1>1, <1>2, StateFacts DEF Links
  <2>5. \A x \in proxy.obituaries : x \in Links
    BY StateFacts
  <2> QED BY <2>3, <2>4, <2>5, <1>3, <1>4, <1>6 DEF IInv, FateInv
<1> QED BY <1>7, <1>8, <1>9, <1>10, <1>11 DEF IInv

\* What an unlinkToDeath leaves to do for the recipients.
LEMMA UnlinkFates ==
  ASSUME IInv, NEW l \in proxy.obituaries, UNCHANGED links,
         fate' = [fate EXCEPT ![l] = "unlinked"],
         proxy'.obituaries = proxy.obituaries \ {l}, proxy'.sent = proxy.sent,
         driver'.node = driver.node,
         \A u \in Thread : /\ thread'[u].left = thread[u].left /\ thread'[u].in = thread[u].in
                           /\ thread'[u].link = thread[u].link
                           /\ thread'[u].at \in {thread[u].at, "unlinking"}
  PROVE  FateInv'
<1>1. FateInv /\ l \in Links /\ fate[l] = "linked"
  BY StateFacts DEF IInv, FateInv
<1>2. /\ fate' \in [Links -> Fates] /\ fate'[l] = "unlinked"
      /\ \A x \in Links : x # l => fate'[x] = fate[x]
  BY <1>1 DEF FateInv, Fates
<1>3. ASSUME NEW u \in Thread PROVE FateOK(u)'
  <2>1. FateOK(u) /\ thread[u].left \in SUBSET Links /\ thread[u].link \in Links \cup {0}
    BY ThreadFacts
  <2>2. l \notin thread[u].left
    BY <2>1 DEF FateOK
  <2>3. \A x \in thread[u].left : fate'[x] = "linked" /\ x \notin proxy'.obituaries
    BY <2>1, <2>2, <1>2 DEF FateOK
  <2>4. ASSUME thread'[u].at = "linking" PROVE fate'[thread'[u].link] = "new"
    <3>1. thread[u].at = "linking" /\ links > 0 /\ thread[u].link = links
      BY <2>4, ThreadFacts DEF ThreadOK
    <3>2. thread[u].link \in Links
      BY <3>1, StateFacts DEF Links
    <3> QED BY <3>1, <3>2, <2>1, <1>1, <1>2 DEF FateOK
  <2> QED BY <2>1, <2>3, <2>4 DEF FateOK
<1>4. \A x \in Links : x > links => x # l
  BY <1>1 DEF FateInv
<1>5. \A x \in proxy.obituaries : x \in Links
  BY StateFacts
<1> QED BY <1>1, <1>2, <1>3, <1>4, <1>5 DEF FateInv

LEMMA UnlinkToDeathStep ==
  ASSUME IInv, driver.open, NEW th \in Thread, UnlinkToDeath(th)
  PROVE  IInv'
<1>1. PICK l \in proxy.obituaries :
        /\ proxy' = [proxy EXCEPT !.obituaries = @ \ {l}]
        /\ fate' = [fate EXCEPT ![l] = "unlinked"]
        /\ IF proxy.obituaries = {l}
           THEN /\ TakeLock(th)
                /\ GoTo(th, "unlinking")
                /\ driver' = ClearDeath(driver, th)
           ELSE /\ lock = NoThread
                /\ UNCHANGED <<lock, thread, driver>>
  BY DEF UnlinkToDeath
<1>2. /\ InApplication(th) /\ proxy.held /\ ~proxy.sent /\ UNCHANGED links
      /\ lock = NoThread /\ thread[th].in = <<>>
  BY <1>1 DEF UnlinkToDeath, TakeLock, InApplication
<1>3. thread[th].at = "idle" /\ thread[th].left = {} /\ proxy.vector
  <2>1. ThreadOK(th) /\ proxy.vector
    BY <1>1, ThreadFacts DEF IInv, ProxyInv
  <2> QED BY <2>1, <1>2 DEF ThreadOK, InApplication
<1>4. /\ proxy' \in Proxies /\ proxy'.obituaries = proxy.obituaries \ {l}
      /\ proxy'.exists = proxy.exists /\ proxy'.held = proxy.held /\ proxy'.refs = proxy.refs
      /\ proxy'.vector = proxy.vector /\ proxy'.sent = proxy.sent
  BY <1>1, StateFacts DEF Proxies
<1>5. CASE proxy.obituaries # {l}
  <2>1. UNCHANGED <<lock, thread, driver>>
    BY <1>1, <1>5
  <2>2. ThreadInv'
    BY <2>1, <1>2, <1>4 DEF IInv, ThreadInv, ThreadOK
  <2>3. ProxyInv'
    BY <2>1, <1>3, <1>4 DEF IInv, ProxyInv, DriverAgrees
  <2>4. CountInv'
    BY <2>1, <1>4 DEF IInv, CountInv, Quiet
  <2>5. FateInv'
    BY <2>1, <1>1, <1>2, <1>4, UnlinkFates
  <2> QED BY <2>1, <2>2, <2>3, <2>4, <2>5 DEF IInv
<1>6. CASE proxy.obituaries = {l}
  <2>1. lock' = th /\ GoTo(th, "unlinking") /\ driver' = ClearDeath(driver, th)
    BY <1>1, <1>6 DEF TakeLock
  <2>2. /\ thread' \in [Thread -> ThreadStates]
        /\ thread'[th].at = "unlinking" /\ thread'[th].link = thread[th].link
        /\ thread'[th].left = thread[th].left /\ thread'[th].in = thread[th].in
        /\ \A u \in Thread : u # th => thread'[u] = thread[u]
    BY <2>1, GoToEffect DEF Places
  <2>3. /\ DriverInv(driver') /\ driver'.ref = NoDeath /\ driver'.open
        /\ driver'.delivered = driver.delivered
        /\ driver'.node = driver.node /\ driver'.made = driver.made /\ LiveIn(driver') = LiveIn(driver)
    <3>1. LET q == ClearDeath(driver, th)
          IN  /\ DriverInv(q) /\ q.ref = NoDeath /\ q.open /\ q.delivered = driver.delivered
              /\ q.node = driver.node /\ q.made = driver.made /\ LiveIn(q) = LiveIn(driver)
      BY ClearDeathEffect DEF IInv
    <3> QED BY <3>1, <2>1
  <2>4. ThreadInv'
    <3>1. \A u \in Thread : u # th => ThreadOK(u)'
      BY <1>2, <1>4, <2>1, <2>2, OtherThreads
    <3>2. ThreadOK(th)'
      BY <1>2, <1>3, <1>4, <1>6, <2>1, <2>2, <2>3 DEF ThreadOK, Holding
    <3> QED BY <1>2, <2>1, <2>2, <2>3, <3>1, <3>2 DEF IInv, ThreadInv
  <2>5. ProxyInv'
    BY <1>2, <1>3, <1>4, <2>1, <2>3, DeathAssumption DEF IInv, ProxyInv, DriverAgrees
  <2>6. CountInv'
    <3>1. Clears(thread'[th]) = Clears(thread[th]) /\ Weight(thread'[th]) = Weight(thread[th])
      BY <1>3, <2>2 DEF Clears, Weight
    <3> QED BY <3>1, <1>4, <2>2, <2>3, SameCountInv
  <2>7. FateInv'
    <3>1. \A u \in Thread : /\ thread'[u].left = thread[u].left /\ thread'[u].in = thread[u].in
                            /\ thread'[u].link = thread[u].link
                            /\ thread'[u].at \in {thread[u].at, "unlinking"}
      BY <2>2
    <3> QED BY <3>1, <1>1, <1>2, <1>4, <2>3, UnlinkFates
  <2> QED BY <2>3, <2>4, <2>5, <2>6, <2>7 DEF IInv
<1> QED BY <1>5, <1>6

LEMMA DropObituariesStep ==
  ASSUME IInv, driver.open, NEW th \in Thread, DropObituaries(th)
  PROVE  IInv'
<1>1. /\ thread[th].at = "unlinking" /\ lock = th /\ lock' = NoThread /\ driver.ref = NoDeath
      /\ thread[th].left = {} /\ thread[th].in = <<>> /\ proxy.obituaries = {}
      /\ GoTo(th, "idle") /\ UNCHANGED <<driver, links, fate>>
  BY ThreadFacts DEF DropObituaries, At, Unlock, ThreadOK, Holding
<1>2. /\ thread' \in [Thread -> ThreadStates]
      /\ thread'[th].at = "idle" /\ thread'[th].link = thread[th].link
      /\ thread'[th].left = thread[th].left /\ thread'[th].in = thread[th].in
      /\ \A u \in Thread : u # th => thread'[u] = thread[u]
  BY <1>1, GoToEffect DEF Places
<1>3. /\ proxy' \in Proxies /\ proxy'.obituaries = proxy.obituaries
      /\ proxy'.exists = proxy.exists /\ proxy'.held = proxy.held /\ proxy'.refs = proxy.refs
      /\ ~proxy'.vector /\ proxy'.sent = proxy.sent
  BY StateFacts DEF DropObituaries, Proxies
<1>4. DriverInv(driver)'
  BY <1>1 DEF IInv
<1>5. ThreadInv'
  <2>1. \A u \in Thread : u # th => ThreadOK(u)'
    BY <1>1, <1>2, <1>3, OtherThreads
  <2>2. ThreadOK(th)'
    BY <1>1, <1>2, DeathAssumption DEF ThreadOK, Holding
  <2> QED BY <1>1, <1>2, <2>1, <2>2 DEF IInv, ThreadInv
<1>6. ProxyInv'
  BY <1>1, <1>3 DEF IInv, ProxyInv, DriverAgrees
<1>7. CountInv'
  <2>1. Clears(thread'[th]) = Clears(thread[th]) /\ Weight(thread'[th]) = Weight(thread[th])
    BY <1>1, <1>2 DEF Clears, Weight
  <2> QED BY <2>1, <1>1, <1>2, <1>3, SameCountInv
<1>8. FateInv'
  <2>1. ~driver.node => ~driver'.node
    BY <1>1
  <2>2. proxy'.sent => ~driver'.node
    BY <1>1, <1>3 DEF IInv, FateInv
  <2> QED BY <2>1, <2>2, <1>1, <1>2, <1>3, SameFates
<1> QED BY <1>4, <1>5, <1>6, <1>7, <1>8 DEF IInv

LEMMA ReleasedEffect ==
  ASSUME NEW p \in Proxies
  PROVE  /\ Released(p) \in Proxies /\ (Released(p).exists <=> p.held \/ p.refs > 0)
         /\ Released(p).held = p.held /\ Released(p).refs = p.refs
         /\ Released(p).vector = p.vector /\ Released(p).sent = p.sent
         /\ Released(p).obituaries = p.obituaries
<1>1. (p.held \/ p.refs > 0) \in BOOLEAN
  BY DEF Proxies
<1> QED BY <1>1 DEF Released, Proxies

LEMMA WeightBound ==
  ASSUME IInv, NEW th \in Thread
  PROVE  Weight(thread[th]) \in Nat /\ Weight(thread[th]) <= AckCount(thread)
<1>1. IsFiniteSet(AcksOf(thread)) /\ thread \in [Thread -> ThreadStates]
  BY DEF IInv, CountInv, ThreadInv
<1> QED BY <1>1, AcksChange DEF AckCount

\* Who has an obituary to acknowledge finds a record in delivered_death.
LEMMA DeliveredToThread ==
  ASSUME IInv, driver.open, NEW th \in Thread,
         thread[th].at \in {"unsent", "clearing", "reporting", "done"} \/ Positions(thread[th].in, "dead") # {}
  PROVE  driver.delivered # <<>> /\ LiveNumber(driver) >= 1
<1>1. /\ IsFiniteSet(Positions(thread[th].in, "dead"))
      /\ Cardinality(Positions(thread[th].in, "dead")) \in Nat
  BY ThreadFacts, PositionsFinite
<1>2. Positions(thread[th].in, "dead") # {} => Cardinality(Positions(thread[th].in, "dead")) >= 1
  BY <1>1, FS_EmptySet
<1>3. Weight(thread[th]) >= 1
  BY <1>1, <1>2 DEF Weight
<1>4. Len(driver.delivered) >= 1
  BY <1>3, WeightBound, Counts
<1>5. driver.delivered # <<>>
  BY <1>4
<1>6. Cardinality(LiveIn(driver)) >= 1
  BY <1>5, LiveCount DEF IInv
<1> QED BY <1>5, <1>6 DEF LiveNumber

\* Where no record is left, nobody is linked: ~BpBinder has nothing to clear.
LEMMA NothingToClear ==
  ASSUME IInv, driver.open, LiveNumber(driver) = 0,
         \A u \in Thread : thread[u].at \notin {"linking", "unlinking"}
  PROVE  ~proxy.vector
<1>1. lock = NoThread
  <2>1. ASSUME NEW u \in Thread, lock = u PROVE FALSE
    <3>1. thread[u].at = "clearing"
      BY <2>1, ThreadFacts DEF ThreadOK, Holding
    <3>2. LiveNumber(driver) >= 1
      BY <3>1, DeliveredToThread
    <3> QED BY <3>2
  <2> QED BY <2>1, StateFacts
<1>2. driver.ref = NoDeath
  <2>1. driver.ref # NoDeath => LiveNumber(driver) >= 1
    BY LiveCount DEF IInv, LiveNumber
  <2> QED BY <2>1
<1> QED BY <1>1, <1>2 DEF IInv, ProxyInv, DriverAgrees

LEMMA DropProxyStep ==
  ASSUME IInv, driver.open, NEW th \in Thread, DropProxy(th)
  PROVE  IInv'
<1> DEFINE p == [proxy EXCEPT !.held = FALSE]
<1>1. /\ proxy.held /\ \A u \in Thread : thread[u].at \notin {"linking", "unlinking"}
      /\ AfterRelease(th, p) /\ UNCHANGED <<lock, thread, links, fate>>
  BY DEF DropProxy
<1>2. /\ p \in Proxies /\ ~p.held /\ p.refs = proxy.refs /\ p.vector = proxy.vector
      /\ p.sent = proxy.sent /\ p.obituaries = proxy.obituaries /\ proxy.refs \in Nat
  BY StateFacts DEF Proxies
<1> HIDE DEF p
<1>3. /\ proxy' \in Proxies /\ (proxy'.exists <=> proxy.refs > 0) /\ ~proxy'.held
      /\ proxy'.refs = proxy.refs /\ proxy'.vector = proxy.vector
      /\ proxy'.sent = proxy.sent /\ proxy'.obituaries = proxy.obituaries
  BY <1>1, <1>2, ReleasedEffect DEF AfterRelease
<1>4. driver' = driver
  <2>1. CASE proxy.refs > 0
    BY <2>1, <1>1, <1>2, ReleasedEffect DEF AfterRelease
  <2>2. CASE ~(proxy.refs > 0)
    <3>1. LiveNumber(driver) = 0
      BY <2>2, Counts
    <3>2. ~proxy.vector
      BY <3>1, <1>1, NothingToClear
    <3> QED BY <3>2, <1>1, <1>2 DEF AfterRelease
  <2> QED BY <2>1, <2>2
<1>5. ThreadInv'
  BY <1>1, <1>3, <1>4 DEF IInv, ThreadInv, ThreadOK
<1>6. ProxyInv'
  BY <1>1, <1>2, <1>3, <1>4 DEF IInv, ProxyInv, DriverAgrees
<1>7. CountInv'
  BY <1>1, <1>3, <1>4 DEF IInv, CountInv, Quiet
<1>8. FateInv'
  BY <1>1, <1>3, <1>4 DEF IInv, FateInv, FateOK
<1> QED BY <1>4, <1>5, <1>6, <1>7, <1>8 DEF IInv

LEMMA GetProxyStep ==
  ASSUME IInv, driver.open, NEW th \in Thread, GetProxy(th)
  PROVE  IInv'
<1>1. /\ proxy.exists /\ ~proxy.held /\ proxy' = [proxy EXCEPT !.held = TRUE]
      /\ UNCHANGED <<driver, lock, thread, links, fate>>
  BY DEF GetProxy
<1>2. /\ proxy' \in Proxies /\ proxy'.exists = proxy.exists /\ proxy'.held
      /\ proxy'.refs = proxy.refs /\ proxy'.vector = proxy.vector
      /\ proxy'.sent = proxy.sent /\ proxy'.obituaries = proxy.obituaries
  BY <1>1, StateFacts DEF Proxies
<1>3. ThreadInv'
  BY <1>1, <1>2 DEF IInv, ThreadInv, ThreadOK
<1>4. ProxyInv'
  BY <1>1, <1>2 DEF IInv, ProxyInv, DriverAgrees
<1>5. CountInv'
  BY <1>1, <1>2 DEF IInv, CountInv, Quiet
<1>6. FateInv'
  BY <1>1, <1>2 DEF IInv, FateInv, FateOK
<1> QED BY <1>1, <1>3, <1>4, <1>5, <1>6 DEF IInv

\* A thread takes the first command it has read.
LEMMA TailOfIn ==
  ASSUME NEW s \in Seq({"dead", "clear"}), s # <<>>,
         \A i \in DOMAIN s : s[i] = "dead" => i = Len(s)
  PROVE  /\ Tail(s) \in Seq({"dead", "clear"}) /\ Head(s) \in {"dead", "clear"}
         /\ \A i \in DOMAIN Tail(s) : Tail(s)[i] = "dead" => i = Len(Tail(s))
         /\ \A i \in DOMAIN Tail(s) : \E j \in DOMAIN s : Tail(s)[i] = s[j]
         /\ \E j \in DOMAIN s : Head(s) = s[j]
         /\ Head(s) = "dead" => Tail(s) = <<>>
<1>1. /\ Head(s) \in {"dead", "clear"} /\ Tail(s) \in Seq({"dead", "clear"})
      /\ Len(Tail(s)) = Len(s) - 1 /\ \A i \in 1..Len(Tail(s)) : Tail(s)[i] = s[i + 1]
  BY HeadTailProperties
<1>2. /\ DOMAIN s = 1..Len(s) /\ DOMAIN Tail(s) = 1..Len(s) - 1 /\ Len(s) \in Nat
      /\ Len(s) # 0 /\ Head(s) = s[1]
  BY <1>1, LenProperties, EmptySeq
<1>3. ASSUME NEW i \in DOMAIN Tail(s)
      PROVE  i + 1 \in DOMAIN s /\ Tail(s)[i] = s[i + 1] /\ (i + 1 = Len(s) => i = Len(Tail(s)))
  BY <1>1, <1>2
<1>4. 1 \in DOMAIN s /\ Head(s) = s[1]
  BY <1>2
<1>5. ASSUME Head(s) = "dead" PROVE Tail(s) = <<>>
  <2>1. Len(s) = 1
    BY <1>4, <1>5
  <2>2. Len(Tail(s)) = 0
    BY <2>1, <1>1
  <2> QED BY <2>2, <1>1, EmptySeq
<1> QED BY <1>1, <1>3, <1>4, <1>5

LEMMA TakeIn ==
  ASSUME IInv, NEW th \in Thread, thread[th].in # <<>>, NEW place \in Places,
         thread' = [thread EXCEPT ![th].in = Tail(@), ![th].at = place]
  PROVE  /\ thread' \in [Thread -> ThreadStates]
         /\ thread'[th].at = place /\ thread'[th].left = thread[th].left
         /\ thread'[th].link = thread[th].link /\ thread'[th].in = Tail(thread[th].in)
         /\ \A u \in Thread : u # th => thread'[u] = thread[u]
<1> DEFINE r == [thread[th] EXCEPT !.in = Tail(thread[th].in), !.at = place]
<1>1. thread[th] \in ThreadStates /\ Tail(thread[th].in) \in Seq({"dead", "clear"})
  BY ThreadFacts, TailList
<1>2. /\ r \in ThreadStates /\ r.at = place /\ r.link = thread[th].link
      /\ r.left = thread[th].left /\ r.in = Tail(thread[th].in)
  BY <1>1 DEF ThreadStates
<1>3. thread' = [thread EXCEPT ![th] = r] /\ thread \in [Thread -> ThreadStates]
  BY StateFacts
<1> HIDE DEF r
<1> QED BY <1>2, <1>3

LEMMA ClearDoneStep ==
  ASSUME IInv, driver.open, NEW th \in Thread, ClearDone(th)
  PROVE  IInv'
<1> DEFINE s == thread[th].in
           p == [proxy EXCEPT !.refs = @ - 1]
<1>1. /\ s # <<>> /\ Head(s) = "clear" /\ thread' = [thread EXCEPT ![th].in = Tail(@)]
      /\ AfterRelease(th, p) /\ UNCHANGED <<lock, links, fate>>
  BY DEF ClearDone
<1>2. /\ thread[th].at \in {"idle", "reporting"} /\ s \in Seq({"dead", "clear"})
      /\ \A i \in DOMAIN s : s[i] = "dead" => i = Len(s) /\ ~driver.node
  BY <1>1, ThreadFacts DEF ThreadOK, FateOK
<1>3. /\ thread' \in [Thread -> ThreadStates]
      /\ thread'[th].at = thread[th].at /\ thread'[th].left = thread[th].left
      /\ thread'[th].link = thread[th].link /\ thread'[th].in = Tail(s)
      /\ \A u \in Thread : u # th => thread'[u] = thread[u]
  <2>1. thread' = [thread EXCEPT ![th].in = Tail(@), ![th].at = thread[th].at]
    BY <1>1, StateFacts, ThreadFacts DEF ThreadStates
  <2> QED BY <2>1, <1>1, TakeIn, ThreadFacts
<1>4. /\ \A i \in DOMAIN Tail(s) : Tail(s)[i] = "dead" => i = Len(Tail(s))
      /\ \A i \in DOMAIN Tail(s) : \E j \in DOMAIN s : Tail(s)[i] = s[j]
  BY <1>1, <1>2, TailOfIn
<1>5. /\ Clears(thread'[th]) = Clears(thread[th]) - 1 /\ Clears(thread[th]) >= 1
      /\ Weight(thread'[th]) = Weight(thread[th])
  <2>1. /\ Cardinality(Positions(Tail(s), "clear")) = Cardinality(Positions(s, "clear")) - 1
        /\ Cardinality(Positions(s, "clear")) >= 1
    BY <1>1, <1>2, PositionsOfTail
  <2>2. Cardinality(Positions(Tail(s), "dead")) = Cardinality(Positions(s, "dead"))
    <3>1. Cardinality(Positions(Tail(s), "dead")) =
            Cardinality(Positions(s, "dead")) - (IF Head(s) = "dead" THEN 1 ELSE 0)
      BY <1>1, <1>2, PositionsOfTail
    <3>2. Cardinality(Positions(s, "dead")) \in Nat
      BY <1>2, PositionsFinite
    <3> QED BY <3>1, <3>2, <1>1
  <2> QED BY <2>1, <2>2, <1>3 DEF Clears, Weight
<1> HIDE DEF s
<1>6. /\ IsFiniteSet(ClearsOf(thread')) /\ IsFiniteSet(AcksOf(thread'))
      /\ ClearCount(thread') = ClearCount(thread) - 1 /\ ClearCount(thread) >= 1
      /\ AckCount(thread') = AckCount(thread)
  <2>1. /\ IsFiniteSet(ClearsOf(thread')) /\ IsFiniteSet(AcksOf(thread'))
        /\ Clears(thread[th]) \in Nat /\ Weight(thread[th]) \in Nat
        /\ Clears(thread[th]) <= ClearCount(thread)
        /\ ClearCount(thread') = ClearCount(thread) - Clears(thread[th]) + Clears(thread'[th])
        /\ AckCount(thread') = AckCount(thread) - Weight(thread[th]) + Weight(thread'[th])
    BY <1>3, CountsChange
  <2>2. ClearCount(thread) \in Nat /\ AckCount(thread) \in Nat
    BY Counts
  <2> QED BY <2>1, <2>2, <1>5
<1>7. /\ p \in Proxies /\ p.held = proxy.held /\ p.refs = proxy.refs - 1 /\ p.vector = proxy.vector
      /\ p.sent = proxy.sent /\ p.obituaries = proxy.obituaries /\ proxy.refs >= 1 /\ proxy.refs \in Nat
  <2>1. proxy.refs >= 1 /\ proxy.refs \in Nat
    BY <1>6, Counts
  <2>2. proxy.refs - 1 \in 0..MaxLinks
    <3>1. proxy.refs \in 0..MaxLinks
      BY StateFacts DEF Proxies
    <3> QED BY <2>1, <3>1, Counters
  <2> QED BY <2>1, <2>2, StateFacts DEF Proxies
<1> HIDE DEF p
<1>8. /\ proxy' \in Proxies /\ (proxy'.exists <=> proxy.held \/ proxy.refs - 1 > 0)
      /\ proxy'.held = proxy.held
      /\ proxy'.refs = proxy.refs - 1 /\ proxy'.vector = proxy.vector
      /\ proxy'.sent = proxy.sent /\ proxy'.obituaries = proxy.obituaries
  BY <1>1, <1>7, ReleasedEffect DEF AfterRelease
<1>9. driver' = driver
  <2>1. CASE proxy.held \/ proxy.refs - 1 > 0
    BY <2>1, <1>1, <1>7, ReleasedEffect DEF AfterRelease
  <2>2. CASE ~(proxy.held \/ proxy.refs - 1 > 0)
    <3>1. LiveNumber(driver) = 0
      BY <2>2, <1>6, Counts
    <3>2. \A u \in Thread : thread[u].at \notin {"linking", "unlinking"}
      BY <2>2, ThreadFacts DEF ThreadOK
    <3>3. ~proxy.vector
      BY <3>1, <3>2, NothingToClear
    <3> QED BY <3>3, <1>1, <1>7 DEF AfterRelease
  <2> QED BY <2>1, <2>2
<1>10. ThreadInv'
  <2>1. \A u \in Thread : u # th => ThreadOK(u)'
    BY <1>1, <1>3, <1>8, <1>9, OtherThreads
  <2>2. ThreadOK(th)'
    <3>1. ThreadOK(th)
      BY ThreadFacts
    <3> QED BY <3>1, <1>1, <1>2, <1>3, <1>4, <1>8, <1>9 DEF ThreadOK, Holding
  <2> QED BY <1>1, <1>3, <1>9, <2>1, <2>2 DEF IInv, ThreadInv
<1>11. ProxyInv'
  <2>1. driver.made \in Nat
    BY StateFacts
  <2> QED BY <2>1, <1>1, <1>7, <1>8, <1>9 DEF IInv, ProxyInv, DriverAgrees
<1>12. CountInv'
  <2>1. /\ proxy.refs >= LiveNumber(driver) + ClearCount(thread)
        /\ Quiet => proxy.refs = LiveNumber(driver) + ClearCount(thread) /\ driver.open
        /\ driver.open => Len(driver.delivered) = AckCount(thread)
        /\ proxy.refs \in Nat /\ LiveNumber(driver) \in Nat /\ ClearCount(thread) \in Nat
    BY Counts
  <2>2. /\ proxy'.refs >= LiveNumber(driver') + ClearCount(thread')
        /\ Quiet => proxy'.refs = LiveNumber(driver') + ClearCount(thread') /\ driver'.open
        /\ driver'.open => Len(driver'.delivered) = AckCount(thread')
    BY <2>1, <1>6, <1>8, <1>9
  <2> QED BY <2>2, <1>6 DEF CountInv, LiveNumber, ClearCount, AckCount, Quiet
<1>13. FateInv'
  <2>1. \A i \in DOMAIN thread'[th].in : thread'[th].in[i] = "dead" => ~driver'.node
    BY <1>2, <1>3, <1>4, <1>9
  <2>2. proxy'.sent => ~driver'.node
    BY <1>8, <1>9 DEF IInv, FateInv
  <2> QED BY <2>1, <2>2, <1>1, <1>2, <1>3, <1>8, <1>9, SameFates
<1>14. DriverInv(driver)'
  BY <1>9 DEF IInv
<1> QED BY <1>10, <1>11, <1>12, <1>13, <1>14 DEF IInv

LEMMA DeadBinderStep ==
  ASSUME IInv, driver.open, NEW th \in Thread, DeadBinder(th)
  PROVE  IInv'
<1> DEFINE s     == thread[th].in
           place == IF proxy.sent THEN "done" ELSE "unsent"
<1>1. /\ s # <<>> /\ Head(s) = "dead" /\ thread' = [thread EXCEPT ![th].in = Tail(@), ![th].at = place]
      /\ UNCHANGED <<driver, proxy, lock, links, fate>>
  BY DEF DeadBinder
<1>2. /\ thread[th].at \in {"idle", "reporting"} /\ s \in Seq({"dead", "clear"}) /\ lock # th
      /\ \A i \in DOMAIN s : s[i] = "dead" => i = Len(s) /\ ~driver.node
      /\ thread[th].left # {} => proxy.sent
      /\ thread[th].at = "reporting" <=> thread[th].left # {}
  BY <1>1, ThreadFacts DEF ThreadOK, FateOK, Holding
<1>3. place \in Places /\ place \in {"done", "unsent"} /\ (place = "done" <=> proxy.sent)
  BY DEF Places
<1> HIDE DEF place
<1>4. /\ thread' \in [Thread -> ThreadStates]
      /\ thread'[th].at = place /\ thread'[th].left = thread[th].left
      /\ thread'[th].link = thread[th].link /\ thread'[th].in = Tail(s)
      /\ \A u \in Thread : u # th => thread'[u] = thread[u]
  BY <1>1, <1>3, TakeIn
<1>5. Tail(s) = <<>> /\ ~driver.node
  BY <1>1, <1>2, TailOfIn
<1>6. /\ Clears(thread'[th]) = Clears(thread[th])
      /\ Weight(thread'[th]) = Weight(thread[th])
  <2>1. /\ Cardinality(Positions(Tail(s), "clear")) =
             Cardinality(Positions(s, "clear")) - (IF Head(s) = "clear" THEN 1 ELSE 0)
        /\ Cardinality(Positions(Tail(s), "dead")) =
             Cardinality(Positions(s, "dead")) - (IF Head(s) = "dead" THEN 1 ELSE 0)
    BY <1>1, <1>2, PositionsOfTail
  <2>2. Cardinality(Positions(s, "dead")) \in Nat /\ Cardinality(Positions(s, "clear")) \in Nat
    BY <1>2, PositionsFinite
  <2>3. Cardinality(Positions(Tail(s), "dead")) = 0
    <3>1. Positions(Tail(s), "dead") = {}
      BY <1>5 DEF Positions
    <3> QED BY <3>1, FS_EmptySet
  <2>4. Cardinality(Positions(s, "dead")) = 1
    BY <2>1, <2>2, <2>3, <1>1
  <2>5. Cardinality(Positions(Tail(s), "clear")) = Cardinality(Positions(s, "clear"))
    BY <2>1, <2>2, <1>1
  <2>6. Weight(thread[th]) = 1 + (IF thread[th].left # {} THEN 1 ELSE 0)
    BY <2>4, <1>2 DEF Weight
  <2>7. Weight(thread'[th]) = 1 + (IF thread[th].left # {} THEN 1 ELSE 0)
    BY <2>3, <1>2, <1>3, <1>4 DEF Weight
  <2> QED BY <2>5, <2>6, <2>7, <1>4 DEF Clears
<1> HIDE DEF s
<1>7. ThreadInv'
  <2>1. \A u \in Thread : u # th => ThreadOK(u)'
    BY <1>1, <1>4, OtherThreads
  <2>2. ThreadOK(th)'
    BY <1>1, <1>2, <1>3, <1>4, <1>5 DEF ThreadOK, Holding
  <2> QED BY <1>1, <1>4, <2>1, <2>2 DEF IInv, ThreadInv
<1>8. ProxyInv'
  BY <1>1 DEF IInv, ProxyInv, DriverAgrees
<1>9. CountInv'
  BY <1>1, <1>4, <1>6, SameCountInv
<1>10. FateInv'
  <2>1. \A i \in DOMAIN thread'[th].in : thread'[th].in[i] = "dead" => ~driver'.node
    BY <1>1, <1>5
  <2> QED BY <2>1, <1>1, <1>3, <1>4, <1>5, SameFates
<1>11. DriverInv(driver)'
  BY <1>1 DEF IInv
<1> QED BY <1>7, <1>8, <1>9, <1>10, <1>11 DEF IInv

\* sendObituary with recipients.
LEMMA SendClearStep ==
  ASSUME IInv, driver.open, NEW th \in Thread, At(th, "unsent"), proxy.vector, TakeLock(th),
         GoTo(th, "clearing"), driver' = ClearDeath(driver, th), UNCHANGED <<proxy, links, fate>>
  PROVE  IInv'
<1>1. /\ thread[th].at = "unsent" /\ lock = NoThread /\ lock' = th /\ thread[th].in = <<>>
      /\ thread[th].left = {} /\ ~driver.node
  BY ThreadFacts DEF At, TakeLock, ThreadOK, FateOK
<1>2. /\ thread' \in [Thread -> ThreadStates]
      /\ thread'[th].at = "clearing" /\ thread'[th].link = thread[th].link
      /\ thread'[th].left = thread[th].left /\ thread'[th].in = thread[th].in
      /\ \A u \in Thread : u # th => thread'[u] = thread[u]
  BY GoToEffect DEF Places
<1>3. /\ DriverInv(driver') /\ driver'.ref = NoDeath /\ driver'.open
      /\ driver'.delivered = driver.delivered
      /\ driver'.node = driver.node /\ driver'.made = driver.made /\ LiveIn(driver') = LiveIn(driver)
  <2>1. LET q == ClearDeath(driver, th)
        IN  /\ DriverInv(q) /\ q.ref = NoDeath /\ q.open /\ q.delivered = driver.delivered
            /\ q.node = driver.node /\ q.made = driver.made /\ LiveIn(q) = LiveIn(driver)
    BY ClearDeathEffect DEF IInv
  <2> QED BY <2>1
<1>4. ThreadInv'
  <2>1. \A u \in Thread : u # th => ThreadOK(u)'
    BY <1>1, <1>2, OtherThreads
  <2>2. ThreadOK(th)'
    BY <1>1, <1>2, <1>3 DEF ThreadOK, Holding
  <2> QED BY <1>1, <1>2, <1>3, <2>1, <2>2 DEF IInv, ThreadInv
<1>5. ProxyInv'
  BY <1>1, <1>3, DeathAssumption DEF IInv, ProxyInv, DriverAgrees
<1>6. CountInv'
  <2>1. Clears(thread'[th]) = Clears(thread[th]) /\ Weight(thread'[th]) = Weight(thread[th])
    BY <1>1, <1>2 DEF Clears, Weight
  <2> QED BY <2>1, <1>2, <1>3, SameCountInv
<1>7. FateInv'
  <2>1. \A i \in DOMAIN thread'[th].in : thread'[th].in[i] = "dead" => ~driver'.node
    BY <1>1, <1>3
  <2> QED BY <2>1, <1>1, <1>2, <1>3, SameFates
<1> QED BY <1>3, <1>4, <1>5, <1>6, <1>7 DEF IInv

\* sendObituary without.
LEMMA SendNothingStep ==
  ASSUME IInv, driver.open, NEW th \in Thread, At(th, "unsent"), ~proxy.vector, lock = NoThread,
         proxy' = [proxy EXCEPT !.sent = TRUE], GoTo(th, "done"), UNCHANGED <<driver, lock, links, fate>>
  PROVE  IInv'
<1>1. thread[th].at = "unsent" /\ thread[th].in = <<>> /\ thread[th].left = {} /\ ~driver.node
  BY ThreadFacts DEF At, ThreadOK, FateOK
<1>2. /\ thread' \in [Thread -> ThreadStates]
      /\ thread'[th].at = "done" /\ thread'[th].link = thread[th].link
      /\ thread'[th].left = thread[th].left /\ thread'[th].in = thread[th].in
      /\ \A u \in Thread : u # th => thread'[u] = thread[u]
  BY GoToEffect DEF Places
<1>3. /\ proxy' \in Proxies /\ proxy'.obituaries = proxy.obituaries
      /\ proxy'.exists = proxy.exists /\ proxy'.held = proxy.held /\ proxy'.refs = proxy.refs
      /\ proxy'.vector = proxy.vector /\ proxy'.sent
  BY StateFacts DEF Proxies
<1>4. ThreadInv'
  <2>1. \A u \in Thread : u # th => ThreadOK(u)'
    BY <1>2, <1>3, OtherThreads
  <2>2. ThreadOK(th)'
    BY <1>1, <1>2, DeathAssumption DEF ThreadOK, Holding
  <2> QED BY <1>2, <2>1, <2>2 DEF IInv, ThreadInv
<1>5. ProxyInv'
  BY <1>3 DEF IInv, ProxyInv, DriverAgrees
<1>6. CountInv'
  <2>1. Clears(thread'[th]) = Clears(thread[th]) /\ Weight(thread'[th]) = Weight(thread[th])
    BY <1>1, <1>2 DEF Clears, Weight
  <2> QED BY <2>1, <1>2, <1>3, SameCountInv
<1>7. FateInv'
  BY <1>1, <1>2, <1>3, SameFates
<1>8. DriverInv(driver)'
  BY DEF IInv
<1> QED BY <1>4, <1>5, <1>6, <1>7, <1>8 DEF IInv

LEMMA TakeObituariesStep ==
  ASSUME IInv, driver.open, NEW th \in Thread, TakeObituaries(th)
  PROVE  IInv'
<1> DEFINE place == IF proxy.obituaries = {} THEN "done" ELSE "reporting"
<1>1. /\ thread[th].at = "clearing" /\ lock = th /\ lock' = NoThread /\ driver.ref = NoDeath
      /\ thread[th].left = {} /\ thread[th].in = <<>> /\ ~driver.node
      /\ proxy' = ObituariesTaken(proxy)
      /\ thread' = [thread EXCEPT ![th].left = proxy.obituaries, ![th].at = place]
      /\ UNCHANGED <<driver, links, fate>>
  BY ThreadFacts DEF TakeObituaries, At, Unlock, ThreadOK, FateOK, Holding
<1>2. /\ place \in Places /\ place \in {"done", "reporting"}
      /\ place = "reporting" <=> proxy.obituaries # {}
  BY DEF Places
<1> HIDE DEF place
<1>3. /\ proxy' \in Proxies /\ proxy'.obituaries = {}
      /\ proxy'.exists = proxy.exists /\ proxy'.held = proxy.held /\ proxy'.refs = proxy.refs
      /\ ~proxy'.vector /\ proxy'.sent
  BY <1>1, StateFacts DEF ObituariesTaken, Proxies
<1>4. /\ thread' \in [Thread -> ThreadStates]
      /\ thread'[th].at = place /\ thread'[th].left = proxy.obituaries
      /\ thread'[th].in = <<>> /\ \A u \in Thread : u # th => thread'[u] = thread[u]
  <2> DEFINE r == [thread[th] EXCEPT !.left = proxy.obituaries, !.at = place]
  <2>1. r \in ThreadStates /\ r.at = place /\ r.left = proxy.obituaries /\ r.in = <<>>
    BY <1>1, <1>2, StateFacts, ThreadFacts DEF ThreadStates
  <2>2. thread' = [thread EXCEPT ![th] = r] /\ thread \in [Thread -> ThreadStates]
    BY <1>1, StateFacts
  <2> HIDE DEF r
  <2> QED BY <2>1, <2>2
<1>5. DriverInv(driver)'
  BY <1>1 DEF IInv
<1>6. ThreadInv'
  <2>1. \A u \in Thread : u # th => ThreadOK(u)'
    BY <1>1, <1>3, <1>4, OtherThreads
  <2>2. ThreadOK(th)'
    BY <1>1, <1>2, <1>3, <1>4, DeathAssumption DEF ThreadOK, Holding
  <2> QED BY <1>1, <1>4, <2>1, <2>2 DEF IInv, ThreadInv
<1>7. ProxyInv'
  BY <1>1, <1>3 DEF IInv, ProxyInv, DriverAgrees
<1>8. CountInv'
  <2>1. Clears(thread'[th]) = Clears(thread[th]) /\ Weight(thread'[th]) = Weight(thread[th])
    BY <1>1, <1>2, <1>4 DEF Clears, Weight
  <2> QED BY <2>1, <1>1, <1>3, <1>4, SameCountInv
<1>9. FateInv'
  <2>1. proxy'.obituaries \subseteq proxy.obituaries
    BY <1>3
  <2>2. thread'[th].left \subseteq thread[th].left \cup (proxy.obituaries \ proxy'.obituaries)
    BY <1>3, <1>4
  <2>3. /\ thread'[th].at \notin {"linking"}
        /\ \A i \in DOMAIN thread'[th].in : thread'[th].in[i] = "dead" => ~driver'.node
    BY <1>1, <1>2, <1>4
  <2> QED BY <2>1, <2>2, <2>3, <1>1, <1>4, SameFates
<1> QED BY <1>5, <1>6, <1>7, <1>8, <1>9 DEF IInv

LEMMA ReportOneDeathStep ==
  ASSUME IInv, driver.open, NEW th \in Thread, ReportOneDeath(th)
  PROVE  IInv'
<1>1. PICK l \in thread[th].left :
        /\ fate' = [fate EXCEPT ![l] = IF @ = "told" THEN "told_again" ELSE "told"]
        /\ thread' = [thread EXCEPT ![th].left = @ \ {l},
                                    ![th].at = IF thread[th].left = {l} THEN "done" ELSE @]
  BY DEF ReportOneDeath
<1>2. /\ thread[th].at = "reporting" /\ thread[th].in = <<>> /\ proxy.sent /\ lock # th
      /\ UNCHANGED <<driver, proxy, lock, links>>
  BY <1>1, ThreadFacts DEF ReportOneDeath, At, ThreadOK, Holding
<1>3. /\ l \in Links /\ fate[l] = "linked" /\ l \notin proxy.obituaries
      /\ \A u \in Thread : u # th => l \notin thread[u].left
  BY ThreadFacts DEF FateOK
<1> DEFINE place == IF thread[th].left = {l} THEN "done" ELSE "reporting"
<1>4. /\ place \in Places /\ place \in {"done", "reporting"}
      /\ place = "done" <=> thread[th].left \ {l} = {}
  BY DEF Places
<1>5. /\ thread' \in [Thread -> ThreadStates]
      /\ thread'[th].at = place /\ thread'[th].left = thread[th].left \ {l}
      /\ thread'[th].in = <<>> /\ \A u \in Thread : u # th => thread'[u] = thread[u]
  <2> DEFINE r == [thread[th] EXCEPT !.left = @ \ {l}, !.at = place]
  <2>1. thread' = [thread EXCEPT ![th] = r] /\ thread \in [Thread -> ThreadStates]
    BY <1>1, <1>2, StateFacts
  <2> HIDE DEF place
  <2>2. r \in ThreadStates /\ r.at = place /\ r.left = thread[th].left \ {l} /\ r.in = <<>>
    BY <1>2, <1>4, ThreadFacts DEF ThreadStates
  <2> HIDE DEF r
  <2> QED BY <2>1, <2>2
<1> HIDE DEF place
<1>6. DriverInv(driver)'
  BY <1>2 DEF IInv
<1>7. ThreadInv'
  <2>1. \A u \in Thread : u # th => ThreadOK(u)'
    BY <1>2, <1>5, OtherThreads
  <2>2. ThreadOK(th)'
    BY <1>2, <1>4, <1>5 DEF ThreadOK, Holding
  <2> QED BY <1>2, <1>5, <2>1, <2>2 DEF IInv, ThreadInv
<1>8. ProxyInv'
  BY <1>2 DEF IInv, ProxyInv, DriverAgrees
<1>9. CountInv'
  <2>1. Clears(thread'[th]) = Clears(thread[th]) /\ Weight(thread'[th]) = Weight(thread[th])
    BY <1>2, <1>4, <1>5 DEF Clears, Weight
  <2> QED BY <2>1, <1>2, <1>5, SameCountInv
<1>10. FateInv'
  <2>1. /\ fate' \in [Links -> Fates] /\ \A x \in Links : x # l => fate'[x] = fate[x]
    BY <1>1, <1>3, StateFacts DEF Fates
  <2>2. ASSUME NEW u \in Thread, NEW x \in thread'[u].left
        PROVE  x \in thread[u].left /\ x # l /\ fate'[x] = "linked" /\ x \notin proxy.obituaries
    <3>1. x \in thread[u].left /\ x # l
      BY <2>2, <1>3, <1>5
    <3>2. x \in Links /\ fate[x] = "linked" /\ x \notin proxy.obituaries
      BY <3>1, ThreadFacts DEF FateOK
    <3> QED BY <3>1, <3>2, <2>1
  <2>3. ASSUME NEW u \in Thread, thread'[u].at = "linking" PROVE fate'[thread'[u].link] = "new"
    <3>1. u # th /\ thread'[u] = thread[u]
      BY <2>3, <1>4, <1>5
    <3>2. thread[u].link = links /\ links > 0 /\ fate[links] = "new"
      BY <2>3, <3>1, ThreadFacts DEF ThreadOK, FateOK
    <3>3. links \in Links
      BY <3>2, StateFacts DEF Links
    <3> QED BY <3>1, <3>2, <3>3, <1>3, <2>1
  <2>4. ASSUME NEW u \in Thread PROVE FateOK(u)'
    <3>1. FateOK(u) /\ \A v \in Thread : FateOK(v)
      BY ThreadFacts
    <3>2. thread'[u].at \in {"unsent", "clearing"} => ~driver'.node
      BY <3>1, <1>2, <1>4, <1>5 DEF FateOK
    <3>3. \A i \in DOMAIN thread'[u].in : thread'[u].in[i] = "dead" => ~driver'.node
      BY <3>1, <1>2, <1>5 DEF FateOK
    <3>4. \A x \in thread'[u].left : \A v \in Thread : v # u => x \notin thread'[v].left
      BY <3>1, <2>2 DEF FateOK
    <3> QED BY <3>2, <3>3, <3>4, <2>2, <2>3, <1>2 DEF FateOK
  <2>5. \A x \in Links : x > links => x # l
    BY <1>3 DEF IInv, FateInv
  <2>6. \A x \in proxy.obituaries : x \in Links /\ x # l
    BY <1>3, StateFacts
  <2> QED BY <2>1, <2>4, <2>5, <2>6, <1>2 DEF IInv, FateInv
<1> QED BY <1>6, <1>7, <1>8, <1>9, <1>10 DEF IInv

LEMMA SendDoneStep ==
  ASSUME IInv, driver.open, NEW th \in Thread, SendDone(th)
  PROVE  IInv'
<1> DEFINE place == IF thread[th].left = {} THEN "idle" ELSE "reporting"
<1>1. /\ thread[th].at = "done" /\ thread[th].in = <<>> /\ lock # th
      /\ thread[th].left # {} => proxy.sent
      /\ driver' = DeathDone(driver, th) /\ GoTo(th, place) /\ UNCHANGED <<proxy, lock, links, fate>>
  BY ThreadFacts DEF SendDone, At, ThreadOK, Holding
<1>2. place \in Places /\ place \in {"idle", "reporting"} /\ (place = "reporting" <=> thread[th].left # {})
  BY DEF Places
<1> HIDE DEF place
<1>3. /\ thread' \in [Thread -> ThreadStates]
      /\ thread'[th].at = place /\ thread'[th].link = thread[th].link
      /\ thread'[th].left = thread[th].left /\ thread'[th].in = thread[th].in
      /\ \A u \in Thread : u # th => thread'[u] = thread[u]
  BY <1>1, <1>2, GoToEffect
<1>4. driver.delivered # <<>>
  BY <1>1, DeliveredToThread
<1>5. /\ DriverInv(driver') /\ driver'.ref = driver.ref /\ driver'.open
      /\ Len(driver'.delivered) = Len(driver.delivered) - 1
      /\ driver'.node = driver.node /\ driver'.made = driver.made /\ LiveIn(driver') = LiveIn(driver)
  <2>1. LET q == DeathDone(driver, th)
        IN  /\ DriverInv(q) /\ q.ref = driver.ref /\ q.open
            /\ Len(q.delivered) = Len(driver.delivered) - 1
            /\ q.node = driver.node /\ q.made = driver.made /\ LiveIn(q) = LiveIn(driver)
    BY <1>4, DeathDoneEffect DEF IInv
  <2> QED BY <2>1, <1>1
<1>6. ThreadInv'
  <2>1. \A u \in Thread : u # th => ThreadOK(u)'
    BY <1>1, <1>3, <1>5, OtherThreads
  <2>2. ThreadOK(th)'
    BY <1>1, <1>2, <1>3 DEF ThreadOK, Holding
  <2> QED BY <1>1, <1>3, <1>5, <2>1, <2>2 DEF IInv, ThreadInv
<1>7. ProxyInv'
  BY <1>1, <1>5 DEF IInv, ProxyInv, DriverAgrees
<1>8. CountInv'
  <2>1. /\ IsFiniteSet(ClearsOf(thread')) /\ IsFiniteSet(AcksOf(thread'))
        /\ Clears(thread[th]) \in Nat /\ Weight(thread[th]) \in Nat
        /\ ClearCount(thread') = ClearCount(thread) - Clears(thread[th]) + Clears(thread'[th])
        /\ AckCount(thread') = AckCount(thread) - Weight(thread[th]) + Weight(thread'[th])
    BY <1>3, CountsChange
  <2>2. Clears(thread'[th]) = Clears(thread[th])
    BY <1>3 DEF Clears
  <2>3. Weight(thread'[th]) = Weight(thread[th]) - 1
    <3>1. Cardinality(Positions(thread[th].in, "dead")) = 0
      <4>1. Positions(thread[th].in, "dead") = {}
        BY <1>1 DEF Positions
      <4> QED BY <4>1, FS_EmptySet
    <3> QED BY <3>1, <1>1, <1>2, <1>3 DEF Weight
  <2>4. /\ ClearCount(thread) \in Nat /\ AckCount(thread) \in Nat /\ LiveNumber(driver) \in Nat
        /\ proxy.refs >= LiveNumber(driver) + ClearCount(thread)
        /\ Quiet => proxy.refs = LiveNumber(driver) + ClearCount(thread) /\ driver.open
        /\ driver.open => Len(driver.delivered) = AckCount(thread)
    BY Counts
  <2>5. ClearCount(thread') = ClearCount(thread) /\ AckCount(thread') = AckCount(thread) - 1
    BY <2>1, <2>2, <2>3, <2>4
  <2> QED BY <2>1, <2>4, <2>5, <1>1, <1>5 DEF CountInv, LiveNumber, ClearCount, AckCount, Quiet
<1>9. FateInv'
  <2>1. \A i \in DOMAIN thread'[th].in : thread'[th].in[i] = "dead" => ~driver'.node
    BY <1>1, <1>3
  <2>2. proxy'.sent => ~driver'.node
    BY <1>1, <1>5 DEF IInv, FateInv
  <2> QED BY <2>1, <2>2, <1>1, <1>2, <1>3, <1>5, SameFates
<1> QED BY <1>5, <1>6, <1>7, <1>8, <1>9 DEF IInv

\* The commands of one read.
LEMMA ReadStep ==
  ASSUME IInv, driver.open, NEW th \in Thread, Read(th)
  PROVE  IInv'
<1> DEFINE own  == driver.todo[th] # <<>>
           src  == IF own THEN driver.todo[th] ELSE driver.proc_todo
           list == Readable(th)
<1>1. PICK n \in MayDeliver(driver, list) :
        /\ driver' = [Deliver(driver, list, n) EXCEPT
                        !.todo[th] = IF own THEN Rest(list, n) ELSE @,
                        !.proc_todo = IF own THEN @ ELSE Rest(list, n)]
        /\ thread' = [thread EXCEPT ![th].in = [i \in 1..n |-> Command(driver, list[i])]]
  BY DEF Read
<1>2. list = src
  <2>1. CASE own
    BY <2>1 DEF Readable
  <2>2. CASE ~own /\ list # driver.proc_todo
    <3>1. list = <<>>
      BY <2>2 DEF Readable
    <3>2. MayDeliver(driver, list) = {}
      BY <3>1 DEF MayDeliver
    <3> QED BY <3>2
  <2> QED BY <2>1, <2>2
<1>3. n \in Nat /\ n >= 1 /\ own \in BOOLEAN
  BY DEF MayDeliver
<1>4. driver' = ReadFrom(driver, th, own, n)
  BY <1>1, <1>2 DEF ReadFrom
<1>5. /\ thread[th].in = <<>> /\ thread[th].at \in {"idle", "reporting"}
      /\ UNCHANGED <<proxy, lock, links, fate>>
  BY DEF Read, InApplication
<1> DEFINE cleared == {i \in 1..n : driver.type[list[i]] = "clear"}
<1>6. /\ DriverInv(driver') /\ driver'.ref = driver.ref /\ driver'.open
      /\ driver'.node = driver.node /\ driver'.made = driver.made
      /\ LiveIn(driver') = LiveIn(driver) \ {list[i] : i \in cleared}
      /\ Len(driver'.delivered) = Len(driver.delivered) + (IF n \in cleared THEN 0 ELSE 1)
      /\ \A i \in 1..n : list[i] \in LiveIn(driver)
      /\ \A i, j \in 1..n : list[i] = list[j] => i = j
      /\ \A i \in 1..n : driver.type[list[i]] # "clear" => i = n /\ ~driver.node
  <2>1. DriverInv(driver) /\ list = IF own THEN driver.todo[th] ELSE driver.proc_todo
    BY <1>2 DEF IInv
  <2> HIDE DEF own, src, list
  <2>2. ReadResult(driver, th, own, list, n)
    BY <2>1, <1>3, ReadEffect
  <2> QED BY <2>2, <1>4 DEF ReadResult
<1> DEFINE in == [i \in 1..n |-> Command(driver, list[i])]
<1>7. /\ in \in Seq({"dead", "clear"}) /\ Len(in) = n /\ DOMAIN in = 1..n
      /\ \A i \in 1..n : in[i] = Command(driver, list[i])
      /\ \A i \in 1..n : Command(driver, list[i]) = IF i \in cleared THEN "clear" ELSE "dead"
  BY <1>3 DEF Command
<1>8. /\ thread' \in [Thread -> ThreadStates]
      /\ thread'[th].at = thread[th].at /\ thread'[th].link = thread[th].link
      /\ thread'[th].left = thread[th].left /\ thread'[th].in = in
      /\ \A u \in Thread : u # th => thread'[u] = thread[u]
  <2> DEFINE r == [thread[th] EXCEPT !.in = in]
  <2>1. thread' = [thread EXCEPT ![th] = r] /\ thread \in [Thread -> ThreadStates]
    BY <1>1, StateFacts
  <2> HIDE DEF in
  <2>2. /\ r \in ThreadStates /\ r.at = thread[th].at /\ r.link = thread[th].link
        /\ r.left = thread[th].left /\ r.in = in
    BY <1>7, ThreadFacts DEF ThreadStates
  <2> HIDE DEF r
  <2> QED BY <2>1, <2>2
<1>9. Positions(in, "clear") = cleared /\ Positions(in, "dead") = {n} \ cleared
  <2> HIDE DEF in
  <2>1. \A i \in 1..n : i \notin cleared => i = n
    BY <1>6
  <2>2. n \in 1..n
    BY <1>3
  <2>3. cleared \subseteq 1..n
    OBVIOUS
  <2> HIDE DEF cleared
  <2> QED BY <1>7, <2>1, <2>2, <2>3 DEF Positions
<1> HIDE DEF own, src, list, in
<1>10. /\ IsFiniteSet(cleared) /\ Cardinality(cleared) \in Nat
       /\ Cardinality(LiveIn(driver')) = Cardinality(LiveIn(driver)) - Cardinality(cleared)
  <2> DEFINE R == {list[i] : i \in cleared}
  <2>1. IsFiniteSet(LiveIn(driver)) /\ R \in SUBSET LiveIn(driver)
    <3>1. IsFiniteSet(LiveIn(driver))
      BY LiveCount DEF IInv
    <3> QED BY <3>1, <1>6
  <2>2. IsFiniteSet(R)
    BY <2>1, FS_Subset
  <2> DEFINE f == [i \in cleared |-> list[i]]
  <2>3. /\ f \in [cleared -> R] /\ \A a, b \in cleared : f[a] = f[b] => a = b
        /\ \A t \in R : \E a \in cleared : f[a] = t
    BY <1>6
  <2> HIDE DEF f, R, cleared
  <2>4. IsFiniteSet(cleared) /\ Cardinality(cleared) = Cardinality(R)
    BY <2>2, <2>3, Matched
  <2>5. R \cap LiveIn(driver) = R
    BY <2>1
  <2>6. Cardinality(LiveIn(driver) \ R) = Cardinality(LiveIn(driver)) - Cardinality(LiveIn(driver) \cap R)
    BY <2>1, <2>2, FS_Difference
  <2>7. LiveIn(driver) \cap R = R
    BY <2>1
  <2>8. LiveIn(driver') = LiveIn(driver) \ R
    BY <1>6 DEF R, cleared
  <2>9. Cardinality(cleared) \in Nat
    BY <2>4, FS_CardinalityType
  <2> QED BY <2>4, <2>6, <2>7, <2>8, <2>9
<1>11. ThreadInv'
  <2>1. \A u \in Thread : u # th => ThreadOK(u)'
    BY <1>5, <1>6, <1>8, OtherThreads
  <2>2. \A i \in DOMAIN in : in[i] = "dead" => i = Len(in)
    BY <1>6, <1>7
  <2>3. ThreadOK(th)'
    <3>1. ThreadOK(th)
      BY ThreadFacts
    <3> QED BY <2>2, <3>1, <1>5, <1>8 DEF ThreadOK, Holding
  <2> QED BY <1>5, <1>6, <1>8, <2>1, <2>3 DEF IInv, ThreadInv
<1>12. ProxyInv'
  BY <1>5, <1>6 DEF IInv, ProxyInv, DriverAgrees
<1>13. CountInv'
  <2>1. /\ IsFiniteSet(ClearsOf(thread')) /\ IsFiniteSet(AcksOf(thread'))
        /\ Clears(thread[th]) \in Nat /\ Weight(thread[th]) \in Nat
        /\ ClearCount(thread') = ClearCount(thread) - Clears(thread[th]) + Clears(thread'[th])
        /\ AckCount(thread') = AckCount(thread) - Weight(thread[th]) + Weight(thread'[th])
    BY <1>8, CountsChange
  <2>2. Positions(thread[th].in, "clear") = {} /\ Positions(thread[th].in, "dead") = {}
    BY <1>5 DEF Positions
  <2>3. Clears(thread[th]) = 0 /\ Clears(thread'[th]) = Cardinality(cleared)
    BY <2>2, <1>8, <1>9, FS_EmptySet DEF Clears
  <2>4. Weight(thread'[th]) = Weight(thread[th]) + (IF n \in cleared THEN 0 ELSE 1)
    <3>1. Cardinality(Positions(thread[th].in, "dead")) = 0
      BY <2>2, FS_EmptySet
    <3>2. Cardinality(Positions(thread'[th].in, "dead")) = IF n \in cleared THEN 0 ELSE 1
      <4>1. CASE n \in cleared
        <5>1. {n} \ cleared = {}
          BY <4>1
        <5> QED BY <4>1, <5>1, <1>8, <1>9, FS_EmptySet
      <4>2. CASE n \notin cleared
        <5>1. {n} \ cleared = {n}
          BY <4>2
        <5> QED BY <4>2, <5>1, <1>8, <1>9, FS_Singleton
      <4> QED BY <4>1, <4>2
    <3> HIDE DEF cleared
    <3> QED BY <3>1, <3>2, <1>8 DEF Weight
  <2>5. /\ ClearCount(thread) \in Nat /\ AckCount(thread) \in Nat /\ LiveNumber(driver) \in Nat
        /\ proxy.refs >= LiveNumber(driver) + ClearCount(thread)
        /\ Quiet => proxy.refs = LiveNumber(driver) + ClearCount(thread) /\ driver.open
        /\ driver.open => Len(driver.delivered) = AckCount(thread)
    BY Counts
  <2> HIDE DEF cleared
  <2>6. ClearCount(thread') = ClearCount(thread) + Cardinality(cleared)
    BY <2>1, <2>3, <2>5, <1>10
  <2>7. AckCount(thread') = AckCount(thread) + (IF n \in cleared THEN 0 ELSE 1)
    BY <2>1, <2>4, <2>5
  <2>8. LiveNumber(driver') = LiveNumber(driver) - Cardinality(cleared)
    BY <1>10 DEF LiveNumber
  <2>9. /\ proxy.refs >= LiveNumber(driver') + ClearCount(thread')
        /\ Quiet => proxy.refs = LiveNumber(driver') + ClearCount(thread') /\ driver.open
    BY <2>5, <2>6, <2>8, <1>10
  <2>10. Len(driver'.delivered) = AckCount(thread')
    BY <2>5, <2>7, <1>6
  <2> QED BY <2>1, <2>9, <2>10, <1>5, <1>6 DEF CountInv, LiveNumber, ClearCount, AckCount, Quiet
<1>14. FateInv'
  <2>1. \A i \in DOMAIN thread'[th].in : thread'[th].in[i] = "dead" => ~driver'.node
    BY <1>6, <1>7, <1>8
  <2>2. proxy'.sent => ~driver'.node
    BY <1>5, <1>6 DEF IInv, FateInv
  <2> QED BY <2>1, <2>2, <1>5, <1>6, <1>8, SameFates
<1> QED BY <1>6, <1>11, <1>12, <1>13, <1>14 DEF IInv

LEMMA NodeDiesStep ==
  ASSUME IInv, driver.open, NodeDies
  PROVE  IInv'
<1>1. driver.node /\ driver' = NodeRelease(driver) /\ UNCHANGED <<proxy, lock, thread, links, fate>>
  BY DEF NodeDies
<1>2. /\ DriverInv(driver') /\ driver'.ref = driver.ref /\ driver'.open
      /\ driver'.delivered = driver.delivered
      /\ ~driver'.node /\ driver'.made = driver.made /\ LiveIn(driver') = LiveIn(driver)
  <2>1. LET q == NodeRelease(driver)
        IN  /\ DriverInv(q) /\ q.ref = driver.ref /\ q.open /\ q.delivered = driver.delivered
            /\ ~q.node /\ q.made = driver.made /\ LiveIn(q) = LiveIn(driver)
    BY <1>1, NodeReleaseEffect DEF IInv
  <2> QED BY <2>1, <1>1
<1>3. ThreadInv'
  BY <1>1, <1>2 DEF IInv, ThreadInv, ThreadOK
<1>4. ProxyInv'
  BY <1>1, <1>2 DEF IInv, ProxyInv, DriverAgrees
<1>5. CountInv'
  BY <1>1, <1>2 DEF IInv, CountInv, Quiet
<1>6. FateInv'
  BY <1>1, <1>2 DEF IInv, FateInv, FateOK
<1> QED BY <1>2, <1>3, <1>4, <1>5, <1>6 DEF IInv

LEMMA ThreadExitsStep ==
  ASSUME IInv, driver.open, NEW th \in Thread, ThreadExits(th)
  PROVE  IInv'
<1>1. /\ th \in Exiting /\ thread[th].at = "idle" /\ thread[th].in = <<>> /\ thread[th].left = {}
      /\ lock # th /\ driver' = ReleaseThreads(driver, {th}) /\ GoTo(th, "gone")
      /\ UNCHANGED <<proxy, lock, links, fate>>
  BY ThreadFacts DEF ThreadExits, At, ThreadOK, Holding
<1>2. /\ thread' \in [Thread -> ThreadStates]
      /\ thread'[th].at = "gone" /\ thread'[th].link = thread[th].link
      /\ thread'[th].left = thread[th].left /\ thread'[th].in = thread[th].in
      /\ \A u \in Thread : u # th => thread'[u] = thread[u]
  BY <1>1, GoToEffect DEF Places
<1>3. /\ DriverInv(driver') /\ driver'.ref = driver.ref /\ driver'.open
      /\ driver'.delivered = driver.delivered
      /\ driver'.node = driver.node /\ driver'.made = driver.made /\ LiveIn(driver') \subseteq LiveIn(driver)
  <2>1. {th} \in SUBSET Thread /\ DriverInv(driver)
    BY DEF IInv
  <2>2. LET q == ReleaseThreads(driver, {th})
        IN  /\ DriverInv(q) /\ q.ref = driver.ref /\ q.open /\ q.delivered = driver.delivered
            /\ q.proc_todo = driver.proc_todo
            /\ q.node = driver.node /\ q.made = driver.made /\ LiveIn(q) \subseteq LiveIn(driver)
            /\ \A u \in {th} : q.todo[u] = <<>>
    BY <2>1, ReleaseThreadsEffect
  <2> QED BY <2>2, <1>1
<1>4. ThreadInv'
  <2>1. \A u \in Thread : u # th => ThreadOK(u)'
    BY <1>1, <1>2, <1>3, OtherThreads
  <2>2. ThreadOK(th)'
    BY <1>1, <1>2 DEF ThreadOK, Holding
  <2> QED BY <1>1, <1>2, <1>3, <2>1, <2>2 DEF IInv, ThreadInv
<1>5. ProxyInv'
  BY <1>1, <1>3 DEF IInv, ProxyInv, DriverAgrees
<1>6. CountInv'
  <2>1. ClearsOf(thread') = ClearsOf(thread) /\ AcksOf(thread') = AcksOf(thread)
    <3>1. UnackOf(thread'[th]) = UnackOf(thread[th])
      BY <1>1, <1>2 DEF UnackOf
    <3>2. \A u \in Thread : thread'[u].in = thread[u].in /\ UnackOf(thread'[u]) = UnackOf(thread[u])
      BY <3>1, <1>2
    <3> QED BY <3>2, SameCounts
  <2>2. ~Quiet
    BY <1>1 DEF Quiet
  <2>3. LiveNumber(driver') <= LiveNumber(driver) /\ LiveNumber(driver') \in Nat
    <3>1. IsFiniteSet(LiveIn(driver))
      BY LiveCount DEF IInv
    <3> QED BY <3>1, <1>3, FS_Subset, FS_CardinalityType DEF LiveNumber
  <2>4. /\ ClearCount(thread) \in Nat /\ LiveNumber(driver) \in Nat /\ proxy.refs \in Nat
        /\ proxy.refs >= LiveNumber(driver) + ClearCount(thread)
    BY Counts
  <2>5. proxy.refs >= LiveNumber(driver') + ClearCount(thread)
    BY <2>3, <2>4
  <2> QED BY <2>1, <2>2, <2>5, <1>1, <1>3 DEF IInv, CountInv, LiveNumber, ClearCount, Quiet
<1>7. FateInv'
  <2>1. \A i \in DOMAIN thread'[th].in : thread'[th].in[i] = "dead" => ~driver'.node
    BY <1>1, <1>2
  <2>2. proxy'.sent => ~driver'.node
    BY <1>1, <1>3 DEF IInv, FateInv
  <2> QED BY <2>1, <2>2, <1>1, <1>2, <1>3, SameFates
<1> QED BY <1>3, <1>4, <1>5, <1>6, <1>7 DEF IInv

LEMMA ProcessExitsStep ==
  ASSUME IInv, driver.open, ProcessExits
  PROVE  IInv'
<1>1. MayExit /\ driver' = ReleaseProcess(driver) /\ UNCHANGED <<proxy, lock, thread, links, fate>>
  BY DEF ProcessExits
<1>2. /\ DriverInv(driver') /\ driver'.ref = NoDeath /\ ~driver'.open
      /\ driver'.node = driver.node /\ driver'.made = driver.made /\ LiveIn(driver') = {}
  <2>1. LET q == ReleaseProcess(driver)
        IN  /\ DriverInv(q) /\ q.ref = NoDeath /\ ~q.open
            /\ q.node = driver.node /\ q.made = driver.made /\ LiveIn(q) = {}
    BY ReleaseProcessEffect DEF IInv
  <2> QED BY <2>1, <1>1
<1>3. ThreadInv'
  BY <1>1, <1>2 DEF IInv, ThreadInv, ThreadOK
<1>4. ProxyInv'
  BY <1>1, <1>2 DEF IInv, ProxyInv, DriverAgrees
<1>5. CountInv'
  <2>1. LiveNumber(driver') = 0
    BY <1>2, FS_EmptySet DEF LiveNumber
  <2>2. proxy.refs >= 0 + ClearCount(thread)
    BY Counts
  <2>3. ~Quiet
    BY <1>1 DEF Quiet
  <2> QED BY <2>1, <2>2, <2>3, <1>1, <1>2 DEF IInv, CountInv, LiveNumber, ClearCount, Quiet
<1>6. FateInv'
  BY <1>1, <1>2 DEF IInv, FateInv, FateOK
<1> QED BY <1>2, <1>3, <1>4, <1>5, <1>6 DEF IInv

-----------------------------------------------------------------------------
LEMMA InitIInv == Init => IInv
<1> SUFFICES ASSUME Init PROVE IInv
  OBVIOUS
<1>0. MaxLinks \in Nat /\ NoDeath = 0 /\ \A d \in Deaths : d \in Nat /\ d > 0
  BY Counters DEF NoDeath
<1>1. driver = [node |-> TRUE, open |-> TRUE, made |-> 0, ref |-> NoDeath,
                type |-> [d \in Deaths |-> "none"], frees |-> [d \in Deaths |-> 0],
                proc_todo |-> <<>>, todo |-> [th \in Thread |-> <<>>],
                delivered |-> <<>>]
  BY DEF Init
<1>2. DriverInv(driver)
  <2>1. driver \in Drivers
    BY <1>0, <1>1 DEF Drivers, Types
  <2>2. \A d \in Deaths : ~OnList(driver, d)
    BY <1>1 DEF OnList, Elements
  <2>3. ListsOK(driver)
    BY <1>1 DEF ListsOK, Distinct, Apart, Elements
  <2>4. ASSUME NEW d \in Deaths PROVE RecordOK(driver, d)
    <3>1. d \notin Elements(driver.delivered)
      BY <1>1 DEF Elements
    <3>2. driver.frees[d] = 0 /\ driver.type[d] = "none" /\ driver.made = 0
      BY <1>1
    <3> QED BY <2>2, <3>1, <3>2, <1>0 DEF RecordOK
  <2>5. RefOK(driver)
    BY <1>0, <1>1 DEF RefOK
  <2> QED BY <2>1, <2>3, <2>4, <2>5 DEF DriverInv, RecordsOK
<1>3. /\ thread \in [Thread -> ThreadStates]
      /\ \A th \in Thread : /\ thread[th].at = "idle" /\ thread[th].left = {}
                            /\ thread[th].in = <<>>
  BY DEF Init, ThreadStates, Places
<1>4. /\ lock = NoThread /\ links = 0 /\ fate = [l \in Links |-> "new"]
      /\ proxy = [exists |-> TRUE, held |-> TRUE, refs |-> 0, vector |-> FALSE,
                  obituaries |-> {}, sent |-> FALSE]
  BY DEF Init
<1>5. ThreadInv
  <2>1. ASSUME NEW th \in Thread PROVE ThreadOK(th)
    BY <1>3, <1>4, DeathAssumption DEF ThreadOK, Holding
  <2>2. links \in 0..MaxLinks /\ driver.made <= links
    BY <1>0, <1>1, <1>4
  <2> QED BY <1>3, <1>4, <2>1, <2>2 DEF ThreadInv
<1>6. ProxyInv
  BY <1>0, <1>1, <1>4 DEF ProxyInv, Proxies, DriverAgrees
<1>7. CountInv
  <2>1. ClearsOf(thread) = {} /\ AcksOf(thread) = {}
    <3>1. \A th \in Thread : Positions(thread[th].in, "clear") = {} /\ UnackOf(thread[th]) = {}
      BY <1>3 DEF Positions, UnackOf
    <3> QED BY <3>1 DEF ClearsOf, AcksOf, Pairs
  <2>2. LiveIn(driver) = {}
    BY <1>1 DEF LiveIn
  <2>3. Len(driver.delivered) = 0 /\ driver.open /\ proxy.refs = 0
    BY <1>1, <1>4
  <2>4. Cardinality({}) = 0 /\ IsFiniteSet({})
    BY FS_EmptySet
  <2> QED BY <2>1, <2>2, <2>3, <2>4 DEF CountInv
<1>8. FateInv
  BY <1>3, <1>4 DEF FateInv, FateOK, Fates
<1> QED BY <1>2, <1>5, <1>6, <1>7, <1>8 DEF IInv

LEMMA NextIInv == IInv /\ [Next]_vars => IInv'
<1> SUFFICES ASSUME IInv, [Next]_vars PROVE IInv'
  OBVIOUS
<1>1. CASE UNCHANGED vars
  <2>1. UNCHANGED <<driver, proxy, lock, thread, links, fate>>
    BY <1>1 DEF vars
  <2> QED BY <2>1 DEF IInv, ThreadInv, ThreadOK, ProxyInv, DriverAgrees, CountInv, FateInv, FateOK, Quiet
<1>2. ASSUME driver.open, NEW th \in Thread, LinkToDeath(th) PROVE IInv'
  <2>1. InApplication(th) /\ proxy.held /\ links < MaxLinks /\ links' = links + 1
    BY <1>2 DEF LinkToDeath
  <2>2. CASE /\ ~proxy.sent
             /\ TakeLock(th)
             /\ thread' = [thread EXCEPT ![th].at = "linking", ![th].link = links']
             /\ proxy' = Watched(proxy)
             /\ driver' = IF proxy.vector THEN driver ELSE RequestDeath(driver, th)
             /\ UNCHANGED fate
    BY <2>1, <2>2, <1>2, LinkAccepted
  <2>3. CASE /\ proxy.sent /\ lock = NoThread
             /\ fate' = [fate EXCEPT ![links'] = "refused"]
             /\ UNCHANGED <<driver, proxy, lock, thread>>
    BY <2>1, <2>3, <1>2, LinkRefused
  <2> QED BY <1>2, <2>2, <2>3 DEF LinkToDeath
<1>3. ASSUME driver.open, NEW th \in Thread, SendObituary(th) PROVE IInv'
  BY <1>3, SendClearStep, SendNothingStep DEF SendObituary
<1>4. ASSUME driver.open, NEW th \in Thread, Calls(th) \/ Returns(th) PROVE IInv'
  BY <1>2, <1>4, UnlinkToDeathStep, DropProxyStep, GetProxyStep, AddObituaryStep,
     DropObituariesStep DEF Calls, Returns
<1>5. ASSUME driver.open, NEW th \in Thread, Handles(th) PROVE IInv'
  BY <1>3, <1>5, ClearDoneStep, DeadBinderStep, TakeObituariesStep, ReportOneDeathStep,
     SendDoneStep DEF Handles
<1>6. CASE Next
  BY <1>4, <1>5, <1>6, ReadStep, ThreadExitsStep, NodeDiesStep, ProcessExitsStep DEF Next
<1> QED BY <1>1, <1>6

LEMMA Invariance == Spec => []IInv
BY InitIInv, NextIInv, PTL DEF Spec

-----------------------------------------------------------------------------
(* What follows. *)

\* Every state has the types that TypeOK gives, whoever exits.
THEOREM TypeCorrect == Spec => []TypeOK
<1>1. IInv => TypeOK
  BY DEF IInv, DriverInv, ThreadInv, ProxyInv, FateInv, TypeOK, Fates
<1> QED BY <1>1, Invariance, PTL

\* The driver's assertions about an attached record hold: binder_node_release
\* finds it on no list, and a clear finds nothing but an obituary.
THEOREM NeverBugOn == Spec => []NoBugOn
<1>1. IInv => NoBugOn
  BY DEF IInv, DriverInv, RefOK, NoBugOn
<1> QED BY <1>1, Invariance, PTL

\* Outside mLock the driver has a record exactly for a proxy with obituaries.
THEOREM DriverAlwaysAgrees == Spec => []DriverAgrees
<1>1. IInv => DriverAgrees
  BY DEF IInv, ProxyInv
<1> QED BY <1>1, Invariance, PTL

\* A record is freed once and is on no list then; none is left when the process
\* is gone.
THEOREM FreedOnce == Spec => []DeathFreedOnce
<1>1. IInv => DeathFreedOnce
  <2> SUFFICES ASSUME IInv, NEW d \in 1..driver.made
               PROVE  /\ driver.frees[d] <= 1
                      /\ driver.frees[d] = 1 => d # driver.ref /\ ~OnList(driver, d)
                      /\ ~driver.open => driver.frees[d] = 1
    BY DEF DeathFreedOnce
  <2>1. d \in Deaths
    <3>1. driver.made \in Nat /\ driver.made <= MaxLinks /\ MaxLinks \in Nat
      BY StateFacts, Counters
    <3> QED BY <3>1 DEF Deaths
  <2>2. RecordOK(driver, d) /\ RefOK(driver)
    BY <2>1 DEF IInv, DriverInv, RecordsOK
  <2> QED BY <2>2 DEF RecordOK, RefOK
<1> QED BY <1>1, Invariance, PTL

\* The sets of WeakCountExact and DoneFindsItsDeath are those counted here.
LEMMA CountedSets ==
  ASSUME IInv
  PROVE  /\ UNION {{th} \X Unread(th) : th \in Thread} = ClearsOf(thread)
         /\ UNION {{th} \X Unacknowledged(th) : th \in Thread} = AcksOf(thread)
         /\ Live = LiveIn(driver)
<1>1. \A th \in Thread : Unread(th) = Positions(thread[th].in, "clear")
  BY DEF Unread, Positions
<1>2. \A th \in Thread : Unacknowledged(th) = UnackOf(thread[th])
  BY DEF Unacknowledged, UnackOf, Positions, Reporting, At
<1>3. UNION {{th} \X Unread(th) : th \in Thread} = ClearsOf(thread)
  BY <1>1 DEF ClearsOf, Pairs
<1>4. UNION {{th} \X Unacknowledged(th) : th \in Thread} = AcksOf(thread)
  BY <1>2 DEF AcksOf, Pairs
<1> QED BY <1>3, <1>4 DEF Live, LiveIn

\* Every BC_DEAD_BINDER_DONE finds a record in delivered_death, and there is none
\* that nobody will acknowledge.
THEOREM EveryDoneFindsItsDeath == Spec => []DoneFindsItsDeath
<1>1. IInv => DoneFindsItsDeath
  BY CountedSets DEF IInv, CountInv, DoneFindsItsDeath
<1> QED BY <1>1, Invariance, PTL

\* The weak references of linkToDeath are as many as the records and commands
\* that will give them back, as long as neither a looper nor the process exits.
THEOREM WeakCountIsExact ==
  ASSUME Exiting = {}, ~MayExit
  PROVE  Spec => []WeakCountExact
<1>1. IInv => WeakCountExact
  <2>1. Quiet
    BY DEF Quiet
  <2> QED BY <2>1, CountedSets DEF IInv, CountInv, WeakCountExact
<1> QED BY <1>1, Invariance, PTL

\* The address that a command of the driver carries is that of a living proxy,
\* whoever exits, and nobody is linked to a proxy that is destroyed.
THEOREM ProxyLivesLongEnough == Spec => []ProxyOutlivesItsDeaths
<1>1. IInv => ProxyOutlivesItsDeaths
  <2> SUFFICES ASSUME IInv, driver.open, ~proxy.exists
               PROVE  /\ Live = {} /\ ~proxy.vector
                      /\ \A th \in Thread : thread[th].in = <<>> /\ ~Reporting(th)
    BY DEF ProxyOutlivesItsDeaths
  <2>1. proxy.refs = 0 /\ ~proxy.held
    BY DEF IInv, ProxyInv
  <2>2. /\ LiveNumber(driver) \in Nat /\ ClearCount(thread) \in Nat
        /\ 0 >= LiveNumber(driver) + ClearCount(thread)
    BY <2>1, Counts
  <2>3. LiveNumber(driver) = 0 /\ ClearCount(thread) = 0
    BY <2>2
  <2>4. IsFiniteSet(LiveIn(driver)) /\ IsFiniteSet(ClearsOf(thread))
    BY LiveCount DEF IInv, CountInv
  <2>5. LiveIn(driver) = {} /\ ClearsOf(thread) = {}
    BY <2>3, <2>4, FS_EmptySet DEF LiveNumber, ClearCount
  <2>6. \A u \in Thread : thread[u].at \notin {"linking", "unlinking"}
    BY <2>1, ThreadFacts DEF ThreadOK
  <2>7. ~proxy.vector
    BY <2>3, <2>6, NothingToClear
  <2>8. ASSUME NEW th \in Thread PROVE thread[th].in = <<>> /\ ~Reporting(th)
    <3>1. /\ thread[th].at \notin {"unsent", "clearing", "reporting", "done"}
          /\ Positions(thread[th].in, "dead") = {}
      <4>1. ASSUME \/ thread[th].at \in {"unsent", "clearing", "reporting", "done"}
                   \/ Positions(thread[th].in, "dead") # {}
            PROVE  FALSE
        <5>1. LiveNumber(driver) >= 1
          BY <4>1, DeliveredToThread
        <5> QED BY <5>1, <2>3
      <4> QED BY <4>1
    <3>2. Positions(thread[th].in, "clear") = {}
      <4> DEFINE F == [u \in Thread |-> Positions(thread[u].in, "clear")]
      <4>1. Pairs(F) = {} /\ F[th] = Positions(thread[th].in, "clear")
        BY <2>5 DEF ClearsOf
      <4> HIDE DEF F
      <4>2. {th} \X F[th] \subseteq Pairs(F)
        BY DEF Pairs
      <4>3. ASSUME NEW x \in F[th] PROVE FALSE
        <5>1. <<th, x>> \in {th} \X F[th]
          BY <4>3
        <5> QED BY <5>1, <4>1, <4>2
      <4> QED BY <4>1, <4>3
    <3>3. thread[th].in \in Seq({"dead", "clear"})
      BY ThreadFacts
    <3>4. thread[th].in = <<>>
      <4>1. \A i \in DOMAIN thread[th].in : thread[th].in[i] \in {"dead", "clear"}
        BY <3>3
      <4>2. DOMAIN thread[th].in = {}
        BY <3>1, <3>2, <4>1 DEF Positions
      <4>3. DOMAIN thread[th].in = 1..Len(thread[th].in) /\ Len(thread[th].in) \in Nat
        BY <3>3, LenProperties
      <4>4. Len(thread[th].in) = 0
        <5>1. 1 \notin 1..Len(thread[th].in)
          BY <4>2, <4>3
        <5> QED BY <5>1, <4>3
      <4> QED BY <4>4, <3>3, EmptySeq
    <3> QED BY <3>1, <3>4 DEF Reporting
  <2> QED BY <2>5, <2>7, <2>8, CountedSets
<1> QED BY <1>1, Invariance, PTL

\* The node's life is the driver's business.
LEMMA NodeKept ==
  ASSUME IInv, driver.open, NEW th \in Thread
  PROVE  /\ ClearDeath(driver, th).node = driver.node
         /\ driver.made < MaxLinks => RequestDeath(driver, th).node = driver.node
         /\ driver.delivered # <<>> => DeathDone(driver, th).node = driver.node
         /\ ReleaseThreads(driver, {th}).node = driver.node
         /\ ReleaseProcess(driver).node = driver.node
<1>1. DriverInv(driver) /\ {th} \in SUBSET Thread
  BY DEF IInv
<1>2. ClearDeath(driver, th).node = driver.node
  BY <1>1, ClearDeathEffect
<1>3. driver.made < MaxLinks => RequestDeath(driver, th).node = driver.node
  BY <1>1, RequestDeathEffect
<1>4. driver.delivered # <<>> => DeathDone(driver, th).node = driver.node
  BY <1>1, DeathDoneEffect
<1>5. ReleaseThreads(driver, {th}).node = driver.node
  BY <1>1, ReleaseThreadsEffect
<1>6. ReleaseProcess(driver).node = driver.node
  BY <1>1, ReleaseProcessEffect
<1> QED BY <1>2, <1>3, <1>4, <1>5, <1>6

LEMMA NoticeStep ==
  ASSUME IInv, driver.open, NEW th \in Thread,
         \/ Calls(th) \/ Returns(th) \/ Read(th) \/ Handles(th) \/ ThreadExits(th)
  PROVE  \/ UNCHANGED <<driver.node, fate>>
         \/ /\ UNCHANGED driver.node
            /\ \E l \in Links :
                 \/ fate[l] = "new" /\ fate' = [fate EXCEPT ![l] = "linked"]
                 \/ ~driver.node /\ fate[l] = "new" /\ fate' = [fate EXCEPT ![l] = "refused"]
                 \/ fate[l] = "linked" /\ fate' = [fate EXCEPT ![l] = "unlinked"]
                 \/ ~driver.node /\ fate[l] = "linked" /\ fate' = [fate EXCEPT ![l] = "told"]
<1>0. /\ proxy.sent => ~driver.node
      /\ driver' = driver \/ driver' = ClearDeath(driver, th) => driver'.node = driver.node
  <2>1. ClearDeath(driver, th).node = driver.node
    BY NodeKept
  <2>2. driver' = driver \/ driver' = ClearDeath(driver, th) => driver'.node = driver.node
    BY <2>1
  <2> QED BY <2>2 DEF IInv, FateInv
<1>1. CASE LinkToDeath(th)
  <2>1. links < MaxLinks /\ links' = links + 1
    BY <1>1 DEF LinkToDeath
  <2>2. links + 1 \in Links /\ fate[links + 1] = "new"
    BY <2>1, NextLink
  <2>3. CASE proxy.sent
    BY <2>1, <2>2, <2>3, <1>0, <1>1 DEF LinkToDeath
  <2>4. CASE ~proxy.sent
    <3>1. driver.made < MaxLinks
      BY <2>1, StateFacts, Counters
    <3>2. UNCHANGED fate /\ driver' = IF proxy.vector THEN driver ELSE RequestDeath(driver, th)
      BY <2>4, <1>1 DEF LinkToDeath
    <3>3. RequestDeath(driver, th).node = driver.node
      BY <3>1, NodeKept
    <3> QED BY <3>2, <3>3
  <2> QED BY <2>3, <2>4
<1>2. CASE AddObituary(th)
  <2>1. /\ thread[th].at = "linking" /\ fate' = [fate EXCEPT ![thread[th].link] = "linked"]
        /\ UNCHANGED driver
    BY <1>2 DEF AddObituary, At
  <2>2. thread[th].link = links /\ links > 0 /\ fate[thread[th].link] = "new"
    BY <2>1, ThreadFacts DEF ThreadOK, FateOK
  <2>3. links \in Links
    BY <2>2, StateFacts DEF Links
  <2> QED BY <2>1, <2>2, <2>3
<1>3. CASE UnlinkToDeath(th)
  <2>1. PICK l \in proxy.obituaries :
          /\ fate' = [fate EXCEPT ![l] = "unlinked"]
          /\ driver' = driver \/ driver' = ClearDeath(driver, th)
    BY <1>3 DEF UnlinkToDeath
  <2>2. l \in Links /\ fate[l] = "linked"
    BY StateFacts DEF IInv, FateInv
  <2>3. UNCHANGED driver.node
    BY <2>1, <1>0
  <2> QED BY <2>1, <2>2, <2>3
<1>4. CASE ReportOneDeath(th)
  <2>1. PICK l \in thread[th].left :
          fate' = [fate EXCEPT ![l] = IF @ = "told" THEN "told_again" ELSE "told"]
    BY <1>4 DEF ReportOneDeath
  <2>2. l \in Links /\ fate[l] = "linked" /\ ~driver.node
    BY <1>0, ThreadFacts DEF ThreadOK, FateOK
  <2>3. fate' = [fate EXCEPT ![l] = "told"] /\ UNCHANGED driver
    BY <2>1, <2>2, <1>4, StateFacts DEF ReportOneDeath
  <2> QED BY <2>2, <2>3
<1>5. CASE DropProxy(th) \/ ClearDone(th)
  <2>1. UNCHANGED fate /\ (driver' = driver \/ driver' = ClearDeath(driver, th))
    BY <1>5 DEF DropProxy, ClearDone, AfterRelease
  <2> QED BY <2>1, <1>0
<1>6. CASE SendObituary(th)
  <2>1. UNCHANGED fate /\ (driver' = driver \/ driver' = ClearDeath(driver, th))
    BY <1>6 DEF SendObituary
  <2> QED BY <2>1, <1>0
<1>7. CASE SendDone(th)
  <2>1. driver.delivered # <<>>
    BY <1>7, DeliveredToThread DEF SendDone, At
  <2> QED BY <2>1, <1>7, NodeKept DEF SendDone
<1>8. CASE ThreadExits(th)
  BY <1>8, NodeKept DEF ThreadExits
<1>9. CASE Read(th)
  <2>1. PICK own, list, n :
          driver' = [Deliver(driver, list, n) EXCEPT
                       !.todo[th] = IF own THEN Rest(list, n) ELSE @,
                       !.proc_todo = IF own THEN @ ELSE Rest(list, n)]
    BY <1>9 DEF Read
  <2>2. driver \in Drivers
    BY StateFacts
  <2>3. driver'.node = driver.node
    BY <2>1, <2>2 DEF Deliver, Drivers
  <2> QED BY <2>3, <1>9 DEF Read
<1>10. CASE GetProxy(th) \/ DropObituaries(th) \/ DeadBinder(th) \/ TakeObituaries(th)
  BY <1>10 DEF GetProxy, DropObituaries, DeadBinder, TakeObituaries
<1> QED BY <1>1, <1>2, <1>3, <1>4, <1>5, <1>6, <1>7, <1>8, <1>9, <1>10 DEF Calls, Returns, Handles

\* The safety half of ImplementsDeathNotice: every step is one that linkToDeath
\* promises or none of a recipient's business.  Nobody hears of a death that has
\* not happened, or hears twice, or after an unlinkToDeath that succeeded.
THEOREM KeepsThePromise ==
  Spec => Notice!Init /\ [][Notice!Next]_<<~driver.node, fate>>
<1>1. Init => Notice!Init
  BY DEF Init, Notice!Init
<1>2. IInv /\ [Next]_vars => [Notice!Next]_<<~driver.node, fate>>
  <2> SUFFICES ASSUME IInv, [Next]_vars PROVE [Notice!Next]_<<~driver.node, fate>>
    OBVIOUS
  <2>1. CASE UNCHANGED vars
    BY <2>1 DEF vars
  <2>2. CASE NodeDies
    <3>1. driver \in Drivers /\ driver.node /\ driver' = NodeRelease(driver) /\ UNCHANGED fate
      BY <2>2, StateFacts DEF NodeDies
    <3>2. ~driver'.node
      BY <3>1 DEF NodeRelease, Drivers
    <3>3. Notice!Die
      BY <3>1, <3>2 DEF Notice!Die
    <3> QED BY <3>3 DEF Notice!Next
  <2>3. ASSUME driver.open, ProcessExits PROVE UNCHANGED <<~driver.node, fate>>
    <3>1. driver' = ReleaseProcess(driver) /\ UNCHANGED fate /\ DriverInv(driver)
      BY <2>3 DEF ProcessExits, IInv
    <3> QED BY <3>1, <2>3, ReleaseProcessEffect
  <2>4. ASSUME driver.open, NEW th \in Thread,
               Calls(th) \/ Returns(th) \/ Read(th) \/ Handles(th) \/ ThreadExits(th)
        PROVE  [Notice!Next]_<<~driver.node, fate>>
    <3>1. \/ UNCHANGED <<driver.node, fate>>
          \/ /\ UNCHANGED driver.node
             /\ \E l \in Links :
                  \/ fate[l] = "new" /\ fate' = [fate EXCEPT ![l] = "linked"]
                  \/ ~driver.node /\ fate[l] = "new" /\ fate' = [fate EXCEPT ![l] = "refused"]
                  \/ fate[l] = "linked" /\ fate' = [fate EXCEPT ![l] = "unlinked"]
                  \/ ~driver.node /\ fate[l] = "linked" /\ fate' = [fate EXCEPT ![l] = "told"]
      BY <2>4, NoticeStep
    <3>2. CASE UNCHANGED <<driver.node, fate>>
      BY <3>2
    <3>3. ASSUME UNCHANGED driver.node, NEW l \in Links,
                 \/ fate[l] = "new" /\ fate' = [fate EXCEPT ![l] = "linked"]
                 \/ ~driver.node /\ fate[l] = "new" /\ fate' = [fate EXCEPT ![l] = "refused"]
                 \/ fate[l] = "linked" /\ fate' = [fate EXCEPT ![l] = "unlinked"]
                 \/ ~driver.node /\ fate[l] = "linked" /\ fate' = [fate EXCEPT ![l] = "told"]
          PROVE  Notice!Next
      <4>1. Notice!Link(l) \/ Notice!Refuse(l) \/ Notice!Unlink(l) \/ Notice!Tell(l)
        BY <3>3 DEF Notice!Link, Notice!Refuse, Notice!Unlink, Notice!Tell, Notice!Becomes
      <4> QED BY <4>1 DEF Notice!Next
    <3> QED BY <3>1, <3>2, <3>3
  <2> QED BY <2>1, <2>2, <2>3, <2>4 DEF Next
<1> QED BY <1>1, <1>2, Invariance, PTL DEF Spec
=============================================================================
