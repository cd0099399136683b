--------------------------- MODULE ProxyTableProofs ---------------------------
(***************************************************************************)
(* A handle has one usable proxy, for any threads, proxies and objects and *)
(* any number of buffers.                                                  *)
(*                                                                         *)
(* The inductive invariant adds what the life of a proxy says of the       *)
(* pointers to it: it is alive as long as there is a weak one, then one    *)
(* thread is in its destructor, then its memory is unused and nobody and   *)
(* no entry names it.  Nothing is needed of the driver's references.       *)
(*                                                                         *)
(* And the references: the driver's counts and what waits in the mOuts add *)
(* up to what the process has, until a decrement overtakes an increment.   *)
(* KInv, below, strengthens that by what makes it inductive.  In every     *)
(* mOut an increment is followed by the return of the buffer that brought  *)
(* the handle, or the thread has that buffer still: so the driver has a    *)
(* count whenever the increment comes.  And at no place of any mOut do     *)
(* more increments remain than the process has references or decrements    *)
(* remain: so a decrement finds the count that it gives up.                *)
(***************************************************************************)
EXTENDS ProxyTable, WellFoundedInduction, FiniteSetTheorems, SequenceTheorems, TLAPS

UserStates ==
  [strongs : SUBSET Proxy, weaks : SUBSET Proxy, destroys : Proxy \cup {None},
   parcel : [handle : Handle, strong : BOOLEAN] \cup {NoParcel},
   out : Seq([cmd : Commands, handle : Handle])]

UserOK(t) == user[t].strongs \subseteq user[t].weaks

IsProxy(r) == r = [handle |-> r.handle, node |-> r.node, at |-> r.at]

\* The life of one proxy.
ProxyOK(p) ==
  /\ IsProxy(proxy[p]) /\ proxy[p].at \in {"unused", "alive", "dying"}
  /\ proxy[p].at # "unused" => proxy[p].handle \in Handle
  /\ proxy[p].at = "alive" <=> Weaks(p) # {}
  /\ proxy[p].at = "alive" => table[proxy[p].handle] = p
  /\ proxy[p].at = "dying" <=> \E t \in Thread : user[t].destroys = p
  /\ \A t, u \in Thread : user[t].destroys = p /\ user[u].destroys = p => t = u

EntryOK(h) ==
  table[h] # None => proxy[table[h]].at # "unused" /\ proxy[table[h]].handle = h

IInv ==
  /\ table \in [Handle -> Proxy \cup {None}]
  /\ DOMAIN proxy = Proxy /\ proxy = [p \in Proxy |-> proxy[p]]
  /\ user \in [Thread -> UserStates]
  /\ \A t \in Thread : UserOK(t)
  /\ \A p \in Proxy : ProxyOK(p)
  /\ \A h \in Handle : EntryOK(h)

-----------------------------------------------------------------------------
Outs == Seq([cmd : Commands, handle : Handle])

LEMMA UserFields ==
  ASSUME NEW r \in UserStates
  PROVE  /\ r.strongs \in SUBSET Proxy /\ r.weaks \in SUBSET Proxy
         /\ r.destroys \in Proxy \cup {None} /\ r.out \in Outs
         /\ r.parcel # NoParcel => r.parcel.handle \in Handle /\ r.parcel.strong \in BOOLEAN
         /\ r.parcel \in [handle : Handle, strong : BOOLEAN] \cup {NoParcel}
BY DEF UserStates, Outs

LEMMA NoneIsNoProxy == None \notin Proxy
BY TableAssumption

\* A thread's next state.
LEMMA UserStep ==
  ASSUME IInv, NEW t \in Thread, NEW r \in UserStates, r.strongs \subseteq r.weaks,
         user' = [user EXCEPT ![t] = r]
  PROVE  /\ user' \in [Thread -> UserStates] /\ user'[t] = r
         /\ \A u \in Thread : u # t => user'[u] = user[u]
         /\ \A u \in Thread : UserOK(u)'
<1>1. user \in [Thread -> UserStates] /\ \A u \in Thread : UserOK(u)
  BY DEF IInv
<1>2. /\ user' \in [Thread -> UserStates] /\ user'[t] = r
      /\ \A u \in Thread : u # t => user'[u] = user[u]
  BY <1>1
<1> QED BY <1>1, <1>2 DEF UserOK

\* A step after which the same proxies are pointed to and destroyed.
LEMMA SameLives ==
  ASSUME IInv, user' \in [Thread -> UserStates], \A u \in Thread : UserOK(u)',
         UNCHANGED <<table, proxy>>,
         \A u \in Thread : user'[u].destroys = user[u].destroys,
         \A p \in Proxy : (\E u \in Thread : p \in user'[u].weaks)
                            <=> (\E u \in Thread : p \in user[u].weaks)
  PROVE  IInv'
<1>1. ASSUME NEW p \in Proxy PROVE ProxyOK(p)'
  <2>1. ProxyOK(p)
    BY DEF IInv
  <2>2. Weaks(p)' # {} <=> Weaks(p) # {}
    BY DEF Weaks
  <2> QED BY <2>1, <2>2 DEF ProxyOK
<1>2. \A h \in Handle : EntryOK(h)'
  BY DEF IInv, EntryOK
<1> QED BY <1>1, <1>2 DEF IInv

LEMMA OutStep ==
  ASSUME NEW out \in Outs, NEW h \in Handle, NEW p
  PROVE  /\ \A c \in Commands : Append(out, Command(c, h)) \in Outs
         /\ out \o OnFirstRef(p, h) \in Outs
         /\ out \o <<Command("BC_INCREFS", h)>> \in Outs
<1>1. \A c \in Commands : Command(c, h) \in [cmd : Commands, handle : Handle]
  BY DEF Command
<1>2. "BC_ACQUIRE" \in Commands /\ "BC_INCREFS" \in Commands
  BY DEF Commands
<1>3. <<Command("BC_ACQUIRE", h)>> \in Outs /\ <<>> \in Outs /\ <<Command("BC_INCREFS", h)>> \in Outs
  BY <1>1, <1>2 DEF Outs
<1>4. OnFirstRef(p, h) \in Outs
  BY <1>3 DEF OnFirstRef
<1>5. \A a, b \in Outs : a \o b \in Outs
  BY DEF Outs
<1>6. \A c \in Commands : Append(out, Command(c, h)) \in Outs
  BY <1>1 DEF Outs
<1> QED BY <1>3, <1>4, <1>5, <1>6

-----------------------------------------------------------------------------
(* The steps that leave every proxy as it is. *)

LEMMA SendStep ==
  ASSUME IInv, NEW n \in Node, NEW t \in Thread, NEW strong \in BOOLEAN, Send(n, t, strong)
  PROVE  IInv'
<1>1. PICK h \in Handle : user' = [user EXCEPT ![t].parcel = [handle |-> h, strong |-> strong]]
  BY DEF Send
<1> DEFINE r == [user[t] EXCEPT !.parcel = [handle |-> h, strong |-> strong]]
<1>2. user[t] \in UserStates /\ UserOK(t) /\ user \in [Thread -> UserStates]
  BY DEF IInv
<1>3. /\ r \in UserStates /\ r.strongs = user[t].strongs /\ r.weaks = user[t].weaks
      /\ r.destroys = user[t].destroys
  BY <1>2 DEF UserStates
<1>4. user' = [user EXCEPT ![t] = r]
  BY <1>1, <1>2
<1> HIDE DEF r
<1>5. /\ user' \in [Thread -> UserStates] /\ user'[t] = r
      /\ \A u \in Thread : u # t => user'[u] = user[u]
      /\ \A u \in Thread : UserOK(u)'
  BY <1>2, <1>3, <1>4, UserStep DEF UserOK
<1>6. \A u \in Thread : user'[u].weaks = user[u].weaks /\ user'[u].destroys = user[u].destroys
  BY <1>3, <1>5
<1> QED BY <1>5, <1>6, SameLives DEF Send

LEMMA FindStep ==
  ASSUME IInv, NEW t \in Thread, Find(t)
  PROVE  IInv'
<1> DEFINE h == user[t].parcel.handle
           p == table[h]
           strong == user[t].parcel.strong
           strongs == IF strong THEN user[t].strongs \cup {p} ELSE user[t].strongs
           out == IF strong THEN user[t].out \o OnFirstRef(p, h) ELSE user[t].out
           r == [user[t] EXCEPT !.weaks = @ \cup {p}, !.strongs = strongs, !.out = out]
<1>1. user[t] \in UserStates /\ UserOK(t) /\ user \in [Thread -> UserStates]
  BY DEF IInv
<1>2. h \in Handle /\ user[t].out \in Outs /\ user[t].strongs \in SUBSET Proxy
  BY <1>1, UserFields DEF Find
<1>3. p \in Proxy /\ Weaks(p) # {}
  BY <1>2 DEF Find, Usable, IInv
<1>4. user' = [user EXCEPT ![t] = r]
  BY <1>1 DEF Find
<1>5. out \in Outs
  <2>1. user[t].out \o OnFirstRef(p, h) \in Outs
    BY <1>2, OutStep
  <2> QED BY <2>1, <1>2
<1>6. strongs \in SUBSET Proxy /\ strongs \subseteq user[t].weaks \cup {p}
  BY <1>1, <1>2, <1>3 DEF UserOK
<1> HIDE DEF h, p, strongs, out, strong
<1>7. /\ r \in UserStates /\ r.strongs = strongs /\ r.weaks = user[t].weaks \cup {p}
      /\ r.destroys = user[t].destroys
  BY <1>1, <1>3, <1>5, <1>6 DEF UserStates, Outs
<1> HIDE DEF r
<1>8. /\ user' \in [Thread -> UserStates] /\ user'[t] = r
      /\ \A u \in Thread : u # t => user'[u] = user[u]
      /\ \A u \in Thread : UserOK(u)'
  BY <1>4, <1>6, <1>7, UserStep
<1>9. ASSUME NEW q \in Proxy
      PROVE  (\E u \in Thread : q \in user'[u].weaks) <=> (\E u \in Thread : q \in user[u].weaks)
  BY <1>3, <1>7, <1>8 DEF Weaks
<1>10. \A u \in Thread : user'[u].destroys = user[u].destroys
  BY <1>7, <1>8
<1> QED BY <1>8, <1>9, <1>10, SameLives DEF Find

\* A thread that points to p gets, gives or gives up a strong pointer, or
\* writes a command.
LEMMA PointerStep ==
  ASSUME IInv, NEW t \in Thread, NEW r \in UserStates, r.strongs \subseteq r.weaks,
         r.destroys = user[t].destroys, user' = [user EXCEPT ![t] = r],
         user[t].weaks \subseteq r.weaks,
         \A p \in r.weaks : \E u \in Thread : p \in user[u].weaks,
         UNCHANGED <<table, proxy>>
  PROVE  IInv'
<1>1. /\ user' \in [Thread -> UserStates] /\ user'[t] = r
      /\ \A u \in Thread : u # t => user'[u] = user[u]
      /\ \A u \in Thread : UserOK(u)'
  BY UserStep
<1>2. ASSUME NEW q \in Proxy
      PROVE  (\E u \in Thread : q \in user'[u].weaks) <=> (\E u \in Thread : q \in user[u].weaks)
  <2>1. ASSUME NEW u \in Thread, q \in user'[u].weaks PROVE \E v \in Thread : q \in user[v].weaks
    BY <1>1, <2>1
  <2>2. ASSUME NEW u \in Thread, q \in user[u].weaks PROVE q \in user'[u].weaks
    BY <1>1, <2>2
  <2> QED BY <2>1, <2>2
<1>3. \A u \in Thread : user'[u].destroys = user[u].destroys
  BY <1>1
<1> QED BY <1>1, <1>2, <1>3, SameLives

LEMMA ShareStep ==
  ASSUME IInv, NEW t \in Thread, NEW u \in Thread, NEW p \in Proxy, Share(t, u, p)
  PROVE  IInv'
<1> DEFINE r == [user[u] EXCEPT !.strongs = @ \cup {p}, !.weaks = @ \cup {p}]
<1>1. /\ user[u] \in UserStates /\ UserOK(u) /\ UserOK(t) /\ user \in [Thread -> UserStates]
      /\ p \in user[t].strongs /\ UNCHANGED <<table, proxy>>
  BY DEF IInv, Share
<1>2. user' = [user EXCEPT ![u] = r]
  BY <1>1 DEF Share
<1>3. /\ r \in UserStates /\ r.strongs = user[u].strongs \cup {p}
      /\ r.weaks = user[u].weaks \cup {p} /\ r.destroys = user[u].destroys
  BY <1>1 DEF UserStates
<1> HIDE DEF r
<1>4. r.strongs \subseteq r.weaks /\ user[u].weaks \subseteq r.weaks /\ p \in user[t].weaks
  BY <1>1, <1>3 DEF UserOK
<1>5. \A q \in r.weaks : \E v \in Thread : q \in user[v].weaks
  BY <1>3, <1>4
<1> QED BY <1>1, <1>2, <1>3, <1>4, <1>5, PointerStep

LEMMA PromoteStep ==
  ASSUME IInv, NEW t \in Thread, NEW p \in Proxy, Promote(t, p)
  PROVE  IInv'
<1> DEFINE r == [user[t] EXCEPT !.strongs = @ \cup {p}]
<1>1. /\ user[t] \in UserStates /\ UserOK(t) /\ user \in [Thread -> UserStates]
      /\ p \in user[t].weaks /\ UNCHANGED <<table, proxy>>
  BY DEF IInv, Promote
<1>2. user' = [user EXCEPT ![t] = r]
  BY <1>1 DEF Promote
<1>3. /\ r \in UserStates /\ r.strongs = user[t].strongs \cup {p}
      /\ r.weaks = user[t].weaks /\ r.destroys = user[t].destroys
  BY <1>1 DEF UserStates
<1> HIDE DEF r
<1>4. r.strongs \subseteq r.weaks /\ \A q \in r.weaks : \E v \in Thread : q \in user[v].weaks
  BY <1>1, <1>3 DEF UserOK
<1> QED BY <1>1, <1>2, <1>3, <1>4, PointerStep

LEMMA DropStrongStep ==
  ASSUME IInv, NEW t \in Thread, NEW p \in Proxy, DropStrong(t, p)
  PROVE  IInv'
<1> DEFINE out == IF Strongs(p) = {t} THEN Append(user[t].out, Command("BC_RELEASE", proxy[p].handle))
                                      ELSE user[t].out
           r == [user[t] EXCEPT !.strongs = @ \ {p}, !.out = out]
<1>1. /\ user[t] \in UserStates /\ UserOK(t) /\ user \in [Thread -> UserStates]
      /\ p \in user[t].strongs /\ UNCHANGED <<table, proxy>> /\ ProxyOK(p)
  BY DEF IInv, DropStrong
<1>2. user' = [user EXCEPT ![t] = r]
  BY <1>1 DEF DropStrong
<1>3. proxy[p].handle \in Handle
  BY <1>1 DEF ProxyOK, Weaks, UserOK
<1>4. out \in Outs
  <2>1. Append(user[t].out, Command("BC_RELEASE", proxy[p].handle)) \in Outs
    BY <1>1, <1>3, OutStep, UserFields DEF Commands
  <2> QED BY <2>1, <1>1, UserFields
<1> HIDE DEF out
<1>5. /\ r \in UserStates /\ r.strongs = user[t].strongs \ {p}
      /\ r.weaks = user[t].weaks /\ r.destroys = user[t].destroys
  BY <1>1, <1>4 DEF UserStates, Outs
<1> HIDE DEF r
<1>6. r.strongs \subseteq r.weaks /\ \A q \in r.weaks : \E v \in Thread : q \in user[v].weaks
  BY <1>1, <1>5 DEF UserOK
<1> QED BY <1>1, <1>2, <1>5, <1>6, PointerStep

LEMMA FreeBufferStep ==
  ASSUME IInv, NEW t \in Thread, FreeBuffer(t)
  PROVE  IInv'
<1> DEFINE cmd == IF user[t].parcel.strong THEN "BC_FREE_BUFFER" ELSE "BC_FREE_BUFFER_WEAK"
           out == Append(user[t].out, Command(cmd, user[t].parcel.handle))
           r == [user[t] EXCEPT !.parcel = NoParcel, !.out = out]
<1>1. /\ user[t] \in UserStates /\ UserOK(t) /\ user \in [Thread -> UserStates]
      /\ user[t].parcel # NoParcel /\ UNCHANGED <<table, proxy>>
  BY DEF IInv, FreeBuffer
<1>2. user' = [user EXCEPT ![t] = r]
  BY <1>1 DEF FreeBuffer
<1>3. out \in Outs
  <2>1. cmd \in Commands /\ user[t].parcel.handle \in Handle /\ user[t].out \in Outs
    BY <1>1, UserFields DEF Commands
  <2> QED BY <2>1, OutStep
<1> HIDE DEF out
<1>4. /\ r \in UserStates /\ r.strongs = user[t].strongs
      /\ r.weaks = user[t].weaks /\ r.destroys = user[t].destroys
  BY <1>1, <1>3 DEF UserStates, Outs
<1> HIDE DEF r
<1>5. r.strongs \subseteq r.weaks /\ \A q \in r.weaks : \E v \in Thread : q \in user[v].weaks
  BY <1>1, <1>4 DEF UserOK
<1> QED BY <1>1, <1>2, <1>4, <1>5, PointerStep

LEMMA FlushStep ==
  ASSUME IInv, NEW t \in Thread, Flush(t)
  PROVE  IInv'
<1> DEFINE r == [user[t] EXCEPT !.out = <<>>]
<1>1. /\ user[t] \in UserStates /\ UserOK(t) /\ user \in [Thread -> UserStates]
      /\ UNCHANGED <<table, proxy>>
  BY DEF IInv, Flush
<1>2. user' = [user EXCEPT ![t] = r]
  BY <1>1 DEF Flush
<1>3. /\ r \in UserStates /\ r.strongs = user[t].strongs
      /\ r.weaks = user[t].weaks /\ r.destroys = user[t].destroys
  <2>1. <<>> \in Seq([cmd : Commands, handle : Handle])
    OBVIOUS
  <2> QED BY <1>1, <2>1 DEF UserStates
<1> HIDE DEF r
<1>4. r.strongs \subseteq r.weaks /\ \A q \in r.weaks : \E v \in Thread : q \in user[v].weaks
  BY <1>1, <1>3 DEF UserOK
<1> QED BY <1>1, <1>2, <1>3, <1>4, PointerStep

-----------------------------------------------------------------------------
(* The steps in the life of one proxy. *)

\* proxy as a function of the proxies.
LEMMA ProxyChange ==
  ASSUME IInv, NEW p \in Proxy, NEW r, proxy' = [proxy EXCEPT ![p] = r]
  PROVE  /\ DOMAIN proxy' = Proxy /\ proxy' = [q \in Proxy |-> proxy'[q]]
         /\ proxy'[p] = r /\ \A q \in Proxy : q # p => proxy'[q] = proxy[q]
BY DEF IInv

LEMMA CreateStep ==
  ASSUME IInv, NEW t \in Thread, Create(t)
  PROVE  IInv'
<1> DEFINE h == user[t].parcel.handle
           strong == user[t].parcel.strong
<1>1. PICK p \in Proxy :
        /\ proxy[p].at = "unused"
        /\ proxy' = [proxy EXCEPT ![p] = [handle |-> h, node |-> ref[h].node, at |-> "alive"]]
        /\ table' = [table EXCEPT ![h] = p]
        /\ user' = [user EXCEPT
             ![t].weaks = @ \cup {p},
             ![t].strongs = IF strong THEN @ \cup {p} ELSE @,
             ![t].out = @ \o <<Command("BC_INCREFS", h)>>
                          \o IF strong THEN OnFirstRef(p, h) ELSE <<>>]
  BY DEF Create
<1> DEFINE strongs == IF strong THEN user[t].strongs \cup {p} ELSE user[t].strongs
           out == user[t].out \o <<Command("BC_INCREFS", h)>>
                              \o IF strong THEN OnFirstRef(p, h) ELSE <<>>
           r == [user[t] EXCEPT !.weaks = @ \cup {p}, !.strongs = strongs, !.out = out]
           new == [handle |-> h, node |-> ref[h].node, at |-> "alive"]
<1>2. user[t] \in UserStates /\ UserOK(t) /\ user \in [Thread -> UserStates]
  BY DEF IInv
<1>3. /\ h \in Handle /\ user[t].out \in Outs /\ user[t].strongs \in SUBSET Proxy
      /\ ~Usable(table[h])
  BY <1>2, UserFields DEF Create
<1>4. user' = [user EXCEPT ![t] = r]
  BY <1>1, <1>2
<1>5. out \in Outs
  <2>1. \A o \in Outs : o \o OnFirstRef(p, h) \in Outs /\ o \o <<Command("BC_INCREFS", h)>> \in Outs
    BY <1>3, OutStep
  <2>2. \A o \in Outs : o \o <<>> \in Outs
    BY DEF Outs
  <2> QED BY <2>1, <2>2, <1>3
<1>6. strongs \in SUBSET Proxy /\ strongs \subseteq user[t].weaks \cup {p}
  BY <1>2, <1>3 DEF UserOK
<1>7. /\ IsProxy(new) /\ new.handle = h /\ new.at = "alive"
      /\ proxy' = [proxy EXCEPT ![p] = new] /\ table' = [table EXCEPT ![h] = p]
  BY <1>1 DEF IsProxy
<1> HIDE DEF h, strongs, out, strong, new
<1>8. /\ r \in UserStates /\ r.strongs = strongs /\ r.weaks = user[t].weaks \cup {p}
      /\ r.destroys = user[t].destroys
  BY <1>2, <1>5, <1>6 DEF UserStates, Outs
<1> HIDE DEF r
<1>9. /\ user' \in [Thread -> UserStates] /\ user'[t] = r
      /\ \A u \in Thread : u # t => user'[u] = user[u]
      /\ \A u \in Thread : UserOK(u)'
  BY <1>2, <1>4, <1>6, <1>8, UserStep
<1>10. \A u \in Thread : user'[u].destroys = user[u].destroys
  BY <1>8, <1>9
<1>11. \A q \in Proxy : q # p => Weaks(q)' = Weaks(q)
  BY <1>8, <1>9 DEF Weaks
<1>12. t \in Weaks(p)'
  BY <1>8, <1>9 DEF Weaks
<1>13. /\ DOMAIN proxy' = Proxy /\ proxy' = [q \in Proxy |-> proxy'[q]]
       /\ proxy'[p] = new /\ \A q \in Proxy : q # p => proxy'[q] = proxy[q]
  BY <1>7, ProxyChange
<1>14. /\ table' \in [Handle -> Proxy \cup {None}] /\ table'[h] = p
       /\ \A g \in Handle : g # h => table'[g] = table[g]
  BY <1>3, <1>7 DEF IInv
<1>15. ASSUME NEW q \in Proxy PROVE ProxyOK(q)'
  <2>1. ProxyOK(q)
    BY DEF IInv
  <2>2. CASE q = p
    <3>1. ~\E u \in Thread : user'[u].destroys = p
      BY <2>1, <2>2, <1>1, <1>10 DEF ProxyOK
    <3> QED BY <2>2, <3>1, <1>3, <1>7, <1>12, <1>13, <1>14 DEF ProxyOK
  <2>3. CASE q # p
    <3>1. ASSUME proxy[q].at = "alive" PROVE table'[proxy[q].handle] = q
      <4>1. Weaks(q) # {} /\ table[proxy[q].handle] = q /\ proxy[q].handle \in Handle /\ q # None
        BY <2>1, <3>1, NoneIsNoProxy DEF ProxyOK
      <4>2. proxy[q].handle # h
        BY <4>1, <1>3 DEF Usable
      <4> QED BY <4>1, <4>2, <1>14
    <3> QED BY <2>1, <2>3, <3>1, <1>10, <1>11, <1>13 DEF ProxyOK
  <2> QED BY <2>2, <2>3
<1>16. ASSUME NEW g \in Handle PROVE EntryOK(g)'
  <2>1. EntryOK(g) /\ table[g] \in Proxy \cup {None}
    BY DEF IInv
  <2>2. CASE g = h
    BY <2>2, <1>7, <1>13, <1>14 DEF EntryOK
  <2>3. CASE g # h
    BY <2>1, <2>3, <1>1, <1>13, <1>14 DEF EntryOK
  <2> QED BY <2>2, <2>3
<1> QED BY <1>9, <1>13, <1>14, <1>15, <1>16 DEF IInv

LEMMA DropWeakStep ==
  ASSUME IInv, NEW t \in Thread, NEW p \in Proxy, DropWeak(t, p)
  PROVE  IInv'
<1> DEFINE destroys == IF Weaks(p) = {t} THEN p ELSE None
           r == [user[t] EXCEPT !.weaks = @ \ {p}, !.destroys = destroys]
<1>1. /\ user[t] \in UserStates /\ UserOK(t) /\ user \in [Thread -> UserStates]
      /\ p \in user[t].weaks \ user[t].strongs /\ user[t].destroys = None
      /\ UNCHANGED table /\ ProxyOK(p) /\ t \in Weaks(p)
      /\ proxy' = IF Weaks(p) = {t} THEN [proxy EXCEPT ![p].at = "dying"] ELSE proxy
  BY DEF IInv, DropWeak, Runs, Weaks
<1>2. user' = [user EXCEPT ![t] = r]
  BY <1>1 DEF DropWeak
<1>3. destroys \in Proxy \cup {None}
  OBVIOUS
<1> HIDE DEF destroys
<1>4. /\ r \in UserStates /\ r.strongs = user[t].strongs
      /\ r.weaks = user[t].weaks \ {p} /\ r.destroys = destroys
  BY <1>1, <1>3 DEF UserStates
<1> HIDE DEF r
<1>5. /\ user' \in [Thread -> UserStates] /\ user'[t] = r
      /\ \A u \in Thread : u # t => user'[u] = user[u]
      /\ \A u \in Thread : UserOK(u)'
  <2>1. r.strongs \subseteq r.weaks
    BY <1>1, <1>4 DEF UserOK
  <2> QED BY <2>1, <1>2, <1>4, UserStep
<1>6. Weaks(p)' = Weaks(p) \ {t} /\ \A q \in Proxy : q # p => Weaks(q)' = Weaks(q)
  BY <1>4, <1>5 DEF Weaks
<1>7. CASE Weaks(p) # {t}
  <2>1. \A u \in Thread : user'[u].destroys = user[u].destroys
    BY <1>1, <1>4, <1>5, <1>7 DEF destroys
  <2>2. Weaks(p)' # {}
    BY <1>1, <1>6, <1>7
  <2>3. ASSUME NEW q \in Proxy
        PROVE  (\E u \in Thread : q \in user'[u].weaks) <=> (\E u \in Thread : q \in user[u].weaks)
    <3>1. Weaks(q)' # {} <=> Weaks(q) # {}
      BY <2>2, <1>1, <1>6
    <3> QED BY <3>1 DEF Weaks
  <2> QED BY <2>1, <2>3, <1>1, <1>5, <1>7, SameLives
<1>8. CASE Weaks(p) = {t}
  <2>1. proxy[p].at = "alive" /\ proxy[p].handle \in Handle /\ IsProxy(proxy[p])
        /\ \A u \in Thread : user[u].destroys # p
    BY <1>1, <1>8 DEF ProxyOK
  <2> DEFINE old == [proxy[p] EXCEPT !.at = "dying"]
  <2>2. IsProxy(old) /\ old.handle = proxy[p].handle /\ old.at = "dying"
    BY <2>1 DEF IsProxy
  <2>3. proxy' = [proxy EXCEPT ![p] = old]
    BY <1>1, <1>8
  <2> HIDE DEF old
  <2>4. /\ DOMAIN proxy' = Proxy /\ proxy' = [q \in Proxy |-> proxy'[q]]
        /\ proxy'[p] = old /\ \A q \in Proxy : q # p => proxy'[q] = proxy[q]
    BY <2>3, ProxyChange
  <2>5. user'[t].destroys = p /\ \A u \in Thread : u # t => user'[u].destroys = user[u].destroys
    BY <1>4, <1>5, <1>8 DEF destroys
  <2>6. ASSUME NEW q \in Proxy PROVE ProxyOK(q)'
    <3>1. CASE q = p
      BY <3>1, <2>1, <2>2, <2>4, <2>5, <1>6, <1>8 DEF ProxyOK
    <3>2. CASE q # p
      <4>1. ProxyOK(q) /\ q # None
        BY NoneIsNoProxy DEF IInv
      <4>2. \A u \in Thread : user'[u].destroys = q <=> user[u].destroys = q
        BY <3>2, <4>1, <2>5, <1>1
      <4> QED BY <3>2, <4>1, <4>2, <2>4, <1>1, <1>6 DEF ProxyOK
    <3> QED BY <3>1, <3>2
  <2>7. ASSUME NEW g \in Handle PROVE EntryOK(g)'
    <3>1. EntryOK(g) /\ table[g] \in Proxy \cup {None}
      BY DEF IInv
    <3> QED BY <3>1, <2>2, <2>4, <1>1 DEF EntryOK
  <2> QED BY <2>4, <2>6, <2>7, <1>1, <1>5 DEF IInv
<1> QED BY <1>7, <1>8

LEMMA DestroyStep ==
  ASSUME IInv, NEW t \in Thread, Destroy(t)
  PROVE  IInv'
<1> DEFINE p == user[t].destroys
           h == proxy[p].handle
           r == [user[t] EXCEPT !.destroys = None, !.out = Append(@, Command("BC_DECREFS", h))]
<1>1. /\ user[t] \in UserStates /\ UserOK(t) /\ user \in [Thread -> UserStates]
      /\ p # None /\ table' = Expunge(h, p) /\ proxy' = [proxy EXCEPT ![p] = NoProxy]
  BY DEF IInv, Destroy, Runs
<1>2. p \in Proxy
  BY <1>1, UserFields
<1>3. ProxyOK(p) /\ proxy[p].at = "dying" /\ h \in Handle /\ Weaks(p) = {}
  <2>1. ProxyOK(p)
    BY <1>2 DEF IInv
  <2> QED BY <2>1 DEF ProxyOK
<1>4. user' = [user EXCEPT ![t] = r]
  BY <1>1 DEF Destroy
<1>5. Append(user[t].out, Command("BC_DECREFS", h)) \in Outs
  BY <1>1, <1>3, OutStep, UserFields DEF Commands
<1> HIDE DEF h
<1>6. /\ r \in UserStates /\ r.strongs = user[t].strongs
      /\ r.weaks = user[t].weaks /\ r.destroys = None
  BY <1>1, <1>5 DEF UserStates, Outs
<1> HIDE DEF r
<1>7. /\ user' \in [Thread -> UserStates] /\ user'[t] = r
      /\ \A u \in Thread : u # t => user'[u] = user[u]
      /\ \A u \in Thread : UserOK(u)'
  BY <1>1, <1>4, <1>6, UserStep DEF UserOK
<1>8. \A q \in Proxy : Weaks(q)' = Weaks(q)
  BY <1>6, <1>7 DEF Weaks
<1>9. user'[t].destroys = None /\ \A u \in Thread : u # t => user'[u].destroys = user[u].destroys
  BY <1>6, <1>7
<1>10. /\ DOMAIN proxy' = Proxy /\ proxy' = [q \in Proxy |-> proxy'[q]]
       /\ proxy'[p] = NoProxy /\ \A q \in Proxy : q # p => proxy'[q] = proxy[q]
  BY <1>1, <1>2, ProxyChange
<1>11. /\ table' \in [Handle -> Proxy \cup {None}]
       /\ \A g \in Handle : table[g] # p => table'[g] = table[g]
       /\ table[h] = p => table'[h] = None
  BY <1>1, <1>3 DEF IInv, Expunge
<1>12. ASSUME NEW q \in Proxy PROVE ProxyOK(q)'
  <2>1. ProxyOK(q) /\ q # None
    BY NoneIsNoProxy DEF IInv
  <2>2. CASE q = p
    <3>1. ~\E u \in Thread : user'[u].destroys = p
      <4>1. \A u \in Thread : user[u].destroys = p => u = t
        BY <1>3 DEF ProxyOK
      <4> QED BY <4>1, <1>1, <1>9
    <3>2. IsProxy(NoProxy) /\ NoProxy.at = "unused"
      BY DEF IsProxy, NoProxy
    <3> QED BY <2>2, <3>1, <3>2, <1>3, <1>8, <1>10 DEF ProxyOK
  <2>3. CASE q # p
    <3>1. \A u \in Thread : user'[u].destroys = q <=> user[u].destroys = q
      BY <2>1, <2>3, <1>9
    <3>2. proxy[q].at = "alive" => table'[proxy[q].handle] = q
      BY <2>1, <2>3, <1>11 DEF ProxyOK
    <3> QED BY <2>1, <2>3, <3>1, <3>2, <1>8, <1>10 DEF ProxyOK
  <2> QED BY <2>2, <2>3
<1>13. ASSUME NEW g \in Handle PROVE EntryOK(g)'
  <2>1. EntryOK(g) /\ table[g] \in Proxy \cup {None}
    BY DEF IInv
  <2>2. CASE table[g] = p
    <3>1. g = h
      BY <2>1, <2>2, <1>1 DEF EntryOK, h
    <3> QED BY <2>2, <3>1, <1>11 DEF EntryOK
  <2>3. CASE table[g] # p
    BY <2>1, <2>3, <1>10, <1>11 DEF EntryOK
  <2> QED BY <2>2, <2>3
<1> QED BY <1>7, <1>10, <1>11, <1>12, <1>13 DEF IInv

-----------------------------------------------------------------------------
LEMMA InitIInv == Init => IInv
<1> SUFFICES ASSUME Init PROVE IInv
  OBVIOUS
<1>1. /\ table = [h \in Handle |-> None] /\ proxy = [p \in Proxy |-> NoProxy]
      /\ user = [t \in Thread |-> [strongs |-> {}, weaks |-> {}, destroys |-> None,
                                   parcel |-> NoParcel, out |-> <<>>]]
  BY DEF Init
<1>2. user \in [Thread -> UserStates]
  <2>1. <<>> \in Seq([cmd : Commands, handle : Handle])
    OBVIOUS
  <2> QED BY <1>1, <2>1 DEF UserStates
<1>3. \A t \in Thread : user[t].strongs = {} /\ user[t].weaks = {} /\ user[t].destroys = None
  BY <1>1
<1>4. ASSUME NEW p \in Proxy PROVE ProxyOK(p)
  <2>1. proxy[p] = NoProxy /\ Weaks(p) = {} /\ p # None
    BY <1>1, <1>3, NoneIsNoProxy DEF Weaks
  <2>2. IsProxy(NoProxy) /\ NoProxy.at = "unused"
    BY DEF IsProxy, NoProxy
  <2> QED BY <2>1, <2>2, <1>3 DEF ProxyOK
<1> QED BY <1>1, <1>2, <1>3, <1>4 DEF IInv, UserOK, EntryOK

LEMMA NextIInv == IInv /\ [Next]_vars => IInv'
<1> SUFFICES ASSUME IInv, [Next]_vars PROVE IInv'
  OBVIOUS
<1>1. CASE UNCHANGED vars
  <2>1. UNCHANGED <<table, proxy, user>>
    BY <1>1 DEF vars
  <2>2. user \in [Thread -> UserStates] /\ \A u \in Thread : UserOK(u)
    BY DEF IInv
  <2>3. user' \in [Thread -> UserStates] /\ \A u \in Thread : UserOK(u)'
    BY <2>1, <2>2 DEF UserOK
  <2> QED BY <2>1, <2>3, SameLives
<1>2. CASE Next
  BY <1>2, SendStep, FindStep, CreateStep, DestroyStep, FreeBufferStep, FlushStep,
     PromoteStep, DropStrongStep, DropWeakStep, ShareStep DEF Next
<1> QED BY <1>1, <1>2

\* However drops, promotions and destructions by one thread race with another
\* that reads the handle again, a handle has one usable proxy, the one in its
\* entry of the table, and no entry names a proxy whose memory is gone.
THEOREM OneProxy == Spec => []OneProxyPerHandle
<1>1. IInv => OneProxyPerHandle
  BY DEF IInv, ProxyOK, EntryOK, OneProxyPerHandle
<1> QED BY <1>1, InitIInv, NextIInv, PTL DEF Spec

-----------------------------------------------------------------------------
(* Numbers and finite sets. *)

LEMMA HasMin ==
  ASSUME NEW S \in SUBSET Nat, S # {}
  PROVE  \E m \in S : \A x \in S : m <= x
<1> DEFINE R == {p \in Nat \X Nat : p[1] < p[2]}
<1>1. IsWellFoundedOn(R, Nat)
  BY NatLessThanWellFounded, Zenon DEF OpToRel
<1>2. \A x, y \in Nat : <<y, x>> \in R <=> y < x
  OBVIOUS
<1> HIDE DEF R
<1>3. PICK m \in S : \A y \in S : ~ (<<y, m>> \in R)
  BY <1>1, WFMin
<1>4. ASSUME NEW y \in S PROVE m <= y
  <2>1. ~ (y < m)
    BY <1>2, <1>3
  <2> QED BY <2>1
<1> QED BY <1>4

\* Induction, for one set of numbers.
LEMMA CountUp ==
  ASSUME NEW S, 0 \in S, \A n \in Nat : n \in S => n + 1 \in S
  PROVE  \A n \in Nat : n \in S
<1> DEFINE D == Nat \ S
<1>1. SUFFICES ASSUME D # {} PROVE FALSE
  OBVIOUS
<1>2. PICK m \in D : \A x \in D : m <= x
  <2> HIDE DEF D
  <2>1. D \in SUBSET Nat
    BY DEF D
  <2> QED BY <1>1, <2>1, HasMin
<1>3. m # 0 /\ m - 1 \in Nat
  BY <1>2
<1>4. m - 1 \in S
  BY <1>2, <1>3
<1> QED BY <1>2, <1>3, <1>4

-----------------------------------------------------------------------------
(* What a thread writes is executed one command after the other. *)

Turns(iter, refs, cmds) ==
  iter = [s \in SUBSET DOMAIN cmds |->
            IF s = {} THEN refs ELSE Execute(iter[s \ {Max(s)}], cmds[Max(s)])]

\* g is such an iteration, for the first n commands.
TurnsTo(g, n, refs, cmds) ==
  \A s \in SUBSET (1..n) :
    g[s] = IF s = {} THEN refs ELSE Execute(g[s \ {Max(s)}], cmds[Max(s)])

LEMMA MaxIsLast ==
  ASSUME NEW n \in Nat, NEW s \in SUBSET (1..n + 1), n + 1 \in s
  PROVE  Max(s) = n + 1
<1>1. \A y \in s : y \in Int /\ y <= n + 1
  OBVIOUS
<1>2. n + 1 \in s /\ \A y \in s : n + 1 >= y
  BY <1>1
<1>3. \A x \in s : (\A y \in s : x >= y) => x = n + 1
  BY <1>1
<1> DEFINE m == CHOOSE x \in s : \A y \in s : x >= y
<1>4. m \in s /\ \A y \in s : m >= y
  BY <1>2
<1>5. m = n + 1
  <2> HIDE DEF m
  <2> QED BY <1>3, <1>4
<1> QED BY <1>5 DEF Max

LEMMA TurnsExist ==
  ASSUME NEW refs, NEW cmds
  PROVE  \A n \in Nat : \E g : TurnsTo(g, n, refs, cmds)
<1> DEFINE S == {n \in Nat : \E g : TurnsTo(g, n, refs, cmds)}
<1>1. 0 \in S
  <2>1. TurnsTo([s \in {{}} |-> refs], 0, refs, cmds)
    BY DEF TurnsTo
  <2> QED BY <2>1
<1>2. ASSUME NEW n \in Nat, n \in S PROVE n + 1 \in S
  <2>1. PICK g : TurnsTo(g, n, refs, cmds)
    BY <1>2
  <2> DEFINE f == [s \in SUBSET (1..n + 1) |->
                     IF n + 1 \in s THEN Execute(g[s \ {n + 1}], cmds[n + 1]) ELSE g[s]]
  <2>2. ASSUME NEW s \in SUBSET (1..n + 1)
        PROVE  f[s] = IF s = {} THEN refs ELSE Execute(f[s \ {Max(s)}], cmds[Max(s)])
    <3>1. CASE n + 1 \in s
      <4>1. Max(s) = n + 1
        BY <3>1, MaxIsLast
      <4>2. s \ {n + 1} \in SUBSET (1..n + 1) /\ f[s \ {n + 1}] = g[s \ {n + 1}]
        OBVIOUS
      <4>3. f[s] = Execute(g[s \ {n + 1}], cmds[n + 1])
        BY <3>1
      <4> HIDE DEF f
      <4>4. f[s] = Execute(f[s \ {Max(s)}], cmds[Max(s)])
        BY <4>1, <4>2, <4>3
      <4> QED BY <3>1, <4>4
    <3>2. CASE n + 1 \notin s
      <4>1. s \in SUBSET (1..n) /\ s \ {Max(s)} \in SUBSET (1..n + 1)
        <5>1. \A x \in s : x \in 1..n + 1 /\ x # n + 1
          BY <3>2
        <5>2. \A x \in 1..n + 1 : x # n + 1 => x \in 1..n
          OBVIOUS
        <5> QED BY <5>1, <5>2
      <4>2. f[s] = g[s] /\ f[s \ {Max(s)}] = g[s \ {Max(s)}]
        BY <3>2, <4>1
      <4>3. g[s] = IF s = {} THEN refs ELSE Execute(g[s \ {Max(s)}], cmds[Max(s)])
        BY <2>1, <4>1 DEF TurnsTo
      <4> HIDE DEF f
      <4> QED BY <4>2, <4>3
    <3> QED BY <3>1, <3>2
  <2>3. TurnsTo(f, n + 1, refs, cmds)
    <3> HIDE DEF f
    <3> QED BY <2>2 DEF TurnsTo
  <2> QED BY <2>3
<1> HIDE DEF S
<1>3. \A n \in Nat : n \in S
  BY <1>1, <1>2, CountUp
<1> QED BY <1>3 DEF S

\* The references after each command, and after all of them.
Trace(run, refs, cmds) ==
  /\ run[0] = refs
  /\ \A i \in 1..Len(cmds) : run[i] = Execute(run[i - 1], cmds[i])

LEMMA FoldIsTrace ==
  ASSUME NEW refs, NEW cmds, Len(cmds) \in Nat, DOMAIN cmds = 1..Len(cmds)
  PROVE  \E run : Trace(run, refs, cmds) /\ FoldLeft(Execute, refs, cmds) = run[Len(cmds)]
<1> DEFINE N == Len(cmds)
<1>1. FoldLeft(Execute, refs, cmds) = (CHOOSE iter : Turns(iter, refs, cmds))[1..N]
  BY DEF FoldLeft, MapThenFoldSet, Turns
<1> HIDE DEF N
<1>2. N \in Nat /\ DOMAIN cmds = 1..N
  BY DEF N
<1>3. PICK g : TurnsTo(g, N, refs, cmds)
  BY <1>2, TurnsExist
<1> DEFINE f == [s \in SUBSET (1..N) |-> g[s]]
<1>4. Turns(f, refs, cmds)
  <2>1. \A s \in SUBSET (1..N) : s \ {Max(s)} \in SUBSET (1..N)
    OBVIOUS
  <2>2. \A s \in SUBSET (1..N) :
          f[s] = IF s = {} THEN refs ELSE Execute(f[s \ {Max(s)}], cmds[Max(s)])
    BY <1>3, <2>1 DEF TurnsTo
  <2>3. f = [s \in SUBSET (1..N) |-> f[s]]
    OBVIOUS
  <2> HIDE DEF f
  <2>4. f = [s \in SUBSET (1..N) |->
               IF s = {} THEN refs ELSE Execute(f[s \ {Max(s)}], cmds[Max(s)])]
    BY <2>2, <2>3, Zenon
  <2> QED BY <1>2, <2>4 DEF Turns
<1> HIDE DEF f
<1> DEFINE it == CHOOSE iter : Turns(iter, refs, cmds)
<1>5. Turns(it, refs, cmds)
  BY <1>4
<1>6. it[1..N] = FoldLeft(Execute, refs, cmds)
  BY <1>1
<1> HIDE DEF it
<1>7. \A s \in SUBSET (1..N) :
        it[s] = IF s = {} THEN refs ELSE Execute(it[s \ {Max(s)}], cmds[Max(s)])
  BY <1>2, <1>5 DEF Turns
<1> DEFINE run == [i \in 0..N |-> it[1..i]]
<1>8. run[0] = refs
  <2>1. 1..0 = {} /\ {} \in SUBSET (1..N)
    OBVIOUS
  <2>2. it[1..0] = refs
    BY <1>7, <2>1
  <2> QED BY <2>2, <1>2
<1>9. ASSUME NEW i \in 1..N PROVE run[i] = Execute(run[i - 1], cmds[i])
  <2>1. PICK n \in Nat : i = n + 1
    <3>1. i - 1 \in Nat /\ i = (i - 1) + 1
      BY <1>2
    <3> QED BY <3>1
  <2>2. Max(1..n + 1) = n + 1
    BY MaxIsLast
  <2>3. 1..n + 1 \in SUBSET (1..N) /\ 1..n + 1 # {} /\ (1..n + 1) \ {n + 1} = 1..n
    BY <1>2, <2>1
  <2>4. it[1..n + 1] = Execute(it[1..n], cmds[n + 1])
    BY <1>7, <2>2, <2>3
  <2>5. i \in 0..N /\ n \in 0..N /\ i - 1 = n
    BY <1>2, <2>1
  <2> QED BY <2>1, <2>4, <2>5
<1>10. run[N] = FoldLeft(Execute, refs, cmds)
  BY <1>2, <1>6
<1> HIDE DEF run
<1>11. Trace(run, refs, cmds)
  BY <1>8, <1>9 DEF Trace, N
<1> QED BY <1>10, <1>11 DEF N

-----------------------------------------------------------------------------
(* How often a command waits: in one mOut after its first i commands, and  *)
(* in those of all threads, or of all but one.                             *)

Places(out, i, c) == {j \in DOMAIN out : j > i /\ out[j] = c}
Waits(out, i, c)  == Cardinality(Places(out, i, c))
PairsOf(u, S)     == {<<u, i>> : i \in S}
AllPlaces(U, S, c) == UNION {PairsOf(u, {j \in DOMAIN U[u].out : U[u].out[j] = c}) : u \in S}
Elsewhere(U, t, c) == Cardinality(AllPlaces(U, Thread \ {t}, c))

LEMMA PlacesFinite ==
  ASSUME NEW out \in Outs, NEW i, NEW c
  PROVE  IsFiniteSet(Places(out, i, c)) /\ Waits(out, i, c) \in Nat
<1>1. Len(out) \in Nat /\ DOMAIN out = 1..Len(out)
  BY DEF Outs
<1>2. IsFiniteSet(1..Len(out))
  BY <1>1, FS_Interval
<1>3. Places(out, i, c) \in SUBSET (1..Len(out))
  BY <1>1 DEF Places
<1>4. IsFiniteSet(Places(out, i, c))
  BY <1>2, <1>3, FS_Subset
<1> QED BY <1>4, FS_CardinalityType DEF Waits

LEMMA PlacesEnd ==
  ASSUME NEW out \in Outs, NEW i \in Nat, i >= Len(out), NEW c
  PROVE  Waits(out, i, c) = 0
<1>1. Len(out) \in Nat /\ DOMAIN out = 1..Len(out)
  BY DEF Outs
<1>2. Places(out, i, c) = {}
  BY <1>1 DEF Places
<1> QED BY <1>2, FS_EmptySet DEF Waits

LEMMA PlacesNext ==
  ASSUME NEW out \in Outs, NEW i \in Nat, i < Len(out), NEW c
  PROVE  /\ out[i + 1] = c => Waits(out, i, c) = Waits(out, i + 1, c) + 1
         /\ out[i + 1] # c => Waits(out, i, c) = Waits(out, i + 1, c)
<1>1. Len(out) \in Nat /\ DOMAIN out = 1..Len(out)
  BY DEF Outs
<1>2. i + 1 \in DOMAIN out /\ \A j \in DOMAIN out : j > i <=> j = i + 1 \/ j > i + 1
  BY <1>1
<1>3. ASSUME out[i + 1] = c PROVE Waits(out, i, c) = Waits(out, i + 1, c) + 1
  <2>1. Places(out, i, c) = Places(out, i + 1, c) \cup {i + 1}
    BY <1>1, <1>2, <1>3 DEF Places
  <2>2. i + 1 \notin Places(out, i + 1, c)
    BY DEF Places
  <2>3. IsFiniteSet(Places(out, i + 1, c))
    BY PlacesFinite
  <2> QED BY <2>1, <2>2, <2>3, FS_AddElement DEF Waits
<1>4. ASSUME out[i + 1] # c PROVE Places(out, i, c) = Places(out, i + 1, c)
  BY <1>1, <1>2, <1>4 DEF Places
<1> QED BY <1>3, <1>4 DEF Waits

LEMMA PlacesSome ==
  ASSUME NEW out \in Outs, NEW i \in Nat, NEW c
  PROVE  /\ \A j \in DOMAIN out : j > i /\ out[j] = c => Waits(out, i, c) >= 1
         /\ Waits(out, i, c) # 0 => \E j \in DOMAIN out : j > i /\ out[j] = c
         /\ Waits(out, i, c) <= Waits(out, 0, c)
<1>1. IsFiniteSet(Places(out, i, c)) /\ Waits(out, i, c) \in Nat
  BY PlacesFinite
<1>2. ASSUME NEW j \in DOMAIN out, j > i /\ out[j] = c PROVE Waits(out, i, c) >= 1
  <2>1. Places(out, i, c) # {}
    BY <1>2 DEF Places
  <2>2. Waits(out, i, c) # 0
    BY <1>1, <2>1, FS_EmptySet DEF Waits
  <2> QED BY <1>1, <2>2
<1>3. ASSUME Waits(out, i, c) # 0 PROVE \E j \in DOMAIN out : j > i /\ out[j] = c
  <2>1. Places(out, i, c) # {}
    BY <1>3, FS_EmptySet DEF Waits
  <2> QED BY <2>1 DEF Places
<1>4. Waits(out, i, c) <= Waits(out, 0, c)
  <2>1. DOMAIN out = 1..Len(out) /\ Len(out) \in Nat
    BY DEF Outs
  <2>2. Places(out, i, c) \subseteq Places(out, 0, c)
    BY <2>1 DEF Places
  <2>3. IsFiniteSet(Places(out, 0, c))
    BY PlacesFinite
  <2> QED BY <2>2, <2>3, FS_Subset DEF Waits
<1> QED BY <1>2, <1>3, <1>4

-----------------------------------------------------------------------------
LEMMA PairsFinite ==
  ASSUME NEW u, NEW S, IsFiniteSet(S)
  PROVE  IsFiniteSet(PairsOf(u, S)) /\ Cardinality(PairsOf(u, S)) = Cardinality(S)
<1> DEFINE f == [i \in S |-> <<u, i>>]
<1>1. f \in Bijection(S, PairsOf(u, S))
  BY DEF Bijection, Injection, Surjection, IsInjective, PairsOf
<1>2. ExistsBijection(S, PairsOf(u, S))
  BY <1>1 DEF ExistsBijection
<1> QED BY <1>2, FS_Bijection

LEMMA AllPlacesFinite ==
  ASSUME NEW U \in [Thread -> UserStates], NEW S \in SUBSET Thread, NEW c
  PROVE  IsFiniteSet(AllPlaces(U, S, c)) /\ Cardinality(AllPlaces(U, S, c)) \in Nat
<1> DEFINE P(u) == PairsOf(u, {j \in DOMAIN U[u].out : U[u].out[j] = c})
           f == [u \in S |-> P(u)]
<1>1. IsFiniteSet(S)
  BY TableAssumption, FS_Subset
<1>2. ASSUME NEW u \in S PROVE IsFiniteSet(P(u))
  <2>1. U[u].out \in Outs
    BY UserFields
  <2>2. Places(U[u].out, 0, c) = {j \in DOMAIN U[u].out : U[u].out[j] = c}
    BY <2>1 DEF Places, Outs
  <2>3. IsFiniteSet({j \in DOMAIN U[u].out : U[u].out[j] = c})
    BY <2>1, <2>2, PlacesFinite
  <2> QED BY <2>3, PairsFinite
<1> HIDE DEF P
<1>3. IsFiniteSet({P(u) : u \in S})
  <2>1. f \in Surjection(S, {P(u) : u \in S})
    BY DEF Surjection
  <2> HIDE DEF f
  <2> QED BY <1>1, <2>1, FS_Surjection
<1>4. IsFiniteSet(UNION {P(u) : u \in S})
  <2>1. \A x \in {P(u) : u \in S} : IsFiniteSet(x)
    BY <1>2
  <2> QED BY <1>3, <2>1, FS_UNION
<1>5. AllPlaces(U, S, c) = UNION {P(u) : u \in S}
  BY DEF AllPlaces, P
<1> QED BY <1>4, <1>5, FS_CardinalityType

\* One thread's, and the others'.
LEMMA AllPlacesSplit ==
  ASSUME NEW U \in [Thread -> UserStates], NEW t \in Thread, NEW c
  PROVE  /\ Cardinality(AllPlaces(U, Thread, c)) = Waits(U[t].out, 0, c) + Elsewhere(U, t, c)
         /\ Waits(U[t].out, 0, c) \in Nat /\ Elsewhere(U, t, c) \in Nat
<1> DEFINE D == {j \in DOMAIN U[t].out : U[t].out[j] = c}
           A == PairsOf(t, D)
           B == AllPlaces(U, Thread \ {t}, c)
<1>1. U[t].out \in Outs
  BY UserFields
<1>2. Places(U[t].out, 0, c) = D
  BY <1>1 DEF Places, Outs
<1>3. IsFiniteSet(A) /\ Cardinality(A) = Waits(U[t].out, 0, c) /\ Waits(U[t].out, 0, c) \in Nat
  BY <1>1, <1>2, PlacesFinite, PairsFinite DEF Waits
<1>4. IsFiniteSet(B) /\ Cardinality(B) \in Nat
  BY AllPlacesFinite
<1>5. A \cap B = {}
  BY DEF PairsOf, AllPlaces
<1>6. AllPlaces(U, Thread, c) = A \cup B
  <2>1. Thread = (Thread \ {t}) \cup {t}
    OBVIOUS
  <2> QED BY <2>1 DEF AllPlaces
<1> HIDE DEF A, B
<1>7. Cardinality(A \cup B) = Cardinality(A) + Cardinality(B)
  <2>1. Cardinality(A \cup B) = Cardinality(A) + Cardinality(B) - Cardinality(A \cap B)
    BY <1>3, <1>4, FS_Union
  <2>2. Cardinality({}) = 0
    BY FS_EmptySet
  <2> QED BY <1>3, <1>4, <1>5, <2>1, <2>2
<1> QED BY <1>3, <1>4, <1>6, <1>7 DEF Elsewhere, B

LEMMA ElsewhereSame ==
  ASSUME NEW U, NEW V, NEW t \in Thread, NEW c, \A u \in Thread : u # t => V[u].out = U[u].out
  PROVE  Elsewhere(V, t, c) = Elsewhere(U, t, c)
<1> DEFINE P(W, u) == PairsOf(u, {j \in DOMAIN W[u].out : W[u].out[j] = c})
<1>1. AllPlaces(V, Thread \ {t}, c) = AllPlaces(U, Thread \ {t}, c)
  <2>1. \A u \in Thread \ {t} : P(V, u) = P(U, u)
    OBVIOUS
  <2> HIDE DEF P
  <2>2. UNION {P(V, u) : u \in Thread \ {t}} = UNION {P(U, u) : u \in Thread \ {t}}
    BY <2>1
  <2> QED BY <2>2 DEF AllPlaces, P
<1> QED BY <1>1 DEF Elsewhere

LEMMA ElsewhereSome ==
  ASSUME NEW U \in [Thread -> UserStates], NEW S \in SUBSET Thread, NEW c
  PROVE  /\ Cardinality(AllPlaces(U, S, c)) # 0 =>
              \E u \in S : \E j \in DOMAIN U[u].out : U[u].out[j] = c
         /\ (\E u \in S : \E j \in DOMAIN U[u].out : U[u].out[j] = c) =>
              Cardinality(AllPlaces(U, S, c)) >= 1
<1>1. IsFiniteSet(AllPlaces(U, S, c)) /\ Cardinality(AllPlaces(U, S, c)) \in Nat
  BY AllPlacesFinite
<1>2. AllPlaces(U, S, c) # {} <=> \E u \in S : \E j \in DOMAIN U[u].out : U[u].out[j] = c
  <2> DEFINE D(u) == {j \in DOMAIN U[u].out : U[u].out[j] = c}
  <2>1. \A u \in S : PairsOf(u, D(u)) # {} <=> D(u) # {}
    BY DEF PairsOf
  <2>2. \A u \in S : D(u) # {} <=> \E j \in DOMAIN U[u].out : U[u].out[j] = c
    OBVIOUS
  <2>3. AllPlaces(U, S, c) = UNION {PairsOf(u, D(u)) : u \in S}
    BY DEF AllPlaces
  <2> HIDE DEF D
  <2>4. AllPlaces(U, S, c) # {} <=> \E u \in S : PairsOf(u, D(u)) # {}
    BY <2>3
  <2> QED BY <2>1, <2>2, <2>4
<1>3. AllPlaces(U, S, c) = {} <=> Cardinality(AllPlaces(U, S, c)) = 0
  BY <1>1, FS_EmptySet
<1> QED BY <1>1, <1>2, <1>3

-----------------------------------------------------------------------------
(* What is appended to an mOut. *)

\* new is old with n times c appended, among other commands.
Adds(old, new, c, n) ==
  /\ Len(old) \in Nat /\ Len(new) \in Nat /\ Len(old) <= Len(new)
  /\ \A i \in 0..Len(old) : Waits(new, i, c) = Waits(old, i, c) + n
  /\ \A i \in Len(old)..Len(new) : Waits(new, i, c) <= n

LEMMA AddsNothing ==
  ASSUME NEW out \in Outs, NEW c
  PROVE  Adds(out, out, c, 0)
<1>1. Len(out) \in Nat
  BY DEF Outs
<1>2. \A i \in Nat : Waits(out, i, c) \in Nat
  BY PlacesFinite
<1>3. Waits(out, Len(out), c) = 0
  BY <1>1, PlacesEnd
<1> QED BY <1>1, <1>2, <1>3 DEF Adds

LEMMA AddsOne ==
  ASSUME NEW out \in Outs, NEW b \in [cmd : Commands, handle : Handle], NEW c
  PROVE  /\ b = c => Adds(out, Append(out, b), c, 1)
         /\ b # c => Adds(out, Append(out, b), c, 0)
<1> DEFINE new == Append(out, b)
           L == Len(out)
<1>1. /\ new \in Outs /\ L \in Nat /\ Len(out) = L /\ Len(new) = L + 1
      /\ DOMAIN out = 1..L /\ DOMAIN new = 1..L + 1
      /\ new[L + 1] = b /\ \A j \in 1..L : new[j] = out[j]
  BY DEF Outs
<1> HIDE DEF new, L
<1>2. ASSUME NEW i \in 0..L
      PROVE  /\ b = c => Waits(new, i, c) = Waits(out, i, c) + 1
             /\ b # c => Waits(new, i, c) = Waits(out, i, c)
  <2>1. \A j : j \in 1..L + 1 <=> j \in 1..L \/ j = L + 1
    BY <1>1
  <2>2. L + 1 > i /\ L + 1 \notin 1..L
    BY <1>1
  <2>3. ASSUME b = c PROVE Waits(new, i, c) = Waits(out, i, c) + 1
    <3>1. Places(new, i, c) = Places(out, i, c) \cup {L + 1}
      BY <1>1, <2>1, <2>2, <2>3 DEF Places
    <3>2. L + 1 \notin Places(out, i, c) /\ IsFiniteSet(Places(out, i, c))
      <4>1. IsFiniteSet(Places(out, i, c))
        BY PlacesFinite
      <4>2. L + 1 \notin Places(out, i, c)
        BY <1>1, <2>2 DEF Places
      <4> QED BY <4>1, <4>2
    <3> QED BY <3>1, <3>2, FS_AddElement DEF Waits
  <2>4. ASSUME b # c PROVE Places(new, i, c) = Places(out, i, c)
    BY <1>1, <2>1, <2>2, <2>4 DEF Places
  <2> QED BY <2>3, <2>4 DEF Waits
<1>3. Waits(out, L, c) = 0 /\ Waits(new, L + 1, c) = 0
  BY <1>1, PlacesEnd DEF L
<1>4. \A i \in L..L + 1 : i = L \/ i = L + 1
  BY <1>1
<1>5. \A i \in Nat : Waits(new, i, c) \in Nat /\ Waits(out, i, c) \in Nat
  BY <1>1, PlacesFinite
<1>6. L \in 0..L
  BY <1>1
<1>7. ASSUME b = c PROVE Adds(out, new, c, 1)
  <2>1. Waits(new, L, c) = 1
    BY <1>2, <1>3, <1>6, <1>7
  <2> QED BY <2>1, <1>1, <1>2, <1>3, <1>4, <1>7 DEF Adds
<1>8. ASSUME b # c PROVE Adds(out, new, c, 0)
  <2>1. Waits(new, L, c) = 0
    BY <1>2, <1>3, <1>6, <1>8
  <2>2. \A i \in 0..L : Waits(new, i, c) = Waits(out, i, c) + 0
    BY <1>2, <1>5, <1>8
  <2> QED BY <2>1, <2>2, <1>1, <1>3, <1>4 DEF Adds
<1> QED BY <1>7, <1>8 DEF new

LEMMA AddsBoth ==
  ASSUME NEW a, NEW b, NEW d, NEW c, NEW m \in Nat, NEW n \in Nat,
         Adds(a, b, c, m), Adds(b, d, c, n),
         a \in Outs, b \in Outs, d \in Outs
  PROVE  Adds(a, d, c, m + n)
<1>1. Len(a) \in Nat /\ Len(b) \in Nat /\ Len(d) \in Nat /\ Len(a) <= Len(b) /\ Len(b) <= Len(d)
  BY DEF Adds
<1>4. \A i \in Nat : Waits(a, i, c) \in Nat /\ Waits(b, i, c) \in Nat /\ Waits(d, i, c) \in Nat
  BY PlacesFinite
<1>2. ASSUME NEW i \in 0..Len(a) PROVE Waits(d, i, c) = Waits(a, i, c) + (m + n)
  <2>1. i \in Nat /\ i \in 0..Len(b)
    BY <1>1
  <2> QED BY <1>4, <2>1 DEF Adds
<1>3. ASSUME NEW i \in Len(a)..Len(d) PROVE Waits(d, i, c) <= m + n
  <2>1. CASE i <= Len(b)
    <3>1. i \in 0..Len(b) /\ i \in Len(a)..Len(b)
      BY <1>1, <2>1
    <3>2. Waits(d, i, c) = Waits(b, i, c) + n /\ Waits(b, i, c) <= m
      BY <3>1 DEF Adds
    <3>3. Waits(b, i, c) \in Nat
      BY <1>1, <1>4, <3>1
    <3> QED BY <3>2, <3>3
  <2>2. CASE i > Len(b)
    <3>1. i \in Len(b)..Len(d)
      BY <1>1, <2>2
    <3>2. Waits(d, i, c) <= n /\ Waits(d, i, c) \in Nat
      BY <1>1, <1>4, <2>2, <3>1 DEF Adds
    <3> QED BY <3>2
  <2> QED BY <1>1, <2>1, <2>2
<1> QED BY <1>1, <1>2, <1>3 DEF Adds

-----------------------------------------------------------------------------
(* The books of one handle: what a process has of it, strongly or weakly,  *)
(* and the commands about it.  k says which kind: TRUE is strong.  For a   *)
(* kind, n is the count in the driver, m the number of proxies that have   *)
(* such a reference and p that of the parcels.                             *)

Up(k, h)   == Command(IF k THEN "BC_ACQUIRE" ELSE "BC_INCREFS", h)
Down(k, h) == Command(IF k THEN "BC_RELEASE" ELSE "BC_DECREFS", h)
Back(k, h) == Command(IF k THEN "BC_FREE_BUFFER" ELSE "BC_FREE_BUFFER_WEAK", h)

All(U, c) == Cardinality(AllPlaces(U, Thread, c))

\* What ReferencesAgree says.
Agree(U, n, m, p, h, k) ==
  n + All(U, Up(k, h)) - All(U, Down(k, h)) - All(U, Back(k, h)) = m + p

\* No release has come before its acquisition: none that was executed,
\* and none that waits in t's own mOut, whatever the others send first.
Covered(U, m, h, k) == All(U, Up(k, h)) <= m + All(U, Down(k, h))
Ordered(U, m, t, h, k) ==
  \A i \in 0..Len(U[t].out) :
    Waits(U[t].out, i, Up(k, h))
      <= m + Elsewhere(U, t, Down(k, h)) + Waits(U[t].out, i, Down(k, h))

Books(U, n, m, p, h, k) ==
  /\ Agree(U, n, m, p, h, k) /\ Covered(U, m, h, k)
  /\ \A t \in Thread : Ordered(U, m, t, h, k)

\* t writes, or gets a buffer.
LEMMA WriteBooks ==
  ASSUME NEW U \in [Thread -> UserStates], NEW V \in [Thread -> UserStates], NEW t \in Thread,
         \A u \in Thread : u # t => V[u].out = U[u].out,
         NEW h, NEW k, NEW n \in Nat, NEW m \in Nat, NEW p \in Nat, Books(U, n, m, p, h, k),
         NEW a \in Nat, NEW d \in Nat, NEW b \in Nat, NEW e \in Nat, a = 0 \/ d = 0, m + a - d >= 0,
         Adds(U[t].out, V[t].out, Up(k, h), a), Adds(U[t].out, V[t].out, Down(k, h), d),
         Adds(U[t].out, V[t].out, Back(k, h), b)
  PROVE  Books(V, n + e, m + a - d, p + e - b, h, k)
<1> DEFINE cU == Up(k, h)
           cD == Down(k, h)
           cB == Back(k, h)
<1> HIDE DEF cU, cD, cB
<1>1. ASSUME NEW c, NEW x \in Nat, Adds(U[t].out, V[t].out, c, x)
      PROVE  /\ All(V, c) = All(U, c) + x /\ All(U, c) \in Nat /\ All(V, c) \in Nat
             /\ Elsewhere(V, t, c) = Elsewhere(U, t, c) /\ Elsewhere(U, t, c) \in Nat
  <2>1. All(V, c) = Waits(V[t].out, 0, c) + Elsewhere(V, t, c)
    BY AllPlacesSplit DEF All
  <2>2. All(U, c) = Waits(U[t].out, 0, c) + Elsewhere(U, t, c)
    BY AllPlacesSplit DEF All
  <2>3. /\ Waits(U[t].out, 0, c) \in Nat /\ Elsewhere(U, t, c) \in Nat
        /\ Waits(V[t].out, 0, c) \in Nat /\ Elsewhere(V, t, c) \in Nat
    BY AllPlacesSplit
  <2>4. Elsewhere(V, t, c) = Elsewhere(U, t, c)
    BY ElsewhereSame
  <2>5. Waits(V[t].out, 0, c) = Waits(U[t].out, 0, c) + x
    BY <1>1 DEF Adds
  <2> QED BY <2>1, <2>2, <2>3, <2>4, <2>5
<1>2. /\ All(V, cU) = All(U, cU) + a /\ All(U, cU) \in Nat /\ All(V, cU) \in Nat
      /\ All(V, cD) = All(U, cD) + d /\ All(U, cD) \in Nat /\ All(V, cD) \in Nat
      /\ All(V, cB) = All(U, cB) + b /\ All(U, cB) \in Nat /\ All(V, cB) \in Nat
      /\ Elsewhere(V, t, cD) = Elsewhere(U, t, cD) /\ Elsewhere(U, t, cD) \in Nat
  <2>1. Adds(U[t].out, V[t].out, cU, a)
    BY DEF cU
  <2>2. Adds(U[t].out, V[t].out, cD, d)
    BY DEF cD
  <2>3. Adds(U[t].out, V[t].out, cB, b)
    BY DEF cB
  <2> QED BY <1>1, <2>1, <2>2, <2>3
<1>3. Agree(V, n + e, m + a - d, p + e - b, h, k)
  <2>1. n + All(U, cU) - All(U, cD) - All(U, cB) = m + p
    BY DEF Books, Agree, cU, cD, cB
  <2>2. (n + e) + All(V, cU) - All(V, cD) - All(V, cB) = (m + a - d) + (p + e - b)
    BY <1>2, <2>1
  <2> QED BY <2>2 DEF Agree, cU, cD, cB
<1>4. Covered(V, m + a - d, h, k)
  <2>1. All(U, cU) <= m + All(U, cD)
    BY DEF Books, Covered, cU, cD
  <2>2. All(V, cU) <= (m + a - d) + All(V, cD)
    BY <1>2, <2>1
  <2> QED BY <2>2 DEF Covered, cU, cD
<1>5. ASSUME NEW u \in Thread PROVE Ordered(V, m + a - d, u, h, k)
  <2>1. \A i \in 0..Len(U[u].out) : Waits(U[u].out, i, cU)
          <= m + Elsewhere(U, u, cD) + Waits(U[u].out, i, cD)
    BY DEF Books, Ordered, cU, cD
  <2>2. U[u].out \in Outs /\ V[u].out \in Outs
    BY UserFields
  <2>3. ASSUME NEW i \in Nat, NEW c
        PROVE  Waits(U[u].out, i, c) \in Nat /\ Waits(V[u].out, i, c) \in Nat
    BY <2>2, PlacesFinite
  <2>4. Elsewhere(U, u, cD) \in Nat /\ Elsewhere(V, u, cD) \in Nat
    BY AllPlacesSplit
  <2>5. ASSUME NEW i \in 0..Len(V[u].out)
        PROVE  Waits(V[u].out, i, cU)
                 <= (m + a - d) + Elsewhere(V, u, cD) + Waits(V[u].out, i, cD)
    <3>1. CASE u = t
      <4>1. CASE i <= Len(U[t].out)
        <5>1. i \in 0..Len(U[t].out) /\ i \in Nat
          BY <2>2, <4>1, <3>1 DEF Outs
        <5>2. /\ Waits(V[t].out, i, cU) = Waits(U[t].out, i, cU) + a
              /\ Waits(V[t].out, i, cD) = Waits(U[t].out, i, cD) + d
          BY <5>1 DEF Adds, cU, cD
        <5>3. Waits(U[t].out, i, cU) <= m + Elsewhere(U, t, cD) + Waits(U[t].out, i, cD)
          BY <2>1, <3>1, <5>1
        <5>4. PICK x \in Nat, y \in Nat, z \in Nat :
                /\ x = Waits(U[t].out, i, cU) /\ y = Waits(U[t].out, i, cD)
                /\ z = Elsewhere(U, t, cD)
          BY <2>3, <2>4, <3>1, <5>1
        <5>6. x <= m + z + y
          BY <5>3, <5>4
        <5>5. x + a <= (m + a - d) + z + (y + d)
          BY <5>6
        <5> QED BY <1>2, <3>1, <5>2, <5>4, <5>5
      <4>2. CASE i > Len(U[t].out)
        <5>1. i \in Len(U[t].out)..Len(V[t].out) /\ i \in Nat
          BY <2>2, <4>2, <3>1 DEF Outs
        <5>2. Waits(V[t].out, i, cU) <= a
          BY <5>1 DEF Adds, cU
        <5>3. a <= m + a - d \/ a = 0
          OBVIOUS
        <5>4. PICK x \in Nat, y \in Nat, z \in Nat :
                /\ x = Waits(V[t].out, i, cU) /\ y = Waits(V[t].out, i, cD)
                /\ z = Elsewhere(V, t, cD)
          BY <2>3, <2>4, <3>1, <5>1
        <5>5. x <= (m + a - d) + z + y
          BY <5>2, <5>3, <5>4
        <5> QED BY <3>1, <5>4, <5>5
      <4>3. i \in Nat /\ Len(U[t].out) \in Nat
        BY <2>2, <3>1 DEF Outs
      <4> QED BY <4>1, <4>2, <4>3
    <3>2. CASE u # t
      <4>1. V[u].out = U[u].out /\ i \in Nat /\ i \in 0..Len(U[u].out)
        BY <3>2, <2>2 DEF Outs
      <4>2. Elsewhere(V, u, cD) = Elsewhere(U, u, cD) + d
        <5>1. All(U, cD) = Waits(U[u].out, 0, cD) + Elsewhere(U, u, cD)
          BY AllPlacesSplit DEF All
        <5>2. All(V, cD) = Waits(V[u].out, 0, cD) + Elsewhere(V, u, cD)
          BY AllPlacesSplit DEF All
        <5>3. PICK w \in Nat, x \in Nat, y \in Nat :
                /\ w = Waits(U[u].out, 0, cD) /\ x = Elsewhere(U, u, cD)
                /\ y = Elsewhere(V, u, cD)
          BY <2>3, <2>4
        <5>4. w + y = (w + x) + d
          BY <5>1, <5>2, <5>3, <4>1, <1>2
        <5>5. y = x + d
          BY <5>4
        <5> QED BY <5>3, <5>5
      <4>3. Waits(U[u].out, i, cU) <= m + Elsewhere(U, u, cD) + Waits(U[u].out, i, cD)
        BY <2>1, <4>1
      <4>4. PICK x \in Nat, y \in Nat, z \in Nat :
              /\ x = Waits(U[u].out, i, cU) /\ y = Waits(U[u].out, i, cD)
              /\ z = Elsewhere(U, u, cD)
        BY <2>3, <2>4, <4>1
      <4>6. x <= m + z + y
        BY <4>3, <4>4
      <4>5. x <= (m + a - d) + (z + d) + y
        BY <4>6
      <4> QED BY <4>1, <4>2, <4>4, <4>5
    <3> QED BY <3>1, <3>2
  <2> QED BY <2>5 DEF Ordered, cU, cD
<1> QED BY <1>3, <1>4, <1>5 DEF Books

-----------------------------------------------------------------------------
(* t sends what it has written. *)

\* The count after the first i commands of out.
CountAt(n, out, i, h, k) ==
  n + (Waits(out, 0, Up(k, h)) - Waits(out, i, Up(k, h)))
    - (Waits(out, 0, Down(k, h)) - Waits(out, i, Down(k, h)))
    - (Waits(out, 0, Back(k, h)) - Waits(out, i, Back(k, h)))

\* t's decrements of h overtake no increment of another thread.
InTime(U, t, h, k) ==
  Waits(U[t].out, 0, Down(k, h)) # 0 => Elsewhere(U, t, Up(k, h)) = 0

\* Whatever t has still to send, the driver's count covers the buffers,
\* and a release that comes next.
LEMMA CountCovers ==
  ASSUME NEW U \in [Thread -> UserStates], NEW t \in Thread,
         NEW h, NEW k, NEW n \in Nat, NEW m \in Nat, NEW p \in Nat, Books(U, n, m, p, h, k),
         InTime(U, t, h, k), NEW i \in 0..Len(U[t].out)
  PROVE  /\ CountAt(n, U[t].out, i, h, k) \in Nat
         /\ CountAt(n, U[t].out, i, h, k)
              >= p + Elsewhere(U, t, Back(k, h)) + Waits(U[t].out, i, Back(k, h))
         /\ i < Len(U[t].out) /\ U[t].out[i + 1] = Down(k, h) =>
              CountAt(n, U[t].out, i, h, k) >= 1
<1> DEFINE cU == Up(k, h)
           cD == Down(k, h)
           cB == Back(k, h)
           o == U[t].out
<1> HIDE DEF cU, cD, cB
<1>1. o \in Outs /\ Len(o) \in Nat /\ i \in Nat
  <2>1. o \in Outs
    BY UserFields
  <2> QED BY <2>1 DEF Outs
<1>2. ASSUME NEW c
      PROVE  /\ All(U, c) = Waits(o, 0, c) + Elsewhere(U, t, c) /\ Elsewhere(U, t, c) \in Nat
             /\ \A j \in Nat : Waits(o, j, c) \in Nat
  BY <1>1, AllPlacesSplit, PlacesFinite DEF All
<1>3. n + All(U, cU) - All(U, cD) - All(U, cB) = m + p
  BY DEF Books, Agree, cU, cD, cB
<1>4. All(U, cU) <= m + All(U, cD)
  BY DEF Books, Covered, cU, cD
<1>5. \A j \in 0..Len(o) : Waits(o, j, cU) <= m + Elsewhere(U, t, cD) + Waits(o, j, cD)
  BY DEF Books, Ordered, cU, cD
<1>6. Waits(o, 0, cD) # 0 => Elsewhere(U, t, cU) = 0
  BY DEF InTime, cU, cD
<1>7. Waits(o, i, cU) <= Waits(o, 0, cU) /\ Waits(o, i, cD) <= Waits(o, 0, cD)
  BY <1>1, PlacesSome
<1> DEFINE N == n + (Waits(o, 0, cU) - Waits(o, i, cU)) - (Waits(o, 0, cD) - Waits(o, i, cD))
                  - (Waits(o, 0, cB) - Waits(o, i, cB))
<1>8. CountAt(n, U[t].out, i, h, k) = N
  BY DEF CountAt, cU, cD, cB, o, N
<1> HIDE DEF o
<1> DEFINE u0 == Waits(o, 0, cU)   ui == Waits(o, i, cU)   eu == Elsewhere(U, t, cU)
           d0 == Waits(o, 0, cD)   di == Waits(o, i, cD)   ed == Elsewhere(U, t, cD)
           b0 == Waits(o, 0, cB)   bi == Waits(o, i, cB)   eb == Elsewhere(U, t, cB)
<1>12. /\ u0 \in Nat /\ ui \in Nat /\ eu \in Nat /\ d0 \in Nat /\ di \in Nat /\ ed \in Nat
       /\ b0 \in Nat /\ bi \in Nat /\ eb \in Nat
  BY <1>1, <1>2
<1>13. N = n + (u0 - ui) - (d0 - di) - (b0 - bi)
  OBVIOUS
<1>14. All(U, cU) = u0 + eu /\ All(U, cD) = d0 + ed /\ All(U, cB) = b0 + eb
  BY <1>2
<1>15. ui <= u0 /\ di <= d0 /\ (d0 # 0 => eu = 0) /\ ui <= m + ed + di
  <2>1. i \in 0..Len(o)
    BY <1>1 DEF o
  <2> QED BY <1>5, <1>6, <1>7, <2>1
<1> HIDE DEF N, u0, ui, eu, d0, di, ed, b0, bi, eb
<1>16. n + (u0 + eu) - (d0 + ed) - (b0 + eb) = m + p /\ u0 + eu <= m + (d0 + ed)
  BY <1>3, <1>4, <1>14
<1>17. N >= p + eb + bi
  <2>1. CASE d0 # 0
    BY <1>12, <1>13, <1>15, <1>16, <2>1
  <2>2. CASE d0 = 0
    BY <1>12, <1>13, <1>15, <1>16, <2>2
  <2> QED BY <2>1, <2>2
<1>9. N >= p + Elsewhere(U, t, cB) + Waits(o, i, cB)
  BY <1>17 DEF eb, bi
<1>10. ASSUME i < Len(o), o[i + 1] = cD PROVE N >= 1
  <2>1. Waits(o, i, cD) = Waits(o, i + 1, cD) + 1
    BY <1>1, <1>10, PlacesNext
  <2>2. Waits(o, i, cU) = Waits(o, i + 1, cU)
    <3>1. cU # cD
      BY DEF cU, cD, Up, Down, Command
    <3> QED BY <1>1, <1>10, <3>1, PlacesNext
  <2>3. i + 1 \in 0..Len(o) /\ i + 1 \in Nat
    BY <1>1, <1>10
  <2>4. Waits(o, i + 1, cU) <= m + Elsewhere(U, t, cD) + Waits(o, i + 1, cD)
    BY <1>5, <2>3
  <2>5. PICK x \in Nat : x = Waits(o, i + 1, cD)
    BY <1>2, <2>3
  <2>6. di = x + 1 /\ ui <= m + ed + x
    BY <2>1, <2>2, <2>4, <2>5 DEF di, ui, ed
  <2> QED BY <1>12, <1>13, <1>15, <1>16, <2>6
<1>11. N \in Nat
  <2>1. N \in Int
    BY <1>12, <1>13
  <2> QED BY <1>12, <1>17, <2>1
<1>18. /\ CountAt(n, U[t].out, i, h, k) \in Nat
       /\ CountAt(n, U[t].out, i, h, k) >= p + Elsewhere(U, t, cB) + Waits(o, i, cB)
       /\ i < Len(o) /\ o[i + 1] = cD => CountAt(n, U[t].out, i, h, k) >= 1
  BY <1>8, <1>9, <1>10, <1>11
<1> QED BY <1>18 DEF cD, cB, o

LEMMA FlushBooks ==
  ASSUME NEW U \in [Thread -> UserStates], NEW V \in [Thread -> UserStates], NEW t \in Thread,
         \A u \in Thread : u # t => V[u].out = U[u].out, V[t].out = <<>>,
         NEW h, NEW k, NEW n \in Nat, NEW m \in Nat, NEW p \in Nat, Books(U, n, m, p, h, k),
         InTime(U, t, h, k)
  PROVE  Books(V, CountAt(n, U[t].out, Len(U[t].out), h, k), m, p, h, k)
<1> DEFINE cU == Up(k, h)
           cD == Down(k, h)
           cB == Back(k, h)
           o == U[t].out
           L == Len(o)
<1> HIDE DEF cU, cD, cB
<1>1. o \in Outs /\ L \in Nat /\ V[t].out \in Outs
  <2>1. o \in Outs /\ V[t].out \in Outs
    BY UserFields
  <2> QED BY <2>1 DEF Outs
<1>2. ASSUME NEW c
      PROVE  /\ All(U, c) = Waits(o, 0, c) + Elsewhere(U, t, c) /\ Elsewhere(U, t, c) \in Nat
             /\ All(V, c) = Elsewhere(U, t, c) /\ Waits(o, L, c) = 0 /\ Waits(o, 0, c) \in Nat
             /\ \A j \in Nat : Waits(V[t].out, j, c) = 0
  <2>1. All(U, c) = Waits(o, 0, c) + Elsewhere(U, t, c) /\ Elsewhere(U, t, c) \in Nat
    BY AllPlacesSplit DEF All
  <2>2. All(V, c) = Waits(V[t].out, 0, c) + Elsewhere(V, t, c)
    BY AllPlacesSplit DEF All
  <2>3. Elsewhere(V, t, c) = Elsewhere(U, t, c)
    BY ElsewhereSame
  <2>4. Waits(o, L, c) = 0
    BY <1>1, PlacesEnd
  <2>5. Len(V[t].out) = 0
    OBVIOUS
  <2>6. ASSUME NEW j \in Nat PROVE Waits(V[t].out, j, c) = 0
    BY <1>1, <2>5, PlacesEnd
  <2>7. Waits(o, 0, c) \in Nat
    BY <1>1, PlacesFinite
  <2> QED BY <2>1, <2>2, <2>3, <2>4, <2>6, <2>7
<1>3. n + All(U, cU) - All(U, cD) - All(U, cB) = m + p
  BY DEF Books, Agree, cU, cD, cB
<1>4. Waits(o, 0, cD) # 0 => Elsewhere(U, t, cU) = 0
  BY DEF InTime, cU, cD
<1> DEFINE N == CountAt(n, U[t].out, Len(U[t].out), h, k)
<1>5. N = n + (Waits(o, 0, cU) - Waits(o, L, cU)) - (Waits(o, 0, cD) - Waits(o, L, cD))
            - (Waits(o, 0, cB) - Waits(o, L, cB))
  BY DEF CountAt, cU, cD, cB
<1>6. N >= p + Elsewhere(U, t, cB) + Waits(o, L, cB)
  <2>1. L \in 0..Len(U[t].out)
    BY <1>1
  <2> QED BY <2>1, CountCovers DEF cB
<1> HIDE DEF N, o, L
<1>12. PICK u0 \in Nat, d0 \in Nat, b0 \in Nat, eu \in Nat, ed \in Nat, eb \in Nat :
         /\ All(U, cU) = u0 + eu /\ All(U, cD) = d0 + ed /\ All(U, cB) = b0 + eb
         /\ u0 = Waits(o, 0, cU) /\ d0 = Waits(o, 0, cD) /\ b0 = Waits(o, 0, cB)
         /\ eb = Elsewhere(U, t, cB)
         /\ All(V, cU) = eu /\ All(V, cD) = ed /\ All(V, cB) = eb
  BY <1>2
<1>13. Waits(o, L, cU) = 0 /\ Waits(o, L, cD) = 0 /\ Waits(o, L, cB) = 0
  BY <1>2
<1>14. N = n + u0 - d0 - b0 /\ N >= p + eb
  BY <1>5, <1>6, <1>12, <1>13
<1>15. n + (u0 + eu) - (d0 + ed) - (b0 + eb) = m + p
  BY <1>3, <1>12
<1>16. N + eu - ed - eb = m + p /\ eu <= m + ed
  BY <1>14, <1>15
<1>7. N + All(V, cU) - All(V, cD) - All(V, cB) = m + p
  BY <1>12, <1>16
<1>8. All(V, cU) <= m + All(V, cD)
  BY <1>12, <1>16
<1>9. ASSUME NEW u \in Thread, NEW i \in 0..Len(V[u].out)
      PROVE  Waits(V[u].out, i, cU) <= m + Elsewhere(V, u, cD) + Waits(V[u].out, i, cD)
  <2>1. Elsewhere(V, u, cD) \in Nat /\ Elsewhere(U, u, cD) \in Nat
    BY AllPlacesSplit
  <2>2. U[u].out \in Outs /\ V[u].out \in Outs
    BY UserFields
  <2>3. i \in Nat
    BY <2>2 DEF Outs
  <2>4. CASE u = t
    <3>1. Waits(V[t].out, i, cU) = 0 /\ Waits(V[t].out, i, cD) = 0
      BY <1>2, <2>3
    <3> QED BY <2>1, <2>4, <3>1
  <2>5. CASE u # t
    <3>1. V[u].out = U[u].out
      BY <2>5
    <3>2. Waits(U[u].out, i, cU) <= m + Elsewhere(U, u, cD) + Waits(U[u].out, i, cD)
      BY <3>1 DEF Books, Ordered, cU, cD
    <3>3. /\ All(U, cD) = Waits(U[u].out, 0, cD) + Elsewhere(U, u, cD)
          /\ All(V, cD) = Waits(V[u].out, 0, cD) + Elsewhere(V, u, cD)
      BY AllPlacesSplit DEF All
    <3>4. /\ Waits(U[u].out, i, cU) \in Nat /\ Waits(U[u].out, i, cD) \in Nat
          /\ Waits(U[u].out, 0, cD) \in Nat
      BY <2>2, <2>3, PlacesFinite
    <3>5. CASE Waits(o, 0, cD) = 0
      <4>1. PICK x \in Nat, y \in Nat : x = Elsewhere(V, u, cD) /\ y = Elsewhere(U, u, cD)
        BY <2>1
      <4>2. All(U, cD) = All(V, cD)
        BY <1>12, <3>5
      <4>3. PICK w \in Nat : w = Waits(U[u].out, 0, cD)
        BY <3>4
      <4>4. w + x = w + y
        BY <3>1, <3>3, <4>1, <4>2, <4>3
      <4>5. x = y
        BY <4>4
      <4> QED BY <3>1, <3>2, <4>1, <4>5
    <3>6. CASE Waits(o, 0, cD) # 0
      <4>1. ~\E v \in Thread \ {t} : \E j \in DOMAIN U[v].out : U[v].out[j] = cU
        <5>1. Cardinality(AllPlaces(U, Thread \ {t}, cU)) = 0
          BY <1>4, <3>6 DEF Elsewhere
        <5>2. Thread \ {t} \in SUBSET Thread
          OBVIOUS
        <5>3. (\E v \in Thread \ {t} : \E j \in DOMAIN U[v].out : U[v].out[j] = cU) =>
                Cardinality(AllPlaces(U, Thread \ {t}, cU)) >= 1
          BY <5>2, ElsewhereSome
        <5> QED BY <5>1, <5>3
      <4>2. Waits(U[u].out, i, cU) = 0
        BY <2>2, <2>3, <2>5, <4>1, PlacesSome
      <4> QED BY <2>1, <3>1, <3>4, <4>2
    <3> QED BY <3>5, <3>6
  <2> QED BY <2>4, <2>5
<1>10. \A u \in Thread : Ordered(V, m, u, h, k)
  BY <1>9 DEF Ordered, cU, cD
<1>11. Agree(V, N, m, p, h, k) /\ Covered(V, m, h, k)
  BY <1>7, <1>8 DEF Agree, Covered, cU, cD, cB
<1> QED BY <1>10, <1>11 DEF Books, N

-----------------------------------------------------------------------------
(* The inductive invariant. *)

KeptIn(X, U, h, k) ==
  {p \in Proxy : X[p].at # "unused" /\ X[p].handle = h
                 /\ (k => \E t \in Thread : p \in U[t].strongs)}
HaveIn(X, U, h, k)  == Cardinality(KeptIn(X, U, h, k))
ParcelsIn(U, h, k)  == Cardinality({t \in Thread : U[t].parcel = [handle |-> h, strong |-> k]})
Counted(r, k)       == IF k THEN r.strong ELSE r.weak

\* The buffer that brought the handle outlives the increment: t has it still,
\* or frees it after.
BackedBy(r, i, h, k) ==
  \/ r.parcel = [handle |-> h, strong |-> k]
  \/ \E j \in DOMAIN r.out : j > i /\ r.out[j] = Back(k, h)
Backed(r) == \A i \in DOMAIN r.out, h \in Handle :
  /\ r.out[i] = Up(TRUE, h) => BackedBy(r, i, h, TRUE)
  /\ r.out[i] = Up(FALSE, h) => \E k \in BOOLEAN : BackedBy(r, i, h, k)

RefStates == [node : Node \cup {None}, strong : Nat, weak : Nat]
RefOK(r)  == r.node = None => r = NoRef
NodeOK(p) == proxy[p].at = "alive" => proxy[p].node = ref[proxy[p].handle].node
BooksOK(h, k) ==
  Books(user, Counted(ref[h], k), HaveIn(proxy, user, h, k), ParcelsIn(user, h, k), h, k)

KInv ==
  /\ ref \in [Handle -> RefStates] /\ \A h \in Handle : RefOK(ref[h])
  /\ \A t \in Thread : Backed(user[t])
  /\ ~overtaken => /\ \A h \in Handle, k \in BOOLEAN : BooksOK(h, k)
                   /\ \A p \in Proxy : NodeOK(p)

-----------------------------------------------------------------------------
LEMMA HaveType ==
  ASSUME NEW X, NEW U, NEW h, NEW k
  PROVE  /\ IsFiniteSet(KeptIn(X, U, h, k)) /\ HaveIn(X, U, h, k) \in Nat
         /\ ParcelsIn(U, h, k) \in Nat
<1>1. IsFiniteSet(KeptIn(X, U, h, k))
  <2>1. KeptIn(X, U, h, k) \in SUBSET Proxy
    BY DEF KeptIn
  <2> QED BY <2>1, TableAssumption, FS_Subset
<1>2. IsFiniteSet({t \in Thread : U[t].parcel = [handle |-> h, strong |-> k]})
  <2>1. {t \in Thread : U[t].parcel = [handle |-> h, strong |-> k]} \in SUBSET Thread
    OBVIOUS
  <2> QED BY <2>1, TableAssumption, FS_Subset
<1> QED BY <1>1, <1>2, FS_CardinalityType DEF HaveIn, ParcelsIn

LEMMA HaveMore ==
  ASSUME NEW X, NEW U, NEW Y, NEW V, NEW h, NEW k, NEW p,
         p \notin KeptIn(X, U, h, k), KeptIn(Y, V, h, k) = KeptIn(X, U, h, k) \cup {p}
  PROVE  HaveIn(Y, V, h, k) = HaveIn(X, U, h, k) + 1
BY HaveType, FS_AddElement DEF HaveIn

LEMMA ParcelsMore ==
  ASSUME NEW U, NEW V, NEW h, NEW k, NEW t \in Thread,
         \A u \in Thread : u # t => V[u].parcel = U[u].parcel,
         U[t].parcel # [handle |-> h, strong |-> k], V[t].parcel = [handle |-> h, strong |-> k]
  PROVE  ParcelsIn(V, h, k) = ParcelsIn(U, h, k) + 1
<1> DEFINE A == {u \in Thread : U[u].parcel = [handle |-> h, strong |-> k]}
           B == {u \in Thread : V[u].parcel = [handle |-> h, strong |-> k]}
<1>1. IsFiniteSet(A)
  <2>1. A \in SUBSET Thread
    OBVIOUS
  <2> QED BY <2>1, TableAssumption, FS_Subset
<1>2. B = A \cup {t} /\ t \notin A
  OBVIOUS
<1> HIDE DEF A, B
<1>3. Cardinality(B) = Cardinality(A) + 1
  BY <1>1, <1>2, FS_AddElement
<1> QED BY <1>3 DEF A, B, ParcelsIn

LEMMA ParcelsSame ==
  ASSUME NEW U, NEW V, NEW h, NEW k,
         \A u \in Thread : V[u].parcel = [handle |-> h, strong |-> k] <=>
                           U[u].parcel = [handle |-> h, strong |-> k]
  PROVE  ParcelsIn(V, h, k) = ParcelsIn(U, h, k)
<1>1. {u \in Thread : U[u].parcel = [handle |-> h, strong |-> k]}
        = {u \in Thread : V[u].parcel = [handle |-> h, strong |-> k]}
  OBVIOUS
<1> QED BY <1>1 DEF ParcelsIn

LEMMA ParcelsKept ==
  ASSUME NEW U, NEW V, \A u \in Thread : V[u].parcel = U[u].parcel, NEW h, NEW k
  PROVE  ParcelsIn(V, h, k) = ParcelsIn(U, h, k)
<1>1. \A u \in Thread : V[u].parcel = [handle |-> h, strong |-> k] <=>
                         U[u].parcel = [handle |-> h, strong |-> k]
  OBVIOUS
<1> QED BY <1>1, ParcelsSame

LEMMA AppendOut ==
  ASSUME NEW out \in Outs, NEW c \in [cmd : Commands, handle : Handle]
  PROVE  Append(out, c) \in Outs
BY DEF Outs

LEMMA ConcatOne ==
  ASSUME NEW out \in Outs, NEW c \in [cmd : Commands, handle : Handle]
  PROVE  out \o <<c>> = Append(out, c) /\ out \o <<>> = out
<1> DEFINE S == [cmd : Commands, handle : Handle]
<1>1. out \in Seq(S) /\ c \in S
  BY DEF Outs
<1> HIDE DEF S
<1>2. out \o <<c>> = Append(out, c)
  BY <1>1, AppendIsConcat
<1>3. out \o <<>> = out
  BY <1>1, ConcatEmptySeq
<1> QED BY <1>2, <1>3

LEMMA ParcelsSome ==
  ASSUME NEW U, NEW h, NEW k, NEW t \in Thread, U[t].parcel = [handle |-> h, strong |-> k]
  PROVE  ParcelsIn(U, h, k) >= 1
<1>1. IsFiniteSet({u \in Thread : U[u].parcel = [handle |-> h, strong |-> k]})
  <2>1. {u \in Thread : U[u].parcel = [handle |-> h, strong |-> k]} \in SUBSET Thread
    OBVIOUS
  <2> QED BY <2>1, TableAssumption, FS_Subset
<1>2. {u \in Thread : U[u].parcel = [handle |-> h, strong |-> k]} # {}
  OBVIOUS
<1>3. ParcelsIn(U, h, k) # 0
  BY <1>1, <1>2, FS_EmptySet DEF ParcelsIn
<1> QED BY <1>3, HaveType

LEMMA CountedType ==
  ASSUME NEW r \in RefStates, NEW k \in BOOLEAN
  PROVE  Counted(r, k) \in Nat
BY DEF RefStates, Counted

LEMMA CommandsDiffer ==
  ASSUME NEW g, NEW h, NEW j \in BOOLEAN, NEW k \in BOOLEAN
  PROVE  /\ Up(j, g) = Up(k, h) <=> g = h /\ j = k
         /\ Down(j, g) = Down(k, h) <=> g = h /\ j = k
         /\ Back(j, g) = Back(k, h) <=> g = h /\ j = k
         /\ Up(j, g) # Down(k, h) /\ Up(j, g) # Back(k, h) /\ Down(j, g) # Back(k, h)
BY DEF Up, Down, Back, Command

LEMMA CommandType ==
  ASSUME NEW h \in Handle, NEW k \in BOOLEAN
  PROVE  /\ Up(k, h) \in [cmd : Commands, handle : Handle]
         /\ Down(k, h) \in [cmd : Commands, handle : Handle]
         /\ Back(k, h) \in [cmd : Commands, handle : Handle]
BY DEF Up, Down, Back, Command, Commands

-----------------------------------------------------------------------------
(* Steps in which t writes up to two commands. *)

\* What such a step does to the books of h.
Effect(t, h, k) ==
  \E a, d, b \in Nat :
    /\ a = 0 \/ d = 0
    /\ Adds(user[t].out, user'[t].out, Up(k, h), a)
    /\ Adds(user[t].out, user'[t].out, Down(k, h), d)
    /\ Adds(user[t].out, user'[t].out, Back(k, h), b)
    /\ HaveIn(proxy', user', h, k) = HaveIn(proxy, user, h, k) + a - d
    /\ ParcelsIn(user', h, k) = ParcelsIn(user, h, k) - b

LEMMA EffectKeeps ==
  ASSUME IInv, KInv, IInv', NEW t \in Thread, \A u \in Thread : u # t => user'[u].out = user[u].out,
         ref' = ref, overtaken' = overtaken,
         \A h \in Handle, k \in BOOLEAN : Effect(t, h, k),
         \A u \in Thread : Backed(user'[u]),
         ~overtaken => \A p \in Proxy : NodeOK(p)'
  PROVE  KInv'
<1>1. ASSUME ~overtaken, NEW h \in Handle, NEW k \in BOOLEAN PROVE BooksOK(h, k)'
  <2> DEFINE n == Counted(ref[h], k)
             m == HaveIn(proxy, user, h, k)
             p == ParcelsIn(user, h, k)
  <2>1. n \in Nat /\ m \in Nat /\ p \in Nat
    BY HaveType, CountedType DEF KInv
  <2>2. Books(user, n, m, p, h, k)
    BY <1>1 DEF KInv, BooksOK
  <2>3. user \in [Thread -> UserStates] /\ user' \in [Thread -> UserStates]
    BY DEF IInv
  <2>4. PICK a \in Nat, d \in Nat, b \in Nat :
          /\ a = 0 \/ d = 0
          /\ Adds(user[t].out, user'[t].out, Up(k, h), a)
          /\ Adds(user[t].out, user'[t].out, Down(k, h), d)
          /\ Adds(user[t].out, user'[t].out, Back(k, h), b)
          /\ HaveIn(proxy', user', h, k) = m + a - d
          /\ ParcelsIn(user', h, k) = p - b
    BY DEF Effect
  <2> HIDE DEF n, m, p
  <2>5. m + a - d >= 0
    <3>1. HaveIn(proxy', user', h, k) \in Nat
      BY HaveType
    <3> QED BY <2>1, <2>4, <3>1
  <2>6. Books(user', n + 0, m + a - d, p + 0 - b, h, k)
    BY <2>1, <2>2, <2>3, <2>4, <2>5, WriteBooks
  <2>7. n + 0 = n /\ p + 0 - b = p - b
    BY <2>1
  <2>8. Books(user', n, HaveIn(proxy', user', h, k), ParcelsIn(user', h, k), h, k)
    BY <2>4, <2>6, <2>7
  <2> QED BY <2>8 DEF BooksOK, n
<1> QED BY <1>1 DEF KInv

\* One command c, or none, that changes what c says and nothing else.
LEMMA EffectOfNone ==
  ASSUME IInv, NEW t \in Thread, user'[t].out = user[t].out, NEW h \in Handle, NEW k \in BOOLEAN,
         KeptIn(proxy', user', h, k) = KeptIn(proxy, user, h, k),
         ParcelsIn(user', h, k) = ParcelsIn(user, h, k)
  PROVE  Effect(t, h, k)
<1>1. user[t].out \in Outs
  BY UserFields DEF IInv
<1>2. \A c : Adds(user[t].out, user'[t].out, c, 0)
  BY <1>1, AddsNothing
<1>3. HaveIn(proxy', user', h, k) = HaveIn(proxy, user, h, k) /\ HaveIn(proxy, user, h, k) \in Nat
      /\ ParcelsIn(user, h, k) \in Nat
  BY HaveType DEF HaveIn
<1>4. /\ HaveIn(proxy', user', h, k) = HaveIn(proxy, user, h, k) + 0 - 0
      /\ ParcelsIn(user', h, k) = ParcelsIn(user, h, k) - 0
  BY <1>3
<1> QED BY <1>2, <1>4 DEF Effect

LEMMA EffectOfOther ==
  ASSUME IInv, NEW t \in Thread, NEW c \in [cmd : Commands, handle : Handle],
         user'[t].out = Append(user[t].out, c), NEW h \in Handle, NEW k \in BOOLEAN,
         c # Up(k, h), c # Down(k, h), c # Back(k, h),
         KeptIn(proxy', user', h, k) = KeptIn(proxy, user, h, k),
         ParcelsIn(user', h, k) = ParcelsIn(user, h, k)
  PROVE  Effect(t, h, k)
<1>1. user[t].out \in Outs
  BY UserFields DEF IInv
<1>2. \A x : c # x => Adds(user[t].out, user'[t].out, x, 0)
  BY <1>1, AddsOne
<1>3. HaveIn(proxy', user', h, k) = HaveIn(proxy, user, h, k) /\ HaveIn(proxy, user, h, k) \in Nat
      /\ ParcelsIn(user, h, k) \in Nat
  BY HaveType DEF HaveIn
<1>4. /\ HaveIn(proxy', user', h, k) = HaveIn(proxy, user, h, k) + 0 - 0
      /\ ParcelsIn(user', h, k) = ParcelsIn(user, h, k) - 0
  BY <1>3
<1> QED BY <1>2, <1>4 DEF Effect

LEMMA EffectOfUp ==
  ASSUME IInv, NEW t \in Thread, NEW h \in Handle, NEW k \in BOOLEAN, NEW p,
         user'[t].out = Append(user[t].out, Up(k, h)),
         p \notin KeptIn(proxy, user, h, k),
         KeptIn(proxy', user', h, k) = KeptIn(proxy, user, h, k) \cup {p},
         ParcelsIn(user', h, k) = ParcelsIn(user, h, k)
  PROVE  Effect(t, h, k)
<1>1. user[t].out \in Outs /\ Up(k, h) \in [cmd : Commands, handle : Handle]
  BY UserFields, CommandType DEF IInv
<1>2. /\ Adds(user[t].out, user'[t].out, Up(k, h), 1)
      /\ Adds(user[t].out, user'[t].out, Down(k, h), 0)
      /\ Adds(user[t].out, user'[t].out, Back(k, h), 0)
  <2>1. Up(k, h) # Down(k, h) /\ Up(k, h) # Back(k, h)
    BY CommandsDiffer
  <2> QED BY <1>1, <2>1, AddsOne
<1>3. /\ HaveIn(proxy', user', h, k) = HaveIn(proxy, user, h, k) + 1
      /\ HaveIn(proxy, user, h, k) \in Nat /\ ParcelsIn(user, h, k) \in Nat
  BY HaveType, HaveMore
<1>4. /\ HaveIn(proxy', user', h, k) = HaveIn(proxy, user, h, k) + 1 - 0
      /\ ParcelsIn(user', h, k) = ParcelsIn(user, h, k) - 0
  BY <1>3
<1> QED BY <1>2, <1>4 DEF Effect

LEMMA EffectOfDown ==
  ASSUME IInv, NEW t \in Thread, NEW h \in Handle, NEW k \in BOOLEAN, NEW p,
         user'[t].out = Append(user[t].out, Down(k, h)),
         p \notin KeptIn(proxy', user', h, k),
         KeptIn(proxy, user, h, k) = KeptIn(proxy', user', h, k) \cup {p},
         ParcelsIn(user', h, k) = ParcelsIn(user, h, k)
  PROVE  Effect(t, h, k)
<1>1. user[t].out \in Outs /\ Down(k, h) \in [cmd : Commands, handle : Handle]
  BY UserFields, CommandType DEF IInv
<1>2. /\ Adds(user[t].out, user'[t].out, Up(k, h), 0)
      /\ Adds(user[t].out, user'[t].out, Down(k, h), 1)
      /\ Adds(user[t].out, user'[t].out, Back(k, h), 0)
  <2>1. Up(k, h) # Down(k, h) /\ Down(k, h) # Back(k, h)
    BY CommandsDiffer
  <2> QED BY <1>1, <2>1, AddsOne
<1>3. /\ HaveIn(proxy, user, h, k) = HaveIn(proxy', user', h, k) + 1
      /\ HaveIn(proxy', user', h, k) \in Nat /\ ParcelsIn(user, h, k) \in Nat
  BY HaveType, HaveMore
<1>4. /\ HaveIn(proxy', user', h, k) = HaveIn(proxy, user, h, k) + 0 - 1
      /\ ParcelsIn(user', h, k) = ParcelsIn(user, h, k) - 0
  BY <1>3
<1> QED BY <1>2, <1>4 DEF Effect

LEMMA EffectOfBack ==
  ASSUME IInv, NEW t \in Thread, NEW h \in Handle, NEW k \in BOOLEAN,
         user'[t].out = Append(user[t].out, Back(k, h)),
         KeptIn(proxy', user', h, k) = KeptIn(proxy, user, h, k),
         ParcelsIn(user, h, k) = ParcelsIn(user', h, k) + 1
  PROVE  Effect(t, h, k)
<1>1. user[t].out \in Outs /\ Back(k, h) \in [cmd : Commands, handle : Handle]
  BY UserFields, CommandType DEF IInv
<1>2. /\ Adds(user[t].out, user'[t].out, Up(k, h), 0)
      /\ Adds(user[t].out, user'[t].out, Down(k, h), 0)
      /\ Adds(user[t].out, user'[t].out, Back(k, h), 1)
  <2>1. Up(k, h) # Back(k, h) /\ Down(k, h) # Back(k, h)
    BY CommandsDiffer
  <2> QED BY <1>1, <2>1, AddsOne
<1>3. HaveIn(proxy', user', h, k) = HaveIn(proxy, user, h, k) /\ HaveIn(proxy, user, h, k) \in Nat
      /\ ParcelsIn(user, h, k) \in Nat /\ ParcelsIn(user', h, k) \in Nat
  BY HaveType DEF HaveIn
<1>4. /\ HaveIn(proxy', user', h, k) = HaveIn(proxy, user, h, k) + 0 - 0
      /\ ParcelsIn(user', h, k) = ParcelsIn(user, h, k) - 1
  BY <1>3
<1> QED BY <1>2, <1>4 DEF Effect

-----------------------------------------------------------------------------
(* Backed. *)

LEMMA BackedSame ==
  ASSUME NEW r, NEW s, Backed(r), s.out = r.out,
         s.parcel = r.parcel \/ r.parcel = NoParcel
  PROVE  Backed(s)
<1>1. \A h \in Handle, k \in BOOLEAN : NoParcel # [handle |-> h, strong |-> k]
  <2>1. NoParcel.handle \notin Handle
    BY TableAssumption DEF NoParcel, Handle
  <2> QED BY <2>1
<1>2. ASSUME NEW i \in DOMAIN r.out, NEW h \in Handle, NEW k \in BOOLEAN, BackedBy(r, i, h, k)
      PROVE  BackedBy(s, i, h, k)
  BY <1>1, <1>2 DEF BackedBy
<1> QED BY <1>2 DEF Backed

LEMMA BackedMore ==
  ASSUME NEW r, NEW s, Backed(r), r.out \in Outs, NEW c \in [cmd : Commands, handle : Handle],
         s.out = Append(r.out, c),
         \A g \in Handle : (c = Up(TRUE, g) \/ c = Up(FALSE, g)) => r.parcel.handle = g,
         \A g \in Handle : c = Up(TRUE, g) => r.parcel.strong = TRUE,
         \/ s.parcel = r.parcel /\ (r.parcel \in [handle : Handle, strong : BOOLEAN]
                                     \/ \A g \in Handle, k \in BOOLEAN : c # Up(k, g))
         \/ /\ r.parcel \in [handle : Handle, strong : BOOLEAN]
            /\ c = Back(r.parcel.strong, r.parcel.handle)
  PROVE  Backed(s)
<1> DEFINE L == Len(r.out)
<1>1. /\ L \in Nat /\ DOMAIN r.out = 1..L /\ DOMAIN s.out = 1..L + 1
      /\ s.out[L + 1] = c /\ \A i \in 1..L : s.out[i] = r.out[i]
  BY DEF Outs
<1> HIDE DEF L
<1>2. ASSUME NEW i \in 1..L, NEW h \in Handle, NEW k \in BOOLEAN, BackedBy(r, i, h, k)
      PROVE  BackedBy(s, i, h, k)
  <2>1. CASE \E j \in DOMAIN r.out : j > i /\ r.out[j] = Back(k, h)
    <3>1. PICK j \in 1..L : j > i /\ r.out[j] = Back(k, h)
      BY <1>1, <2>1
    <3>2. j \in 1..L + 1
      BY <1>1
    <3> QED BY <1>1, <3>1, <3>2 DEF BackedBy
  <2>2. CASE r.parcel = [handle |-> h, strong |-> k] /\ s.parcel = r.parcel
    BY <2>2 DEF BackedBy
  <2>3. CASE r.parcel = [handle |-> h, strong |-> k] /\ s.parcel # r.parcel
    <3>1. c = Back(k, h)
      BY <2>3
    <3>2. L + 1 \in 1..L + 1 /\ L + 1 > i
      BY <1>1
    <3> QED BY <1>1, <3>1, <3>2 DEF BackedBy
  <2> QED BY <1>2, <2>1, <2>2, <2>3 DEF BackedBy
<1>5. ASSUME NEW h \in Handle, NEW k \in BOOLEAN, c = Up(k, h)
      PROVE  s.parcel = r.parcel /\ r.parcel \in [handle : Handle, strong : BOOLEAN]
  <2>1. ASSUME r.parcel \in [handle : Handle, strong : BOOLEAN]
        PROVE  Up(k, h) # Back(r.parcel.strong, r.parcel.handle)
    <3>1. r.parcel.strong \in BOOLEAN
      BY <2>1
    <3> QED BY <3>1 DEF Up, Back, Command
  <2>2. CASE /\ r.parcel \in [handle : Handle, strong : BOOLEAN]
             /\ c = Back(r.parcel.strong, r.parcel.handle)
    BY <1>5, <2>1, <2>2
  <2>3. CASE \A g \in Handle, j \in BOOLEAN : c # Up(j, g)
    BY <1>5, <2>3, Zenon
  <2>4. CASE s.parcel = r.parcel /\ r.parcel \in [handle : Handle, strong : BOOLEAN]
    BY <2>4
  <2> QED BY <2>2, <2>3, <2>4, Zenon
<1>3. ASSUME NEW h \in Handle, c = Up(TRUE, h) PROVE BackedBy(s, L + 1, h, TRUE)
  <2>1. s.parcel = r.parcel /\ r.parcel \in [handle : Handle, strong : BOOLEAN]
    BY <1>3, <1>5
  <2>2. r.parcel.handle = h /\ r.parcel.strong = TRUE
    BY <1>3
  <2>3. s.parcel = [handle |-> h, strong |-> TRUE]
    BY <2>1, <2>2
  <2> QED BY <2>3 DEF BackedBy
<1>6. ASSUME NEW h \in Handle, c = Up(FALSE, h) PROVE \E k \in BOOLEAN : BackedBy(s, L + 1, h, k)
  <2>1. s.parcel = r.parcel /\ r.parcel \in [handle : Handle, strong : BOOLEAN]
    BY <1>6, <1>5
  <2>2. r.parcel.handle = h
    BY <1>6
  <2>3. s.parcel = [handle |-> h, strong |-> s.parcel.strong] /\ s.parcel.strong \in BOOLEAN
    BY <2>1, <2>2
  <2> QED BY <2>3 DEF BackedBy
<1>4. ASSUME NEW i \in 1..L + 1, NEW h \in Handle
      PROVE  /\ s.out[i] = Up(TRUE, h) => BackedBy(s, i, h, TRUE)
             /\ s.out[i] = Up(FALSE, h) => \E k \in BOOLEAN : BackedBy(s, i, h, k)
  <2>1. CASE i \in 1..L
    BY <1>1, <1>2, <2>1 DEF Backed
  <2>2. CASE i = L + 1
    <3>1. s.out[i] = c
      BY <1>1, <2>2
    <3> QED BY <3>1, <1>3, <1>6, <2>2, Zenon
  <2>3. i \in 1..L \/ i = L + 1
    BY <1>1
  <2> QED BY <2>1, <2>2, <2>3
<1> QED BY <1>1, <1>4 DEF Backed

-----------------------------------------------------------------------------
(* The steps that write nothing. *)

LEMMA QuietKeeps ==
  ASSUME IInv, KInv, IInv', ref' = ref, overtaken' = overtaken, Thread # {},
         \A u \in Thread : user'[u].out = user[u].out /\ user'[u].parcel = user[u].parcel,
         \A p \in Proxy : /\ proxy'[p].at = "unused" <=> proxy[p].at = "unused"
                          /\ proxy'[p].handle = proxy[p].handle /\ proxy'[p].node = proxy[p].node
                          /\ proxy'[p].at = "alive" => proxy[p].at = "alive",
         \A p \in Proxy : (\E u \in Thread : p \in user'[u].strongs)
                            <=> (\E u \in Thread : p \in user[u].strongs)
  PROVE  KInv'
<1>1. PICK t \in Thread : TRUE
  OBVIOUS
<1>2. ASSUME NEW h \in Handle, NEW k \in BOOLEAN PROVE Effect(t, h, k)
  <2>1. KeptIn(proxy', user', h, k) = KeptIn(proxy, user, h, k)
    BY DEF KeptIn
  <2>2. ParcelsIn(user', h, k) = ParcelsIn(user, h, k)
    BY ParcelsKept
  <2> QED BY <2>1, <2>2, EffectOfNone
<1>3. \A u \in Thread : Backed(user'[u])
  BY BackedSame DEF KInv
<1>4. ~overtaken => \A p \in Proxy : NodeOK(p)'
  BY DEF KInv, NodeOK
<1> QED BY <1>2, <1>3, <1>4, EffectKeeps

\* t's part of such a step.
LEMMA Others ==
  ASSUME IInv, NEW t \in Thread, NEW r \in UserStates, user' = [user EXCEPT ![t] = r]
  PROVE  /\ user'[t] = r /\ \A u \in Thread : u # t => user'[u] = user[u]
         /\ user[t] \in UserStates /\ UserOK(t)
BY DEF IInv

LEMMA ShareBooks ==
  ASSUME IInv, KInv, IInv', NEW t \in Thread, NEW u \in Thread, NEW p \in Proxy, Share(t, u, p)
  PROVE  KInv'
<1> DEFINE r == [user[u] EXCEPT !.strongs = @ \cup {p}, !.weaks = @ \cup {p}]
<1>1. /\ user[u] \in UserStates /\ user \in [Thread -> UserStates]
      /\ p \in user[t].strongs /\ UNCHANGED <<proxy, ref, overtaken>>
  BY DEF IInv, Share
<1>2. user' = [user EXCEPT ![u] = r]
  BY <1>1 DEF Share
<1>3. /\ r \in UserStates /\ r.strongs = user[u].strongs \cup {p}
      /\ r.out = user[u].out /\ r.parcel = user[u].parcel
  BY <1>1 DEF UserStates
<1> HIDE DEF r
<1>4. user'[u] = r /\ \A v \in Thread : v # u => user'[v] = user[v]
  BY <1>2, <1>3, Others
<1>5. \A q \in Proxy : (\E v \in Thread : q \in user'[v].strongs)
                         <=> (\E v \in Thread : q \in user[v].strongs)
  BY <1>1, <1>3, <1>4
<1>6. \A v \in Thread : user'[v].out = user[v].out /\ user'[v].parcel = user[v].parcel
  BY <1>3, <1>4
<1> QED BY <1>1, <1>5, <1>6, QuietKeeps

LEMMA PromoteBooks ==
  ASSUME IInv, KInv, IInv', NEW t \in Thread, NEW p \in Proxy, Promote(t, p)
  PROVE  KInv'
<1> DEFINE r == [user[t] EXCEPT !.strongs = @ \cup {p}]
<1>1. /\ user[t] \in UserStates /\ user \in [Thread -> UserStates]
      /\ Strongs(p) # {} /\ UNCHANGED <<proxy, ref, overtaken>>
  BY DEF IInv, Promote
<1>2. user' = [user EXCEPT ![t] = r]
  BY <1>1 DEF Promote
<1>3. /\ r \in UserStates /\ r.strongs = user[t].strongs \cup {p}
      /\ r.out = user[t].out /\ r.parcel = user[t].parcel
  BY <1>1 DEF UserStates
<1> HIDE DEF r
<1>4. user'[t] = r /\ \A v \in Thread : v # t => user'[v] = user[v]
  BY <1>2, <1>3, Others
<1>5. \A q \in Proxy : (\E v \in Thread : q \in user'[v].strongs)
                         <=> (\E v \in Thread : q \in user[v].strongs)
  <2>1. \E v \in Thread : p \in user[v].strongs
    BY <1>1 DEF Strongs
  <2> QED BY <2>1, <1>3, <1>4
<1>6. \A v \in Thread : user'[v].out = user[v].out /\ user'[v].parcel = user[v].parcel
  BY <1>3, <1>4
<1> QED BY <1>1, <1>5, <1>6, QuietKeeps

LEMMA DropWeakBooks ==
  ASSUME IInv, KInv, IInv', NEW t \in Thread, NEW p \in Proxy, DropWeak(t, p)
  PROVE  KInv'
<1> DEFINE destroys == IF Weaks(p) = {t} THEN p ELSE None
           r == [user[t] EXCEPT !.weaks = @ \ {p}, !.destroys = destroys]
<1>1. /\ user[t] \in UserStates /\ user \in [Thread -> UserStates]
      /\ p \in user[t].weaks /\ UNCHANGED <<ref, overtaken>> /\ ProxyOK(p) /\ t \in Weaks(p)
      /\ proxy' = IF Weaks(p) = {t} THEN [proxy EXCEPT ![p].at = "dying"] ELSE proxy
  BY DEF IInv, DropWeak, Weaks
<1>2. user' = [user EXCEPT ![t] = r]
  BY <1>1 DEF DropWeak
<1>3. /\ r \in UserStates /\ r.strongs = user[t].strongs
      /\ r.out = user[t].out /\ r.parcel = user[t].parcel
  BY <1>1 DEF UserStates
<1> HIDE DEF r
<1>4. user'[t] = r /\ \A v \in Thread : v # t => user'[v] = user[v]
  BY <1>2, <1>3, Others
<1>5. \A q \in Proxy : (\E v \in Thread : q \in user'[v].strongs)
                         <=> (\E v \in Thread : q \in user[v].strongs)
  BY <1>3, <1>4
<1>6. \A v \in Thread : user'[v].out = user[v].out /\ user'[v].parcel = user[v].parcel
  BY <1>3, <1>4
<1>7. proxy[p].at = "alive" /\ IsProxy(proxy[p])
  BY <1>1 DEF ProxyOK
<1>8. \A q \in Proxy : /\ proxy'[q].at = "unused" <=> proxy[q].at = "unused"
                       /\ proxy'[q].handle = proxy[q].handle /\ proxy'[q].node = proxy[q].node
                       /\ proxy'[q].at = "alive" => proxy[q].at = "alive"
  <2>1. CASE Weaks(p) = {t}
    <3> DEFINE old == [proxy[p] EXCEPT !.at = "dying"]
    <3>1. old.at = "dying" /\ old.handle = proxy[p].handle /\ old.node = proxy[p].node
      BY <1>7 DEF IsProxy
    <3>2. proxy' = [proxy EXCEPT ![p] = old]
      BY <1>1, <2>1
    <3> HIDE DEF old
    <3>3. proxy'[p] = old /\ \A q \in Proxy : q # p => proxy'[q] = proxy[q]
      BY <3>2, ProxyChange
    <3> QED BY <1>7, <3>1, <3>3
  <2>2. CASE Weaks(p) # {t}
    BY <1>1, <2>2
  <2> QED BY <2>1, <2>2
<1> QED BY <1>1, <1>5, <1>6, <1>8, QuietKeeps

-----------------------------------------------------------------------------
(* Steps that write one command, or two. *)

LEMMA DropStrongBooks ==
  ASSUME IInv, KInv, IInv', NEW t \in Thread, NEW p \in Proxy, DropStrong(t, p)
  PROVE  KInv'
<1> DEFINE g == proxy[p].handle
           out == IF Strongs(p) = {t} THEN Append(user[t].out, Down(TRUE, g)) ELSE user[t].out
           r == [user[t] EXCEPT !.strongs = @ \ {p}, !.out = out]
<1>1. /\ user[t] \in UserStates /\ UserOK(t) /\ user \in [Thread -> UserStates]
      /\ p \in user[t].strongs /\ UNCHANGED <<proxy, ref, overtaken>> /\ ProxyOK(p)
  BY DEF IInv, DropStrong
<1>2. user' = [user EXCEPT ![t] = r]
  BY <1>1 DEF DropStrong, Down
<1>3. g \in Handle /\ proxy[p].at = "alive"
  BY <1>1 DEF ProxyOK, Weaks, UserOK
<1>4. user[t].out \in Outs /\ Down(TRUE, g) \in [cmd : Commands, handle : Handle]
  BY <1>1, <1>3, UserFields, CommandType
<1>5. out \in Outs
  BY <1>4, AppendOut
<1> HIDE DEF out, g
<1>6. /\ r \in UserStates /\ r.strongs = user[t].strongs \ {p}
      /\ r.parcel = user[t].parcel /\ r.out = out
  BY <1>1, <1>5 DEF UserStates, Outs
<1> HIDE DEF r
<1>7. user'[t] = r /\ \A v \in Thread : v # t => user'[v] = user[v]
  BY <1>2, <1>6, Others
<1>8. \A v \in Thread : user'[v].parcel = user[v].parcel
  BY <1>6, <1>7
<1>9. CASE Strongs(p) # {t}
  <2>1. \A q \in Proxy : (\E v \in Thread : q \in user'[v].strongs)
                           <=> (\E v \in Thread : q \in user[v].strongs)
    <3>1. \E v \in Thread : v # t /\ p \in user[v].strongs
      BY <1>1, <1>9 DEF Strongs
    <3> QED BY <3>1, <1>6, <1>7
  <2>2. \A v \in Thread : user'[v].out = user[v].out
    BY <1>6, <1>7, <1>9 DEF out
  <2> QED BY <2>1, <2>2, <1>1, <1>8, QuietKeeps
<1>10. CASE Strongs(p) = {t}
  <2>1. user'[t].out = Append(user[t].out, Down(TRUE, g))
    BY <1>6, <1>7, <1>10 DEF out
  <2>2. /\ ~\E v \in Thread : p \in user'[v].strongs
        /\ \A q \in Proxy : q # p => ((\E v \in Thread : q \in user'[v].strongs)
                                       <=> (\E v \in Thread : q \in user[v].strongs))
    BY <1>6, <1>7, <1>10 DEF Strongs
  <2>3. ASSUME NEW h \in Handle, NEW k \in BOOLEAN PROVE Effect(t, h, k)
    <3>1. ParcelsIn(user', h, k) = ParcelsIn(user, h, k)
      BY <1>8, ParcelsKept
    <3>2. CASE h = g /\ k = TRUE
      <4>1. p \notin KeptIn(proxy', user', h, k)
        BY <2>2, <3>2 DEF KeptIn
      <4>2. KeptIn(proxy, user, h, k) = KeptIn(proxy', user', h, k) \cup {p}
        BY <1>1, <1>3, <2>2, <3>2 DEF KeptIn, g
      <4> QED BY <2>1, <3>1, <3>2, <4>1, <4>2, EffectOfDown
    <3>3. CASE h # g \/ k = FALSE
      <4>1. KeptIn(proxy', user', h, k) = KeptIn(proxy, user, h, k)
        BY <1>1, <2>2, <3>3 DEF KeptIn, g
      <4>2. Down(TRUE, g) # Up(k, h) /\ Down(TRUE, g) # Down(k, h) /\ Down(TRUE, g) # Back(k, h)
        BY <3>3 DEF Up, Down, Back, Command
      <4> QED BY <1>4, <2>1, <3>1, <4>1, <4>2, EffectOfOther
    <3> QED BY <3>2, <3>3
  <2>4. ASSUME NEW u \in Thread PROVE Backed(user'[u])
    <3>1. CASE u = t
      <4>1. \A h \in Handle, k \in BOOLEAN : Down(TRUE, g) # Up(k, h)
        BY DEF Up, Down, Command
      <4>2. \A h \in Handle : Down(TRUE, g) # Up(TRUE, h) /\ Down(TRUE, g) # Up(FALSE, h)
        BY DEF Up, Down, Command
      <4>3. Backed(user[t]) /\ user'[t].parcel = user[t].parcel
        BY <1>8 DEF KInv
      <4> QED BY <3>1, <4>1, <4>2, <4>3, <1>4, <2>1, BackedMore
    <3>2. CASE u # t
      BY <3>2, <1>7 DEF KInv
    <3> QED BY <3>1, <3>2
  <2>5. ~overtaken => \A q \in Proxy : NodeOK(q)'
    BY <1>1 DEF KInv, NodeOK
  <2> QED BY <1>1, <1>7, <2>3, <2>4, <2>5, EffectKeeps
<1> QED BY <1>9, <1>10

LEMMA FreeBufferBooks ==
  ASSUME IInv, KInv, IInv', NEW t \in Thread, FreeBuffer(t)
  PROVE  KInv'
<1> DEFINE g == user[t].parcel.handle
           j == user[t].parcel.strong
           out == Append(user[t].out, Back(j, g))
           r == [user[t] EXCEPT !.parcel = NoParcel, !.out = out]
<1>1. /\ user[t] \in UserStates /\ UserOK(t) /\ user \in [Thread -> UserStates]
      /\ user[t].parcel # NoParcel /\ UNCHANGED <<proxy, ref, overtaken>>
  BY DEF IInv, FreeBuffer
<1>2. user' = [user EXCEPT ![t] = r]
  BY <1>1 DEF FreeBuffer, Back
<1>3. /\ g \in Handle /\ j \in BOOLEAN /\ user[t].out \in Outs
      /\ user[t].parcel \in [handle : Handle, strong : BOOLEAN]
      /\ user[t].parcel = [handle |-> g, strong |-> j]
  <2>1. user[t].parcel \in [handle : Handle, strong : BOOLEAN]
    BY <1>1, UserFields
  <2> QED BY <2>1, <1>1, UserFields
<1>4. Back(j, g) \in [cmd : Commands, handle : Handle]
  BY <1>3, CommandType
<1>5. out \in Outs
  BY <1>3, <1>4, AppendOut
<1> HIDE DEF out
<1>6. /\ r \in UserStates /\ r.strongs = user[t].strongs
      /\ r.parcel = NoParcel /\ r.out = out
  BY <1>1, <1>5 DEF UserStates, Outs
<1> HIDE DEF r, g, j
<1>7. user'[t] = r /\ \A v \in Thread : v # t => user'[v] = user[v]
  BY <1>2, <1>6, Others
<1>8. user'[t].out = Append(user[t].out, Back(j, g)) /\ user'[t].parcel = NoParcel
  BY <1>6, <1>7 DEF out
<1>9. \A h \in Handle, k \in BOOLEAN : NoParcel # [handle |-> h, strong |-> k]
  <2>1. NoParcel.handle \notin Handle
    BY TableAssumption DEF NoParcel, Handle
  <2> QED BY <2>1
<1>10. ASSUME NEW h \in Handle, NEW k \in BOOLEAN PROVE Effect(t, h, k)
  <2>1. KeptIn(proxy', user', h, k) = KeptIn(proxy, user, h, k)
    <3>1. \A q \in Proxy : (\E v \in Thread : q \in user'[v].strongs)
                             <=> (\E v \in Thread : q \in user[v].strongs)
      BY <1>6, <1>7
    <3> QED BY <1>1, <3>1 DEF KeptIn
  <2>2. CASE h = g /\ k = j
    <3>1. ParcelsIn(user, h, k) = ParcelsIn(user', h, k) + 1
      <4>1. \A v \in Thread : v # t => user[v].parcel = user'[v].parcel
        BY <1>7
      <4>2. user'[t].parcel # [handle |-> h, strong |-> k]
        BY <1>8, <1>9
      <4> QED BY <1>3, <2>2, <4>1, <4>2, ParcelsMore
    <3> QED BY <1>8, <2>1, <2>2, <3>1, EffectOfBack
  <2>3. CASE ~(h = g /\ k = j)
    <3>1. ParcelsIn(user', h, k) = ParcelsIn(user, h, k)
      <4>1. user[t].parcel # [handle |-> h, strong |-> k]
        BY <1>3, <2>3
      <4> QED BY <1>7, <1>8, <1>9, <4>1, ParcelsSame
    <3>2. Back(j, g) # Up(k, h) /\ Back(j, g) # Down(k, h) /\ Back(j, g) # Back(k, h)
      BY <1>3, <2>3, CommandsDiffer
    <3> QED BY <1>4, <1>8, <2>1, <3>1, <3>2, EffectOfOther
  <2> QED BY <2>2, <2>3
<1>11. ASSUME NEW u \in Thread PROVE Backed(user'[u])
  <2>1. CASE u = t
    <3>1. \A h \in Handle : Back(j, g) # Up(TRUE, h) /\ Back(j, g) # Up(FALSE, h)
      BY DEF Up, Back, Command
    <3>2. Back(j, g) = Back(user[t].parcel.strong, user[t].parcel.handle) /\ Backed(user[t])
      BY DEF KInv, g, j
    <3>3. /\ \A h \in Handle : (Back(j, g) = Up(TRUE, h) \/ Back(j, g) = Up(FALSE, h))
                                  => user[t].parcel.handle = h
          /\ \A h \in Handle : Back(j, g) = Up(TRUE, h) => user[t].parcel.strong = TRUE
      BY <3>1
    <3> QED BY <2>1, <3>2, <3>3, <1>3, <1>4, <1>8, BackedMore
  <2>2. CASE u # t
    BY <2>2, <1>7 DEF KInv
  <2> QED BY <2>1, <2>2
<1>12. ~overtaken => \A q \in Proxy : NodeOK(q)'
  BY <1>1 DEF KInv, NodeOK
<1> QED BY <1>1, <1>7, <1>10, <1>11, <1>12, EffectKeeps

LEMMA DestroyBooks ==
  ASSUME IInv, KInv, IInv', NEW t \in Thread, Destroy(t)
  PROVE  KInv'
<1> DEFINE p == user[t].destroys
           g == proxy[p].handle
           out == Append(user[t].out, Down(FALSE, g))
           r == [user[t] EXCEPT !.destroys = None, !.out = out]
<1>1. /\ user[t] \in UserStates /\ UserOK(t) /\ user \in [Thread -> UserStates]
      /\ p # None /\ proxy' = [proxy EXCEPT ![p] = NoProxy] /\ UNCHANGED <<ref, overtaken>>
  BY DEF IInv, Destroy, Runs
<1>2. p \in Proxy
  BY <1>1, UserFields
<1>3. proxy[p].at = "dying" /\ g \in Handle /\ ~\E v \in Thread : p \in user[v].strongs
  <2>1. ProxyOK(p)
    BY <1>2 DEF IInv
  <2>2. proxy[p].at = "dying" /\ g \in Handle /\ Weaks(p) = {}
    BY <2>1 DEF ProxyOK
  <2> QED BY <2>2 DEF IInv, UserOK, Weaks
<1>4. user' = [user EXCEPT ![t] = r]
  BY <1>1 DEF Destroy, Down
<1>5. user[t].out \in Outs /\ Down(FALSE, g) \in [cmd : Commands, handle : Handle]
  BY <1>1, <1>3, UserFields, CommandType
<1>6. out \in Outs
  BY <1>5, AppendOut
<1> HIDE DEF out, g
<1>7. /\ r \in UserStates /\ r.strongs = user[t].strongs
      /\ r.parcel = user[t].parcel /\ r.out = out
  BY <1>1, <1>6 DEF UserStates, Outs
<1> HIDE DEF r
<1>8. user'[t] = r /\ \A v \in Thread : v # t => user'[v] = user[v]
  BY <1>4, <1>7, Others
<1>9. user'[t].out = Append(user[t].out, Down(FALSE, g))
  BY <1>7, <1>8 DEF out
<1>10. \A v \in Thread : user'[v].parcel = user[v].parcel /\ user'[v].strongs = user[v].strongs
  BY <1>7, <1>8
<1>11. proxy'[p] = NoProxy /\ \A q \in Proxy : q # p => proxy'[q] = proxy[q]
  BY <1>1, <1>2, ProxyChange
<1>12. NoProxy.at = "unused"
  BY DEF NoProxy
<1>13. ASSUME NEW h \in Handle, NEW k \in BOOLEAN PROVE Effect(t, h, k)
  <2>1. ParcelsIn(user', h, k) = ParcelsIn(user, h, k)
    BY <1>10, ParcelsKept
  <2>2. CASE h = g /\ k = FALSE
    <3>1. p \notin KeptIn(proxy', user', h, k)
      BY <1>11, <1>12 DEF KeptIn
    <3>2. KeptIn(proxy, user, h, k) = KeptIn(proxy', user', h, k) \cup {p}
      BY <1>2, <1>3, <1>11, <1>12, <2>2 DEF KeptIn, g
    <3> QED BY <1>9, <2>1, <2>2, <3>1, <3>2, EffectOfDown
  <2>3. CASE h # g \/ k = TRUE
    <3>1. KeptIn(proxy', user', h, k) = KeptIn(proxy, user, h, k)
      <4>1. p \notin KeptIn(proxy', user', h, k) /\ p \notin KeptIn(proxy, user, h, k)
        BY <1>3, <1>11, <1>12, <2>3 DEF KeptIn, g
      <4>2. \A q \in Proxy : q # p =>
              (q \in KeptIn(proxy', user', h, k) <=> q \in KeptIn(proxy, user, h, k))
        BY <1>10, <1>11 DEF KeptIn
      <4>3. KeptIn(proxy', user', h, k) \subseteq Proxy /\ KeptIn(proxy, user, h, k) \subseteq Proxy
        BY DEF KeptIn
      <4> QED BY <4>1, <4>2, <4>3
    <3>2. Down(FALSE, g) # Up(k, h) /\ Down(FALSE, g) # Down(k, h) /\ Down(FALSE, g) # Back(k, h)
      BY <2>3 DEF Up, Down, Back, Command
    <3> QED BY <1>5, <1>9, <2>1, <3>1, <3>2, EffectOfOther
  <2> QED BY <2>2, <2>3
<1>14. ASSUME NEW u \in Thread PROVE Backed(user'[u])
  <2>1. CASE u = t
    <3>1. \A h \in Handle, k \in BOOLEAN : Down(FALSE, g) # Up(k, h)
      BY DEF Up, Down, Command
    <3>2. \A h \in Handle : Down(FALSE, g) # Up(TRUE, h) /\ Down(FALSE, g) # Up(FALSE, h)
      BY DEF Up, Down, Command
    <3>3. Backed(user[t]) /\ user'[t].parcel = user[t].parcel
      BY <1>10 DEF KInv
    <3> QED BY <2>1, <3>1, <3>2, <3>3, <1>5, <1>9, BackedMore
  <2>2. CASE u # t
    BY <2>2, <1>8 DEF KInv
  <2> QED BY <2>1, <2>2
<1>15. ~overtaken => \A q \in Proxy : NodeOK(q)'
  BY <1>1, <1>11, <1>12 DEF KInv, NodeOK
<1> QED BY <1>1, <1>8, <1>13, <1>14, <1>15, EffectKeeps

-----------------------------------------------------------------------------
LEMMA FindBooks ==
  ASSUME IInv, KInv, IInv', NEW t \in Thread, Find(t)
  PROVE  KInv'
<1> DEFINE g == user[t].parcel.handle
           p == table[g]
           strong == user[t].parcel.strong
           writes == strong /\ Strongs(p) = {}
           strongs == IF strong THEN user[t].strongs \cup {p} ELSE user[t].strongs
           out == IF writes THEN Append(user[t].out, Up(TRUE, g)) ELSE user[t].out
           r == [user[t] EXCEPT !.weaks = @ \cup {p}, !.strongs = strongs, !.out = out]
<1>1. /\ user[t] \in UserStates /\ UserOK(t) /\ user \in [Thread -> UserStates]
      /\ user[t].parcel # NoParcel /\ UNCHANGED <<proxy, ref, overtaken>>
  BY DEF IInv, Find
<1>2. /\ g \in Handle /\ strong \in BOOLEAN
      /\ user[t].out \in Outs /\ user[t].strongs \in SUBSET Proxy
      /\ user[t].parcel \in [handle : Handle, strong : BOOLEAN]
  BY <1>1, UserFields
<1>3. p \in Proxy /\ proxy[p].at # "unused" /\ proxy[p].handle = g
  <2>1. p \in Proxy
    BY <1>2 DEF Find, Usable, IInv
  <2>2. EntryOK(g) /\ p # None
    BY <1>2, <2>1, NoneIsNoProxy DEF IInv
  <2> QED BY <2>1, <2>2 DEF EntryOK
<1>4. user' = [user EXCEPT ![t] = r]
  <2>1. user[t].out \o OnFirstRef(p, g) =
          IF Strongs(p) = {} THEN Append(user[t].out, Up(TRUE, g)) ELSE user[t].out
    <3>1. /\ user[t].out \o <<Up(TRUE, g)>> = Append(user[t].out, Up(TRUE, g))
          /\ user[t].out \o <<>> = user[t].out
      <4>1. Up(TRUE, g) \in [cmd : Commands, handle : Handle]
        BY <1>2, CommandType
      <4> QED BY <4>1, <1>2, ConcatOne
    <3> QED BY <3>1 DEF OnFirstRef, Up
  <2>2. user' = [user EXCEPT ![t].weaks = @ \cup {p},
                             ![t].strongs = IF strong THEN @ \cup {p} ELSE @,
                             ![t].out = IF strong THEN @ \o OnFirstRef(p, g) ELSE @]
    BY DEF Find
  <2>3. out = IF strong THEN user[t].out \o OnFirstRef(p, g) ELSE user[t].out
    BY <2>1
  <2> HIDE DEF out
  <2> QED BY <1>1, <2>2, <2>3
<1>5. Up(TRUE, g) \in [cmd : Commands, handle : Handle]
  BY <1>2, CommandType
<1>6. out \in Outs
  BY <1>2, <1>5, AppendOut
<1> HIDE DEF out
<1>7. /\ r \in UserStates /\ r.strongs = strongs
      /\ r.parcel = user[t].parcel /\ r.out = out
  BY <1>1, <1>2, <1>3, <1>6 DEF UserStates, Outs
<1> HIDE DEF r
<1>8. user'[t] = r /\ \A v \in Thread : v # t => user'[v] = user[v]
  BY <1>4, <1>7, Others
<1>9. \A v \in Thread : user'[v].parcel = user[v].parcel
  BY <1>7, <1>8
<1>10. CASE ~writes
  <2>1. \A q \in Proxy : (\E v \in Thread : q \in user'[v].strongs)
                           <=> (\E v \in Thread : q \in user[v].strongs)
    <3>1. strong => \E v \in Thread : p \in user[v].strongs
      BY <1>10 DEF Strongs
    <3> QED BY <3>1, <1>7, <1>8
  <2>2. \A v \in Thread : user'[v].out = user[v].out
    BY <1>7, <1>8, <1>10 DEF out
  <2> QED BY <2>1, <2>2, <1>1, <1>9, QuietKeeps
<1>11. CASE writes
  <2>1. user'[t].out = Append(user[t].out, Up(TRUE, g))
    BY <1>7, <1>8, <1>11 DEF out
  <2>2. /\ \E v \in Thread : p \in user'[v].strongs
        /\ ~\E v \in Thread : p \in user[v].strongs
        /\ \A q \in Proxy : q # p => ((\E v \in Thread : q \in user'[v].strongs)
                                       <=> (\E v \in Thread : q \in user[v].strongs))
    BY <1>7, <1>8, <1>11 DEF Strongs
  <2>3. ASSUME NEW h \in Handle, NEW k \in BOOLEAN PROVE Effect(t, h, k)
    <3>1. ParcelsIn(user', h, k) = ParcelsIn(user, h, k)
      BY <1>9, ParcelsKept
    <3>2. CASE h = g /\ k = TRUE
      <4>1. p \notin KeptIn(proxy, user, h, k)
        BY <2>2, <3>2 DEF KeptIn
      <4>2. KeptIn(proxy', user', h, k) = KeptIn(proxy, user, h, k) \cup {p}
        BY <1>1, <1>3, <2>2, <3>2 DEF KeptIn
      <4> QED BY <2>1, <3>1, <3>2, <4>1, <4>2, EffectOfUp
    <3>3. CASE h # g \/ k = FALSE
      <4>1. KeptIn(proxy', user', h, k) = KeptIn(proxy, user, h, k)
        BY <1>1, <1>3, <2>2, <3>3 DEF KeptIn
      <4>2. Up(TRUE, g) # Up(k, h) /\ Up(TRUE, g) # Down(k, h) /\ Up(TRUE, g) # Back(k, h)
        BY <3>3 DEF Up, Down, Back, Command
      <4> QED BY <1>5, <2>1, <3>1, <4>1, <4>2, EffectOfOther
    <3> QED BY <3>2, <3>3
  <2>4. ASSUME NEW u \in Thread PROVE Backed(user'[u])
    <3>1. CASE u = t
      <4>1. /\ \A h \in Handle : (Up(TRUE, g) = Up(TRUE, h) \/ Up(TRUE, g) = Up(FALSE, h))
                                    => user[t].parcel.handle = h
            /\ \A h \in Handle : Up(TRUE, g) = Up(TRUE, h) => user[t].parcel.strong = TRUE
        BY <1>11 DEF Up, Command
      <4>2. Backed(user[t]) /\ user'[t].parcel = user[t].parcel
        BY <1>9 DEF KInv
      <4> HIDE DEF g
      <4> QED BY <3>1, <4>1, <4>2, <1>2, <1>5, <2>1, BackedMore
    <3>2. CASE u # t
      BY <3>2, <1>8 DEF KInv
    <3> QED BY <3>1, <3>2
  <2>5. ~overtaken => \A q \in Proxy : NodeOK(q)'
    BY <1>1 DEF KInv, NodeOK
  <2> QED BY <1>1, <1>8, <2>3, <2>4, <2>5, EffectKeeps
<1> QED BY <1>10, <1>11

LEMMA CreateBooks ==
  ASSUME IInv, KInv, IInv', NEW t \in Thread, Create(t)
  PROVE  KInv'
<1> DEFINE g == user[t].parcel.handle
           strong == user[t].parcel.strong
<1>1. PICK p \in Proxy :
        /\ proxy[p].at = "unused"
        /\ proxy' = [proxy EXCEPT ![p] = [handle |-> g, node |-> ref[g].node, at |-> "alive"]]
        /\ user' = [user EXCEPT
             ![t].weaks = @ \cup {p},
             ![t].strongs = IF strong THEN @ \cup {p} ELSE @,
             ![t].out = @ \o <<Command("BC_INCREFS", g)>>
                          \o IF strong THEN OnFirstRef(p, g) ELSE <<>>]
  BY DEF Create
<1> DEFINE strongs == IF strong THEN user[t].strongs \cup {p} ELSE user[t].strongs
           mid == Append(user[t].out, Up(FALSE, g))
           out == IF strong THEN Append(mid, Up(TRUE, g)) ELSE mid
           r == [user[t] EXCEPT !.weaks = @ \cup {p}, !.strongs = strongs, !.out = out]
           new == [handle |-> g, node |-> ref[g].node, at |-> "alive"]
<1>2. /\ user[t] \in UserStates /\ UserOK(t) /\ user \in [Thread -> UserStates]
      /\ user[t].parcel # NoParcel /\ UNCHANGED <<ref, overtaken>>
  BY DEF IInv, Create
<1>3. /\ g \in Handle /\ strong \in BOOLEAN
      /\ user[t].out \in Outs /\ user[t].strongs \in SUBSET Proxy
      /\ user[t].parcel \in [handle : Handle, strong : BOOLEAN]
  BY <1>2, UserFields
<1>4. ~\E v \in Thread : p \in user[v].strongs
  <2>1. ProxyOK(p)
    BY DEF IInv
  <2>2. Weaks(p) = {}
    BY <1>1, <2>1 DEF ProxyOK
  <2> QED BY <2>2 DEF IInv, UserOK, Weaks
<1>5. /\ Up(FALSE, g) \in [cmd : Commands, handle : Handle]
      /\ Up(TRUE, g) \in [cmd : Commands, handle : Handle]
  BY <1>3, CommandType
<1>6. mid \in Outs /\ out \in Outs
  BY <1>3, <1>5, AppendOut
<1>7. user' = [user EXCEPT ![t] = r]
  <2>1. Strongs(p) = {}
    BY <1>4 DEF Strongs
  <2>2. user[t].out \o <<Up(FALSE, g)>> = mid
    BY <1>3, <1>5, ConcatOne
  <2> HIDE DEF mid
  <2>3. mid \o <<Up(TRUE, g)>> = Append(mid, Up(TRUE, g)) /\ mid \o <<>> = mid
    BY <1>5, <1>6, ConcatOne
  <2>4. user[t].out \o <<Command("BC_INCREFS", g)>>
          \o (IF strong THEN OnFirstRef(p, g) ELSE <<>>) = out
    BY <2>1, <2>2, <2>3 DEF OnFirstRef, Up
  <2> HIDE DEF out
  <2> QED BY <1>1, <1>2, <2>4
<1>8. /\ new.handle = g /\ new.at = "alive" /\ new.node = ref[g].node
      /\ proxy' = [proxy EXCEPT ![p] = new]
  BY <1>1
<1> HIDE DEF out, new, mid
<1>9. /\ r \in UserStates /\ r.strongs = strongs
      /\ r.parcel = user[t].parcel /\ r.out = out
  BY <1>2, <1>3, <1>6 DEF UserStates, Outs
<1> HIDE DEF r
<1>10. user'[t] = r /\ \A v \in Thread : v # t => user'[v] = user[v]
  BY <1>7, <1>9, Others
<1>11. \A v \in Thread : user'[v].parcel = user[v].parcel
  BY <1>9, <1>10
<1>12. proxy'[p] = new /\ \A q \in Proxy : q # p => proxy'[q] = proxy[q]
  BY <1>8, ProxyChange
<1>13. /\ strong => \E v \in Thread : p \in user'[v].strongs
       /\ ~strong => ~\E v \in Thread : p \in user'[v].strongs
       /\ \A q \in Proxy : q # p => ((\E v \in Thread : q \in user'[v].strongs)
                                      <=> (\E v \in Thread : q \in user[v].strongs))
  BY <1>4, <1>9, <1>10
<1>14. ASSUME NEW h \in Handle, NEW k \in BOOLEAN
       PROVE  /\ p \notin KeptIn(proxy, user, h, k)
              /\ h = g /\ (k => strong) =>
                   KeptIn(proxy', user', h, k) = KeptIn(proxy, user, h, k) \cup {p}
              /\ ~(h = g /\ (k => strong)) =>
                   KeptIn(proxy', user', h, k) = KeptIn(proxy, user, h, k)
  <2>1. p \notin KeptIn(proxy, user, h, k)
    BY <1>1 DEF KeptIn
  <2>2. \A q \in Proxy : q # p =>
          (q \in KeptIn(proxy', user', h, k) <=> q \in KeptIn(proxy, user, h, k))
    BY <1>12, <1>13 DEF KeptIn
  <2>3. p \in KeptIn(proxy', user', h, k) <=> h = g /\ (k => strong)
    BY <1>8, <1>12, <1>13 DEF KeptIn
  <2>4. KeptIn(proxy', user', h, k) \subseteq Proxy /\ KeptIn(proxy, user, h, k) \subseteq Proxy
    BY DEF KeptIn
  <2> QED BY <2>1, <2>2, <2>3, <2>4
<1>15. ASSUME NEW h \in Handle, NEW k \in BOOLEAN PROVE Effect(t, h, k)
  <2>1. ParcelsIn(user', h, k) = ParcelsIn(user, h, k) /\ ParcelsIn(user, h, k) \in Nat
    <3>1. ParcelsIn(user', h, k) = ParcelsIn(user, h, k)
      BY <1>11, ParcelsKept
    <3> QED BY <3>1, HaveType
  <2> DEFINE a == IF h = g /\ (k => strong) THEN 1 ELSE 0
  <2>2. HaveIn(proxy', user', h, k) = HaveIn(proxy, user, h, k) + a - 0
    <3>1. HaveIn(proxy, user, h, k) \in Nat
      BY HaveType
    <3>2. CASE h = g /\ (k => strong)
      <4>1. HaveIn(proxy', user', h, k) = HaveIn(proxy, user, h, k) + 1
        BY <1>14, <3>2, HaveMore
      <4> QED BY <3>1, <3>2, <4>1
    <3>3. CASE ~(h = g /\ (k => strong))
      <4>1. HaveIn(proxy', user', h, k) = HaveIn(proxy, user, h, k)
        BY <1>14, <3>3 DEF HaveIn
      <4>2. a = 0
        BY <3>3
      <4> HIDE DEF a
      <4> QED BY <3>1, <4>1, <4>2
    <3> QED BY <3>2, <3>3
  <2>3. ASSUME NEW c, c # Up(FALSE, g), c # Up(TRUE, g) PROVE Adds(user[t].out, out, c, 0)
    <3>1. Adds(user[t].out, mid, c, 0)
      BY <1>3, <1>5, <2>3, AddsOne DEF mid
    <3>2. Adds(mid, Append(mid, Up(TRUE, g)), c, 0)
      BY <1>5, <1>6, <2>3, AddsOne
    <3>3. CASE strong
      <4>1. Adds(user[t].out, out, c, 0 + 0)
        <5>1. out = Append(mid, Up(TRUE, g))
          BY <3>3 DEF out
        <5>2. Adds(mid, out, c, 0)
          BY <5>1, <3>2
        <5> QED BY <1>3, <1>6, <3>1, <5>2, AddsBoth
      <4> QED BY <4>1
    <3>4. CASE ~strong
      BY <3>1, <3>4 DEF out
    <3> QED BY <3>3, <3>4
  <2>4. Adds(user[t].out, out, Down(k, h), 0) /\ Adds(user[t].out, out, Back(k, h), 0)
    <3>1. /\ Down(k, h) # Up(FALSE, g) /\ Down(k, h) # Up(TRUE, g)
          /\ Back(k, h) # Up(FALSE, g) /\ Back(k, h) # Up(TRUE, g)
      BY DEF Up, Down, Back, Command
    <3> QED BY <2>3, <3>1
  <2>5. Adds(user[t].out, out, Up(k, h), a)
    <3>1. CASE h # g
      <4>1. Up(k, h) # Up(FALSE, g) /\ Up(k, h) # Up(TRUE, g)
        BY <3>1 DEF Up, Command
      <4>2. a = 0
        BY <3>1
      <4> QED BY <2>3, <4>1, <4>2
    <3>2. CASE h = g /\ k = FALSE
      <4>1. Up(k, h) = Up(FALSE, g) /\ Up(FALSE, g) # Up(TRUE, g) /\ a = 1
        BY <3>2 DEF Up, Command
      <4>2. Adds(user[t].out, mid, Up(FALSE, g), 1)
        BY <1>3, <1>5, AddsOne DEF mid
      <4>3. Adds(mid, Append(mid, Up(TRUE, g)), Up(FALSE, g), 0)
        BY <1>5, <1>6, <4>1, AddsOne
      <4>4. CASE strong
        <5>1. Adds(mid, out, Up(FALSE, g), 0)
          BY <4>3, <4>4 DEF out
        <5>2. Adds(user[t].out, out, Up(FALSE, g), 1 + 0)
          BY <1>3, <1>6, <4>2, <5>1, AddsBoth
        <5>3. 1 + 0 = 1
          OBVIOUS
        <5> QED BY <4>1, <5>2, <5>3
      <4>5. CASE ~strong
        BY <4>1, <4>2, <4>5 DEF out
      <4> QED BY <4>4, <4>5
    <3>3. CASE h = g /\ k = TRUE
      <4>1. Up(k, h) = Up(TRUE, g) /\ Up(FALSE, g) # Up(TRUE, g)
        BY <3>3 DEF Up, Command
      <4>2. Adds(user[t].out, mid, Up(TRUE, g), 0)
        BY <1>3, <1>5, <4>1, AddsOne DEF mid
      <4>3. Adds(mid, Append(mid, Up(TRUE, g)), Up(TRUE, g), 1)
        BY <1>5, <1>6, AddsOne
      <4>4. CASE strong
        <5>1. Adds(mid, out, Up(TRUE, g), 1) /\ a = 1
          BY <4>3, <4>4, <3>3 DEF out
        <5>2. Adds(user[t].out, out, Up(TRUE, g), 0 + 1)
          BY <1>3, <1>6, <4>2, <5>1, AddsBoth
        <5>3. 0 + 1 = 1
          OBVIOUS
        <5> QED BY <4>1, <5>1, <5>2, <5>3
      <4>5. CASE ~strong
        <5>1. a = 0
          BY <3>3, <4>5
        <5> QED BY <4>1, <4>2, <4>5, <5>1 DEF out
      <4> QED BY <4>4, <4>5
    <3> QED BY <3>1, <3>2, <3>3
  <2>6. user'[t].out = out /\ a \in Nat /\ ParcelsIn(user', h, k) = ParcelsIn(user, h, k) - 0
    BY <1>9, <1>10, <2>1
  <2> HIDE DEF a
  <2> QED BY <2>2, <2>4, <2>5, <2>6 DEF Effect
<1>16. ASSUME NEW u \in Thread PROVE Backed(user'[u])
  <2>1. CASE u = t
    <3> DEFINE s == [user[t] EXCEPT !.out = mid]
    <3>1. s.out = mid /\ s.parcel = user[t].parcel
      BY <1>2 DEF UserStates
    <3> HIDE DEF s
    <3>2. Backed(s)
      <4>1. /\ \A h \in Handle : (Up(FALSE, g) = Up(TRUE, h) \/ Up(FALSE, g) = Up(FALSE, h))
                                    => user[t].parcel.handle = h
            /\ \A h \in Handle : Up(FALSE, g) = Up(TRUE, h) => user[t].parcel.strong = TRUE
        BY DEF Up, Command
      <4>2. Backed(user[t]) /\ s.out = Append(user[t].out, Up(FALSE, g))
        BY <3>1 DEF KInv, mid
      <4> HIDE DEF g
      <4> QED BY <3>1, <4>1, <4>2, <1>3, <1>5, BackedMore
    <3>3. CASE ~strong
      <4>1. user'[t].out = s.out /\ user'[t].parcel = s.parcel
        BY <1>9, <1>10, <3>1, <3>3 DEF out
      <4> QED BY <2>1, <3>2, <4>1, BackedSame
    <3>4. CASE strong
      <4>1. user'[t].out = Append(s.out, Up(TRUE, g)) /\ user'[t].parcel = s.parcel
        BY <1>9, <1>10, <3>1, <3>4 DEF out
      <4>2. /\ \A h \in Handle : (Up(TRUE, g) = Up(TRUE, h) \/ Up(TRUE, g) = Up(FALSE, h))
                                    => s.parcel.handle = h
            /\ \A h \in Handle : Up(TRUE, g) = Up(TRUE, h) => s.parcel.strong = TRUE
        BY <3>1, <3>4, <1>3 DEF Up, Command
      <4>3. s.out \in Outs /\ s.parcel \in [handle : Handle, strong : BOOLEAN]
        BY <3>1, <1>3, <1>6
      <4> HIDE DEF g
      <4> QED BY <2>1, <3>2, <4>1, <4>2, <4>3, <1>5, BackedMore
    <3> QED BY <3>3, <3>4
  <2>2. CASE u # t
    BY <2>2, <1>10 DEF KInv
  <2> QED BY <2>1, <2>2
<1>17. ASSUME ~overtaken, NEW q \in Proxy PROVE NodeOK(q)'
  <2>1. CASE q = p
    BY <2>1, <1>2, <1>8, <1>12 DEF NodeOK
  <2>2. CASE q # p
    BY <2>2, <1>2, <1>12, <1>17 DEF KInv, NodeOK
  <2> QED BY <2>1, <2>2
<1> QED BY <1>2, <1>10, <1>15, <1>16, <1>17, EffectKeeps

-----------------------------------------------------------------------------
(* The reference that a proxy names is there. *)

\* A buffer that backs a command, and is not yet returned, has its count.
LEMMA BackedCounts ==
  ASSUME NEW U \in [Thread -> UserStates], NEW h \in Handle, NEW k \in BOOLEAN,
         NEW n \in Nat, NEW m \in Nat, Books(U, n, m, ParcelsIn(U, h, k), h, k),
         NEW t \in Thread, NEW i \in Nat, BackedBy(U[t], i, h, k)
  PROVE  n >= 1
<1> DEFINE cU == Up(k, h)
           cD == Down(k, h)
           cB == Back(k, h)
<1> HIDE DEF cU, cD, cB
<1>1. ParcelsIn(U, h, k) \in Nat
  BY HaveType
<1>2. ASSUME NEW c PROVE All(U, c) \in Nat
  <2>1. Thread \in SUBSET Thread
    OBVIOUS
  <2> QED BY <2>1, AllPlacesFinite DEF All
<1>3. n + All(U, cU) - All(U, cD) - All(U, cB) = m + ParcelsIn(U, h, k)
  BY DEF Books, Agree, cU, cD, cB
<1>4. All(U, cU) <= m + All(U, cD)
  BY DEF Books, Covered, cU, cD
<1>5. ParcelsIn(U, h, k) >= 1 \/ All(U, cB) >= 1
  <2>1. CASE U[t].parcel = [handle |-> h, strong |-> k]
    BY <2>1, ParcelsSome
  <2>2. CASE \E j \in DOMAIN U[t].out : j > i /\ U[t].out[j] = cB
    <3>1. (\E u \in Thread : \E j \in DOMAIN U[u].out : U[u].out[j] = cB)
            => Cardinality(AllPlaces(U, Thread, cB)) >= 1
      <4>1. Thread \in SUBSET Thread
        OBVIOUS
      <4> QED BY <4>1, ElsewhereSome
    <3> QED BY <2>2, <3>1 DEF All
  <2> QED BY <2>1, <2>2 DEF BackedBy, cB
<1>6. PICK u \in Nat, d \in Nat, b \in Nat, p \in Nat :
        u = All(U, cU) /\ d = All(U, cD) /\ b = All(U, cB) /\ p = ParcelsIn(U, h, k)
  BY <1>1, <1>2
<1>7. n + u - d - b = m + p /\ u <= m + d /\ (p >= 1 \/ b >= 1)
  BY <1>3, <1>4, <1>5, <1>6
<1> QED BY <1>7

LEMMA Present ==
  ASSUME NEW U \in [Thread -> UserStates], \A t \in Thread : Backed(U[t]), NEW X,
         NEW h \in Handle, NEW r \in RefStates, RefOK(r),
         \A k \in BOOLEAN : Books(U, Counted(r, k), HaveIn(X, U, h, k), ParcelsIn(U, h, k), h, k),
         HaveIn(X, U, h, FALSE) >= 1
  PROVE  r.node # None
<1> SUFFICES ASSUME r.node = None PROVE FALSE
  OBVIOUS
<1>1. \A k \in BOOLEAN : Counted(r, k) = 0
  BY DEF RefOK, NoRef, Counted
<1>2. HaveIn(X, U, h, FALSE) \in Nat /\ ParcelsIn(U, h, FALSE) \in Nat
  BY HaveType
<1>3. 0 + All(U, Up(FALSE, h)) - All(U, Down(FALSE, h)) - All(U, Back(FALSE, h))
        = HaveIn(X, U, h, FALSE) + ParcelsIn(U, h, FALSE)
  BY <1>1 DEF Books, Agree
<1>4. ASSUME NEW c PROVE All(U, c) \in Nat
  <2>1. Thread \in SUBSET Thread
    OBVIOUS
  <2> QED BY <2>1, AllPlacesFinite DEF All
<1>5. All(U, Up(FALSE, h)) # 0
  <2>1. PICK u \in Nat, d \in Nat, b \in Nat :
          u = All(U, Up(FALSE, h)) /\ d = All(U, Down(FALSE, h)) /\ b = All(U, Back(FALSE, h))
    BY <1>4
  <2>2. PICK m \in Nat, p \in Nat : m = HaveIn(X, U, h, FALSE) /\ p = ParcelsIn(U, h, FALSE)
    BY <1>2
  <2>4. 0 + u - d - b = m + p /\ m >= 1
    BY <1>3, <2>1, <2>2
  <2>3. u # 0
    BY <2>4
  <2> QED BY <2>1, <2>3
<1>6. PICK t \in Thread : \E i \in DOMAIN U[t].out : U[t].out[i] = Up(FALSE, h)
  <2>1. Thread \in SUBSET Thread
    OBVIOUS
  <2>2. Cardinality(AllPlaces(U, Thread, Up(FALSE, h))) # 0
    BY <1>5 DEF All
  <2>3. \E t \in Thread : \E i \in DOMAIN U[t].out : U[t].out[i] = Up(FALSE, h)
    BY <2>1, <2>2, ElsewhereSome
  <2> QED BY <2>3
<1>7. PICK i \in DOMAIN U[t].out : U[t].out[i] = Up(FALSE, h)
  BY <1>6
<1>8. PICK k \in BOOLEAN : BackedBy(U[t], i, h, k)
  <2>1. Backed(U[t])
    OBVIOUS
  <2> QED BY <1>7, <2>1 DEF Backed
<1>9. i \in Nat
  <2>1. U[t].out \in Outs
    BY UserFields
  <2> QED BY <2>1 DEF Outs
<1>10. Counted(r, k) \in Nat /\ HaveIn(X, U, h, k) \in Nat
  BY HaveType, CountedType
<1>11. Books(U, Counted(r, k), HaveIn(X, U, h, k), ParcelsIn(U, h, k), h, k)
  OBVIOUS
<1>12. Counted(r, k) >= 1
  BY <1>8, <1>9, <1>10, <1>11, BackedCounts
<1> QED BY <1>1, <1>12

\* Every live proxy keeps the object that its handle names.
LEMMA NodeKept ==
  ASSUME IInv, KInv, ~overtaken, NEW p \in Proxy, proxy[p].at = "alive"
  PROVE  ref[proxy[p].handle].node # None
<1> DEFINE h == proxy[p].handle
<1>1. h \in Handle
  <2>1. ProxyOK(p)
    BY DEF IInv
  <2> QED BY <2>1 DEF ProxyOK
<1>2. HaveIn(proxy, user, h, FALSE) >= 1
  <2>1. KeptIn(proxy, user, h, FALSE) # {}
    BY DEF KeptIn
  <2>2. IsFiniteSet(KeptIn(proxy, user, h, FALSE)) /\ HaveIn(proxy, user, h, FALSE) \in Nat
    BY HaveType
  <2>3. HaveIn(proxy, user, h, FALSE) # 0
    BY <2>1, <2>2, FS_EmptySet DEF HaveIn
  <2>4. \A x \in Nat : x # 0 => x >= 1
    OBVIOUS
  <2> HIDE DEF h
  <2> QED BY <2>2, <2>3, <2>4
<1> HIDE DEF h
<1>3. /\ user \in [Thread -> UserStates] /\ \A t \in Thread : Backed(user[t])
      /\ ref[h] \in RefStates /\ RefOK(ref[h])
  BY <1>1 DEF IInv, KInv
<1>4. \A k \in BOOLEAN : Books(user, Counted(ref[h], k), HaveIn(proxy, user, h, k),
                               ParcelsIn(user, h, k), h, k)
  BY <1>1 DEF KInv, BooksOK
<1>5. ref[h].node # None
  BY <1>1, <1>2, <1>3, <1>4, Present
<1> QED BY <1>5 DEF h

-----------------------------------------------------------------------------
(* A buffer arrives. *)

LEMMA IncOK ==
  ASSUME NEW r \in RefStates, r.node # None, NEW k \in BOOLEAN
  PROVE  /\ Inc(r, k) \in RefStates /\ RefOK(Inc(r, k)) /\ Inc(r, k).node = r.node
         /\ Counted(Inc(r, k), k) = Counted(r, k) + 1
         /\ \A j \in BOOLEAN : j # k => Counted(Inc(r, k), j) = Counted(r, j)
<1>1. CASE k = TRUE
  <2>1. Inc(r, k) = [r EXCEPT !.strong = @ + 1]
    BY <1>1 DEF Inc, Count
  <2>2. /\ Inc(r, k) \in RefStates /\ Inc(r, k).node = r.node
        /\ Inc(r, k).strong = r.strong + 1 /\ Inc(r, k).weak = r.weak
    BY <2>1 DEF RefStates
  <2> QED BY <1>1, <2>2 DEF RefOK, Counted
<1>2. CASE k = FALSE
  <2>1. Inc(r, k) = [r EXCEPT !.weak = @ + 1]
    BY <1>2 DEF Inc, Count
  <2>2. /\ Inc(r, k) \in RefStates /\ Inc(r, k).node = r.node
        /\ Inc(r, k).weak = r.weak + 1 /\ Inc(r, k).strong = r.strong
    BY <2>1 DEF RefStates
  <2> QED BY <1>2, <2>2 DEF RefOK, Counted
<1> QED BY <1>1, <1>2

\* A count goes down, and with the last one the reference.
LEMMA DecOK ==
  ASSUME NEW r \in RefStates, r.node # None, NEW k \in BOOLEAN
  PROVE  /\ Dec(r, k) \in RefStates /\ RefOK(Dec(r, k)) /\ Dec(r, k).node \in {r.node, None}
         /\ Counted(r, k) >= 1 =>
              /\ Counted(Dec(r, k), k) = Counted(r, k) - 1
              /\ \A j \in BOOLEAN : j # k => Counted(Dec(r, k), j) = Counted(r, j)
<1> DEFINE left == Count(r, k, -1)
<1>1. NoRef \in RefStates /\ RefOK(NoRef) /\ NoRef.node = None /\ NoRef.strong = 0 /\ NoRef.weak = 0
  BY DEF NoRef, RefStates, RefOK
<1>2. CASE Counted(r, k) = 0
  <2>1. Dec(r, k) = r
    BY <1>2 DEF Dec, Counted
  <2> QED BY <1>2, <2>1 DEF RefOK
<1>3. CASE Counted(r, k) # 0
  <2>1. Counted(r, k) \in Nat /\ Counted(r, k) >= 1
    BY <1>3, CountedType
  <2>2. /\ left \in RefStates /\ left.node = r.node
        /\ Counted(left, k) = Counted(r, k) - 1
        /\ \A j \in BOOLEAN : j # k => Counted(left, j) = Counted(r, j)
    <3>1. CASE k = TRUE
      <4>1. left = [r EXCEPT !.strong = @ + (-1)]
        BY <3>1 DEF Count
      <4>2. r.strong \in Nat /\ r.strong >= 1 /\ r.strong + (-1) \in Nat
        BY <2>1, <3>1 DEF Counted
      <4>3. /\ left \in RefStates /\ left.node = r.node
            /\ left.strong = r.strong - 1 /\ left.weak = r.weak
        BY <4>1, <4>2 DEF RefStates
      <4> HIDE DEF left
      <4> QED BY <3>1, <4>3 DEF Counted
    <3>2. CASE k = FALSE
      <4>1. left = [r EXCEPT !.weak = @ + (-1)]
        BY <3>2 DEF Count
      <4>2. r.weak \in Nat /\ r.weak >= 1 /\ r.weak + (-1) \in Nat
        BY <2>1, <3>2 DEF Counted
      <4>3. /\ left \in RefStates /\ left.node = r.node
            /\ left.weak = r.weak - 1 /\ left.strong = r.strong
        BY <4>1, <4>2 DEF RefStates
      <4> HIDE DEF left
      <4> QED BY <3>2, <4>3 DEF Counted
    <3> QED BY <3>1, <3>2
  <2>3. Dec(r, k) = IF left.strong = 0 /\ left.weak = 0 THEN NoRef ELSE left
    BY <1>3 DEF Dec, Counted
  <2> HIDE DEF left
  <2>4. CASE left.strong = 0 /\ left.weak = 0
    <3>1. Dec(r, k) = NoRef
      BY <2>3, <2>4
    <3>2. \A j \in BOOLEAN : Counted(NoRef, j) = Counted(left, j)
      BY <1>1, <2>4 DEF Counted
    <3> QED BY <1>1, <2>2, <3>1, <3>2
  <2>5. CASE ~(left.strong = 0 /\ left.weak = 0)
    <3>1. Dec(r, k) = left
      BY <2>3, <2>5
    <3>2. RefOK(left)
      BY <2>2 DEF RefOK
    <3> QED BY <2>2, <3>1, <3>2
  <2> QED BY <2>4, <2>5
<1> QED BY <1>2, <1>3

LEMMA SendBooks ==
  ASSUME IInv, KInv, IInv', NEW n \in Node, NEW t \in Thread, NEW s \in BOOLEAN, Send(n, t, s)
  PROVE  KInv'
<1>1. PICK g \in Handle :
        /\ IsDescFor(g, n)
        /\ ref' = [ref EXCEPT ![g] = Inc([@ EXCEPT !.node = n], s)]
        /\ user' = [user EXCEPT ![t].parcel = [handle |-> g, strong |-> s]]
  BY DEF Send
<1> DEFINE old == [ref[g] EXCEPT !.node = n]
           got == [handle |-> g, strong |-> s]
           r == [user[t] EXCEPT !.parcel = got]
<1>2. /\ user[t] \in UserStates /\ user \in [Thread -> UserStates] /\ user[t].parcel = NoParcel
      /\ UNCHANGED <<proxy, overtaken>> /\ ref \in [Handle -> RefStates] /\ RefOK(ref[g])
      /\ ref[g] \in RefStates /\ n # None
  BY TableAssumption DEF IInv, Send, KInv
<1>3. /\ old \in RefStates /\ old.node = n
      /\ \A k \in BOOLEAN : Counted(old, k) = Counted(ref[g], k)
  BY <1>2 DEF RefStates, Counted
<1>4. /\ r \in UserStates /\ r.strongs = user[t].strongs
      /\ r.parcel = got /\ r.out = user[t].out
  BY <1>1, <1>2 DEF UserStates
<1>5. user' = [user EXCEPT ![t] = r]
  BY <1>1, <1>2
<1>6. got # NoParcel
  <2>1. got.handle \in Handle
    BY <1>1
  <2>2. NoParcel.handle \notin Handle
    BY TableAssumption DEF NoParcel, Handle
  <2> QED BY <2>1, <2>2
<1> DEFINE new == Inc(old, s)
<1>7. ref' = [ref EXCEPT ![g] = new]
  BY <1>1
<1> HIDE DEF r, old
<1>8. user'[t] = r /\ \A v \in Thread : v # t => user'[v] = user[v]
  BY <1>4, <1>5, Others
<1>9. /\ new \in RefStates /\ RefOK(new) /\ new.node = n
      /\ Counted(new, s) = Counted(ref[g], s) + 1
      /\ \A j \in BOOLEAN : j # s => Counted(new, j) = Counted(ref[g], j)
  <2>1. old.node # None
    BY <1>2, <1>3
  <2> QED BY <1>3, <2>1, IncOK
<1> HIDE DEF new
<1>10. /\ ref' \in [Handle -> RefStates] /\ ref'[g] = new
       /\ \A h \in Handle : h # g => ref'[h] = ref[h]
  BY <1>2, <1>7, <1>9
<1>11. \A h \in Handle : RefOK(ref'[h])
  BY <1>9, <1>10 DEF KInv
<1>12. ASSUME NEW u \in Thread PROVE Backed(user'[u])
  BY <1>2, <1>4, <1>8, BackedSame DEF KInv
<1>13. ASSUME ~overtaken, NEW p \in Proxy PROVE NodeOK(p)'
  <2>1. CASE proxy[p].at = "alive" /\ proxy[p].handle = g
    <3>1. ref[g].node # None /\ proxy[p].node = ref[g].node
      BY <1>13, <2>1, NodeKept DEF KInv, NodeOK
    <3>2. ref[g].node = n
      BY <1>1, <3>1 DEF IsDescFor
    <3> QED BY <1>2, <1>9, <1>10, <2>1, <3>1, <3>2 DEF NodeOK
  <2>2. CASE proxy[p].at = "alive" /\ proxy[p].handle # g
    <3>1. proxy[p].handle \in Handle
      <4>1. ProxyOK(p)
        BY DEF IInv
      <4> QED BY <2>2, <4>1 DEF ProxyOK
    <3>2. NodeOK(p)
      BY <1>13 DEF KInv
    <3> QED BY <1>2, <1>10, <2>2, <3>1, <3>2 DEF NodeOK
  <2>3. CASE proxy[p].at # "alive"
    BY <1>2, <2>3 DEF NodeOK
  <2> QED BY <2>1, <2>2, <2>3
<1>14. ASSUME ~overtaken, NEW h \in Handle, NEW k \in BOOLEAN PROVE BooksOK(h, k)'
  <2> DEFINE N == Counted(ref[h], k)
             m == HaveIn(proxy, user, h, k)
             q == ParcelsIn(user, h, k)
  <2>1. N \in Nat /\ m \in Nat /\ q \in Nat
    BY HaveType, CountedType DEF KInv
  <2>2. Books(user, N, m, q, h, k)
    BY <1>14 DEF KInv, BooksOK
  <2>3. user \in [Thread -> UserStates] /\ user' \in [Thread -> UserStates]
    BY DEF IInv
  <2>4. \A u \in Thread : user'[u].out = user[u].out /\ user'[u].strongs = user[u].strongs
    BY <1>4, <1>8
  <2>5. \A c : Adds(user[t].out, user'[t].out, c, 0)
    <3>1. user[t].out \in Outs
      BY <1>2, UserFields
    <3> QED BY <2>4, <3>1, AddsNothing
  <2>6. HaveIn(proxy', user', h, k) = m
    <3>1. KeptIn(proxy', user', h, k) = KeptIn(proxy, user, h, k)
      BY <1>2, <2>4 DEF KeptIn
    <3> QED BY <3>1 DEF HaveIn
  <2>7. \E e \in Nat : Counted(ref'[h], k) = N + e /\ ParcelsIn(user', h, k) = q + e
    <3>1. user[t].parcel # [handle |-> h, strong |-> k]
      <4>1. NoParcel.handle \notin Handle
        BY TableAssumption DEF NoParcel, Handle
      <4> QED BY <1>2, <4>1
    <3>2. \A v \in Thread : v # t => user'[v].parcel = user[v].parcel
      BY <1>8
    <3>3. CASE h = g /\ k = s
      <4>1. user'[t].parcel = [handle |-> h, strong |-> k]
        BY <1>4, <1>8, <3>3
      <4>2. ParcelsIn(user', h, k) = q + 1
        BY <3>1, <3>2, <4>1, ParcelsMore
      <4>3. Counted(ref'[h], k) = N + 1
        BY <1>9, <1>10, <3>3
      <4> QED BY <4>2, <4>3
    <3>4. CASE ~(h = g /\ k = s)
      <4>1. user'[t].parcel # [handle |-> h, strong |-> k]
        BY <1>4, <1>8, <3>4
      <4>2. ParcelsIn(user', h, k) = q
        BY <3>1, <3>2, <4>1, ParcelsSame
      <4>3. Counted(ref'[h], k) = N
        BY <1>9, <1>10, <3>4
      <4>4. Counted(ref'[h], k) = N + 0 /\ ParcelsIn(user', h, k) = q + 0
        BY <2>1, <4>2, <4>3
      <4> QED BY <4>4
    <3> QED BY <3>3, <3>4
  <2> HIDE DEF N, m, q
  <2>8. PICK e \in Nat : Counted(ref'[h], k) = N + e /\ ParcelsIn(user', h, k) = q + e
    BY <2>7
  <2>9. m + 0 - 0 >= 0 /\ m + 0 - 0 = m /\ q + e - 0 = q + e
    BY <2>1
  <2>10. \A u \in Thread : u # t => user'[u].out = user[u].out
    BY <2>4
  <2>11. /\ Adds(user[t].out, user'[t].out, Up(k, h), 0)
         /\ Adds(user[t].out, user'[t].out, Down(k, h), 0)
         /\ Adds(user[t].out, user'[t].out, Back(k, h), 0)
    BY <2>5
  <2>12. Books(user', N + e, m + 0 - 0, q + e - 0, h, k)
    BY <2>1, <2>2, <2>3, <2>9, <2>10, <2>11, WriteBooks
  <2>13. Books(user', Counted(ref'[h], k), HaveIn(proxy', user', h, k),
               ParcelsIn(user', h, k), h, k)
    BY <2>6, <2>8, <2>9, <2>12
  <2> QED BY <2>13 DEF BooksOK
<1> QED BY <1>2, <1>10, <1>11, <1>12, <1>13, <1>14 DEF KInv

-----------------------------------------------------------------------------
(* The driver executes what a thread sends. *)

LEMMA EveryCommand ==
  ASSUME NEW c \in [cmd : Commands, handle : Handle]
  PROVE  \E k \in BOOLEAN : c \in {Up(k, c.handle), Down(k, c.handle), Back(k, c.handle)}
<1>1. c = [cmd |-> c.cmd, handle |-> c.handle] /\ c.cmd \in Commands
  OBVIOUS
<1>2. /\ c.cmd = "BC_ACQUIRE" => c = Up(TRUE, c.handle)
      /\ c.cmd = "BC_INCREFS" => c = Up(FALSE, c.handle)
      /\ c.cmd = "BC_RELEASE" => c = Down(TRUE, c.handle)
      /\ c.cmd = "BC_DECREFS" => c = Down(FALSE, c.handle)
      /\ c.cmd = "BC_FREE_BUFFER" => c = Back(TRUE, c.handle)
      /\ c.cmd = "BC_FREE_BUFFER_WEAK" => c = Back(FALSE, c.handle)
  BY <1>1 DEF Up, Down, Back, Command
<1>3. \/ c.cmd = "BC_ACQUIRE" \/ c.cmd = "BC_INCREFS" \/ c.cmd = "BC_RELEASE"
      \/ c.cmd = "BC_DECREFS" \/ c.cmd = "BC_FREE_BUFFER" \/ c.cmd = "BC_FREE_BUFFER_WEAK"
  BY <1>1 DEF Commands
<1> QED BY <1>2, <1>3

\* What one command does to its reference.
LEMMA ExecuteUp ==
  ASSUME NEW refs \in [Handle -> RefStates], NEW h \in Handle, NEW k \in BOOLEAN
  PROVE  Execute(refs, Up(k, h)) =
           IF refs[h].node = None \/ (k /\ refs[h].strong = 0) THEN refs
           ELSE [refs EXCEPT ![h] = Inc(refs[h], k)]
<1>1. /\ Up(k, h).handle = h /\ Up(k, h).cmd \in {"BC_INCREFS", "BC_ACQUIRE"}
      /\ (Up(k, h).cmd \in {"BC_ACQUIRE", "BC_RELEASE", "BC_FREE_BUFFER"}) = k
  BY DEF Up, Command
<1> QED BY <1>1 DEF Execute

LEMMA ExecuteDown ==
  ASSUME NEW refs \in [Handle -> RefStates], NEW h \in Handle, NEW k \in BOOLEAN,
         NEW c \in {Down(k, h), Back(k, h)}
  PROVE  Execute(refs, c) =
           IF refs[h].node = None \/ (k /\ refs[h].strong = 0) THEN refs
           ELSE [refs EXCEPT ![h] = Dec(refs[h], k)]
<1>1. /\ c.handle = h /\ c.cmd \notin {"BC_INCREFS", "BC_ACQUIRE"}
      /\ (c.cmd \in {"BC_ACQUIRE", "BC_RELEASE", "BC_FREE_BUFFER"}) = k
  BY DEF Down, Back, Command
<1> QED BY <1>1 DEF Execute

RefsOK(refs) == refs \in [Handle -> RefStates] /\ \A h \in Handle : RefOK(refs[h])

LEMMA ExecuteOK ==
  ASSUME NEW refs, RefsOK(refs), NEW c \in [cmd : Commands, handle : Handle]
  PROVE  /\ RefsOK(Execute(refs, c))
         /\ \A h \in Handle : /\ h # c.handle => Execute(refs, c)[h] = refs[h]
                              /\ Execute(refs, c)[h].node \in {refs[h].node, None}
<1> DEFINE g == c.handle
           r == refs[g]
<1>1. g \in Handle /\ refs \in [Handle -> RefStates] /\ r \in RefStates
      /\ \A h \in Handle : RefOK(refs[h])
  BY DEF RefsOK
<1>2. ASSUME NEW s \in RefStates, RefOK(s), s.node \in {r.node, None},
             Execute(refs, c) = [refs EXCEPT ![g] = s]
      PROVE  /\ RefsOK(Execute(refs, c))
             /\ \A h \in Handle : /\ h # g => Execute(refs, c)[h] = refs[h]
                                  /\ Execute(refs, c)[h].node \in {refs[h].node, None}
  <2> DEFINE X == [refs EXCEPT ![g] = s]
  <2>1. /\ X \in [Handle -> RefStates] /\ X[g] = s
        /\ \A h \in Handle : h # g => X[h] = refs[h]
    BY <1>1, <1>2
  <2> HIDE DEF X
  <2>2. \A h \in Handle : RefOK(X[h]) /\ X[h].node \in {refs[h].node, None}
    BY <1>1, <1>2, <2>1
  <2>3. Execute(refs, c) = X
    BY <1>2 DEF X
  <2> QED BY <2>1, <2>2, <2>3 DEF RefsOK
<1>3. CASE Execute(refs, c) = refs
  BY <1>1, <1>3
<1>4. PICK k \in BOOLEAN : c \in {Up(k, g), Down(k, g), Back(k, g)}
  BY EveryCommand
<1>5. CASE ~(r.node = None \/ (k /\ r.strong = 0))
  <2>1. CASE c = Up(k, g)
    <3>1. Execute(refs, Up(k, g)) = [refs EXCEPT ![g] = Inc(r, k)]
      BY <1>1, <1>5, ExecuteUp
    <3>2. Inc(r, k) \in RefStates /\ RefOK(Inc(r, k)) /\ Inc(r, k).node \in {r.node, None}
      BY <1>1, <1>5, IncOK
    <3> HIDE DEF g, r
    <3>3. Execute(refs, c) = [refs EXCEPT ![g] = Inc(r, k)]
      BY <2>1, <3>1
    <3> QED BY <1>2, <3>2, <3>3 DEF g
  <2>2. CASE c \in {Down(k, g), Back(k, g)}
    <3>1. Execute(refs, c) = [refs EXCEPT ![g] = Dec(r, k)]
      BY <1>1, <1>5, <2>2, ExecuteDown
    <3>2. Dec(r, k) \in RefStates /\ RefOK(Dec(r, k)) /\ Dec(r, k).node \in {r.node, None}
      BY <1>1, <1>5, DecOK
    <3> HIDE DEF g, r
    <3> QED BY <1>2, <3>1, <3>2 DEF g
  <2> QED BY <1>4, <2>1, <2>2
<1>6. CASE r.node = None \/ (k /\ r.strong = 0)
  <2>1. CASE c = Up(k, g)
    <3>1. Execute(refs, Up(k, g)) = refs
      BY <1>1, <1>6, ExecuteUp
    <3> QED BY <1>3, <2>1, <3>1
  <2>2. CASE c \in {Down(k, g), Back(k, g)}
    <3>1. Execute(refs, c) = refs
      BY <1>1, <1>6, <2>2, ExecuteDown
    <3> QED BY <1>3, <3>1
  <2> QED BY <1>4, <2>1, <2>2
<1> QED BY <1>5, <1>6

\* How the count of h of kind k changes, where the commands are in order.
LEMMA ExecuteCounts ==
  ASSUME NEW refs, RefsOK(refs), NEW h \in Handle, NEW k \in BOOLEAN
  PROVE  /\ refs[h].node # None /\ (k => refs[h].strong >= 1) =>
              /\ Counted(Execute(refs, Up(k, h))[h], k) = Counted(refs[h], k) + 1
              /\ \A j \in BOOLEAN : j # k =>
                   Counted(Execute(refs, Up(k, h))[h], j) = Counted(refs[h], j)
         /\ Counted(refs[h], k) >= 1 => \A c \in {Down(k, h), Back(k, h)} :
              /\ Counted(Execute(refs, c)[h], k) = Counted(refs[h], k) - 1
              /\ \A j \in BOOLEAN : j # k => Counted(Execute(refs, c)[h], j) = Counted(refs[h], j)
<1>1. refs \in [Handle -> RefStates] /\ refs[h] \in RefStates /\ RefOK(refs[h])
  BY DEF RefsOK
<1>2. ASSUME refs[h].node # None, k => refs[h].strong >= 1
      PROVE  /\ Counted(Execute(refs, Up(k, h))[h], k) = Counted(refs[h], k) + 1
             /\ \A j \in BOOLEAN : j # k =>
                  Counted(Execute(refs, Up(k, h))[h], j) = Counted(refs[h], j)
  <2>1. ~(refs[h].node = None \/ (k /\ refs[h].strong = 0))
    <3>1. k => refs[h].strong # 0
      BY <1>2
    <3> QED BY <1>2, <3>1
  <2>2. Execute(refs, Up(k, h)) = [refs EXCEPT ![h] = Inc(refs[h], k)]
    BY <1>1, <2>1, ExecuteUp
  <2>3. Execute(refs, Up(k, h))[h] = Inc(refs[h], k)
    BY <1>1, <2>2
  <2> QED BY <1>1, <1>2, <2>3, IncOK
<1>3. ASSUME Counted(refs[h], k) >= 1, NEW c \in {Down(k, h), Back(k, h)}
      PROVE  /\ Counted(Execute(refs, c)[h], k) = Counted(refs[h], k) - 1
             /\ \A j \in BOOLEAN : j # k => Counted(Execute(refs, c)[h], j) = Counted(refs[h], j)
  <2>1. refs[h].node # None
    <3>1. \A j \in BOOLEAN : Counted(NoRef, j) = 0
      BY DEF NoRef, Counted
    <3>2. refs[h] # NoRef
      BY <1>3, <3>1
    <3> QED BY <1>1, <3>2 DEF RefOK
  <2>2. ~(k /\ refs[h].strong = 0)
    BY <1>3 DEF Counted
  <2>3. Execute(refs, c) = [refs EXCEPT ![h] = Dec(refs[h], k)]
    BY <1>1, <2>1, <2>2, ExecuteDown
  <2>4. Execute(refs, c)[h] = Dec(refs[h], k)
    BY <1>1, <2>3
  <2> QED BY <1>1, <1>3, <2>1, <2>4, DecOK
<1> QED BY <1>2, <1>3

LEMMA RunOK ==
  ASSUME NEW refs, RefsOK(refs), NEW out \in Outs, NEW run, Trace(run, refs, out)
  PROVE  \A i \in 0..Len(out) :
           RefsOK(run[i]) /\ \A h \in Handle : run[i][h].node \in {refs[h].node, None}
<1> DEFINE P(i) == RefsOK(run[i]) /\ \A h \in Handle : run[i][h].node \in {refs[h].node, None}
           S == {i \in Nat : i <= Len(out) => P(i)}
<1>1. Len(out) \in Nat /\ DOMAIN out = 1..Len(out)
      /\ \A i \in 1..Len(out) : out[i] \in [cmd : Commands, handle : Handle]
  <2> DEFINE C == [cmd : Commands, handle : Handle]
  <2>1. out \in Seq(C)
    BY DEF Outs
  <2> HIDE DEF C
  <2>2. Len(out) \in Nat /\ DOMAIN out = 1..Len(out) /\ \A i \in 1..Len(out) : out[i] \in C
    BY <2>1
  <2> QED BY <2>2 DEF C
<1>2. 0 \in S
  BY DEF Trace
<1>3. ASSUME NEW n \in Nat, n \in S PROVE n + 1 \in S
  <2>1. SUFFICES ASSUME n + 1 <= Len(out) PROVE P(n + 1)
    OBVIOUS
  <2>2. n <= Len(out) /\ n + 1 \in 1..Len(out) /\ (n + 1) - 1 = n
    BY <1>1, <2>1
  <2>3. P(n)
    BY <1>3, <2>2
  <2>4. run[n + 1] = Execute(run[n], out[n + 1]) /\ out[n + 1] \in [cmd : Commands, handle : Handle]
    BY <1>1, <2>2 DEF Trace
  <2>5. RefsOK(Execute(run[n], out[n + 1])) /\ \A h \in Handle :
          Execute(run[n], out[n + 1])[h].node \in {run[n][h].node, None}
    BY <2>3, <2>4, ExecuteOK
  <2> QED BY <2>3, <2>4, <2>5
<1> HIDE DEF S
<1>4. \A n \in Nat : n \in S
  BY <1>2, <1>3, CountUp
<1>5. \A i \in 0..Len(out) : i \in Nat /\ i <= Len(out)
  BY <1>1
<1> QED BY <1>4, <1>5 DEF S

\* CountAt, one command further.
LEMMA CountNext ==
  ASSUME NEW out \in Outs, NEW i \in Nat, i < Len(out), NEW n \in Nat,
         NEW h \in Handle, NEW k \in BOOLEAN
  PROVE  /\ CountAt(n, out, i, h, k) \in Int
         /\ out[i + 1] = Up(k, h) => CountAt(n, out, i + 1, h, k) = CountAt(n, out, i, h, k) + 1
         /\ out[i + 1] \in {Down(k, h), Back(k, h)} =>
              CountAt(n, out, i + 1, h, k) = CountAt(n, out, i, h, k) - 1
         /\ out[i + 1] \notin {Up(k, h), Down(k, h), Back(k, h)} =>
              CountAt(n, out, i + 1, h, k) = CountAt(n, out, i, h, k)
<1> DEFINE cU == Up(k, h)
           cD == Down(k, h)
           cB == Back(k, h)
<1> HIDE DEF cU, cD, cB
<1>1. i + 1 \in Nat
  OBVIOUS
<1>2. \A c : \A j \in Nat : Waits(out, j, c) \in Nat
  BY PlacesFinite
<1>3. PICK u0 \in Nat, d0 \in Nat, b0 \in Nat, u \in Nat, d \in Nat, b \in Nat,
           v \in Nat, e \in Nat, a \in Nat :
        /\ u0 = Waits(out, 0, cU) /\ d0 = Waits(out, 0, cD) /\ b0 = Waits(out, 0, cB)
        /\ u = Waits(out, i, cU) /\ d = Waits(out, i, cD) /\ b = Waits(out, i, cB)
        /\ v = Waits(out, i + 1, cU) /\ e = Waits(out, i + 1, cD) /\ a = Waits(out, i + 1, cB)
  BY <1>1, <1>2
<1>4. /\ CountAt(n, out, i, h, k) = n + (u0 - u) - (d0 - d) - (b0 - b)
      /\ CountAt(n, out, i + 1, h, k) = n + (u0 - v) - (d0 - e) - (b0 - a)
  BY <1>3 DEF CountAt, cU, cD, cB
<1>5. /\ out[i + 1] = cU => u = v + 1
      /\ out[i + 1] # cU => u = v
      /\ out[i + 1] = cD => d = e + 1
      /\ out[i + 1] # cD => d = e
      /\ out[i + 1] = cB => b = a + 1
      /\ out[i + 1] # cB => b = a
  <2>1. ASSUME NEW c
        PROVE  /\ out[i + 1] = c => Waits(out, i, c) = Waits(out, i + 1, c) + 1
               /\ out[i + 1] # c => Waits(out, i, c) = Waits(out, i + 1, c)
    BY PlacesNext
  <2> QED BY <1>3, <2>1
<1>6. cU # cD /\ cU # cB /\ cD # cB
  BY CommandsDiffer DEF cU, cD, cB
<1> DEFINE A == CountAt(n, out, i, h, k)
           B == CountAt(n, out, i + 1, h, k)
<1> HIDE DEF A, B
<1>7. A = n + (u0 - u) - (d0 - d) - (b0 - b) /\ B = n + (u0 - v) - (d0 - e) - (b0 - a)
  BY <1>4 DEF A, B
<1>8. A \in Int
  BY <1>7
<1>9. out[i + 1] = cU => B = A + 1
  BY <1>5, <1>6, <1>7
<1>10. out[i + 1] = cD \/ out[i + 1] = cB => B = A - 1
  BY <1>5, <1>6, <1>7
<1>11. out[i + 1] # cU /\ out[i + 1] # cD /\ out[i + 1] # cB => B = A
  BY <1>5, <1>7
<1> QED BY <1>8, <1>9, <1>10, <1>11 DEF A, B, cU, cD, cB

-----------------------------------------------------------------------------
(* If its decrements overtake no increment, every command that a thread    *)
(* sends finds the count that it needs.                                    *)

LEMMA Available ==
  ASSUME IInv, KInv, ~overtaken, NEW t \in Thread, NEW h \in Handle, NEW k \in BOOLEAN,
         InTime(user, t, h, k), NEW i \in Nat, i < Len(user[t].out)
  PROVE  /\ CountAt(Counted(ref[h], k), user[t].out, i, h, k) \in Nat
         /\ BackedBy(user[t], i + 1, h, k) \/ user[t].out[i + 1] \in {Down(k, h), Back(k, h)} =>
              CountAt(Counted(ref[h], k), user[t].out, i, h, k) >= 1
<1> DEFINE n == Counted(ref[h], k)
           m == HaveIn(proxy, user, h, k)
           p == ParcelsIn(user, h, k)
           out == user[t].out
           N == CountAt(n, out, i, h, k)
           cB == Back(k, h)
<1>1. n \in Nat /\ m \in Nat /\ p \in Nat
  BY HaveType, CountedType DEF KInv
<1>2. user \in [Thread -> UserStates] /\ Books(user, n, m, p, h, k)
  BY DEF IInv, KInv, BooksOK
<1>3. out \in Outs /\ Len(out) \in Nat /\ DOMAIN out = 1..Len(out)
  <2>1. out \in Outs
    BY <1>2, UserFields
  <2> HIDE DEF out
  <2> QED BY <2>1 DEF Outs
<1>4. i \in 0..Len(user[t].out)
  BY <1>3
<1> HIDE DEF n, m, p
<1>5. /\ N \in Nat /\ N >= p + Elsewhere(user, t, cB) + Waits(out, i, cB)
      /\ out[i + 1] = Down(k, h) => N >= 1
  BY <1>1, <1>2, <1>4, CountCovers
<1> HIDE DEF out, N, cB
<1>6. Elsewhere(user, t, cB) \in Nat /\ Waits(out, i, cB) \in Nat
  BY <1>2, <1>3, AllPlacesSplit, PlacesFinite
<1>7. p >= 1 \/ Waits(out, i, cB) >= 1 => N >= 1
  <2>1. PICK x \in Nat, y \in Nat : x = Elsewhere(user, t, cB) /\ y = Waits(out, i, cB)
    BY <1>6
  <2>2. N >= p + x + y
    BY <1>5, <2>1
  <2>3. p >= 1 \/ y >= 1 => N >= 1
    BY <1>1, <1>5, <2>2
  <2> QED BY <2>1, <2>3
<1>8. ASSUME BackedBy(user[t], i + 1, h, k) PROVE N >= 1
  <2>1. CASE user[t].parcel = [handle |-> h, strong |-> k]
    <3>1. p >= 1
      BY <2>1, ParcelsSome DEF p
    <3> QED BY <1>7, <3>1
  <2>2. CASE \E j \in DOMAIN out : j > i + 1 /\ out[j] = cB
    <3>1. PICK j \in DOMAIN out : j > i + 1 /\ out[j] = cB
      BY <2>2
    <3>2. j > i
      BY <1>3, <3>1
    <3>3. Waits(out, i, cB) >= 1
      BY <1>3, <3>1, <3>2, PlacesSome
    <3> QED BY <1>7, <3>3
  <2> QED BY <1>8, <2>1, <2>2 DEF BackedBy, out, cB
<1>9. ASSUME out[i + 1] = cB PROVE N >= 1
  <2>1. i + 1 \in DOMAIN out /\ i + 1 > i
    BY <1>3 DEF out
  <2>2. Waits(out, i, cB) >= 1
    BY <1>3, <1>9, <2>1, PlacesSome
  <2> QED BY <1>7, <2>2
<1> QED BY <1>5, <1>8, <1>9 DEF N, n, out, cB

LEMMA RunCounts ==
  ASSUME IInv, KInv, ~overtaken, NEW t \in Thread,
         \A h \in Handle, k \in BOOLEAN : InTime(user, t, h, k),
         NEW run, Trace(run, ref, user[t].out)
  PROVE  \A i \in 0..Len(user[t].out) : \A h \in Handle, k \in BOOLEAN :
           Counted(run[i][h], k) = CountAt(Counted(ref[h], k), user[t].out, i, h, k)
<1> DEFINE out == user[t].out
           P(i) == \A h \in Handle, k \in BOOLEAN :
                     Counted(run[i][h], k) = CountAt(Counted(ref[h], k), out, i, h, k)
           S == {i \in Nat : i <= Len(out) => P(i)}
<1>1. out \in Outs
  BY UserFields DEF IInv
<1>2. Len(out) \in Nat /\ DOMAIN out = 1..Len(out)
      /\ \A i \in 1..Len(out) : out[i] \in [cmd : Commands, handle : Handle]
  <2> DEFINE C == [cmd : Commands, handle : Handle]
  <2>1. out \in Seq(C)
    BY <1>1 DEF Outs
  <2> HIDE DEF C, out
  <2>2. Len(out) \in Nat /\ DOMAIN out = 1..Len(out) /\ \A i \in 1..Len(out) : out[i] \in C
    BY <2>1
  <2> QED BY <2>2 DEF C
<1>3. RefsOK(ref)
  BY DEF KInv, RefsOK
<1>4. \A i \in 0..Len(out) : RefsOK(run[i])
  BY <1>1, <1>3, RunOK
<1>5. ASSUME NEW h \in Handle, NEW k \in BOOLEAN PROVE Counted(ref[h], k) \in Nat
  BY CountedType DEF KInv
<1>6. 0 \in S
  <2>1. ASSUME NEW h \in Handle, NEW k \in BOOLEAN
        PROVE  CountAt(Counted(ref[h], k), out, 0, h, k) = Counted(ref[h], k)
    <3>1. \A c : Waits(out, 0, c) \in Nat
      BY <1>1, PlacesFinite
    <3>2. PICK u \in Nat, d \in Nat, b \in Nat, n \in Nat :
            /\ u = Waits(out, 0, Up(k, h)) /\ d = Waits(out, 0, Down(k, h))
            /\ b = Waits(out, 0, Back(k, h)) /\ n = Counted(ref[h], k)
      BY <1>5, <3>1
    <3>3. n + (u - u) - (d - d) - (b - b) = n
      OBVIOUS
    <3>4. CountAt(n, out, 0, h, k) = n
      BY <3>2, <3>3 DEF CountAt
    <3> QED BY <3>2, <3>4
  <2>2. run[0] = ref
    BY DEF Trace
  <2> QED BY <2>1, <2>2
<1>7. ASSUME NEW i \in Nat, i \in S PROVE i + 1 \in S
  <2>1. SUFFICES ASSUME i + 1 <= Len(out) PROVE P(i + 1)
    OBVIOUS
  <2>2. i < Len(out) /\ i \in 0..Len(out) /\ i + 1 \in 1..Len(out) /\ (i + 1) - 1 = i
    BY <1>2, <2>1
  <2> DEFINE c == out[i + 1]
             g == c.handle
             R == run[i]
  <2>3. P(i) /\ RefsOK(R)
    BY <1>4, <1>7, <2>2
  <2>4. run[i + 1] = Execute(R, c) /\ c \in [cmd : Commands, handle : Handle]
    BY <1>2, <2>2 DEF Trace
  <2>5. g \in Handle
    BY <2>4
  <2>6. PICK j \in BOOLEAN : c \in {Up(j, g), Down(j, g), Back(j, g)}
    BY <2>4, EveryCommand
  <2>7. ASSUME NEW k \in BOOLEAN
        PROVE  /\ Counted(R[g], k) \in Nat
               /\ BackedBy(user[t], i + 1, g, k) \/ c \in {Down(k, g), Back(k, g)} =>
                    Counted(R[g], k) >= 1
    <3>1. InTime(user, t, g, k)
      BY <2>5
    <3>2. Counted(R[g], k) = CountAt(Counted(ref[g], k), out, i, g, k)
      BY <2>3, <2>5
    <3> QED BY <2>2, <2>5, <3>1, <3>2, Available
  <2>8. ASSUME NEW k \in BOOLEAN, Counted(R[g], k) >= 1 PROVE R[g].node # None
    <3>1. Counted(NoRef, k) = 0
      BY DEF NoRef, Counted
    <3>2. R[g] # NoRef
      BY <2>8, <3>1
    <3> QED BY <2>3, <2>5, <3>2 DEF RefsOK, RefOK
  <2>9. ASSUME c = Up(j, g) PROVE R[g].node # None /\ (j => R[g].strong >= 1)
    <3>1. Backed(user[t]) /\ i + 1 \in DOMAIN user[t].out
      BY <1>2, <2>2 DEF KInv
    <3>2. CASE j = TRUE
      <4>1. BackedBy(user[t], i + 1, g, TRUE)
        BY <2>5, <2>9, <3>1, <3>2 DEF Backed
      <4>2. Counted(R[g], TRUE) >= 1
        BY <2>7, <4>1
      <4> QED BY <2>8, <4>2 DEF Counted
    <3>3. CASE j = FALSE
      <4>1. PICK k \in BOOLEAN : BackedBy(user[t], i + 1, g, k)
        BY <2>5, <2>9, <3>1, <3>3 DEF Backed
      <4>2. Counted(R[g], k) >= 1
        BY <2>7, <4>1
      <4> QED BY <2>8, <3>3, <4>2
    <3> QED BY <3>2, <3>3
  <2>10. ASSUME NEW h \in Handle, NEW k \in BOOLEAN
         PROVE  Counted(run[i + 1][h], k) = CountAt(Counted(ref[h], k), out, i + 1, h, k)
    <3> DEFINE n == Counted(ref[h], k)
    <3>1. n \in Nat
      BY <1>5
    <3>2. Counted(R[h], k) = CountAt(n, out, i, h, k)
      BY <2>3
    <3> HIDE DEF n, R
    <3>3. /\ c = Up(k, h) => CountAt(n, out, i + 1, h, k) = CountAt(n, out, i, h, k) + 1
          /\ c \in {Down(k, h), Back(k, h)} =>
               CountAt(n, out, i + 1, h, k) = CountAt(n, out, i, h, k) - 1
          /\ c \notin {Up(k, h), Down(k, h), Back(k, h)} =>
               CountAt(n, out, i + 1, h, k) = CountAt(n, out, i, h, k)
      <4>1. out \in Outs /\ i < Len(out)
        BY <1>1, <2>2
      <4> HIDE DEF out, g
      <4>2. /\ out[i + 1] = Up(k, h) =>
                 CountAt(n, out, i + 1, h, k) = CountAt(n, out, i, h, k) + 1
            /\ out[i + 1] \in {Down(k, h), Back(k, h)} =>
                 CountAt(n, out, i + 1, h, k) = CountAt(n, out, i, h, k) - 1
            /\ out[i + 1] \notin {Up(k, h), Down(k, h), Back(k, h)} =>
                 CountAt(n, out, i + 1, h, k) = CountAt(n, out, i, h, k)
        BY <3>1, <4>1, CountNext
      <4> QED BY <4>2
    <3> HIDE DEF out, c, g
    <3>4. CASE h = g /\ k = j
      <4>1. CASE c = Up(k, h)
        <5>1. R[h].node # None /\ (k => R[h].strong >= 1)
          BY <2>9, <3>4, <4>1
        <5>2. Counted(Execute(R, Up(k, h))[h], k) = Counted(R[h], k) + 1
          BY <2>3, <5>1, ExecuteCounts
        <5> QED BY <2>4, <3>2, <3>3, <4>1, <5>2 DEF n
      <4>2. CASE c \in {Down(k, h), Back(k, h)}
        <5>1. Counted(R[h], k) >= 1
          BY <2>7, <3>4, <4>2
        <5>2. Counted(Execute(R, c)[h], k) = Counted(R[h], k) - 1
          BY <2>3, <4>2, <5>1, ExecuteCounts
        <5> QED BY <2>4, <3>2, <3>3, <4>2, <5>2 DEF n
      <4> QED BY <2>6, <3>4, <4>1, <4>2
    <3>5. CASE ~(h = g /\ k = j)
      <4>1. c \notin {Up(k, h), Down(k, h), Back(k, h)}
        <5>1. /\ Up(j, g) # Up(k, h) /\ Up(j, g) # Down(k, h) /\ Up(j, g) # Back(k, h)
              /\ Down(j, g) # Up(k, h) /\ Down(j, g) # Down(k, h) /\ Down(j, g) # Back(k, h)
              /\ Back(j, g) # Up(k, h) /\ Back(j, g) # Down(k, h) /\ Back(j, g) # Back(k, h)
          BY <3>5, CommandsDiffer
        <5> QED BY <2>6, <5>1
      <4>2. Counted(run[i + 1][h], k) = Counted(R[h], k)
        <5>1. CASE h # g
          <6>1. Execute(R, c)[h] = R[h]
            BY <2>3, <2>4, <5>1, ExecuteOK DEF g
          <6> QED BY <2>4, <6>1
        <5>2. CASE h = g
          <6>1. k # j
            BY <3>5, <5>2
          <6>2. CASE c = Up(j, g)
            <7>1. R[h].node # None /\ (j => R[h].strong >= 1)
              BY <2>9, <5>2, <6>2
            <7>2. Counted(Execute(R, Up(j, h))[h], k) = Counted(R[h], k)
              BY <2>3, <6>1, <7>1, ExecuteCounts
            <7> QED BY <2>4, <5>2, <6>2, <7>2
          <6>3. CASE c \in {Down(j, g), Back(j, g)}
            <7>1. Counted(R[h], j) >= 1 /\ c \in {Down(j, h), Back(j, h)}
              BY <2>7, <5>2, <6>3
            <7>2. Counted(Execute(R, c)[h], k) = Counted(R[h], k)
              BY <2>3, <6>1, <7>1, ExecuteCounts
            <7> QED BY <2>4, <7>2
          <6> QED BY <2>6, <6>2, <6>3
        <5> QED BY <5>1, <5>2
      <4> QED BY <3>2, <3>3, <4>1, <4>2 DEF n
    <3> QED BY <3>4, <3>5
  <2> QED BY <2>10
<1> HIDE DEF S
<1>8. \A i \in Nat : i \in S
  BY <1>6, <1>7, CountUp
<1>9. \A i \in 0..Len(out) : i \in Nat /\ i <= Len(out)
  BY <1>2
<1> QED BY <1>8, <1>9 DEF S

-----------------------------------------------------------------------------

LEMMA NotOvertaken ==
  ASSUME IInv, NEW t \in Thread, Flush(t), ~overtaken', NEW h \in Handle, NEW k \in BOOLEAN
  PROVE  ~overtaken /\ InTime(user, t, h, k)
<1>1. ~overtaken /\ \A u \in Thread \ {t} :
        ~(Waiting(t, Commands \ Increments, h) /\ Waiting(u, Increments, h))
  BY DEF Flush
<1>2. user[t].out \in Outs /\ user \in [Thread -> UserStates]
  BY UserFields DEF IInv
<1>3. ASSUME Waits(user[t].out, 0, Down(k, h)) # 0 PROVE Elsewhere(user, t, Up(k, h)) = 0
  <2>1. \E j \in DOMAIN user[t].out : user[t].out[j] = Down(k, h)
    BY <1>2, <1>3, PlacesSome
  <2>2. /\ Down(k, h).cmd \in Commands \ Increments /\ Down(k, h).handle = h
        /\ Up(k, h).cmd \in Increments /\ Up(k, h).handle = h
    BY DEF Up, Down, Command, Commands, Increments
  <2>3. Waiting(t, Commands \ Increments, h)
    BY <2>1, <2>2 DEF Waiting
  <2>4. ~\E u \in Thread \ {t} : \E j \in DOMAIN user[u].out : user[u].out[j] = Up(k, h)
    BY <1>1, <2>2, <2>3 DEF Waiting
  <2>5. Thread \ {t} \in SUBSET Thread
    OBVIOUS
  <2>6. Cardinality(AllPlaces(user, Thread \ {t}, Up(k, h))) # 0 =>
          \E u \in Thread \ {t} : \E j \in DOMAIN user[u].out : user[u].out[j] = Up(k, h)
    BY <1>2, <2>5, ElsewhereSome
  <2> QED BY <2>4, <2>6 DEF Elsewhere
<1> QED BY <1>1, <1>3 DEF InTime

LEMMA FlushKeepsBooks ==
  ASSUME IInv, KInv, IInv', NEW t \in Thread, Flush(t)
  PROVE  KInv'
<1> DEFINE out == user[t].out
           r == [user[t] EXCEPT !.out = <<>>]
<1>1. /\ user[t] \in UserStates
      /\ user \in [Thread -> UserStates] /\ user' \in [Thread -> UserStates]
      /\ ref' = FoldLeft(Execute, ref, out) /\ UNCHANGED proxy
      /\ user' = [user EXCEPT ![t].out = <<>>]
  BY DEF IInv, Flush
<1>2. /\ r \in UserStates /\ r.strongs = user[t].strongs
      /\ r.parcel = user[t].parcel /\ r.out = <<>>
  <2>1. <<>> \in Seq([cmd : Commands, handle : Handle])
    OBVIOUS
  <2> QED BY <1>1, <2>1 DEF UserStates
<1>3. user' = [user EXCEPT ![t] = r]
  BY <1>1
<1> HIDE DEF r
<1>4. user'[t] = r /\ \A v \in Thread : v # t => user'[v] = user[v]
  BY <1>2, <1>3, Others
<1>5. /\ user'[t].out = <<>> /\ \A v \in Thread : v # t => user'[v].out = user[v].out
      /\ \A v \in Thread : user'[v].parcel = user[v].parcel /\ user'[v].strongs = user[v].strongs
  BY <1>2, <1>4
<1>6. out \in Outs
  BY <1>1, UserFields
<1>7. Len(out) \in Nat /\ DOMAIN out = 1..Len(out)
  <2> HIDE DEF out
  <2> QED BY <1>6 DEF Outs
<1>8. PICK run : Trace(run, ref, out) /\ ref' = run[Len(out)]
  <2> HIDE DEF out
  <2>1. \E run : Trace(run, ref, out) /\ FoldLeft(Execute, ref, out) = run[Len(out)]
    BY <1>7, FoldIsTrace
  <2> QED BY <1>1, <2>1
<1>9. Len(out) \in 0..Len(out)
  BY <1>7
<1>10. RefsOK(ref') /\ \A h \in Handle : ref'[h].node \in {ref[h].node, None}
  <2>1. RefsOK(ref)
    BY DEF KInv, RefsOK
  <2> HIDE DEF out
  <2>2. \A i \in 0..Len(out) :
          RefsOK(run[i]) /\ \A h \in Handle : run[i][h].node \in {ref[h].node, None}
    BY <1>6, <1>8, <2>1, RunOK
  <2> QED BY <1>8, <1>9, <2>2
<1>11. ASSUME NEW u \in Thread PROVE Backed(user'[u])
  <2>1. CASE u = t
    <3>1. DOMAIN user'[u].out = {}
      BY <1>5, <2>1
    <3> QED BY <3>1 DEF Backed
  <2>2. CASE u # t
    BY <1>4, <2>2 DEF KInv
  <2> QED BY <2>1, <2>2
<1>12. ASSUME ~overtaken', NEW h \in Handle, NEW k \in BOOLEAN PROVE BooksOK(h, k)'
  <2> DEFINE n == Counted(ref[h], k)
             m == HaveIn(proxy, user, h, k)
             p == ParcelsIn(user, h, k)
  <2>1. ~overtaken /\ \A g \in Handle, j \in BOOLEAN : InTime(user, t, g, j)
    BY <1>12, NotOvertaken
  <2>2. n \in Nat /\ m \in Nat /\ p \in Nat
    BY HaveType, CountedType DEF KInv
  <2>3. Books(user, n, m, p, h, k)
    BY <2>1 DEF KInv, BooksOK
  <2>4. Counted(ref'[h], k) = CountAt(n, out, Len(out), h, k)
    BY <1>8, <1>9, <2>1, RunCounts
  <2>5. HaveIn(proxy', user', h, k) = m
    <3>1. KeptIn(proxy', user', h, k) = KeptIn(proxy, user, h, k)
      BY <1>1, <1>5 DEF KeptIn
    <3> QED BY <3>1 DEF HaveIn
  <2>6. ParcelsIn(user', h, k) = p
    BY <1>5, ParcelsKept
  <2> HIDE DEF n, m, p
  <2>7. Books(user', CountAt(n, user[t].out, Len(user[t].out), h, k), m, p, h, k)
    BY <1>1, <1>5, <2>1, <2>2, <2>3, FlushBooks
  <2>8. Books(user', Counted(ref'[h], k), HaveIn(proxy', user', h, k), ParcelsIn(user', h, k), h, k)
    BY <2>4, <2>5, <2>6, <2>7
  <2> QED BY <2>8 DEF BooksOK
<1>13. ASSUME ~overtaken', NEW p \in Proxy PROVE NodeOK(p)'
  <2> DEFINE h == proxy[p].handle
  <2>1. SUFFICES ASSUME proxy[p].at = "alive" PROVE proxy[p].node = ref'[h].node
    BY <1>1 DEF NodeOK
  <2>2. h \in Handle
    <3>1. ProxyOK(p)
      BY DEF IInv
    <3> QED BY <2>1, <3>1 DEF ProxyOK
  <2>3. ~overtaken
    BY <1>13, <2>2, NotOvertaken
  <2>4. proxy[p].node = ref[h].node
    BY <2>1, <2>3 DEF KInv, NodeOK
  <2>5. HaveIn(proxy', user', h, FALSE) >= 1
    <3>1. KeptIn(proxy', user', h, FALSE) # {}
      BY <1>1, <2>1 DEF KeptIn
    <3>2. IsFiniteSet(KeptIn(proxy', user', h, FALSE)) /\ HaveIn(proxy', user', h, FALSE) \in Nat
      BY HaveType
    <3>3. HaveIn(proxy', user', h, FALSE) # 0
      BY <3>1, <3>2, FS_EmptySet DEF HaveIn
    <3>4. \A x \in Nat : x # 0 => x >= 1
      OBVIOUS
    <3> HIDE DEF h
    <3> QED BY <3>2, <3>3, <3>4
  <2> HIDE DEF h
  <2>6. ref'[h] \in RefStates /\ RefOK(ref'[h])
    BY <1>10, <2>2 DEF RefsOK
  <2>7. \A k \in BOOLEAN : Books(user', Counted(ref'[h], k), HaveIn(proxy', user', h, k),
                                 ParcelsIn(user', h, k), h, k)
    BY <1>12, <1>13, <2>2 DEF BooksOK
  <2>8. ref'[h].node # None
    <3>1. PICK w \in RefStates : w = ref'[h]
      BY <2>6
    <3>2. /\ user' \in [Thread -> UserStates] /\ \A u \in Thread : Backed(user'[u])
          /\ RefOK(w) /\ HaveIn(proxy', user', h, FALSE) >= 1
      BY <1>1, <1>11, <2>5, <2>6, <3>1
    <3>3. \A k \in BOOLEAN : Books(user', Counted(w, k), HaveIn(proxy', user', h, k),
                                   ParcelsIn(user', h, k), h, k)
      BY <2>7, <3>1
    <3>4. w.node # None
      BY <2>2, <3>2, <3>3, Present
    <3> QED BY <3>1, <3>4
  <2> QED BY <1>10, <2>2, <2>4, <2>8
<1> QED BY <1>10, <1>11, <1>12, <1>13 DEF KInv, RefsOK

-----------------------------------------------------------------------------
LEMMA InitKInv == Init => KInv
<1> SUFFICES ASSUME Init PROVE KInv
  OBVIOUS
<1>1. /\ proxy = [p \in Proxy |-> NoProxy] /\ ref = [h \in Handle |-> NoRef] /\ overtaken = FALSE
      /\ user = [t \in Thread |-> [strongs |-> {}, weaks |-> {}, destroys |-> None,
                                   parcel |-> NoParcel, out |-> <<>>]]
  BY DEF Init
<1>2. \A t \in Thread : user[t].out = <<>> /\ user[t].parcel = NoParcel
  BY <1>1
<1>3. ref \in [Handle -> RefStates] /\ \A h \in Handle : RefOK(ref[h])
  BY <1>1 DEF NoRef, RefStates, RefOK
<1>4. ASSUME NEW t \in Thread PROVE Backed(user[t])
  <2>1. DOMAIN user[t].out = {}
    BY <1>2
  <2> QED BY <2>1 DEF Backed
<1>5. \A p \in Proxy : NodeOK(p)
  BY <1>1 DEF NodeOK, NoProxy
<1>6. ASSUME NEW h \in Handle, NEW k \in BOOLEAN PROVE BooksOK(h, k)
  <2>1. Counted(ref[h], k) = 0
    BY <1>1 DEF Counted, NoRef
  <2>2. HaveIn(proxy, user, h, k) = 0
    <3>1. KeptIn(proxy, user, h, k) = {}
      BY <1>1 DEF KeptIn, NoProxy
    <3> QED BY <3>1, FS_EmptySet DEF HaveIn
  <2>3. ParcelsIn(user, h, k) = 0
    <3>1. NoParcel # [handle |-> h, strong |-> k]
      <4>1. NoParcel.handle \notin Handle
        BY TableAssumption DEF NoParcel, Handle
      <4> QED BY <4>1
    <3>2. {t \in Thread : user[t].parcel = [handle |-> h, strong |-> k]} = {}
      BY <1>2, <3>1
    <3> QED BY <3>2, FS_EmptySet DEF ParcelsIn
  <2>4. \A c : All(user, c) = 0
    <3>1. ASSUME NEW c PROVE AllPlaces(user, Thread, c) = {}
      <4>1. \A u \in Thread : {j \in DOMAIN user[u].out : user[u].out[j] = c} = {}
        BY <1>2
      <4>2. \A u \in Thread : PairsOf(u, {}) = {}
        BY DEF PairsOf
      <4> QED BY <4>1, <4>2 DEF AllPlaces
    <3> QED BY <3>1, FS_EmptySet DEF All
  <2>5. ASSUME NEW t \in Thread PROVE Ordered(user, 0, t, h, k)
    <3>1. <<>> \in Outs /\ Len(<<>>) = 0
      BY DEF Outs
    <3>2. \A c : Waits(<<>>, 0, c) = 0
      BY <3>1, PlacesEnd
    <3>3. \A c : Elsewhere(user, t, c) = 0
      <4>1. ASSUME NEW c PROVE AllPlaces(user, Thread \ {t}, c) = {}
        <5>1. \A u \in Thread : {j \in DOMAIN user[u].out : user[u].out[j] = c} = {}
          BY <1>2
        <5>2. \A u \in Thread : PairsOf(u, {}) = {}
          BY DEF PairsOf
        <5> QED BY <5>1, <5>2 DEF AllPlaces
      <4> QED BY <4>1, FS_EmptySet DEF Elsewhere
    <3>4. user[t].out = <<>>
      BY <1>2
    <3>5. \A i \in 0..0 : i = 0
      OBVIOUS
    <3> QED BY <3>1, <3>2, <3>3, <3>4, <3>5 DEF Ordered
  <2>6. Agree(user, 0, 0, 0, h, k) /\ Covered(user, 0, h, k)
    BY <2>4 DEF Agree, Covered
  <2> QED BY <2>1, <2>2, <2>3, <2>5, <2>6 DEF BooksOK, Books
<1> QED BY <1>3, <1>4, <1>5, <1>6 DEF KInv

LEMMA NextKInv == IInv /\ KInv /\ IInv' /\ [Next]_vars => KInv'
<1> SUFFICES ASSUME IInv, KInv, IInv', [Next]_vars PROVE KInv'
  OBVIOUS
<1>1. CASE UNCHANGED vars
  <2>1. UNCHANGED <<proxy, user, ref, overtaken>>
    BY <1>1 DEF vars
  <2> QED BY <2>1 DEF KInv, BooksOK, NodeOK
<1>2. CASE Next
  BY <1>2, SendBooks, FindBooks, CreateBooks, DestroyBooks, FreeBufferBooks, FlushKeepsBooks,
     PromoteBooks, DropStrongBooks, DropWeakBooks, ShareBooks DEF Next
<1> QED BY <1>1, <1>2

\* Whatever the threads do and in whatever order their mOuts are sent: as long
\* as no decrement of one overtakes an increment of another, the counts in the
\* driver and what waits in the mOuts add up to what the process has, and each
\* live proxy's handle still names the object that it was made for.
THEOREM ReferencesKept == Spec => []ReferencesAgree
<1>1. IInv /\ KInv => ReferencesAgree
  <2> SUFFICES ASSUME IInv, KInv, ~overtaken, NEW h \in Handle
               PROVE  LET ps == {p \in Proxy : proxy[p].at # "unused" /\ proxy[p].handle = h}
                      IN  /\ ref[h].strong + Pending("BC_ACQUIRE", h)
                               - Pending("BC_RELEASE", h) - Pending("BC_FREE_BUFFER", h)
                             = Cardinality({p \in ps : Strongs(p) # {}}) + Parcels(h, TRUE)
                          /\ ref[h].weak + Pending("BC_INCREFS", h)
                               - Pending("BC_DECREFS", h) - Pending("BC_FREE_BUFFER_WEAK", h)
                             = Cardinality(ps) + Parcels(h, FALSE)
                          /\ \A p \in ps : proxy[p].at = "alive" => proxy[p].node = ref[h].node
    BY DEF ReferencesAgree
  <2> DEFINE ps == {p \in Proxy : proxy[p].at # "unused" /\ proxy[p].handle = h}
  <2>1. \A c : Pending(c, h) = All(user, Command(c, h))
    BY DEF Pending, All, AllPlaces, PairsOf
  <2>2. \A k \in BOOLEAN : Parcels(h, k) = ParcelsIn(user, h, k)
    BY DEF Parcels, ParcelsIn
  <2>3. /\ {p \in ps : Strongs(p) # {}} = KeptIn(proxy, user, h, TRUE)
        /\ ps = KeptIn(proxy, user, h, FALSE)
    BY DEF KeptIn, Strongs
  <2> HIDE DEF ps
  <2>4. \A k \in BOOLEAN : Agree(user, Counted(ref[h], k), HaveIn(proxy, user, h, k),
                                 ParcelsIn(user, h, k), h, k)
    BY DEF KInv, BooksOK, Books
  <2>5. ref[h].strong + Pending("BC_ACQUIRE", h) - Pending("BC_RELEASE", h)
          - Pending("BC_FREE_BUFFER", h)
          = Cardinality({p \in ps : Strongs(p) # {}}) + Parcels(h, TRUE)
    <3>1. Agree(user, ref[h].strong, HaveIn(proxy, user, h, TRUE),
                ParcelsIn(user, h, TRUE), h, TRUE)
      BY <2>4 DEF Counted
    <3>2. /\ Up(TRUE, h) = Command("BC_ACQUIRE", h) /\ Down(TRUE, h) = Command("BC_RELEASE", h)
          /\ Back(TRUE, h) = Command("BC_FREE_BUFFER", h)
      BY DEF Up, Down, Back
    <3>3. /\ Pending("BC_ACQUIRE", h) = All(user, Up(TRUE, h))
          /\ Pending("BC_RELEASE", h) = All(user, Down(TRUE, h))
          /\ Pending("BC_FREE_BUFFER", h) = All(user, Back(TRUE, h))
      BY <2>1, <3>2, Zenon
    <3>4. /\ Parcels(h, TRUE) = ParcelsIn(user, h, TRUE)
          /\ Cardinality({p \in ps : Strongs(p) # {}}) = HaveIn(proxy, user, h, TRUE)
      BY <2>2, <2>3 DEF HaveIn
    <3> QED BY <3>1, <3>3, <3>4, Zenon DEF Agree
  <2>6. ref[h].weak + Pending("BC_INCREFS", h) - Pending("BC_DECREFS", h)
            - Pending("BC_FREE_BUFFER_WEAK", h) = Cardinality(ps) + Parcels(h, FALSE)
    <3>1. Agree(user, ref[h].weak, HaveIn(proxy, user, h, FALSE),
                ParcelsIn(user, h, FALSE), h, FALSE)
      BY <2>4 DEF Counted
    <3>2. /\ Up(FALSE, h) = Command("BC_INCREFS", h) /\ Down(FALSE, h) = Command("BC_DECREFS", h)
          /\ Back(FALSE, h) = Command("BC_FREE_BUFFER_WEAK", h)
      BY DEF Up, Down, Back
    <3>3. /\ Pending("BC_INCREFS", h) = All(user, Up(FALSE, h))
          /\ Pending("BC_DECREFS", h) = All(user, Down(FALSE, h))
          /\ Pending("BC_FREE_BUFFER_WEAK", h) = All(user, Back(FALSE, h))
      BY <2>1, <3>2, Zenon
    <3>4. /\ Parcels(h, FALSE) = ParcelsIn(user, h, FALSE)
          /\ Cardinality(ps) = HaveIn(proxy, user, h, FALSE)
      BY <2>2, <2>3 DEF HaveIn
    <3> QED BY <3>1, <3>3, <3>4, Zenon DEF Agree
  <2>7. \A p \in ps : proxy[p].at = "alive" => proxy[p].node = ref[h].node
    BY DEF KInv, NodeOK, ps
  <2> QED BY <2>5, <2>6, <2>7 DEF ps
<1>2. Init => IInv /\ KInv
  BY InitIInv, InitKInv
<1>3. (IInv /\ KInv) /\ [Next]_vars => (IInv /\ KInv)'
  BY NextIInv, NextKInv
<1> QED BY <1>1, <1>2, <1>3, PTL DEF Spec
=============================================================================
