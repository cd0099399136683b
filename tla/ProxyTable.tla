------------------------------ MODULE ProxyTable ------------------------------
(***************************************************************************)
(* The proxies of one client process: the table from handles to BpBinders  *)
(* (ProcessState.cpp), the strong and weak pointers that its threads hold  *)
(* on them, the commands that the threads have written for the driver and  *)
(* not yet sent (IPCThreadState.cpp, mOut), and the references of the      *)
(* process in the driver (driver-binder.c).                                *)
(*                                                                         *)
(* A proxy is created when a thread reads a handle from a buffer, which    *)
(* holds a reference of its own until it is freed.  Every thread writes to *)
(* its own mOut, and what it wrote reaches the driver when it next talks   *)
(* to it: so two threads' commands for one handle may arrive in another    *)
(* order than they were written in.                                        *)
(*                                                                         *)
(* Handle 0, the context manager's, and obituaries are left out (for the   *)
(* latter see BinderDeath).                                                *)
(***************************************************************************)
EXTENDS Integers, Sequences, FiniteSets, SequencesExt

CONSTANTS
  Thread,
  Node,       \* remote objects, in other processes
  Proxy,      \* addresses at which a BpBinder may be allocated
  None,
  MaxHandle,  \* bound: handles the driver gives out
  MaxSends,   \* bound: buffers that reach the process
  MaxOut      \* bound: a thread with so many commands in its mOut sends them first

ASSUME TableAssumption ==
  /\ MaxHandle \in Nat \ {0} /\ MaxSends \in Nat /\ MaxOut \in Nat
  /\ Cardinality(Node) <= MaxHandle
  /\ IsFiniteSet(Thread) /\ IsFiniteSet(Proxy)
  /\ None \notin Proxy \cup Node \cup Thread

Handle == 1..MaxHandle

VARIABLES
  table,     \* mHandleToObject: the binder of each entry
  proxy,     \* each BpBinder: its mHandle, and how far its life is
  user,      \* each thread: its sp<>s and wp<>s, the proxy it destroys, its
             \* parcel and its mOut
  ref,       \* the driver's binder_refs of this process, by desc
  sends,     \* buffers delivered so far
  overtaken  \* history: a decrement has overtaken an increment

vars == <<table, proxy, user, ref, sends, overtaken>>

NoProxy  == [handle |-> 0, node |-> None, at |-> "unused"]
NoRef    == [node |-> None, strong |-> 0, weak |-> 0]
NoParcel == [handle |-> 0, strong |-> FALSE]
Command(c, h) == [cmd |-> c, handle |-> h]

Init == /\ table = [h \in Handle |-> None]
        /\ proxy = [p \in Proxy |-> NoProxy]
        /\ user = [t \in Thread |-> [strongs |-> {}, weaks |-> {}, destroys |-> None,
                                     parcel |-> NoParcel, out |-> <<>>]]
        /\ ref = [h \in Handle |-> NoRef]
        /\ sends = 0
        /\ overtaken = FALSE

-----------------------------------------------------------------------------
(* RefBase: a proxy's counts are the pointers to it.  A strong pointer is  *)
(* also a weak one, given up after it.                                     *)

Strongs(p) == {t \in Thread : p \in user[t].strongs}
Weaks(p)   == {t \in Thread : p \in user[t].weaks}
HasRoom(t) == Len(user[t].out) < MaxOut
Runs(t)    == user[t].destroys = None      \* t is not inside a destructor

OnFirstRefOfNew(p, h) == IF Weaks(p) = {} THEN <<Command("BC_ACQUIRE", h)>> ELSE <<>>
\* The first strong pointer writes BC_ACQUIRE, also when there was one before
\* (onFirstRef, which forceIncStrong calls too).
OnFirstRef(p, h) == IF Strongs(p) = {} THEN <<Command("BC_ACQUIRE", h)>> ELSE <<>>

-----------------------------------------------------------------------------
(* The driver. *)

\* binder_get_ref_for_node: the reference it has, or one with the lowest desc.
IsDescFor(h, n) ==
  \/ ref[h].node = n
  \/ /\ \A g \in Handle : ref[g].node # n
     /\ ref[h].node = None /\ \A g \in 1..h - 1 : ref[g].node # None

\* binder_inc_ref, binder_dec_ref; a reference without counts is deleted.
Count(r, strong, d) == IF strong THEN [r EXCEPT !.strong = @ + d] ELSE [r EXCEPT !.weak = @ + d]
Inc(r, strong) == Count(r, strong, 1)
Dec(r, strong) ==
  LET left == Count(r, strong, -1)
  IN  IF (IF strong THEN r.strong ELSE r.weak) = 0 THEN r
      ELSE IF left.strong = 0 /\ left.weak = 0 THEN NoRef ELSE left

\* One command of binder_thread_write.  What names no reference, or a strong
\* count of a reference that has none, is refused.
Execute(refs, c) ==
  LET h == c.handle
      strong == c.cmd \in {"BC_ACQUIRE", "BC_RELEASE", "BC_FREE_BUFFER"}
      r == refs[h]
  IN  IF r.node = None \/ (strong /\ r.strong = 0) THEN refs
      ELSE [refs EXCEPT ![h] = IF c.cmd \in {"BC_INCREFS", "BC_ACQUIRE"}
                               THEN Inc(r, strong) ELSE Dec(r, strong)]

Increments == {"BC_INCREFS", "BC_ACQUIRE"}
Waiting(t, cmds, h) == \E i \in DOMAIN user[t].out :
  user[t].out[i].cmd \in cmds /\ user[t].out[i].handle = h
Commands == {"BC_INCREFS", "BC_ACQUIRE", "BC_RELEASE", "BC_DECREFS",
             "BC_FREE_BUFFER", "BC_FREE_BUFFER_WEAK"}

-----------------------------------------------------------------------------
(* A buffer with a handle for n arrives as t's parcel. *)
Send(n, t, strong) ==
  /\ sends < MaxSends
  /\ Runs(t) /\ user[t].parcel = NoParcel
  /\ \E h \in Handle :
       /\ IsDescFor(h, n)
       /\ ref' = [ref EXCEPT ![h] = Inc([@ EXCEPT !.node = n], strong)]
       /\ user' = [user EXCEPT ![t].parcel = [handle |-> h, strong |-> strong]]
  /\ sends' = sends + 1
  /\ UNCHANGED <<table, proxy, overtaken>>

\* getStrongProxyForHandle, getWeakProxyForHandle, under mLock.  The entry's
\* proxy is used if attemptIncWeak finds a weak pointer to it; if not, it is
\* being destroyed, and a new proxy takes its place in the table.
Usable(p) == p # None /\ Weaks(p) # {}

Find(t) ==
  /\ Runs(t) /\ user[t].parcel # NoParcel
  /\ HasRoom(t)
  /\ LET h == user[t].parcel.handle
         strong == user[t].parcel.strong
         p == table[h]
     IN  /\ Usable(p)
         /\ user' = [user EXCEPT ![t].weaks = @ \cup {p},
                                 ![t].strongs = IF strong THEN @ \cup {p} ELSE @,
                                 ![t].out = IF strong THEN @ \o OnFirstRef(p, h) ELSE @]
  /\ UNCHANGED <<table, proxy, ref, sends, overtaken>>

Create(t) ==
  /\ Runs(t) /\ user[t].parcel # NoParcel
  /\ HasRoom(t)
  /\ LET h == user[t].parcel.handle
         strong == user[t].parcel.strong
     IN  /\ ~Usable(table[h])
         /\ \E p \in Proxy :
              /\ proxy[p].at = "unused"
              /\ proxy' = [proxy EXCEPT ![p] = [handle |-> h, node |-> ref[h].node, at |-> "alive"]]
              /\ table' = [table EXCEPT ![h] = p]
              /\ user' = [user EXCEPT
                   ![t].weaks = @ \cup {p},
                   ![t].strongs = IF strong THEN @ \cup {p} ELSE @,
                   ![t].out = @ \o <<Command("BC_INCREFS", h)>>
                                \o IF strong THEN OnFirstRef(p, h) ELSE <<>>]
  /\ UNCHANGED <<ref, sends, overtaken>>

-----------------------------------------------------------------------------
(* The threads pass proxies on and drop them. *)

Share(t, u, p) ==
  /\ Runs(t) /\ Runs(u)
  /\ p \in user[t].strongs \ user[u].strongs
  /\ user' = [user EXCEPT ![u].strongs = @ \cup {p}, ![u].weaks = @ \cup {p}]
  /\ UNCHANGED <<table, proxy, ref, sends, overtaken>>

\* wp<>::promote: fails when the last strong pointer is gone, for the attempt
\* to get a new one from the driver is not supported (onIncStrongAttempted).
Promote(t, p) ==
  /\ Runs(t)
  /\ p \in user[t].weaks \ user[t].strongs
  /\ Strongs(p) # {}
  /\ user' = [user EXCEPT ![t].strongs = @ \cup {p}]
  /\ UNCHANGED <<table, proxy, ref, sends, overtaken>>

\* onLastStrongRef
DropStrong(t, p) ==
  /\ Runs(t) /\ HasRoom(t)
  /\ p \in user[t].strongs
  /\ user' = [user EXCEPT
       ![t].strongs = @ \ {p},
       ![t].out = IF Strongs(p) = {t} THEN Append(@, Command("BC_RELEASE", proxy[p].handle)) ELSE @]
  /\ UNCHANGED <<table, proxy, ref, sends, overtaken>>

\* The last weak pointer: the destructor begins.
DropWeak(t, p) ==
  /\ Runs(t) /\ HasRoom(t)
  /\ p \in user[t].weaks \ user[t].strongs
  /\ user' = [user EXCEPT ![t].weaks = @ \ {p},
                          ![t].destroys = IF Weaks(p) = {t} THEN p ELSE None]
  /\ proxy' = IF Weaks(p) = {t} THEN [proxy EXCEPT ![p].at = "dying"] ELSE proxy
  /\ UNCHANGED <<table, ref, sends, overtaken>>

ExpungeAny(h, p) == [table EXCEPT ![h] = None]
\* expungeHandle: the entry is cleared unless another proxy has replaced this.
Expunge(h, p) == IF table[h] = p THEN [table EXCEPT ![h] = None] ELSE table

Destroy(t) ==
  /\ ~Runs(t)
  /\ LET p == user[t].destroys
         h == proxy[p].handle
     IN  /\ table' = Expunge(h, p)
         /\ user' = [user EXCEPT ![t].destroys = None,
                                 ![t].out = Append(@, Command("BC_DECREFS", h))]
         /\ proxy' = [proxy EXCEPT ![p] = NoProxy]
  /\ UNCHANGED <<ref, sends, overtaken>>

\* The parcel goes: IPCThreadState::freeBuffer.
FreeBuffer(t) ==
  /\ Runs(t) /\ HasRoom(t) /\ user[t].parcel # NoParcel
  /\ LET cmd == IF user[t].parcel.strong THEN "BC_FREE_BUFFER" ELSE "BC_FREE_BUFFER_WEAK"
     IN  user' = [user EXCEPT ![t].parcel = NoParcel,
                              ![t].out = Append(@, Command(cmd, user[t].parcel.handle))]
  /\ UNCHANGED <<table, proxy, ref, sends, overtaken>>

\* talkWithDriver: everything that was written, in that order.
Flush(t) ==
  /\ Runs(t) /\ user[t].out # <<>>
  /\ ref' = FoldLeft(Execute, ref, user[t].out)
  /\ user' = [user EXCEPT ![t].out = <<>>]
  /\ overtaken' = (overtaken \/ \E h \in Handle, u \in Thread \ {t} :
                     Waiting(t, Commands \ Increments, h) /\ Waiting(u, Increments, h))
  /\ UNCHANGED <<table, proxy, sends>>

Next ==
  \/ \E t \in Thread :
       \/ \E n \in Node, strong \in BOOLEAN : Send(n, t, strong)
       \/ Find(t) \/ Create(t) \/ Destroy(t) \/ FreeBuffer(t) \/ Flush(t)
  \/ \E t \in Thread, p \in Proxy :
       \/ Promote(t, p) \/ DropStrong(t, p) \/ DropWeak(t, p)
       \/ \E u \in Thread \ {t} : Share(t, u, p)

Spec == Init /\ [][Next]_vars

-----------------------------------------------------------------------------
(* Properties. *)

TypeOK ==
  /\ table \in [Handle -> Proxy \cup {None}]
  /\ proxy \in [Proxy -> [handle : Handle \cup {0}, node : Node \cup {None},
                          at : {"unused", "alive", "dying"}]]
  /\ ref \in [Handle -> [node : Node \cup {None}, strong : Nat, weak : Nat]]
  /\ \A t \in Thread :
       /\ user[t].strongs \subseteq user[t].weaks /\ user[t].weaks \subseteq Proxy
       /\ user[t].destroys \in Proxy \cup {None}
       /\ user[t].parcel \in [handle : Handle \cup {0}, strong : BOOLEAN]
       /\ user[t].out \in Seq([cmd : Commands, handle : Handle])
  /\ sends \in 0..MaxSends /\ overtaken \in BOOLEAN

(***************************************************************************)
(* However the last drop of a proxy races with a thread that reads its     *)
(* handle again, a handle has one usable proxy, the one in the table, and  *)
(* the table never names a proxy whose memory is gone, whose counts        *)
(* attemptIncWeak would then touch (expungeHandle, and the comment in      *)
(* getWeakProxyForHandle on why that is safe).                             *)
(***************************************************************************)
OneProxyPerHandle ==
  /\ \A p \in Proxy : proxy[p].at = "alive" => table[proxy[p].handle] = p
  /\ \A h \in Handle : table[h] # None =>
       proxy[table[h]].at # "unused" /\ proxy[table[h]].handle = h

(***************************************************************************)
(* The counts in the driver, once what waits in every mOut is added, are   *)
(* what the process has: a strong one for each proxy that is strongly held *)
(* and for each parcel, a weak one for each proxy.  And a proxy's handle   *)
(* names the object it was made for.  Nothing but the order of the mOuts   *)
(* can break that: it holds until a decrement of one thread overtakes an   *)
(* increment of another.                                                   *)
(***************************************************************************)
Pending(cmd, h) ==
  Cardinality(UNION {{<<t, i>> : i \in {j \in DOMAIN user[t].out :
                                        user[t].out[j] = Command(cmd, h)}} : t \in Thread})
Parcels(h, strong) == Cardinality({t \in Thread : user[t].parcel = [handle |-> h, strong |-> strong]})

ReferencesAgree ==
  ~overtaken => \A h \in Handle :
    LET ps == {p \in Proxy : proxy[p].at # "unused" /\ proxy[p].handle = h}
    IN  /\ ref[h].strong + Pending("BC_ACQUIRE", h)
             - Pending("BC_RELEASE", h) - Pending("BC_FREE_BUFFER", h)
           = Cardinality({p \in ps : Strongs(p) # {}}) + Parcels(h, TRUE)
        /\ ref[h].weak + Pending("BC_INCREFS", h)
             - Pending("BC_DECREFS", h) - Pending("BC_FREE_BUFFER_WEAK", h)
           = Cardinality(ps) + Parcels(h, FALSE)
        /\ \A p \in ps : proxy[p].at = "alive" => proxy[p].node = ref[h].node
=============================================================================
