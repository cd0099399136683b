----------------------------- MODULE BinderRefs -----------------------------
(***************************************************************************)
(* Reference counts of one object: the binder_node in its owner's process, *)
(* the binder_refs of the processes that hold handles to it                *)
(* (driver-binder.c), and the owner's threads, which take and drop         *)
(* references on the object when the driver tells them (IPCThreadState).   *)
(*                                                                         *)
(* Commands and reads run under binder_main_lock.  A read is a loop, one   *)
(* piece of work per turn, and each turn is an action here: lock says who  *)
(* reads.  The reader may stop after any turn, for its buffer may be full. *)
(* The driver's functions are operators from its state to its next state.  *)
(*                                                                         *)
(* Every flattened binder and handle is a strong one.  The object is a     *)
(* RefBase: it is destroyed with its last strong reference.                *)
(***************************************************************************)
EXTENDS Integers, Sequences, FiniteSets, SequencesExt

CONSTANTS
  Thread,        \* the owner's threads, all of its pool
  Holder,        \* the processes that may get a handle
  Mortal,        \* the holders that may die
  Unruly,        \* the holders that send any command at any time
  NoThread,
  MaxSends,      \* how often the owner sends the object
  MaxPasses,     \* how often a holder calls the object or passes its handle on
  SendsMayFail,  \* whether a transaction may fail behind the object in it
  OwnerMayDie

ASSUME RefsAssumption == /\ Mortal \subseteq Holder /\ Unruly \subseteq Holder
                         /\ IsFiniteSet(Thread) /\ IsFiniteSet(Holder)
                         /\ NoThread \notin Thread
                         /\ MaxSends \in Nat /\ MaxPasses \in Nat
                         /\ SendsMayFail \in BOOLEAN /\ OwnerMayDie \in BOOLEAN

NoList == NoThread     \* target_list = NULL

VARIABLES
  node,       \* the driver's node, its references and the lists it can be on
  lock,       \* the thread that is in a read, and whether it reads proc->todo
  holder,     \* what each holder knows of its handle
  object,     \* the object itself
  thread,     \* what each thread of the owner is doing
  sends, passes

vars == <<node, lock, holder, object, thread, sends, passes>>

Free == [by |-> NoThread, proc |-> FALSE]

TypeOK ==
  /\ node \in [made : BOOLEAN,
               open : BOOLEAN,                   \* node->proc # NULL
               internal_strong : Nat, local_strong : Int, local_weak : Int,
               has_strong : BOOLEAN, has_weak : BOOLEAN,
               pending_strong : BOOLEAN, pending_weak : BOOLEAN,
               refs : SUBSET Holder,             \* node->refs
               strong : [Holder -> Nat], weak : [Holder -> Nat],
               todo : [Thread -> Seq({"node", "complete"})],
               proc_todo : Seq({"node", "call"}),
               refused : BOOLEAN,                \* an increment that failed
               diverted : BOOLEAN]               \* work that a failed send took
  /\ lock \in [by : Thread \cup {NoThread}, proc : BOOLEAN]
  /\ holder \in [Holder -> [open : BOOLEAN,
                            buffers : Nat,       \* that carry the handle
                            proxy : {"none", "weak", "strong"}]]
  /\ object \in [alive : BOOLEAN,
                 app : BOOLEAN,                  \* the owner's own reference
                 strong : Int, weak : Int,       \* what the driver holds
                 misused : BOOLEAN]
  /\ thread \in [Thread -> [doing : {"loop", "send", "failed", "call"},
                            in : Seq({"INCREFS", "ACQUIRE", "RELEASE", "DECREFS",
                                      "COMPLETE", "CALL"}),
                            out : Seq({"INCREFS_DONE", "ACQUIRE_DONE", "FREE"}),
                            weakDerefs : Nat, strongDerefs : Nat]]
  /\ sends \in 0..MaxSends
  /\ passes \in 0..MaxPasses

-----------------------------------------------------------------------------
(***************************************************************************)
(* The node.                                                               *)
(***************************************************************************)
Strong(s) == s.internal_strong > 0 \/ s.local_strong > 0
Weak(s)   == s.refs # {} \/ s.local_weak > 0 \/ Strong(s)

OnList(s) ==      \* ~list_empty(&node->work.entry)
  \/ Contains(s.proc_todo, "node")
  \/ \E th \in Thread : Contains(s.todo[th], "node")

Unlisted(s) ==    \* list_del_init
  [s EXCEPT !.proc_todo = RemoveFirst(@, "node"),
            !.todo = [th \in Thread |-> RemoveFirst(@[th], "node")]]

Freed(s) ==
  [Unlisted(s) EXCEPT !.made = FALSE,
     !.has_strong = FALSE, !.has_weak = FALSE,
     !.pending_strong = FALSE, !.pending_weak = FALSE]

\* binder_inc_node.  Without a list to queue work on, the first increment of a
\* kind is refused; a local one, for a buffer, needs no check.
RefusesStrong(s, list) == list = NoList /\ s.internal_strong = 0
RefusesWeak(s)         == ~s.has_weak /\ ~OnList(s)

IncNodeLocal(s) == [s EXCEPT !.local_strong = @ + 1]

\* Mutant: work that is on some list stays there.
IncNodeStrongInPlace(s, list) ==
  LET counted == [s EXCEPT !.internal_strong = @ + 1]
  IN  IF s.has_strong \/ list = NoList \/ OnList(s) THEN counted
      ELSE [counted EXCEPT !.todo[list] = Append(@, "node")]

\* A strong increment takes the work along to the thread that sends.
IncNodeStrong(s, list) ==
  LET counted == [s EXCEPT !.internal_strong = @ + 1]
  IN  IF s.has_strong \/ list = NoList THEN counted
      ELSE [Unlisted(counted) EXCEPT !.todo[list] = Append(@, "node")]

\* The end of binder_dec_node: nothing of this kind is left.
NodeUnused(s) ==
  IF s.open /\ (s.has_strong \/ s.has_weak)
  THEN IF OnList(s) THEN s ELSE [s EXCEPT !.proc_todo = Append(@, "node")]
  ELSE IF s.refs = {} /\ s.local_strong = 0 /\ s.local_weak = 0
       THEN Freed(s) ELSE s

DecNodeStrongInternal(s) ==
  LET less == [s EXCEPT !.internal_strong = @ - 1]
  IN  IF Strong(less) THEN less ELSE NodeUnused(less)
DecNodeStrongLocal(s) ==
  LET less == [s EXCEPT !.local_strong = @ - 1]
  IN  IF Strong(less) THEN less ELSE NodeUnused(less)
DecNodeWeakInternal(s) ==
  IF s.local_weak > 0 \/ s.refs # {} THEN s ELSE NodeUnused(s)
DecNodeWeakLocal(s) ==
  LET less == [s EXCEPT !.local_weak = @ - 1]
  IN  IF less.local_weak > 0 \/ less.refs # {} THEN less ELSE NodeUnused(less)

-----------------------------------------------------------------------------
(***************************************************************************)
(* References.                                                             *)
(***************************************************************************)
GetRefForNode(s, h) == [s EXCEPT !.refs = @ \cup {h}]

IncRefStrong(s, h, list) ==
  IF s.strong[h] > 0 THEN [s EXCEPT !.strong[h] = @ + 1]
  ELSE IF RefusesStrong(s, list) THEN [s EXCEPT !.refused = TRUE]
  ELSE [IncNodeStrong(s, list) EXCEPT !.strong[h] = @ + 1]
IncRefWeak(s, h) ==
  IF s.weak[h] = 0 /\ RefusesWeak(s) THEN [s EXCEPT !.refused = TRUE]
  ELSE [s EXCEPT !.weak[h] = @ + 1]

\* Mutant: the node is told of the weak reference only.
DeleteRefWeak(s, h) ==
  DecNodeWeakInternal([s EXCEPT !.refs = @ \ {h}, !.strong[h] = 0, !.weak[h] = 0])

DeleteRef(s, h) ==
  LET noStrong == IF s.strong[h] > 0 THEN DecNodeStrongInternal(s) ELSE s
  IN  DecNodeWeakInternal([noStrong EXCEPT !.refs = @ \ {h},
                                           !.strong[h] = 0, !.weak[h] = 0])

Unneeded(s, h) ==
  IF s.strong[h] = 0 /\ s.weak[h] = 0 THEN DeleteRef(s, h) ELSE s

DecRefStrong(s, h) ==
  LET less == [s EXCEPT !.strong[h] = @ - 1]
  IN  IF s.strong[h] = 0 THEN s
      ELSE IF less.strong[h] > 0 THEN less
      ELSE Unneeded(DecNodeStrongInternal(less), h)
DecRefWeak(s, h) ==
  IF s.weak[h] = 0 THEN s ELSE Unneeded([s EXCEPT !.weak[h] = @ - 1], h)

NewNode(s) ==
  [s EXCEPT !.made = TRUE, !.internal_strong = 0,
            !.local_strong = 0, !.local_weak = 0]

\* binder_translate_binder: a handle for h, counted by the buffer it is in.
TranslateBinder(s, th, h) ==
  IncRefStrong(GetRefForNode(IF s.made THEN s ELSE NewNode(s), h), h, th)

-----------------------------------------------------------------------------
(***************************************************************************)
(* BINDER_WORK_NODE: the driver tells the owner one thing per turn, and    *)
(* takes the work off its list when there is nothing to tell.              *)
(***************************************************************************)
Told(cmd, s) == [cmd |-> <<cmd>>, s |-> s]

NodeWork(s) ==
  IF Weak(s) /\ ~s.has_weak
    THEN Told("INCREFS", [s EXCEPT !.has_weak = TRUE, !.pending_weak = TRUE,
                                   !.local_weak = @ + 1])
  ELSE IF Strong(s) /\ ~s.has_strong
    THEN Told("ACQUIRE", [s EXCEPT !.has_strong = TRUE, !.pending_strong = TRUE,
                                   !.local_strong = @ + 1])
  ELSE IF ~Strong(s) /\ s.has_strong
    THEN Told("RELEASE", [s EXCEPT !.has_strong = FALSE])
  ELSE IF ~Weak(s) /\ s.has_weak
    THEN Told("DECREFS", [s EXCEPT !.has_weak = FALSE])
  ELSE [cmd |-> <<>>, s |-> IF Weak(s) THEN Unlisted(s) ELSE Freed(s)]

\* Mutant: the count goes down and nobody looks whether it was the last.
AcquireDoneQuietly(s) ==
  IF s.made /\ s.pending_strong
  THEN [s EXCEPT !.pending_strong = FALSE, !.local_strong = @ - 1] ELSE s

\* BC_ACQUIRE_DONE and BC_INCREFS_DONE drop what the driver held meanwhile.
AcquireDone(s) ==
  IF s.made /\ s.pending_strong
  THEN DecNodeStrongLocal([s EXCEPT !.pending_strong = FALSE]) ELSE s
IncrefsDone(s) ==
  IF s.made /\ s.pending_weak
  THEN DecNodeWeakLocal([s EXCEPT !.pending_weak = FALSE]) ELSE s

\* binder_node_release.
NodeRelease(s) ==
  IF s.refs = {} THEN [Freed(s) EXCEPT !.open = FALSE]
  ELSE [Unlisted(s) EXCEPT !.open = FALSE, !.local_strong = 0, !.local_weak = 0]
-----------------------------------------------------------------------------
Idle == [doing |-> "loop", in |-> <<>>, out |-> <<>>,
         weakDerefs |-> 0, strongDerefs |-> 0]

Init ==
  /\ node = [made |-> FALSE, open |-> TRUE,
             internal_strong |-> 0, local_strong |-> 0, local_weak |-> 0,
             has_strong |-> FALSE, has_weak |-> FALSE,
             pending_strong |-> FALSE, pending_weak |-> FALSE,
             refs |-> {}, strong |-> [h \in Holder |-> 0],
             weak |-> [h \in Holder |-> 0],
             todo |-> [th \in Thread |-> <<>>], proc_todo |-> <<>>,
             refused |-> FALSE, diverted |-> FALSE]
  /\ lock = Free
  /\ holder = [h \in Holder |-> [open |-> TRUE, buffers |-> 0, proxy |-> "none"]]
  /\ object = [alive |-> TRUE, app |-> TRUE, strong |-> 0, weak |-> 0,
               misused |-> FALSE]
  /\ thread = [th \in Thread |-> Idle]
  /\ sends = 0 /\ passes = 0

-----------------------------------------------------------------------------
(***************************************************************************)
(* The owner's threads.  A parcel that is being sent keeps the object, and *)
(* so does a call on it.                                                   *)
(***************************************************************************)
Keeps(t) == t.doing \in {"send", "failed", "call"}

\* o and t are the object and the threads after a reference was dropped.
Dropped(o, t) ==
  [o EXCEPT !.alive = @ /\ (o.app \/ o.strong > 0 \/ \E th \in Thread : Keeps(t[th]))]

\* With nothing left to execute a pool thread first drops what the driver has
\* released, then writes its commands, then reads.
Settled(th) ==
  /\ thread[th].in = <<>>
  /\ thread[th].doing = "loop" =>
       thread[th].weakDerefs = 0 /\ thread[th].strongDerefs = 0

AtDriver(th) == node.open /\ lock = Free /\ Settled(th)

\* A transaction with the object in it, to a holder.  (diverted only records
\* that a transaction which then failed took the work from another thread.)
Listed(o) == Contains(node.todo[o], "node")
SendObject(th, h) ==
  /\ AtDriver(th) /\ thread[th].out = <<>>
  /\ thread[th].doing = "loop" /\ node.todo[th] = <<>>
  /\ object.app
  /\ holder[h].open
  /\ sends < MaxSends /\ sends' = sends + 1
  /\ LET s == TranslateBinder(node, th, h)
     IN  \/ /\ node' = [s EXCEPT !.todo[th] = Append(@, "complete")]
            /\ holder' = [holder EXCEPT ![h].buffers = @ + 1]
            /\ thread' = [thread EXCEPT ![th].doing = "send"]
         \/ /\ SendsMayFail
            /\ node' = [DecRefStrong(s, h) EXCEPT
                          !.diverted = @ \/ \E o \in Thread \ {th} : Listed(o)]
            /\ thread' = [thread EXCEPT ![th].doing = "failed"]
            /\ UNCHANGED holder
  /\ UNCHANGED <<lock, object, passes>>

\* The error comes back alone, before any work.
SendFailed(th) ==
  /\ node.open /\ lock = Free
  /\ thread[th].doing = "failed"
  /\ thread' = [thread EXCEPT ![th].doing = "loop"]
  /\ object' = Dropped(object, thread')
  /\ UNCHANGED <<node, lock, holder, sends, passes>>

WriteDone(th) ==
  /\ AtDriver(th) /\ thread[th].out # <<>>
  /\ node' = CASE Head(thread[th].out) = "ACQUIRE_DONE" -> AcquireDone(node)
               [] Head(thread[th].out) = "INCREFS_DONE" -> IncrefsDone(node)
               [] Head(thread[th].out) = "FREE" -> DecNodeStrongLocal(node)
  /\ thread' = [thread EXCEPT ![th].out = Tail(@)]
  /\ UNCHANGED <<lock, holder, object, sends, passes>>

\* One turn of binder_thread_read.  A thread that has work of its own, or waits
\* for the end of its transaction, takes only that.
Turn(th) ==
  LET own   == node.todo[th] # <<>>
      work  == IF own THEN Head(node.todo[th]) ELSE Head(node.proc_todo)
      taken == IF own THEN [node EXCEPT !.todo[th] = Tail(@)]
               ELSE [node EXCEPT !.proc_todo = Tail(@)]
  IN  CASE work = "node"     -> NodeWork(node)
        [] work = "complete" -> Told("COMPLETE", taken)
        [] work = "call"     -> Told("CALL", taken)

Read(th) ==
  /\ node.open
  /\ thread[th].out = <<>> /\ thread[th].doing \in {"loop", "send"}
  /\ \/ lock = Free /\ Settled(th)
     \/ lock.by = th /\ ~Contains(thread[th].in, "CALL")
  /\ LET fromProc == IF lock = Free
                     THEN thread[th].doing = "loop" /\ node.todo[th] = <<>>
                     ELSE lock.proc
     IN  /\ node.todo[th] # <<>> \/ (fromProc /\ node.proc_todo # <<>>)
         /\ node' = Turn(th).s
         /\ thread' = [thread EXCEPT ![th].in = @ \o Turn(th).cmd]
         /\ lock' = [by |-> th, proc |-> fromProc]
  /\ UNCHANGED <<holder, object, sends, passes>>

ReadReturns(th) ==
  /\ lock.by = th
  /\ lock' = Free
  /\ UNCHANGED <<node, holder, object, thread, sends, passes>>

\* executeCommand.
Execute(th) ==
  /\ node.open /\ lock.by # th
  /\ thread[th].doing # "call" /\ thread[th].in # <<>>
  /\ LET t == [thread[th] EXCEPT !.in = Tail(@)]
         exists == object.alive \/ object.weak > 0
         Next_(x) == thread' = [thread EXCEPT ![th] = x]
     IN  CASE Head(thread[th].in) = "INCREFS" ->
                /\ object' = [object EXCEPT !.weak = @ + 1,
                                            !.misused = @ \/ ~exists]
                /\ Next_([t EXCEPT !.out = Append(@, "INCREFS_DONE")])
           [] Head(thread[th].in) = "ACQUIRE" ->
                /\ object' = [object EXCEPT !.strong = @ + 1,
                                            !.misused = @ \/ ~object.alive]
                /\ Next_([t EXCEPT !.out = Append(@, "ACQUIRE_DONE")])
           [] Head(thread[th].in) = "RELEASE" ->
                /\ Next_([t EXCEPT !.strongDerefs = @ + 1])
                /\ UNCHANGED object
           [] Head(thread[th].in) = "DECREFS" ->
                /\ Next_([t EXCEPT !.weakDerefs = @ + 1])
                /\ UNCHANGED object
           [] Head(thread[th].in) = "COMPLETE" ->
                /\ Next_([t EXCEPT !.doing = "loop"])
                /\ object' = Dropped(object, thread')
           [] Head(thread[th].in) = "CALL" ->
                /\ Next_(IF object.alive THEN [t EXCEPT !.doing = "call"]
                         ELSE [t EXCEPT !.out = Append(@, "FREE")])
                /\ object' = [object EXCEPT !.misused = @ \/ ~exists]
  /\ UNCHANGED <<node, lock, holder, sends, passes>>

\* The call returns; what it was about may have stored the object again.
EndCall(th) ==
  /\ node.open
  /\ thread[th].doing = "call"
  /\ thread' = [thread EXCEPT ![th].doing = "loop",
                              ![th].out = Append(@, "FREE")]
  /\ \E stored \in BOOLEAN :
       object' = Dropped([object EXCEPT !.app = @ \/ stored], thread')
  /\ UNCHANGED <<node, lock, holder, sends, passes>>

processPendingDerefs(th) ==
  /\ node.open /\ lock.by # th
  /\ thread[th].doing = "loop" /\ thread[th].in = <<>>
  /\ thread[th].weakDerefs + thread[th].strongDerefs > 0
  /\ thread' = [thread EXCEPT ![th].weakDerefs = 0, ![th].strongDerefs = 0]
  /\ object' = Dropped([object EXCEPT !.weak = @ - thread[th].weakDerefs,
                                      !.strong = @ - thread[th].strongDerefs],
                       thread')
  /\ UNCHANGED <<node, lock, holder, sends, passes>>

AppDrops ==
  /\ node.open /\ object.app
  /\ object' = Dropped([object EXCEPT !.app = FALSE], thread)
  /\ UNCHANGED <<node, lock, holder, thread, sends, passes>>

-----------------------------------------------------------------------------
(***************************************************************************)
(* The holders.  libbinder's take a weak and a strong reference for a      *)
(* proxy before they free the buffer that brought the handle; an unruly    *)
(* one sends what it likes.                                                *)
(***************************************************************************)
Commands(h) == holder[h].open /\ lock = Free
Known(h)    == h \in node.refs
KnownStrong(h) == Known(h) /\ node.strong[h] > 0   \* need_strong_ref

BC_INCREFS(h) ==
  /\ Commands(h)
  /\ h \in Unruly \/ (holder[h].proxy = "none" /\ holder[h].buffers > 0)
  /\ node.weak[h] <= 1
  /\ node' = IF Known(h) THEN IncRefWeak(node, h) ELSE node
  /\ holder' = [holder EXCEPT ![h].proxy = "weak"]
  /\ UNCHANGED <<lock, object, thread, sends, passes>>

BC_ACQUIRE(h) ==
  /\ Commands(h)
  /\ h \in Unruly \/ (holder[h].proxy = "weak" /\ holder[h].buffers > 0)
  /\ node.strong[h] <= MaxSends
  /\ node' = IF KnownStrong(h) THEN IncRefStrong(node, h, NoList) ELSE node
  /\ holder' = [holder EXCEPT ![h].proxy = "strong"]
  /\ UNCHANGED <<lock, object, thread, sends, passes>>

BC_RELEASE(h) ==
  /\ Commands(h)
  /\ h \in Unruly \/ holder[h].proxy = "strong"
  /\ node' = IF KnownStrong(h) THEN DecRefStrong(node, h) ELSE node
  /\ holder' = [holder EXCEPT ![h].proxy = "weak"]
  /\ UNCHANGED <<lock, object, thread, sends, passes>>

BC_DECREFS(h) ==
  /\ Commands(h)
  /\ h \in Unruly \/ holder[h].proxy = "weak"
  /\ node' = IF Known(h) THEN DecRefWeak(node, h) ELSE node
  /\ holder' = [holder EXCEPT ![h].proxy = "none"]
  /\ UNCHANGED <<lock, object, thread, sends, passes>>

\* binder_transaction_buffer_release finds the reference by its handle.
BC_FREE_BUFFER(h) ==
  /\ Commands(h) /\ holder[h].buffers > 0
  /\ h \in Unruly \/ holder[h].proxy # "weak"
  /\ node' = IF Known(h) THEN DecRefStrong(node, h) ELSE node
  /\ holder' = [holder EXCEPT ![h].buffers = @ - 1]
  /\ UNCHANGED <<lock, object, thread, sends, passes>>

\* binder_translate_handle, to another holder.
PassHandle(h, to) ==
  /\ Commands(h) /\ KnownStrong(h)
  /\ to # h /\ holder[to].open
  /\ passes < MaxPasses /\ passes' = passes + 1
  /\ node' = IncRefStrong(GetRefForNode(node, to), to, NoList)
  /\ holder' = [holder EXCEPT ![to].buffers = @ + 1]
  /\ UNCHANGED <<lock, object, thread, sends>>

\* A call on the object, or the handle sent back to its owner: the buffer
\* counts as a local reference until the owner frees it.
CallObject(h) ==
  /\ Commands(h) /\ KnownStrong(h) /\ node.open
  /\ passes < MaxPasses /\ passes' = passes + 1
  /\ node' = [IncNodeLocal(node) EXCEPT !.proc_todo = Append(@, "call")]
  /\ UNCHANGED <<lock, holder, object, thread, sends>>

HolderDies(h) ==
  /\ h \in Mortal /\ Commands(h)
  /\ node' = IF Known(h) THEN DeleteRef(node, h) ELSE node
  /\ holder' = [holder EXCEPT ![h] = [open |-> FALSE, buffers |-> 0, proxy |-> "none"]]
  /\ UNCHANGED <<lock, object, thread, sends, passes>>

OwnerDies ==
  /\ OwnerMayDie /\ node.open /\ lock = Free
  /\ node' = [IF node.made THEN NodeRelease(node) ELSE node
               EXCEPT !.open = FALSE, !.proc_todo = <<>>,
                      !.todo = [th \in Thread |-> <<>>]]
  /\ thread' = [th \in Thread |-> Idle]
  /\ object' = [object EXCEPT !.alive = FALSE, !.strong = 0, !.weak = 0]
  /\ UNCHANGED <<lock, holder, sends, passes>>

-----------------------------------------------------------------------------
Owner(th) ==
  \/ SendFailed(th) \/ WriteDone(th) \/ Read(th) \/ ReadReturns(th)
  \/ Execute(th) \/ EndCall(th) \/ processPendingDerefs(th)

Holds(h) ==
  \/ BC_INCREFS(h) \/ BC_ACQUIRE(h) \/ BC_RELEASE(h) \/ BC_DECREFS(h)
  \/ BC_FREE_BUFFER(h) \/ CallObject(h) \/ HolderDies(h)
  \/ \E to \in Holder : PassHandle(h, to)

Next ==
  \/ \E th \in Thread : Owner(th) \/ \E h \in Holder : SendObject(th, h)
  \/ \E h \in Holder : Holds(h)
  \/ AppDrops
  \/ OwnerDies

Spec == Init /\ [][Next]_vars

\* The scheduler runs every thread.
FairSpec == Spec /\ \A th \in Thread : WF_vars(Owner(th))

-----------------------------------------------------------------------------
(***************************************************************************)
(* Properties.                                                             *)
(***************************************************************************)

\* The owner never touches an object that is gone: BR_ACQUIRE and a call find
\* it alive, BR_INCREFS finds its weak references (IPCThreadState.cpp:985).
ReferencedObjectLives == ~object.misused

\* The assertion of BR_ACQUIRE, refs->refBase() == obj (IPCThreadState.cpp:985):
\* when a thread is about to execute the command, the weak references that it
\* names are still those of the object, neither freed nor used after that.
AcquireFindsObject ==
  \A th \in Thread :
    (/\ node.open /\ lock.by # th /\ thread[th].doing # "call"
     /\ thread[th].in # <<>> /\ Head(thread[th].in) = "ACQUIRE")
    => (object.alive \/ object.weak > 0) /\ ReferencedObjectLives

\* The same, and more, whenever no failed transaction has taken the work from
\* the thread that waits for it: as long as a process holds a strong handle, or
\* a call to the object is on its way, the object lives, from the moment it is
\* sent to the moment the last holder lets go, whoever of the owner's threads
\* is told what and when.
RemoteKeepsObject ==
  ~node.diverted =>
    /\ ReferencedObjectLives
    /\ node.open /\ node.made /\ Strong(node) => object.alive

\* The driver's counts are those of its references and buffers, the references'
\* are those of the holders' buffers and proxies, and the owner's are the
\* driver's once what is under way has arrived: nothing leaks, nothing is
\* dropped twice, and a holder that follows libbinder's protocol is not refused
\* a reference.  (BC_INCREFS is refused on the node of an owner that died before
\* it was told; then the counts part.)
Occurs(cmd, list) == Cardinality({i \in DOMAIN list : list[i] = cmd})
One(b) == IF b THEN 1 ELSE 0
CallsUnfreed ==
  Occurs("call", node.proc_todo)
  + SumFunction([th \in Thread |->
      Occurs("CALL", thread[th].in) + Occurs("FREE", thread[th].out)
        + One(thread[th].doing = "call")])
CountsAgree ==
  node.open =>
    /\ node.internal_strong = Cardinality({h \in node.refs : node.strong[h] > 0})
    /\ node.local_strong = CallsUnfreed + One(node.pending_strong)
    /\ node.local_weak = One(node.pending_weak)
    /\ node.refs = {h \in Holder : node.strong[h] + node.weak[h] > 0}
    /\ ~node.made => ~Weak(node)
    /\ Unruly = {} => ~node.refused
    /\ \A h \in Holder \ Unruly :
         /\ node.strong[h] = holder[h].buffers + One(holder[h].proxy = "strong")
         /\ node.weak[h] = One(holder[h].proxy # "none")
    /\ object.strong = One(node.has_strong)
         + SumFunction([th \in Thread |->
             Occurs("RELEASE", thread[th].in) + thread[th].strongDerefs
               - Occurs("ACQUIRE", thread[th].in)])
    /\ object.weak = One(node.has_weak)
         + SumFunction([th \in Thread |->
             Occurs("DECREFS", thread[th].in) + thread[th].weakDerefs
               - Occurs("INCREFS", thread[th].in)])

\* When nobody wants the object any more it is destroyed, and the driver
\* forgets its node.
Unwanted == ~object.app /\ node.refs = {}
ObjectIsReleased ==
  Unwanted ~> (~Unwanted \/ ~node.open \/ (~object.alive /\ ~node.made))
=============================================================================
