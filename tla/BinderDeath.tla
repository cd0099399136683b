----------------------------- MODULE BinderDeath -----------------------------
(***************************************************************************)
(* Death notifications of one remote object in one process that holds a    *)
(* proxy for it: the driver's side (driver-binder.c) and libbinder's       *)
(* (BpBinder.cpp, and the two commands that IPCThreadState executes).      *)
(*                                                                         *)
(* The driver runs each command under binder_main_lock; it is written here *)
(* as an operator from the driver's state to its next state.  BpBinder's   *)
(* mLock is the variable lock: linkToDeath, unlinkToDeath and sendObituary *)
(* hold it while they send their command, and sendObituary looks at        *)
(* mObitsSent before it takes it.                                          *)
(*                                                                         *)
(* The proxy's address is the cookie of every notification, so all death   *)
(* records of this module carry the same cookie.  A record is named by the *)
(* order of its allocation, a call of linkToDeath by the order of calls.   *)
(***************************************************************************)
EXTENDS Integers, Sequences, FiniteSets

CONSTANTS
  Thread,
  Loopers,         \* the threads of the pool: they read proc->todo
  Exiting,         \* the loopers that may leave with BINDER_THREAD_EXIT
  NoThread,
  MaxLinks,        \* how many calls of linkToDeath a behaviour makes
  MayExit          \* whether the process that holds the proxy may die

ASSUME DeathAssumption == /\ Loopers \subseteq Thread
                          /\ Exiting \subseteq Loopers
                          /\ NoThread \notin Thread
                          /\ MaxLinks \in Nat
                          /\ MayExit \in BOOLEAN

Links   == 1..MaxLinks
Deaths  == 1..MaxLinks    \* a record is made by a linkToDeath
NoDeath == 0

VARIABLES
  driver,     \* the node's life, the reference's record, the records and lists
  proxy,      \* the BpBinder
  lock,       \* who holds its mLock
  thread,     \* what each thread is doing
  links,      \* the number of calls of linkToDeath so far
  fate        \* and what became of each

vars == <<driver, proxy, lock, thread, links, fate>>

Types  == {"none", "dead", "dead_and_clear", "clear"}
Places == {"idle", "linking", "unlinking", "dead", "unsent", "clearing",
           "reporting", "done", "gone"}

Drivers ==
  [node : BOOLEAN,               \* node->proc # NULL
   open : BOOLEAN,               \* the holder's proc is not released
   made : 0..MaxLinks,
   ref : Deaths \cup {NoDeath},  \* ref->death
   type : [Deaths -> Types],     \* death->work.type
   frees : [Deaths -> Nat],      \* how often it was freed
   proc_todo : Seq(Deaths),
   todo : [Thread -> Seq(Deaths)],
   delivered : Seq(Deaths)]      \* proc->delivered_death

Proxies ==
  [exists : BOOLEAN,              \* its destructor has not run
   held : BOOLEAN,                \* the application refers to it
   refs : 0..MaxLinks,            \* weak references of linkToDeath
   vector : BOOLEAN,              \* mObituaries # NULL
   obituaries : SUBSET Links,
   sent : BOOLEAN]                \* mObitsSent

ThreadStates ==
  [at : Places,
   link : Links \cup {0},         \* the link it makes
   left : SUBSET Links,           \* whom it has still to tell
   in : Seq({"dead", "clear"})]   \* mIn

TypeOK ==
  /\ driver \in Drivers
  /\ proxy \in Proxies
  /\ lock \in Thread \cup {NoThread}
  /\ thread \in [Thread -> ThreadStates]
  /\ links \in 0..MaxLinks
  /\ fate \in [Links -> {"new", "linked", "refused", "unlinked", "told", "told_again"}]

Init ==
  /\ driver = [node |-> TRUE, open |-> TRUE, made |-> 0, ref |-> NoDeath,
               type |-> [d \in Deaths |-> "none"], frees |-> [d \in Deaths |-> 0],
               proc_todo |-> <<>>, todo |-> [th \in Thread |-> <<>>],
               delivered |-> <<>>]
  /\ proxy = [exists |-> TRUE, held |-> TRUE, refs |-> 0, vector |-> FALSE,
              obituaries |-> {}, sent |-> FALSE]
  /\ lock = NoThread
  /\ thread = [th \in Thread |-> [at |-> "idle", link |-> 0, left |-> {}, in |-> <<>>]]
  /\ links = 0
  /\ fate = [l \in Links |-> "new"]

-----------------------------------------------------------------------------
\* The driver.

Elements(s) == {s[i] : i \in DOMAIN s}

OnList(dr, d) == \/ d \in Elements(dr.proc_todo) \cup Elements(dr.delivered)
                 \/ \E th \in Thread : d \in Elements(dr.todo[th])

QueueDeath(dr, th, d) ==
  IF th \in Loopers THEN [dr EXCEPT !.todo[th] = Append(@, d)]
                    ELSE [dr EXCEPT !.proc_todo = Append(@, d)]

\* Mutant: a request that comes after the death is only recorded.
RequestDeathQuietly(dr, th) ==
  IF dr.ref # NoDeath THEN dr ELSE [dr EXCEPT !.made = @ + 1, !.ref = dr.made + 1]

\* BC_REQUEST_DEATH_NOTIFICATION, refused when the reference has a record.
RequestDeath(dr, th) ==
  LET d   == dr.made + 1
      new == [dr EXCEPT !.made = d, !.ref = d]
  IN  IF dr.ref # NoDeath THEN dr
      ELSE IF dr.node THEN new
      ELSE QueueDeath([new EXCEPT !.type[d] = "dead"], th, d)

\* Mutant: the record stays attached to the reference.
ClearDeathAttached(dr, th) ==
  IF dr.ref = NoDeath THEN dr
  ELSE IF OnList(dr, dr.ref) THEN [dr EXCEPT !.type[dr.ref] = "dead_and_clear"]
  ELSE QueueDeath([dr EXCEPT !.type[dr.ref] = "clear"], th, dr.ref)

\* BC_CLEAR_DEATH_NOTIFICATION, refused when it has none.
ClearDeath(dr, th) ==
  LET d       == dr.ref
      cleared == [dr EXCEPT !.ref = NoDeath]
  IN  IF d = NoDeath THEN dr
      ELSE IF OnList(dr, d) THEN [cleared EXCEPT !.type[d] = "dead_and_clear"]
      ELSE QueueDeath([cleared EXCEPT !.type[d] = "clear"], th, d)

\* Mutant: a clear that came while the obituary was out is forgotten.
DeathDoneForgetful(dr, th) ==
  IF dr.delivered = <<>> THEN dr ELSE [dr EXCEPT !.delivered = Tail(@)]

\* BC_DEAD_BINDER_DONE: the first delivered record with the proxy's cookie.
DeathDone(dr, th) ==
  IF dr.delivered = <<>> THEN dr
  ELSE LET d    == Head(dr.delivered)
           done == [dr EXCEPT !.delivered = Tail(@)]
       IN  IF dr.type[d] = "dead_and_clear"
           THEN QueueDeath([done EXCEPT !.type[d] = "clear"], th, d)
           ELSE done

\* binder_node_release, when the owner of the object dies.
NodeRelease(dr) ==
  LET dead == [dr EXCEPT !.node = FALSE]
  IN  IF dr.ref = NoDeath THEN dead
      ELSE [dead EXCEPT !.type[dr.ref] = "dead", !.proc_todo = Append(@, dr.ref)]

\* How many records at the head of list one read can hand out: it goes on
\* behind a BR_CLEAR_DEATH_NOTIFICATION_DONE and ends with a BR_DEAD_BINDER.
MayDeliver(dr, list) == {n \in 1..Len(list) : \A i \in 1..(n - 1) : dr.type[list[i]] = "clear"}

Command(dr, d) == IF dr.type[d] = "clear" THEN "clear" ELSE "dead"

\* Mutant: an obituary is taken off its list and put on no other.
DeliverUnlisted(dr, list, n) ==
  [dr EXCEPT !.frees = [d \in Deaths |-> IF d \in Elements(SubSeq(list, 1, n)) /\ dr.type[d] = "clear"
                                         THEN @[d] + 1 ELSE @[d]]]

\* binder_thread_read frees what it has cleared and moves an obituary to the
\* front of delivered_death.
Deliver(dr, list, n) ==
  [dr EXCEPT !.frees = [d \in Deaths |-> IF d \in Elements(SubSeq(list, 1, n)) /\ dr.type[d] = "clear"
                                         THEN @[d] + 1 ELSE @[d]],
             !.delivered = IF dr.type[list[n]] = "clear" THEN @ ELSE <<list[n]>> \o @]

\* Mutant: every record on the list is freed, an attached one too.
ReleaseWorkAll(dr, records) ==
  [dr EXCEPT !.frees = [d \in Deaths |-> IF d \in records THEN @[d] + 1 ELSE @[d]]]

\* binder_release_work frees the records of a list, but for those that are still
\* attached to their reference: it does not know their type.
ReleaseWork(dr, records) ==
  [dr EXCEPT !.frees = [d \in Deaths |->
     IF d \in records /\ dr.type[d] \in {"dead_and_clear", "clear"} THEN @[d] + 1 ELSE @[d]]]

\* binder_free_thread, for one thread or for all.
ReleaseThreads(dr, ths) ==
  [ReleaseWork(dr, UNION {Elements(dr.todo[th]) : th \in ths})
     EXCEPT !.todo = [th \in Thread |-> IF th \in ths THEN <<>> ELSE @[th]]]

\* binder_delete_ref frees the attached record, which leaves its list.
DeleteRef(dr) ==
  IF dr.ref = NoDeath THEN dr ELSE [dr EXCEPT !.frees[dr.ref] = @ + 1, !.ref = NoDeath]

\* binder_deferred_release: threads, references, proc->todo, delivered_death.
ReleaseProcess(dr) ==
  LET lists == Elements(dr.proc_todo) \cup Elements(dr.delivered)
  IN  [ReleaseWork(DeleteRef(ReleaseThreads(dr, Thread)), lists \ {dr.ref})
         EXCEPT !.open = FALSE, !.proc_todo = <<>>, !.delivered = <<>>]

-----------------------------------------------------------------------------
\* The proxy and the threads of its process.

At(th, place)    == thread[th].at = place
GoTo(th, place)  == thread' = [thread EXCEPT ![th].at = place]
TakeLock(th)     == lock = NoThread /\ lock' = th
Unlock           == lock' = NoThread

\* The thread runs the application's code, in a handler or in binderDied.
InApplication(th) == thread[th].at \in {"idle", "reporting"} /\ thread[th].in = <<>>

\* Mutant: each link takes a reference.
WatchedEachTime(p) == [p EXCEPT !.vector = TRUE, !.refs = @ + 1]

\* linkToDeath.  The first recipient makes the vector, takes a weak reference
\* to the proxy and asks the driver.
Watched(p) == IF p.vector THEN p ELSE [p EXCEPT !.vector = TRUE, !.refs = @ + 1]

LinkToDeath(th) ==
  /\ InApplication(th) /\ proxy.held /\ links < MaxLinks
  /\ links' = links + 1
  /\ \/ /\ ~proxy.sent
        /\ TakeLock(th)
        /\ thread' = [thread EXCEPT ![th].at = "linking", ![th].link = links']
        /\ proxy' = Watched(proxy)
        /\ driver' = IF proxy.vector THEN driver ELSE RequestDeath(driver, th)
        /\ UNCHANGED fate
     \/ /\ proxy.sent /\ lock = NoThread
        /\ fate' = [fate EXCEPT ![links'] = "refused"]      \* DEAD_OBJECT
        /\ UNCHANGED <<driver, proxy, lock, thread>>

AddObituary(th) ==
  /\ At(th, "linking")
  /\ Unlock
  /\ LET l == thread[th].link
     IN  /\ proxy' = [proxy EXCEPT !.obituaries = @ \cup {l}]
         /\ fate' = [fate EXCEPT ![l] = "linked"]
  /\ thread' = [thread EXCEPT ![th].at = "idle", ![th].link = 0]
  /\ UNCHANGED <<driver, links>>

\* unlinkToDeath, up to its call of the driver and after it.  With mObitsSent
\* set or the recipient unknown it changes nothing.
UnlinkToDeath(th) ==
  /\ InApplication(th) /\ proxy.held
  /\ ~proxy.sent
  /\ \E l \in proxy.obituaries :
       /\ proxy' = [proxy EXCEPT !.obituaries = @ \ {l}]
       /\ fate' = [fate EXCEPT ![l] = "unlinked"]
       /\ IF proxy.obituaries = {l}
          THEN /\ TakeLock(th)
               /\ GoTo(th, "unlinking")
               /\ driver' = ClearDeath(driver, th)
          ELSE /\ lock = NoThread
               /\ UNCHANGED <<lock, thread, driver>>
  /\ UNCHANGED links

DropObituaries(th) ==
  /\ At(th, "unlinking")
  /\ Unlock
  /\ proxy' = [proxy EXCEPT !.vector = FALSE]
  /\ GoTo(th, "idle")
  /\ UNCHANGED <<driver, links, fate>>

\* Mutant: the lifetime of the proxy ends with its strong references.
ReleasedWithStrong(p) == [p EXCEPT !.exists = p.held]

\* The end of a reference: the last one runs ~BpBinder, which clears a
\* notification that it finds.
Released(p) == [p EXCEPT !.exists = p.held \/ p.refs > 0]

AfterRelease(th, p) ==
  /\ proxy' = Released(p)
  /\ driver' = IF ~Released(p).exists /\ p.vector THEN ClearDeath(driver, th) ELSE driver

\* The application lets go of the proxy, or finds it again in the handle table.
DropProxy(th) ==
  /\ InApplication(th) /\ proxy.held
  /\ \A other \in Thread : thread[other].at \notin {"linking", "unlinking"}
  /\ AfterRelease(th, [proxy EXCEPT !.held = FALSE])
  /\ UNCHANGED <<lock, thread, links, fate>>

GetProxy(th) ==
  /\ InApplication(th) /\ proxy.exists /\ ~proxy.held
  /\ proxy' = [proxy EXCEPT !.held = TRUE]
  /\ UNCHANGED <<driver, lock, thread, links, fate>>

-----------------------------------------------------------------------------
\* A read hands out records of the thread's own list if it has any, and of
\* proc->todo to a looper that is not in a call (in binderDied it is in one).
\* Other work on the list may end the read early.
Readable(th) == IF driver.todo[th] # <<>> THEN driver.todo[th]
                ELSE IF th \in Loopers /\ At(th, "idle") THEN driver.proc_todo ELSE <<>>

Rest(list, n) == SubSeq(list, n + 1, Len(list))

Read(th) ==
  /\ InApplication(th)
  /\ LET list == Readable(th)
         own  == driver.todo[th] # <<>>
     IN  \E n \in MayDeliver(driver, list) :
           /\ driver' = [Deliver(driver, list, n) EXCEPT
                           !.todo[th] = IF own THEN Rest(list, n) ELSE @,
                           !.proc_todo = IF own THEN @ ELSE Rest(list, n)]
           /\ thread' = [thread EXCEPT ![th].in = [i \in 1..n |-> Command(driver, list[i])]]
  /\ UNCHANGED <<proxy, lock, links, fate>>

\* executeCommand: BR_CLEAR_DEATH_NOTIFICATION_DONE.
ClearDone(th) ==
  /\ thread[th].in # <<>> /\ Head(thread[th].in) = "clear"
  /\ thread' = [thread EXCEPT ![th].in = Tail(@)]
  /\ AfterRelease(th, [proxy EXCEPT !.refs = @ - 1])
  /\ UNCHANGED <<lock, links, fate>>

\* executeCommand: BR_DEAD_BINDER, and the first line of sendObituary.
DeadBinder(th) ==
  /\ thread[th].in # <<>> /\ Head(thread[th].in) = "dead"
  /\ thread' = [thread EXCEPT ![th].in = Tail(@),
                              ![th].at = IF proxy.sent THEN "done" ELSE "unsent"]
  /\ UNCHANGED <<driver, proxy, lock, links, fate>>

\* sendObituary under mLock: with recipients the driver is told first.
SendObituary(th) ==
  /\ At(th, "unsent")
  /\ \/ /\ proxy.vector
        /\ TakeLock(th)
        /\ GoTo(th, "clearing")
        /\ driver' = ClearDeath(driver, th)
        /\ UNCHANGED proxy
     \/ /\ ~proxy.vector /\ lock = NoThread
        /\ proxy' = [proxy EXCEPT !.sent = TRUE]
        /\ GoTo(th, "done")
        /\ UNCHANGED <<driver, lock>>
  /\ UNCHANGED <<links, fate>>

\* Mutant: the vector is left with the proxy.
ObituariesKept(p) == [p EXCEPT !.sent = TRUE]

ObituariesTaken(p) == [p EXCEPT !.vector = FALSE, !.obituaries = {}, !.sent = TRUE]

TakeObituaries(th) ==
  /\ At(th, "clearing")
  /\ Unlock
  /\ proxy' = ObituariesTaken(proxy)
  /\ thread' = [thread EXCEPT ![th].left = proxy.obituaries,
                              ![th].at = IF proxy.obituaries = {} THEN "done" ELSE "reporting"]
  /\ UNCHANGED <<driver, links, fate>>

\* reportOneDeath calls binderDied, and the next recipient's turn comes when
\* that returns.
ReportOneDeath(th) ==
  /\ At(th, "reporting") /\ thread[th].in = <<>>
  /\ \E l \in thread[th].left :
       /\ fate' = [fate EXCEPT ![l] = IF @ = "told" THEN "told_again" ELSE "told"]
       /\ thread' = [thread EXCEPT ![th].left = @ \ {l},
                                   ![th].at = IF thread[th].left = {l} THEN "done" ELSE @]
  /\ UNCHANGED <<driver, proxy, lock, links>>

\* BC_DEAD_BINDER_DONE goes out with the thread's next call of the driver.
SendDone(th) ==
  /\ At(th, "done")
  /\ driver' = DeathDone(driver, th)
  /\ GoTo(th, IF thread[th].left = {} THEN "idle" ELSE "reporting")
  /\ UNCHANGED <<proxy, lock, links, fate>>

-----------------------------------------------------------------------------
\* The other process dies; a looper leaves; this process dies.
NodeDies ==
  /\ driver.node
  /\ driver' = NodeRelease(driver)
  /\ UNCHANGED <<proxy, lock, thread, links, fate>>

ThreadExits(th) ==
  /\ th \in Exiting /\ At(th, "idle") /\ thread[th].in = <<>>
  /\ driver' = ReleaseThreads(driver, {th})
  /\ GoTo(th, "gone")
  /\ UNCHANGED <<proxy, lock, links, fate>>

ProcessExits ==
  /\ MayExit
  /\ driver' = ReleaseProcess(driver)
  /\ UNCHANGED <<proxy, lock, thread, links, fate>>

Calls(th)   == LinkToDeath(th) \/ UnlinkToDeath(th) \/ DropProxy(th) \/ GetProxy(th)
Returns(th) == AddObituary(th) \/ DropObituaries(th)
Handles(th) == \/ ClearDone(th) \/ DeadBinder(th) \/ SendObituary(th)
               \/ TakeObituaries(th) \/ ReportOneDeath(th) \/ SendDone(th)

Next ==
  /\ driver.open
  /\ \/ \E th \in Thread : \/ Calls(th) \/ Returns(th) \/ Read(th) \/ Handles(th)
                           \/ ThreadExits(th)
     \/ NodeDies
     \/ ProcessExits

Spec == Init /\ [][Next]_vars

\* Threads are scheduled, binderDied returns, and a looper comes back to read.
Runs(th) == driver.open /\ (Returns(th) \/ Read(th) \/ Handles(th))
FairSpec == Spec /\ \A th \in Thread : WF_vars(Runs(th))

-----------------------------------------------------------------------------
\* The assertions of binder_node_release (a record of a live node's reference
\* is on no list) and of BC_CLEAR_DEATH_NOTIFICATION (one that is on a list is
\* an obituary) hold whenever those handlers run.
NoBugOn ==
  driver.ref # NoDeath =>
    /\ driver.node => ~OnList(driver, driver.ref)
    /\ OnList(driver, driver.ref) => driver.type[driver.ref] = "dead"

\* While nobody is in mLock, the driver holds a record for the proxy's
\* reference exactly when the proxy has obituaries to send: linkToDeath,
\* unlinkToDeath and sendObituary never leave the two apart.
DriverAgrees == lock = NoThread /\ driver.open => (proxy.vector <=> driver.ref # NoDeath)

Reporting(th) == th \in Thread /\ thread[th].at \in {"unsent", "clearing", "reporting", "done"}

Live == {d \in 1..driver.made : driver.frees[d] = 0}

\* A BR_DEAD_BINDER or a BR_CLEAR_DEATH_NOTIFICATION_DONE names the proxy by its
\* address: it exists as long as a record is with the driver, a command unread,
\* or sendObituary on its way, and when it goes it has nobody linked.
ProxyOutlivesItsDeaths ==
  driver.open /\ ~proxy.exists =>
    /\ Live = {} /\ ~proxy.vector
    /\ \A th \in Thread : thread[th].in = <<>> /\ ~Reporting(th)

Unread(th) == {i \in DOMAIN thread[th].in : thread[th].in[i] = "clear"}

\* Each weak reference of linkToDeath has one record, or one
\* BR_CLEAR_DEATH_NOTIFICATION_DONE that is to be executed, even when a
\* recipient is unlinked and another linked while an obituary is under way.
WeakCountExact ==
  proxy.refs = Cardinality(Live) + Cardinality(UNION {{th} \X Unread(th) : th \in Thread})

\* A record is freed once, is then on no list, and is freed at the latest with
\* the process: by the read, by binder_release_work or by binder_delete_ref.
DeathFreedOnce ==
  \A d \in 1..driver.made :
    /\ driver.frees[d] <= 1
    /\ driver.frees[d] = 1 => d # driver.ref /\ ~OnList(driver, d)
    /\ ~driver.open => driver.frees[d] = 1

\* The obituaries that a thread has read and not yet acknowledged.
Unacknowledged(th) ==
  {i \in DOMAIN thread[th].in : thread[th].in[i] = "dead"}
    \cup (IF Reporting(th) THEN {0} ELSE {})
    \cup (IF At(th, "done") /\ thread[th].left # {} THEN {-1} ELSE {})

\* delivered_death has a record for every acknowledgement that is to come, so
\* that BC_DEAD_BINDER_DONE finds one.
DoneFindsItsDeath ==
  driver.open =>
    Len(driver.delivered) = Cardinality(UNION {{th} \X Unacknowledged(th) : th \in Thread})

\* A proxy that the application has let go of does not outlive the remote object
\* for ever: the references of linkToDeath all come back.
DroppedProxyIsDestroyed == ~driver.node /\ ~proxy.held ~> proxy.held \/ ~proxy.exists

\* linkToDeath keeps its promise.
Notice == INSTANCE DeathNotice WITH dead <- ~driver.node
ImplementsDeathNotice == Notice!Spec
=============================================================================
