--------------------------- MODULE BinderThreadPool ---------------------------
(***************************************************************************)
(* The thread pool of one process: the looper counters of binder_proc and  *)
(* the sleep of its idle threads in the driver (driver-binder.c), and the  *)
(* threads that libbinder starts when the driver asks for one              *)
(* (ProcessState.cpp, IPCThreadState.cpp).                                 *)
(*                                                                         *)
(* An action is what a thread does from taking binder_main_lock to         *)
(* releasing it.  Between BeginRead and Leave a thread is in               *)
(* binder_thread_read without the lock.  The work itself is counted: it is *)
(* BinderTransaction that says what it is.                                 *)
(***************************************************************************)
EXTENDS Integers, FiniteSets

CONSTANTS
  Mains,       \* threads that join the pool with isMain = true
  Pooled,      \* threads that spawnPooledThread(false) may create
  Volunteers,  \* threads of the program that call joinThreadPool(false)
  Clients,     \* threads that call other processes and never join
  MaxThreads,  \* BINDER_SET_MAX_THREADS of ProcessState's open_driver
  Resizes,     \* later values, from setThreadPoolMaxThreadCount
  JoinsFirst,  \* a main thread may join before startThreadPool
  MaxWork      \* how much work a behaviour queues for the process

Thread == Mains \cup Pooled \cup Volunteers \cup Clients
Limits == {MaxThreads} \cup Resizes

ASSUME PoolAssumption ==
  /\ IsFiniteSet(Thread)
  /\ MaxThreads \in Nat /\ Resizes \subseteq Nat
  /\ \A l \in Limits : l <= Cardinality(Pooled)
  /\ Mains \cap (Pooled \cup Volunteers \cup Clients) = {}
  /\ Pooled \cap (Volunteers \cup Clients) = {} /\ Volunteers \cap Clients = {}
  /\ JoinsFirst \in BOOLEAN
  /\ MaxWork \in Nat

VARIABLES
  max, requested, started, ready,  \* max_threads, requested_threads,
                                   \* requested_threads_started, ready_threads
  posted, taken,  \* work put on proc->todo, and taken off it
  thread,         \* binder_thread of each thread, and where the thread is
  poolStarted     \* mThreadPoolStarted

counters == <<max, requested, started, ready>>
vars == <<counters, posted, taken, thread, poolStarted>>

(***************************************************************************)
(* Where a thread is: not started; created by spawnPooledThread; in its    *)
(* own code, about to read; in a handler; in binder_thread_read, about to  *)
(* look for work, asleep, past the wait, or driven out of it by a signal.  *)
(***************************************************************************)
Places   == {"outside", "created", "user", "handling",
             "checking", "asleep", "leaving", "interrupted"}
InWait   == {"checking", "asleep", "leaving", "interrupted"}
BinderThread ==
  [at : Places, looper : SUBSET {"REGISTERED", "ENTERED", "INVALID"},
   need_return : BOOLEAN,
   spawn : BOOLEAN]      \* BR_SPAWN_LOOPER is the next command in its mIn

TypeOK ==
  /\ max \in Limits /\ requested \in Nat /\ started \in Nat /\ ready \in Int
  /\ posted \in 0..MaxWork /\ taken \in 0..posted
  /\ thread \in [Thread -> BinderThread]
  /\ poolStarted \in BOOLEAN

Init ==
  /\ max = MaxThreads /\ requested = 0 /\ started = 0 /\ ready = 0
  /\ posted = 0 /\ taken = 0
  /\ thread = [th \in Thread |-> [at |-> IF th \in Clients THEN "handling" ELSE "outside",
                                  looper |-> {}, need_return |-> FALSE, spawn |-> FALSE]]
  /\ poolStarted = FALSE

-----------------------------------------------------------------------------
IsLooper(th) == thread[th].looper \cap {"REGISTERED", "ENTERED"} # {}

\* The thread runs its own code; BR_SPAWN_LOOPER comes before what was read.
Runs(th, place) == thread[th].at = place /\ ~thread[th].spawn

\* startThreadPool: spawnPooledThread(true), once.
StartThreadPool(th) ==
  /\ ~poolStarted
  /\ th \in Mains /\ thread[th].at = "outside"
  /\ poolStarted' = TRUE
  /\ thread' = [thread EXCEPT ![th].at = "created"]
  /\ UNCHANGED <<counters, posted, taken>>

\* BR_SPAWN_LOOPER: spawnPooledThread(false), which does nothing unless
\* startThreadPool was called.
SpawnPooledThread(th) ==
  /\ thread[th].spawn
  /\ \/ /\ ~poolStarted
        /\ thread' = [thread EXCEPT ![th].spawn = FALSE]
     \/ /\ poolStarted
        /\ \E new \in Pooled :
             /\ thread[new].at = "outside"
             /\ thread' = [thread EXCEPT ![th].spawn = FALSE, ![new].at = "created"]
  /\ UNCHANGED <<counters, posted, taken, poolStarted>>

MayJoin(th) ==
  \/ thread[th].at = "created"
  \/ thread[th].at = "outside" /\ th \in Mains /\ (poolStarted \/ JoinsFirst)
  \/ thread[th].at = "outside" /\ th \in Volunteers

\* The thread begins its first read as a looper.  A thread that the driver has
\* not seen before is to return from it.
FirstRead(th, looper) ==
  /\ MayJoin(th)
  /\ \E unseen \in BOOLEAN :
       /\ thread[th].at = "created" => unseen
       /\ thread' = [thread EXCEPT ![th] = [@ EXCEPT !.at = "checking", !.looper = looper,
                                                     !.need_return = unseen]]
  /\ ready' = ready + 1

\* joinThreadPool(true): BC_ENTER_LOOPER, and the first read in the same ioctl.
Enter(th) ==
  /\ th \in Mains
  /\ FirstRead(th, {"ENTERED"})
  /\ UNCHANGED <<max, requested, started, posted, taken, poolStarted>>

\* Mutants: registration takes no account of requests; it counts half.
AnyRegistration == TRUE
CountNoStart    == requested' = requested - 1 /\ UNCHANGED started
CountNoArrival  == UNCHANGED requested /\ started' = started + 1

WasRequested      == requested # 0
CountRegistration == requested' = requested - 1 /\ started' = started + 1

\* joinThreadPool(false): BC_REGISTER_LOOPER, and the first read.
Register(th) ==
  /\ th \notin Mains
  /\ \/ /\ WasRequested
        /\ CountRegistration
        /\ FirstRead(th, {"REGISTERED"})
     \/ /\ ~WasRequested
        /\ UNCHANGED <<requested, started>>
        /\ FirstRead(th, {"REGISTERED", "INVALID"})
  /\ UNCHANGED <<max, posted, taken, poolStarted>>

\* BINDER_SET_MAX_THREADS.
SetMaxThreads(n) ==
  /\ max' = n
  /\ UNCHANGED <<requested, started, ready, posted, taken, thread, poolStarted>>

\* The handler has returned and its reply is sent.
FinishHandler(th) ==
  /\ Runs(th, "handling") /\ IsLooper(th)
  /\ thread' = [thread EXCEPT ![th].at = "user"]
  /\ UNCHANGED <<counters, posted, taken, poolStarted>>

-----------------------------------------------------------------------------
\* Mutant: only the flag is looked at.
ToldToReturn(th) == thread[th].need_return
HasProcWork(th)  == posted > taken \/ thread[th].need_return

\* wake_up_interruptible(&proc->wait): one exclusive waiter, whichever, gets up
\* to look for work.
WakeOne(threads) ==
  \/ /\ \A q \in Thread : threads[q].at # "asleep"
     /\ thread' = threads
  \/ \E q \in Thread : /\ threads[q].at = "asleep"
                       /\ thread' = [threads EXCEPT ![q].at = "checking"]

\* The end of the ioctl: what is left on proc->todo is another thread's.
EndIoctl(threads, left) == IF left THEN WakeOne(threads) ELSE thread' = threads

\* Mutants: the limit is missed by one; the request under way is forgotten.
NeedsThreadOneShort(th, idle) == requested + idle = 0 /\ started + 1 < max /\ IsLooper(th)
NeedsThreadAgain(th, idle)    == idle = 0 /\ started < max /\ IsLooper(th)

\* BR_SPAWN_LOOPER: no thread is idle or on its way, and the pool may grow.
NeedsThread(th, idle) == requested + idle = 0 /\ started < max /\ IsLooper(th)

\* The label done of binder_thread_read, with idle threads waiting, then the
\* end of the ioctl; the thread goes on at place.
Done(th, idle, place, left) ==
  /\ requested' = IF NeedsThread(th, idle) THEN requested + 1 ELSE requested
  /\ EndIoctl([thread EXCEPT ![th] = [@ EXCEPT !.at = place, !.need_return = FALSE,
                                               !.spawn = NeedsThread(th, idle)]], left)

\* Work for the process, from a caller or from the driver: a wake for each.
Post ==
  /\ posted < MaxWork
  /\ posted' = posted + 1
  /\ WakeOne(thread)
  /\ UNCHANGED <<counters, taken, poolStarted>>

\* binder_thread_read by a thread with no call and no work of its own, up to
\* the release of the lock.
BeginRead(th) ==
  /\ Runs(th, "user") /\ IsLooper(th)
  /\ ready' = ready + 1
  /\ thread' = [thread EXCEPT ![th].at = "checking"]
  /\ UNCHANGED <<max, requested, started, posted, taken, poolStarted>>

\* wait_event_freezable_exclusive, without the lock.
Check(th) ==
  /\ thread[th].at = "checking"
  /\ thread' = [thread EXCEPT ![th].at = IF HasProcWork(th) THEN "leaving" ELSE "asleep"]
  /\ UNCHANGED <<counters, posted, taken, poolStarted>>

\* A signal ends the sleep of a thread.
Interrupt(th) ==
  /\ thread[th].at = "asleep"
  /\ thread' = [thread EXCEPT ![th].at = "interrupted"]
  /\ UNCHANGED <<counters, posted, taken, poolStarted>>

\* The read fails with -ERESTARTSYS: talkWithDriver reads again.
Restart(th) ==
  /\ thread[th].at = "interrupted"
  /\ ready' = ready - 1
  /\ EndIoctl([thread EXCEPT ![th] = [@ EXCEPT !.at = "user", !.need_return = FALSE]],
              posted > taken)
  /\ UNCHANGED <<max, requested, started, posted, taken, poolStarted>>

\* The thread takes the lock again, and work if another has not taken it.
TakeWork(th) ==
  /\ thread[th].at = "leaving"
  /\ posted > taken
  /\ taken' = taken + 1
  /\ ready' = ready - 1
  /\ Done(th, ready - 1, "handling", posted > taken + 1)
  /\ UNCHANGED <<max, started, posted, poolStarted>>

\* No work, but the thread was told to return.
ReturnEmpty(th) ==
  /\ thread[th].at = "leaving"
  /\ posted = taken /\ thread[th].need_return
  /\ ready' = ready - 1
  /\ Done(th, ready - 1, "user", FALSE)
  /\ UNCHANGED <<max, started, posted, taken, poolStarted>>

\* Mutant: the thread is counted as idle once more.
RetryCounted(th) ==
  /\ thread[th].at = "leaving"
  /\ posted = taken /\ ~thread[th].need_return
  /\ thread' = [thread EXCEPT ![th].at = "checking"]
  /\ ready' = ready + 1
  /\ UNCHANGED <<max, requested, started, posted, taken, poolStarted>>

\* No work: the thread waits again, without having released the lock.
Retry(th) ==
  /\ thread[th].at = "leaving"
  /\ posted = taken /\ ~thread[th].need_return
  /\ thread' = [thread EXCEPT ![th].at = "checking"]
  /\ UNCHANGED <<counters, posted, taken, poolStarted>>

\* A read of a thread that has a call or work of its own: of a handler that
\* calls or replies, of a client.  proc->todo is left alone.
ReadOwnWork(th) ==
  /\ Runs(th, "handling")
  /\ Done(th, ready, "handling", posted > taken)
  /\ UNCHANGED <<max, started, ready, posted, taken, poolStarted>>

\* binder_flush: every thread returns from the driver.
DeferredFlush ==
  /\ thread' = [th \in Thread |->
       IF thread[th].at \in {"outside", "created"} THEN thread[th]
       ELSE [thread[th] EXCEPT !.need_return = TRUE,
                               !.at = IF @ = "asleep" THEN "checking" ELSE @]]
  /\ UNCHANGED <<counters, posted, taken, poolStarted>>

-----------------------------------------------------------------------------
Read(th) == \/ BeginRead(th) \/ Check(th) \/ Restart(th)
            \/ TakeWork(th) \/ ReturnEmpty(th) \/ Retry(th)
Join(th) == Enter(th) \/ Register(th)

Next ==
  \/ \E th \in Thread :
       \/ StartThreadPool(th) \/ SpawnPooledThread(th) \/ Join(th)
       \/ FinishHandler(th) \/ ReadOwnWork(th)
       \/ Read(th) \/ Interrupt(th)
  \/ Post \/ DeferredFlush
  \/ \E n \in Resizes : SetMaxThreads(n)

Spec == Init /\ [][Next]_vars

(***************************************************************************)
(* A thread in the pool goes on to its next read, a command that libbinder *)
(* read is executed, a thread that was created runs.  Handlers need not    *)
(* return; nothing makes work come or a signal strike.                     *)
(***************************************************************************)
FairSpec ==
  /\ Spec
  /\ \A th \in Thread : /\ WF_vars(Read(th))
                        /\ WF_vars(SpawnPooledThread(th))
                        /\ WF_vars(thread[th].at = "created" /\ Join(th))

-----------------------------------------------------------------------------
At(places)   == {th \in Thread : thread[th].at \in places}
Loopers      == {th \in Thread : IsLooper(th)}
OnTheWay     == {th \in Thread : thread[th].spawn} \cup (At({"created"}) \ Mains)
Registered   == {th \in Thread : "REGISTERED" \in thread[th].looper}

(***************************************************************************)
(* The driver never asks for more threads than the largest limit it was    *)
(* given, and asks for one at a time, whoever registers.                   *)
(***************************************************************************)
CountersBounded ==
  /\ requested <= 1
  /\ \E l \in Limits : started + requested <= l

\* ready_threads is the number of threads that wait for work of the process.
ReadyIsExact == ready = Cardinality(At(InWait))

(***************************************************************************)
(* The counters and the threads agree: a request stands for one thread on  *)
(* its way to the pool, a start for one that has arrived, and none was     *)
(* refused.                                                                *)
(***************************************************************************)
RequestsMatch ==
  /\ requested = Cardinality(OnTheWay)
  /\ started = Cardinality(Registered)
  /\ \A th \in Thread : "INVALID" \notin thread[th].looper

(***************************************************************************)
(* Work never waits for a thread that sleeps on: when there are both, some *)
(* thread is about to look for work or to take it.                         *)
(***************************************************************************)
NoLostWakeup ==
  posted > taken /\ At({"asleep"}) # {} => At({"checking", "leaving"}) # {}

(***************************************************************************)
(* When every looper is in a handler, either another thread is on its way  *)
(* or the pool has all the threads it may have.                            *)
(***************************************************************************)
PoolGrows ==
  Loopers # {} /\ Loopers \subseteq At({"handling"}) => requested = 1 \/ started >= max

(***************************************************************************)
(* As much work as the pool may have threads is read, though no handler    *)
(* ever returns: each of them may wait for another one.                    *)
(***************************************************************************)
EveryWorkIsRead ==
  \A w \in 1..MaxWork : (posted >= w /\ Loopers # {}) ~> taken >= w
=============================================================================
