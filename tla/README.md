# Android-samples: a verification project

The repository is a collection of Android samples around one real system: an
annotated copy of Android's **binder** IPC, from the kernel driver
(`driver-binder.c`) through the C++ client library (`IPCThreadState.cpp`,
`ProcessState.cpp`, `BpBinder.cpp`, `Binder.cpp`) to the service manager
(`service_manager.c`, `sm-binderc.c`). Around it are small Kotlin and Java
samples (a JavaScript bridge, a CSS object model, views, jetpack stubs). The
binder stack is what this project specifies: it is concurrent, it survives the
death of the processes it connects, and it is the part whose correctness a unit
test hardly reaches.

All paths below are relative to `src/app/src/main/java/com/d/framework/binder/`
unless they start with `src/`.

## The system

| component | state | operations | modules |
|---|---|---|---|
| Driver: transactions | call stacks, todo lists, `return_error(2)`, nodes' `async_todo`, buffers' flags | `binder_transaction`, `binder_thread_read`, `BC_FREE_BUFFER`, `BINDER_THREAD_EXIT`, `binder_release` | `BinderTransaction` |
| Driver + libbinder: thread pool | `max/requested/started/ready` counters, looper flags, sleepers on `proc->wait` | `BC_ENTER/REGISTER_LOOPER`, the wait of `binder_thread_read`, `BR_SPAWN_LOOPER`, flush, `joinThreadPool`, `spawnPooledThread` | `BinderThreadPool` |
| Driver: nodes and references | counts and flags of `binder_node`, `binder_ref` | `BC_INCREFS` ... `BC_ACQUIRE_DONE`, `BR_INCREFS` ... `BR_DECREFS`, node release | `BinderRefs` |
| Driver: death notifications | `binder_ref_death`, `delivered_death` | request, clear, `BC_DEAD_BINDER_DONE`, node release | `BinderDeath` |
| Driver: buffer allocator | free and allocated buffers, pages, `free_async_space` | `binder_alloc_buf`, `binder_free_buf`, release | `BinderAlloc` |
| Driver: object translation | the objects of a transaction, the target's files and counts | `binder_translate_*`, `binder_fixup_parent`, `binder_transaction_buffer_release` | `BinderObjects` |
| libbinder: `ProcessState` | the handle table | get and expunge a proxy | `ProxyTable` |
| libbinder: `IPCThreadState` | `mIn`, `mOut`, pending derefs | pool loop, `executeCommand`, `processPendingDerefs`, handle commands, flush | parts in `BinderThreadPool`, `BinderRefs`, `BinderDeath`, `ProxyTable`; its order of commands is a precondition of `BinderTransaction` |
| libbinder: `BpBinder` | recipients, `mAlive`, `mObitsSent`, its counts | link, unlink, obituary; first and last reference, destructor | `BinderDeath` with its promise `DeathNotice`; `ProxyTable` |
| service manager and its clients | the list of names | add, get, list, death | `ServiceManager` |
| JavaScript bridge | calls in flight, listeners | call, receive | not modelled |
| CSS object model | rules and scores | match, cascade | not modelled |
| Views, hot fix, Android stubs | none of their own | - | not modelled |

How they interact: processes reach each other only through the driver. A thread
writes commands (`BC_*`) and reads returns (`BR_*`) in one ioctl; the driver
takes `binder_main_lock` for the whole ioctl and gives it up only while a read
sleeps. A process's threads share its todo list and its counters; libbinder's
threads share the handle table under `ProcessState::mLock`. What makes it hard:
calls nest across processes, so one call stack is spread over several threads;
threads and processes die at any point of a nested call; state computed before
a sleep is used after it; oneway calls, death notices and reference acks are
queued on lists of different owners; and the pool must grow just before its last
thread gets blocked.

## Modules

### BinderTransaction

The calls of a set of processes. One action is one command of
`binder_thread_write`; a read is split where it sleeps. The driver's loops under
the lock (`binder_send_failed_reply`, `binder_free_thread`,
`binder_release_work`, `binder_deferred_release`) run one iteration per action
while `failing`, `freeing` or `releasing` says who holds the lock, so every
intermediate state of an unwinding is visible to the invariants.

* `tx[t]` is `struct binder_transaction` (`from`, `to_thread`, `from_parent`,
  `to_parent`, `buffer`), `buffer[t]` the call's `struct binder_buffer`
  (`allow_user_free` is state `"user"`), `thread[th]` and `proc[p]` the
  `binder_thread` and `binder_proc` with its one node. `debug_id`s are handed
  out in order, `1..MaxCalls`.
* `SyncCall`, `OnewayCall`, `CallDeadNode`, `CallBadStack`, `CallRefused`,
  `Reply`, `ReplyFailed`, `ReplyBadStack` are the paths of
  `binder_transaction`; `BcFreeBuffer` is `BC_FREE_BUFFER`; `ReadErrors`,
  `Sleep`, `ReadThreadWork`, `ReadProcWork`, `ReadRetry` are
  `binder_thread_read`; `ThreadExit`, `Close`, `DeferredRelease` and the
  `Release*` actions are the ways out.
* Threads in `Unruly` may write any command at any time, and the driver may
  refuse theirs; the others keep to the order of `IPCThreadState` (read the
  completion, answer what was received, free its buffer before the next read).
  This is a precondition taken from `IPCThreadState::executeCommand` and
  `waitForResponse`; in `nested_calls` one process drops it.

A BUG_ON of the code appears as a conjunct of `NoBugOn`, so a state in which it
would fire is a violation.

### BinderThreadPool

The pool of one process. The wait of `binder_thread_read` is cut into what runs
under the lock and what does not: `BeginRead` (count oneself as ready, release
the lock), `Check` (the condition of `wait_event_freezable_exclusive`), asleep,
`Interrupt`, and then `TakeWork`, `ReturnEmpty`, `Retry` or `Restart` under the
lock again. `WakeOne` is `wake_up_interruptible` on an exclusive wait queue:
one sleeper, any of them. `Done` is the label of that name with the request for
a new thread, followed by the second wake that `binder_ioctl_write_read` issues
when work is left. On libbinder's side, `StartThreadPool`, `SpawnPooledThread`,
`Enter` and `Register` are `startThreadPool`, `spawnPooledThread` and the two
forms of `joinThreadPool`.

`Mains` join with `isMain`, `Pooled` are the threads that `spawnPooledThread`
can start, `Volunteers` register without having been asked for, `Clients` only
call out. The work is counted (`posted`, `taken`): what it is belongs to
`BinderTransaction`.

These two modules keep the same lock and the same `binder_thread_read`, from two
sides: the first one abstracts who is woken, the second what is called.

### BinderDeath and DeathNotice

Death notifications of one proxy, from `linkToDeath` through the driver and back
to `binderDied`. `DeathNotice` is the promise: each call of `linkToDeath` is
refused, or linked and then told once of the death unless it is unlinked first.
`BinderDeath` implements it (`fate` is `fate`, `dead` is `~driver.node`).

* `driver` holds the reference's `ref->death`, the records with their
  `work.type`, and the lists they move on. Each command of the driver is an
  operator from one value of `driver` to the next: `RequestDeath`, `ClearDeath`,
  `DeathDone`, `NodeRelease`, `Deliver`, `ReleaseThreads`, `DeleteRef`.
  `frees` counts the `kfree`s of each record.
* `proxy` is the `BpBinder`: `vector` and `obituaries` are `mObituaries`, `sent` is
  `mObitsSent`, `refs` the weak references that `linkToDeath` takes and
  `BR_CLEAR_DEATH_NOTIFICATION_DONE` gives back.
* `lock` is `mLock`. `linkToDeath`, `unlinkToDeath` and `sendObituary` are cut at
  their call of the driver, which they make with `mLock` held and during which
  the driver may serve another thread. `DeadBinder` is the test of `mObitsSent`
  without the lock, `SendObituary` and `TakeObituaries` what follows under it,
  `ReportOneDeath` each `binderDied`, in which the thread may read again.
* A read hands out several records at once, up to and including the first
  obituary, as the `goto done` of `binder_thread_read` has it.

The destructor's branch that clears a notification is in `AfterRelease`;
`ProxyOutlivesItsDeaths` says that it finds none.

### BinderRefs

The references to one object: its `binder_node` in the owner's process, the
`binder_ref` of each holder, and the two threads of the owner through which the
driver tells the owner to take and drop references. The driver's functions
(`binder_inc_node`, `binder_dec_node`, `binder_inc_ref`, `binder_delete_ref`, ...)
are operators from one value of `node` to the next, named after them and cut by
their arguments `strong` and `internal`.

* `node` holds the counts and flags of the node, the counts of the references and
  the lists its work can be on. `NodeWork` is one turn of `BINDER_WORK_NODE`; each turn
  of `binder_thread_read` is a step, `lock` says who reads, and the reader may
  stop after any of them, as when its buffer is full.
* `thread` holds `mIn`, `mOut` and the pending derefs of the owner's threads;
  `Execute` is `executeCommand`, `processPendingDerefs` what it is in the code.
  `object` is the `RefBase` object: `app` the reference of the owner's program,
  `strong` and `weak` what the driver's commands took. A parcel that is being sent
  and a call under way keep it alive too (`Keeps`).
* Holders keep to libbinder's order (`INCREFS`, `ACQUIRE`, free the buffer, `RELEASE`,
  `DECREFS`), pass the handle on, call the object, and may die at any point. The
  owner may die as well. Holders in `Unruly` would send any command; no run has one, because
  they lose only what is theirs.

### BinderAlloc

The buffer area of one process, in bytes and pages. A buffer is the address of its
header, `headers` is `proc->buffers`, `free` the free ones and `key` the size under which
each was put into the tree of free buffers, so that `TreeIsOrdered` can say that the
walks, which compute sizes anew, still find them. `binder_alloc_buf` and `Free`
(`binder_free_buf`) are the operations, `Return`, `UserFrees`, `TransactionFails`, `Unmap`,
`ReleaseBuffer` and `ReleasePages` who calls them. `size_t` sums wrap at
`Wrap`. Every `BUG_ON` sets `area.bug`. `AsyncSpaceExact` says that the space for oneway calls
is never given out twice or lost, and never runs below zero, which is the limit in
`binder_alloc_buf` (`driver-binder.c:812`).

### BinderObjects

The loop over the objects of a transaction and its undoing. Each object is a step,
because the target's program opens and closes files between them: its file table is
not under the driver's lock. A buffer has its objects, the cells of its extra area
(`sg_bufp`), and the last fixup (`last`, `min`: `last_fixup_obj`, `last_fixup_min_off`). `TranslateFlat`,
`TranslateFd`, `TranslatePtr`, `TranslateFdArray` are the cases of `binder_transaction`,
`Fails` and `FdArrayFails` the way through `err_translate_failed`, `UserFrees`
`BC_FREE_BUFFER`. `files` says of each descriptor of the target whether its own program
opened it or a transaction installed it. Plain descriptors are the receiver's once
delivered (`Parcel::closeFileDescriptors` closes them), those of arrays are closed with the
buffer. A `u64` is as large as a kernel pointer here, as on every 64-bit kernel.

The loop of `binder_validate_fixup` walks from the last fixup up to its ancestors. `Lineage` is the
set of objects that it may meet, stated as the smallest set that has the last fixup and is closed under
`parent`, so that it can be reasoned about without recursion.

### ProxyTable

The proxies of one process: `table` is `mHandleToObject`, `proxy` each address at
which a `BpBinder` may lie, `user[t]` the pointers thread `t` holds, its parcel and its
`mOut`. Counts of `RefBase` are the pointers to a proxy. `Find` and `Create` are the two
outcomes of `getStrongProxyForHandle` and `getWeakProxyForHandle`; `DropWeak` begins the
destructor of the last pointer and `Destroy` is the rest of it, with
`expungeHandle`: in between, another thread may read the handle and replace the entry. `Flush` sends
what a thread has written.

`overtaken` is a history variable: it becomes true when a thread sends a decrement of a
handle while an increment of the same handle waits in another thread's `mOut`. For
instance, a thread creates a proxy and passes it on before it has sent its
`BC_ACQUIRE`; the other thread drops the last pointer and sends `BC_RELEASE` first, which takes
away the reference of the buffer that brought the handle. The driver deletes its `binder_ref`, the
later increments name nothing, and a proxy that is made strong again from the same parcel stands for a handle that the
driver may give to another object. `ReferencesAgree` holds up to that moment and
not beyond; that is what it says, and what `ReferencesKept` proves. (The comment at `ProcessState.cpp:196`, "The context
manager is the only object for which we create a BpBinder proxy without already holding a
reference", is true when a proxy is created, and does not say how long.)

### ServiceManager

The registry (`svclist`), the references of the manager's process, its one thread and its
clients. A node has one reference in the manager's process, and it is the reference that has the death
record; the driver's lists are sequences from which it takes its record off when the
reference goes. `Read` is `binder_loop` with the driver's read, `CheckService`, `ListServices`,
`AddRefused`, `do_add_service` and `svcinfo_death` are `svcmgr_handler` and what it calls;
`binder_acquire` and `binder_link_to_death` are writes of their own, so that a service
may die between them. `addService`, `getService` and `listServices` are the client's functions,
one transaction per step. `ListServices` answers with what `bio_put_string16` makes of a name: the
reply has 240 bytes (`binder_parse`, `bio_init`), `Fits` is `bio_alloc`'s arithmetic, and nobody looks at
`BIO_F_OVERFLOW`, so a name of 118 to 127 units, which `do_add_service` accepts
(`service_manager.c:145`), goes out as a length without text. The client's `readString16`, which
is not in the repository, makes an empty string of that (`NoName`). `Units` gives each name its
length; no name contains a zero. A service is one binder in a process of its own; one that
is restarted is another service of the same name.

## What the runs check

| run | instance | shows |
|---|---|---|
| `nested_calls` | processes A, B, C with a thread each, handles in a ring, three calls; C may die and is unruly, B's thread may exit | `NoBugOn`, `EveryCallHasAnAnswerer`, `NoDanglingPointer`, `SleepersAreIdle`, `CallerIsTold` |
| `answers` | A with one and B with two threads, three calls, synchronous and oneway, B may die, under fairness | `OneAsyncAtATime`, `OnewayInOrder`, `EveryOnewayArrives`, `EveryCallIsAnswered` |
| `pool` | a main thread, two pool threads, one that registers unasked, a client, a limit that goes to 0, 1 and 2, joins before `startThreadPool`, three pieces of work | `TypeOK`, `ReadyIsExact`, `CountersBounded`, `NoLostWakeup` |
| `pool_blocked` | a main and two pool threads, a client, limit 2, three pieces of work, handlers need not return, under fairness | `RequestsMatch`, `PoolGrows`, `EveryWorkIsRead` |
| `death` | two loopers, one of which may exit, a client thread, four links; both processes may die | `NoBugOn`, `DriverAgrees`, `ProxyOutlivesItsDeaths`, `DeathFreedOnce`, `DoneFindsItsDeath` |
| `death_notice` | the same threads without exits, three links, under fairness | `WeakCountExact`, `ImplementsDeathNotice`, `DroppedProxyIsDestroyed` |
| `alloc` | five pages of eight bytes, requests that are empty, odd, half of the area, and three whose sums overflow | `BuffersFit`, `PagesExact`, `AsyncSpaceExact`, `TreeIsOrdered`, `NoBugOn` |
| `refs` | two threads of the owner, two holders of which one may die, two sends, which may fail, and one call or handle passed on; the owner may die, under fairness | `RemoteKeepsObject`, `CountsAgree`, `ObjectIsReleased` |
| `refs_failed_send` | two threads of the owner, two holders, two sends, which may fail, no deaths | violation of `AcquireFindsObject` |
| `services` | two services, one with two names, of 117 and 118 units, the first of which both claim, three registrations, a client that asks twice and lists once, under fairness | `RegistryHoldsItsHandles`, `ListingIsComplete`, `DeadServiceIsForgotten` |
| `objects` | two buffers at a time with three objects of every type, two descriptors, one node, two areas, overlapping and unaligned offsets | `NothingLeaks`, `FixupsStand`, `OwnFilesAreKept` |
| `proxies` | two threads, two objects, two proxies, two handles, two buffers, two commands per `mOut` | `OneProxyPerHandle`, `ReferencesAgree` |

Each module has a `TypeOK`; the runs list only the one of the pool, whose ranges
say something (no counter goes below zero). The others hold in the same instances.

### A send that fails

`refs_failed_send` shows a real defect. `binder_inc_node` moves the node's queued work
to the list of the thread that sends the object (`driver-binder.c:1082`), so that
`BR_INCREFS` and `BR_ACQUIRE` reach that thread before its `BR_TRANSACTION_COMPLETE`, while
its parcel still keeps the object. When another thread has sent the object just before, the
work is taken from that thread's list. If the second transaction then fails, at a later object, the
work stays with the second thread (`err_translate_failed`, `driver-binder.c:2313`), which reads the error alone
(`driver-binder.c:2783`) and lets go of its parcel; the first thread reads its completion without
the two commands and lets go as well.

In the run the first send goes to one holder and the failed one to another. The first holder has its
strong handle all the while; that is why the driver still tells the second thread to take a strong
reference, at its next read. Before it executes the commands the owner drops the object, which is destroyed with its weak references:
`BR_INCREFS` (`IPCThreadState.cpp:1014`) counts in freed memory, and `BR_ACQUIRE` evaluates its
assertion on it (`IPCThreadState.cpp:985`), which is what `AcquireFindsObject` says must not happen.
With one holder the failed send takes back the only strong reference, and there would be no
strong handle left; so there are two.

`RemoteKeepsObject` says that nothing else loses the
object: it holds in `refs`, failed sends included, as long as none of them took work from another thread.
`RemoteKeeps` proves that for every number of threads, holders and sends, and `NeverMisused` that without
failing sends `ReferencedObjectLives` and `AcquireFindsObject` always hold: the failed send is the only cause.

### Bounds

Three calls in a ring are the smallest chain that comes back to its
first process while two calls are pending, which is what the walk for a target
thread, the two kinds of link on one stack and an orphaned call in the middle
of a chain need. Three oneway calls put one in `async_todo` behind one in
progress and one that was freed. In the pool, two pool threads are the least
for which a request may be under way while one has arrived; three pieces of work are
as many as its pool may have threads. Three links are the least for a recipient that is
unlinked, one linked in its place while the first record is queued or
delivered, and one that joins it or comes too late; two loopers can then hold an
obituary each.

Five pages hold enough buffers to free one before, after and between others, and a header
of six bytes often lies across two pages of eight, so that the cases of page sharing occur. Two sends
from two threads are what it takes to divert a node's work; two holders, so that one
lets go while the other holds. Three registrations let a service have two names and die, and
its successor take one of them; names of 117 and 118 units are the last that a listing gives and
the first that it does not. Three objects are a parent, its child, and an array or a pointer
that goes back up to the parent, which is the case that `last_fixup_min_off` is for; spread over
two buffers they show whose descriptors a free closes.
Two proxies at two addresses, two handles and two buffers are the least
for a proxy that is replaced while its destructor runs.

### Stops and fairness

A system whose calls are all made, or whose processes have died, has
nothing to do: only the pool runs check deadlock. There,
signals and flushes aside, some thread can always go on.

`BinderTransaction!FairSpec` lets the holder of the lock and every
thread with something to read go on (the kernel's scheduler), and makes a thread
that has received a call answer it and free its buffer *strongly* fair, because
it may make calls of its own in between; that is what
`IPCThreadState::executeCommand` does after the handler has returned.
`BinderThreadPool!FairSpec` is weaker still: pool threads read, `BR_SPAWN_LOOPER`
is executed, a created thread runs; handlers need not return.
`BinderDeath!FairSpec` lets each thread finish what it has begun and come back to
read: `binderDied` returns. Nobody need link, unlink or drop anything.
`BinderRefs!FairSpec` runs the owner's threads: each executes what it has read, ends its calls,
sends what it has written and reads again. Holders need do nothing.
`ServiceManager!FairSpec` runs the manager's thread.

## What is proved

The theorems hold for every value of the constants that satisfies the modules' `ASSUME`s,
and need nothing else unless it is said here. Each is proved from an invariant that is
inductive; those were checked by TLC on the instances of the runs before they were proved.

| module | theorems |
|---|---|
| `BinderCallProofs` | `TypeCorrect`, `NoBugInCalls`, `PointersAreGood`, `SleepersStayIdle`, `OnewayCallsTakeTurns`, `CallsAreAnswered`, `CallersAreTold`, `OnewayCallsKeepOrder` |
| `BinderThreadPoolProofs` | `PoolTypeCorrect`, `ReadyCorrect`, `CountersCorrect`, `WakeupCorrect`, `GrowthCorrect`, `RequestsCorrect` |
| `BinderDeathProofs` | `TypeCorrect`, `NeverBugOn`, `DriverAlwaysAgrees`, `FreedOnce`, `EveryDoneFindsItsDeath`, `WeakCountIsExact`, `ProxyLivesLongEnough`, `KeepsThePromise` |
| `BinderRefsProofs` | `TypeCorrect`, `CountsStayRight`, `RemoteKeeps`, `NeverMisused` |
| `ProxyTableProofs` | `OneProxy`, `ReferencesKept` |
| `BinderAllocProofs` | `TypeCorrect`, `BuffersAlwaysFit`, `PagesAlwaysExact`, `AsyncSpaceAlwaysExact`, `TreeAlwaysOrdered`, `NeverBugOn` |
| `ServiceManagerProofs` | `TypeCorrect`, `RegistryCorrect`, `ListingsComplete` |
| `BinderObjectsProofs` | `TypeCorrect`, `FixupsAlwaysStand`, `OwnFilesStay`, `NothingEverLeaks` |

### Calls

`BinderCallProofs` is about the call stacks, for any processes, threads, handles and any
number of calls, with threads of any manners: every property of `nested_calls`, and
`OneAsyncAtATime` and `OnewayInOrder` of `answers`. None of them is inductive, nor is their conjunction. `IInv` says

* what a call is at each of its stages, from its record, its buffer and the lists that hold
  it: on one list at most and at most once (`Once`), with the pointers that the stage
  has (`RecordOK`, `OnewayOK`, `SyncOK`);
* how the links chain: `Up(th, t)` is the next call down the stack of `th` (by
  `from_parent` where `th` made the call, by `to_parent` where it serves it); it is an older call
  of the same thread, so that a stack is descending in `debug_id` and ends (`StackOK`, `ParentOK`);
* that a call which was sent to a thread that waits descends from the top of that thread's
  stack, through calls made and served in turn (`NestedOK`). This is what makes
  `binder_pop_transaction` find its target on top, and needs an induction: the younger end of a chain
  of calls is found with the well-founded order of the naturals;
* what a thread may be doing while it sleeps, fails, frees or exits (`ThreadOK`, `FailOK`),
  and that a node whose `async_todo` is not empty has a oneway call under way (`AsyncOK`).

There is a lemma for each action and each part that it can disturb. `OnewayInOrder` has an
invariant of its own on top (`InOrder`): what was sent to a node no earlier than a call that waits in
its `async_todo` waits there too, behind it.

### Thread pool

`BinderThreadPoolProofs` holds for any threads, limits and amount of work:

* `PoolTypeCorrect`: the counters keep their ranges, so registration never takes
  `requested_threads` below zero.
* `ReadyCorrect`: `ready_threads` is the cardinality of the set of threads in the
  wait. Each action is first described by how it moves one thread between
  places (the `...Effect` lemmas); `Arrives`, `Departs` and `Stays` turn moves
  into cardinalities.
* `CountersCorrect`: at most one request, and never more than the largest limit.
  It needs `ReadyIsExact`, because the test `requested + ready = 0` bounds
  requests only if `ready_threads` cannot be negative.
* `WakeupCorrect`: work and a sleeper are never left to each other. It is
  inductive with `TypeOK`: each action that leaves work behind ends with a wake,
  and only a thread that saw no work goes to sleep.
* `GrowthCorrect` (under `Resizes = {}`): when every looper is in a handler, a
  thread was asked for or the limit is reached. The invariant that carries it is
  `TypeOK /\ ReadyIsExact /\ CountersBounded /\ PlacesAndFlags`; the last
  conjunct says that only loopers wait, so that a pool with no looper left has
  `ready_threads = 0`.
* `RequestsCorrect` (under `Volunteers = {}` and `~JoinsFirst`): the requests the driver
  counts are the threads on the way, and its `requested_threads_started` are the threads
  that registered. A thread enters and leaves those two sets together with
  the counter's change; `NoneBefore` says that nobody is a looper or has been created before
  `startThreadPool`, so that no request is lost on the way.

### Death notifications

`BinderDeathProofs` proves the safety properties of both runs, and with `KeepsThePromise` that every
step of `BinderDeath` is a step of `DeathNotice` or changes nothing it sees. The invariant
relates the three places that know of a notification: a record of the driver has one owner
(`ref->death`, one of the lists, or the looper that reads it), according to its `work.type` and its
count of `kfree`s; `mObitsSent` and the recipients agree with the record that the reference has; and what
a thread does while it holds `mLock`, or is between the test of `mObitsSent` and the lock,
leaves the rest as it was when it looked. `WeakCountIsExact` assumes that no looper exits
(`Exiting = {}`, `~MayExit`): one that exits with a record on its list takes along the
`BR_CLEAR_DEATH_NOTIFICATION_DONE` that gives a weak reference back.

### References

`BinderRefsProofs` holds for any threads, holders (some of which may die, and some of which may send any
command at any time), sends and calls. There are two inductive invariants.

`CountInv` is behind `TypeCorrect` and `CountsStayRight`. `CountsAgree` alone is not inductive; `Right` has

* `CountsOK`: `internal_strong` is the number of references that are strong, and a holder is in `node->refs`
  as long as its reference counts something. The lemmas on `binder_inc_ref`, `binder_dec_ref` and
  `binder_delete_ref` say when that cardinality moves by one;
* `FlagsOK`: `has_strong_ref` and `pending_strong_ref` and their weak fellows follow each other, and whenever
  the owner has to be told more (`Pending`) the node's work is on some list. `Quiet` is what every
  decrement keeps of it: nothing becomes pending that was not;
* `SumsOK`: three sums over the owner's threads, of the calls they have not freed and of the strong and weak
  references the object gets or gives up once they have executed what they heard. `SumFunction` is a
  fold; `AddsTo` states its recursion over the finite subsets of its domain, from which one
  induction over cardinalities gives the one lemma that the steps use: when one value changes, the sum
  changes by as much. So each step of a thread needs only what it adds to its own three numbers (`Moves`) and
  what the driver's counts change by (`Balances`);
* `HeldOK`: what a holder that keeps libbinder's order has is what its reference counts.

As long as the owner lives no holder is refused a reference, an unruly one neither: there is a reference of
somebody, so the owner was told of it or is about to be.

`Inv` adds `Fine`, for `RemoteKeeps`. It says of the order of commands what `CountInv` does not:

* a thread's own list is the node's work and then the end of its transaction (`TodoOK`), and it
  hears of the end last (`ThreadOK`);
* a thread that has heard `BR_INCREFS` or `BR_ACQUIRE`, or has the work on its own list while there is something to tell
  of that kind, still sends the object, so its parcel keeps it (`GivenOK`);
* the process's list never has such work, only work that tells the owner to let go (`NodeFine`), and the
  thread that takes from it does not send (`LockOK`);
* the app's reference, a parcel and a call keep the object (`KeptOK`), and so does `object.strong`.

`GivenOK` and `NodeFine` are claimed only as long as `diverted` is false. From `SumsOK` and these,
a strong node with nobody told yet has a sender, and one whose owner was told has `object.strong > 0` or a
sender that has heard it (`InvReaches`).

### Proxies

`OneProxy`: of one handle there are never two proxies that can still be made strong. It is
inductive with the fact that a proxy which has begun its destructor has no pointer to it, and one that
has not is the entry of its own handle in the table.

`ReferencesKept` is about every `mOut` at once, of any length. Its invariant `KInv` has

* `Agree`, which is `ReferencesAgree` with the fold of `Pending` replaced by the number of places at
  which a command stands in some `mOut`. That the fold is that number is proved over the prefixes of a list;
* `Backed`: an increment in an `mOut` is followed there by the return of the buffer that brought the
  handle, or the thread has that buffer still. So the driver has the reference when the increment comes;
* `Covered` and `Ordered`: no more increments are under way than the process has references or decrements are
  under way, in all and behind each place of any `mOut`. So a decrement finds the count that it gives up;
* `NodeOK`: the handle of a live proxy names the object for which the proxy was made.

`overtaken` enters in one step, `Flush`: it keeps `Ordered` for the other threads if what it sends has no
decrement of a handle of which another `mOut` has an increment (`InTime`).

### Buffers

`BinderAllocProofs` holds for any size of area, page and header, any requests, and any `Wrap` in which
the area is representable; arithmetic on sizes is modulo `Wrap` throughout. `Inv` has, besides `TypeOK`,

* `Shape`: the headers begin at the start of the area, follow each other with room for a header, and the
  extent of each allocated buffer fits the space up to the next header;
* `Exact`: the pages are those that the headers and allocated buffers touch;
* `Keyed`: the key of each free buffer is the size the walks compute now, which is
  `TreeIsOrdered`;
* `Tight`: an allocated buffer has at most `Header + Slack` bytes more than was asked for, so what
  `binder_free_buf` gives back to `free_async_space` was taken from it;
* `Spaced`: no two neighbours are free, since `binder_free_buf` merges both ways;
* `SpaceLeft`: `free_async_space` and the bytes of the oneway buffers are together half the area.

`NoWrap` shows that a request whose sum overflowed is refused before it is used. There
is one lemma for each function of the driver; the page arithmetic goes through `DeleteKeepsPages` and
`FreesWhole`, which treat the page that two buffers share.

### The registry

`ServiceManagerProofs` holds for any services, names, references and clients, with as many references as
services. `RegistryCorrect` says that each entry of `svclist` keeps its handle alive, and
`ListingsComplete` that a client which lists gets a report of each name that was there when it began: the name
itself up to 117 units, an empty string beyond (`ReportedIs` derives the limit from the bytes, the
rounding and the zero). `IInv` is
the conjunction of

* `Shape`: what may be queued for the manager, and what it may be at in the middle of one message;
* `Unique`: a reference has at most one obituary under way, and a client one question;
* `Refs` and `Counts`: a reference is in use as long as its `strong` is not zero, which counts the
  buffers that hold it and the entries that name it, except the one entry whose
  `BC_ACQUIRE` has not been written. The cardinality of the entries is followed through `Adds`
  and `Entries`; that a handle is free for a new reference is the pigeonhole principle;
* `Registry` and `Watched`: an entry's handle is one of these references, and while the service lives
  the record of its death names the entry;
* `Obituaries`: a death that was sent is about an entry that can still be found, since nothing is
  ever taken off `svclist`;
* `Questions`: a listing has yet to come to each name that it has not reported, and the ones
  who poll have tries left.

`Renewed` describes a registry in which one name changed, so that the cases of `do_add_service` and
`svcinfo_death` share their lemmas.

### Objects

`BinderObjectsProofs` holds for any nodes, descriptors, sizes and lengths, for any offsets a sender may
choose and any number of objects and buffers (as long as a pointer is a whole number of descriptors). `IInv` has, for each buffer (`BufferOK`),

* `Copied`: the copies of its buffer objects lie in the extra area one after the other;
* `Nested`: each fixup, a pointer or an array, is inside the copy of a parent that came before it;
* `Stands`: each is still as it was made, and the descriptors of an array are distinct;
* `Marked(b) = Held(b)` and `OneEach`: the descriptors in the extra area are those of the arrays, each
  of them in one array.

`Behind` is what keeps that when an object is added: in the last fixup and in each of its ancestors, earlier
fixups end before `FirstFree`. It needs that the walk up from a child is the child and the walk up from its parent
(`Climb`, `LongerWalk`), and that objects off that path are never fixed up again. `PointerObject`
and `ArrayObject` are the two cases; `Ranks` is the induction that `UnusedFd` is defined for as many descriptors as are free.
`Disjoint` and `AllHeld` say that the descriptors that were sent are those in the buffers, each in one of them. From
these, what a failure closes (`WhatIsClosed`) is exactly what the transaction installed, so `OwnFilesStay`.
`NothingEverLeaks` adds `Counted`, that each count is the number of objects that hold it: adding, undoing and freeing
change both sides alike, and for a buffer freed from the middle of the list
`CountsDrop` has the bijection between the holders before and after.

### Only model-checked

* `EveryCallIsAnswered`, `EveryOnewayArrives`, `EveryWorkIsRead`, the liveness half of
  `ImplementsDeathNotice`, `DroppedProxyIsDestroyed`, `ObjectIsReleased` and
  `DeadServiceIsForgotten` hold under fairness. Fairness is stated with `ENABLED`, which
  the proof system does not reason about.
* `FairSpec` of `BinderThreadPool` and `BinderDeath` implies `Spec`, so their safety theorems hold of it.
* `refs_failed_send` is a counterexample, which a run shows; `NeverMisused` is what remains true.

Every safety invariant and every action property that a passing run checks is a theorem; of the temporal
properties, the safety half of `ImplementsDeathNotice` is (`KeepsThePromise`). The library states induction
with an operator as parameter, which the installed provers cannot instantiate: an induction over naturals for
one concrete set goes through `NatLessThanWellFounded` and a least counterexample (`HasMin`, `CountUp`), and so
folds are reasoned about where `BinderRefsProofs` and `ProxyTableProofs` need them.

## What the model leaves out

* In `BinderTransaction`, the data of calls: objects, buffers' sizes, security labels, priorities. A call
  that the driver refuses for any of them is `CallRefused`. One node per process:
  several nodes would add only more `async_todo` lists.
* In `BinderTransaction`, a read that hands out several pieces of work is a sequence of reads;
  `binder_thread_read` keeps the lock between them, so it is one interleaving of
  those the model has.
* Faults of the address space (`-EFAULT`) and of `put_user`; memory that cannot be allocated,
  except where a call is refused for it. In the service manager `BR_ERROR` ends the
  program.
* `BINDER_THREAD_EXIT` of a thread that has a oneway call on its own list: the
  driver frees the call and keeps its buffer, so the node gets no further oneway
  call. `EveryOnewayArrives` fails there, and `answers` has no exits: libbinder's
  threads exit only when they have left the pool. In the same way a thread that exits
  with a node's work on its list takes it along; `BinderRefs` has no exiting threads.
* A looper that joins before `startThreadPool` (`ProcessState.cpp:292`) loses the
  driver's request for good; a limit raised while every looper is busy
  (`driver-binder.c:3403`) is not noticed until one of them reads again. The
  growth properties are stated for processes that do neither.
* In `BinderDeath`, more than one proxy: proxies of a process share only its lists, and a record is
  found by the proxy's address; a recipient that has itself been destroyed (`promote` fails: nobody to tell), and
  a death record that could not be allocated (`BR_ERROR` to the thread).
* A looper that exits with an obituary on its own list takes it along
  (`binder_release_work` does not know the type). The run `death` has such exits,
  `death_notice` has not: a looper of libbinder reads its list before it leaves.
* In `BinderRefs`, weak handles in buffers, and owner's threads that are not in the pool: those never run
  `processPendingDerefs`, so what the driver releases through them stays. The context manager's
  node, on which the driver takes references without a handle.
* In `BinderObjects`, files that the target opens between two descriptors of one array; what makes a header, an offset or a size invalid, copies that fault and refusals by the
  security module: each is `Fails`, at any object. A 32-bit kernel.
* In `ServiceManager`, the marshalling of `bio_*` other than the room for a listed name, the list of permitted users (`Permitted`), and
  `defaultServiceManager`, which waits for a context manager. A second name of a handle
  has no death record of its own, for the driver keeps one per reference
  (`driver-binder.c:2631`): its entry keeps the dead handle for ever, and so does an
  entry that is registered again for a handle whose obituary was delivered.
  `DeadServiceIsForgotten` is about the name the record is for.
* In `ProxyTable`, handle 0, and the proxies' obituaries.

## Not modelled

`binder_open`, `binder_mmap`'s set-up, `binder_poll`, `binder_ioctl_set_ctx_mgr` and debugfs
set up or print what the modelled handlers use. `IPCThreadState`'s calling identity is saved and
restored around each call on one thread's stack, and nothing calls `blockUntilThreadAvailable`.
The JavaScript bridge, the CSS object model, views, hot fix and the Android stubs are outside
the Binder stack: short, mostly sequential, and their state is the toolkit's.

## Plan

The modules above are complete for the operations they list, and their safety properties are proved. What
could still be added, in the order of what it would say about the system:

1. threads that exit with a node's work on their list, in `BinderRefs`, and weak handles in buffers;
2. several proxies with their obituaries in one process, `BinderDeath` composed with `ProxyTable`;
3. the liveness properties, with a prover that knows `ENABLED`.
