-------------------------- MODULE BinderTransaction --------------------------
(***************************************************************************)
(* Transactions in the binder driver (driver-binder.c): the call stacks of *)
(* the threads, the work lists of threads, processes and nodes, the error  *)
(* a thread has yet to read, and what the exit of a thread or of a process *)
(* does to the calls it takes part in.                                     *)
(*                                                                         *)
(* binder_main_lock is held by every handler from its first statement to   *)
(* its last, except while binder_thread_read sleeps.  One command of       *)
(* binder_thread_write is one action; binder_thread_read is two, before    *)
(* and after the sleep.  The loops of binder_send_failed_reply,            *)
(* binder_free_thread, binder_release_work and binder_deferred_release run *)
(* one iteration per action while failing, freeing or releasing say that   *)
(* the lock is taken.                                                      *)
(*                                                                         *)
(* A node stands for the process that owns it (one node each); a call is   *)
(* identified by its debug_id, 1..MaxCalls in the order of allocation.     *)
(* Buffers of replies carry no node and are left to the allocator.         *)
(***************************************************************************)
EXTENDS Integers, Sequences

CONSTANTS
  Proc, Thread,
  ProcOf,          \* the process a thread belongs to
  NoThread, NoProc,
  MaxCalls,        \* how many calls a behaviour makes
  Kinds,           \* what the callers send: a subset of {"sync", "oneway"}
  Mortal,          \* the processes that may die
  Exiting,         \* the threads that may leave with BINDER_THREAD_EXIT
  Handles,         \* <<p, q>>: process p holds a handle to q's node, never
                   \* to its own: the driver translates that to the node's address
  Loopers,         \* pool threads: they call only while they serve a call
  Unruly           \* the threads that do not keep to IPCThreadState's order of
                   \* commands, or whose commands are refused for want of memory

ASSUME ThreadAssumption == /\ ProcOf \in [Thread -> Proc]
                           /\ NoThread \notin Thread
                           /\ NoProc \notin Proc
ASSUME CallAssumption == /\ MaxCalls \in Nat
                         /\ Kinds \subseteq {"sync", "oneway"}
                         /\ Mortal \subseteq Proc
                         /\ Handles \subseteq Proc \X Proc
                         /\ \A p \in Proc : <<p, p>> \notin Handles
                         /\ Exiting \subseteq Thread
                         /\ Loopers \subseteq Thread
                         /\ Unruly \subseteq Thread

Tr     == 1..MaxCalls
NoTr   == 0
Errors == {"OK", "TRANSACTION_COMPLETE", "FAILED_REPLY", "DEAD_REPLY"}

\* binder_work on a list: a call, the reply to call t, or a sender's completion.
CallWork(t)  == [type |-> "call", t |-> t]
ReplyWork(t) == [type |-> "reply", t |-> t]
CompleteWork == [type |-> "complete", t |-> NoTr]

Work == [type : {"call", "reply"}, t : Tr] \cup {CompleteWork}

VARIABLES
  calls,      \* the number of calls allocated so far (binder_last_id)
  tx,         \* binder_transaction of each call
  buffer,     \* binder_buffer of each call
  thread,     \* binder_thread of each thread
  proc,       \* binder_proc of each process, and its node
  failing,    \* binder_send_failed_reply in progress: call and error code
  freeing,    \* binder_free_thread in progress: whose todo is being released
  releasing   \* binder_deferred_release in progress

vars == <<calls, tx, buffer, thread, proc, failing, freeing, releasing>>

Transaction == [live : BOOLEAN, oneway : BOOLEAN, buffer : BOOLEAN,
                from : Thread \cup {NoThread}, to_thread : Thread \cup {NoThread},
                from_parent : Tr \cup {NoTr}, to_parent : Tr \cup {NoTr}]
Buffer == [state : {"free", "kernel", "user"}, async : BOOLEAN,
           transaction : BOOLEAN, node : Proc \cup {NoProc},
           holder : Thread \cup {NoThread}]     \* the thread that read it
BinderThread == [known : BOOLEAN, stack : Tr \cup {NoTr}, todo : Seq(Work),
                 error : Errors, error2 : Errors,
                 wait : {"running", "proc", "thread"}]
BinderProc == [state : {"open", "closed", "released"}, todo : Seq(Work),
               has_async : BOOLEAN, async_todo : Seq(Work)]

TypeOK ==
  /\ calls \in 0..MaxCalls
  /\ tx \in [Tr -> Transaction]
  /\ buffer \in [Tr -> Buffer]
  /\ thread \in [Thread -> BinderThread]
  /\ proc \in [Proc -> BinderProc]
  /\ failing \in [t : Tr \cup {NoTr}, code : Errors]
  /\ freeing \in Thread \cup {NoThread}
  /\ releasing \in Proc \cup {NoProc}

FreedTransaction == [live |-> FALSE, oneway |-> FALSE, buffer |-> FALSE,
                     from |-> NoThread, to_thread |-> NoThread,
                     from_parent |-> NoTr, to_parent |-> NoTr]
FreeBuffer == [state |-> "free", async |-> FALSE, transaction |-> FALSE,
               node |-> NoProc, holder |-> NoThread]
NewThread == [known |-> FALSE, stack |-> NoTr, todo |-> <<>>, error |-> "OK",
              error2 |-> "OK", wait |-> "running"]
NewProc == [state |-> "open", todo |-> <<>>, has_async |-> FALSE, async_todo |-> <<>>]
NoFailure == [t |-> NoTr, code |-> "OK"]

Init ==
  /\ calls = 0
  /\ tx = [t \in Tr |-> FreedTransaction]
  /\ buffer = [t \in Tr |-> FreeBuffer]
  /\ thread = [th \in Thread |-> NewThread]
  /\ proc = [p \in Proc |-> NewProc]
  /\ failing = NoFailure
  /\ freeing = NoThread
  /\ releasing = NoProc

-----------------------------------------------------------------------------
Unlocked == failing.t = NoTr /\ freeing = NoThread /\ releasing = NoProc
lockVars == <<failing, freeing, releasing>>

\* A thread runs in an ioctl of an open file and has the lock.
InIoctl(th) == Unlocked /\ proc[ProcOf[th]].state = "open" /\ thread[th].wait = "running"

\* binder_thread_write takes a command only while no error waits to be read.
\* Only an unruly thread writes before it has read the completion of its last
\* call (IPCThreadState::waitForResponse reads it).
CanWrite(th) ==
  /\ InIoctl(th)
  /\ thread[th].error = "OK"
  /\ th \in Unruly \/ \A i \in DOMAIN thread[th].todo : thread[th].todo[i] # CompleteWork

\* The thread is executing the call on top of its stack / waits for its answer.
Serving(th)  == thread[th].stack # NoTr /\ tx[thread[th].stack].to_thread = th
Awaiting(th) == thread[th].stack # NoTr /\ tx[thread[th].stack].to_thread # th

\* The end of binder_transaction's error path.
RaiseError(th, e) ==
  /\ thread' = [thread EXCEPT ![th] = [@ EXCEPT !.known = TRUE, !.error = e]]
  /\ UNCHANGED <<calls, tx, buffer, proc, lockVars>>

\* C is the set of calls met by following link from top on.
IsWalk(C, top, link) ==
  /\ top \in C \cup {NoTr}
  /\ \A t \in C : /\ link[t] \in C \cup {NoTr}
                  /\ t = top \/ \E c \in C : link[c] = t

\* The thread a nested call goes to: the sender of the oldest call of the
\* chain from top on that a thread of p sent and waits for.
IsTarget(target, top, p) ==
  \E C \in SUBSET Tr :
    LET sent == {t \in C : tx[t].from # NoThread /\ ProcOf[tx[t].from] = p}
    IN  /\ IsWalk(C, top, [t \in Tr |-> tx[t].from_parent])
        /\ \/ sent = {} /\ target = NoThread
           \/ \E t \in sent : target = tx[t].from /\ \A s \in sent : t <= s

\* p's node is within reach, and it is the thread's turn to call.
MayCall(th, p) ==
  /\ CanWrite(th)
  /\ <<ProcOf[th], p>> \in Handles
  /\ th \in Unruly \/ ~Awaiting(th)
  /\ th \in Loopers => Serving(th)

\* BC_TRANSACTION to a node whose process is gone.
CallDeadNode(th, p) ==
  /\ MayCall(th, p)
  /\ proc[p].state = "released"
  /\ RaiseError(th, "DEAD_REPLY")

\* BC_TRANSACTION of a thread that still waits for the answer to another call.
CallBadStack(th, p) ==
  /\ th \in Unruly /\ MayCall(th, p) /\ "sync" \in Kinds
  /\ proc[p].state # "released"
  /\ Awaiting(th)
  /\ RaiseError(th, "FAILED_REPLY")

\* BC_TRANSACTION refused: no memory, no buffer space, an invalid object.
CallRefused(th, p) ==
  /\ th \in Unruly /\ MayCall(th, p)
  /\ proc[p].state # "released"
  /\ RaiseError(th, "FAILED_REPLY")

NewCall(th, p, oneway) ==
  /\ calls < MaxCalls
  /\ calls' = calls + 1
  /\ buffer' = [buffer EXCEPT ![calls + 1] =
                  [FreeBuffer EXCEPT !.state = "kernel", !.async = oneway,
                                     !.transaction = TRUE, !.node = p]]

\* Work is added to the list of a thread or of a process.
Enqueue(f, x, w) == [f EXCEPT ![x].todo = Append(@, w)]

\* The caller's thread: the call is on its stack, its completion to be read.
Called(th, t) ==
  Enqueue([thread EXCEPT ![th] = [@ EXCEPT !.known = TRUE, !.stack = t]], th, CompleteWork)

\* BC_TRANSACTION without TF_ONE_WAY.
SyncCall(th, p) ==
  /\ MayCall(th, p) /\ "sync" \in Kinds
  /\ proc[p].state # "released"
  /\ ~Awaiting(th)
  /\ NewCall(th, p, FALSE)
  /\ \E target \in Thread \cup {NoThread} :
       LET t == calls + 1
       IN  /\ IsTarget(target, thread[th].stack, p)
           /\ tx' = [tx EXCEPT ![t] =
                       [live |-> TRUE, oneway |-> FALSE, buffer |-> TRUE,
                        from |-> th, to_thread |-> target,
                        from_parent |-> thread[th].stack, to_parent |-> NoTr]]
           /\ \/ /\ target = NoThread
                 /\ proc' = Enqueue(proc, p, CallWork(t))
                 /\ thread' = Called(th, t)
              \/ /\ target # NoThread
                 /\ thread' = Enqueue(Called(th, t), target, CallWork(t))
                 /\ UNCHANGED proc
  /\ UNCHANGED lockVars

\* Mutants: has_async_transaction is ignored; the newest call goes first.
QueueOnewayAlways(p, w) == Enqueue([proc EXCEPT ![p].has_async = TRUE], p, w)
QueueOnewayFirst(p, w) ==
  IF proc[p].has_async
  THEN [proc EXCEPT ![p].async_todo = <<w>> \o @]
  ELSE Enqueue([proc EXCEPT ![p].has_async = TRUE], p, w)

\* One oneway call at a time per node, the rest wait in its async_todo.
QueueOneway(p, w) ==
  IF proc[p].has_async
  THEN [proc EXCEPT ![p].async_todo = Append(@, w)]
  ELSE Enqueue([proc EXCEPT ![p].has_async = TRUE], p, w)

\* BC_TRANSACTION with TF_ONE_WAY.
OnewayCall(th, p) ==
  /\ MayCall(th, p) /\ "oneway" \in Kinds
  /\ proc[p].state # "released"
  /\ NewCall(th, p, TRUE)
  /\ tx' = [tx EXCEPT ![calls + 1] = [FreedTransaction EXCEPT !.live = TRUE,
                                        !.oneway = TRUE, !.buffer = TRUE]]
  /\ proc' = QueueOneway(p, CallWork(calls + 1))
  /\ thread' = Enqueue([thread EXCEPT ![th].known = TRUE], th, CompleteWork)
  /\ UNCHANGED lockVars

-----------------------------------------------------------------------------
\* binder_pop_transaction: the call leaves its sender's stack and is freed.
Popped(t)   == [tx EXCEPT ![t] = FreedTransaction]
Unlinked(t) == IF tx[t].buffer THEN [buffer EXCEPT ![t].transaction = FALSE] ELSE buffer

\* BC_REPLY with no call on top of the stack that the thread has received.
ReplyBadStack(th) ==
  /\ th \in Unruly
  /\ CanWrite(th)
  /\ ~Serving(th)
  /\ RaiseError(th, "FAILED_REPLY")

\* Mutant: the wrong link is followed.
ReplierPoppedWrong(th) == [thread EXCEPT ![th].stack = tx[thread[th].stack].from_parent]

\* The replier's own stack is popped before the caller's is looked at.
ReplierPopped(th) == [thread EXCEPT ![th].stack = tx[thread[th].stack].to_parent]

\* BC_REPLY that cannot be delivered: the caller's thread is gone, or waits for
\* something else, or the reply is refused.  In the first and the last case the
\* replier reads TRANSACTION_COMPLETE and the callers read the error.
ReplyFailed(th, code) ==
  LET t == thread[th].stack
      target == tx[t].from
      popped == ReplierPopped(th)
  IN  /\ CanWrite(th)
      /\ Serving(th)
      /\ \/ /\ \/ target = NoThread /\ code = "DEAD_REPLY"
               \/ /\ th \in Unruly /\ target # NoThread /\ code = "FAILED_REPLY"
                  /\ popped[target].stack = t
            /\ thread' = [popped EXCEPT ![th].error = "TRANSACTION_COMPLETE"]
            /\ failing' = [t |-> t, code |-> code]
         \/ /\ target # NoThread /\ code = "FAILED_REPLY"
            /\ popped[target].stack # t
            /\ thread' = [popped EXCEPT ![th].error = "FAILED_REPLY"]
            /\ UNCHANGED failing
      /\ UNCHANGED <<calls, tx, buffer, proc, freeing, releasing>>

\* BC_REPLY.
Reply(th) ==
  LET t == thread[th].stack
      target == tx[t].from
  IN  /\ CanWrite(th)
      /\ Serving(th)
      /\ target # NoThread
      /\ ReplierPopped(th)[target].stack = t
      /\ thread' = Enqueue(Enqueue([ReplierPopped(th) EXCEPT
                                      ![target].stack = tx[t].from_parent],
                                    target, ReplyWork(t)), th, CompleteWork)
      /\ tx' = Popped(t)
      /\ buffer' = Unlinked(t)
      /\ UNCHANGED <<calls, proc, lockVars>>

\* executeCommand frees the buffer it read once it has replied, and before its
\* thread reads again or leaves.
MustFree(th, t) == buffer[t].state = "user" /\ buffer[t].holder = th /\ ~tx[t].live

\* Mutant: the next call is forgotten in the list.
StartNextForgotten(th, p) ==
  /\ proc' = [proc EXCEPT ![p].has_async = FALSE]
  /\ thread' = [thread EXCEPT ![th].known = TRUE]

\* Freeing the buffer of a oneway call lets the node's next one start: it goes
\* to the thread that frees.
StartNextAsync(th, p) ==
  \/ /\ proc[p].async_todo = <<>>
     /\ proc' = [proc EXCEPT ![p].has_async = FALSE]
     /\ thread' = [thread EXCEPT ![th].known = TRUE]
  \/ /\ proc[p].async_todo # <<>>
     /\ proc' = [proc EXCEPT ![p].async_todo = Tail(@)]
     /\ thread' = Enqueue([thread EXCEPT ![th].known = TRUE], th, Head(proc[p].async_todo))

UserMayFree(t) == buffer[t].state = "user"      \* allow_user_free

\* BC_FREE_BUFFER of a buffer that was handed to the process.
BcFreeBuffer(th, t) ==
  LET p == buffer[t].node
  IN  /\ CanWrite(th)
      /\ UserMayFree(t) /\ p = ProcOf[th]
      /\ th \in Unruly \/ MustFree(th, t)
      /\ buffer' = [buffer EXCEPT ![t] = FreeBuffer]
      /\ tx' = IF buffer[t].transaction THEN [tx EXCEPT ![t].buffer = FALSE] ELSE tx
      /\ \/ buffer[t].async /\ StartNextAsync(th, p)
         \/ /\ ~buffer[t].async
            /\ thread' = [thread EXCEPT ![th].known = TRUE]
            /\ UNCHANGED proc
      /\ UNCHANGED <<calls, lockVars>>

-----------------------------------------------------------------------------
(***************************************************************************)
(* binder_thread_read.  wait_for_proc_work is computed before the lock is  *)
(* dropped and used after it is taken again: wait = "proc" holds it.  A    *)
(* thread with work of its own does not sleep.                             *)
(***************************************************************************)
ReadErrors(th) ==
  /\ InIoctl(th)
  /\ thread[th].error # "OK"
  /\ thread' = [thread EXCEPT ![th] = [@ EXCEPT !.error = "OK", !.error2 = "OK"]]
  /\ UNCHANGED <<calls, tx, buffer, proc, lockVars>>

\* Mutant: the stack is not looked at.
WaitForProc(th) == "proc"

\* wait_for_proc_work of a thread with no work of its own.
WaitFor(th) == IF thread[th].stack = NoTr THEN "proc" ELSE "thread"

Sleep(th) ==
  /\ InIoctl(th)
  /\ thread[th].error = "OK" /\ thread[th].todo = <<>>
  /\ th \in Unruly \/ (~Serving(th) /\ \A t \in Tr : ~MustFree(th, t))
  /\ thread' = [thread EXCEPT ![th] = [@ EXCEPT !.known = TRUE, !.wait = WaitFor(th)]]
  /\ UNCHANGED <<calls, tx, buffer, proc, lockVars>>

\* Work w reaches the thread, whose lists are then thread[th].todo = rest.
Deliver(th, w, rest) ==
  \/ /\ w.type \in {"complete", "reply"}
     /\ thread' = [thread EXCEPT ![th] = [@ EXCEPT !.todo = rest, !.wait = "running"]]
     /\ UNCHANGED <<tx, buffer>>
  \/ /\ w.type = "call" /\ ~tx[w.t].oneway
     /\ thread' = [thread EXCEPT ![th] =
                     [@ EXCEPT !.todo = rest, !.wait = "running", !.stack = w.t]]
     /\ tx' = [tx EXCEPT ![w.t] =
                 [@ EXCEPT !.to_parent = thread[th].stack, !.to_thread = th]]
     /\ buffer' = [buffer EXCEPT ![w.t] = [@ EXCEPT !.state = "user", !.holder = th]]
  \/ /\ w.type = "call" /\ tx[w.t].oneway
     /\ thread' = [thread EXCEPT ![th] = [@ EXCEPT !.todo = rest, !.wait = "running"]]
     /\ tx' = [tx EXCEPT ![w.t] = FreedTransaction]
     /\ buffer' = [buffer EXCEPT ![w.t] =
                     [@ EXCEPT !.state = "user", !.holder = th, !.transaction = FALSE]]

\* The first work that binder_thread_read hands out; a read that hands out
\* more is a sequence of these.
ReadThreadWork(th) ==
  /\ \/ InIoctl(th) /\ thread[th].error = "OK"
     \/ Unlocked /\ thread[th].wait = "thread"
     \/ Unlocked /\ thread[th].wait = "proc" /\ proc[ProcOf[th]].todo # <<>>
  /\ thread[th].todo # <<>>
  /\ Deliver(th, Head(thread[th].todo), Tail(thread[th].todo))
  /\ UNCHANGED <<calls, proc, lockVars>>

ReadProcWork(th) ==
  LET p == ProcOf[th]
  IN  /\ Unlocked
      /\ thread[th].wait = "proc"
      /\ thread[th].todo = <<>> /\ proc[p].todo # <<>>
      /\ Deliver(th, Head(proc[p].todo), <<>>)
      /\ proc' = [proc EXCEPT ![p].todo = Tail(@)]
      /\ UNCHANGED <<calls, lockVars>>

\* Woken by an error, with nothing on the list: the read retries.
ReadRetry(th) ==
  /\ Unlocked
  /\ thread[th].wait = "thread"
  /\ thread[th].todo = <<>> /\ thread[th].error # "OK"
  /\ thread' = [thread EXCEPT ![th] =
                  [@ EXCEPT !.wait = "running", !.error = "OK", !.error2 = "OK"]]
  /\ UNCHANGED <<calls, tx, buffer, proc, lockVars>>

-----------------------------------------------------------------------------
\* Mutant: the two errors are swapped.
ToldSecond(target, t) ==
  [thread EXCEPT ![target] =
     [@ EXCEPT !.stack = tx[t].from_parent, !.error2 = failing.code]]

SecondError(target) == IF thread[target].error # "OK" THEN thread[target].error
                       ELSE thread[target].error2

\* The caller loses the call and gets an error; an error it has yet to read
\* moves to return_error2.
Told(target, t) ==
  [thread EXCEPT ![target] =
     [@ EXCEPT !.stack = tx[t].from_parent, !.error = failing.code,
               !.error2 = SecondError(target)]]

\* Mutant: the failure stops at a caller that is gone.
NoNextFailure(t) == NoFailure

\* A caller that is gone passes the failure to the call it was serving.
NextFailure(t) == IF tx[t].from_parent = NoTr THEN NoFailure
                  ELSE [failing EXCEPT !.t = tx[t].from_parent]

\* One iteration of binder_send_failed_reply.
FailedReply ==
  LET t == failing.t
      target == tx[t].from
  IN  /\ t # NoTr
      /\ UNCHANGED <<calls, proc, freeing, releasing>>
      /\ \/ /\ target # NoThread
            /\ \/ thread[target].error = "OK"
               \/ thread[target].error2 = "OK"
            /\ thread[target].stack = t     \* BUG_ON in binder_pop_transaction
            /\ thread' = Told(target, t)
            /\ tx' = Popped(t)
            /\ buffer' = Unlinked(t)
            /\ failing' = NoFailure
         \/ /\ target # NoThread
            /\ thread[target].error # "OK" /\ thread[target].error2 # "OK"
            /\ failing' = NoFailure
            /\ UNCHANGED <<tx, buffer, thread>>
         \/ /\ target = NoThread
            /\ tx' = Popped(t)
            /\ buffer' = Unlinked(t)
            /\ failing' = NextFailure(t)
            /\ UNCHANGED thread

\* Mutant: only the call on top is visited.
TopLink(th) == [t \in Tr |-> NoTr]

\* S is the calls binder_free_thread meets on the thread's stack.
StackLink(th) == [t \in Tr |-> IF tx[t].to_thread = th THEN tx[t].to_parent
                               ELSE IF tx[t].from = th THEN tx[t].from_parent ELSE NoTr]
IsStack(S, th) == IsWalk(S, thread[th].stack, StackLink(th))

\* Mutant: send_reply is not set.
NoExitFailure(th) == NoFailure

\* send_reply: the call the thread was executing fails.
ExitFailure(th) == IF Serving(th) THEN [t |-> thread[th].stack, code |-> "DEAD_REPLY"]
                   ELSE NoFailure

\* binder_free_thread up to binder_release_work: cut the thread out of every
\* call on its stack, and fail the call it was executing.
CutThread(th) ==
  /\ \E S \in SUBSET Tr :
       LET in == {t \in S : tx[t].to_thread = th}
           out == {t \in S \ in : tx[t].from = th}
       IN  /\ IsStack(S, th)
           /\ tx' = [t \in Tr |->
                [tx[t] EXCEPT !.to_thread = IF t \in in THEN NoThread ELSE @,
                              !.buffer = IF t \in in THEN FALSE ELSE @,
                              !.from = IF t \in out THEN NoThread ELSE @]]
           /\ buffer' = [t \in Tr |->
                [buffer[t] EXCEPT !.transaction =
                   IF t \in in /\ tx[t].buffer THEN FALSE ELSE @]]
  /\ failing' = ExitFailure(th)
  /\ thread' = [thread EXCEPT ![th] = [@ EXCEPT !.stack = NoTr, !.wait = "running"]]
  /\ freeing' = th

\* BINDER_THREAD_EXIT.
ThreadExit(th) ==
  /\ th \in Exiting /\ thread[th].known
  /\ InIoctl(th)
  /\ th \in Unruly \/ \A t \in Tr : ~MustFree(th, t)
  /\ CutThread(th)
  /\ UNCHANGED <<calls, proc, releasing>>

\* One iteration of binder_release_work: a sync call that nobody received
\* fails; a oneway call or a reply is freed, its buffer stays allocated.
ReleaseWork(w) ==
  \/ /\ w.type = "call" /\ ~tx[w.t].oneway
     /\ failing' = [t |-> w.t, code |-> "DEAD_REPLY"]
     /\ UNCHANGED <<tx, buffer>>
  \/ /\ w.type = "call" /\ tx[w.t].oneway
     /\ tx' = Popped(w.t)
     /\ buffer' = [buffer EXCEPT ![w.t].transaction = FALSE]
     /\ UNCHANGED failing
  \/ /\ w.type \in {"reply", "complete"}
     /\ UNCHANGED <<tx, buffer, failing>>

ReleaseThreadWork ==
  /\ failing.t = NoTr /\ freeing # NoThread
  /\ thread[freeing].todo # <<>>
  /\ ReleaseWork(Head(thread[freeing].todo))
  /\ thread' = [thread EXCEPT ![freeing].todo = Tail(@)]
  /\ UNCHANGED <<calls, proc, freeing, releasing>>

ThreadFreed ==
  /\ failing.t = NoTr /\ freeing # NoThread
  /\ thread[freeing].todo = <<>>
  /\ thread' = [thread EXCEPT ![freeing] = NewThread]
  /\ freeing' = NoThread
  /\ UNCHANGED <<calls, tx, buffer, proc, failing, releasing>>

-----------------------------------------------------------------------------
\* The last reference to the file goes: its threads have left the driver, and
\* binder_release queues the release of the process.
Close(p) ==
  /\ p \in Mortal
  /\ Unlocked
  /\ proc[p].state = "open"
  /\ proc' = [proc EXCEPT ![p].state = "closed"]
  /\ thread' = [th \in Thread |-> IF ProcOf[th] = p
                                  THEN [thread[th] EXCEPT !.wait = "running"]
                                  ELSE thread[th]]
  /\ UNCHANGED <<calls, tx, buffer, lockVars>>

\* The deferred work takes the lock: binder_deferred_release.
DeferredRelease(p) ==
  /\ Unlocked
  /\ proc[p].state = "closed"
  /\ releasing' = p
  /\ UNCHANGED <<calls, tx, buffer, thread, proc, failing, freeing>>

Releasing == failing.t = NoTr /\ freeing = NoThread /\ releasing # NoProc
HasThread(p) == \E th \in Thread : ProcOf[th] = p /\ thread[th].known

ReleaseThread(th) ==
  /\ Releasing
  /\ ProcOf[th] = releasing /\ thread[th].known
  /\ CutThread(th)
  /\ UNCHANGED <<calls, proc, releasing>>

\* binder_node_release: what waits for the node.
ReleaseNode ==
  /\ Releasing /\ ~HasThread(releasing)
  /\ proc[releasing].async_todo # <<>>
  /\ ReleaseWork(Head(proc[releasing].async_todo))
  /\ proc' = [proc EXCEPT ![releasing].async_todo = Tail(@)]
  /\ UNCHANGED <<calls, thread, freeing, releasing>>

ReleaseProcWork ==
  /\ Releasing /\ ~HasThread(releasing)
  /\ proc[releasing].async_todo = <<>> /\ proc[releasing].todo # <<>>
  /\ ReleaseWork(Head(proc[releasing].todo))
  /\ proc' = [proc EXCEPT ![releasing].todo = Tail(@)]
  /\ UNCHANGED <<calls, thread, freeing, releasing>>

\* The buffers go, and the process with them.
ReleaseBuffers ==
  /\ Releasing /\ ~HasThread(releasing)
  /\ proc[releasing].async_todo = <<>> /\ proc[releasing].todo = <<>>
  /\ LET Mine(t) == buffer[t].state # "free" /\ buffer[t].node = releasing
     IN  /\ buffer' = [t \in Tr |-> IF Mine(t) THEN FreeBuffer ELSE buffer[t]]
         /\ tx' = [t \in Tr |-> [tx[t] EXCEPT !.buffer =
                     IF Mine(t) /\ buffer[t].transaction THEN FALSE ELSE @]]
  /\ proc' = [proc EXCEPT ![releasing] =
                [@ EXCEPT !.state = "released", !.has_async = FALSE]]
  /\ releasing' = NoProc
  /\ UNCHANGED <<calls, thread, failing, freeing>>

-----------------------------------------------------------------------------
Command(th) ==
  \/ \E p \in Proc : \/ CallDeadNode(th, p) \/ CallBadStack(th, p)
                     \/ CallRefused(th, p)
                     \/ SyncCall(th, p) \/ OnewayCall(th, p)
  \/ ReplyBadStack(th) \/ Reply(th)
  \/ \E code \in {"DEAD_REPLY", "FAILED_REPLY"} : ReplyFailed(th, code)
  \/ \E t \in Tr : BcFreeBuffer(th, t)

Read(th) == \/ ReadErrors(th) \/ Sleep(th)
            \/ ReadThreadWork(th) \/ ReadProcWork(th) \/ ReadRetry(th)

LockHeld == \/ FailedReply
            \/ ReleaseThreadWork \/ ThreadFreed
            \/ \E th \in Thread : ReleaseThread(th)
            \/ ReleaseNode \/ ReleaseProcWork \/ ReleaseBuffers

Next ==
  \/ \E th \in Thread : Command(th) \/ Read(th) \/ ThreadExit(th)
  \/ \E p \in Proc : Close(p) \/ DeferredRelease(p)
  \/ LockHeld

Spec == Init /\ [][Next]_vars

(***************************************************************************)
(* The kernel runs the lock's holder and a thread with something to read;  *)
(* IPCThreadState::executeCommand answers each call it received that wants *)
(* an answer, and frees its buffer, whatever commands the transact handler *)
(* issued before it returned: strong fairness.  Nothing makes a thread     *)
(* call, exit or die.                                                      *)
(***************************************************************************)
Answer(th) == Reply(th) \/ ReplyFailed(th, "DEAD_REPLY")
FairSpec ==
  /\ Spec
  /\ WF_vars(LockHeld)
  /\ \A p \in Proc : WF_vars(DeferredRelease(p))
  /\ \A th \in Thread : /\ WF_vars(Read(th))
                        /\ SF_vars(Answer(th))
                        /\ SF_vars(\E t \in Tr : BcFreeBuffer(th, t))

-----------------------------------------------------------------------------
(* Where a call is. *)
InList(t, list) == \E i \in DOMAIN list : list[i] = CallWork(t)
Waiting(t)  == \E p \in Proc : InList(t, proc[p].async_todo)
Queued(t)   == \/ \E p \in Proc : InList(t, proc[p].todo)
               \/ \E th \in Thread : InList(t, thread[th].todo)
OnStack(t, th) == \E S \in SUBSET Tr : IsStack(S, th) /\ t \in S
Received(t) == \E th \in Thread : tx[t].to_thread = th /\ OnStack(t, th) /\ ~Queued(t)
Sync(t)     == tx[t].live /\ ~tx[t].oneway

(***************************************************************************)
(* None of the assertions the driver makes about calls can fail: BUG_ON in *)
(* binder_pop_transaction and binder_send_failed_reply, BUG_ON(t->buffer   *)
(* == NULL) for work about to be read or released, BUG() in                *)
(* binder_free_thread's walk and BUG_ON(!has_async_transaction).           *)
(***************************************************************************)
NoBugOn ==
  /\ failing.t # NoTr =>
       /\ Sync(failing.t)
       /\ LET target == tx[failing.t].from
          IN  (target # NoThread /\ (thread[target].error = "OK" \/ thread[target].error2 = "OK"))
                => thread[target].stack = failing.t
  /\ \A t \in Tr : Queued(t) \/ Waiting(t) => tx[t].live /\ tx[t].buffer
  /\ \A th \in Thread : \A t \in Tr : OnStack(t, th) => tx[t].from = th \/ tx[t].to_thread = th
  /\ \A t \in Tr : buffer[t].state = "user" /\ buffer[t].async => proc[buffer[t].node].has_async

(***************************************************************************)
(* No caller is forgotten: whenever the lock is free, each call whose      *)
(* sender lives is in exactly one place that will answer it: a work list,  *)
(* the stack of the thread that received it, or, when that thread died     *)
(* while it waited for calls of its own, the orphaned call it waited for.  *)
(***************************************************************************)
Orphans(t) == {c \in Tr : Sync(c) /\ tx[c].from_parent = t /\ tx[c].from = NoThread}
EveryCallHasAnAnswerer ==
  Unlocked => \A t \in Tr : Sync(t) =>
    \/ Queued(t)   /\ ~Received(t) /\ Orphans(t) = {}
    \/ Received(t) /\ ~Queued(t)   /\ Orphans(t) = {}
    \/ \E c \in Tr : Orphans(t) = {c} /\ ~Queued(t) /\ ~Received(t)

(***************************************************************************)
(* No pointer of the driver dangles: calls, stacks and lists name threads  *)
(* and calls that have not been freed.                                     *)
(***************************************************************************)
NoDanglingPointer ==
  /\ \A t \in Tr : tx[t].live =>
       /\ tx[t].from # NoThread => thread[tx[t].from].known
       /\ tx[t].to_thread # NoThread => thread[tx[t].to_thread].known
       /\ tx[t].from_parent # NoTr => tx[tx[t].from_parent].live
       /\ tx[t].to_thread # NoThread /\ tx[t].to_parent # NoTr => tx[tx[t].to_parent].live
       /\ tx[t].buffer => buffer[t].transaction
  /\ \A t \in Tr : buffer[t].transaction => tx[t].live /\ tx[t].buffer
  /\ \A th \in Thread : thread[th].stack # NoTr => tx[thread[th].stack].live

(***************************************************************************)
(* A thread asleep on proc->wait has no call on its stack, no work of its  *)
(* own and no error to read: such work would not wake it.                  *)
(***************************************************************************)
SleepersAreIdle ==
  \A th \in Thread : thread[th].wait = "proc" =>
    thread[th].stack = NoTr /\ thread[th].todo = <<>> /\ thread[th].error = "OK"

(***************************************************************************)
(* A node has one oneway call in progress at a time: not two buffers of    *)
(* oneway calls are out of async_todo, and calls wait there only behind    *)
(* one that is out.                                                        *)
(***************************************************************************)
InProgress(p) == {t \in Tr : buffer[t].async /\ buffer[t].node = p
                             /\ buffer[t].state # "free" /\ ~Waiting(t)}
OneAsyncAtATime ==
  \A p \in Proc :
    /\ Unlocked => \A s, t \in InProgress(p) : s = t
    /\ Unlocked => (proc[p].has_async <=> InProgress(p) # {})
    /\ proc[p].async_todo # <<>> => proc[p].has_async

\* Oneway calls reach a node in the order in which they were sent to it.
OnewayInOrder ==
  [][\A t \in Tr :
       buffer[t].async /\ buffer[t].state = "kernel" /\ buffer'[t].state = "user"
         => \A s \in 1..(t - 1) : tx[s].live /\ tx[s].oneway => buffer[s].node # buffer[t].node
    ]_vars

(***************************************************************************)
(* A caller never loses a call without being told: when a call leaves the  *)
(* calls of a thread, the thread gets its reply, or an error, or exits.    *)
(***************************************************************************)
CallerIsTold ==
  [][\A t \in Tr : LET th == tx[t].from IN
       tx[t].live /\ th # NoThread /\ tx'[t].from # th
         => \/ freeing' = th
            \/ Len(thread'[th].todo) > Len(thread[th].todo) /\ ReplyWork(t) \in
                 {thread'[th].todo[i] : i \in DOMAIN thread'[th].todo}
            \/ thread'[th].error \in {"DEAD_REPLY", "FAILED_REPLY"}
    ]_vars

\* A caller gets an answer to every call it made, unless it exits.
EveryCallIsAnswered == \A t \in Tr : Sync(t) ~> ~Sync(t)

\* A oneway call to a process with pool threads is read, unless the process
\* dies: the end of each starts the next.  (A thread that exits with one on its
\* own list breaks this: the buffer stays with the driver, and
\* has_async_transaction stays set.)
HasPool(p) == \E th \in Loopers : ProcOf[th] = p
EveryOnewayArrives ==
  \A t \in Tr : tx[t].live /\ tx[t].oneway /\ HasPool(buffer[t].node) ~> ~tx[t].live

=============================================================================
