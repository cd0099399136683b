--------------------------- MODULE BinderCallProofs ---------------------------
(***************************************************************************)
(* What holds of calls for any processes, threads, handles and any number  *)
(* of calls, whoever exits, dies or breaks IPCThreadState's protocol.      *)
(*                                                                         *)
(* The inductive invariant IInv says where a queued call is (QueueOK),     *)
(* what its record holds (RecordOK, OnewayOK, SyncOK), that calls nest in  *)
(* chains (ParentOK), and, which is the heart of it, that the calls on a   *)
(* thread's stack are ordered by age, link to one another and each led to  *)
(* the next (StackOK, by way of Up).  So a thread that waits for a call    *)
(* has it on top of its stack whenever nothing is under way for it, which  *)
(* is when its answer, or its failure, comes.                              *)
(***************************************************************************)
EXTENDS BinderTransaction, TLAPS, WellFoundedInduction

-----------------------------------------------------------------------------
(* Types. *)

LEMMA WorkType ==
  ASSUME NEW t \in Tr
  PROVE  CallWork(t) \in Work /\ ReplyWork(t) \in Work /\ CompleteWork \in Work
BY DEF CallWork, ReplyWork, Work

LEMMA WorkOfCall ==
  ASSUME NEW w \in Work, w.type = "call"
  PROVE  w.t \in Tr
BY DEF Work, CompleteWork

LEMMA ConstantTypes ==
  /\ FreedTransaction \in Transaction
  /\ FreeBuffer \in Buffer
  /\ NewThread \in BinderThread
  /\ NewProc \in BinderProc
  /\ NoFailure \in [t : Tr \cup {NoTr}, code : Errors]
BY DEF FreedTransaction, FreeBuffer, NewThread, NewProc, NoFailure, Transaction,
       Buffer, BinderThread, BinderProc, Errors

LEMMA InitTypeOK == Init => TypeOK
BY ConstantTypes, CallAssumption DEF Init, TypeOK

\* Lists of work stay lists of work.
LEMMA ListTypes ==
  ASSUME TypeOK
  PROVE  /\ \A th \in Thread : /\ thread[th] \in BinderThread
                               /\ thread[th].todo \in Seq(Work)
         /\ \A p \in Proc : /\ proc[p] \in BinderProc
                            /\ proc[p].todo \in Seq(Work)
                           /\ proc[p].async_todo \in Seq(Work)
         /\ \A s \in Seq(Work), w \in Work : Append(s, w) \in Seq(Work)
         /\ \A s \in Seq(Work) : s # <<>> => Head(s) \in Work /\ Tail(s) \in Seq(Work)
BY DEF TypeOK, BinderThread, BinderProc

LEMMA EnqueueThread ==
  ASSUME NEW f \in [Thread -> BinderThread], NEW th \in Thread, NEW w \in Work
  PROVE  Enqueue(f, th, w) \in [Thread -> BinderThread]
<1>1. Append(f[th].todo, w) \in Seq(Work)
  BY DEF BinderThread
<1> QED BY <1>1 DEF Enqueue, BinderThread

LEMMA EnqueueProc ==
  ASSUME NEW f \in [Proc -> BinderProc], NEW p \in Proc, NEW w \in Work
  PROVE  Enqueue(f, p, w) \in [Proc -> BinderProc]
<1>1. Append(f[p].todo, w) \in Seq(Work)
  BY DEF BinderProc
<1> QED BY <1>1 DEF Enqueue, BinderProc

LEMMA ThreadUpdates ==
  ASSUME NEW f \in [Thread -> BinderThread], NEW th \in Thread
  PROVE  LET Threads == [Thread -> BinderThread]
             Waits == {"running", "proc", "thread"}
         IN  /\ [f EXCEPT ![th].known = TRUE] \in Threads
             /\ \A t \in Tr \cup {NoTr} :
                 [f EXCEPT ![th].stack = t] \in Threads
             /\ \A t \in Tr \cup {NoTr} :
                 [f EXCEPT ![th] = [@ EXCEPT !.known = TRUE, !.stack = t]] \in Threads
             /\ \A e \in Errors :
                 [f EXCEPT ![th] = [@ EXCEPT !.known = TRUE, !.error = e]] \in Threads
             /\ \A wait \in Waits :
                 [f EXCEPT ![th] = [@ EXCEPT !.known = TRUE, !.wait = wait]] \in Threads
             /\ \A wait \in Waits :
                 [f EXCEPT ![th] = [@ EXCEPT !.stack = NoTr, !.wait = wait]] \in Threads
             /\ \A s \in Seq(Work) :
                 [f EXCEPT ![th].todo = s] \in Threads
             /\ \A s \in Seq(Work) :
                 [f EXCEPT ![th] = [@ EXCEPT !.todo = s, !.wait = "running"]] \in Threads
             /\ \A s \in Seq(Work), t \in Tr :
                 [f EXCEPT ![th] = [@ EXCEPT !.todo = s, !.wait = "running", !.stack = t]] \in Threads
<1> DEFINE Threads == [Thread -> BinderThread]
           Waits == {"running", "proc", "thread"}
<1>0. f[th] \in BinderThread
  OBVIOUS
<1>1. [f EXCEPT ![th].known = TRUE] \in Threads
  <2>1. [f[th] EXCEPT !.known = TRUE] \in BinderThread
    BY <1>0 DEF BinderThread
  <2> QED BY <2>1
<1>2. \A t \in Tr \cup {NoTr} :
  [f EXCEPT ![th].stack = t] \in Threads
  <2>1. \A t \in Tr \cup {NoTr} : [f[th] EXCEPT !.stack = t] \in BinderThread
    BY <1>0 DEF BinderThread
  <2> QED BY <2>1
<1>3. \A t \in Tr \cup {NoTr} :
  [f EXCEPT ![th] = [@ EXCEPT !.known = TRUE, !.stack = t]] \in Threads
  <2>1. \A t \in Tr \cup {NoTr} : [f[th] EXCEPT !.known = TRUE, !.stack = t] \in BinderThread
    BY <1>0 DEF BinderThread
  <2> QED BY <2>1
<1>4. \A e \in Errors :
  [f EXCEPT ![th] = [@ EXCEPT !.known = TRUE, !.error = e]] \in Threads
  <2>1. \A e \in Errors : [f[th] EXCEPT !.known = TRUE, !.error = e] \in BinderThread
    BY <1>0 DEF BinderThread
  <2> QED BY <2>1
<1>5. \A wait \in Waits :
  [f EXCEPT ![th] = [@ EXCEPT !.known = TRUE, !.wait = wait]] \in Threads
  <2>1. \A wait \in Waits : [f[th] EXCEPT !.known = TRUE, !.wait = wait] \in BinderThread
    BY <1>0 DEF BinderThread
  <2> QED BY <2>1
<1>6. \A wait \in Waits :
  [f EXCEPT ![th] = [@ EXCEPT !.stack = NoTr, !.wait = wait]] \in Threads
  <2>1. \A wait \in Waits : [f[th] EXCEPT !.stack = NoTr, !.wait = wait] \in BinderThread
    BY <1>0 DEF BinderThread
  <2> QED BY <2>1
<1>7. \A s \in Seq(Work) :
  [f EXCEPT ![th].todo = s] \in Threads
  <2>1. \A s \in Seq(Work) : [f[th] EXCEPT !.todo = s] \in BinderThread
    BY <1>0 DEF BinderThread
  <2> QED BY <2>1
<1>8. \A s \in Seq(Work) :
  [f EXCEPT ![th] = [@ EXCEPT !.todo = s, !.wait = "running"]] \in Threads
  <2>1. \A s \in Seq(Work) : [f[th] EXCEPT !.todo = s, !.wait = "running"] \in BinderThread
    BY <1>0 DEF BinderThread
  <2> QED BY <2>1
<1>9. \A s \in Seq(Work), t \in Tr :
  [f EXCEPT ![th] = [@ EXCEPT !.todo = s, !.wait = "running", !.stack = t]] \in Threads
  <2>1. \A s \in Seq(Work), t \in Tr : [f[th] EXCEPT !.todo = s, !.wait = "running", !.stack = t] \in BinderThread
    BY <1>0 DEF BinderThread
  <2> QED BY <2>1
<1> QED BY <1>1, <1>2, <1>3, <1>4, <1>5, <1>6, <1>7, <1>8, <1>9

LEMMA RaiseErrorTypeOK ==
  ASSUME TypeOK, NEW th \in Thread, NEW e \in Errors, RaiseError(th, e)
  PROVE  TypeOK'
<1>1. thread' \in [Thread -> BinderThread]
  BY ThreadUpdates DEF TypeOK, RaiseError
<1> QED BY <1>1 DEF TypeOK, RaiseError, lockVars

LEMMA NewCallTypes ==
  ASSUME TypeOK, NEW th \in Thread, NEW p \in Proc, NEW oneway \in BOOLEAN,
         NewCall(th, p, oneway)
  PROVE  /\ calls + 1 \in Tr
         /\ calls' \in 0..MaxCalls
         /\ buffer' \in [Tr -> Buffer]
<1>1. calls + 1 \in Tr /\ calls' \in 0..MaxCalls
  BY CallAssumption DEF TypeOK, NewCall, Tr
<1>2. [FreeBuffer EXCEPT !.state = "kernel", !.async = oneway,
                         !.transaction = TRUE, !.node = p] \in Buffer
  BY DEF FreeBuffer, Buffer
<1>3. buffer' \in [Tr -> Buffer]
  BY <1>1, <1>2 DEF TypeOK, NewCall
<1> QED BY <1>1, <1>3

LEMMA SyncCallTypeOK ==
  ASSUME TypeOK, NEW th \in Thread, NEW p \in Proc, SyncCall(th, p)
  PROVE  TypeOK'
<1> DEFINE t == calls + 1
<1>1. t \in Tr /\ calls' \in 0..MaxCalls /\ buffer' \in [Tr -> Buffer]
  BY NewCallTypes DEF SyncCall
<1>2. CallWork(t) \in Work /\ CompleteWork \in Work
  BY <1>1, WorkType
<1>3. PICK target \in Thread \cup {NoThread} :
        /\ tx' = [tx EXCEPT ![t] =
                    [live |-> TRUE, oneway |-> FALSE, buffer |-> TRUE,
                     from |-> th, to_thread |-> target,
                     from_parent |-> thread[th].stack, to_parent |-> NoTr]]
        /\ \/ /\ target = NoThread
              /\ proc' = Enqueue(proc, p, CallWork(t))
              /\ thread' = Called(th, t)
           \/ /\ target # NoThread
              /\ thread' = Enqueue(Called(th, t), target, CallWork(t))
              /\ UNCHANGED proc
  BY DEF SyncCall
<1> HIDE DEF t
<1>4. tx' \in [Tr -> Transaction]
  BY <1>1, <1>3 DEF TypeOK, Transaction, BinderThread
<1>5. proc' \in [Proc -> BinderProc]
  BY <1>2, <1>3, EnqueueProc DEF TypeOK
<1>6. Called(th, t) \in [Thread -> BinderThread]
  <2> DEFINE f == [thread EXCEPT ![th] = [@ EXCEPT !.known = TRUE, !.stack = t]]
  <2>1. f \in [Thread -> BinderThread]
    BY <1>1, ThreadUpdates DEF TypeOK
  <2>2. Called(th, t) = Enqueue(f, th, CompleteWork)
    BY DEF Called
  <2> HIDE DEF f
  <2> QED BY <1>2, <2>1, <2>2, EnqueueThread
<1>7. thread' \in [Thread -> BinderThread]
  BY <1>2, <1>3, <1>6, EnqueueThread
<1> QED BY <1>1, <1>4, <1>5, <1>7 DEF SyncCall, TypeOK, lockVars

LEMMA OnewayCallTypeOK ==
  ASSUME TypeOK, NEW th \in Thread, NEW p \in Proc, OnewayCall(th, p)
  PROVE  TypeOK'
<1> DEFINE t == calls + 1
           f == [thread EXCEPT ![th].known = TRUE]
           g == [proc EXCEPT ![p].has_async = TRUE]
<1>1. t \in Tr /\ calls' \in 0..MaxCalls /\ buffer' \in [Tr -> Buffer]
  BY NewCallTypes DEF OnewayCall
<1>2. CallWork(t) \in Work /\ CompleteWork \in Work
  BY <1>1, WorkType
<1>3. tx' \in [Tr -> Transaction]
  <2> DEFINE r == [FreedTransaction EXCEPT !.live = TRUE, !.oneway = TRUE, !.buffer = TRUE]
  <2>1. r \in Transaction
    BY DEF FreedTransaction, Transaction
  <2>2. tx' = [tx EXCEPT ![t] = r]
    BY DEF OnewayCall
  <2>3. t \in Tr /\ tx \in [Tr -> Transaction]
    BY <1>1 DEF TypeOK
  <2> HIDE DEF r, t
  <2> QED BY <2>1, <2>2, <2>3
<1>4. proc' \in [Proc -> BinderProc]
  <2>1. g \in [Proc -> BinderProc]
    BY DEF TypeOK, BinderProc
  <2> DEFINE h == [proc EXCEPT ![p].async_todo = Append(@, CallWork(t))]
  <2>2. h \in [Proc -> BinderProc]
    <3>1. Append(proc[p].async_todo, CallWork(t)) \in Seq(Work)
      BY <1>2, ListTypes
    <3> QED BY <3>1 DEF TypeOK, BinderProc
  <2>3. proc' = Enqueue(g, p, CallWork(t)) \/ proc' = h
    BY DEF OnewayCall, QueueOneway
  <2> HIDE DEF g, h, t
  <2> QED BY <1>2, <2>1, <2>2, <2>3, EnqueueProc
<1>5. thread' \in [Thread -> BinderThread]
  <2>1. f \in [Thread -> BinderThread]
    BY ThreadUpdates DEF TypeOK
  <2>2. thread' = Enqueue(f, th, CompleteWork)
    BY DEF OnewayCall
  <2> HIDE DEF f
  <2> QED BY <1>2, <2>1, <2>2, EnqueueThread
<1> QED BY <1>1, <1>3, <1>4, <1>5 DEF OnewayCall, TypeOK, lockVars

\* What binder_pop_transaction leaves.
LEMMA PoppedTypes ==
  ASSUME TypeOK, NEW t \in Tr
  PROVE  Popped(t) \in [Tr -> Transaction] /\ Unlinked(t) \in [Tr -> Buffer]
<1>1. Popped(t) \in [Tr -> Transaction]
  BY ConstantTypes DEF TypeOK, Popped
<1>2. Unlinked(t) \in [Tr -> Buffer]
  BY DEF TypeOK, Unlinked, Buffer
<1> QED BY <1>1, <1>2

LEMMA ServedCall ==
  ASSUME TypeOK, NEW th \in Thread, Serving(th)
  PROVE  /\ thread[th].stack \in Tr
         /\ tx[thread[th].stack] \in Transaction
         /\ ReplierPopped(th) \in [Thread -> BinderThread]
<1>1. thread[th].stack \in Tr
  BY DEF TypeOK, Serving, BinderThread
<1>2. tx[thread[th].stack] \in Transaction
  BY <1>1 DEF TypeOK
<1>3. tx[thread[th].stack].to_parent \in Tr \cup {NoTr}
  BY <1>2 DEF Transaction
<1>4. ReplierPopped(th) \in [Thread -> BinderThread]
  BY <1>3, ThreadUpdates DEF TypeOK, ReplierPopped
<1> QED BY <1>1, <1>2, <1>4

LEMMA ReplyFailedTypeOK ==
  ASSUME TypeOK, NEW th \in Thread, NEW code \in Errors, ReplyFailed(th, code)
  PROVE  TypeOK'
<1> DEFINE popped == ReplierPopped(th)
<1>1. /\ thread[th].stack \in Tr
      /\ popped \in [Thread -> BinderThread]
  BY ServedCall DEF ReplyFailed
<1>2. thread' \in [Thread -> BinderThread]
  <2>1. PICK e \in Errors : thread' = [popped EXCEPT ![th].error = e]
    BY DEF ReplyFailed, Errors
  <2> HIDE DEF popped
  <2> QED BY <1>1, <2>1 DEF BinderThread
<1>3. failing' \in [t : Tr \cup {NoTr}, code : Errors]
  BY <1>1 DEF ReplyFailed, TypeOK
<1> QED BY <1>2, <1>3 DEF ReplyFailed, TypeOK

LEMMA ReplyTypeOK ==
  ASSUME TypeOK, NEW th \in Thread, Reply(th)
  PROVE  TypeOK'
<1> DEFINE t == thread[th].stack
           target == tx[t].from
           f == [ReplierPopped(th) EXCEPT ![target].stack = tx[t].from_parent]
           g == Enqueue(f, target, ReplyWork(t))
<1>1. t \in Tr /\ tx[t] \in Transaction /\ ReplierPopped(th) \in [Thread -> BinderThread]
  BY ServedCall DEF Reply
<1>2. target \in Thread /\ tx[t].from_parent \in Tr \cup {NoTr}
  BY <1>1 DEF Reply, Transaction
<1>3. ReplyWork(t) \in Work /\ CompleteWork \in Work
  BY <1>1, WorkType
<1>4. f \in [Thread -> BinderThread]
  <2> HIDE DEF t, target
  <2> QED BY <1>1, <1>2, ThreadUpdates
<1>5. thread' = Enqueue(g, th, CompleteWork)
  BY DEF Reply
<1>6. g \in [Thread -> BinderThread]
  <2> HIDE DEF f, t, target
  <2> QED BY <1>2, <1>3, <1>4, EnqueueThread
<1>7. thread' \in [Thread -> BinderThread]
  <2> HIDE DEF g
  <2> QED BY <1>3, <1>5, <1>6, EnqueueThread
<1>8. tx' \in [Tr -> Transaction] /\ buffer' \in [Tr -> Buffer]
  BY <1>1, PoppedTypes DEF Reply
<1> QED BY <1>7, <1>8 DEF Reply, TypeOK, lockVars

LEMMA BcFreeBufferTypeOK ==
  ASSUME TypeOK, NEW th \in Thread, NEW t \in Tr, BcFreeBuffer(th, t)
  PROVE  TypeOK'
<1> DEFINE p == buffer[t].node
           f == [thread EXCEPT ![th].known = TRUE]
<1>1. p \in Proc
  BY ThreadAssumption DEF BcFreeBuffer
<1>2. buffer' \in [Tr -> Buffer] /\ tx' \in [Tr -> Transaction]
  BY ConstantTypes DEF TypeOK, BcFreeBuffer, Transaction
<1>3. f \in [Thread -> BinderThread]
  BY ThreadUpdates DEF TypeOK
<1>4. proc' \in [Proc -> BinderProc]
  <2>1. proc[p].async_todo # <<>> => Tail(proc[p].async_todo) \in Seq(Work)
    BY <1>1, ListTypes
  <2>2. \/ proc' = proc
        \/ proc' = [proc EXCEPT ![p].has_async = FALSE]
        \/ /\ proc[p].async_todo # <<>>
           /\ proc' = [proc EXCEPT ![p].async_todo = Tail(@)]
    BY DEF BcFreeBuffer, StartNextAsync
  <2>3. proc \in [Proc -> BinderProc]
    BY DEF TypeOK
  <2> HIDE DEF p
  <2>4. [proc EXCEPT ![p].has_async = FALSE] \in [Proc -> BinderProc]
    BY <1>1, <2>3 DEF BinderProc
  <2>5. ASSUME proc[p].async_todo # <<>>
        PROVE  [proc EXCEPT ![p].async_todo = Tail(@)] \in [Proc -> BinderProc]
    BY <1>1, <2>1, <2>3, <2>5 DEF BinderProc
  <2> QED BY <2>2, <2>3, <2>4, <2>5
<1>5. thread' \in [Thread -> BinderThread]
  <2>1. proc[p].async_todo # <<>> => Head(proc[p].async_todo) \in Work
    BY <1>1, ListTypes
  <2>2. \/ thread' = f
        \/ /\ proc[p].async_todo # <<>>
           /\ thread' = Enqueue(f, th, Head(proc[p].async_todo))
    BY DEF BcFreeBuffer, StartNextAsync
  <2> HIDE DEF p, f
  <2> QED BY <1>3, <2>1, <2>2, EnqueueThread
<1> QED BY <1>2, <1>4, <1>5 DEF BcFreeBuffer, TypeOK, lockVars

-----------------------------------------------------------------------------
LEMMA ErrorUpdates ==
  ASSUME NEW f \in [Thread -> BinderThread], NEW th \in Thread,
         NEW e \in Errors, NEW e2 \in Errors
  PROVE  [f EXCEPT ![th] = [@ EXCEPT !.error = e, !.error2 = e2]] \in [Thread -> BinderThread]
BY DEF BinderThread

LEMMA ReadErrorsTypeOK ==
  ASSUME TypeOK, NEW th \in Thread, ReadErrors(th)
  PROVE  TypeOK'
<1>1. thread' \in [Thread -> BinderThread]
  BY ErrorUpdates DEF TypeOK, ReadErrors, Errors
<1> QED BY <1>1 DEF TypeOK, ReadErrors, lockVars

LEMMA SleepTypeOK ==
  ASSUME TypeOK, NEW th \in Thread, Sleep(th)
  PROVE  TypeOK'
<1>1. WaitFor(th) \in {"running", "proc", "thread"}
  BY DEF WaitFor
<1>2. thread' \in [Thread -> BinderThread]
  BY <1>1, ThreadUpdates DEF TypeOK, Sleep
<1> QED BY <1>2 DEF TypeOK, Sleep, lockVars

LEMMA CallUpdates ==
  ASSUME NEW f \in [Tr -> Transaction], NEW t \in Tr,
         NEW s \in Tr \cup {NoTr}, NEW th \in Thread
  PROVE  [f EXCEPT ![t] = [@ EXCEPT !.to_parent = s, !.to_thread = th]] \in [Tr -> Transaction]
BY DEF Transaction

LEMMA BufferUpdates ==
  ASSUME NEW r \in Buffer, NEW th \in Thread
  PROVE  /\ [r EXCEPT !.state = "user", !.holder = th] \in Buffer
         /\ [r EXCEPT !.state = "user", !.holder = th, !.transaction = FALSE] \in Buffer
BY DEF Buffer

LEMMA BufferUnlinked ==
  ASSUME NEW f \in [Tr -> Buffer], NEW t \in Tr
  PROVE  [f EXCEPT ![t].transaction = FALSE] \in [Tr -> Buffer]
BY DEF Buffer

LEMMA DeliverTypes ==
  ASSUME TypeOK, NEW th \in Thread, NEW w \in Work, NEW rest \in Seq(Work),
         Deliver(th, w, rest)
  PROVE  /\ thread' \in [Thread -> BinderThread]
         /\ tx' \in [Tr -> Transaction]
         /\ buffer' \in [Tr -> Buffer]
<1> DEFINE t == w.t
<1>1. /\ thread \in [Thread -> BinderThread]
      /\ tx \in [Tr -> Transaction]
      /\ buffer \in [Tr -> Buffer]
      /\ thread[th].stack \in Tr \cup {NoTr}
  BY DEF TypeOK, BinderThread
<1>2. CASE w.type # "call"
  <2>1. /\ thread' = [thread EXCEPT ![th] = [@ EXCEPT !.todo = rest, !.wait = "running"]]
        /\ tx' = tx /\ buffer' = buffer
    BY <1>2 DEF Deliver
  <2>2. thread' \in [Thread -> BinderThread]
    BY <1>1, <2>1, ThreadUpdates
  <2> QED BY <1>1, <2>1, <2>2
<1>3. CASE w.type = "call" /\ ~tx[t].oneway
  <2>1. t \in Tr
    BY <1>3, WorkOfCall
  <2>2. /\ thread' = [thread EXCEPT ![th] = [@ EXCEPT !.todo = rest, !.wait = "running", !.stack = t]]
        /\ tx' = [tx EXCEPT ![t] = [@ EXCEPT !.to_parent = thread[th].stack, !.to_thread = th]]
        /\ buffer' = [buffer EXCEPT ![t] = [@ EXCEPT !.state = "user", !.holder = th]]
    BY <1>3 DEF Deliver
  <2> HIDE DEF t
  <2>3. thread' \in [Thread -> BinderThread]
    BY <1>1, <2>1, <2>2, ThreadUpdates
  <2>4. tx' \in [Tr -> Transaction]
    BY <1>1, <2>1, <2>2, CallUpdates
  <2>5. buffer' \in [Tr -> Buffer]
    BY <1>1, <2>1, <2>2, BufferUpdates
  <2> QED BY <2>3, <2>4, <2>5
<1>4. CASE w.type = "call" /\ tx[t].oneway
  <2>1. t \in Tr
    BY <1>4, WorkOfCall
  <2>2. /\ thread' = [thread EXCEPT ![th] = [@ EXCEPT !.todo = rest, !.wait = "running"]]
        /\ tx' = [tx EXCEPT ![t] = FreedTransaction]
        /\ buffer' = [buffer EXCEPT ![t] =
                        [@ EXCEPT !.state = "user", !.holder = th, !.transaction = FALSE]]
    BY <1>4 DEF Deliver
  <2> HIDE DEF t
  <2>3. thread' \in [Thread -> BinderThread]
    BY <1>1, <2>2, ThreadUpdates
  <2>4. tx' \in [Tr -> Transaction]
    BY <1>1, <2>1, <2>2, ConstantTypes
  <2>5. buffer' \in [Tr -> Buffer]
    BY <1>1, <2>1, <2>2, BufferUpdates
  <2> QED BY <2>3, <2>4, <2>5
<1> QED BY <1>2, <1>3, <1>4

LEMMA ToldType ==
  ASSUME TypeOK, NEW target \in Thread, NEW t \in Tr
  PROVE  Told(target, t) \in [Thread -> BinderThread]
<1> DEFINE e2 == SecondError(target)
           s == tx[t].from_parent
           code == failing.code
<1>1. s \in Tr \cup {NoTr} /\ code \in Errors /\ e2 \in Errors
  BY DEF TypeOK, Transaction, BinderThread, SecondError
<1>2. Told(target, t) = [thread EXCEPT ![target] =
                           [@ EXCEPT !.stack = s, !.error = code, !.error2 = e2]]
  BY DEF Told
<1>3. thread \in [Thread -> BinderThread]
  BY DEF TypeOK
<1> HIDE DEF e2, s, code
<1>4. [thread[target] EXCEPT !.stack = s, !.error = code, !.error2 = e2] \in BinderThread
  BY <1>1, <1>3 DEF BinderThread
<1> QED BY <1>2, <1>3, <1>4

LEMMA FailedReplyTypeOK ==
  ASSUME TypeOK, FailedReply
  PROVE  TypeOK'
<1> DEFINE t == failing.t
           target == tx[t].from
<1>1. /\ t \in Tr /\ tx[t] \in Transaction /\ failing.code \in Errors
      /\ target \in Thread \cup {NoThread} /\ tx[t].from_parent \in Tr \cup {NoTr}
  BY DEF TypeOK, FailedReply, Transaction
<1>2. tx' \in [Tr -> Transaction] /\ buffer' \in [Tr -> Buffer]
  BY <1>1, PoppedTypes DEF TypeOK, FailedReply
<1>3. thread' \in [Thread -> BinderThread]
  <2>1. thread' = thread \/ (target \in Thread /\ thread' = Told(target, t))
    BY <1>1 DEF FailedReply
  <2> HIDE DEF t, target
  <2> QED BY <1>1, <2>1, ToldType DEF TypeOK
<1>4. failing' \in [t : Tr \cup {NoTr}, code : Errors]
  <2>1. NextFailure(t) \in [t : Tr \cup {NoTr}, code : Errors]
    BY <1>1, ConstantTypes DEF NextFailure, TypeOK
  <2> QED BY <2>1, ConstantTypes DEF FailedReply
<1> QED BY <1>2, <1>3, <1>4 DEF TypeOK, FailedReply

-----------------------------------------------------------------------------
LEMMA CutThreadTypes ==
  ASSUME TypeOK, NEW th \in Thread, CutThread(th)
  PROVE  /\ thread' \in [Thread -> BinderThread]
         /\ tx' \in [Tr -> Transaction]
         /\ buffer' \in [Tr -> Buffer]
         /\ failing' \in [t : Tr \cup {NoTr}, code : Errors]
         /\ freeing' \in Thread \cup {NoThread}
<1>1. thread' \in [Thread -> BinderThread]
  BY ThreadUpdates DEF TypeOK, CutThread
<1>2. PICK S \in SUBSET Tr :
        /\ tx' = [t \in Tr |->
             [tx[t] EXCEPT
                !.to_thread = IF t \in {u \in S : tx[u].to_thread = th} THEN NoThread ELSE @,
                !.buffer = IF t \in {u \in S : tx[u].to_thread = th} THEN FALSE ELSE @,
                !.from = IF t \in {u \in S \ {v \in S : tx[v].to_thread = th} :
                                     tx[u].from = th} THEN NoThread ELSE @]]
        /\ buffer' = [t \in Tr |->
             [buffer[t] EXCEPT !.transaction =
                IF t \in {u \in S : tx[u].to_thread = th} /\ tx[t].buffer THEN FALSE ELSE @]]
  BY DEF CutThread
<1>3. tx' \in [Tr -> Transaction]
  <2>1. \A r \in Transaction : \A a, c \in Thread \cup {NoThread}, b \in BOOLEAN :
          [r EXCEPT !.to_thread = a, !.buffer = b, !.from = c] \in Transaction
    BY DEF Transaction
  <2>2. \A t \in Tr : /\ tx[t] \in Transaction
                      /\ tx[t].to_thread \in Thread \cup {NoThread}
                      /\ tx[t].from \in Thread \cup {NoThread}
                      /\ tx[t].buffer \in BOOLEAN
    BY DEF TypeOK, Transaction
  <2> QED BY <1>2, <2>1, <2>2
<1>4. buffer' \in [Tr -> Buffer]
  <2>1. \A r \in Buffer, b \in BOOLEAN : [r EXCEPT !.transaction = b] \in Buffer
    BY DEF Buffer
  <2>2. \A t \in Tr : buffer[t] \in Buffer /\ buffer[t].transaction \in BOOLEAN
    BY DEF TypeOK, Buffer
  <2> QED BY <1>2, <2>1, <2>2
<1>5. failing' \in [t : Tr \cup {NoTr}, code : Errors]
  <2>1. Serving(th) => thread[th].stack \in Tr
    BY ServedCall
  <2> QED BY <2>1, ConstantTypes DEF CutThread, ExitFailure, Errors
<1> QED BY <1>1, <1>3, <1>4, <1>5 DEF CutThread

LEMMA ReleaseWorkTypes ==
  ASSUME TypeOK, NEW w \in Work, ReleaseWork(w)
  PROVE  /\ tx' \in [Tr -> Transaction]
         /\ buffer' \in [Tr -> Buffer]
         /\ failing' \in [t : Tr \cup {NoTr}, code : Errors]
<1>1. \/ tx' = tx /\ buffer' = buffer
      \/ /\ w.t \in Tr
         /\ tx' = Popped(w.t)
         /\ buffer' = [buffer EXCEPT ![w.t].transaction = FALSE]
  BY WorkOfCall DEF ReleaseWork
<1>2. tx' \in [Tr -> Transaction] /\ buffer' \in [Tr -> Buffer]
  <2> DEFINE t == w.t
  <2>1. tx \in [Tr -> Transaction] /\ buffer \in [Tr -> Buffer]
    BY DEF TypeOK
  <2>2. CASE tx' = tx /\ buffer' = buffer
    BY <2>1, <2>2
  <2>3. CASE /\ t \in Tr
             /\ tx' = Popped(t)
             /\ buffer' = [buffer EXCEPT ![t].transaction = FALSE]
    <3> HIDE DEF t
    <3> QED BY <2>1, <2>3, PoppedTypes, BufferUnlinked
  <2> QED BY <1>1, <2>2, <2>3
<1>3. failing' \in [t : Tr \cup {NoTr}, code : Errors]
  BY WorkOfCall DEF ReleaseWork, TypeOK, Errors
<1> QED BY <1>2, <1>3

LEMMA ReadTypeOK ==
  ASSUME TypeOK, NEW th \in Thread, Read(th)
  PROVE  TypeOK'
<1>1. CASE ReadErrors(th)
  BY <1>1, ReadErrorsTypeOK
<1>2. CASE Sleep(th)
  BY <1>2, SleepTypeOK
<1>3. CASE ReadThreadWork(th)
  <2>1. Head(thread[th].todo) \in Work /\ Tail(thread[th].todo) \in Seq(Work)
    BY <1>3, ListTypes DEF ReadThreadWork
  <2>2. Deliver(th, Head(thread[th].todo), Tail(thread[th].todo))
    BY <1>3 DEF ReadThreadWork
  <2> QED BY <1>3, <2>1, <2>2, DeliverTypes DEF ReadThreadWork, TypeOK, lockVars
<1>4. CASE ReadProcWork(th)
  <2> DEFINE p == ProcOf[th]
  <2>1. p \in Proc
    BY ThreadAssumption
  <2>2. Head(proc[p].todo) \in Work /\ Tail(proc[p].todo) \in Seq(Work)
    BY <1>4, <2>1, ListTypes DEF ReadProcWork
  <2>3. Deliver(th, Head(proc[p].todo), <<>>)
    BY <1>4 DEF ReadProcWork
  <2>4. proc' \in [Proc -> BinderProc]
    <3>1. proc' = [proc EXCEPT ![p].todo = Tail(@)]
      BY <1>4 DEF ReadProcWork
    <3>2. proc \in [Proc -> BinderProc]
      BY DEF TypeOK
    <3> HIDE DEF p
    <3> DEFINE f == [proc EXCEPT ![p].todo = Tail(@)]
    <3>3. f \in [Proc -> BinderProc]
      BY <2>1, <2>2, <3>2 DEF BinderProc
    <3> QED BY <3>1, <3>3
  <2>5. /\ thread' \in [Thread -> BinderThread]
        /\ tx' \in [Tr -> Transaction]
        /\ buffer' \in [Tr -> Buffer]
    <3>1. <<>> \in Seq(Work)
      OBVIOUS
    <3> HIDE DEF p
    <3> QED BY <2>2, <2>3, <3>1, DeliverTypes
  <2> QED BY <1>4, <2>4, <2>5 DEF ReadProcWork, TypeOK, lockVars
<1>5. CASE ReadRetry(th)
  <2>1. thread' \in [Thread -> BinderThread]
    BY <1>5 DEF ReadRetry, TypeOK, BinderThread, Errors
  <2> QED BY <1>5, <2>1 DEF ReadRetry, TypeOK, lockVars
<1> QED BY <1>1, <1>2, <1>3, <1>4, <1>5 DEF Read

LEMMA CommandTypeOK ==
  ASSUME TypeOK, NEW th \in Thread, Command(th)
  PROVE  TypeOK'
<1>1. ASSUME NEW p \in Proc,
             CallDeadNode(th, p) \/ CallBadStack(th, p) \/ CallRefused(th, p)
      PROVE  TypeOK'
  <2>1. PICK e \in Errors : RaiseError(th, e)
    BY <1>1 DEF CallDeadNode, CallBadStack, CallRefused, Errors
  <2> QED BY <2>1, RaiseErrorTypeOK
<1>2. ASSUME NEW p \in Proc, SyncCall(th, p) \/ OnewayCall(th, p)
      PROVE  TypeOK'
  BY <1>2, SyncCallTypeOK, OnewayCallTypeOK
<1>3. CASE ReplyBadStack(th)
  <2>1. PICK e \in Errors : RaiseError(th, e)
    BY <1>3 DEF ReplyBadStack, Errors
  <2> QED BY <2>1, RaiseErrorTypeOK
<1>4. CASE Reply(th)
  BY <1>4, ReplyTypeOK
<1>5. ASSUME NEW code \in {"DEAD_REPLY", "FAILED_REPLY"}, ReplyFailed(th, code)
      PROVE  TypeOK'
  BY <1>5, ReplyFailedTypeOK DEF Errors
<1>6. ASSUME NEW t \in Tr, BcFreeBuffer(th, t)
      PROVE  TypeOK'
  BY <1>6, BcFreeBufferTypeOK
<1> QED BY <1>1, <1>2, <1>3, <1>4, <1>5, <1>6 DEF Command

\* The releases of a dying thread or process.
LEMMA LockHeldTypeOK ==
  ASSUME TypeOK, LockHeld
  PROVE  TypeOK'
<1>1. CASE FailedReply
  BY <1>1, FailedReplyTypeOK
<1>2. CASE ReleaseThreadWork
  <2>1. freeing \in Thread
    BY <1>2 DEF ReleaseThreadWork, TypeOK
  <2>2. Head(thread[freeing].todo) \in Work /\ Tail(thread[freeing].todo) \in Seq(Work)
    BY <1>2, <2>1, ListTypes DEF ReleaseThreadWork
  <2>3. ReleaseWork(Head(thread[freeing].todo))
    BY <1>2 DEF ReleaseThreadWork
  <2>4. thread' \in [Thread -> BinderThread]
    BY <1>2, <2>1, <2>2, ThreadUpdates DEF ReleaseThreadWork, TypeOK
  <2> QED BY <1>2, <2>2, <2>3, <2>4, ReleaseWorkTypes DEF ReleaseThreadWork, TypeOK
<1>3. CASE ThreadFreed
  <2>1. thread' \in [Thread -> BinderThread]
    BY <1>3, ConstantTypes DEF ThreadFreed, TypeOK
  <2> QED BY <1>3, <2>1 DEF ThreadFreed, TypeOK
<1>4. ASSUME NEW th \in Thread, ReleaseThread(th)
      PROVE  TypeOK'
  BY <1>4, CutThreadTypes DEF ReleaseThread, TypeOK
<1>5. ASSUME ReleaseNode \/ ReleaseProcWork
      PROVE  TypeOK'
  <2> DEFINE p == releasing
  <2>1. p \in Proc
    BY <1>5 DEF ReleaseNode, ReleaseProcWork, Releasing, TypeOK
  <2>2. /\ proc[p].async_todo # <<>> => /\ Head(proc[p].async_todo) \in Work
                                        /\ Tail(proc[p].async_todo) \in Seq(Work)
        /\ proc[p].todo # <<>> => /\ Head(proc[p].todo) \in Work
                                  /\ Tail(proc[p].todo) \in Seq(Work)
    BY <2>1, ListTypes
  <2>3. PICK w \in Work : ReleaseWork(w)
    BY <1>5, <2>2 DEF ReleaseNode, ReleaseProcWork
  <2>4. proc' \in [Proc -> BinderProc]
    <3>1. CASE ReleaseNode
      BY <3>1, <2>1, <2>2 DEF ReleaseNode, TypeOK, BinderProc
    <3>2. CASE ReleaseProcWork
      BY <3>2, <2>1, <2>2 DEF ReleaseProcWork, TypeOK, BinderProc
    <3> QED BY <1>5, <3>1, <3>2
  <2> QED BY <1>5, <2>3, <2>4, ReleaseWorkTypes DEF ReleaseNode, ReleaseProcWork, TypeOK
<1>6. CASE ReleaseBuffers
  <2>1. releasing \in Proc
    BY <1>6 DEF ReleaseBuffers, Releasing, TypeOK
  <2>2. proc' \in [Proc -> BinderProc]
    <3>1. proc \in [Proc -> BinderProc]
      BY DEF TypeOK
    <3>2. proc' = [proc EXCEPT ![releasing] = [@ EXCEPT !.state = "released", !.has_async = FALSE]]
      BY <1>6 DEF ReleaseBuffers
    <3> QED BY <2>1, <3>1, <3>2 DEF BinderProc
  <2>3. buffer' \in [Tr -> Buffer]
    BY <1>6, ConstantTypes DEF ReleaseBuffers, TypeOK
  <2>4. tx' \in [Tr -> Transaction]
    <3>1. \A t \in Tr : tx[t] \in Transaction /\ tx[t].buffer \in BOOLEAN
      BY DEF TypeOK, Transaction
    <3>2. \A r \in Transaction, b \in BOOLEAN : [r EXCEPT !.buffer = b] \in Transaction
      BY DEF Transaction
    <3> QED BY <1>6, <3>1, <3>2 DEF ReleaseBuffers
  <2> QED BY <1>6, <2>2, <2>3, <2>4 DEF ReleaseBuffers, TypeOK
<1> QED BY <1>1, <1>2, <1>3, <1>4, <1>5, <1>6 DEF LockHeld

LEMMA NextTypeOK == TypeOK /\ [Next]_vars => TypeOK'
<1> SUFFICES ASSUME TypeOK, [Next]_vars PROVE TypeOK'
  OBVIOUS
<1>1. ASSUME NEW th \in Thread, Command(th) PROVE TypeOK'
  BY <1>1, CommandTypeOK
<1>2. ASSUME NEW th \in Thread, Read(th) PROVE TypeOK'
  BY <1>2, ReadTypeOK
<1>3. ASSUME NEW th \in Thread, ThreadExit(th) PROVE TypeOK'
  BY <1>3, CutThreadTypes DEF ThreadExit, TypeOK
<1>4. ASSUME NEW p \in Proc, Close(p) PROVE TypeOK'
  <2>1. proc' \in [Proc -> BinderProc]
    BY <1>4 DEF Close, TypeOK, BinderProc
  <2>2. thread' \in [Thread -> BinderThread]
    BY <1>4 DEF Close, TypeOK, BinderThread
  <2> QED BY <1>4, <2>1, <2>2 DEF Close, TypeOK, lockVars
<1>5. ASSUME NEW p \in Proc, DeferredRelease(p) PROVE TypeOK'
  BY <1>5 DEF DeferredRelease, TypeOK
<1>6. CASE LockHeld
  BY <1>6, LockHeldTypeOK
<1>7. CASE UNCHANGED vars
  BY <1>7 DEF vars, TypeOK
<1> QED BY <1>1, <1>2, <1>3, <1>4, <1>5, <1>6, <1>7 DEF Next

(***************************************************************************)
(* Every call, buffer, thread, process and work list keeps its type in     *)
(* every reachable state: no command of binder_thread_write and no step of *)
(* binder_thread_read or of a release leaves a link, a list or an error    *)
(* that the driver would not know how to follow.                           *)
(***************************************************************************)
THEOREM TypeCorrect == Spec => []TypeOK
<1>1. Init => TypeOK
  BY InitTypeOK
<1>2. TypeOK /\ [Next]_vars => TypeOK'
  BY NextTypeOK
<1> QED BY <1>1, <1>2, PTL DEF Spec

-----------------------------------------------------------------------------
(* Numbers. *)

LEMMA HasMin ==
  ASSUME NEW S \in SUBSET Nat, S # {}
  PROVE  \E m \in S : \A x \in S : m <= x
<1> DEFINE R == {p \in Nat \X Nat : p[1] < p[2]}
<1>1. IsWellFoundedOn(R, Nat)
  BY NatLessThanWellFounded, Zenon DEF OpToRel
<1>2. \A x, y \in Nat : <<y, x>> \in R <=> y < x
  OBVIOUS
<1> HIDE DEF R
<1>3. PICK m \in S : \A y \in S : ~ (<<y, m>> \in R)
  BY <1>1, WFMin
<1>4. ASSUME NEW y \in S PROVE m <= y
  <2>1. ~ (y < m)
    BY <1>2, <1>3
  <2> QED BY <2>1
<1> QED BY <1>4

LEMMA HasMax ==
  ASSUME NEW S \in SUBSET Tr, S # {}
  PROVE  \E m \in S : \A x \in S : x <= m
<1> DEFINE D == {n \in Nat : MaxCalls - n \in S}
<1>1. \A x \in S : x \in Int /\ x <= MaxCalls /\ MaxCalls - x \in D
  BY CallAssumption DEF Tr
<1>2. D \in SUBSET Nat /\ D # {}
  BY <1>1
<1>3. PICK d \in D : \A x \in D : d <= x
  <2> HIDE DEF D
  <2> QED BY <1>2, HasMin
<1>4. MaxCalls - d \in S /\ d \in Nat
  BY <1>3
<1>5. \A x \in S : d <= MaxCalls - x
  BY <1>1, <1>3
<1>6. \A x \in S : x <= MaxCalls - d
  BY <1>1, <1>4, <1>5, CallAssumption
<1> QED BY <1>4, <1>6

-----------------------------------------------------------------------------
(* Lists of work. *)

Once(list) == \A i, j \in DOMAIN list : list[i] = list[j] /\ list[i].type = "call" => i = j

LEMMA EmptyList ==
  /\ <<>> \in Seq(Work) /\ Once(<<>>)
  /\ \A t \in Tr : ~InList(t, <<>>)
BY DEF Once, InList

LEMMA CallWorks ==
  /\ \A t, u : CallWork(t) = CallWork(u) => t = u
  /\ \A t : CallWork(t).type = "call" /\ CallWork(t).t = t
  /\ \A t, u : CallWork(t) # ReplyWork(u)
  /\ \A t : CallWork(t) # CompleteWork
  /\ \A w \in Work : w.type = "call" => w.t \in Tr /\ w = CallWork(w.t)
BY DEF CallWork, ReplyWork, CompleteWork, Work

LEMMA ListAppended ==
  ASSUME NEW s \in Seq(Work), NEW w \in Work, Once(s),
         \A t \in Tr : w = CallWork(t) => ~InList(t, s)
  PROVE  /\ Append(s, w) \in Seq(Work) /\ Once(Append(s, w))
         /\ \A t \in Tr : InList(t, Append(s, w)) <=> InList(t, s) \/ w = CallWork(t)
<1> DEFINE a == Append(s, w)
<1>1. /\ a \in Seq(Work) /\ Len(a) = Len(s) + 1 /\ Len(s) \in Nat
      /\ DOMAIN a = 1..(Len(s) + 1) /\ DOMAIN s = 1..Len(s)
      /\ \A i \in DOMAIN s : a[i] = s[i] /\ s[i] \in Work
      /\ a[Len(s) + 1] = w
  OBVIOUS
<1> HIDE DEF a
<1>2. \A i \in DOMAIN a : i \in DOMAIN s \/ i = Len(s) + 1
  BY <1>1
<1>3. \A t \in Tr : InList(t, a) <=> InList(t, s) \/ w = CallWork(t)
  BY <1>1, <1>2 DEF InList
<1>4. Once(a)
  <2> SUFFICES ASSUME NEW i \in DOMAIN a, NEW j \in DOMAIN a, a[i] = a[j], a[i].type = "call"
               PROVE  i = j
    BY DEF Once
  <2>1. a[i] \in Work
    BY <1>1, <1>2
  <2>2. PICK t \in Tr : a[i] = CallWork(t)
    BY <2>1, CallWorks
  <2>3. CASE i \in DOMAIN s /\ j \in DOMAIN s
    BY <2>3, <1>1 DEF Once
  <2>4. CASE i = Len(s) + 1 /\ j \in DOMAIN s
    BY <2>4, <2>2, <1>1 DEF InList
  <2>5. CASE j = Len(s) + 1 /\ i \in DOMAIN s
    BY <2>5, <2>2, <1>1 DEF InList
  <2> QED BY <1>2, <2>3, <2>4, <2>5
<1> QED BY <1>1, <1>3, <1>4 DEF a

LEMMA ListTail ==
  ASSUME NEW s \in Seq(Work), s # <<>>, Once(s)
  PROVE  /\ Head(s) \in Work /\ Tail(s) \in Seq(Work) /\ Once(Tail(s))
         /\ \A t \in Tr : InList(t, s) <=> Head(s) = CallWork(t) \/ InList(t, Tail(s))
         /\ \A t \in Tr : Head(s) = CallWork(t) => ~InList(t, Tail(s))
<1> DEFINE a == Tail(s)
<1>1. /\ a \in Seq(Work) /\ Len(s) \in Nat \ {0} /\ DOMAIN s = 1..Len(s)
      /\ DOMAIN a = 1..(Len(s) - 1)
      /\ \A i \in DOMAIN a : a[i] = s[i + 1]
      /\ Head(s) = s[1] /\ s[1] \in Work
  OBVIOUS
<1> HIDE DEF a
<1>2. \A i \in DOMAIN a : i \in Int /\ i + 1 \in DOMAIN s /\ i + 1 # 1
  BY <1>1
<1>3. 1 \in DOMAIN s /\ \A i \in DOMAIN s : i = 1 \/ (i - 1 \in DOMAIN a /\ (i - 1) + 1 = i)
  BY <1>1
<1>4. ASSUME NEW t \in Tr
      PROVE  /\ InList(t, s) <=> Head(s) = CallWork(t) \/ InList(t, a)
             /\ Head(s) = CallWork(t) => ~InList(t, a)
  <2>1. InList(t, s) => Head(s) = CallWork(t) \/ InList(t, a)
    <3> SUFFICES ASSUME NEW i \in DOMAIN s, s[i] = CallWork(t), i # 1
                 PROVE  InList(t, a)
      BY <1>1 DEF InList
    <3> QED BY <1>1, <1>3 DEF InList
  <2>2. Head(s) = CallWork(t) \/ InList(t, a) => InList(t, s)
    BY <1>1, <1>2, <1>3 DEF InList
  <2>3. Head(s) = CallWork(t) => ~InList(t, a)
    <3> SUFFICES ASSUME Head(s) = CallWork(t), NEW i \in DOMAIN a, a[i] = CallWork(t)
                 PROVE  FALSE
      BY DEF InList
    <3>1. s[1] = s[i + 1] /\ s[1].type = "call" /\ i + 1 \in DOMAIN s /\ i + 1 # 1
      BY <1>1, <1>2, CallWorks
    <3> QED BY <3>1, <1>3 DEF Once
  <2> QED BY <2>1, <2>2, <2>3
<1>5. Once(a)
  <2> SUFFICES ASSUME NEW i \in DOMAIN a, NEW j \in DOMAIN a, a[i] = a[j], a[i].type = "call"
               PROVE  i = j
    BY DEF Once
  <2>1. i + 1 = j + 1
    BY <1>1, <1>2 DEF Once
  <2> QED BY <1>2, <2>1
<1> QED BY <1>1, <1>4, <1>5 DEF a

-----------------------------------------------------------------------------
(* The calls that a call was made for, itself included: what every set that *)
(* holds w and is closed under from_parent holds.                          *)
Closed(fp, C) == \A u \in C : fp[u] \in C \cup {NoTr}
Up(fp, w) == {a \in Tr : \A C \in SUBSET Tr : w \in C /\ Closed(fp, C) => a \in C}
IsChain(fp) == /\ fp \in [Tr -> Tr \cup {NoTr}]
               /\ \A t \in Tr : fp[t] # NoTr => fp[t] < t

\* Nothing was called for it.
Leaf(fp, t) == \A c \in Tr : fp[c] # t

LEMMA Numbers ==
  /\ \A t \in Tr : t \in Nat /\ t \in Int /\ 0 < t
  /\ NoTr = 0 /\ NoTr \notin Tr
BY CallAssumption DEF Tr, NoTr

LEMMA UpSelf ==
  ASSUME NEW fp, NEW w \in Tr
  PROVE  w \in Up(fp, w) /\ Up(fp, w) \subseteq Tr
BY DEF Up

LEMMA UpClosed ==
  ASSUME NEW fp, IsChain(fp), NEW w
  PROVE  Closed(fp, Up(fp, w))
<1> SUFFICES ASSUME NEW u \in Up(fp, w), fp[u] # NoTr PROVE fp[u] \in Up(fp, w)
  BY DEF Closed
<1>1. u \in Tr /\ fp[u] \in Tr
  BY DEF Up, IsChain
<1>2. ASSUME NEW C \in SUBSET Tr, w \in C, Closed(fp, C) PROVE fp[u] \in C
  BY <1>2 DEF Up, Closed
<1> QED BY <1>1, <1>2 DEF Up

LEMMA UpInClosed ==
  ASSUME NEW fp, NEW w, NEW C \in SUBSET Tr, w \in C, Closed(fp, C)
  PROVE  Up(fp, w) \subseteq C
BY DEF Up

LEMMA UpTransitive ==
  ASSUME NEW fp, IsChain(fp), NEW w \in Tr, NEW b \in Up(fp, w)
  PROVE  Up(fp, b) \subseteq Up(fp, w)
BY UpSelf, UpClosed, UpInClosed

LEMMA UpIsOlder ==
  ASSUME NEW fp, IsChain(fp), NEW w \in Tr, NEW a \in Up(fp, w)
  PROVE  a \in Tr /\ a <= w
<1> DEFINE C == {u \in Tr : u <= w}
<1>1. C \in SUBSET Tr /\ w \in C
  BY Numbers
<1>2. Closed(fp, C)
  <2> SUFFICES ASSUME NEW u \in C, fp[u] # NoTr PROVE fp[u] \in C
    BY DEF Closed
  <2>1. u \in Tr /\ fp[u] \in Tr /\ fp[u] < u /\ u <= w
    BY DEF IsChain
  <2>2. fp[u] <= w
    BY <2>1, Numbers
  <2> QED BY <2>1, <2>2
<1> HIDE DEF C
<1>3. a \in C
  BY <1>1, <1>2, UpInClosed
<1> QED BY <1>3 DEF C

\* The call above it, on the way to w.
LEMMA UpHasChild ==
  ASSUME NEW fp, IsChain(fp), NEW w \in Tr, NEW a \in Up(fp, w), a # w
  PROVE  \E c \in Up(fp, w) : fp[c] = a
<1> SUFFICES ASSUME \A c \in Up(fp, w) : fp[c] # a PROVE FALSE
  OBVIOUS
<1> DEFINE C == Up(fp, w) \ {a}
<1>1. C \in SUBSET Tr /\ w \in C
  BY UpSelf
<1>2. Closed(fp, C)
  BY UpClosed DEF Closed
<1> HIDE DEF C
<1>3. a \in C
  BY <1>1, <1>2, UpInClosed
<1> QED BY <1>3 DEF C

LEMMA UpOfLeaf ==
  ASSUME NEW fp, IsChain(fp), NEW w \in Tr, NEW a \in Up(fp, w), Leaf(fp, a)
  PROVE  a = w
BY UpHasChild DEF Leaf, Up

\* Where each call has one child at most, two calls with a common ancestor are
\* on one path.
LEMMA UpComparable ==
  ASSUME NEW fp, IsChain(fp), NEW a \in Tr, NEW b \in Tr,
         NEW t \in Up(fp, a), t \in Up(fp, b),
         \A c, d \in Tr : fp[c] = fp[d] /\ fp[c] # NoTr => c = d
  PROVE  a \in Up(fp, b) \/ b \in Up(fp, a)
<1> DEFINE D == Up(fp, a) \cap Up(fp, b)
<1>1. D \in SUBSET Tr /\ D # {}
  BY UpSelf
<1>2. PICK m \in D : \A x \in D : x <= m
  <2> HIDE DEF D
  <2> QED BY <1>1, HasMax
<1>3. CASE m = a \/ m = b
  BY <1>2, <1>3
<1>4. CASE m # a /\ m # b
  <2>1. PICK c \in Up(fp, a) : fp[c] = m
    BY <1>2, <1>4, UpHasChild
  <2>2. PICK d \in Up(fp, b) : fp[d] = m
    BY <1>2, <1>4, UpHasChild
  <2>3. m \in Tr /\ c \in Tr /\ d \in Tr
    BY <1>1, <1>2, <2>1, <2>2, UpSelf
  <2>4. c = d
    BY <2>1, <2>2, <2>3, Numbers
  <2>5. c \in D /\ m < c
    BY <2>1, <2>2, <2>3, <2>4, Numbers DEF IsChain
  <2>6. c <= m
    BY <1>2, <2>5
  <2> QED BY <2>3, <2>5, <2>6, Numbers
<1> QED BY <1>3, <1>4

\* A call without a child leaves.
LEMMA UpPopped ==
  ASSUME NEW fp, IsChain(fp), NEW t \in Tr, Leaf(fp, t),
         NEW w \in Tr, w # t
  PROVE  Up(fp, w) \subseteq Up([fp EXCEPT ![t] = NoTr], w)
<1> DEFINE g == [fp EXCEPT ![t] = NoTr]
<1>1. \A u \in Tr : u # t => g[u] = fp[u]
  BY DEF IsChain
<1> HIDE DEF g
<1> SUFFICES ASSUME NEW a \in Up(fp, w), NEW C \in SUBSET Tr, w \in C, Closed(g, C)
             PROVE  a \in C
  BY DEF Up, g
<1> DEFINE E == C \ {t}
<1>2. E \in SUBSET Tr /\ w \in E
  OBVIOUS
<1>3. Closed(fp, E)
  BY <1>1 DEF Closed, Leaf
<1> HIDE DEF E
<1>4. a \in E
  BY <1>2, <1>3, UpInClosed
<1> QED BY <1>4 DEF E

\* A new call comes.
LEMMA UpPushed ==
  ASSUME NEW fp, IsChain(fp), NEW t \in Tr, Leaf(fp, t), fp[t] = NoTr,
         NEW s \in Tr \cup {NoTr}, s < t,
         NEW g \in [Tr -> Tr \cup {NoTr}], \A u \in Tr : u # t => g[u] = fp[u], g[t] = s
  PROVE  /\ IsChain(g)
         /\ \A w \in Tr : w # t => Up(fp, w) \subseteq Up(g, w)
         /\ s # NoTr => Up(fp, s) \subseteq Up(g, t)
<1>1. IsChain(g)
  BY DEF IsChain
<1>2. \A u \in Tr : u # t => g[u] = fp[u]
  OBVIOUS
<1>3. g[t] = s
  OBVIOUS
<1>4. ASSUME NEW w \in Tr, w # t PROVE Up(fp, w) \subseteq Up(g, w)
  <2> SUFFICES ASSUME NEW a \in Up(fp, w), NEW C \in SUBSET Tr, w \in C, Closed(g, C)
               PROVE  a \in C
    BY DEF Up
  <2> DEFINE E == C \ {t}
  <2>1. E \in SUBSET Tr /\ w \in E
    BY <1>4
  <2>2. Closed(fp, E)
    BY <1>2 DEF Closed, Leaf
  <2> HIDE DEF E
  <2>3. a \in E
    BY <2>1, <2>2, UpInClosed
  <2> QED BY <2>3 DEF E
<1>5. ASSUME s # NoTr PROVE Up(fp, s) \subseteq Up(g, t)
  <2>1. s \in Tr /\ s # t
    BY <1>5, Numbers
  <2>2. s \in Up(g, t)
    BY <1>1, <1>3, <1>5, UpSelf, UpClosed DEF Closed
  <2>3. Up(fp, s) \subseteq Up(g, s)
    BY <1>4, <2>1
  <2>4. Up(g, s) \subseteq Up(g, t)
    BY <1>1, <2>2, UpTransitive
  <2> QED BY <2>3, <2>4
<1> QED BY <1>1, <1>4, <1>5

\* The walk along from_parent.
LEMMA WalkIsUp ==
  ASSUME NEW fp, IsChain(fp), NEW top \in Tr \cup {NoTr}, NEW C \in SUBSET Tr,
         IsWalk(C, top, fp), NEW u \in C
  PROVE  top \in Tr /\ u \in Up(fp, top)
<1> DEFINE D == {x \in C : top = NoTr \/ x \notin Up(fp, top)}
<1>1. D = {}
  <2> SUFFICES ASSUME D # {} PROVE FALSE
    OBVIOUS
  <2>1. D \in SUBSET Tr
    OBVIOUS
  <2>2. PICK m \in D : \A x \in D : x <= m
    <3> HIDE DEF D
    <3> QED BY <2>1, HasMax
  <2>3. m \in C /\ m \in Tr /\ (top = NoTr \/ m \notin Up(fp, top))
    BY <2>2
  <2>4. m # top
    BY <2>3, UpSelf, Numbers
  <2>5. PICK c \in C : fp[c] = m
    BY <2>3, <2>4 DEF IsWalk
  <2>6. c \in Tr /\ m < c
    BY <2>3, <2>5, Numbers DEF IsChain
  <2>7. c \notin D
    BY <2>2, <2>3, <2>6, Numbers
  <2>8. top # NoTr /\ c \in Up(fp, top)
    BY <2>5, <2>7
  <2>9. m \in Up(fp, top)
    BY <2>3, <2>5, <2>8, UpClosed, Numbers DEF Closed
  <2> QED BY <2>3, <2>8, <2>9
<1> QED BY <1>1

\* The walk along the links of a stack whose calls are M.
LEMMA WalkIsStack ==
  ASSUME NEW M \in SUBSET Tr, NEW top \in M \cup {NoTr}, NEW link,
         \A u \in M : u <= top /\ link[u] \in M \cup {NoTr} /\ link[u] < u,
         \A u, v \in M : v < u => v <= link[u],
         \A u \in Tr \ M : link[u] = NoTr
  PROVE  /\ IsWalk(M, top, link)
         /\ \A C \in SUBSET Tr : IsWalk(C, top, link) => C = M
<1>0. \A x \in M : x \in Nat /\ 0 < x
  BY Numbers
<1>1. ASSUME NEW u \in M, u # top PROVE \E c \in M : link[c] = u
  <2> DEFINE D == {x \in M : u < x}
  <2>0. u \in Nat \ {0} /\ top \in M /\ top \in Nat
    BY <1>1, Numbers
  <2>1. D \in SUBSET Nat /\ top \in D
    <3>1. u <= top
      OBVIOUS
    <3>2. u < top
      BY <1>1, <2>0, <3>1
    <3>3. \A x \in D : x \in Nat
      BY <1>0
    <3> QED BY <2>0, <3>2, <3>3
  <2>2. PICK c \in D : \A x \in D : c <= x
    <3> HIDE DEF D
    <3> QED BY <2>1, HasMin
  <2>3. c \in M /\ u < c /\ u <= link[c] /\ link[c] < c /\ link[c] \in M \cup {NoTr}
    BY <2>2
  <2>4. link[c] \in M /\ link[c] \in Nat /\ c \in Nat
    <3>1. link[c] # NoTr
      <4>1. link[c] = NoTr => ~(u <= link[c])
        BY <2>0, Numbers
      <4> QED BY <2>3, <4>1
    <3> QED BY <1>0, <2>3, <3>1
  <2>5. u < link[c] => c <= link[c]
    BY <2>2, <2>4
  <2>6. link[c] = u
    <3>1. c <= link[c] => FALSE
      BY <2>3, <2>4
    <3> QED BY <2>0, <2>3, <2>4, <2>5, <3>1
  <2> QED BY <2>3, <2>6
<1>2. IsWalk(M, top, link)
  BY <1>1 DEF IsWalk
<1>3. ASSUME NEW C \in SUBSET Tr, IsWalk(C, top, link) PROVE C = M
  <2>1. ASSUME NEW u \in C, u \notin M PROVE FALSE
    <3>1. u # NoTr /\ u # top
      BY <2>1, Numbers
    <3>2. PICK c \in C : link[c] = u
      BY <1>3, <3>1 DEF IsWalk
    <3> QED BY <2>1, <3>1, <3>2
  <2>2. ASSUME NEW v \in M, v \notin C PROVE FALSE
    <3>1. top \in C /\ top \in M /\ v < top
      BY <1>3, <2>2, Numbers DEF IsWalk
    <3> DEFINE D == {x \in C : v < x}
    <3>2. D \in SUBSET Nat /\ top \in D
      BY <3>1, Numbers
    <3>3. PICK c \in D : \A x \in D : c <= x
      <4> HIDE DEF D
      <4> QED BY <3>2, HasMin
    <3>4. c \in C /\ c \in M /\ v < c
      BY <3>3, <2>1
    <3>5. v <= link[c] /\ link[c] < c /\ link[c] \in C \cup {NoTr}
      BY <1>3, <3>4, <2>2 DEF IsWalk
    <3>6. v \in Nat \ {0} /\ link[c] \in Nat /\ c \in Nat
      BY <3>4, <3>5, Numbers
    <3>7. link[c] \in C /\ link[c] # v
      BY <3>5, <3>6, <2>2, Numbers
    <3>8. v < link[c] => c <= link[c]
      BY <3>3, <3>7
    <3> HIDE DEF D
    <3> QED BY <3>4, <3>5, <3>6, <3>7, <3>8
  <2> QED BY <2>1, <2>2
<1> QED BY <1>2, <1>3

-----------------------------------------------------------------------------
(* The inductive invariant. *)

FP == [t \in Tr |-> tx[t].from_parent]
Unread(t) == buffer[t].state = "kernel"

\* The lists on which a call can be.
Place == ({"thread"} \X Thread) \cup ({"proc", "async"} \X Proc)
ListAt(pl) == IF pl[1] = "thread" THEN thread[pl[2]].todo
              ELSE IF pl[1] = "proc" THEN proc[pl[2]].todo
              ELSE proc[pl[2]].async_todo
Holds(pl, t) == InList(t, ListAt(pl))
Held(t) == \E pl \in Place : Holds(pl, t)

IsHome(pl, t) ==
  \/ pl = <<"proc", buffer[t].node>> /\ tx[t].to_thread = NoThread
  \/ pl = <<"async", buffer[t].node>> /\ tx[t].oneway
  \/ \E th \in Thread : /\ pl = <<"thread", th>> /\ ProcOf[th] = buffer[t].node
                        /\ tx[t].oneway \/ tx[t].to_thread = th

\* A call that is queued is on one list, where it belongs, and nobody has seen it.
QueueOK(t) == \A pl \in Place : Holds(pl, t) =>
  /\ \A pm \in Place : Holds(pm, t) => pm = pl
  /\ tx[t].live /\ tx[t].buffer /\ Unread(t) /\ t # failing.t
  /\ IsHome(pl, t)

RecordOK(t) ==
  /\ ~tx[t].live => tx[t] = FreedTransaction
  /\ tx[t].live => t <= calls
  /\ calls < t => buffer[t] = FreeBuffer
  /\ buffer[t].transaction = tx[t].buffer

OnewayOK(t) == tx[t].live /\ tx[t].oneway =>
  /\ tx[t] = [FreedTransaction EXCEPT !.live = TRUE, !.oneway = TRUE, !.buffer = TRUE]
  /\ buffer[t].async /\ Held(t)

\* The ends of a synchronous call, and where it is.
SyncOK(t) == Sync(t) =>
  /\ ~buffer[t].async
  /\ tx[t].from # NoThread => tx[t].from # tx[t].to_thread
  /\ buffer[t].state # "free" =>
       /\ tx[t].from # NoThread => ProcOf[tx[t].from] # buffer[t].node
       /\ tx[t].to_thread # NoThread => ProcOf[tx[t].to_thread] = buffer[t].node
  /\ Unread(t) => tx[t].to_parent = NoTr
  /\ Unread(t) /\ t # failing.t => Held(t)
  /\ ~Unread(t) /\ tx[t].to_thread = NoThread /\ t # failing.t => ~Leaf(FP, t)

\* A call is nested in one that its sender has read, and is the only one.
ParentOK(t) ==
  LET s == tx[t].from_parent
  IN  Sync(t) /\ s # NoTr =>
        /\ s < t /\ Sync(s) /\ ~Unread(s) /\ tx[t].from = tx[s].to_thread
        /\ \A u \in Tr : tx[u].from_parent = s => u = t

\* The calls on a thread's stack: those that it has made, and those that it has read.
Frames(th) == {t \in Tr : Sync(t) /\ \/ tx[t].from = th
                                     \/ tx[t].to_thread = th /\ ~Unread(t) /\ t # failing.t}
LinkOf(th, t) == IF tx[t].to_thread = th THEN tx[t].to_parent ELSE tx[t].from_parent

StackOK(th) ==
  LET top == thread[th].stack
  IN  /\ top \in Frames(th) \cup {NoTr}
      /\ \A u \in Frames(th) :
           /\ u <= top
           /\ LinkOf(th, u) \in Frames(th) \cup {NoTr} /\ LinkOf(th, u) < u
           /\ \A v \in Frames(th) : v < u => v <= LinkOf(th, u) /\ v \in Up(FP, u)

\* A call is sent to a thread that waits for a call which led to it.
NestedOK(t) == \A th \in Thread :
  LET top == thread[th].stack
  IN  Sync(t) /\ Holds(<<"thread", th>>, t) /\ th # freeing
        => top # NoTr /\ tx[top].from = th /\ top \in Up(FP, t)

ThreadOK(th) ==
  /\ ~thread[th].known => thread[th] = NewThread
  /\ thread[th].wait = "proc" =>
       thread[th].stack = NoTr /\ thread[th].todo = <<>> /\ thread[th].error = "OK"
  /\ thread[th].error2 # "OK" =>
       thread[th].error # "OK" /\ (thread[th].stack # NoTr => tx[thread[th].stack].from # th)

FailOK ==
  /\ freeing # NoThread => thread[freeing].known /\ thread[freeing].stack = NoTr
  /\ failing.t # NoTr =>
       /\ Sync(failing.t) /\ Leaf(FP, failing.t)
       /\ failing.code \in {"DEAD_REPLY", "FAILED_REPLY"}
       /\ tx[failing.t].to_thread # NoThread =>
            /\ thread[tx[failing.t].to_thread].known
            /\ ~Unread(failing.t)
                 => tx[failing.t].to_parent = thread[tx[failing.t].to_thread].stack

OnlyCalls(list) == \A i \in DOMAIN list : list[i].type = "call"
AsyncOK(p) ==
  /\ OnlyCalls(proc[p].async_todo)
  /\ proc[p].async_todo # <<>> => proc[p].has_async
  /\ \A t \in Tr : buffer[t].async /\ buffer[t].state # "free" /\ buffer[t].node = p
       => proc[p].has_async
  /\ releasing # p => /\ \A s, t \in InProgress(p) : s = t
                      /\ proc[p].has_async => InProgress(p) # {}

CallsOK == \A t \in Tr : RecordOK(t) /\ OnewayOK(t) /\ SyncOK(t) /\ ParentOK(t)

IInv ==
  /\ TypeOK
  /\ \A pl \in Place : Once(ListAt(pl))
  /\ \A t \in Tr : QueueOK(t)
  /\ CallsOK
  /\ \A th \in Thread : StackOK(th)
  /\ \A t \in Tr : NestedOK(t)
  /\ \A th \in Thread : ThreadOK(th)
  /\ FailOK
  /\ \A p \in Proc : AsyncOK(p)

-----------------------------------------------------------------------------
(* What follows from the invariant. *)

LEMMA Fields ==
  ASSUME TypeOK
  PROVE  /\ \A t \in Tr : /\ tx[t] \in Transaction /\ tx[t].live \in BOOLEAN
                          /\ tx[t].oneway \in BOOLEAN /\ tx[t].buffer \in BOOLEAN
                          /\ tx[t].from \in Thread \cup {NoThread}
                          /\ tx[t].to_thread \in Thread \cup {NoThread}
                          /\ tx[t].from_parent \in Tr \cup {NoTr}
                          /\ tx[t].to_parent \in Tr \cup {NoTr}
         /\ \A t \in Tr : /\ buffer[t] \in Buffer /\ buffer[t].async \in BOOLEAN
                          /\ buffer[t].transaction \in BOOLEAN
                          /\ buffer[t].state \in {"free", "kernel", "user"}
                          /\ buffer[t].node \in Proc \cup {NoProc}
         /\ \A th \in Thread : /\ thread[th] \in BinderThread /\ thread[th].known \in BOOLEAN
                               /\ thread[th].stack \in Tr \cup {NoTr}
                               /\ thread[th].todo \in Seq(Work)
                               /\ thread[th].error \in Errors /\ thread[th].error2 \in Errors
         /\ \A p \in Proc : /\ proc[p] \in BinderProc /\ proc[p].has_async \in BOOLEAN
                            /\ proc[p].todo \in Seq(Work) /\ proc[p].async_todo \in Seq(Work)
         /\ calls \in Nat /\ calls <= MaxCalls
         /\ failing.t \in Tr \cup {NoTr} /\ failing.code \in Errors
         /\ failing = [t |-> failing.t, code |-> failing.code]
         /\ freeing \in Thread \cup {NoThread} /\ releasing \in Proc \cup {NoProc}
<1>1. \A t \in Tr : /\ tx[t] \in Transaction /\ tx[t].live \in BOOLEAN
                    /\ tx[t].oneway \in BOOLEAN /\ tx[t].buffer \in BOOLEAN
                    /\ tx[t].from \in Thread \cup {NoThread}
                    /\ tx[t].to_thread \in Thread \cup {NoThread}
                    /\ tx[t].from_parent \in Tr \cup {NoTr}
                    /\ tx[t].to_parent \in Tr \cup {NoTr}
  BY DEF TypeOK, Transaction
<1>2. \A t \in Tr : /\ buffer[t] \in Buffer /\ buffer[t].async \in BOOLEAN
                    /\ buffer[t].transaction \in BOOLEAN
                    /\ buffer[t].state \in {"free", "kernel", "user"}
                    /\ buffer[t].node \in Proc \cup {NoProc}
  BY DEF TypeOK, Buffer
<1>3. \A th \in Thread : /\ thread[th] \in BinderThread /\ thread[th].known \in BOOLEAN
                         /\ thread[th].stack \in Tr \cup {NoTr}
                         /\ thread[th].todo \in Seq(Work)
                         /\ thread[th].error \in Errors /\ thread[th].error2 \in Errors
  BY DEF TypeOK, BinderThread
<1>4. \A p \in Proc : /\ proc[p] \in BinderProc /\ proc[p].has_async \in BOOLEAN
                      /\ proc[p].todo \in Seq(Work) /\ proc[p].async_todo \in Seq(Work)
  BY DEF TypeOK, BinderProc
<1>5. calls \in Nat /\ calls <= MaxCalls
  BY CallAssumption DEF TypeOK
<1>6. /\ failing.t \in Tr \cup {NoTr} /\ failing.code \in Errors
      /\ failing = [t |-> failing.t, code |-> failing.code]
      /\ freeing \in Thread \cup {NoThread} /\ releasing \in Proc \cup {NoProc}
  BY DEF TypeOK
<1> QED BY <1>1, <1>2, <1>3, <1>4, <1>5, <1>6

\* What becomes of the record of a call or of a buffer.
LEMMA WithoutBuffer ==
  ASSUME NEW r \in Transaction, NEW q, q = [r EXCEPT !.buffer = FALSE]
  PROVE  /\ q.live <=> r.live
         /\ q.oneway <=> r.oneway
         /\ ~q.buffer /\ q.from = r.from /\ q.to_thread = r.to_thread
         /\ q.from_parent = r.from_parent /\ q.to_parent = r.to_parent
         /\ ~r.buffer => q = r
<1>1. /\ r.live \in BOOLEAN /\ r.oneway \in BOOLEAN /\ r.buffer \in BOOLEAN
      /\ r = [live |-> r.live, oneway |-> r.oneway, buffer |-> r.buffer, from |-> r.from,
              to_thread |-> r.to_thread, from_parent |-> r.from_parent,
              to_parent |-> r.to_parent]
  BY DEF Transaction
<1>2. q = [live |-> r.live, oneway |-> r.oneway, buffer |-> FALSE, from |-> r.from,
           to_thread |-> r.to_thread, from_parent |-> r.from_parent,
           to_parent |-> r.to_parent]
  BY DEF Transaction
<1> QED BY <1>1, <1>2

LEMMA FreeRecords ==
  /\ FreeBuffer.state = "free" /\ FreeBuffer.transaction = FALSE
  /\ FreeBuffer.async = FALSE /\ FreeBuffer.node = NoProc
  /\ ~FreedTransaction.live /\ ~FreedTransaction.oneway /\ ~FreedTransaction.buffer
  /\ FreedTransaction.from = NoThread /\ FreedTransaction.to_thread = NoThread
  /\ FreedTransaction.from_parent = NoTr /\ FreedTransaction.to_parent = NoTr
BY DEF FreeBuffer, FreedTransaction

LEMMA Places ==
  /\ \A th \in Thread : <<"thread", th>> \in Place
  /\ \A p \in Proc : <<"proc", p>> \in Place /\ <<"async", p>> \in Place
  /\ \A pl \in Place : \/ \E th \in Thread : pl = <<"thread", th>>
                       \/ \E p \in Proc : pl = <<"proc", p>> \/ pl = <<"async", p>>
  /\ \A th, x : <<"thread", th>> = <<"thread", x>> => th = x
  /\ \A th, x : <<"thread", th>> # <<"proc", x>> /\ <<"thread", th>> # <<"async", x>>
                /\ <<"proc", th>> # <<"async", x>>
  /\ \A th, x : <<"proc", th>> = <<"proc", x>> => th = x
  /\ \A th, x : <<"async", th>> = <<"async", x>> => th = x
BY DEF Place

LEMMA ListOf ==
  /\ \A th : ListAt(<<"thread", th>>) = thread[th].todo
  /\ \A p : ListAt(<<"proc", p>>) = proc[p].todo
  /\ \A p : ListAt(<<"async", p>>) = proc[p].async_todo
BY DEF ListAt

LEMMA ListOfNext ==
  /\ \A th : ListAt(<<"thread", th>>)' = thread'[th].todo
  /\ \A p : ListAt(<<"proc", p>>)' = proc'[p].todo
  /\ \A p : ListAt(<<"async", p>>)' = proc'[p].async_todo
BY DEF ListAt

LEMMA ListsAreWork ==
  ASSUME TypeOK, NEW pl \in Place
  PROVE  ListAt(pl) \in Seq(Work)
BY Fields, Places, ListOf

LEMMA NotSync ==
  ASSUME IInv, NEW t \in Tr, ~Sync(t)
  PROVE  /\ tx[t].from = NoThread /\ tx[t].to_thread = NoThread
         /\ tx[t].from_parent = NoTr /\ tx[t].to_parent = NoTr
<1> DEFINE oneway == [FreedTransaction EXCEPT !.live = TRUE, !.oneway = TRUE, !.buffer = TRUE]
<1>1. /\ oneway.from = NoThread /\ oneway.to_thread = NoThread
      /\ oneway.from_parent = NoTr /\ oneway.to_parent = NoTr
      /\ FreedTransaction.from = NoThread /\ FreedTransaction.to_thread = NoThread
      /\ FreedTransaction.from_parent = NoTr /\ FreedTransaction.to_parent = NoTr
  BY DEF FreedTransaction
<1>2. RecordOK(t) /\ OnewayOK(t)
  BY DEF IInv, CallsOK
<1>3. tx[t] = FreedTransaction \/ tx[t] = oneway
  BY <1>2 DEF RecordOK, OnewayOK, Sync
<1> HIDE DEF oneway
<1> QED BY <1>1, <1>3

\* Only a synchronous call has a parent, and is a parent.
LEMMA Family ==
  ASSUME IInv, NEW c \in Tr, FP[c] # NoTr
  PROVE  /\ FP[c] = tx[c].from_parent /\ FP[c] \in Tr /\ Sync(c) /\ FP[c] < c
         /\ Sync(FP[c]) /\ ~Unread(FP[c]) /\ tx[c].from = tx[FP[c]].to_thread
         /\ \A u \in Tr : FP[u] = FP[c] => u = c
<1>1. FP[c] = tx[c].from_parent /\ \A u \in Tr : FP[u] = tx[u].from_parent
  BY DEF FP
<1>2. FP[c] \in Tr
  BY <1>1, Fields DEF IInv
<1>3. Sync(c)
  BY <1>1, NotSync
<1>4. ParentOK(c)
  BY DEF IInv, CallsOK
<1> QED BY <1>1, <1>2, <1>3, <1>4 DEF ParentOK

LEMMA FPIsChain ==
  ASSUME IInv
  PROVE  /\ IsChain(FP)
         /\ \A c, d \in Tr : FP[c] = FP[d] /\ FP[c] # NoTr => c = d
<1>1. FP \in [Tr -> Tr \cup {NoTr}]
  BY Fields DEF FP, IInv
<1> QED BY <1>1, Family DEF IsChain

LEMMA UnreadIsLeaf ==
  ASSUME IInv, NEW t \in Tr, Unread(t)
  PROVE  Leaf(FP, t)
BY Family, Numbers DEF Leaf

LEMMA FreedIsLeaf ==
  ASSUME IInv, NEW t \in Tr, ~Sync(t)
  PROVE  Leaf(FP, t) /\ FP[t] = NoTr
BY Family, Numbers DEF Leaf

\* A call for which nothing is under way is on top of its caller's stack.
LEMMA LeafIsTop ==
  ASSUME IInv, NEW th \in Thread, NEW t \in Frames(th), Leaf(FP, t)
  PROVE  thread[th].stack = t
<1> DEFINE top == thread[th].stack
<1>1. StackOK(th)
  BY DEF IInv
<1>2. t \in Tr /\ t <= top /\ top \in Frames(th) \cup {NoTr}
  BY <1>1 DEF StackOK, Frames
<1>3. top # NoTr
  BY <1>2, Numbers
<1>4. top \in Frames(th) /\ top \in Tr
  BY <1>2, <1>3 DEF Frames
<1>5. t < top => t \in Up(FP, top)
  BY <1>1, <1>4 DEF StackOK
<1> HIDE DEF top
<1>6. ~(t < top)
  BY <1>4, <1>5, UpOfLeaf, FPIsChain, Numbers
<1>7. top = t
  BY <1>2, <1>4, <1>6, Numbers
<1> QED BY <1>7 DEF top

\* Nothing is under way for the call that a thread executes.
LEMMA ServedIsLeaf ==
  ASSUME IInv, NEW th \in Thread, Serving(th)
  PROVE  LET t == thread[th].stack
         IN  /\ t \in Tr /\ t \in Frames(th) /\ Leaf(FP, t) /\ tx[t].to_thread = th
             /\ Sync(t) /\ tx[t].from # th /\ ~Unread(t) /\ t # failing.t
<1> DEFINE t == thread[th].stack
<1>1. StackOK(th)
  BY DEF IInv
<1>2. t \in Frames(th) /\ tx[t].to_thread = th /\ t \in Tr /\ Sync(t)
  BY <1>1 DEF Serving, StackOK, Frames
<1>3. tx[t].from # th
  <2>1. SyncOK(t)
    BY <1>2 DEF IInv, CallsOK
  <2> QED BY <1>2, <2>1, ThreadAssumption DEF SyncOK
<1>4. ~Unread(t) /\ t # failing.t
  BY <1>2, <1>3 DEF Frames
<1>5. Leaf(FP, t)
  <2> SUFFICES ASSUME NEW c \in Tr, FP[c] = t PROVE FALSE
    BY DEF Leaf
  <2>1. Sync(c) /\ t < c /\ tx[c].from = th
    BY <1>2, Family, Numbers
  <2>2. c \in Frames(th)
    BY <2>1 DEF Frames
  <2>3. c <= t
    BY <1>1, <2>2 DEF StackOK
  <2> QED BY <1>2, <2>1, <2>3, Numbers
<1> QED BY <1>2, <1>3, <1>4, <1>5

\* A thread to which a nested call has been sent waits for a call with a child.
LEMMA NestedHasChild ==
  ASSUME IInv, NEW t \in Tr, Sync(t), NEW th \in Thread, Holds(<<"thread", th>>, t),
         th # freeing
  PROVE  LET top == thread[th].stack
         IN  /\ top \in Tr /\ tx[top].from = th /\ top \in Up(FP, t) /\ top # t
             /\ ~Leaf(FP, top) /\ tx[t].to_thread = th
<1> DEFINE top == thread[th].stack
<1>1. NestedOK(t) /\ QueueOK(t) /\ SyncOK(t)
  BY DEF IInv, CallsOK
<1>2. top # NoTr /\ tx[top].from = th /\ top \in Up(FP, t)
  BY <1>1 DEF NestedOK
<1>3. top \in Tr
  BY <1>2, Fields DEF IInv
<1>4. IsHome(<<"thread", th>>, t)
  BY <1>1, Places DEF QueueOK
<1>5. tx[t].to_thread = th
  BY <1>4, Places DEF IsHome, Sync
<1>6. top # t
  BY <1>1, <1>2, <1>5, ThreadAssumption DEF SyncOK
<1> HIDE DEF top
<1>7. ~Leaf(FP, top)
  BY <1>2, <1>3, <1>6, FPIsChain, UpOfLeaf
<1> QED BY <1>2, <1>3, <1>5, <1>6, <1>7 DEF top

\* Who makes the walk of binder_free_thread meets the calls of the stack.
LEMMA StackIsWalk ==
  ASSUME IInv, failing.t = NoTr, NEW th \in Thread
  PROVE  /\ IsStack(Frames(th), th)
         /\ \A S \in SUBSET Tr : IsStack(S, th) => S = Frames(th)
<1> DEFINE M == Frames(th)
           top == thread[th].stack
           link == StackLink(th)
<1>1. StackOK(th)
  BY DEF IInv
<1>2. M \in SUBSET Tr /\ top \in M \cup {NoTr}
  BY <1>1 DEF StackOK, Frames
<1>3. ASSUME NEW u \in M PROVE link[u] = LinkOf(th, u)
  <2>1. u \in Tr /\ (tx[u].from = th \/ tx[u].to_thread = th)
    BY DEF Frames
  <2> QED BY <2>1 DEF StackLink, LinkOf
<1>4. ASSUME NEW u \in Tr \ M PROVE link[u] = NoTr
  <2>1. link[u] = IF tx[u].to_thread = th THEN tx[u].to_parent
                  ELSE IF tx[u].from = th THEN tx[u].from_parent ELSE NoTr
    BY DEF StackLink
  <2>2. RecordOK(u) /\ OnewayOK(u) /\ SyncOK(u)
    BY DEF IInv, CallsOK
  <2>3. ~Sync(u) => tx[u].to_parent = NoTr /\ tx[u].from_parent = NoTr
    BY NotSync
  <2>4. ASSUME Sync(u) PROVE tx[u].from # th /\ (tx[u].to_thread = th => Unread(u))
    BY <2>4, <1>4, Numbers DEF Frames
  <2>5. Sync(u) /\ Unread(u) => tx[u].to_parent = NoTr
    BY <2>2 DEF SyncOK
  <2> QED BY <2>1, <2>3, <2>4, <2>5
<1>5. \A u \in M : u <= top /\ link[u] \in M \cup {NoTr} /\ link[u] < u
  BY <1>1, <1>3 DEF StackOK
<1>6. \A u, v \in M : v < u => v <= link[u]
  BY <1>1, <1>3 DEF StackOK
<1> HIDE DEF M, top, link
<1>7. IsWalk(M, top, link) /\ \A C \in SUBSET Tr : IsWalk(C, top, link) => C = M
  BY <1>2, <1>4, <1>5, <1>6, WalkIsStack
<1> QED BY <1>7 DEF IsStack, M, top, link

-----------------------------------------------------------------------------
(* What a step does to the lists.  Call n is then on the lists P. *)

Rehomed(n, P) == \A pl \in Place :
  /\ Once(ListAt(pl))'
  /\ \A t \in Tr : Holds(pl, t)' <=> (IF t = n THEN pl \in P ELSE Holds(pl, t))

LEMMA ListsGrow ==
  ASSUME IInv,
         \A pl \in Place :
           \/ ListAt(pl)' = ListAt(pl)
           \/ \E w \in Work : w.type # "call" /\ ListAt(pl)' = Append(ListAt(pl), w)
  PROVE  Rehomed(NoTr, {})
<1> SUFFICES ASSUME NEW pl \in Place
             PROVE  /\ Once(ListAt(pl))'
                    /\ \A t \in Tr : Holds(pl, t)' <=> Holds(pl, t)
  BY Numbers DEF Rehomed
<1>1. ListAt(pl) \in Seq(Work) /\ Once(ListAt(pl))
  BY ListsAreWork DEF IInv
<1>2. CASE ListAt(pl)' = ListAt(pl)
  BY <1>1, <1>2 DEF Holds, Once
<1>3. ASSUME NEW w \in Work, w.type # "call", ListAt(pl)' = Append(ListAt(pl), w)
      PROVE  /\ Once(ListAt(pl))'
             /\ \A t \in Tr : Holds(pl, t)' <=> Holds(pl, t)
  <2>1. \A t \in Tr : w # CallWork(t)
    BY <1>3, CallWorks
  <2> DEFINE a == Append(ListAt(pl), w)
  <2>2. Once(a) /\ \A t \in Tr : InList(t, a) <=> InList(t, ListAt(pl))
    BY <1>1, <2>1, ListAppended
  <2>3. ListAt(pl)' = a
    BY <1>3
  <2> HIDE DEF a
  <2>4. Once(ListAt(pl)')
    BY <2>2, <2>3
  <2>5. \A t \in Tr : InList(t, ListAt(pl)') <=> InList(t, ListAt(pl))
    BY <2>2, <2>3
  <2> QED BY <2>4, <2>5 DEF Holds, Once, InList
<1> QED BY <1>2, <1>3

LEMMA ListsSame ==
  ASSUME IInv, \A th \in Thread : thread'[th].todo = thread[th].todo,
         \A p \in Proc : /\ proc'[p].todo = proc[p].todo
                         /\ proc'[p].async_todo = proc[p].async_todo
  PROVE  Rehomed(NoTr, {})
<1>1. ASSUME NEW pl \in Place PROVE ListAt(pl)' = ListAt(pl)
  BY Places, ListOf, ListOfNext
<1> QED BY <1>1, ListsGrow

LEMMA CallJoins ==
  ASSUME IInv, NEW n \in Tr, ~Held(n), NEW p0 \in Place,
         ListAt(p0)' = Append(ListAt(p0), CallWork(n)),
         \A pl \in Place \ {p0} :
           \/ ListAt(pl)' = ListAt(pl)
           \/ \E w \in Work : w.type # "call" /\ ListAt(pl)' = Append(ListAt(pl), w)
  PROVE  Rehomed(n, {p0})
<1> SUFFICES ASSUME NEW pl \in Place
             PROVE  /\ Once(ListAt(pl))'
                    /\ \A t \in Tr : Holds(pl, t)' <=> (Holds(pl, t) \/ (pl = p0 /\ t = n))
  BY DEF Rehomed, Held
<1>1. ListAt(pl) \in Seq(Work) /\ Once(ListAt(pl))
  BY ListsAreWork DEF IInv
<1>2. CASE pl # p0 /\ ListAt(pl)' = ListAt(pl)
  BY <1>1, <1>2 DEF Holds, Once
<1>3. ASSUME NEW w \in Work, w.type # "call", ListAt(pl)' = Append(ListAt(pl), w), pl # p0
      PROVE  /\ Once(ListAt(pl))'
             /\ \A t \in Tr : Holds(pl, t)' <=> Holds(pl, t)
  <2>1. \A t \in Tr : w # CallWork(t)
    BY <1>3, CallWorks
  <2> DEFINE a == Append(ListAt(pl), w)
  <2>2. Once(a) /\ \A t \in Tr : InList(t, a) <=> InList(t, ListAt(pl))
    BY <1>1, <2>1, ListAppended
  <2>3. ListAt(pl)' = a
    BY <1>3
  <2> HIDE DEF a
  <2>4. Once(ListAt(pl)')
    BY <2>2, <2>3
  <2>5. \A t \in Tr : InList(t, ListAt(pl)') <=> InList(t, ListAt(pl))
    BY <2>2, <2>3
  <2> QED BY <2>4, <2>5 DEF Holds, Once, InList
<1>4. CASE pl = p0
  <2> DEFINE a == Append(ListAt(pl), CallWork(n))
  <2>1. ~InList(n, ListAt(pl)) /\ CallWork(n) \in Work
    BY WorkType DEF Held, Holds
  <2>2. \A t \in Tr : CallWork(n) = CallWork(t) <=> t = n
    BY CallWorks
  <2>3. Once(a) /\ \A t \in Tr : InList(t, a) <=> InList(t, ListAt(pl)) \/ t = n
    BY <1>1, <2>1, <2>2, ListAppended
  <2>4. ListAt(pl)' = a
    BY <1>4
  <2> HIDE DEF a
  <2>5. Once(ListAt(pl)')
    BY <2>3, <2>4
  <2>6. \A t \in Tr : InList(t, ListAt(pl)') <=> InList(t, ListAt(pl)) \/ t = n
    BY <2>3, <2>4
  <2> QED BY <1>4, <2>5, <2>6 DEF Holds, Once, InList
<1> QED BY <1>2, <1>3, <1>4

\* The first work of a list is taken.
LEMMA WorkTaken ==
  ASSUME IInv, NEW p0 \in Place, ListAt(p0) # <<>>, ListAt(p0)' = Tail(ListAt(p0)),
         \A pl \in Place \ {p0} : ListAt(pl)' = ListAt(pl)
  PROVE  /\ Head(ListAt(p0)) \in Work
         /\ Head(ListAt(p0)).type # "call" => Rehomed(NoTr, {})
         /\ \A n \in Tr : Head(ListAt(p0)) = CallWork(n)
              => Holds(p0, n) /\ Rehomed(n, {})
<1> DEFINE s == ListAt(p0)
           w == Head(s)
           a == Tail(s)
<1>1. s \in Seq(Work) /\ Once(s) /\ s # <<>>
  BY ListsAreWork DEF IInv
<1>2. /\ w \in Work /\ Once(a)
      /\ \A t \in Tr : InList(t, s) <=> w = CallWork(t) \/ InList(t, a)
      /\ \A t \in Tr : w = CallWork(t) => ~InList(t, a)
  <2> HIDE DEF s
  <2> QED BY <1>1, ListTail
<1>3. ListAt(p0)' = a /\ ListAt(p0) = s
  OBVIOUS
<1> HIDE DEF s, w, a
<1>4. ASSUME NEW pl \in Place
      PROVE  /\ Once(ListAt(pl))'
             /\ \A t \in Tr : Holds(pl, t)' <=> (Holds(pl, t) /\ ~(pl = p0 /\ w = CallWork(t)))
  <2>1. CASE pl = p0
    <3>1. Once(ListAt(pl)') /\ \A t \in Tr : InList(t, ListAt(pl)') <=> InList(t, a)
      BY <1>2, <1>3, <2>1
    <3>2. \A t \in Tr : InList(t, ListAt(pl)) <=> InList(t, s)
      BY <1>3, <2>1
    <3>3. \A t \in Tr : InList(t, ListAt(pl)') <=> (InList(t, ListAt(pl)) /\ ~(w = CallWork(t)))
      BY <1>2, <3>1, <3>2
    <3> QED BY <2>1, <3>1, <3>3 DEF Holds, Once, InList
  <2>2. CASE pl # p0
    <3>1. Once(ListAt(pl)) /\ ListAt(pl)' = ListAt(pl)
      BY <2>2 DEF IInv
    <3> QED BY <2>2, <3>1 DEF Holds, Once
  <2> QED BY <2>1, <2>2
<1>5. ASSUME w.type # "call" PROVE Rehomed(NoTr, {})
  <2>1. \A t \in Tr : w # CallWork(t)
    BY <1>5, CallWorks
  <2> QED BY <1>4, <2>1, Numbers DEF Rehomed
<1>6. ASSUME NEW n \in Tr, w = CallWork(n) PROVE Holds(p0, n) /\ Rehomed(n, {})
  <2>1. Holds(p0, n)
    BY <1>2, <1>3, <1>6 DEF Holds
  <2>2. \A t \in Tr : w = CallWork(t) <=> t = n
    BY <1>6, CallWorks
  <2>3. \A pm \in Place : Holds(pm, n) => pm = p0
    BY <2>1 DEF IInv, QueueOK
  <2> QED BY <1>4, <2>1, <2>2, <2>3 DEF Rehomed
<1> QED BY <1>2, <1>5, <1>6 DEF w, s

\* The first call of a list moves to the end of another.
LEMMA CallMoves ==
  ASSUME IInv, NEW p0 \in Place, NEW p1 \in Place, p0 # p1, ListAt(p0) # <<>>,
         ListAt(p0)' = Tail(ListAt(p0)),
         ListAt(p1)' = Append(ListAt(p1), Head(ListAt(p0))),
         \A pl \in Place \ {p0, p1} : ListAt(pl)' = ListAt(pl),
         NEW n \in Tr, Head(ListAt(p0)) = CallWork(n)
  PROVE  Holds(p0, n) /\ Rehomed(n, {p1})
<1> DEFINE s == ListAt(p0)
           a == Tail(s)
           b == Append(ListAt(p1), CallWork(n))
<1>1. s \in Seq(Work) /\ Once(s) /\ s # <<>>
  BY ListsAreWork DEF IInv
<1>2. /\ Once(a)
      /\ \A t \in Tr : InList(t, s) <=> Head(s) = CallWork(t) \/ InList(t, a)
      /\ \A t \in Tr : Head(s) = CallWork(t) => ~InList(t, a)
  <2> HIDE DEF s
  <2> QED BY <1>1, ListTail
<1>3. \A t \in Tr : Head(s) = CallWork(t) <=> t = n
  BY CallWorks
<1>4. Holds(p0, n)
  BY <1>2, <1>3 DEF Holds
<1>5. \A pm \in Place : Holds(pm, n) => pm = p0
  BY <1>4 DEF IInv, QueueOK
<1>6. Once(b) /\ \A t \in Tr : InList(t, b) <=> InList(t, ListAt(p1)) \/ t = n
  <2>1. ~InList(n, ListAt(p1)) /\ CallWork(n) \in Work
    BY <1>5, WorkType DEF Holds
  <2>2. ListAt(p1) \in Seq(Work) /\ Once(ListAt(p1))
    BY ListsAreWork DEF IInv
  <2>3. \A t \in Tr : CallWork(n) = CallWork(t) <=> t = n
    BY CallWorks
  <2> QED BY <2>1, <2>2, <2>3, ListAppended
<1>7. ListAt(p0)' = a /\ ListAt(p0) = s /\ ListAt(p1)' = b
  OBVIOUS
<1> HIDE DEF s, a, b
<1>8. ASSUME NEW pl \in Place
      PROVE  /\ Once(ListAt(pl))'
             /\ \A t \in Tr : Holds(pl, t)' <=> (IF t = n THEN pl \in {p1} ELSE Holds(pl, t))
  <2>1. CASE pl = p0
    <3>1. Once(ListAt(pl)') /\ \A t \in Tr : InList(t, ListAt(pl)') <=> InList(t, a)
      BY <1>2, <1>7, <2>1
    <3>2. \A t \in Tr : InList(t, ListAt(pl)) <=> InList(t, s)
      BY <1>7, <2>1
    <3>3. \A t \in Tr : InList(t, ListAt(pl)') <=> (InList(t, ListAt(pl)) /\ t # n)
      BY <1>2, <1>3, <3>1, <3>2
    <3> QED BY <2>1, <3>1, <3>3 DEF Holds, Once, InList
  <2>2. CASE pl = p1
    <3>1. Once(ListAt(pl)') /\ \A t \in Tr : InList(t, ListAt(pl)') <=> InList(t, b)
      BY <1>6, <1>7, <2>2
    <3>2. \A t \in Tr : InList(t, ListAt(pl)') <=> (InList(t, ListAt(pl)) \/ t = n)
      BY <1>6, <3>1, <2>2
    <3> QED BY <2>2, <3>1, <3>2 DEF Holds, Once, InList
  <2>3. CASE pl # p0 /\ pl # p1
    <3>1. Once(ListAt(pl)) /\ ListAt(pl)' = ListAt(pl)
      BY <2>3 DEF IInv
    <3> QED BY <1>5, <2>3, <3>1 DEF Holds, Once
  <2> QED BY <2>1, <2>2, <2>3
<1> QED BY <1>4, <1>8 DEF Rehomed

LEMMA HeldNext ==
  ASSUME NEW n, NEW P \in SUBSET Place, Rehomed(n, P), NEW t \in Tr
  PROVE  /\ t # n => (Held(t)' <=> Held(t))
         /\ t = n => (Held(t)' <=> P # {})
BY DEF Rehomed, Held

-----------------------------------------------------------------------------
(* What a step must not touch for the parts of the invariant to be kept. *)

LEMMA UpNext ==
  /\ FP' = [t \in Tr |-> tx'[t].from_parent]
  /\ \A u : Up(FP, u)' = Up(FP', u)
  /\ \A u : Leaf(FP, u)' <=> Leaf(FP', u)
BY DEF FP, Up, Closed, Leaf

LEMMA QueueKept ==
  ASSUME IInv, NEW n, NEW P \in SUBSET Place, Rehomed(n, P), NEW t \in Tr, t # n,
         Held(t) => /\ tx'[t].live <=> tx[t].live
                    /\ tx'[t].oneway <=> tx[t].oneway
                    /\ tx'[t].buffer <=> tx[t].buffer
                    /\ tx'[t].to_thread = tx[t].to_thread
                    /\ buffer'[t] = buffer[t] /\ t # failing'.t
  PROVE  QueueOK(t)'
<1> SUFFICES ASSUME NEW pl \in Place, Holds(pl, t)'
             PROVE  /\ \A pm \in Place : Holds(pm, t)' => pm = pl
                    /\ (tx[t].live)' /\ (tx[t].buffer)' /\ Unread(t)' /\ (t # failing.t)'
                    /\ IsHome(pl, t)'
  BY DEF QueueOK
<1>1. Holds(pl, t) /\ \A pm \in Place : Holds(pm, t)' => Holds(pm, t)
  BY DEF Rehomed
<1>2. Held(t) /\ QueueOK(t)
  BY <1>1 DEF Held, IInv
<1>3. /\ \A pm \in Place : Holds(pm, t) => pm = pl
      /\ tx[t].live /\ tx[t].buffer /\ Unread(t) /\ IsHome(pl, t)
  BY <1>1, <1>2 DEF QueueOK
<1>4. Unread(t)'
  BY <1>2, <1>3 DEF Unread
<1>5. IsHome(pl, t)'
  BY <1>2, <1>3 DEF IsHome
<1> QED BY <1>1, <1>2, <1>3, <1>4, <1>5

LEMMA CallKept ==
  ASSUME IInv, NEW t \in Tr, calls' \in Nat, calls <= calls',
         tx'[t] = tx[t], buffer'[t] = buffer[t],
         Held(t) => Held(t)' \/ (t = failing'.t /\ ~tx[t].oneway),
         t = failing.t => t = failing'.t \/ ~Sync(t),
         Leaf(FP', t) => Leaf(FP, t) \/ t = failing'.t \/ tx[t].to_thread # NoThread,
         \A s \in Tr : FP[t] = s =>
           /\ Sync(s)' /\ ~Unread(s)' /\ tx'[s].to_thread = tx[s].to_thread
           /\ \A u \in Tr : tx'[u].from_parent = s => FP[u] = s
  PROVE  RecordOK(t)' /\ OnewayOK(t)' /\ SyncOK(t)' /\ ParentOK(t)'
<1>1. RecordOK(t) /\ OnewayOK(t) /\ SyncOK(t) /\ ParentOK(t)
  BY DEF IInv, CallsOK
<1>2. calls \in Nat /\ t \in Nat
  BY Fields, Numbers DEF IInv
<1>3. RecordOK(t)'
  <2>1. calls' < t => calls < t
    BY <1>2
  <2>2. tx[t].live => t <= calls'
    BY <1>1, <1>2 DEF RecordOK
  <2> QED BY <1>1, <2>1, <2>2 DEF RecordOK
<1>4. (Sync(t)' <=> Sync(t)) /\ (Unread(t)' <=> Unread(t))
  BY DEF Sync, Unread
<1>5. OnewayOK(t)'
  <2>1. tx[t].oneway /\ Held(t) => Held(t)'
    OBVIOUS
  <2> QED BY <1>1, <2>1 DEF OnewayOK
<1>6. SyncOK(t)'
  <2> SUFFICES ASSUME Sync(t), Sync(t)' PROVE SyncOK(t)'
    BY <1>4 DEF SyncOK
  <2>1. Unread(t) /\ t # failing'.t => Held(t)'
    BY <1>1 DEF SyncOK
  <2>2. ~Unread(t) /\ tx[t].to_thread = NoThread /\ t # failing'.t => ~Leaf(FP, t)'
    BY <1>1, UpNext DEF SyncOK
  <2>3. ~buffer[t].async
    BY <1>1 DEF SyncOK
  <2>4. /\ tx[t].from # NoThread => tx[t].from # tx[t].to_thread
        /\ buffer[t].state # "free" =>
             /\ tx[t].from # NoThread => ProcOf[tx[t].from] # buffer[t].node
             /\ tx[t].to_thread # NoThread => ProcOf[tx[t].to_thread] = buffer[t].node
        /\ Unread(t) => tx[t].to_parent = NoTr
    BY <1>1 DEF SyncOK
  <2> QED BY <1>4, <2>1, <2>2, <2>3, <2>4 DEF SyncOK
<1>7. ParentOK(t)'
  <2>0. tx[t].from_parent = FP[t]
    BY DEF FP
  <2>1. CASE FP[t] = NoTr
    BY <2>0, <2>1 DEF ParentOK
  <2>2. ASSUME NEW s \in Tr, FP[t] = s, FP[t] # NoTr PROVE ParentOK(t)'
    <3>1. s < t /\ tx[t].from = tx[s].to_thread /\ \A u \in Tr : FP[u] = s => u = t
      BY <2>2, Family
    <3>2. /\ s < t /\ Sync(s)' /\ ~Unread(s)' /\ tx[t].from = tx'[s].to_thread
          /\ \A u \in Tr : tx'[u].from_parent = s => u = t
      BY <2>2, <3>1
    <3>3. tx'[t].from_parent = s /\ tx'[t].from = tx[t].from
      BY <2>0, <2>2
    <3> QED BY <3>2, <3>3 DEF ParentOK
  <2>3. FP[t] = NoTr \/ FP[t] \in Tr
    BY <2>0, Fields DEF IInv
  <2> QED BY <2>1, <2>2, <2>3
<1> QED BY <1>3, <1>5, <1>6, <1>7

LEMMA StackKept ==
  ASSUME IInv, NEW th \in Thread, thread'[th].stack = thread[th].stack,
         Frames(th)' = Frames(th),
         \A u \in Frames(th) : /\ LinkOf(th, u)' = LinkOf(th, u)
                               /\ Up(FP, u) \subseteq Up(FP', u)
  PROVE  StackOK(th)'
<1>1. StackOK(th)
  BY DEF IInv
<1> DEFINE F == Frames(th)
<1>2. /\ thread[th].stack \in F \cup {NoTr}
      /\ \A u \in F :
           /\ u <= thread[th].stack
           /\ LinkOf(th, u) \in F \cup {NoTr} /\ LinkOf(th, u) < u
           /\ \A v \in F : v < u => v <= LinkOf(th, u) /\ v \in Up(FP, u)
  BY <1>1 DEF StackOK
<1>3. F' = F
  OBVIOUS
<1> HIDE DEF F
<1>4. \A u \in F : LinkOf(th, u)' = LinkOf(th, u) /\ Up(FP, u) \subseteq Up(FP, u)'
  BY UpNext DEF F
<1>5. /\ thread'[th].stack \in F' \cup {NoTr}
      /\ \A u \in F' :
           /\ u <= thread'[th].stack
           /\ LinkOf(th, u)' \in F' \cup {NoTr} /\ LinkOf(th, u)' < u
           /\ \A v \in F' : v < u => v <= LinkOf(th, u)' /\ v \in Up(FP, u)'
  BY <1>2, <1>3, <1>4
<1> QED BY <1>5 DEF StackOK, F

LEMMA FramesAreCalls ==
  /\ \A th : Frames(th) \in SUBSET Tr
  /\ \A th : \A u \in Frames(th) : u \in Nat /\ u \in Int /\ 0 < u
BY Numbers DEF Frames

\* The call on top leaves.
LEMMA StackPopped ==
  ASSUME IInv, NEW th \in Thread, NEW top, top = thread[th].stack, top \in Frames(th),
         thread'[th].stack = LinkOf(th, top),
         Frames(th)' = Frames(th) \ {top},
         \A u \in Frames(th) \ {top} : /\ LinkOf(th, u)' = LinkOf(th, u)
                                       /\ Up(FP, u) \subseteq Up(FP', u)
  PROVE  StackOK(th)'
<1>1. StackOK(th)
  BY DEF IInv
<1> DEFINE F == Frames(th)
<1>2. \A u \in F :
         /\ u <= top
         /\ LinkOf(th, u) \in F \cup {NoTr} /\ LinkOf(th, u) < u
         /\ \A v \in F : v < u => v <= LinkOf(th, u) /\ v \in Up(FP, u)
  BY <1>1 DEF StackOK
<1>3. F' = F \ {top} /\ top \in F
  OBVIOUS
<1>4. \A u \in F : u \in Nat
  BY FramesAreCalls
<1>5. \A u \in F \ {top} : LinkOf(th, u)' = LinkOf(th, u) /\ Up(FP, u) \subseteq Up(FP, u)'
  BY UpNext
<1> HIDE DEF F
<1>6. LinkOf(th, top) \in (F \ {top}) \cup {NoTr}
  BY <1>2, <1>3, <1>4
<1>7. ASSUME NEW u \in F \ {top}
      PROVE  /\ u <= LinkOf(th, top)
             /\ LinkOf(th, u) \in (F \ {top}) \cup {NoTr} /\ LinkOf(th, u) < u
             /\ \A v \in F \ {top} : v < u => v <= LinkOf(th, u) /\ v \in Up(FP, u)
  <2>1. u \in Nat /\ top \in Nat /\ u <= top /\ u # top
    BY <1>2, <1>3, <1>4
  <2>2. u < top
    BY <2>1
  <2>3. u <= LinkOf(th, top)
    BY <1>2, <1>3, <2>2
  <2>4. LinkOf(th, u) \in F \cup {NoTr} /\ LinkOf(th, u) < u
    BY <1>2
  <2>5. LinkOf(th, u) # top
    BY <2>1, <2>2, <2>4
  <2> QED BY <1>2, <2>3, <2>4, <2>5
<1>8. /\ thread'[th].stack \in F' \cup {NoTr}
      /\ \A u \in F' :
           /\ u <= thread'[th].stack
           /\ LinkOf(th, u)' \in F' \cup {NoTr} /\ LinkOf(th, u)' < u
           /\ \A v \in F' : v < u => v <= LinkOf(th, u)' /\ v \in Up(FP, u)'
  BY <1>3, <1>5, <1>6, <1>7
<1> QED BY <1>8 DEF StackOK, F

\* A younger call comes on top.
LEMMA StackPushed ==
  ASSUME IInv, NEW th \in Thread, NEW t \in Tr, NEW top, top = thread[th].stack,
         t \notin Frames(th), top < t,
         thread'[th].stack = t, LinkOf(th, t)' = top,
         Frames(th)' = Frames(th) \cup {t},
         \A u \in Frames(th) : /\ LinkOf(th, u)' = LinkOf(th, u)
                               /\ Up(FP, u) \subseteq Up(FP', u),
         top # NoTr => Up(FP, top) \subseteq Up(FP', t)
  PROVE  StackOK(th)'
<1>1. StackOK(th)
  BY DEF IInv
<1> DEFINE F == Frames(th)
<1>2. /\ top \in F \cup {NoTr}
      /\ \A u \in F :
           /\ u <= top
           /\ LinkOf(th, u) \in F \cup {NoTr} /\ LinkOf(th, u) < u
           /\ \A v \in F : v < u => v <= LinkOf(th, u) /\ v \in Up(FP, u)
  BY <1>1 DEF StackOK
<1>3. F' = F \cup {t} /\ t \notin F
  OBVIOUS
<1>4. F \in SUBSET Tr /\ (\A u \in F : u \in Nat /\ u \in Int) /\ t \in Nat /\ t \in Int
  BY FramesAreCalls, Numbers
<1>5. \A u \in F : LinkOf(th, u)' = LinkOf(th, u) /\ Up(FP, u) \subseteq Up(FP, u)'
  BY UpNext
<1>6. top # NoTr => Up(FP, top) \subseteq Up(FP, t)'
  BY UpNext
<1> HIDE DEF F
<1>7. ASSUME NEW u \in F
      PROVE  u < t /\ u <= top /\ u \in Up(FP, t)'
  <2>1. u <= top /\ top \in F /\ top \in Tr /\ top \in Nat /\ top # NoTr /\ u \in Nat
    <3>1. top # NoTr
      <4>1. u \in Tr /\ u <= top
        BY <1>2, <1>4
      <4> QED BY <4>1, Numbers
    <3> QED BY <1>2, <1>4, <3>1
  <2>2. u \in Up(FP, top)
    <3>1. CASE u = top
      BY <2>1, <3>1, UpSelf
    <3>2. CASE u < top
      BY <1>2, <2>1, <3>2
    <3> QED BY <2>1, <3>1, <3>2
  <2> QED BY <1>4, <1>6, <2>1, <2>2
<1>8. /\ thread'[th].stack \in F' \cup {NoTr}
      /\ \A u \in F' :
           /\ u <= thread'[th].stack
           /\ LinkOf(th, u)' \in F' \cup {NoTr} /\ LinkOf(th, u)' < u
           /\ \A v \in F' : v < u => v <= LinkOf(th, u)' /\ v \in Up(FP, u)'
  <2>1. thread'[th].stack = t /\ t \in F'
    BY <1>3
  <2>2. ASSUME NEW u \in F
        PROVE  /\ u <= t /\ LinkOf(th, u)' \in F' \cup {NoTr} /\ LinkOf(th, u)' < u
               /\ \A v \in F' : v < u => v <= LinkOf(th, u)' /\ v \in Up(FP, u)'
    <3>1. u <= t /\ u \in Int /\ t \in Int /\ ~(t < u)
      BY <1>4, <1>7
    <3>2. LinkOf(th, u)' \in F' \cup {NoTr} /\ LinkOf(th, u)' < u
      BY <1>2, <1>3, <1>5
    <3>3. \A v \in F : v < u => v <= LinkOf(th, u)' /\ v \in Up(FP, u)'
      BY <1>2, <1>5
    <3> QED BY <1>3, <3>1, <3>2, <3>3
  <2>3. /\ t <= t /\ LinkOf(th, t)' \in F' \cup {NoTr} /\ LinkOf(th, t)' < t
        /\ \A v \in F' : v < t => v <= LinkOf(th, t)' /\ v \in Up(FP, t)'
    <3>1. LinkOf(th, t)' = top /\ top < t /\ top \in F' \cup {NoTr}
      BY <1>2, <1>3
    <3>2. ~(t < t) /\ t <= t
      BY <1>4
    <3> QED BY <1>3, <1>7, <3>1, <3>2
  <2> QED BY <1>3, <2>1, <2>2, <2>3
<1> QED BY <1>8 DEF StackOK, F

LEMMA NestedKept ==
  ASSUME IInv, NEW t \in Tr, Sync(t)' => Sync(t), Sync(t) => Up(FP, t) \subseteq Up(FP', t),
         \A th \in Thread : Sync(t) /\ Holds(<<"thread", th>>, t)' /\ th # freeing' =>
           /\ Holds(<<"thread", th>>, t) /\ th # freeing
           /\ thread'[th].stack = thread[th].stack
           /\ tx'[thread[th].stack].from = tx[thread[th].stack].from
  PROVE  NestedOK(t)'
<1> SUFFICES ASSUME NEW th \in Thread, Sync(t), Holds(<<"thread", th>>, t)', th # freeing'
             PROVE  LET top == thread'[th].stack
                    IN  top # NoTr /\ tx'[top].from = th /\ top \in Up(FP, t)'
  BY DEF NestedOK
<1>1. NestedOK(t)
  BY DEF IInv
<1>2. /\ Holds(<<"thread", th>>, t) /\ th # freeing
      /\ thread'[th].stack = thread[th].stack
      /\ tx'[thread[th].stack].from = tx[thread[th].stack].from
  OBVIOUS
<1>3. LET top == thread[th].stack
      IN  top # NoTr /\ tx[top].from = th /\ top \in Up(FP, t)
  BY <1>1, <1>2 DEF NestedOK
<1>4. Up(FP, t) \subseteq Up(FP, t)'
  BY UpNext
<1> QED BY <1>2, <1>3, <1>4

LEMMA ThreadKept ==
  ASSUME IInv, NEW th \in Thread, thread'[th] = thread[th],
         thread[th].stack # NoTr => \/ tx'[thread[th].stack].from = tx[thread[th].stack].from
                                    \/ tx'[thread[th].stack].from # th
  PROVE  ThreadOK(th)'
<1>1. ThreadOK(th)
  BY DEF IInv
<1> QED BY <1>1 DEF ThreadOK

\* A thread in use is known.
LEMMA UsedIsKnown ==
  ASSUME IInv, NEW th \in Thread
  PROVE  /\ thread[th].stack # NoTr \/ thread[th].todo # <<>> \/ thread[th].wait # "running"
              => thread[th].known
         /\ thread[th].error = "OK" => thread[th].error2 = "OK"
         /\ thread[th].wait = "proc" => thread[th].stack = NoTr /\ thread[th].todo = <<>>
                                        /\ thread[th].error = "OK"
<1>1. ThreadOK(th)
  BY DEF IInv
<1> QED BY <1>1 DEF ThreadOK, NewThread

LEMMA AsyncKept ==
  ASSUME IInv, NEW p \in Proc, releasing' # p => releasing # p,
         proc'[p].has_async <=> proc[p].has_async,
         proc'[p].async_todo # <<>> => proc[p].async_todo # <<>>,
         OnlyCalls(proc'[p].async_todo),
         \A t \in Tr : /\ buffer'[t].async <=> buffer[t].async
                       /\ buffer'[t].state = "free" <=> buffer[t].state = "free"
                       /\ buffer'[t].node = buffer[t].node
                       /\ releasing' # p /\ buffer[t].node = p => (Waiting(t)' <=> Waiting(t))
  PROVE  AsyncOK(p)'
<1>1. AsyncOK(p)
  BY DEF IInv
<1>2. proc'[p].async_todo # <<>> => proc'[p].has_async
  BY <1>1 DEF AsyncOK
<1>3. \A t \in Tr : buffer'[t].async /\ buffer'[t].state # "free" /\ buffer'[t].node = p
        => proc'[p].has_async
  BY <1>1 DEF AsyncOK
<1>4. ASSUME releasing' # p
      PROVE  /\ \A s, t \in InProgress(p)' : s = t
             /\ proc'[p].has_async => InProgress(p)' # {}
  <2>1. InProgress(p)' = InProgress(p)
    BY <1>4 DEF InProgress
  <2> QED BY <1>1, <1>4, <2>1 DEF AsyncOK
<1>5. OnlyCalls(proc[p].async_todo)'
  BY DEF OnlyCalls
<1> QED BY <1>2, <1>3, <1>4, <1>5 DEF AsyncOK

LEMMA AsyncSame ==
  ASSUME IInv, releasing' = releasing,
         \A p \in Proc : /\ proc'[p].has_async <=> proc[p].has_async
                         /\ proc'[p].async_todo = proc[p].async_todo,
         \A t \in Tr : /\ buffer'[t].async <=> buffer[t].async
                       /\ buffer'[t].state = "free" <=> buffer[t].state = "free"
                       /\ buffer'[t].node = buffer[t].node
  PROVE  \A p \in Proc : AsyncOK(p)'
<1>1. \A t \in Tr : Waiting(t)' <=> Waiting(t)
  BY DEF Waiting
<1> SUFFICES ASSUME NEW p \in Proc PROVE AsyncOK(p)'
  OBVIOUS
<1>2. OnlyCalls(proc'[p].async_todo)
  BY DEF IInv, AsyncOK
<1> QED BY <1>1, <1>2, AsyncKept

-----------------------------------------------------------------------------
(* What the steps do to the calls, one lemma per kind of step. *)

\* The part of the invariant about lists, calls and stacks.
Structure ==
  /\ \A pl \in Place : Once(ListAt(pl))
  /\ \A t \in Tr : QueueOK(t)
  /\ CallsOK
  /\ \A th \in Thread : StackOK(th)
  /\ \A t \in Tr : NestedOK(t)

\* No call is touched; one of them may start to fail.
LEMMA Unmoved ==
  ASSUME IInv, UNCHANGED <<calls, tx, buffer>>,
         NEW n \in {NoTr, failing'.t}, Rehomed(n, {}),
         failing'.t \in Tr \cup {NoTr}, failing.t \in {NoTr, failing'.t},
         n # NoTr => Sync(n),
         failing'.t \in {n, failing.t} \/ ~Held(failing'.t),
         \A th \in Thread : th = freeing /\ th # freeing' => thread[th].todo = <<>>,
         \A th \in Thread :
           \/ /\ thread'[th].stack = thread[th].stack
              /\ failing'.t = failing.t \/ Unread(failing'.t) \/ tx[failing'.t].to_thread # th
           \/ /\ Serving(th) /\ failing'.t = thread[th].stack /\ failing.t = NoTr
              /\ thread'[th].stack = LinkOf(th, thread[th].stack)
  PROVE  Structure'
<1> DEFINE f == failing'.t
<1>0. f \in Tr \cup {NoTr} /\ n \in {NoTr, f} /\ failing.t \in {NoTr, f}
  OBVIOUS
<1>1. /\ FP' = FP
      /\ \A t \in Tr : (Sync(t)' <=> Sync(t)) /\ (Unread(t)' <=> Unread(t))
      /\ \A th, t : LinkOf(th, t)' = LinkOf(th, t)
  BY DEF FP, Sync, Unread, LinkOf
<1>2. ASSUME NEW t \in Tr, t # n PROVE (Held(t)' <=> Held(t)) /\ (Held(t) => t # f)
  <2>1. Held(t)' <=> Held(t)
    BY <1>2, HeldNext
  <2>2. Held(t) => t # failing.t
    BY DEF Held, IInv, QueueOK
  <2> QED BY <1>0, <1>2, <2>1, <2>2
<1>3. ASSUME NEW t \in Tr PROVE QueueOK(t)'
  <2>1. CASE t = n
    <3>1. \A pl \in Place : ~Holds(pl, t)'
      BY <2>1 DEF Rehomed
    <3> QED BY <3>1 DEF QueueOK
  <2>2. CASE t # n
    <3>1. Held(t) => t # failing'.t
      BY <1>2, <2>2
    <3> QED BY <2>2, <3>1, QueueKept
  <2> QED BY <2>1, <2>2
<1>4. ASSUME NEW t \in Tr
      PROVE  RecordOK(t)' /\ OnewayOK(t)' /\ SyncOK(t)' /\ ParentOK(t)'
  <2>1. Held(t) => Held(t)' \/ (t = failing'.t /\ ~tx[t].oneway)
    <3>1. CASE t = n
      BY <1>0, <3>1, Numbers DEF Sync
    <3> QED BY <1>2, <3>1
  <2>2. t = failing.t => t = failing'.t
    BY Numbers
  <2>3. Leaf(FP', t) => Leaf(FP, t)
    BY <1>1
  <2>4. ASSUME NEW s \in Tr, FP[t] = s
        PROVE  /\ Sync(s)' /\ ~Unread(s)' /\ tx'[s].to_thread = tx[s].to_thread
               /\ \A u \in Tr : tx'[u].from_parent = s => FP[u] = s
    <3>1. Sync(s) /\ ~Unread(s)
      BY <2>4, Family, Numbers
    <3> QED BY <1>1, <3>1 DEF FP
  <2>5. calls' \in Nat /\ calls <= calls' /\ tx'[t] = tx[t] /\ buffer'[t] = buffer[t]
    BY Fields DEF IInv
  <2> QED BY <2>1, <2>2, <2>3, <2>4, <2>5, CallKept
<1>5. ASSUME NEW th \in Thread PROVE StackOK(th)'
  <2>1. CASE /\ thread'[th].stack = thread[th].stack
             /\ f = failing.t \/ Unread(f) \/ tx[f].to_thread # th
    <3>1. Frames(th)' = Frames(th)
      <4>1. ASSUME NEW t \in Tr, Sync(t), tx[t].to_thread = th, ~Unread(t)
            PROVE  t # failing'.t <=> t # failing.t
        BY <2>1, <4>1, Numbers
      <4>2. ASSUME NEW t \in Tr PROVE t \in Frames(th)' <=> t \in Frames(th)
        BY <1>1, <4>1 DEF Frames
      <4>3. Frames(th)' \in SUBSET Tr /\ Frames(th) \in SUBSET Tr
        BY DEF Frames
      <4> QED BY <4>2, <4>3
    <3> QED BY <1>1, <2>1, <3>1, StackKept
  <2>2. CASE /\ Serving(th) /\ f = thread[th].stack /\ failing.t = NoTr
             /\ thread'[th].stack = LinkOf(th, thread[th].stack)
    <3>1. f \in Tr /\ f \in Frames(th) /\ tx[f].to_thread = th /\ tx[f].from # th
      BY <2>2, ServedIsLeaf
    <3>2. Frames(th)' = Frames(th) \ {f}
      BY <1>1, <2>2, <3>1, Numbers DEF Frames
    <3> HIDE DEF f
    <3> QED BY <1>1, <2>2, <3>1, <3>2, StackPopped
  <2> QED BY <2>1, <2>2
<1>6. ASSUME NEW t \in Tr PROVE NestedOK(t)'
  <2>1. ASSUME NEW th \in Thread, Sync(t), Holds(<<"thread", th>>, t)', th # freeing'
        PROVE  /\ Holds(<<"thread", th>>, t) /\ th # freeing
               /\ thread'[th].stack = thread[th].stack
               /\ tx'[thread[th].stack].from = tx[thread[th].stack].from
    <3>1. Holds(<<"thread", th>>, t)
      BY <2>1, Places DEF Rehomed
    <3>2. th # freeing
      <4>1. th = freeing => thread[th].todo = <<>>
        BY <2>1
      <4> QED BY <3>1, <4>1, EmptyList, ListOf DEF Holds
    <3>3. ~Serving(th)
      BY <2>1, <3>1, <3>2, NestedHasChild, ServedIsLeaf
    <3> QED BY <3>1, <3>2, <3>3
  <2> QED BY <1>1, <2>1, NestedKept
<1>7. \A pl \in Place : Once(ListAt(pl))'
  BY DEF Rehomed
<1> QED BY <1>3, <1>4, <1>5, <1>6, <1>7 DEF Structure, CallsOK

\* A call is popped: it was failing, or it has been answered or is oneway.
LEMMA CallPopped ==
  ASSUME IInv, NEW t \in Tr, tx[t].live, calls' = calls, tx' = Popped(t),
         \A u \in Tr \ {t} : buffer'[u] = buffer[u],
         buffer'[t].transaction = FALSE,
         Sync(t) => Leaf(FP, t),
         NEW n \in {NoTr, t}, Rehomed(n, {}), n = t \/ ~Held(t),
         failing.t \in {NoTr, t},
         failing'.t = IF tx[t].from = NoThread THEN tx[t].from_parent ELSE NoTr,
         freeing' = freeing,
         \A th \in Thread : thread'[th].stack =
           IF t \in Frames(th) THEN LinkOf(th, t) ELSE thread[th].stack
  PROVE  /\ Structure'
         /\ tx[t].from_parent # NoTr => Leaf(FP', tx[t].from_parent)
         /\ \A u \in Tr \ {t} : tx'[u] = tx[u]
<1>1. /\ \A u \in Tr \ {t} : tx'[u] = tx[u]
      /\ tx'[t] = FreedTransaction
  BY DEF Popped, IInv, TypeOK
<1>2. ~Sync(t)' /\ ~tx'[t].live /\ tx'[t].buffer = FALSE /\ tx'[t].from_parent = NoTr
      /\ tx'[t].oneway = FALSE /\ tx'[t].from = NoThread /\ tx'[t].to_thread = NoThread
  BY <1>1 DEF FreedTransaction, Sync
<1>3. /\ \A u \in Tr \ {t} : (Sync(u)' <=> Sync(u)) /\ (Unread(u)' <=> Unread(u))
      /\ \A th : \A u \in Tr \ {t} : LinkOf(th, u)' = LinkOf(th, u)
  BY <1>1 DEF Sync, Unread, LinkOf
<1>4. Leaf(FP, t)
  BY FreedIsLeaf
<1>5. /\ \A u \in Tr \ {t} : FP'[u] = FP[u]
      /\ FP'[t] = NoTr /\ FP' = [FP EXCEPT ![t] = NoTr]
      /\ \A u \in Tr : FP[u] = tx[u].from_parent
  BY <1>1, <1>2 DEF FP
<1>6. \A u \in Tr \ {t} : Up(FP, u) \subseteq Up(FP', u)
  BY <1>4, <1>5, UpPopped, FPIsChain
<1>7. ASSUME NEW u \in Tr PROVE (Held(u)' <=> Held(u) /\ u # t)
  <2>1. u # n => (Held(u)' <=> Held(u))
    BY HeldNext
  <2>2. u = n => ~Held(u)'
    BY HeldNext
  <2>3. u = n => u = t
    BY Numbers
  <2>4. u # n /\ u = t => ~Held(u)
    OBVIOUS
  <2> QED BY <2>1, <2>2, <2>3, <2>4
<1>8. /\ failing'.t # NoTr => failing'.t = FP[t] /\ tx[t].from = NoThread
      /\ failing'.t # NoTr => Sync(t) /\ failing'.t \in Tr /\ failing'.t # t
                              /\ tx[failing'.t].to_thread = NoThread
                              /\ ~Unread(failing'.t)
  BY <1>5, Family, Numbers
<1>9. ASSUME NEW u \in Tr PROVE QueueOK(u)'
  <2>1. CASE u = t
    <3>1. \A pl \in Place : ~Holds(pl, u)'
      BY <2>1, <1>7 DEF Held
    <3> QED BY <3>1 DEF QueueOK
  <2>2. CASE u # t
    <3>1. Held(u) => u # failing'.t
      <4>1. Held(u) => Unread(u)
        BY DEF Held, IInv, QueueOK
      <4> QED BY <1>8, <4>1, Numbers
    <3>2. u # n /\ tx'[u] = tx[u] /\ buffer'[u] = buffer[u]
      BY <1>1, <2>2, Numbers
    <3> QED BY <3>1, <3>2, QueueKept
  <2> QED BY <2>1, <2>2
<1>10. ASSUME NEW u \in Tr
       PROVE  RecordOK(u)' /\ OnewayOK(u)' /\ SyncOK(u)' /\ ParentOK(u)'
  <2>1. CASE u = t
    <3>1. RecordOK(t)
      BY DEF IInv, CallsOK
    <3>2. calls' < t => FALSE
      BY <3>1, Numbers, Fields DEF RecordOK, IInv
    <3> QED BY <1>1, <1>2, <2>1, <3>2 DEF RecordOK, OnewayOK, SyncOK, ParentOK
  <2>2. CASE u # t
    <3>1. Held(u) => Held(u)'
      BY <1>7, <2>2
    <3>2. u # failing.t
      BY <2>2, Numbers
    <3>3. Leaf(FP', u) => Leaf(FP, u) \/ u = failing'.t \/ tx[u].to_thread # NoThread
      <4> SUFFICES ASSUME Leaf(FP', u), NEW c \in Tr, FP[c] = u
                   PROVE  u = failing'.t \/ tx[u].to_thread # NoThread
        BY DEF Leaf
      <4>1. c = t
        BY <1>5 DEF Leaf
      <4>2. tx[t].from = tx[u].to_thread /\ FP[t] = u
        BY <4>1, Family, Numbers
      <4> QED BY <1>5, <4>2
    <3>4. ASSUME NEW s \in Tr, FP[u] = s
          PROVE  /\ Sync(s)' /\ ~Unread(s)' /\ tx'[s].to_thread = tx[s].to_thread
                 /\ \A v \in Tr : tx'[v].from_parent = s => FP[v] = s
      <4>1. Sync(s) /\ ~Unread(s) /\ s # t
        BY <1>4, <3>4, Family, Numbers DEF Leaf
      <4>2. \A v \in Tr : tx'[v].from_parent = FP'[v]
        BY UpNext
      <4>3. \A v \in Tr : FP'[v] = s => FP[v] = s
        BY <1>5, Numbers
      <4> QED BY <1>1, <1>3, <4>1, <4>2, <4>3
    <3>5. calls' \in Nat /\ calls <= calls' /\ tx'[u] = tx[u] /\ buffer'[u] = buffer[u]
      BY <1>1, <2>2, Fields DEF IInv
    <3> QED BY <3>1, <3>2, <3>3, <3>4, <3>5, CallKept
  <2> QED BY <2>1, <2>2
<1>11. ASSUME NEW th \in Thread PROVE StackOK(th)'
  <2>1. Frames(th)' = Frames(th) \ {t}
    <3>1. ~(t \in Frames(th)')
      BY <1>2 DEF Frames
    <3>2. ASSUME NEW u \in Tr \ {t} PROVE u \in Frames(th)' <=> u \in Frames(th)
      <4>1. tx[u].to_thread = th => (u # failing'.t /\ u # failing.t)
        BY <1>8, Numbers, ThreadAssumption
      <4> QED BY <1>1, <1>3, <4>1 DEF Frames
    <3>3. Frames(th) \in SUBSET Tr /\ Frames(th)' \in SUBSET Tr
      BY DEF Frames
    <3> QED BY <3>1, <3>2, <3>3
  <2>2. Frames(th) \in SUBSET Tr
    BY FramesAreCalls
  <2>3. CASE t \in Frames(th)
    <3>1. t = thread[th].stack
      BY <1>4, <2>3, LeafIsTop
    <3> QED BY <1>3, <1>6, <2>1, <2>2, <2>3, <3>1, StackPopped
  <2>4. CASE t \notin Frames(th)
    BY <1>3, <1>6, <2>1, <2>2, <2>4, StackKept
  <2> QED BY <2>3, <2>4
<1>12. ASSUME NEW u \in Tr PROVE NestedOK(u)'
  <2>1. CASE u = t
    BY <1>2, <2>1 DEF NestedOK
  <2>2. CASE u # t
    <3>1. ASSUME NEW th \in Thread, Sync(u), Holds(<<"thread", th>>, u)', th # freeing'
          PROVE  /\ Holds(<<"thread", th>>, u) /\ th # freeing
                 /\ thread'[th].stack = thread[th].stack
                 /\ tx'[thread[th].stack].from = tx[thread[th].stack].from
      <4>1. Holds(<<"thread", th>>, u) /\ th # freeing
        BY <2>2, <3>1, Places, Numbers DEF Rehomed
      <4>2. thread[th].stack \in Tr /\ ~Leaf(FP, thread[th].stack)
        BY <3>1, <4>1, NestedHasChild
      <4>3. t \notin Frames(th) /\ thread[th].stack # t
        BY <1>4, <4>2, LeafIsTop
      <4> QED BY <1>1, <4>1, <4>2, <4>3
    <3> QED BY <1>3, <1>6, <2>2, <3>1, NestedKept
  <2> QED BY <2>1, <2>2
<1>13. \A pl \in Place : Once(ListAt(pl))'
  BY DEF Rehomed
<1>14. Structure'
  BY <1>9, <1>10, <1>11, <1>12, <1>13 DEF Structure, CallsOK
<1>15. tx[t].from_parent # NoTr => Leaf(FP', tx[t].from_parent)
  <2> SUFFICES ASSUME NEW c \in Tr, FP'[c] = tx[t].from_parent, tx[t].from_parent # NoTr
               PROVE  FALSE
    BY DEF Leaf
  <2>1. c # t /\ FP[c] = FP[t]
    BY <1>5
  <2> QED BY <1>5, <2>1, Family
<1> QED BY <1>1, <1>14, <1>15

\* Buffers go; at most one oneway call moves, to a thread of its node's process.
LEMMA BuffersFreed ==
  ASSUME IInv, NEW D \in SUBSET Tr, \A t \in D : tx[t].live => ~Unread(t),
         calls' = calls, failing' = failing, freeing' = freeing,
         \A t \in Tr : buffer'[t] = IF t \in D THEN FreeBuffer ELSE buffer[t],
         \A t \in D : tx'[t] = [tx[t] EXCEPT !.buffer = FALSE],
         \A t \in Tr \ D : tx'[t] = tx[t],
         \A th \in Thread : thread'[th].stack = thread[th].stack,
         NEW n, NEW P \in SUBSET Place, Rehomed(n, P),
         \/ n = NoTr
         \/ /\ n \in Tr /\ Held(n) /\ tx[n].oneway
            /\ \E th \in Thread : P = {<<"thread", th>>} /\ ProcOf[th] = buffer[n].node
  PROVE  Structure'
<1>1. \A t \in Tr : /\ tx'[t].live <=> tx[t].live
                    /\ tx'[t].oneway <=> tx[t].oneway
                    /\ tx'[t].from = tx[t].from /\ tx'[t].to_thread = tx[t].to_thread
                    /\ tx'[t].from_parent = tx[t].from_parent
                    /\ tx'[t].to_parent = tx[t].to_parent
  <2> SUFFICES ASSUME NEW t \in D
               PROVE  /\ tx'[t].live <=> tx[t].live
                      /\ tx'[t].oneway <=> tx[t].oneway
                      /\ tx'[t].from = tx[t].from /\ tx'[t].to_thread = tx[t].to_thread
                      /\ tx'[t].from_parent = tx[t].from_parent
                      /\ tx'[t].to_parent = tx[t].to_parent
    OBVIOUS
  <2>1. tx[t] \in Transaction /\ tx'[t] = [tx[t] EXCEPT !.buffer = FALSE]
    BY Fields DEF IInv
  <2> QED BY <2>1, WithoutBuffer
<1>2. \A t \in D : /\ ~tx'[t].buffer /\ tx'[t].buffer = FALSE
                   /\ buffer'[t].state = "free" /\ buffer'[t].transaction = FALSE
                   /\ buffer'[t].async = FALSE
  <2> SUFFICES ASSUME NEW t \in D PROVE tx'[t].buffer = FALSE
    BY FreeRecords
  <2>1. tx[t] \in Transaction /\ tx'[t] = [tx[t] EXCEPT !.buffer = FALSE]
    BY Fields DEF IInv
  <2> QED BY <2>1 DEF Transaction
<1>3. /\ \A t \in Tr : Sync(t)' <=> Sync(t)
      /\ \A t \in Tr : tx[t].live => (Unread(t)' <=> Unread(t))
      /\ \A t \in Tr : ~Unread(t) => ~Unread(t)'
      /\ FP' = FP
      /\ \A th : \A t \in Tr : LinkOf(th, t)' = LinkOf(th, t)
  BY <1>1, <1>2 DEF Sync, Unread, FP, LinkOf
<1>4. ASSUME NEW t \in Tr PROVE Held(t)' <=> Held(t)
  BY HeldNext, Numbers
<1>5. ASSUME NEW t \in Tr, Held(t)
      PROVE  /\ t \notin D /\ tx'[t] = tx[t] /\ buffer'[t] = buffer[t]
             /\ tx[t].live /\ tx[t].buffer /\ Unread(t) /\ t # failing.t
  BY <1>5 DEF Held, IInv, QueueOK
<1>6. ASSUME NEW t \in Tr PROVE QueueOK(t)'
  <2>1. CASE t = n
    <3>0. n # NoTr
      BY <2>1, Numbers
    <3>1. PICK th \in Thread : P = {<<"thread", th>>} /\ ProcOf[th] = buffer[n].node
      BY <3>0
    <3>2. Held(t) /\ tx[t].oneway
      BY <2>1, <3>0
    <3>3. \A pl \in Place : Holds(pl, t)' => pl = <<"thread", th>>
      BY <2>1, <3>1 DEF Rehomed
    <3>4. IsHome(<<"thread", th>>, t)'
      BY <1>5, <2>1, <3>1, <3>2 DEF IsHome
    <3>5. (tx[t].live)' /\ (tx[t].buffer)' /\ Unread(t)' /\ (t # failing.t)'
      BY <1>5, <3>2 DEF Unread
    <3> QED BY <3>3, <3>4, <3>5 DEF QueueOK
  <2>2. CASE t # n
    BY <1>5, <2>2, QueueKept
  <2> QED BY <2>1, <2>2
<1>7. ASSUME NEW t \in Tr
      PROVE  RecordOK(t)' /\ OnewayOK(t)' /\ SyncOK(t)' /\ ParentOK(t)'
  <2>1. ASSUME NEW s \in Tr, FP[t] = s
        PROVE  /\ Sync(s)' /\ ~Unread(s)' /\ tx'[s].to_thread = tx[s].to_thread
               /\ \A u \in Tr : tx'[u].from_parent = s => FP[u] = s
    BY <2>1, <1>1, <1>3, Family, Numbers DEF FP
  <2>2. CASE t \notin D
    <3>1. calls' \in Nat /\ calls <= calls' /\ tx'[t] = tx[t] /\ buffer'[t] = buffer[t]
      BY <2>2, Fields DEF IInv
    <3>2. Leaf(FP', t) => Leaf(FP, t)
      BY <1>3
    <3> QED BY <1>4, <2>1, <3>1, <3>2, CallKept
  <2>3. CASE t \in D
    <3>0. RecordOK(t) /\ OnewayOK(t) /\ SyncOK(t) /\ ParentOK(t)
      BY DEF IInv, CallsOK
    <3>1. RecordOK(t)'
      <4>1. ~tx[t].live => tx'[t] = FreedTransaction
        <5>1. [FreedTransaction EXCEPT !.buffer = FALSE] = FreedTransaction
          BY WithoutBuffer, FreeRecords, ConstantTypes
        <5> QED BY <2>3, <3>0, <5>1 DEF RecordOK
      <4>2. buffer'[t] = FreeBuffer
        BY <2>3
      <4> QED BY <1>1, <1>2, <2>3, <3>0, <4>1, <4>2 DEF RecordOK
    <3>2. ~(tx[t].live /\ tx[t].oneway)
      BY <1>5, <2>3, <3>0 DEF OnewayOK
    <3>3. OnewayOK(t)'
      BY <1>1, <3>2 DEF OnewayOK
    <3>4. ~Unread(t)' /\ buffer'[t].state = "free" /\ buffer'[t].async = FALSE
      BY <1>2, <2>3 DEF Unread
    <3>5. Sync(t) => /\ tx'[t].from # NoThread => tx'[t].from # tx'[t].to_thread
                     /\ tx'[t].to_thread = NoThread /\ t # failing'.t => ~Leaf(FP, t)'
      <4>1. Sync(t) => ~Unread(t)
        BY <2>3 DEF Sync
      <4> QED BY <1>1, <1>3, <3>0, <4>1, UpNext DEF SyncOK
    <3>6. SyncOK(t)'
      BY <1>3, <3>4, <3>5 DEF SyncOK
    <3>7. ParentOK(t)'
      <4>1. CASE FP[t] = NoTr
        BY <1>1, <4>1 DEF ParentOK, FP
      <4>2. ASSUME NEW s \in Tr, FP[t] = s PROVE ParentOK(t)'
        <5>1. s < t /\ tx[t].from = tx[s].to_thread /\ \A u \in Tr : FP[u] = s => u = t
          BY <4>2, Family, Numbers
        <5>2. /\ s < t /\ Sync(s)' /\ ~Unread(s)' /\ tx'[t].from = tx'[s].to_thread
              /\ \A u \in Tr : tx'[u].from_parent = s => u = t
          BY <1>1, <2>1, <4>2, <5>1
        <5>3. tx'[t].from_parent = s
          BY <1>1, <4>2 DEF FP
        <5> QED BY <5>2, <5>3 DEF ParentOK
      <4>3. FP[t] = NoTr \/ FP[t] \in Tr
        BY Family
      <4> QED BY <4>1, <4>2, <4>3
    <3> QED BY <3>1, <3>3, <3>6, <3>7
  <2> QED BY <2>2, <2>3
<1>8. ASSUME NEW th \in Thread PROVE StackOK(th)'
  <2>1. \A t \in Tr : Sync(t) => (Unread(t)' <=> Unread(t))
    BY <1>3 DEF Sync
  <2>2. Frames(th)' = Frames(th)
    BY <1>1, <1>3, <2>1 DEF Frames
  <2>3. \A u \in Frames(th) : LinkOf(th, u)' = LinkOf(th, u) /\ Up(FP, u) \subseteq Up(FP', u)
    BY <1>3 DEF Frames
  <2> QED BY <2>2, <2>3, StackKept
<1>9. ASSUME NEW t \in Tr PROVE NestedOK(t)'
  <2>1. ASSUME NEW th \in Thread, Sync(t), Holds(<<"thread", th>>, t)', th # freeing'
        PROVE  /\ Holds(<<"thread", th>>, t) /\ th # freeing
               /\ thread'[th].stack = thread[th].stack
               /\ tx'[thread[th].stack].from = tx[thread[th].stack].from
    <3>1. t # n
      BY <2>1, Numbers DEF Sync
    <3>2. Holds(<<"thread", th>>, t) /\ th # freeing
      BY <2>1, <3>1, Places DEF Rehomed
    <3>3. thread[th].stack \in Tr
      BY <2>1, <3>2, NestedHasChild
    <3> QED BY <1>1, <3>2, <3>3
  <2> QED BY <1>3, <2>1, NestedKept
<1>10. \A pl \in Place : Once(ListAt(pl))'
  BY DEF Rehomed
<1> QED BY <1>6, <1>7, <1>8, <1>9, <1>10 DEF Structure, CallsOK

\* A synchronous call reaches the thread that will execute it.
LEMMA CallRead ==
  ASSUME IInv, NEW th \in Thread, NEW w \in Tr, Sync(w), Rehomed(w, {}),
         \/ Holds(<<"thread", th>>, w)
         \/ Holds(<<"proc", ProcOf[th]>>, w) /\ thread[th].todo = <<>>
                                              /\ thread[th].stack = NoTr,
         failing.t = NoTr, freeing = NoThread, UNCHANGED <<calls, failing, freeing>>,
         thread'[th].stack = w,
         \A x \in Thread \ {th} : thread'[x].stack = thread[x].stack,
         tx' = [tx EXCEPT ![w] = [@ EXCEPT !.to_parent = thread[th].stack, !.to_thread = th]],
         buffer' = [buffer EXCEPT ![w] = [@ EXCEPT !.state = "user", !.holder = th]]
  PROVE  Structure' /\ tx'[w].from # th
<1>0. RecordOK(w) /\ OnewayOK(w) /\ SyncOK(w) /\ ParentOK(w) /\ QueueOK(w)
  BY DEF IInv, CallsOK
<1>1. /\ \A u \in Tr \ {w} : tx'[u] = tx[u] /\ buffer'[u] = buffer[u]
      /\ tx'[w] = [tx[w] EXCEPT !.to_parent = thread[th].stack, !.to_thread = th]
      /\ buffer'[w] = [buffer[w] EXCEPT !.state = "user", !.holder = th]
  BY DEF IInv, TypeOK
<1>2. /\ tx'[w].live <=> tx[w].live
      /\ tx'[w].oneway <=> tx[w].oneway
      /\ tx'[w].buffer = tx[w].buffer
      /\ tx'[w].from = tx[w].from /\ tx'[w].to_thread = th
      /\ tx'[w].from_parent = tx[w].from_parent /\ tx'[w].to_parent = thread[th].stack
      /\ buffer'[w].async <=> buffer[w].async
      /\ buffer'[w].transaction = buffer[w].transaction
      /\ buffer'[w].node = buffer[w].node /\ buffer'[w].state = "user"
  <2>1. tx[w] \in Transaction /\ buffer[w] \in Buffer
    BY Fields DEF IInv
  <2>2. /\ tx'[w].live <=> tx[w].live
        /\ tx'[w].oneway <=> tx[w].oneway
        /\ tx'[w].buffer <=> tx[w].buffer
        /\ tx'[w].buffer = tx[w].buffer
        /\ tx'[w].from = tx[w].from /\ tx'[w].to_thread = th
        /\ tx'[w].from_parent = tx[w].from_parent /\ tx'[w].to_parent = thread[th].stack
    <3> DEFINE r == tx[w]
               q == tx'[w]
               s == thread[th].stack
    <3>1. r \in Transaction /\ q = [r EXCEPT !.to_parent = s, !.to_thread = th]
      BY <1>1, <2>1
    <3> HIDE DEF r, q, s
    <3>2. /\ q.live <=> r.live
          /\ q.oneway <=> r.oneway
          /\ q.buffer <=> r.buffer
          /\ q.buffer = r.buffer /\ q.from = r.from /\ q.to_thread = th
          /\ q.from_parent = r.from_parent /\ q.to_parent = s
      BY <3>1 DEF Transaction
    <3> QED BY <3>2, Zenon DEF r, q, s
  <2>3. /\ buffer'[w].async <=> buffer[w].async
        /\ buffer'[w].transaction = buffer[w].transaction
        /\ buffer'[w].node = buffer[w].node /\ buffer'[w].state = "user"
    <3> DEFINE b == buffer[w]
               q == buffer'[w]
    <3>1. b \in Buffer /\ q = [b EXCEPT !.state = "user", !.holder = th]
      BY <1>1, <2>1
    <3> HIDE DEF b, q
    <3>2. /\ q.async <=> b.async
          /\ q.transaction = b.transaction /\ q.node = b.node /\ q.state = "user"
      BY <3>1 DEF Buffer
    <3> QED BY <3>2, Zenon DEF b, q
  <2> QED BY <2>2, <2>3, Zenon
<1>3. /\ \A u \in Tr : Sync(u)' <=> Sync(u)
      /\ \A u \in Tr \ {w} : Unread(u)' <=> Unread(u)
      /\ ~Unread(w)'
      /\ FP' = FP
      /\ \A x : \A u \in Tr \ {w} : LinkOf(x, u)' = LinkOf(x, u)
      /\ LinkOf(th, w)' = thread[th].stack
  BY <1>1, <1>2 DEF Sync, Unread, FP, LinkOf
<1>4. ASSUME NEW u \in Tr PROVE Held(u)' <=> Held(u) /\ u # w
  BY HeldNext
<1>5. \E pl \in Place : Holds(pl, w) /\ pl \in {<<"thread", th>>, <<"proc", ProcOf[th]>>}
  BY Places, ThreadAssumption
<1>6. PICK pl \in Place : Holds(pl, w) /\ pl \in {<<"thread", th>>, <<"proc", ProcOf[th]>>}
  BY <1>5
<1>7. /\ Unread(w) /\ IsHome(pl, w)
  BY <1>0, <1>6 DEF QueueOK
<1>8. /\ ProcOf[th] = buffer[w].node
      /\ tx[w].to_thread \in {th, NoThread}
      /\ pl = <<"thread", th>> => tx[w].to_thread = th
  <2>1. CASE pl = <<"thread", th>>
    BY <1>7, <2>1, Places DEF IsHome, Sync
  <2>2. CASE pl = <<"proc", ProcOf[th]>>
    BY <1>7, <2>2, Places DEF IsHome, Sync
  <2> QED BY <1>6, <2>1, <2>2
<1>9. tx[w].from # th /\ (tx[w].from # NoThread => ProcOf[tx[w].from] # buffer[w].node)
  BY <1>0, <1>7, <1>8, ThreadAssumption DEF SyncOK, Unread
<1>10. Leaf(FP, w)
  BY <1>7, UnreadIsLeaf
<1>11. \/ thread[th].stack = NoTr
       \/ thread[th].stack \in Tr /\ thread[th].stack \in Up(FP, w) /\ thread[th].stack < w
  <2>1. CASE Holds(<<"thread", th>>, w)
    <3>1. /\ thread[th].stack \in Tr /\ thread[th].stack \in Up(FP, w) /\ thread[th].stack # w
      BY <2>1, NestedHasChild, ThreadAssumption
    <3>2. thread[th].stack <= w
      BY <3>1, UpIsOlder, FPIsChain
    <3> QED BY <3>1, <3>2, Numbers
  <2> QED BY <2>1
<1>12. ASSUME NEW u \in Tr PROVE QueueOK(u)'
  <2>1. CASE u = w
    <3>1. \A pm \in Place : ~Holds(pm, u)'
      BY <2>1, <1>4 DEF Held
    <3> QED BY <3>1 DEF QueueOK
  <2>2. CASE u # w
    <3>1. u # failing'.t
      BY Numbers
    <3> QED BY <1>1, <2>2, <3>1, QueueKept
  <2> QED BY <2>1, <2>2
<1>13. ASSUME NEW u \in Tr
       PROVE  RecordOK(u)' /\ OnewayOK(u)' /\ SyncOK(u)' /\ ParentOK(u)'
  <2>1. ASSUME NEW s \in Tr, FP[u] = s
        PROVE  /\ Sync(s)' /\ ~Unread(s)' /\ tx'[s].to_thread = tx[s].to_thread
               /\ \A v \in Tr : tx'[v].from_parent = s => FP[v] = s
    <3>1. s # w /\ Sync(s) /\ ~Unread(s)
      BY <2>1, <1>7, Family, Numbers
    <3> QED BY <1>1, <1>3, <3>1, UpNext DEF FP
  <2>2. CASE u # w
    <3>1. calls' \in Nat /\ calls <= calls' /\ tx'[u] = tx[u] /\ buffer'[u] = buffer[u]
      BY <1>1, <2>2, Fields DEF IInv
    <3>2. Leaf(FP', u) => Leaf(FP, u)
      BY <1>3
    <3>3. u # failing.t
      BY Numbers
    <3> QED BY <1>4, <2>1, <2>2, <3>1, <3>2, <3>3, CallKept
  <2>3. CASE u = w
    <3>1. RecordOK(w)'
      <4>1. calls' = calls /\ ~(calls < w)
        <5>1. w <= calls /\ calls \in Nat
          BY <1>0, Fields DEF RecordOK, Sync, IInv
        <5> QED BY <5>1, Numbers
      <4> QED BY <1>0, <1>2, <4>1 DEF RecordOK, Sync
    <3>2. OnewayOK(w)'
      BY <1>3 DEF OnewayOK, Sync
    <3>3. SyncOK(w)'
      <4>1. th # NoThread
        BY ThreadAssumption
      <4>2. ~buffer'[w].async
        BY <1>0, <1>2 DEF SyncOK
      <4> QED BY <1>2, <1>3, <1>8, <1>9, <4>1, <4>2 DEF SyncOK
    <3>4. ParentOK(w)'
      <4>1. CASE FP[w] = NoTr
        BY <1>2, <4>1 DEF ParentOK, FP
      <4>2. ASSUME NEW s \in Tr, FP[w] = s PROVE ParentOK(w)'
        <5>1. s < w /\ tx[w].from = tx[s].to_thread /\ \A v \in Tr : FP[v] = s => v = w
          BY <4>2, Family, Numbers
        <5>2. /\ s < w /\ Sync(s)' /\ ~Unread(s)' /\ tx'[w].from = tx'[s].to_thread
              /\ \A v \in Tr : tx'[v].from_parent = s => v = w
          BY <1>2, <2>1, <2>3, <4>2, <5>1
        <5>3. tx'[w].from_parent = s
          BY <1>2, <4>2 DEF FP
        <5> QED BY <5>2, <5>3 DEF ParentOK
      <4>3. FP[w] = NoTr \/ FP[w] \in Tr
        BY Family
      <4> QED BY <4>1, <4>2, <4>3
    <3> QED BY <2>3, <3>1, <3>2, <3>3, <3>4
  <2> QED BY <2>2, <2>3
<1>14. ASSUME NEW x \in Thread PROVE StackOK(x)'
  <2>1. ASSUME NEW u \in Tr \ {w} PROVE u \in Frames(x)' <=> u \in Frames(x)
    BY <1>1, <1>3 DEF Frames
  <2>2. Frames(x) \in SUBSET Tr /\ Frames(x)' \in SUBSET Tr
    BY DEF Frames
  <2>3. CASE x = th
    <3>1. w \notin Frames(th)
      BY <1>7, <1>9 DEF Frames
    <3>2. (w \in Frames(th))'
      BY <1>2, <1>3, Numbers DEF Frames
    <3>3. Frames(th)' = Frames(th) \cup {w}
      BY <2>1, <2>2, <2>3, <3>2
    <3>4. thread[th].stack < w
      BY <1>11, Numbers
    <3>5. thread[th].stack # NoTr => Up(FP, thread[th].stack) \subseteq Up(FP', w)
      BY <1>3, <1>11, FPIsChain, UpTransitive
    <3>6. \A u \in Frames(th) : LinkOf(th, u)' = LinkOf(th, u) /\ Up(FP, u) \subseteq Up(FP', u)
      BY <1>3, <3>1 DEF Frames
    <3> QED BY <1>3, <2>3, <3>1, <3>3, <3>4, <3>5, <3>6, StackPushed
  <2>4. CASE x # th
    <3>1. w \in Frames(x)' <=> w \in Frames(x)
      BY <1>2, <1>3, <1>7, <2>4 DEF Frames
    <3>2. Frames(x)' = Frames(x)
      <4>1. \A u \in Tr : u \in Frames(x)' <=> u \in Frames(x)
        BY <2>1, <3>1
      <4> QED BY <2>2, <4>1
    <3>3. LinkOf(x, w)' = LinkOf(x, w)
      BY <1>2, <1>8, <2>4, ThreadAssumption DEF LinkOf
    <3> QED BY <1>3, <2>4, <3>2, <3>3, StackKept, FramesAreCalls
  <2> QED BY <2>3, <2>4
<1>15. ASSUME NEW t \in Tr PROVE NestedOK(t)'
  <2>1. ASSUME NEW x \in Thread, Sync(t), Holds(<<"thread", x>>, t)', x # freeing'
        PROVE  /\ Holds(<<"thread", x>>, t) /\ x # freeing
               /\ thread'[x].stack = thread[x].stack
               /\ tx'[thread[x].stack].from = tx[thread[x].stack].from
    <3>1. Holds(<<"thread", x>>, t) /\ x # freeing /\ t # w
      BY <2>1, Places DEF Rehomed
    <3>2. /\ thread[x].stack \in Tr /\ thread[x].stack \in Up(FP, t)
      BY <2>1, <3>1, NestedHasChild
    <3>3. ASSUME x = th PROVE FALSE
      <4>1. Holds(<<"thread", th>>, w)
        BY <3>1, <3>3, EmptyList, ListOf DEF Holds
      <4>2. thread[th].stack \in Up(FP, t) /\ thread[th].stack \in Up(FP, w)
        BY <1>11, <3>2, <3>3, Numbers
      <4>3. t \in Up(FP, w) \/ w \in Up(FP, t)
        BY <4>2, FPIsChain, UpComparable
      <4>4. Leaf(FP, t)
        <5>1. QueueOK(t)
          BY DEF IInv
        <5>2. Unread(t)
          BY <3>1, <5>1, Places DEF QueueOK
        <5> QED BY <5>2, UnreadIsLeaf
      <4> QED BY <1>10, <3>1, <4>3, <4>4, FPIsChain, UpOfLeaf
    <3> QED BY <1>1, <1>2, <3>1, <3>2, <3>3
  <2> QED BY <1>3, <2>1, NestedKept
<1>16. \A pm \in Place : Once(ListAt(pm))'
  BY DEF Rehomed
<1> QED BY <1>2, <1>9, <1>12, <1>13, <1>14, <1>15, <1>16 DEF Structure, CallsOK

\* A thread leaves: it is cut out of the calls on its stack.
IsCut(th, t) == t \in Frames(th) /\ tx[t].to_thread = th

LEMMA CutCalls ==
  ASSUME IInv, NEW th \in Thread, CutThread(th), failing.t = NoTr, NEW t \in Tr
  PROVE  /\ tx'[t].live <=> tx[t].live
         /\ tx'[t].oneway <=> tx[t].oneway
         /\ tx'[t].from_parent = tx[t].from_parent /\ tx'[t].to_parent = tx[t].to_parent
         /\ tx'[t].from = IF tx[t].from = th THEN NoThread ELSE tx[t].from
         /\ tx'[t].to_thread = IF IsCut(th, t) THEN NoThread ELSE tx[t].to_thread
         /\ tx'[t].buffer = IF IsCut(th, t) THEN FALSE ELSE tx[t].buffer
         /\ buffer'[t].transaction = IF IsCut(th, t) THEN FALSE ELSE buffer[t].transaction
         /\ t \notin Frames(th) => tx'[t] = tx[t] /\ buffer'[t] = buffer[t]
         /\ buffer'[t].async <=> buffer[t].async
         /\ buffer'[t].state = buffer[t].state /\ buffer'[t].node = buffer[t].node
         /\ buffer[t] = FreeBuffer => buffer'[t] = FreeBuffer
<1> DEFINE F == Frames(th)
           r == tx[t]
           q == tx'[t]
           b == buffer[t]
           d == buffer'[t]
           cut == t \in F /\ r.to_thread = th
           out == t \in F /\ ~cut /\ r.from = th
<1>1. /\ tx' = [u \in Tr |->
                [tx[u] EXCEPT !.to_thread = IF u \in {v \in F : tx[v].to_thread = th}
                                            THEN NoThread ELSE @,
                              !.buffer = IF u \in {v \in F : tx[v].to_thread = th}
                                         THEN FALSE ELSE @,
                              !.from = IF u \in {v \in F \ {w \in F : tx[w].to_thread = th} :
                                                   tx[v].from = th}
                                       THEN NoThread ELSE @]]
      /\ buffer' = [u \in Tr |->
                [buffer[u] EXCEPT !.transaction =
                   IF u \in {v \in F : tx[v].to_thread = th} /\ tx[u].buffer THEN FALSE ELSE @]]
  <2>1. PICK S \in SUBSET Tr :
         LET in == {v \in S : tx[v].to_thread = th}
             oth == {v \in S \ in : tx[v].from = th}
         IN  /\ IsStack(S, th)
             /\ tx' = [u \in Tr |->
                  [tx[u] EXCEPT !.to_thread = IF u \in in THEN NoThread ELSE @,
                                !.buffer = IF u \in in THEN FALSE ELSE @,
                                !.from = IF u \in oth THEN NoThread ELSE @]]
             /\ buffer' = [u \in Tr |->
                  [buffer[u] EXCEPT !.transaction =
                     IF u \in in /\ tx[u].buffer THEN FALSE ELSE @]]
    BY DEF CutThread
  <2>2. S = F
    BY <2>1, StackIsWalk
  <2> QED BY <2>1, <2>2
<1>2. /\ q = [r EXCEPT !.to_thread = IF cut THEN NoThread ELSE @,
                       !.buffer = IF cut THEN FALSE ELSE @,
                       !.from = IF out THEN NoThread ELSE @]
      /\ d = [b EXCEPT !.transaction = IF cut /\ r.buffer THEN FALSE ELSE @]
  BY <1>1
<1>3. r \in Transaction /\ b \in Buffer /\ r.buffer \in BOOLEAN /\ b.transaction \in BOOLEAN
  BY Fields DEF IInv
<1>4. b.transaction = r.buffer
  BY DEF IInv, CallsOK, RecordOK
<1>5. r.from = th => t \in F /\ r.to_thread # th
  <2>1. SyncOK(t)
    BY DEF IInv, CallsOK
  <2>2. r.from = th => Sync(t)
    BY NotSync, ThreadAssumption
  <2> QED BY <2>1, <2>2, ThreadAssumption DEF SyncOK, Frames
<1>6. out <=> r.from = th
  BY <1>5
<1> HIDE DEF r, q, b, d, cut, out
<1>7. /\ q.live <=> r.live
      /\ q.oneway <=> r.oneway
      /\ q.from_parent = r.from_parent /\ q.to_parent = r.to_parent
      /\ q.from = IF out THEN NoThread ELSE r.from
      /\ q.to_thread = IF cut THEN NoThread ELSE r.to_thread
      /\ q.buffer = IF cut THEN FALSE ELSE r.buffer
  BY <1>2, <1>3 DEF Transaction
<1>8. /\ d.async <=> b.async
      /\ d.state = b.state /\ d.node = b.node
      /\ d.transaction = IF cut /\ r.buffer THEN FALSE ELSE b.transaction
  BY <1>2, <1>3 DEF Buffer
<1>9. d.transaction = IF cut THEN FALSE ELSE b.transaction
  <2>1. CASE cut
    <3>1. CASE r.buffer
      BY <1>8, <2>1, <3>1
    <3>2. CASE ~r.buffer
      <4>1. b.transaction = FALSE
        BY <1>3, <1>4, <3>2
      <4> QED BY <1>8, <2>1, <3>2, <4>1
    <3> QED BY <3>1, <3>2
  <2>2. CASE ~cut
    BY <1>8, <2>2
  <2> QED BY <2>1, <2>2
<1>10. t \notin F => q = r /\ d = b
  <2> SUFFICES ASSUME t \notin F PROVE q = r /\ d = b
    OBVIOUS
  <2>1. ~cut /\ ~out
    BY DEF cut, out
  <2>2. q = [r EXCEPT !.to_thread = r.to_thread, !.buffer = r.buffer, !.from = r.from]
    BY <1>2, <2>1
  <2>3. d = [b EXCEPT !.transaction = b.transaction]
    BY <1>2, <2>1
  <2> QED BY <1>3, <2>2, <2>3 DEF Transaction, Buffer
<1>11. b = FreeBuffer => d = FreeBuffer
  <2> SUFFICES ASSUME b = FreeBuffer PROVE d = FreeBuffer
    OBVIOUS
  <2>1. b.transaction = FALSE
    BY FreeRecords
  <2>2. d = [b EXCEPT !.transaction = b.transaction]
    <3>1. ~r.buffer
      BY <1>4, <2>1
    <3> QED BY <1>2, <3>1
  <2>3. d = b
    BY <1>3, <2>2 DEF Buffer
  <2> QED BY <2>3
<1>12. /\ tx[t] = r /\ tx'[t] = q /\ buffer[t] = b /\ buffer'[t] = d
       /\ IsCut(th, t) <=> cut
  BY Zenon DEF r, q, b, d, cut, IsCut
<1>13. /\ tx'[t].live <=> tx[t].live
       /\ tx'[t].oneway <=> tx[t].oneway
       /\ tx'[t].from_parent = tx[t].from_parent /\ tx'[t].to_parent = tx[t].to_parent
       /\ tx'[t].from = IF tx[t].from = th THEN NoThread ELSE tx[t].from
  BY <1>6, <1>7, <1>12
<1>14. /\ tx'[t].to_thread = IF cut THEN NoThread ELSE tx[t].to_thread
       /\ tx'[t].buffer = IF cut THEN FALSE ELSE tx[t].buffer
       /\ buffer'[t].transaction = IF cut THEN FALSE ELSE buffer[t].transaction
  BY <1>7, <1>9, <1>12
<1>15. /\ buffer'[t].async <=> buffer[t].async
       /\ buffer'[t].state = buffer[t].state /\ buffer'[t].node = buffer[t].node
       /\ buffer[t] = FreeBuffer => buffer'[t] = FreeBuffer
       /\ t \notin F => tx'[t] = tx[t] /\ buffer'[t] = buffer[t]
  BY <1>8, <1>10, <1>11, <1>12
<1> QED BY <1>12, <1>13, <1>14, <1>15

LEMMA ThreadCut ==
  ASSUME IInv, NEW th \in Thread, CutThread(th), thread[th].known,
         failing.t = NoTr, freeing = NoThread, UNCHANGED <<calls, proc>>
  PROVE  /\ Structure' /\ FailOK'
         /\ \A x \in Thread \ {th} : thread'[x] = thread[x]
         /\ ThreadOK(th)'
<1> DEFINE F == Frames(th)
           top == thread[th].stack
<1>0. /\ failing' = ExitFailure(th) /\ freeing' = th
      /\ thread' = [thread EXCEPT ![th] = [@ EXCEPT !.stack = NoTr, !.wait = "running"]]
  BY DEF CutThread
<1>1. /\ \A x \in Thread \ {th} : thread'[x] = thread[x]
      /\ thread'[th] = [thread[th] EXCEPT !.stack = NoTr, !.wait = "running"]
  BY <1>0 DEF IInv, TypeOK
<1>2. /\ thread'[th].stack = NoTr /\ thread'[th].wait = "running"
      /\ thread'[th].known /\ thread'[th].todo = thread[th].todo
      /\ thread'[th].error = thread[th].error /\ thread'[th].error2 = thread[th].error2
  <2> DEFINE r == thread[th]
             q == thread'[th]
  <2>1. r \in BinderThread /\ q = [r EXCEPT !.stack = NoTr, !.wait = "running"] /\ r.known
    BY <1>1, Fields DEF IInv
  <2> HIDE DEF r, q
  <2>2. /\ q.stack = NoTr /\ q.wait = "running"
        /\ q.known /\ q.todo = r.todo
        /\ q.error = r.error /\ q.error2 = r.error2
    BY <2>1 DEF BinderThread
  <2> QED BY <2>2, Zenon DEF r, q
<1>3. \A t \in Tr :
        /\ tx'[t].live <=> tx[t].live
        /\ tx'[t].oneway <=> tx[t].oneway
        /\ tx'[t].from_parent = tx[t].from_parent /\ tx'[t].to_parent = tx[t].to_parent
        /\ tx'[t].from = IF tx[t].from = th THEN NoThread ELSE tx[t].from
        /\ tx'[t].to_thread = IF IsCut(th, t) THEN NoThread ELSE tx[t].to_thread
        /\ tx'[t].buffer = IF IsCut(th, t) THEN FALSE ELSE tx[t].buffer
        /\ buffer'[t].transaction = IF IsCut(th, t) THEN FALSE ELSE buffer[t].transaction
        /\ t \notin F => tx'[t] = tx[t] /\ buffer'[t] = buffer[t]
        /\ buffer'[t].async <=> buffer[t].async
        /\ buffer'[t].state = buffer[t].state /\ buffer'[t].node = buffer[t].node
        /\ buffer[t] = FreeBuffer => buffer'[t] = FreeBuffer
  BY CutCalls
<1>4. /\ \A t \in Tr : (Sync(t)' <=> Sync(t)) /\ (Unread(t)' <=> Unread(t))
      /\ FP' = FP
  BY <1>3 DEF Sync, Unread, FP
<1>5. StackOK(th) /\ F \in SUBSET Tr /\ th # NoThread
  BY FramesAreCalls, ThreadAssumption DEF IInv
<1>6. \A t \in Tr : IsCut(th, t) => Sync(t) /\ ~Unread(t)
  <2>1. \A t \in Tr : Sync(t) /\ tx[t].to_thread = th => tx[t].from # th
    BY ThreadAssumption DEF IInv, CallsOK, SyncOK
  <2> QED BY <2>1 DEF Frames, IsCut
<1>7. failing'.t \in Tr \cup {NoTr} /\ failing'.code \in {"OK", "DEAD_REPLY"}
      /\ failing'.t = IF Serving(th) THEN top ELSE NoTr
  BY <1>0, ServedIsLeaf DEF ExitFailure, NoFailure
<1>8. failing'.t # NoTr =>
        /\ Serving(th) /\ failing'.t = top /\ IsCut(th, top) /\ top \in Tr
        /\ Sync(top) /\ Leaf(FP, top) /\ ~Unread(top) /\ failing'.code = "DEAD_REPLY"
  BY <1>0, <1>7, ServedIsLeaf DEF ExitFailure, NoFailure, IsCut
<1>9. Rehomed(NoTr, {})
  <2>1. \A x \in Thread : thread'[x].todo = thread[x].todo
    BY <1>1, <1>2
  <2> QED BY <2>1, ListsSame
<1>10. ASSUME NEW t \in Tr
       PROVE  (Held(t)' <=> Held(t)) /\ (Held(t) => ~IsCut(th, t) /\ t # failing'.t)
  <2>1. Held(t)' <=> Held(t)
    BY <1>9, HeldNext, Numbers
  <2>2. Held(t) => Unread(t)
    BY DEF Held, IInv, QueueOK
  <2> QED BY <1>6, <1>8, <2>1, <2>2, Numbers
<1>11. ASSUME NEW t \in Tr PROVE QueueOK(t)'
  <2>0. t # NoTr
    BY Numbers
  <2> SUFFICES ASSUME NEW pl \in Place, Holds(pl, t)'
               PROVE  /\ \A pm \in Place : Holds(pm, t)' => pm = pl
                      /\ (tx[t].live)' /\ (tx[t].buffer)' /\ Unread(t)' /\ (t # failing.t)'
                      /\ IsHome(pl, t)'
    BY DEF QueueOK
  <2>1. \A pm \in Place : Holds(pm, t)' <=> Holds(pm, t)
    BY <1>9, <2>0 DEF Rehomed
  <2>2. Held(t) /\ QueueOK(t)
    BY <2>1 DEF Held, IInv
  <2>3. ~IsCut(th, t) /\ t # failing'.t
    BY <1>10, <2>2
  <2>4. /\ \A pm \in Place : Holds(pm, t) => pm = pl
        /\ tx[t].live /\ tx[t].buffer /\ Unread(t) /\ IsHome(pl, t)
    BY <2>1, <2>2 DEF QueueOK
  <2>5. IsHome(pl, t)'
    <3>1. /\ tx'[t].oneway <=> tx[t].oneway
          /\ tx'[t].to_thread = tx[t].to_thread /\ buffer'[t].node = buffer[t].node
      BY <1>3, <2>3
    <3> QED BY <2>4, <3>1 DEF IsHome
  <2> QED BY <1>3, <1>4, <2>1, <2>3, <2>4, <2>5
<1>12. ASSUME NEW t \in Tr
       PROVE  RecordOK(t)' /\ OnewayOK(t)' /\ SyncOK(t)' /\ ParentOK(t)'
  <2>0. RecordOK(t) /\ OnewayOK(t) /\ SyncOK(t) /\ ParentOK(t)
    BY DEF IInv, CallsOK
  <2>1. RecordOK(t)'
    <3>1. ~tx[t].live => tx'[t] = FreedTransaction
      <4>1. ~tx[t].live => t \notin F
        BY DEF Frames, Sync
      <4> QED BY <1>3, <2>0, <4>1 DEF RecordOK
    <3>2. buffer'[t].transaction = tx'[t].buffer
      BY <1>3, <2>0 DEF RecordOK
    <3> QED BY <1>3, <2>0, <3>1, <3>2 DEF RecordOK
  <2>2. OnewayOK(t)'
    <3>1. tx[t].oneway => t \notin F
      BY DEF Frames, Sync
    <3> QED BY <1>3, <1>10, <2>0, <3>1 DEF OnewayOK
  <2>3. SyncOK(t)'
    <3> SUFFICES ASSUME Sync(t) PROVE SyncOK(t)'
      BY <1>4 DEF SyncOK
    <3>1. ~buffer'[t].async /\ (Unread(t)' => tx'[t].to_parent = NoTr)
      BY <1>3, <1>4, <2>0 DEF SyncOK
    <3>2. tx'[t].from # NoThread => tx'[t].from # tx'[t].to_thread
      BY <1>3, <2>0 DEF SyncOK
    <3>3. buffer'[t].state # "free" =>
             /\ tx'[t].from # NoThread => ProcOf[tx'[t].from] # buffer'[t].node
             /\ tx'[t].to_thread # NoThread => ProcOf[tx'[t].to_thread] = buffer'[t].node
      BY <1>3, <2>0 DEF SyncOK
    <3>4. Unread(t)' /\ t # failing'.t => Held(t)'
      <4>1. t # failing.t
        BY Numbers
      <4> QED BY <1>4, <1>10, <2>0, <4>1 DEF SyncOK
    <3>5. ~Unread(t)' /\ tx'[t].to_thread = NoThread /\ t # failing'.t => ~Leaf(FP, t)'
      <4> SUFFICES ASSUME ~Unread(t), tx'[t].to_thread = NoThread, t # failing'.t
                   PROVE  ~Leaf(FP, t)
        BY <1>4, UpNext
      <4>1. CASE tx[t].to_thread = NoThread
        <5>1. t # failing.t
          BY Numbers
        <5> QED BY <2>0, <4>1, <5>1 DEF SyncOK
      <4>2. CASE tx[t].to_thread # NoThread
        <5>1. IsCut(th, t)
          BY <1>3, <4>2
        <5>2. t \in F /\ tx[t].to_thread = th
          BY <5>1 DEF IsCut
        <5>3. t # top
          <6>1. t = top => Serving(th)
            BY <5>2, Numbers DEF Serving
          <6> QED BY <1>7, <6>1
        <5> QED BY <5>2, <5>3, LeafIsTop
      <4> QED BY <4>1, <4>2
    <3> QED BY <3>1, <3>2, <3>3, <3>4, <3>5 DEF SyncOK
  <2>4. ParentOK(t)'
    <3>1. CASE FP[t] = NoTr
      BY <1>3, <3>1 DEF ParentOK, FP
    <3>2. ASSUME NEW s \in Tr, FP[t] = s PROVE ParentOK(t)'
      <4>1. s < t /\ tx[t].from = tx[s].to_thread /\ Sync(s) /\ ~Unread(s)
            /\ \A u \in Tr : FP[u] = s => u = t
        BY <3>2, Family, Numbers
      <4>2. tx'[t].from = tx'[s].to_thread
        <5>1. s # failing.t
          BY Numbers
        <5>2. tx[s].to_thread = th => IsCut(th, s)
          BY <4>1, <5>1 DEF IsCut, Frames
        <5>3. IsCut(th, s) => tx[s].to_thread = th
          BY DEF IsCut
        <5> QED BY <1>3, <4>1, <5>2, <5>3
      <4>3. tx'[t].from_parent = s /\ \A u \in Tr : tx'[u].from_parent = s => u = t
        BY <1>3, <3>2, <4>1 DEF FP
      <4>4. Sync(s)' /\ ~Unread(s)'
        BY <1>4, <4>1
      <4> QED BY <4>1, <4>2, <4>3, <4>4 DEF ParentOK
    <3>3. FP[t] = NoTr \/ FP[t] \in Tr
      BY Family
    <3> QED BY <3>1, <3>2, <3>3
  <2> QED BY <2>1, <2>2, <2>3, <2>4
<1>13. ASSUME NEW x \in Thread PROVE StackOK(x)'
  <2>1. CASE x = th
    <3>1. ASSUME NEW u \in Tr PROVE ~(u \in Frames(th))'
      <4>1. tx'[u].from # th
        BY <1>3, <1>5
      <4>2. Sync(u) /\ tx'[u].to_thread = th /\ ~Unread(u) => FALSE
        <5>1. u # failing.t
          BY Numbers
        <5>2. Sync(u) /\ tx[u].to_thread = th /\ ~Unread(u) => IsCut(th, u)
          BY <5>1 DEF IsCut, Frames
        <5> QED BY <1>3, <1>5, <5>2
      <4> QED BY <1>4, <4>1, <4>2 DEF Frames
    <3>2. Frames(th)' \in SUBSET Tr
      BY DEF Frames
    <3>3. \A u : ~(u \in Frames(th)')
      BY <3>1, <3>2
    <3> QED BY <1>2, <2>1, <3>3 DEF StackOK
  <2>2. CASE x # th
    <3>1. ASSUME NEW u \in Tr
          PROVE  /\ tx'[u].from = x <=> tx[u].from = x
                 /\ tx'[u].to_thread = x <=> tx[u].to_thread = x
                 /\ tx[u].to_thread = x => u # failing'.t /\ u # failing.t
      <4>1. x # NoThread
        BY ThreadAssumption
      <4>2. IsCut(th, u) => tx[u].to_thread = th
        BY DEF IsCut
      <4>3. tx[u].to_thread = x => u # failing'.t /\ u # failing.t
        BY <1>8, <2>2, Numbers DEF IsCut
      <4>4. tx'[u].from = x <=> tx[u].from = x
        BY <1>3, <2>2, <4>1
      <4>5. tx'[u].to_thread = x <=> tx[u].to_thread = x
        BY <1>3, <2>2, <4>1, <4>2
      <4> QED BY <4>3, <4>4, <4>5
    <3>2. Frames(x)' = Frames(x)
      <4>1. ASSUME NEW u \in Tr PROVE u \in Frames(x)' <=> u \in Frames(x)
        BY <1>4, <3>1 DEF Frames
      <4>2. Frames(x)' \in SUBSET Tr /\ Frames(x) \in SUBSET Tr
        BY DEF Frames
      <4> QED BY <4>1, <4>2
    <3>3. \A u \in Tr : LinkOf(x, u)' = LinkOf(x, u)
      BY <1>3, <3>1 DEF LinkOf
    <3> QED BY <1>1, <1>4, <2>2, <3>2, <3>3, StackKept, FramesAreCalls
  <2> QED BY <2>1, <2>2
<1>14. ASSUME NEW t \in Tr PROVE NestedOK(t)'
  <2>1. ASSUME NEW x \in Thread, Sync(t), Holds(<<"thread", x>>, t)', x # freeing'
        PROVE  /\ Holds(<<"thread", x>>, t) /\ x # freeing
               /\ thread'[x].stack = thread[x].stack
               /\ tx'[thread[x].stack].from = tx[thread[x].stack].from
    <3>1. Holds(<<"thread", x>>, t) /\ x # freeing /\ x # th
      BY <1>0, <1>9, <2>1, Places, Numbers, ThreadAssumption DEF Rehomed
    <3>2. thread[x].stack \in Tr /\ tx[thread[x].stack].from = x
      BY <2>1, <3>1, NestedHasChild
    <3> QED BY <1>1, <1>3, <3>1, <3>2
  <2> QED BY <1>4, <2>1, NestedKept
<1>15. \A pl \in Place : Once(ListAt(pl))'
  BY <1>9 DEF Rehomed
<1>16. Structure'
  BY <1>11, <1>12, <1>13, <1>14, <1>15 DEF Structure, CallsOK
<1>17. FailOK'
  <2>1. thread'[freeing'].known /\ thread'[freeing'].stack = NoTr
    BY <1>0, <1>2
  <2>2. failing'.t # NoTr => tx'[failing'.t].to_thread = NoThread
    BY <1>3, <1>8
  <2>4. failing'.t # NoTr => Leaf(FP', failing'.t)
    BY <1>4, <1>8
  <2>5. Leaf(FP, failing.t)' <=> Leaf(FP', failing'.t)
    BY DEF Leaf, FP
  <2>6. failing'.t # NoTr => Sync(failing.t)'
    BY <1>3, <1>8 DEF Sync
  <2> QED BY <1>8, <2>1, <2>2, <2>4, <2>5, <2>6 DEF FailOK
<1>18. ThreadOK(th)'
  <2>1. ThreadOK(th)
    BY DEF IInv
  <2> QED BY <1>2, <2>1 DEF ThreadOK
<1> QED BY <1>1, <1>16, <1>17, <1>18

\* The thread that a nested call is sent to waits for a call which led to it.
LEMMA TargetWaits ==
  ASSUME IInv, failing.t = NoTr, NEW th \in Thread, NEW s, s = thread[th].stack,
         s = NoTr \/ Serving(th), NEW p \in Proc, p # ProcOf[th],
         NEW target \in Thread, IsTarget(target, s, p)
  PROVE  LET top == thread[target].stack
         IN  /\ ProcOf[target] = p /\ target # th /\ s # NoTr
             /\ top \in Tr /\ tx[top].from = target /\ top \in Up(FP, s)
<1> DEFINE top == thread[target].stack
<1>1. s \in Tr \cup {NoTr} /\ FP = [t \in Tr |-> tx[t].from_parent]
  BY Fields DEF IInv, FP
<1>2. PICK C \in SUBSET Tr :
        LET sent == {t \in C : tx[t].from # NoThread /\ ProcOf[tx[t].from] = p}
        IN  /\ IsWalk(C, s, FP)
            /\ \/ sent = {} /\ target = NoThread
               \/ \E t \in sent : target = tx[t].from /\ \A u \in sent : t <= u
  BY <1>1 DEF IsTarget
<1>3. PICK t \in C : target = tx[t].from /\ ProcOf[target] = p
  BY <1>2, ThreadAssumption
<1>4. s \in Tr /\ t \in Up(FP, s) /\ t \in Tr
  BY <1>1, <1>2, <1>3, FPIsChain, WalkIsUp
<1>5. Serving(th) /\ Leaf(FP, s) /\ tx[s].to_thread = th
  BY <1>4, ServedIsLeaf, Numbers
<1>6. Sync(t) /\ t \in Frames(target)
  <2>1. Sync(t)
    BY <1>3, <1>4, NotSync, ThreadAssumption
  <2> QED BY <1>3, <1>4, <2>1 DEF Frames
<1>7. StackOK(target)
  BY DEF IInv
<1>8. top \in Tr /\ top \in Frames(target) /\ t \in Up(FP, top)
  <2>1. t <= top /\ top \in Frames(target) \cup {NoTr}
    BY <1>6, <1>7 DEF StackOK
  <2>2. top # NoTr
    BY <1>4, <2>1, Numbers
  <2>3. top \in Frames(target) /\ top \in Tr
    BY <2>1, <2>2, FramesAreCalls
  <2>4. t < top => t \in Up(FP, top)
    BY <1>6, <1>7, <2>3 DEF StackOK
  <2>5. t = top => t \in Up(FP, top)
    BY <1>4, UpSelf
  <2> QED BY <1>4, <2>1, <2>3, <2>4, <2>5, Numbers
<1> HIDE DEF top
<1>9. top \in Up(FP, s)
  <2>1. s \in Up(FP, top) \/ top \in Up(FP, s)
    BY <1>4, <1>8, FPIsChain, UpComparable
  <2>2. s \in Up(FP, top) => s = top
    BY <1>4, <1>5, <1>8, FPIsChain, UpOfLeaf
  <2> QED BY <1>4, <2>1, <2>2, UpSelf
<1>10. tx[top].from = target
  <2>1. SUFFICES ASSUME tx[top].from # target PROVE FALSE
    OBVIOUS
  <2>2. tx[top].to_thread = target
    BY <1>8, <2>1 DEF Frames
  <2>3. Serving(target)
    BY <1>8, <2>2, Numbers DEF Serving, top
  <2>4. Leaf(FP, top)
    BY <2>3, ServedIsLeaf DEF top
  <2>5. top = s
    BY <1>4, <1>9, <2>4, FPIsChain, UpOfLeaf
  <2> QED BY <1>3, <1>5, <2>2, <2>5
<1> QED BY <1>3, <1>4, <1>8, <1>9, <1>10, Numbers DEF top

LEMMA NewIsFresh ==
  ASSUME IInv, NEW t \in Tr, t = calls + 1
  PROVE  /\ tx[t] = FreedTransaction /\ buffer[t] = FreeBuffer
         /\ ~tx[t].live /\ ~Sync(t) /\ ~Held(t) /\ FP[t] = NoTr /\ Leaf(FP, t)
         /\ \A x : t \notin Frames(x)
<1>1. RecordOK(t) /\ calls \in Nat
  BY Fields DEF IInv, CallsOK
<1>2. ~(t <= calls) /\ calls < t
  BY <1>1
<1>3. ~tx[t].live /\ tx[t] = FreedTransaction /\ buffer[t] = FreeBuffer
  BY <1>1, <1>2 DEF RecordOK
<1>4. ~Sync(t)
  BY <1>3 DEF Sync
<1>5. ~Held(t)
  BY <1>3 DEF Held, IInv, QueueOK
<1>6. FP[t] = NoTr /\ Leaf(FP, t)
  BY <1>4, FreedIsLeaf
<1>7. \A x : t \notin Frames(x)
  BY <1>4 DEF Frames
<1> QED BY <1>3, <1>4, <1>5, <1>6, <1>7

\* A synchronous call is made.
LEMMA CallSent ==
  ASSUME IInv, NEW th \in Thread, NEW p \in Proc, p # ProcOf[th],
         failing.t = NoTr, freeing = NoThread, UNCHANGED <<failing, freeing>>,
         NEW t \in Tr, t = calls + 1, calls' = t,
         NEW s, s = thread[th].stack, s = NoTr \/ Serving(th),
         NEW target \in Thread \cup {NoThread},
         target # NoThread => IsTarget(target, s, p),
         tx' = [tx EXCEPT ![t] = [live |-> TRUE, oneway |-> FALSE, buffer |-> TRUE,
                                  from |-> th, to_thread |-> target,
                                  from_parent |-> s, to_parent |-> NoTr]],
         buffer' = [buffer EXCEPT ![t] =
                      [FreeBuffer EXCEPT !.state = "kernel", !.async = FALSE,
                                         !.transaction = TRUE, !.node = p]],
         NEW p0 \in Place,
         p0 = IF target = NoThread THEN <<"proc", p>> ELSE <<"thread", target>>,
         Rehomed(t, {p0}),
         thread'[th].stack = t,
         \A x \in Thread \ {th} : thread'[x].stack = thread[x].stack
  PROVE  Structure'
<1>1. /\ tx[t] = FreedTransaction /\ buffer[t] = FreeBuffer
      /\ ~tx[t].live /\ ~Sync(t) /\ ~Held(t) /\ FP[t] = NoTr /\ Leaf(FP, t)
      /\ \A x : t \notin Frames(x)
  BY NewIsFresh
<1>2. /\ \A u \in Tr \ {t} : tx'[u] = tx[u] /\ buffer'[u] = buffer[u]
      /\ tx'[t].live /\ ~tx'[t].oneway /\ tx'[t].buffer = TRUE
      /\ tx'[t].from = th /\ tx'[t].to_thread = target
      /\ tx'[t].from_parent = s /\ tx'[t].to_parent = NoTr
  BY DEF IInv, TypeOK
<1>3. /\ buffer'[t].state = "kernel" /\ ~buffer'[t].async
      /\ buffer'[t].transaction = TRUE /\ buffer'[t].node = p
  <2> DEFINE b == [FreeBuffer EXCEPT !.state = "kernel", !.async = FALSE,
                                     !.transaction = TRUE, !.node = p]
  <2>1. b.state = "kernel" /\ ~b.async /\ b.transaction = TRUE /\ b.node = p
    BY DEF FreeBuffer
  <2>2. buffer'[t] = b
    BY DEF IInv, TypeOK
  <2> HIDE DEF b
  <2> QED BY <2>1, <2>2
<1>4. /\ \A u \in Tr \ {t} : (Sync(u)' <=> Sync(u)) /\ (Unread(u)' <=> Unread(u))
      /\ Sync(t)' /\ Unread(t)'
      /\ \A x : \A u \in Tr \ {t} : LinkOf(x, u)' = LinkOf(x, u)
  BY <1>2, <1>3 DEF Sync, Unread, LinkOf
<1>5. s \in Tr \cup {NoTr} /\ calls \in Nat /\ failing'.t = NoTr /\ freeing' = NoThread
  BY Fields DEF IInv
<1>6. s # NoTr => /\ s \in Tr /\ Leaf(FP, s) /\ Sync(s) /\ ~Unread(s)
                  /\ tx[s].to_thread = th
  BY ServedIsLeaf
<1>7. s < t
  <2>1. s # NoTr => s <= calls /\ s \in Nat
    <3>1. s # NoTr => RecordOK(s) /\ tx[s].live
      BY <1>6 DEF IInv, CallsOK, Sync
    <3> QED BY <1>6, <3>1, Numbers DEF RecordOK
  <2> QED BY <1>5, <2>1, Numbers
<1>8. /\ FP' \in [Tr -> Tr \cup {NoTr}] /\ FP'[t] = s
      /\ \A w \in Tr : w # t => FP'[w] = FP[w]
  <2>1. \A u \in Tr : tx'[u].from_parent = IF u = t THEN s ELSE tx[u].from_parent
    BY <1>2
  <2>2. \A u \in Tr : tx'[u].from_parent \in Tr \cup {NoTr}
    BY <1>5, <2>1, Fields DEF IInv
  <2> QED BY <2>1, <2>2 DEF FP
<1>9. /\ \A w \in Tr : w # t => Up(FP, w) \subseteq Up(FP', w)
      /\ s # NoTr => Up(FP, s) \subseteq Up(FP', t)
      /\ \A w \in Tr : w # t => FP'[w] = FP[w]
      /\ FP'[t] = s
  <2>1. IsChain(FP)
    BY FPIsChain
  <2>2. /\ \A w \in Tr : w # t => Up(FP, w) \subseteq Up(FP', w)
        /\ s # NoTr => Up(FP, s) \subseteq Up(FP', t)
    <3> DEFINE f == FP
               g == FP'
    <3>1. /\ IsChain(f) /\ Leaf(f, t) /\ f[t] = NoTr
          /\ s \in Tr \cup {NoTr} /\ s < t /\ g \in [Tr -> Tr \cup {NoTr}]
          /\ (\A u \in Tr : u # t => g[u] = f[u]) /\ g[t] = s
      BY <1>1, <1>5, <1>7, <1>8, <2>1
    <3> HIDE DEF f, g
    <3>2. /\ \A w \in Tr : w # t => Up(f, w) \subseteq Up(g, w)
          /\ s # NoTr => Up(f, s) \subseteq Up(g, t)
      BY <3>1, UpPushed
    <3> QED BY <3>2 DEF f, g
  <2>3. /\ \A w \in Tr : w # t => FP'[w] = FP[w]
        /\ FP'[t] = s
    BY <1>8
  <2> QED BY <2>2, <2>3
<1>10. target # NoThread =>
         LET top == thread[target].stack
         IN  /\ ProcOf[target] = p /\ target # th /\ s # NoTr
             /\ top \in Tr /\ tx[top].from = target /\ top \in Up(FP, s)
  BY TargetWaits
<1>11. ASSUME NEW u \in Tr PROVE Held(u)' <=> Held(u) \/ u = t
  BY HeldNext
<1>12. ASSUME NEW u \in Tr PROVE QueueOK(u)'
  <2>1. CASE u # t
    <3>1. u # failing'.t
      BY <1>5, Numbers
    <3> QED BY <1>2, <2>1, <3>1, QueueKept
  <2>2. CASE u = t
    <3>1. \A pl \in Place : Holds(pl, t)' => pl = p0
      BY DEF Rehomed
    <3>2. IsHome(p0, t)'
      <4>1. CASE target = NoThread
        BY <1>2, <1>3, <4>1 DEF IsHome
      <4>2. CASE target # NoThread
        BY <1>2, <1>3, <1>10, <4>2 DEF IsHome
      <4> QED BY <4>1, <4>2
    <3>3. t # failing'.t
      BY <1>5, Numbers
    <3> QED BY <1>2, <1>4, <2>2, <3>1, <3>2, <3>3 DEF QueueOK
  <2> QED BY <2>1, <2>2
<1>13. ASSUME NEW u \in Tr
       PROVE  RecordOK(u)' /\ OnewayOK(u)' /\ SyncOK(u)' /\ ParentOK(u)'
  <2>1. CASE u # t
    <3>1. calls' \in Nat /\ calls <= calls' /\ tx'[u] = tx[u] /\ buffer'[u] = buffer[u]
      BY <1>2, <1>5, <2>1, Numbers
    <3>2. Held(u) => Held(u)'
      BY <1>11
    <3>3. u # failing.t
      BY Numbers
    <3>4. Leaf(FP', u) => Leaf(FP, u)
      BY <1>1, <1>9, Numbers DEF Leaf
    <3>5. ASSUME NEW v \in Tr, FP[u] = v
          PROVE  /\ Sync(v)' /\ ~Unread(v)' /\ tx'[v].to_thread = tx[v].to_thread
                 /\ \A w \in Tr : tx'[w].from_parent = v => FP[w] = v
      <4>1. Sync(v) /\ ~Unread(v) /\ v # t /\ v # s
        BY <1>1, <1>6, <3>5, Family, Numbers DEF Leaf
      <4>2. \A w \in Tr : tx'[w].from_parent = FP'[w]
        BY UpNext
      <4>3. \A w \in Tr : FP'[w] = v => FP[w] = v
        BY <1>9, <4>1
      <4> QED BY <1>2, <1>4, <4>1, <4>2, <4>3
    <3> QED BY <3>1, <3>2, <3>3, <3>4, <3>5, CallKept
  <2>2. CASE u = t
    <3>1. RecordOK(t)'
      <4>1. t <= calls' /\ ~(calls' < t)
        BY Numbers
      <4> QED BY <1>2, <1>3, <4>1 DEF RecordOK
    <3>2. OnewayOK(t)'
      BY <1>2 DEF OnewayOK
    <3>3. SyncOK(t)'
      <4>1. th # target
        BY <1>10, ThreadAssumption
      <4>2. target # NoThread => ProcOf[target] = p
        BY <1>10
      <4>3. Held(t)'
        BY <1>11
      <4> QED BY <1>2, <1>3, <1>4, <4>1, <4>2, <4>3 DEF SyncOK
    <3>4. ParentOK(t)'
      <4>1. CASE s = NoTr
        BY <1>2, <4>1 DEF ParentOK
      <4>2. CASE s # NoTr
        <5>1. s \in Tr /\ s # t
          BY <1>6, <1>7, <4>2, Numbers
        <5>2. Sync(s)' /\ ~Unread(s)' /\ tx'[s].to_thread = th
          BY <1>2, <1>4, <1>6, <4>2, <5>1
        <5>3. \A v \in Tr : tx'[v].from_parent = FP'[v]
          BY UpNext
        <5>4. \A v \in Tr : FP'[v] = s => v = t
          BY <1>6, <1>9, <4>2 DEF Leaf
        <5> QED BY <1>2, <1>7, <5>2, <5>3, <5>4 DEF ParentOK
      <4> QED BY <4>1, <4>2
    <3> QED BY <2>2, <3>1, <3>2, <3>3, <3>4
  <2> QED BY <2>1, <2>2
<1>14. ASSUME NEW x \in Thread PROVE StackOK(x)'
  <2>1. ASSUME NEW u \in Tr \ {t} PROVE u \in Frames(x)' <=> u \in Frames(x)
    BY <1>2, <1>4 DEF Frames
  <2>2. Frames(x) \in SUBSET Tr /\ Frames(x)' \in SUBSET Tr /\ t \notin Frames(x)
    BY <1>1 DEF Frames
  <2>3. \A u \in Frames(x) : LinkOf(x, u)' = LinkOf(x, u) /\ Up(FP, u) \subseteq Up(FP', u)
    BY <1>4, <1>9, <2>2
  <2>4. CASE x = th
    <3>1. (t \in Frames(th))'
      BY <1>2, <1>4 DEF Frames
    <3>2. Frames(th)' = Frames(th) \cup {t}
      BY <2>1, <2>2, <2>4, <3>1
    <3>3. LinkOf(th, t)' = s
      <4>1. tx'[t].to_thread # th
        BY <1>2, <1>10, ThreadAssumption
      <4> QED BY <1>2, <4>1 DEF LinkOf
    <3> QED BY <1>7, <1>9, <2>2, <2>3, <2>4, <3>2, <3>3, StackPushed
  <2>5. CASE x # th
    <3>1. ~(t \in Frames(x)')
      BY <1>2, <1>4, <2>5 DEF Frames
    <3>2. Frames(x)' = Frames(x)
      <4>1. \A u \in Tr : u \in Frames(x)' <=> u \in Frames(x)
        BY <2>1, <2>2, <3>1
      <4> QED BY <2>2, <4>1
    <3> QED BY <2>3, <2>5, <3>2, StackKept
  <2> QED BY <2>4, <2>5
<1>15. ASSUME NEW u \in Tr PROVE NestedOK(u)'
  <2>1. CASE u # t
    <3>1. ASSUME NEW x \in Thread, Sync(u), Holds(<<"thread", x>>, u)', x # freeing'
          PROVE  /\ Holds(<<"thread", x>>, u) /\ x # freeing
                 /\ thread'[x].stack = thread[x].stack
                 /\ tx'[thread[x].stack].from = tx[thread[x].stack].from
      <4>1. Holds(<<"thread", x>>, u) /\ x # freeing
        BY <2>1, <3>1, Places DEF Rehomed
      <4>2. thread[x].stack \in Tr /\ ~Leaf(FP, thread[x].stack)
        BY <3>1, <4>1, NestedHasChild
      <4>3. x # th /\ thread[x].stack # t
        BY <1>1, <1>6, <4>2, Numbers
      <4> QED BY <1>2, <4>1, <4>2, <4>3
    <3> QED BY <1>4, <1>9, <2>1, <3>1, NestedKept
  <2>2. CASE u = t
    <3> SUFFICES ASSUME NEW x \in Thread, Holds(<<"thread", x>>, t)'
                 PROVE  LET top == thread'[x].stack
                        IN  top # NoTr /\ tx'[top].from = x /\ top \in Up(FP, t)'
      BY <2>2 DEF NestedOK
    <3>1. <<"thread", x>> = p0
      BY Places DEF Rehomed
    <3>2. target # NoThread /\ x = target
      BY <3>1, Places
    <3>3. LET top == thread[x].stack
          IN  x # th /\ s # NoTr /\ top \in Tr /\ tx[top].from = x /\ top \in Up(FP, s)
      BY <1>10, <3>2
    <3>4. thread[x].stack # t
      <4>1. thread[x].stack <= s
        BY <1>6, <3>3, FPIsChain, UpIsOlder
      <4> QED BY <1>6, <1>7, <3>3, <4>1, Numbers
    <3>5. thread[x].stack \in Up(FP, t)'
      BY <1>9, <3>3, UpNext
    <3> QED BY <1>2, <3>3, <3>4, <3>5, Numbers
  <2> QED BY <2>1, <2>2
<1>16. \A pl \in Place : Once(ListAt(pl))'
  BY DEF Rehomed
<1> QED BY <1>12, <1>13, <1>14, <1>15, <1>16 DEF Structure, CallsOK

\* A oneway call is made.
LEMMA OnewaySent ==
  ASSUME IInv, NEW p \in Proc, failing.t = NoTr, freeing = NoThread,
         UNCHANGED <<failing, freeing>>,
         NEW t \in Tr, t = calls + 1, calls' = t,
         tx' = [tx EXCEPT ![t] = [FreedTransaction EXCEPT !.live = TRUE,
                                    !.oneway = TRUE, !.buffer = TRUE]],
         buffer' = [buffer EXCEPT ![t] =
                      [FreeBuffer EXCEPT !.state = "kernel", !.async = TRUE,
                                         !.transaction = TRUE, !.node = p]],
         NEW p0 \in {<<"proc", p>>, <<"async", p>>}, Rehomed(t, {p0}),
         \A x \in Thread : thread'[x].stack = thread[x].stack
  PROVE  Structure'
<1>1. /\ tx[t] = FreedTransaction /\ buffer[t] = FreeBuffer
      /\ ~tx[t].live /\ ~Sync(t) /\ ~Held(t) /\ FP[t] = NoTr /\ Leaf(FP, t)
      /\ \A x : t \notin Frames(x)
  BY NewIsFresh
<1> DEFINE r == [FreedTransaction EXCEPT !.live = TRUE, !.oneway = TRUE, !.buffer = TRUE]
           b == [FreeBuffer EXCEPT !.state = "kernel", !.async = TRUE,
                                   !.transaction = TRUE, !.node = p]
<1>2. /\ r.live /\ r.oneway /\ r.buffer = TRUE /\ r.from = NoThread /\ r.to_thread = NoThread
      /\ r.from_parent = NoTr /\ r.to_parent = NoTr
      /\ b.state = "kernel" /\ b.async /\ b.transaction = TRUE /\ b.node = p
  BY DEF FreedTransaction, FreeBuffer
<1>3. /\ \A u \in Tr \ {t} : tx'[u] = tx[u] /\ buffer'[u] = buffer[u]
      /\ tx'[t] = r /\ buffer'[t] = b
  BY DEF IInv, TypeOK
<1>4. OnewayOK(t)' <=> (tx'[t].live /\ tx'[t].oneway =>
                          tx'[t] = r /\ buffer'[t].async /\ Held(t)')
  BY DEF OnewayOK
<1> HIDE DEF r, b
<1>5. /\ \A u \in Tr : Sync(u)' <=> Sync(u)
      /\ \A u \in Tr \ {t} : (Unread(u)' <=> Unread(u))
      /\ ~Sync(t)' /\ Unread(t)' /\ FP' = FP
      /\ \A x : \A u \in Tr \ {t} : LinkOf(x, u)' = LinkOf(x, u)
  <2>1. \A u \in Tr : tx'[u].from_parent = tx[u].from_parent
    BY <1>1, <1>2, <1>3 DEF FP
  <2> QED BY <1>1, <1>2, <1>3, <2>1 DEF Sync, Unread, LinkOf, FP
<1>6. calls \in Nat /\ failing'.t = NoTr /\ freeing' = NoThread /\ p0 \in Place
  BY Fields, Places DEF IInv
<1>7. ASSUME NEW u \in Tr PROVE Held(u)' <=> Held(u) \/ u = t
  BY <1>6, HeldNext
<1>8. ASSUME NEW u \in Tr PROVE QueueOK(u)'
  <2>1. CASE u # t
    <3>1. u # failing'.t
      BY <1>6, Numbers
    <3> QED BY <1>3, <1>6, <2>1, <3>1, QueueKept
  <2>2. CASE u = t
    <3>1. \A pl \in Place : Holds(pl, t)' => pl = p0
      BY DEF Rehomed
    <3>2. IsHome(p0, t)'
      BY <1>2, <1>3 DEF IsHome
    <3>3. t # failing'.t
      BY <1>6, Numbers
    <3> QED BY <1>2, <1>3, <1>5, <2>2, <3>1, <3>2, <3>3 DEF QueueOK
  <2> QED BY <2>1, <2>2
<1>9. ASSUME NEW u \in Tr
      PROVE  RecordOK(u)' /\ OnewayOK(u)' /\ SyncOK(u)' /\ ParentOK(u)'
  <2>1. CASE u # t
    <3>1. calls' \in Nat /\ calls <= calls' /\ tx'[u] = tx[u] /\ buffer'[u] = buffer[u]
      BY <1>3, <1>6, <2>1, Numbers
    <3>2. Held(u) => Held(u)'
      BY <1>7
    <3>3. u # failing.t /\ (Leaf(FP', u) => Leaf(FP, u))
      BY <1>5, Numbers
    <3>4. ASSUME NEW v \in Tr, FP[u] = v
          PROVE  /\ Sync(v)' /\ ~Unread(v)' /\ tx'[v].to_thread = tx[v].to_thread
                 /\ \A w \in Tr : tx'[w].from_parent = v => FP[w] = v
      <4>1. Sync(v) /\ ~Unread(v) /\ v # t
        BY <1>1, <3>4, Family, Numbers DEF Leaf
      <4>2. \A w \in Tr : tx'[w].from_parent = FP[w]
        BY <1>5, UpNext
      <4> QED BY <1>3, <1>5, <4>1, <4>2
    <3> QED BY <3>1, <3>2, <3>3, <3>4, CallKept
  <2>2. CASE u = t
    <3>1. RecordOK(t)'
      <4>1. t <= calls' /\ ~(calls' < t)
        BY Numbers
      <4> QED BY <1>2, <1>3, <4>1 DEF RecordOK
    <3>2. OnewayOK(t)'
      BY <1>2, <1>3, <1>4, <1>7
    <3> QED BY <1>5, <2>2, <3>1, <3>2 DEF SyncOK, ParentOK
  <2> QED BY <2>1, <2>2
<1>10. ASSUME NEW x \in Thread PROVE StackOK(x)'
  <2>1. ASSUME NEW u \in Tr PROVE u \in Frames(x)' <=> u \in Frames(x)
    BY <1>1, <1>3, <1>5, <1>6 DEF Frames
  <2>2. Frames(x) \in SUBSET Tr /\ Frames(x)' \in SUBSET Tr /\ t \notin Frames(x)
    BY <1>1 DEF Frames
  <2>3. Frames(x)' = Frames(x)
    BY <2>1, <2>2
  <2> QED BY <1>5, <2>2, <2>3, StackKept
<1>11. ASSUME NEW u \in Tr PROVE NestedOK(u)'
  <2>1. ASSUME NEW x \in Thread, Sync(u), Holds(<<"thread", x>>, u)', x # freeing'
        PROVE  /\ Holds(<<"thread", x>>, u) /\ x # freeing
               /\ thread'[x].stack = thread[x].stack
               /\ tx'[thread[x].stack].from = tx[thread[x].stack].from
    <3>1. Holds(<<"thread", x>>, u) /\ x # freeing
      BY <1>1, <1>6, <2>1, Places DEF Rehomed
    <3>2. thread[x].stack \in Tr /\ ~Leaf(FP, thread[x].stack)
      BY <2>1, <3>1, NestedHasChild
    <3> QED BY <1>1, <1>3, <3>1, <3>2
  <2> QED BY <1>5, <2>1, NestedKept
<1>12. \A pl \in Place : Once(ListAt(pl))'
  BY DEF Rehomed
<1> QED BY <1>8, <1>9, <1>10, <1>11, <1>12 DEF Structure, CallsOK

-----------------------------------------------------------------------------
(* The actions keep the invariant. *)

LEMMA FromParts ==
  ASSUME TypeOK', Structure', \A th \in Thread : ThreadOK(th)', FailOK',
         \A p \in Proc : AsyncOK(p)'
  PROVE  IInv'
BY DEF IInv, Structure

LEMMA NothingFails ==
  ASSUME failing'.t = NoTr, freeing' = NoThread
  PROVE  FailOK'
BY DEF FailOK

\* Steps that touch no call.
LEMMA Bookkept ==
  ASSUME IInv, TypeOK', UNCHANGED <<calls, tx, buffer, failing>>, Rehomed(NoTr, {}),
         freeing' = freeing \/ (freeing' = NoThread /\ thread[freeing].todo = <<>>),
         freeing' # NoThread => thread'[freeing'].known,
         failing.t = NoTr \/ \A th \in Thread : thread[th].known => thread'[th].known,
         releasing' = releasing \/ releasing = NoProc,
         \A th \in Thread : thread'[th].stack = thread[th].stack,
         \A th \in Thread : ThreadOK(th)',
         \A p \in Proc : /\ proc'[p].has_async <=> proc[p].has_async
                         /\ proc'[p].async_todo = proc[p].async_todo
  PROVE  IInv'
<1>1. Structure'
  <2>1. failing'.t = failing.t /\ failing.t \in Tr \cup {NoTr}
    BY Fields DEF IInv
  <2>2. \A th \in Thread : th = freeing /\ th # freeing' => thread[th].todo = <<>>
    OBVIOUS
  <2>3. NoTr \in {NoTr, failing'.t} /\ UNCHANGED <<calls, tx, buffer>>
    OBVIOUS
  <2> QED BY <2>1, <2>2, <2>3, Unmoved
<1>2. FailOK'
  <2>1. FailOK /\ FP' = FP
    BY DEF IInv, FP
  <2>2. freeing' # NoThread => thread'[freeing'].known /\ thread'[freeing'].stack = NoTr
    <3>1. freeing' # NoThread => freeing' = freeing /\ freeing \in Thread
      BY Fields DEF IInv
    <3> QED BY <2>1, <3>1 DEF FailOK
  <2>3. failing.t # NoTr =>
          /\ Sync(failing.t)' /\ Leaf(FP, failing.t)'
          /\ failing'.code \in {"DEAD_REPLY", "FAILED_REPLY"}
    BY <2>1 DEF FailOK, Sync, Leaf
  <2>4. ASSUME failing.t # NoTr, tx[failing.t].to_thread # NoThread
        PROVE  /\ thread'[tx[failing.t].to_thread].known
               /\ ~Unread(failing.t)
                    => tx[failing.t].to_parent = thread'[tx[failing.t].to_thread].stack
    <3>1. tx[failing.t].to_thread \in Thread
      BY <2>4, Fields DEF IInv
    <3> QED BY <2>1, <2>4, <3>1 DEF FailOK
  <2> QED BY <2>2, <2>3, <2>4 DEF FailOK, Unread
<1>3. ASSUME NEW p \in Proc PROVE AsyncOK(p)'
  <2>1. releasing' # p => releasing # p
    BY ThreadAssumption
  <2>2. OnlyCalls(proc'[p].async_todo)
    BY DEF IInv, AsyncOK
  <2>3. \A t \in Tr : Waiting(t)' <=> Waiting(t)
    BY DEF Waiting
  <2> QED BY <2>1, <2>2, <2>3, AsyncKept
<1> QED BY <1>1, <1>2, <1>3, FromParts

LEMMA RaiseErrorKeeps ==
  ASSUME IInv, TypeOK', NEW th \in Thread, NEW e, CanWrite(th), RaiseError(th, e)
  PROVE  IInv'
<1> DEFINE r == thread[th]
           q == thread'[th]
<1>1. /\ q = [r EXCEPT !.known = TRUE, !.error = e] /\ r \in BinderThread
      /\ \A x \in Thread \ {th} : thread'[x] = thread[x]
  BY Fields DEF RaiseError, IInv, TypeOK
<1>2. r.error = "OK" /\ r.wait = "running" /\ r.error2 = "OK"
  BY UsedIsKnown DEF CanWrite, InIoctl
<1> HIDE DEF r, q
<1>3. /\ q.known /\ q.stack = r.stack /\ q.todo = r.todo /\ q.wait = "running"
      /\ q.error2 = "OK"
  BY <1>1, <1>2 DEF BinderThread
<1>4. /\ q = thread'[th] /\ r = thread[th]
      /\ UNCHANGED <<calls, tx, buffer, failing, freeing, releasing, proc>>
  BY DEF q, r, RaiseError, lockVars
<1>5. \A x \in Thread : /\ thread'[x].stack = thread[x].stack
                        /\ thread'[x].todo = thread[x].todo
                        /\ thread[x].known => thread'[x].known
  BY <1>1, <1>3, <1>4
<1>6. ASSUME NEW x \in Thread PROVE ThreadOK(x)'
  <2>1. CASE x = th
    BY <1>3, <1>4, <2>1 DEF ThreadOK
  <2>2. CASE x # th
    BY <1>1, <1>4, <2>2, ThreadKept
  <2> QED BY <2>1, <2>2
<1>7. Rehomed(NoTr, {})
  BY <1>4, <1>5, ListsSame
<1>8. freeing' # NoThread => thread'[freeing'].known
  BY <1>4, <1>5, Fields DEF IInv, FailOK
<1> QED BY <1>4, <1>5, <1>6, <1>7, <1>8, Bookkept

LEMMA ReadErrorsKeeps ==
  ASSUME IInv, TypeOK', NEW th \in Thread, ReadErrors(th) \/ ReadRetry(th)
  PROVE  IInv'
<1> DEFINE r == thread[th]
           q == thread'[th]
<1>1. /\ \/ q = [r EXCEPT !.error = "OK", !.error2 = "OK"] /\ r.wait = "running"
         \/ q = [r EXCEPT !.wait = "running", !.error = "OK", !.error2 = "OK"]
      /\ r \in BinderThread /\ r.error # "OK"
      /\ \A x \in Thread \ {th} : thread'[x] = thread[x]
  BY Fields DEF ReadErrors, ReadRetry, IInv, TypeOK, InIoctl
<1>2. r.known
  <2>1. ThreadOK(th)
    BY DEF IInv
  <2> QED BY <1>1, <2>1 DEF ThreadOK, NewThread
<1> HIDE DEF r, q
<1>3. /\ q.known /\ q.stack = r.stack /\ q.todo = r.todo /\ q.wait = "running"
      /\ q.error2 = "OK"
  BY <1>1, <1>2 DEF BinderThread
<1>4. /\ q = thread'[th] /\ r = thread[th]
      /\ UNCHANGED <<calls, tx, buffer, failing, freeing, releasing, proc>>
  BY DEF q, r, ReadErrors, ReadRetry, lockVars
<1>5. \A x \in Thread : /\ thread'[x].stack = thread[x].stack
                        /\ thread'[x].todo = thread[x].todo
                        /\ thread[x].known => thread'[x].known
  BY <1>1, <1>3, <1>4
<1>6. ASSUME NEW x \in Thread PROVE ThreadOK(x)'
  <2>1. CASE x = th
    BY <1>3, <1>4, <2>1 DEF ThreadOK
  <2>2. CASE x # th
    BY <1>1, <1>4, <2>2, ThreadKept
  <2> QED BY <2>1, <2>2
<1>7. Rehomed(NoTr, {})
  BY <1>4, <1>5, ListsSame
<1>8. freeing' # NoThread => thread'[freeing'].known
  BY <1>4, <1>5, Fields DEF IInv, FailOK
<1> QED BY <1>4, <1>5, <1>6, <1>7, <1>8, Bookkept

LEMMA SleepKeeps ==
  ASSUME IInv, TypeOK', NEW th \in Thread, Sleep(th)
  PROVE  IInv'
<1> DEFINE r == thread[th]
           q == thread'[th]
<1>1. /\ q = [r EXCEPT !.known = TRUE, !.wait = IF r.stack = NoTr THEN "proc" ELSE "thread"]
      /\ r \in BinderThread /\ r.error = "OK" /\ r.todo = <<>>
      /\ \A x \in Thread \ {th} : thread'[x] = thread[x]
  BY Fields DEF Sleep, WaitFor, IInv, TypeOK
<1>2. r.error2 = "OK"
  BY <1>1, UsedIsKnown
<1> HIDE DEF r, q
<1>3. /\ q.known /\ q.stack = r.stack /\ q.todo = r.todo /\ q.error2 = "OK" /\ q.error = "OK"
      /\ q.wait = "proc" => r.stack = NoTr
  BY <1>1, <1>2 DEF BinderThread
<1>4. /\ q = thread'[th] /\ r = thread[th]
      /\ UNCHANGED <<calls, tx, buffer, failing, freeing, releasing, proc>>
  BY DEF q, r, Sleep, lockVars
<1>5. \A x \in Thread : /\ thread'[x].stack = thread[x].stack
                        /\ thread'[x].todo = thread[x].todo
                        /\ thread[x].known => thread'[x].known
  BY <1>1, <1>3, <1>4
<1>6. ASSUME NEW x \in Thread PROVE ThreadOK(x)'
  <2>1. CASE x = th
    BY <1>1, <1>3, <1>4, <2>1 DEF ThreadOK
  <2>2. CASE x # th
    BY <1>1, <1>4, <2>2, ThreadKept
  <2> QED BY <2>1, <2>2
<1>7. Rehomed(NoTr, {})
  BY <1>4, <1>5, ListsSame
<1>8. freeing' # NoThread => thread'[freeing'].known
  BY <1>4, <1>5, Fields DEF IInv, FailOK
<1> QED BY <1>4, <1>5, <1>6, <1>7, <1>8, Bookkept

LEMMA CloseKeeps ==
  ASSUME IInv, TypeOK', NEW p \in Proc, Close(p)
  PROVE  IInv'
<1>1. /\ UNCHANGED <<calls, tx, buffer, failing, freeing, releasing>>
      /\ failing.t = NoTr /\ freeing = NoThread
  BY DEF Close, Unlocked, lockVars
<1>2. \A x \in Proc : /\ proc'[x].has_async <=> proc[x].has_async
                      /\ proc'[x].todo = proc[x].todo
                      /\ proc'[x].async_todo = proc[x].async_todo
  <2> DEFINE r == proc[p]
             q == proc'[p]
  <2>1. /\ q = [r EXCEPT !.state = "closed"] /\ r \in BinderProc
        /\ \A x \in Proc \ {p} : proc'[x] = proc[x]
    BY Fields DEF Close, IInv, TypeOK
  <2> HIDE DEF r, q
  <2>2. /\ q.has_async <=> r.has_async
        /\ q.todo = r.todo /\ q.async_todo = r.async_todo
    BY <2>1 DEF BinderProc
  <2>3. q = proc'[p] /\ r = proc[p]
    BY DEF q, r
  <2> QED BY <2>1, <2>2, <2>3
<1>3. ASSUME NEW x \in Thread
      PROVE  /\ thread'[x].stack = thread[x].stack /\ thread'[x].todo = thread[x].todo
             /\ ThreadOK(x)'
  <2>1. CASE thread'[x] = thread[x]
    BY <1>1, <2>1, ThreadKept
  <2>2. CASE thread'[x] = [thread[x] EXCEPT !.wait = "running"]
    <3> DEFINE r == thread[x]
               q == thread'[x]
    <3>1. q = [r EXCEPT !.wait = "running"] /\ r \in BinderThread
      BY <2>2, Fields DEF IInv
    <3>2. NewThread.wait = "running"
      BY DEF NewThread
    <3>3. ThreadOK(x)
      BY DEF IInv
    <3>4. ~r.known => r = NewThread
      BY <3>3 DEF ThreadOK
    <3>5. r.error2 # "OK" => r.error # "OK" /\ (r.stack # NoTr => tx[r.stack].from # x)
      BY <3>3 DEF ThreadOK
    <3> HIDE DEF r, q
    <3>6. /\ q.known <=> r.known
          /\ q.stack = r.stack /\ q.todo = r.todo /\ q.wait = "running"
          /\ q.error = r.error /\ q.error2 = r.error2
      BY <3>1 DEF BinderThread
    <3>7. q = thread'[x] /\ r = thread[x]
      BY DEF q, r
    <3>8. r.wait = "running" => q = r
      BY <3>1 DEF BinderThread
    <3>9. r = NewThread => q = NewThread
      BY <3>2, <3>8
    <3> QED BY <1>1, <3>4, <3>5, <3>6, <3>7, <3>9 DEF ThreadOK
  <2> QED BY <2>1, <2>2 DEF Close
<1>4. Rehomed(NoTr, {})
  BY <1>2, <1>3, ListsSame
<1> QED BY <1>1, <1>2, <1>3, <1>4, Bookkept

LEMMA DeferredReleaseKeeps ==
  ASSUME IInv, TypeOK', NEW p \in Proc, DeferredRelease(p)
  PROVE  IInv'
<1>1. /\ UNCHANGED <<calls, tx, buffer, failing, freeing, thread, proc>>
      /\ failing.t = NoTr /\ freeing = NoThread /\ releasing = NoProc
  BY DEF DeferredRelease, Unlocked
<1>2. \A x \in Thread : ThreadOK(x)'
  BY <1>1, ThreadKept
<1>3. Rehomed(NoTr, {})
  BY <1>1, ListsSame
<1> QED BY <1>1, <1>2, <1>3, Bookkept

LEMMA ThreadFreedKeeps ==
  ASSUME IInv, TypeOK', ThreadFreed
  PROVE  IInv'
<1>1. /\ UNCHANGED <<calls, tx, buffer, failing, releasing, proc>>
      /\ failing.t = NoTr /\ freeing \in Thread /\ thread[freeing].todo = <<>>
      /\ freeing' = NoThread /\ thread[freeing].stack = NoTr
      /\ thread'[freeing] = NewThread
      /\ \A x \in Thread \ {freeing} : thread'[x] = thread[x]
  BY Fields DEF ThreadFreed, IInv, TypeOK, FailOK
<1>2. NewThread.todo = <<>> /\ NewThread.stack = NoTr /\ NewThread.wait = "running"
      /\ NewThread.error2 = "OK"
  BY DEF NewThread
<1>3. \A x \in Thread : /\ thread'[x].stack = thread[x].stack
                        /\ thread'[x].todo = thread[x].todo
  BY <1>1, <1>2
<1>4. ASSUME NEW x \in Thread PROVE ThreadOK(x)'
  <2>1. CASE x = freeing
    BY <1>1, <1>2, <2>1 DEF ThreadOK
  <2>2. CASE x # freeing
    BY <1>1, <2>2, ThreadKept
  <2> QED BY <2>1, <2>2
<1>5. Rehomed(NoTr, {})
  BY <1>1, <1>3, ListsSame
<1> QED BY <1>1, <1>3, <1>4, <1>5, Bookkept

-----------------------------------------------------------------------------
(* Work that leaves a list. *)

LEMMA ThreadWorkTaken ==
  ASSUME IInv, NEW th \in Thread, thread[th].todo # <<>>,
         thread'[th].todo = Tail(thread[th].todo),
         \A x \in Thread \ {th} : thread'[x].todo = thread[x].todo,
         \A p \in Proc : /\ proc'[p].todo = proc[p].todo
                         /\ proc'[p].async_todo = proc[p].async_todo
  PROVE  LET w == Head(thread[th].todo)
         IN  /\ w \in Work
             /\ w.type # "call" => Rehomed(NoTr, {})
             /\ w.type = "call" => /\ w.t \in Tr /\ Holds(<<"thread", th>>, w.t)
                                   /\ Held(w.t) /\ Rehomed(w.t, {})
<1> DEFINE p0 == <<"thread", th>>
           w == Head(thread[th].todo)
<1>1. p0 \in Place /\ ListAt(p0) = thread[th].todo /\ ListAt(p0)' = thread'[th].todo
  BY Places, ListOf, ListOfNext
<1>2. ASSUME NEW pl \in Place \ {p0} PROVE ListAt(pl)' = ListAt(pl)
  BY Places, ListOf, ListOfNext
<1>3. ListAt(p0) # <<>> /\ ListAt(p0)' = Tail(ListAt(p0)) /\ w = Head(ListAt(p0))
  BY <1>1
<1> HIDE DEF p0, w
<1>4. /\ w \in Work
      /\ w.type # "call" => Rehomed(NoTr, {})
      /\ \A n \in Tr : w = CallWork(n) => Holds(p0, n) /\ Rehomed(n, {})
  BY <1>1, <1>2, <1>3, WorkTaken
<1>5. w.type = "call" => w.t \in Tr /\ w = CallWork(w.t)
  BY <1>4, CallWorks
<1>6. w.type = "call" => w.t \in Tr /\ Holds(p0, w.t) /\ Rehomed(w.t, {})
  BY <1>4, <1>5
<1>7. w.type = "call" => Held(w.t)
  BY <1>1, <1>6 DEF Held
<1> QED BY <1>4, <1>6, <1>7 DEF p0, w

LEMMA ProcWorkTaken ==
  ASSUME IInv, NEW p \in Proc, proc[p].todo # <<>>,
         proc'[p].todo = Tail(proc[p].todo), proc'[p].async_todo = proc[p].async_todo,
         \A x \in Proc \ {p} : /\ proc'[x].todo = proc[x].todo
                               /\ proc'[x].async_todo = proc[x].async_todo,
         \A th \in Thread : thread'[th].todo = thread[th].todo
  PROVE  LET w == Head(proc[p].todo)
         IN  /\ w \in Work
             /\ w.type # "call" => Rehomed(NoTr, {})
             /\ w.type = "call" => /\ w.t \in Tr /\ Holds(<<"proc", p>>, w.t)
                                   /\ Held(w.t) /\ Rehomed(w.t, {})
<1> DEFINE p0 == <<"proc", p>>
           w == Head(proc[p].todo)
<1>1. p0 \in Place /\ ListAt(p0) = proc[p].todo /\ ListAt(p0)' = proc'[p].todo
  BY Places, ListOf, ListOfNext
<1>2. ASSUME NEW pl \in Place \ {p0} PROVE ListAt(pl)' = ListAt(pl)
  BY Places, ListOf, ListOfNext
<1>3. ListAt(p0) # <<>> /\ ListAt(p0)' = Tail(ListAt(p0)) /\ w = Head(ListAt(p0))
  BY <1>1
<1> HIDE DEF p0, w
<1>4. /\ w \in Work
      /\ w.type # "call" => Rehomed(NoTr, {})
      /\ \A n \in Tr : w = CallWork(n) => Holds(p0, n) /\ Rehomed(n, {})
  BY <1>1, <1>2, <1>3, WorkTaken
<1>5. w.type = "call" => w.t \in Tr /\ w = CallWork(w.t)
  BY <1>4, CallWorks
<1>6. w.type = "call" => w.t \in Tr /\ Holds(p0, w.t) /\ Rehomed(w.t, {})
  BY <1>4, <1>5
<1>7. w.type = "call" => Held(w.t)
  BY <1>1, <1>6 DEF Held
<1> QED BY <1>4, <1>6, <1>7 DEF p0, w

LEMMA AsyncWorkTaken ==
  ASSUME IInv, NEW p \in Proc, proc[p].async_todo # <<>>,
         proc'[p].async_todo = Tail(proc[p].async_todo), proc'[p].todo = proc[p].todo,
         \A x \in Proc \ {p} : /\ proc'[x].todo = proc[x].todo
                               /\ proc'[x].async_todo = proc[x].async_todo,
         \A th \in Thread : thread'[th].todo = thread[th].todo
  PROVE  LET w == Head(proc[p].async_todo)
         IN  /\ w \in Work
             /\ w.type # "call" => Rehomed(NoTr, {})
             /\ w.type = "call" => /\ w.t \in Tr /\ Holds(<<"async", p>>, w.t)
                                   /\ Held(w.t) /\ Rehomed(w.t, {})
<1> DEFINE p0 == <<"async", p>>
           w == Head(proc[p].async_todo)
<1>1. p0 \in Place /\ ListAt(p0) = proc[p].async_todo /\ ListAt(p0)' = proc'[p].async_todo
  BY Places, ListOf, ListOfNext
<1>2. ASSUME NEW pl \in Place \ {p0} PROVE ListAt(pl)' = ListAt(pl)
  BY Places, ListOf, ListOfNext
<1>3. ListAt(p0) # <<>> /\ ListAt(p0)' = Tail(ListAt(p0)) /\ w = Head(ListAt(p0))
  BY <1>1
<1> HIDE DEF p0, w
<1>4. /\ w \in Work
      /\ w.type # "call" => Rehomed(NoTr, {})
      /\ \A n \in Tr : w = CallWork(n) => Holds(p0, n) /\ Rehomed(n, {})
  BY <1>1, <1>2, <1>3, WorkTaken
<1>5. w.type = "call" => w.t \in Tr /\ w = CallWork(w.t)
  BY <1>4, CallWorks
<1>6. w.type = "call" => w.t \in Tr /\ Holds(p0, w.t) /\ Rehomed(w.t, {})
  BY <1>4, <1>5
<1>7. w.type = "call" => Held(w.t)
  BY <1>1, <1>6 DEF Held
<1> QED BY <1>4, <1>6, <1>7 DEF p0, w

\* A tail has the elements of its list.
LEMMA OnlyCallsTail ==
  ASSUME NEW s \in Seq(Work), s # <<>>, OnlyCalls(s)
  PROVE  OnlyCalls(Tail(s)) /\ Head(s).type = "call"
<1> DEFINE a == Tail(s)
<1>1. /\ DOMAIN s = 1..Len(s) /\ Len(s) \in Nat \ {0}
      /\ DOMAIN a = 1..(Len(s) - 1)
      /\ \A i \in DOMAIN a : a[i] = s[i + 1]
      /\ Head(s) = s[1]
  OBVIOUS
<1> HIDE DEF a
<1>2. \A i \in DOMAIN a : i + 1 \in DOMAIN s
  BY <1>1
<1>3. 1 \in DOMAIN s
  BY <1>1
<1>4. OnlyCalls(a) /\ Head(s).type = "call"
  BY <1>1, <1>2, <1>3 DEF OnlyCalls
<1> QED BY <1>4 DEF a

\* A step that neither frees a buffer nor touches has_async_transaction.
LEMMA DeliveredAsync ==
  ASSUME IInv, UNCHANGED releasing, NEW t \in Tr, buffer[t].state # "free",
         \A u \in Tr \ {t} : buffer'[u] = buffer[u],
         buffer'[t].async <=> buffer[t].async,
         buffer'[t].state # "free", buffer'[t].node = buffer[t].node,
         \A p \in Proc : /\ proc'[p].has_async <=> proc[p].has_async
                         /\ proc'[p].async_todo = proc[p].async_todo
  PROVE  \A p \in Proc : AsyncOK(p)'
<1>1. \A u \in Tr : /\ buffer'[u].async <=> buffer[u].async
                    /\ buffer'[u].state = "free" <=> buffer[u].state = "free"
                    /\ buffer'[u].node = buffer[u].node
  OBVIOUS
<1> QED BY <1>1, AsyncSame

\* binder_thread_read hands out one work.
LEMMA DeliverKeeps ==
  ASSUME IInv, TypeOK', Unlocked, UNCHANGED <<calls, failing, freeing, releasing>>,
         NEW th \in Thread, thread[th].known,
         NEW w \in Work, NEW rest, Deliver(th, w, rest),
         w.type # "call" => Rehomed(NoTr, {}),
         w.type = "call" => /\ w.t \in Tr /\ Held(w.t) /\ Rehomed(w.t, {})
                            /\ \/ Holds(<<"thread", th>>, w.t)
                               \/ Holds(<<"proc", ProcOf[th]>>, w.t)
                                    /\ thread[th].todo = <<>> /\ thread[th].stack = NoTr,
         \A p \in Proc : /\ proc'[p].has_async <=> proc[p].has_async
                         /\ proc'[p].async_todo = proc[p].async_todo
  PROVE  IInv'
<1> DEFINE r == thread[th]
           q == thread'[th]
           t == w.t
           sync == w.type = "call" /\ ~tx[t].oneway
           oneway == w.type = "call" /\ tx[t].oneway
<1>1. failing.t = NoTr /\ freeing = NoThread /\ failing'.t = NoTr /\ freeing' = NoThread
  BY DEF Unlocked
<1>2. r \in BinderThread /\ ThreadOK(th)
  BY Fields DEF IInv
<1>3. \A x \in Thread \ {th} : thread'[x] = thread[x]
  BY DEF Deliver, IInv, TypeOK
<1>4. /\ sync => q = [r EXCEPT !.todo = rest, !.wait = "running", !.stack = t]
      /\ ~sync => q = [r EXCEPT !.todo = rest, !.wait = "running"]
  BY DEF Deliver, IInv, TypeOK, Work
<1>5. /\ q = thread'[th] /\ r = thread[th] /\ r.known
      /\ ~sync => UNCHANGED <<tx, buffer>> \/ oneway
      /\ w.type # "call" => UNCHANGED <<tx, buffer>>
  BY DEF Deliver
<1> HIDE DEF r, q
<1>6. /\ q.known /\ q.wait = "running" /\ q.error = r.error /\ q.error2 = r.error2
      /\ q.stack = IF sync THEN t ELSE r.stack
  <2>1. CASE sync
    <3> HIDE DEF sync
    <3> QED BY <1>2, <1>4, <1>5, <2>1 DEF BinderThread
  <2>2. CASE ~sync
    <3> HIDE DEF sync
    <3> QED BY <1>2, <1>4, <1>5, <2>2 DEF BinderThread
  <2> QED BY <2>1, <2>2
<1>7. FailOK'
  BY <1>1, NothingFails
<1>8. r.error2 # "OK" => r.error # "OK" /\ (r.stack # NoTr => tx[r.stack].from # th)
  BY <1>2, <1>5 DEF ThreadOK
<1>9. CASE w.type # "call"
  <2>1. UNCHANGED <<tx, buffer>> /\ ~sync
    BY <1>5, <1>9
  <2>2. ASSUME NEW x \in Thread PROVE ThreadOK(x)'
    <3>1. CASE x = th
      BY <1>5, <1>6, <1>8, <2>1, <3>1 DEF ThreadOK
    <3>2. CASE x # th
      BY <1>3, <2>1, <3>2, ThreadKept
    <3> QED BY <3>1, <3>2
  <2>3. \A x \in Thread : thread'[x].stack = thread[x].stack
    BY <1>3, <1>5, <1>6, <2>1
  <2> QED BY <1>1, <1>9, <2>1, <2>2, <2>3, Bookkept
<1>10. ASSUME w.type = "call" PROVE t \in Tr /\ Held(t) /\ Rehomed(t, {}) /\ tx[t].live /\ Unread(t)
  <2>1. t \in Tr /\ Held(t) /\ Rehomed(t, {})
    BY <1>10
  <2> QED BY <2>1 DEF Held, QueueOK, IInv
<1>11. CASE sync
  <2>1. t \in Tr /\ Rehomed(t, {}) /\ Sync(t) /\ Unread(t)
    BY <1>10, <1>11 DEF Sync
  <2>2. /\ tx' = [tx EXCEPT ![t] = [@ EXCEPT !.to_parent = thread[th].stack, !.to_thread = th]]
        /\ buffer' = [buffer EXCEPT ![t] = [@ EXCEPT !.state = "user", !.holder = th]]
    BY <1>11 DEF Deliver, Work
  <2>3. \/ Holds(<<"thread", th>>, t)
        \/ Holds(<<"proc", ProcOf[th]>>, t) /\ thread[th].todo = <<>> /\ thread[th].stack = NoTr
    BY <1>11
  <2>4. thread'[th].stack = t /\ \A x \in Thread \ {th} : thread'[x].stack = thread[x].stack
    BY <1>3, <1>5, <1>6, <1>11
  <2> HIDE DEF t
  <2>5. Structure' /\ tx'[t].from # th
    BY <1>1, <2>1, <2>2, <2>3, <2>4, CallRead
  <2>6. tx[t].from \in Thread \cup {NoThread} /\ \A x \in Tr : tx'[x].from = tx[x].from
    <3>1. tx[t] \in Transaction
      BY <2>1, Fields DEF IInv
    <3>2. \A x \in Tr \ {t} : tx'[x] = tx[x]
      BY <2>1, <2>2 DEF IInv, TypeOK
    <3>3. tx'[t] = [tx[t] EXCEPT !.to_parent = thread[th].stack, !.to_thread = th]
      BY <2>1, <2>2 DEF IInv, TypeOK
    <3>4. tx'[t].from = tx[t].from
      BY <3>1, <3>3 DEF Transaction
    <3> QED BY <2>1, <3>1, <3>2, <3>4 DEF Transaction
  <2>7. ASSUME NEW x \in Thread PROVE ThreadOK(x)'
    <3>1. CASE x = th
      BY <1>5, <1>6, <1>8, <2>4, <2>5, <3>1 DEF ThreadOK
    <3>2. CASE x # th
      <4>1. thread[x].stack # NoTr => tx'[thread[x].stack].from = tx[thread[x].stack].from
        BY <2>6, Fields DEF IInv
      <4> QED BY <1>3, <3>2, <4>1, ThreadKept
    <3> QED BY <3>1, <3>2
  <2>8. \A p \in Proc : AsyncOK(p)'
    <3>1. buffer[t] \in Buffer /\ buffer[t].state # "free"
      BY <2>1, Fields DEF IInv, Unread
    <3>2. \A u \in Tr \ {t} : buffer'[u] = buffer[u]
      BY <2>1, <2>2 DEF IInv, TypeOK
    <3> DEFINE b == buffer[t]
               d == buffer'[t]
    <3>3. d = [b EXCEPT !.state = "user", !.holder = th] /\ b \in Buffer
      BY <2>1, <2>2, <3>1 DEF IInv, TypeOK
    <3> HIDE DEF b, d
    <3>4. (d.async <=> b.async) /\ d.state # "free" /\ d.node = b.node
      BY <3>3 DEF Buffer
    <3>5. b = buffer[t] /\ d = buffer'[t]
      BY DEF b, d
    <3> QED BY <2>1, <3>1, <3>2, <3>4, <3>5, DeliveredAsync
  <2> QED BY <1>7, <2>5, <2>7, <2>8, FromParts
<1>12. CASE oneway
  <2>1. t \in Tr /\ Rehomed(t, {}) /\ ~Sync(t) /\ Unread(t) /\ tx[t].live /\ ~sync
    BY <1>10, <1>12 DEF Sync
  <2>2. /\ tx' = Popped(t)
        /\ buffer' = [buffer EXCEPT ![t] =
                        [@ EXCEPT !.state = "user", !.holder = th, !.transaction = FALSE]]
    BY <1>12 DEF Deliver, Popped, Work
  <2>3. \A x \in Thread : thread'[x].stack = thread[x].stack
    BY <1>3, <1>5, <1>6, <2>1
  <2> HIDE DEF t, sync, oneway
  <2>4. /\ tx[t].from = NoThread /\ tx[t].from_parent = NoTr
        /\ \A x : t \notin Frames(x)
    BY <2>1, NotSync DEF Frames
  <2>5. buffer[t] \in Buffer /\ buffer[t].state # "free"
    BY <2>1, Fields DEF IInv, Unread
  <2>6. \A u \in Tr \ {t} : buffer'[u] = buffer[u]
    BY <2>1, <2>2 DEF IInv, TypeOK
  <2> DEFINE b == buffer[t]
             d == buffer'[t]
  <2>7. d = [b EXCEPT !.state = "user", !.holder = th, !.transaction = FALSE] /\ b \in Buffer
    BY <2>1, <2>2, <2>5 DEF IInv, TypeOK
  <2> HIDE DEF b, d
  <2>8. (d.async <=> b.async) /\ d.state # "free" /\ d.node = b.node /\ d.transaction = FALSE
    BY <2>7 DEF Buffer
  <2>9. b = buffer[t] /\ d = buffer'[t]
    BY DEF b, d
  <2>10. \A p \in Proc : AsyncOK(p)'
    BY <2>1, <2>5, <2>6, <2>8, <2>9, DeliveredAsync
  <2>11. Structure' /\ \A u \in Tr \ {t} : tx'[u] = tx[u]
    <3>1. buffer'[t].transaction = FALSE /\ t \in {NoTr, t} /\ failing.t \in {NoTr, t}
          /\ (Sync(t) => Leaf(FP, t))
      BY <1>1, <2>1, <2>8, <2>9
    <3>2. failing'.t = IF tx[t].from = NoThread THEN tx[t].from_parent ELSE NoTr
      BY <1>1, <2>4
    <3>3. \A x \in Thread : thread'[x].stack = IF t \in Frames(x) THEN LinkOf(x, t)
                                               ELSE thread[x].stack
      BY <2>3, <2>4
    <3> QED BY <1>1, <2>1, <2>2, <2>6, <3>1, <3>2, <3>3, CallPopped
  <2>12. tx'[t].from = NoThread
    BY <2>1, <2>2 DEF Popped, IInv, TypeOK, FreedTransaction
  <2>13. \A u \in Tr : tx'[u].from = tx[u].from
    BY <2>4, <2>11, <2>12
  <2>14. ASSUME NEW x \in Thread PROVE ThreadOK(x)'
    <3>0. thread[x].stack # NoTr => tx'[thread[x].stack].from = tx[thread[x].stack].from
      BY <2>13, Fields DEF IInv
    <3>1. CASE x = th
      BY <1>5, <1>6, <1>8, <2>1, <3>0, <3>1 DEF ThreadOK
    <3>2. CASE x # th
      BY <1>3, <3>0, <3>2, ThreadKept
    <3> QED BY <3>1, <3>2
  <2> QED BY <1>7, <2>10, <2>11, <2>14, FromParts
<1> QED BY <1>9, <1>11, <1>12

LEMMA ReadThreadWorkKeeps ==
  ASSUME IInv, TypeOK', NEW th \in Thread, ReadThreadWork(th)
  PROVE  IInv'
<1> DEFINE w == Head(thread[th].todo)
<1>1. /\ Unlocked /\ UNCHANGED <<calls, proc, failing, freeing, releasing>>
      /\ thread[th].todo # <<>>
      /\ Deliver(th, w, Tail(thread[th].todo))
  BY DEF ReadThreadWork, InIoctl, lockVars
<1>2. \A x \in Thread \ {th} : thread'[x] = thread[x]
  BY <1>1 DEF Deliver, IInv, TypeOK
<1>3. thread'[th].todo = Tail(thread[th].todo)
  <2> DEFINE r == thread[th]
             q == thread'[th]
             rest == Tail(thread[th].todo)
  <2>1. /\ \/ q = [r EXCEPT !.todo = rest, !.wait = "running"]
           \/ q = [r EXCEPT !.todo = rest, !.wait = "running", !.stack = w.t]
        /\ r \in BinderThread
    BY <1>1, Fields DEF Deliver, IInv, TypeOK
  <2> HIDE DEF r, q, rest
  <2>2. q.todo = rest
    BY <2>1 DEF BinderThread
  <2> QED BY <2>2, Zenon DEF q, rest
<1>4. /\ w \in Work
      /\ w.type # "call" => Rehomed(NoTr, {})
      /\ w.type = "call" => /\ w.t \in Tr /\ Holds(<<"thread", th>>, w.t)
                            /\ Held(w.t) /\ Rehomed(w.t, {})
  BY <1>1, <1>2, <1>3, ThreadWorkTaken
<1>5. thread[th].known
  BY <1>1, UsedIsKnown
<1> HIDE DEF w
<1>6. \A p \in Proc : /\ proc'[p].has_async <=> proc[p].has_async
                      /\ proc'[p].async_todo = proc[p].async_todo
  BY <1>1
<1> QED BY <1>1, <1>4, <1>5, <1>6, DeliverKeeps

LEMMA ReadProcWorkKeeps ==
  ASSUME IInv, TypeOK', NEW th \in Thread, ReadProcWork(th)
  PROVE  IInv'
<1> DEFINE p == ProcOf[th]
           w == Head(proc[p].todo)
<1>0. p \in Proc
  BY ThreadAssumption
<1>1. /\ Unlocked /\ UNCHANGED <<calls, failing, freeing, releasing>>
      /\ thread[th].todo = <<>> /\ thread[th].wait = "proc" /\ proc[p].todo # <<>>
      /\ Deliver(th, w, <<>>)
      /\ proc' = [proc EXCEPT ![p].todo = Tail(@)]
  BY DEF ReadProcWork, lockVars
<1>2. \A x \in Thread \ {th} : thread'[x] = thread[x]
  BY <1>1 DEF Deliver, IInv, TypeOK
<1>3. thread'[th].todo = thread[th].todo
  <2> DEFINE r == thread[th]
             q == thread'[th]
  <2>1. /\ \/ q = [r EXCEPT !.todo = <<>>, !.wait = "running"]
           \/ q = [r EXCEPT !.todo = <<>>, !.wait = "running", !.stack = w.t]
        /\ r \in BinderThread
    BY <1>1, Fields DEF Deliver, IInv, TypeOK
  <2> HIDE DEF r, q
  <2>2. q.todo = <<>>
    BY <2>1 DEF BinderThread
  <2> QED BY <1>1, <2>2 DEF q
<1>4. /\ proc'[p].todo = Tail(proc[p].todo)
      /\ \A x \in Proc : /\ proc'[x].has_async <=> proc[x].has_async
                         /\ proc'[x].async_todo = proc[x].async_todo
      /\ \A x \in Proc \ {p} : proc'[x].todo = proc[x].todo
  <2> DEFINE r == proc[p]
             q == proc'[p]
             rest == Tail(proc[p].todo)
  <2>1. q = [r EXCEPT !.todo = rest] /\ r \in BinderProc
    BY <1>0, <1>1, Fields DEF IInv, TypeOK
  <2>2. \A x \in Proc \ {p} : proc'[x] = proc[x]
    BY <1>0, <1>1 DEF IInv, TypeOK
  <2> HIDE DEF r, q, rest
  <2>3. /\ q.todo = rest /\ q.async_todo = r.async_todo
        /\ q.has_async <=> r.has_async
    BY <2>1 DEF BinderProc
  <2>4. q = proc'[p] /\ r = proc[p] /\ rest = Tail(proc[p].todo)
    BY DEF q, r, rest
  <2> HIDE DEF p
  <2> QED BY <2>2, <2>3, <2>4
<1>5. /\ w \in Work
      /\ w.type # "call" => Rehomed(NoTr, {})
      /\ w.type = "call" => /\ w.t \in Tr /\ Holds(<<"proc", p>>, w.t)
                            /\ Held(w.t) /\ Rehomed(w.t, {})
  <2>1. \A x \in Thread : thread'[x].todo = thread[x].todo
    BY <1>2, <1>3
  <2> HIDE DEF p
  <2> QED BY <1>0, <1>1, <1>4, <2>1, ProcWorkTaken
<1>6. thread[th].known /\ thread[th].stack = NoTr
  BY <1>1, UsedIsKnown
<1>7. w.type = "call" => /\ w.t \in Tr /\ Held(w.t) /\ Rehomed(w.t, {})
                         /\ \/ Holds(<<"thread", th>>, w.t)
                            \/ Holds(<<"proc", ProcOf[th]>>, w.t)
                                 /\ thread[th].todo = <<>> /\ thread[th].stack = NoTr
  BY <1>1, <1>5, <1>6
<1> HIDE DEF w, p
<1> QED BY <1>1, <1>4, <1>5, <1>6, <1>7, DeliverKeeps

LEMMA WaitsNext ==
  ASSUME NEW n, NEW P \in SUBSET Place, Rehomed(n, P), NEW u \in Tr
  PROVE  /\ u # n => (Waiting(u)' <=> Waiting(u))
         /\ u = n => (Waiting(u)' <=> \E p \in Proc : <<"async", p>> \in P)
<1>1. Waiting(u) <=> \E p \in Proc : Holds(<<"async", p>>, u)
  BY ListOf DEF Waiting, Holds
<1>3. Waiting(u)' <=> \E p \in Proc : Holds(<<"async", p>>, u)'
  <2>1. \A p : Holds(<<"async", p>>, u)' <=> InList(u, proc'[p].async_todo)
    BY ListOfNext DEF Holds
  <2> QED BY <2>1 DEF Waiting
<1>2. \A p \in Proc : Holds(<<"async", p>>, u)' <=>
        (IF u = n THEN <<"async", p>> \in P ELSE Holds(<<"async", p>>, u))
  BY Places DEF Rehomed
<1> QED BY <1>1, <1>2, <1>3

LEMMA NoNewAsync ==
  ASSUME IInv, releasing' = releasing, NEW t \in Tr, ~buffer[t].async, ~buffer'[t].async,
         \A u \in Tr \ {t} : buffer'[u] = buffer[u],
         \A p \in Proc : /\ proc'[p].has_async <=> proc[p].has_async
                         /\ proc'[p].async_todo = proc[p].async_todo
  PROVE  \A p \in Proc : AsyncOK(p)'
<1>1. \A u \in Tr : Waiting(u)' <=> Waiting(u)
  BY DEF Waiting
<1> SUFFICES ASSUME NEW p \in Proc PROVE AsyncOK(p)'
  OBVIOUS
<1>2. AsyncOK(p)
  BY DEF IInv
<1>3. InProgress(p)' = InProgress(p)
  <2>1. \A u \in Tr : u \in InProgress(p)' <=> u \in InProgress(p)
    BY <1>1 DEF InProgress
  <2> QED BY <2>1 DEF InProgress
<1>4. /\ OnlyCalls(proc[p].async_todo)'
      /\ proc'[p].async_todo # <<>> => proc'[p].has_async
  BY <1>2 DEF AsyncOK, OnlyCalls
<1>5. \A u \in Tr : buffer'[u].async /\ buffer'[u].state # "free" /\ buffer'[u].node = p
        => proc'[p].has_async
  BY <1>2 DEF AsyncOK
<1>6. releasing' # p => /\ \A s, u \in InProgress(p)' : s = u
                        /\ proc'[p].has_async => InProgress(p)' # {}
  BY <1>2, <1>3 DEF AsyncOK
<1> QED BY <1>4, <1>5, <1>6 DEF AsyncOK

LEMMA MayCallMeans ==
  ASSUME IInv, NEW th \in Thread, NEW p \in Proc, MayCall(th, p)
  PROVE  /\ Unlocked /\ p # ProcOf[th]
         /\ thread[th].error = "OK" /\ thread[th].error2 = "OK" /\ thread[th].wait = "running"
BY CallAssumption, UsedIsKnown DEF MayCall, CanWrite, InIoctl

LEMMA SyncCallKeeps ==
  ASSUME IInv, TypeOK', NEW th \in Thread, NEW p \in Proc, SyncCall(th, p)
  PROVE  IInv'
<1> DEFINE t == calls + 1
           s == thread[th].stack
<1>1. /\ UNCHANGED <<failing, freeing, releasing>> /\ calls' = t /\ calls < MaxCalls
      /\ buffer' = [buffer EXCEPT ![t] =
                      [FreeBuffer EXCEPT !.state = "kernel", !.async = FALSE,
                                         !.transaction = TRUE, !.node = p]]
  BY DEF SyncCall, NewCall, lockVars
<1>2. /\ failing.t = NoTr /\ freeing = NoThread /\ p # ProcOf[th]
      /\ thread[th].error = "OK" /\ thread[th].error2 = "OK" /\ thread[th].wait = "running"
  BY MayCallMeans DEF SyncCall, Unlocked
<1>3. s = NoTr \/ Serving(th)
  BY DEF SyncCall, Awaiting, Serving
<1>4. t \in Tr
  BY <1>1, Fields, CallAssumption DEF IInv, Tr
<1>5. PICK target \in Thread \cup {NoThread} :
        /\ IsTarget(target, s, p)
        /\ tx' = [tx EXCEPT ![t] =
                    [live |-> TRUE, oneway |-> FALSE, buffer |-> TRUE,
                     from |-> th, to_thread |-> target,
                     from_parent |-> s, to_parent |-> NoTr]]
        /\ \/ /\ target = NoThread
              /\ proc' = Enqueue(proc, p, CallWork(t))
              /\ thread' = Called(th, t)
           \/ /\ target # NoThread
              /\ thread' = Enqueue(Called(th, t), target, CallWork(t))
              /\ UNCHANGED proc
  BY DEF SyncCall
<1>6. t = calls + 1 /\ s = thread[th].stack
  OBVIOUS
<1> HIDE DEF t, s
<1>7. target # NoThread =>
        LET top == thread[target].stack
        IN  /\ ProcOf[target] = p /\ target # th /\ s # NoTr
            /\ top \in Tr /\ tx[top].from = target /\ top \in Up(FP, s)
  BY <1>2, <1>3, <1>5, <1>6, TargetWaits
<1>8. /\ tx[t] = FreedTransaction /\ buffer[t] = FreeBuffer
      /\ ~tx[t].live /\ ~Sync(t) /\ ~Held(t) /\ FP[t] = NoTr /\ Leaf(FP, t)
      /\ \A x : t \notin Frames(x)
  BY <1>4, <1>6, NewIsFresh

\* The thread of the caller, and the target.
<1> DEFINE r == thread[th]
           q == thread'[th]
<1>9. /\ r \in BinderThread
      /\ q = [r EXCEPT !.known = TRUE, !.stack = t, !.todo = Append(@, CompleteWork)]
  <2>1. thread \in [Thread -> BinderThread]
    BY DEF IInv, TypeOK
  <2> DEFINE c == [r EXCEPT !.known = TRUE, !.stack = t]
  <2>2. [thread EXCEPT ![th] = [@ EXCEPT !.known = TRUE, !.stack = t]][th] = c
    BY <2>1
  <2>3. Called(th, t)[th] = [c EXCEPT !.todo = Append(@, CompleteWork)]
    BY <2>1 DEF Called, Enqueue
  <2>4. c.todo = r.todo
    BY <2>1 DEF BinderThread
  <2>5. Called(th, t)[th] = [r EXCEPT !.known = TRUE, !.stack = t, !.todo = Append(@, CompleteWork)]
    BY <2>1, <2>3, <2>4 DEF BinderThread
  <2>6. q = Called(th, t)[th]
    BY <2>1, <1>5, <1>7 DEF Called, Enqueue
  <2> QED BY <2>1, <2>5, <2>6
<1>10. /\ \A x \in Thread \ {th, target} : thread'[x] = thread[x]
       /\ target # NoThread
            => thread'[target] = [thread[target] EXCEPT !.todo = Append(@, CallWork(t))]
  <2>1. thread \in [Thread -> BinderThread]
    BY DEF IInv, TypeOK
  <2>2. \A x \in Thread \ {th} : Called(th, t)[x] = thread[x]
    BY <2>1 DEF Called, Enqueue
  <2>3. DOMAIN Called(th, t) = Thread
    BY <2>1 DEF Called, Enqueue
  <2>4. \A x \in Thread \ {target} : thread'[x] = Called(th, t)[x]
    BY <1>5, <2>3 DEF Enqueue
  <2>5. target # NoThread => target \in Thread /\
          thread'[target] = [Called(th, t)[target] EXCEPT !.todo = Append(@, CallWork(t))]
    BY <1>5, <2>3 DEF Enqueue
  <2> QED BY <1>7, <2>2, <2>4, <2>5
<1> HIDE DEF r, q
<1>11. /\ q.known /\ q.stack = t /\ q.todo = Append(r.todo, CompleteWork)
       /\ q.wait = r.wait /\ q.error = r.error /\ q.error2 = r.error2
  BY <1>9 DEF BinderThread
<1>12. q = thread'[th] /\ r = thread[th]
  BY DEF q, r
<1>13. target # NoThread =>
         /\ target \in Thread
         /\ thread'[target].todo = Append(thread[target].todo, CallWork(t))
         /\ thread'[target].stack = thread[target].stack
         /\ thread'[target].wait = thread[target].wait
         /\ thread'[target].error = thread[target].error
         /\ thread'[target].error2 = thread[target].error2
         /\ thread'[target].known
  <2> SUFFICES ASSUME target # NoThread
               PROVE  /\ target \in Thread
                      /\ thread'[target].todo = Append(thread[target].todo, CallWork(t))
                      /\ thread'[target].stack = thread[target].stack
                      /\ thread'[target].wait = thread[target].wait
                      /\ thread'[target].error = thread[target].error
                      /\ thread'[target].error2 = thread[target].error2
                      /\ thread'[target].known
    OBVIOUS
  <2> DEFINE a == thread[target]
             b == thread'[target]
  <2>1. target \in Thread /\ a.stack # NoTr
    BY <1>7, Numbers
  <2>2. /\ a \in BinderThread /\ a.known
        /\ b = [a EXCEPT !.todo = Append(@, CallWork(t))]
    BY <1>10, <2>1, UsedIsKnown, Fields DEF IInv
  <2> HIDE DEF a, b
  <2>3. /\ b.todo = Append(a.todo, CallWork(t)) /\ b.stack = a.stack /\ b.wait = a.wait
        /\ b.error = a.error /\ b.error2 = a.error2 /\ b.known
    BY <2>2 DEF BinderThread
  <2> QED BY <2>1, <2>3 DEF a, b

\* The processes.
<1>14. \A x \in Proc : /\ proc'[x].has_async <=> proc[x].has_async
                       /\ proc'[x].async_todo = proc[x].async_todo
                       /\ proc'[x].todo = IF x = p /\ target = NoThread
                                          THEN Append(proc[x].todo, CallWork(t))
                                          ELSE proc[x].todo
  <2>1. CASE target # NoThread
    BY <1>5, <2>1
  <2>2. CASE target = NoThread
    <3> DEFINE a == proc[p]
               b == proc'[p]
    <3>1. /\ b = [a EXCEPT !.todo = Append(@, CallWork(t))] /\ a \in BinderProc
          /\ \A x \in Proc \ {p} : proc'[x] = proc[x]
      BY <1>5, <2>2, Fields DEF Enqueue, IInv, TypeOK
    <3> HIDE DEF a, b
    <3>2. /\ b.has_async <=> a.has_async
          /\ b.async_todo = a.async_todo /\ b.todo = Append(a.todo, CallWork(t))
      BY <3>1 DEF BinderProc
    <3>3. b = proc'[p] /\ a = proc[p]
      BY DEF a, b
    <3> QED BY <2>2, <3>1, <3>2, <3>3
  <2> QED BY <2>1, <2>2

\* The lists.
<1> DEFINE p0 == IF target = NoThread THEN <<"proc", p>> ELSE <<"thread", target>>
<1>15. p0 \in Place
  BY <1>5, Places
<1>16. Rehomed(t, {p0})
  <2>1. CompleteWork \in Work /\ CompleteWork.type # "call"
    BY DEF CompleteWork, Work
  <2>2. ListAt(p0)' = Append(ListAt(p0), CallWork(t))
    BY <1>13, <1>14, ListOf, ListOfNext
  <2>3. ASSUME NEW pl \in Place \ {p0}
        PROVE  \/ ListAt(pl)' = ListAt(pl)
               \/ \E w \in Work : w.type # "call" /\ ListAt(pl)' = Append(ListAt(pl), w)
    <3>1. CASE pl = <<"thread", th>>
      <4>1. ListAt(pl)' = Append(ListAt(pl), CompleteWork)
        BY <1>11, <1>12, <3>1, ListOf, ListOfNext
      <4> QED BY <2>1, <4>1
    <3>2. ASSUME NEW x \in Thread, pl = <<"thread", x>>, x # th PROVE ListAt(pl)' = ListAt(pl)
      <4>1. x # target
        BY <2>3, <3>2, ThreadAssumption
      <4> QED BY <1>10, <3>2, <4>1, ListOf, ListOfNext
    <3>3. ASSUME NEW x \in Proc, pl = <<"proc", x>> \/ pl = <<"async", x>>
          PROVE  ListAt(pl)' = ListAt(pl)
      <4>1. pl = <<"proc", x>> => ~(x = p /\ target = NoThread)
        BY <2>3
      <4> QED BY <1>14, <3>3, <4>1, ListOf, ListOfNext
    <3> QED BY <3>1, <3>2, <3>3, Places
  <2> HIDE DEF p0
  <2> QED BY <1>4, <1>8, <1>15, <2>2, <2>3, CallJoins
<1>17. /\ thread'[th].stack = t
       /\ \A x \in Thread \ {th} : thread'[x].stack = thread[x].stack
  BY <1>10, <1>11, <1>12, <1>13, ThreadAssumption
<1>18. Structure'
  <2>1. p0 = IF target = NoThread THEN <<"proc", p>> ELSE <<"thread", target>>
    OBVIOUS
  <2>2. UNCHANGED <<failing, freeing>>
    BY <1>1
  <2> HIDE DEF p0
  <2> QED BY <1>1, <1>2, <1>3, <1>4, <1>5, <1>6, <1>15, <1>16, <1>17, <2>1, <2>2, CallSent
<1>19. FailOK'
  BY <1>1, <1>2, NothingFails
<1>20. \A p1 \in Proc : AsyncOK(p1)'
  <2>1. \A u \in Tr \ {t} : buffer'[u] = buffer[u]
    BY <1>1, <1>4 DEF IInv, TypeOK
  <2>2. ~buffer'[t].async /\ ~buffer[t].async
    BY <1>1, <1>4, <1>8 DEF IInv, TypeOK, FreeBuffer
  <2> QED BY <1>1, <1>4, <1>14, <2>1, <2>2, NoNewAsync
<1>21. ASSUME NEW x \in Thread PROVE ThreadOK(x)'
  <2>1. /\ \A u \in Tr \ {t} : tx'[u] = tx[u]
        /\ tx'[t].from = th /\ tx[t].from = NoThread
    BY <1>4, <1>5, <1>8, FreeRecords DEF IInv, TypeOK
  <2>2. CASE x = th
    BY <1>2, <1>11, <1>12, <2>2 DEF ThreadOK
  <2>3. CASE x = target
    <3>1. thread[x].stack \in Tr /\ thread[x].stack # NoTr /\ tx[thread[x].stack].from = x
          /\ x # NoThread
      BY <1>7, <2>3, Numbers, ThreadAssumption
    <3>2. tx'[thread[x].stack] = tx[thread[x].stack]
      BY <2>1, <3>1
    <3>3. ThreadOK(x)
      BY DEF IInv
    <3> QED BY <1>13, <2>3, <3>1, <3>2, <3>3 DEF ThreadOK
  <2>4. CASE x # th /\ x # target
    <3>1. thread[x].stack # NoTr => \/ tx'[thread[x].stack].from = tx[thread[x].stack].from
                                    \/ tx'[thread[x].stack].from # x
      BY <2>1, <2>4, Fields DEF IInv
    <3> QED BY <1>10, <2>4, <3>1, ThreadKept
  <2> QED BY <2>2, <2>3, <2>4
<1> QED BY <1>18, <1>19, <1>20, <1>21, FromParts

LEMMA OnlyCallsAppend ==
  ASSUME NEW s \in Seq(Work), OnlyCalls(s), NEW w \in Work, w.type = "call"
  PROVE  OnlyCalls(Append(s, w)) /\ Append(s, w) # <<>>
<1> DEFINE a == Append(s, w)
<1>1. /\ DOMAIN a = 1..(Len(s) + 1) /\ DOMAIN s = 1..Len(s) /\ Len(s) \in Nat
      /\ \A i \in DOMAIN s : a[i] = s[i]
      /\ a[Len(s) + 1] = w /\ Len(a) = Len(s) + 1
  OBVIOUS
<1>2. a # <<>>
  BY <1>1
<1> HIDE DEF a
<1>3. \A i \in DOMAIN a : i \in DOMAIN s \/ i = Len(s) + 1
  BY <1>1
<1>4. OnlyCalls(a)
  BY <1>1, <1>3 DEF OnlyCalls
<1> QED BY <1>2, <1>4 DEF a

\* What has_async_transaction says of the buffers, from which nothing is in
\* progress where it is not set.
LEMMA OnewayAsync ==
  ASSUME IInv, releasing = NoProc, releasing' = NoProc, NEW p \in Proc, NEW t \in Tr,
         buffer[t] = FreeBuffer, buffer'[t].async, buffer'[t].state # "free",
         buffer'[t].node = p, \A u \in Tr \ {t} : buffer'[u] = buffer[u],
         \A u \in Tr \ {t} : Waiting(u)' <=> Waiting(u),
         Waiting(t)' <=> proc[p].has_async, proc'[p].has_async,
         OnlyCalls(proc'[p].async_todo),
         \A x \in Proc \ {p} : proc'[x] = proc[x]
  PROVE  \A x \in Proc : AsyncOK(x)'
<1>0. ~buffer[t].async /\ \A x \in Proc : releasing # x /\ releasing' # x
  BY FreeRecords, ThreadAssumption
<1>1. ASSUME NEW x \in Proc, x # p PROVE AsyncOK(x)'
  <2>1. AsyncOK(x)
    BY DEF IInv
  <2>2. InProgress(x)' = InProgress(x)
    <3>1. \A u \in Tr : u \in InProgress(x)' <=> u \in InProgress(x)
      BY <1>0, <1>1 DEF InProgress
    <3> QED BY <3>1 DEF InProgress
  <2>3. /\ OnlyCalls(proc[x].async_todo)'
        /\ proc'[x].async_todo # <<>> => proc'[x].has_async
    BY <1>1, <2>1 DEF AsyncOK, OnlyCalls
  <2>4. \A u \in Tr : buffer'[u].async /\ buffer'[u].state # "free" /\ buffer'[u].node = x
          => proc'[x].has_async
    BY <1>1, <2>1 DEF AsyncOK
  <2>5. releasing' # x => /\ \A s, u \in InProgress(x)' : s = u
                          /\ proc'[x].has_async => InProgress(x)' # {}
    BY <1>0, <1>1, <2>1, <2>2 DEF AsyncOK
  <2> QED BY <2>3, <2>4, <2>5 DEF AsyncOK
<1>2. AsyncOK(p)'
  <2>1. AsyncOK(p)
    BY DEF IInv
  <2>2. CASE proc[p].has_async
    <3>1. InProgress(p)' = InProgress(p)
      <4>1. \A u \in Tr : u \in InProgress(p)' <=> u \in InProgress(p)
        BY <1>0, <2>2 DEF InProgress
      <4> QED BY <4>1 DEF InProgress
    <3>2. /\ \A s, u \in InProgress(p)' : s = u
          /\ proc'[p].has_async => InProgress(p)' # {}
      BY <1>0, <2>1, <2>2, <3>1 DEF AsyncOK
    <3> QED BY <3>2 DEF AsyncOK, OnlyCalls
  <2>3. CASE ~proc[p].has_async
    <3>1. \A u \in InProgress(p)' : u = t
      BY <2>1, <2>3 DEF InProgress, AsyncOK
    <3>2. t \in InProgress(p)'
      BY <2>3 DEF InProgress
    <3>3. /\ \A s, u \in InProgress(p)' : s = u
          /\ proc'[p].has_async => InProgress(p)' # {}
      BY <3>1, <3>2
    <3> QED BY <3>3 DEF AsyncOK, OnlyCalls
  <2> QED BY <2>2, <2>3
<1> QED BY <1>1, <1>2

LEMMA OnewayCallKeeps ==
  ASSUME IInv, TypeOK', NEW th \in Thread, NEW p \in Proc, OnewayCall(th, p)
  PROVE  IInv'
<1>0. calls + 1 \in Tr
  BY Fields, CallAssumption DEF IInv, Tr, OnewayCall, NewCall
<1>4. PICK t \in Tr : t = calls + 1
  BY <1>0
<1>3. t \in Tr
  OBVIOUS
<1>1. /\ UNCHANGED <<failing, freeing, releasing>> /\ calls' = t /\ calls < MaxCalls
      /\ buffer' = [buffer EXCEPT ![t] =
                      [FreeBuffer EXCEPT !.state = "kernel", !.async = TRUE,
                                         !.transaction = TRUE, !.node = p]]
      /\ tx' = [tx EXCEPT ![t] = [FreedTransaction EXCEPT !.live = TRUE,
                                    !.oneway = TRUE, !.buffer = TRUE]]
      /\ proc' = QueueOneway(p, CallWork(t))
      /\ thread' = Enqueue([thread EXCEPT ![th].known = TRUE], th, CompleteWork)
  BY <1>4 DEF OnewayCall, NewCall, lockVars
<1>2. /\ failing.t = NoTr /\ freeing = NoThread /\ releasing = NoProc
      /\ thread[th].error = "OK" /\ thread[th].error2 = "OK" /\ thread[th].wait = "running"
  BY MayCallMeans DEF OnewayCall, Unlocked
<1>5. /\ tx[t] = FreedTransaction /\ buffer[t] = FreeBuffer
      /\ ~tx[t].live /\ ~Sync(t) /\ ~Held(t)
  BY <1>3, <1>4, NewIsFresh

\* The caller's thread.
<1> DEFINE r == thread[th]
           q == thread'[th]
<1>6. /\ r \in BinderThread
      /\ q = [r EXCEPT !.known = TRUE, !.todo = Append(@, CompleteWork)]
      /\ \A x \in Thread \ {th} : thread'[x] = thread[x]
  <2>1. thread \in [Thread -> BinderThread]
    BY DEF IInv, TypeOK
  <2> DEFINE c == [r EXCEPT !.known = TRUE]
             f == [thread EXCEPT ![th].known = TRUE]
  <2>2. f[th] = c /\ DOMAIN f = Thread /\ \A x \in Thread \ {th} : f[x] = thread[x]
    BY <2>1
  <2>3. thread' = [f EXCEPT ![th].todo = Append(@, CompleteWork)]
    BY <1>1 DEF Enqueue
  <2> HIDE DEF f
  <2>4. /\ q = [c EXCEPT !.todo = Append(@, CompleteWork)]
        /\ \A x \in Thread \ {th} : thread'[x] = thread[x]
    BY <2>2, <2>3
  <2>5. r \in BinderThread
    BY <2>1
  <2> HIDE DEF r, q
  <2>6. q = [r EXCEPT !.known = TRUE, !.todo = Append(@, CompleteWork)]
    BY <2>4, <2>5 DEF BinderThread
  <2> QED BY <2>4, <2>5, <2>6
<1> HIDE DEF r, q
<1>7. /\ q.known /\ q.stack = r.stack /\ q.todo = Append(r.todo, CompleteWork)
      /\ q.wait = r.wait /\ q.error = r.error /\ q.error2 = r.error2
  BY <1>6 DEF BinderThread
<1>8. q = thread'[th] /\ r = thread[th]
  BY DEF q, r
<1>9. \A x \in Thread : thread'[x].stack = thread[x].stack
  BY <1>6, <1>7, <1>8

\* The process.
<1> DEFINE a == proc[p]
           b == proc'[p]
           w == CallWork(t)
<1>10. /\ a \in BinderProc
       /\ b = IF a.has_async THEN [a EXCEPT !.async_todo = Append(@, w)]
              ELSE [a EXCEPT !.has_async = TRUE, !.todo = Append(@, w)]
       /\ \A x \in Proc \ {p} : proc'[x] = proc[x]
  <2>1. proc \in [Proc -> BinderProc]
    BY DEF IInv, TypeOK
  <2>2. CASE a.has_async
    BY <1>1, <2>1, <2>2 DEF QueueOneway
  <2>3. CASE ~a.has_async
    <3> DEFINE c == [a EXCEPT !.has_async = TRUE]
               f == [proc EXCEPT ![p].has_async = TRUE]
    <3>1. f[p] = c /\ DOMAIN f = Proc /\ \A x \in Proc \ {p} : f[x] = proc[x]
      BY <2>1
    <3>2. proc' = [f EXCEPT ![p].todo = Append(@, w)]
      BY <1>1, <2>3 DEF QueueOneway, Enqueue
    <3> HIDE DEF f
    <3>3. /\ b = [c EXCEPT !.todo = Append(@, w)]
          /\ \A x \in Proc \ {p} : proc'[x] = proc[x]
      BY <3>1, <3>2
    <3>4. a \in BinderProc
      BY <2>1
    <3> HIDE DEF a, b
    <3>5. b = [a EXCEPT !.has_async = TRUE, !.todo = Append(@, w)]
      BY <3>3, <3>4 DEF BinderProc
    <3> QED BY <2>3, <3>3, <3>4, <3>5
  <2> QED BY <2>2, <2>3
<1> HIDE DEF a, b, w
<1>11. /\ b.has_async
       /\ b.async_todo = IF a.has_async THEN Append(a.async_todo, w) ELSE a.async_todo
       /\ b.todo = IF a.has_async THEN a.todo ELSE Append(a.todo, w)
  <2>1. CASE a.has_async
    BY <1>10, <2>1 DEF BinderProc
  <2>2. CASE ~a.has_async
    BY <1>10, <2>2 DEF BinderProc
  <2> QED BY <2>1, <2>2
<1>12. a = proc[p] /\ b = proc'[p] /\ w = CallWork(t)
  BY DEF a, b, w

\* The lists.
<1>13. PICK p0 \in {<<"proc", p>>, <<"async", p>>} :
         p0 \in Place /\ p0 = IF a.has_async THEN <<"async", p>> ELSE <<"proc", p>>
  BY Places
<1>14. Rehomed(t, {p0})
  <2>1. CompleteWork \in Work /\ CompleteWork.type # "call"
    BY DEF CompleteWork, Work
  <2>2. ListAt(p0)' = Append(ListAt(p0), CallWork(t))
    BY <1>11, <1>12, <1>13, ListOf, ListOfNext
  <2>3. ASSUME NEW pl \in Place \ {p0}
        PROVE  \/ ListAt(pl)' = ListAt(pl)
               \/ \E v \in Work : v.type # "call" /\ ListAt(pl)' = Append(ListAt(pl), v)
    <3>1. CASE pl = <<"thread", th>>
      <4>1. ListAt(pl)' = Append(ListAt(pl), CompleteWork)
        BY <1>7, <1>8, <3>1, ListOf, ListOfNext
      <4> QED BY <2>1, <4>1
    <3>2. ASSUME NEW x \in Thread, pl = <<"thread", x>>, x # th PROVE ListAt(pl)' = ListAt(pl)
      BY <1>6, <3>2, ListOf, ListOfNext
    <3>3. ASSUME NEW x \in Proc, x # p, pl = <<"proc", x>> \/ pl = <<"async", x>>
          PROVE  ListAt(pl)' = ListAt(pl)
      BY <1>10, <3>3, ListOf, ListOfNext
    <3>4. CASE pl = <<"proc", p>>
      <4>1. a.has_async
        BY <1>13, <2>3, <3>4
      <4> QED BY <1>11, <1>12, <3>4, <4>1, ListOf, ListOfNext
    <3>5. CASE pl = <<"async", p>>
      <4>1. ~a.has_async
        BY <1>13, <2>3, <3>5
      <4> QED BY <1>11, <1>12, <3>5, <4>1, ListOf, ListOfNext
    <3> QED BY <3>1, <3>2, <3>3, <3>4, <3>5, Places
  <2> QED BY <1>3, <1>5, <1>13, <2>2, <2>3, CallJoins
<1>15. Structure'
  <2>1. UNCHANGED <<failing, freeing>>
    BY <1>1
  <2> QED BY <1>1, <1>2, <1>3, <1>4, <1>9, <1>13, <1>14, <2>1, OnewaySent
<1>16. FailOK'
  BY <1>1, <1>2, NothingFails
<1>17. \A x \in Proc : AsyncOK(x)'
  <2> DEFINE d == [FreeBuffer EXCEPT !.state = "kernel", !.async = TRUE,
                                     !.transaction = TRUE, !.node = p]
  <2>1. buffer'[t] = d /\ \A u \in Tr \ {t} : buffer'[u] = buffer[u]
    BY <1>1, <1>3 DEF IInv, TypeOK
  <2>2. d.async /\ d.state # "free" /\ d.node = p
    BY DEF FreeBuffer
  <2> HIDE DEF d
  <2>3. buffer'[t].async /\ buffer'[t].state # "free" /\ buffer'[t].node = p
    BY <2>1, <2>2
  <2>4. \A u \in Tr \ {t} : Waiting(u)' <=> Waiting(u)
    BY <1>13, <1>14, WaitsNext
  <2>5. Waiting(t)' <=> proc[p].has_async
    <3>0. Waiting(t)' <=> \E x \in Proc : <<"async", x>> \in {p0}
      <4>1. {p0} \in SUBSET Place /\ t = t
        BY <1>13
      <4> QED BY <1>14, <4>1, WaitsNext
    <3>1. Waiting(t)' <=> \E x \in Proc : <<"async", x>> = p0
      BY <3>0
    <3> QED BY <1>12, <1>13, <3>1, Places
  <2>6. OnlyCalls(proc'[p].async_todo)
    <3>1. a.async_todo \in Seq(Work) /\ OnlyCalls(a.async_todo) /\ w \in Work /\ w.type = "call"
      BY <1>3, <1>12, WorkType, CallWorks, Fields DEF IInv, AsyncOK
    <3>2. OnlyCalls(Append(a.async_todo, w))
      BY <3>1, OnlyCallsAppend
    <3> QED BY <1>11, <1>12, <3>1, <3>2
  <2>7. releasing' = NoProc /\ proc'[p].has_async
    BY <1>1, <1>2, <1>11, <1>12
  <2>8. \A x \in Proc \ {p} : proc'[x] = proc[x]
    BY <1>10
  <2> QED BY <1>2, <1>3, <1>5, <2>1, <2>3, <2>4, <2>5, <2>6, <2>7, <2>8, OnewayAsync
<1>18. ASSUME NEW x \in Thread PROVE ThreadOK(x)'
  <2>1. \A u \in Tr : tx'[u].from = tx[u].from
    <3> DEFINE c == [FreedTransaction EXCEPT !.live = TRUE, !.oneway = TRUE, !.buffer = TRUE]
    <3>1. c.from = FreedTransaction.from
      BY DEF FreedTransaction
    <3>2. tx'[t] = c /\ \A u \in Tr \ {t} : tx'[u] = tx[u]
      BY <1>1, <1>3 DEF IInv, TypeOK
    <3> HIDE DEF c
    <3> QED BY <1>5, <3>1, <3>2
  <2>2. CASE x = th
    BY <1>2, <1>7, <1>8, <2>2 DEF ThreadOK
  <2>3. CASE x # th
    <3>1. thread[x].stack # NoTr => tx'[thread[x].stack].from = tx[thread[x].stack].from
      BY <2>1, Fields DEF IInv
    <3> QED BY <1>6, <2>3, <3>1, ThreadKept
  <2> QED BY <2>2, <2>3
<1> QED BY <1>15, <1>16, <1>17, <1>18, FromParts

LEMMA UnlinkedBuffer ==
  ASSUME IInv, NEW t \in Tr, buffer' = Unlinked(t)
  PROVE  /\ \A u \in Tr \ {t} : buffer'[u] = buffer[u]
         /\ buffer'[t].transaction = FALSE
         /\ \A u \in Tr : /\ buffer'[u].async <=> buffer[u].async
                          /\ buffer'[u].state = "free" <=> buffer[u].state = "free"
                          /\ buffer'[u].state = buffer[u].state
                          /\ buffer'[u].node = buffer[u].node
<1>1. RecordOK(t) /\ buffer[t] \in Buffer /\ tx[t].buffer \in BOOLEAN
  BY Fields DEF IInv, CallsOK
<1>2. CASE tx[t].buffer
  <2> DEFINE b == buffer[t]
             d == buffer'[t]
  <2>1. d = [b EXCEPT !.transaction = FALSE] /\ b \in Buffer
        /\ \A u \in Tr \ {t} : buffer'[u] = buffer[u]
    BY <1>1, <1>2 DEF Unlinked, IInv, TypeOK
  <2> HIDE DEF b, d
  <2>2. /\ d.transaction = FALSE /\ d.state = b.state /\ d.node = b.node
        /\ d.async <=> b.async
    BY <2>1 DEF Buffer
  <2>3. b = buffer[t] /\ d = buffer'[t]
    BY DEF b, d
  <2> QED BY <2>1, <2>2, <2>3
<1>3. CASE ~tx[t].buffer
  <2>1. buffer' = buffer /\ buffer[t].transaction = FALSE
    BY <1>1, <1>3 DEF Unlinked, RecordOK
  <2> QED BY <2>1
<1> QED BY <1>2, <1>3

LEMMA ReplyFailedKeeps ==
  ASSUME IInv, TypeOK', NEW th \in Thread, NEW code \in {"DEAD_REPLY", "FAILED_REPLY"},
         ReplyFailed(th, code)
  PROVE  IInv'
<1>1. /\ failing.t = NoTr /\ freeing = NoThread /\ Serving(th)
      /\ thread[th].error = "OK" /\ thread[th].wait = "running"
      /\ UNCHANGED <<calls, tx, buffer, proc, freeing, releasing>>
  BY DEF ReplyFailed, CanWrite, InIoctl, Unlocked
<1>2. PICK t \in Tr : /\ t = thread[th].stack /\ t \in Frames(th) /\ Leaf(FP, t)
                      /\ tx[t].to_thread = th /\ Sync(t) /\ tx[t].from # th /\ ~Unread(t)
  BY <1>1, ServedIsLeaf
<1>3. PICK target \in Thread \cup {NoThread} : target = tx[t].from
  BY Fields DEF IInv
<1>4. target # NoThread => ReplierPopped(th)[target].stack = t
  <2> SUFFICES ASSUME target # NoThread PROVE ReplierPopped(th)[target].stack = t
    OBVIOUS
  <2>1. target \in Thread /\ t \in Frames(target)
    BY <1>2, <1>3 DEF Frames
  <2>2. thread[target].stack = t
    BY <1>2, <2>1, LeafIsTop
  <2> QED BY <1>2, <1>3, <2>1, <2>2 DEF ReplierPopped, IInv, TypeOK
<1>5. /\ thread' = [ReplierPopped(th) EXCEPT ![th].error = "TRANSACTION_COMPLETE"]
      /\ failing' = [t |-> t, code |-> code]
  BY <1>2, <1>3, <1>4 DEF ReplyFailed
<1> DEFINE r == thread[th]
           q == thread'[th]
           up == tx[t].to_parent
<1>6. /\ q = [r EXCEPT !.stack = up, !.error = "TRANSACTION_COMPLETE"] /\ r \in BinderThread
      /\ \A x \in Thread \ {th} : thread'[x] = thread[x]
  <2> DEFINE f == ReplierPopped(th)
  <2>1. /\ f[th] = [r EXCEPT !.stack = up] /\ DOMAIN f = Thread
        /\ \A x \in Thread \ {th} : f[x] = thread[x]
    BY <1>2 DEF ReplierPopped, IInv, TypeOK
  <2>2. thread' = [f EXCEPT ![th].error = "TRANSACTION_COMPLETE"]
    BY <1>5
  <2>3. r \in BinderThread
    BY Fields DEF IInv
  <2> HIDE DEF f
  <2>4. /\ q = [f[th] EXCEPT !.error = "TRANSACTION_COMPLETE"]
        /\ \A x \in Thread \ {th} : thread'[x] = thread[x]
    BY <2>1, <2>2
  <2> HIDE DEF r, q, up
  <2>5. q = [r EXCEPT !.stack = up, !.error = "TRANSACTION_COMPLETE"]
    BY <2>1, <2>3, <2>4 DEF BinderThread
  <2> QED BY <2>3, <2>4, <2>5
<1>7. r.known /\ r.error2 = "OK"
  BY <1>1, <1>2, UsedIsKnown, Numbers
<1>8. q = thread'[th] /\ r = thread[th] /\ up = LinkOf(th, t) /\ up = tx[t].to_parent
  BY <1>2 DEF LinkOf
<1> HIDE DEF r, q, up
<1>9. /\ q.known /\ q.stack = up /\ q.todo = r.todo /\ q.wait = r.wait /\ q.error2 = "OK"
  BY <1>6, <1>7 DEF BinderThread
<1>10. Rehomed(NoTr, {})
  BY <1>1, <1>6, <1>8, <1>9, ListsSame
<1>11. failing'.t = t /\ failing'.code = code
  BY <1>5
<1>12. ~Held(t)
  BY <1>2 DEF Held, IInv, QueueOK
<1>13. Structure'
  <2>1. ASSUME NEW x \in Thread
        PROVE  \/ /\ thread'[x].stack = thread[x].stack
                  /\ failing'.t = failing.t \/ Unread(failing'.t) \/ tx[failing'.t].to_thread # x
               \/ /\ Serving(x) /\ failing'.t = thread[x].stack /\ failing.t = NoTr
                  /\ thread'[x].stack = LinkOf(x, thread[x].stack)
    <3>1. CASE x = th
      BY <1>1, <1>2, <1>8, <1>9, <1>11, <3>1
    <3>2. CASE x # th
      BY <1>2, <1>6, <1>11, <3>2
    <3> QED BY <3>1, <3>2
  <2>2. /\ UNCHANGED <<calls, tx, buffer>> /\ NoTr \in {NoTr, failing'.t}
        /\ failing'.t \in Tr \cup {NoTr} /\ failing.t \in {NoTr, failing'.t}
        /\ failing'.t \in {NoTr, failing.t} \/ ~Held(failing'.t)
        /\ \A x \in Thread : x = freeing /\ x # freeing' => thread[x].todo = <<>>
    BY <1>1, <1>11, <1>12
  <2> QED BY <1>10, <2>1, <2>2, Unmoved
<1>14. FailOK'
  <2>1. FP' = FP
    BY <1>1 DEF FP
  <2>2. Sync(t)' /\ Leaf(FP, t)'
    BY <1>1, <1>2, <2>1 DEF Sync, Leaf
  <2> QED BY <1>1, <1>2, <1>8, <1>9, <1>11, <2>2 DEF FailOK, Sync, Leaf
<1>15. \A p \in Proc : AsyncOK(p)'
  BY <1>1, AsyncSame
<1>16. ASSUME NEW x \in Thread PROVE ThreadOK(x)'
  <2>1. CASE x = th
    BY <1>1, <1>8, <1>9, <2>1 DEF ThreadOK
  <2>2. CASE x # th
    BY <1>1, <1>6, <2>2, ThreadKept
  <2> QED BY <2>1, <2>2
<1> QED BY <1>13, <1>14, <1>15, <1>16, FromParts

LEMMA ReplyKeeps ==
  ASSUME IInv, TypeOK', NEW th \in Thread, Reply(th)
  PROVE  IInv'
<1>1. /\ failing.t = NoTr /\ freeing = NoThread /\ Serving(th)
      /\ thread[th].error = "OK" /\ thread[th].wait = "running"
      /\ UNCHANGED <<calls, proc, failing, freeing, releasing>>
  BY DEF Reply, CanWrite, InIoctl, Unlocked, lockVars
<1>2. PICK t \in Tr : /\ t = thread[th].stack /\ t \in Frames(th) /\ Leaf(FP, t)
                      /\ tx[t].to_thread = th /\ Sync(t) /\ tx[t].from # th /\ ~Unread(t)
  BY <1>1, ServedIsLeaf
<1>3. PICK target \in Thread : target = tx[t].from
  BY <1>2, Fields DEF IInv, Reply
<1>4. target # th /\ t \in Frames(target) /\ thread[target].stack = t
  BY <1>2, <1>3, LeafIsTop DEF Frames
<1>5. tx' = Popped(t) /\ buffer' = Unlinked(t)
  BY <1>2 DEF Reply
<1> DEFINE r == thread[th]
           q == thread'[th]
           a == thread[target]
           b == thread'[target]
           up == tx[t].to_parent
           from == tx[t].from_parent
<1>6. /\ q = [r EXCEPT !.stack = up, !.todo = Append(@, CompleteWork)] /\ r \in BinderThread
      /\ b = [a EXCEPT !.stack = from, !.todo = Append(@, ReplyWork(t))] /\ a \in BinderThread
      /\ \A x \in Thread \ {th, target} : thread'[x] = thread[x]
  <2> DEFINE f == ReplierPopped(th)
             g == [f EXCEPT ![target].stack = from]
             h == Enqueue(g, target, ReplyWork(t))
  <2>1. /\ f[th] = [r EXCEPT !.stack = up] /\ DOMAIN f = Thread
        /\ \A x \in Thread \ {th} : f[x] = thread[x]
    BY <1>2 DEF ReplierPopped, IInv, TypeOK
  <2>2. thread' = Enqueue(h, th, CompleteWork)
    BY <1>2, <1>3 DEF Reply
  <2>3. r \in BinderThread /\ a \in BinderThread
    BY Fields DEF IInv
  <2> HIDE DEF f, r, q, a, b, up, from
  <2>4. /\ DOMAIN g = Thread /\ g[target] = [f[target] EXCEPT !.stack = from]
        /\ \A x \in Thread \ {target} : g[x] = f[x]
    BY <2>1
  <2> HIDE DEF g
  <2>5. /\ DOMAIN h = Thread /\ h[target] = [g[target] EXCEPT !.todo = Append(@, ReplyWork(t))]
        /\ \A x \in Thread \ {target} : h[x] = g[x]
    BY <2>4 DEF Enqueue
  <2> HIDE DEF h
  <2>6. /\ thread'[th] = [h[th] EXCEPT !.todo = Append(@, CompleteWork)]
        /\ \A x \in Thread \ {th} : thread'[x] = h[x]
    BY <2>2, <2>5 DEF Enqueue
  <2>7. f[target] = a
    BY <1>4, <2>1 DEF a
  <2>8. b = h[target] /\ q = [h[th] EXCEPT !.todo = Append(@, CompleteWork)]
    BY <1>4, <2>6 DEF b, q
  <2>9. b = [a EXCEPT !.stack = from, !.todo = Append(@, ReplyWork(t))]
    BY <2>3, <2>4, <2>5, <2>7, <2>8 DEF BinderThread
  <2>10. h[th] = f[th]
    BY <1>4, <2>4, <2>5
  <2>11. q = [r EXCEPT !.stack = up, !.todo = Append(@, CompleteWork)]
    BY <2>1, <2>3, <2>8, <2>10 DEF BinderThread
  <2> QED BY <2>1, <2>3, <2>4, <2>5, <2>6, <2>9, <2>11
<1>7. r.known /\ r.error2 = "OK" /\ a.known
  BY <1>1, <1>2, <1>4, UsedIsKnown, Numbers
<1>8. q = thread'[th] /\ r = thread[th] /\ a = thread[target] /\ b = thread'[target]
      /\ up = LinkOf(th, t) /\ from = LinkOf(target, t) /\ from = tx[t].from_parent
  BY <1>2, <1>4 DEF LinkOf
<1> HIDE DEF r, q, a, b, up, from
<1>9. /\ q.known /\ q.stack = up /\ q.todo = Append(r.todo, CompleteWork)
      /\ q.wait = r.wait /\ q.error2 = "OK"
  BY <1>6, <1>7 DEF BinderThread
<1>10. /\ b.known /\ b.stack = from /\ b.todo = Append(a.todo, ReplyWork(t))
       /\ b.wait = a.wait /\ b.error2 = a.error2
  BY <1>6, <1>7 DEF BinderThread
<1>11. Rehomed(NoTr, {})
  <2>1. /\ CompleteWork \in Work /\ CompleteWork.type # "call"
        /\ ReplyWork(t) \in Work /\ ReplyWork(t).type # "call"
    BY WorkType DEF CompleteWork, ReplyWork
  <2>2. ASSUME NEW pl \in Place
        PROVE  \/ ListAt(pl)' = ListAt(pl)
               \/ \E w \in Work : w.type # "call" /\ ListAt(pl)' = Append(ListAt(pl), w)
    <3>1. CASE pl = <<"thread", th>>
      <4>1. ListAt(pl)' = Append(ListAt(pl), CompleteWork)
        BY <1>8, <1>9, <3>1, ListOf, ListOfNext
      <4> QED BY <2>1, <4>1
    <3>2. CASE pl = <<"thread", target>>
      <4>1. ListAt(pl)' = Append(ListAt(pl), ReplyWork(t))
        BY <1>8, <1>10, <3>2, ListOf, ListOfNext
      <4> QED BY <2>1, <4>1
    <3>3. ASSUME NEW x \in Thread, pl = <<"thread", x>>, x # th, x # target
          PROVE  ListAt(pl)' = ListAt(pl)
      BY <1>6, <3>3, ListOf, ListOfNext
    <3>4. ASSUME NEW x \in Proc, pl = <<"proc", x>> \/ pl = <<"async", x>>
          PROVE  ListAt(pl)' = ListAt(pl)
      BY <1>1, <3>4, ListOf, ListOfNext
    <3> QED BY <3>1, <3>2, <3>3, <3>4, Places
  <2> QED BY <2>2, ListsGrow
<1>12. ~Held(t)
  BY <1>2 DEF Held, IInv, QueueOK
<1>13. Structure' /\ \A u \in Tr \ {t} : tx'[u] = tx[u]
  <2>1. ASSUME NEW x \in Thread
        PROVE  thread'[x].stack = IF t \in Frames(x) THEN LinkOf(x, t) ELSE thread[x].stack
    <3>1. CASE x = th
      BY <1>2, <1>8, <1>9, <3>1
    <3>2. CASE x = target
      BY <1>4, <1>8, <1>10, <3>2
    <3>3. CASE x # th /\ x # target
      <4>1. t \notin Frames(x)
        BY <1>2, <1>3, <3>3 DEF Frames
      <4> QED BY <1>6, <3>3, <4>1
    <3> QED BY <3>1, <3>2, <3>3
  <2>2. /\ tx[t].live /\ calls' = calls /\ NoTr \in {NoTr, t} /\ failing.t \in {NoTr, t}
        /\ (Sync(t) => Leaf(FP, t)) /\ freeing' = freeing
        /\ \A u \in Tr \ {t} : buffer'[u] = buffer[u]
        /\ buffer'[t].transaction = FALSE
    BY <1>1, <1>2, <1>5, UnlinkedBuffer DEF Sync
  <2>3. failing'.t = IF tx[t].from = NoThread THEN tx[t].from_parent ELSE NoTr
    BY <1>1, <1>3, ThreadAssumption
  <2> QED BY <1>5, <1>11, <1>12, <2>1, <2>2, <2>3, CallPopped
<1>14. FailOK'
  BY <1>1, NothingFails
<1>15. \A p \in Proc : AsyncOK(p)'
  BY <1>1, <1>5, UnlinkedBuffer, AsyncSame
<1>16. ASSUME NEW x \in Thread PROVE ThreadOK(x)'
  <2>1. CASE x = th
    BY <1>1, <1>8, <1>9, <2>1 DEF ThreadOK
  <2>2. CASE x = target
    <3>1. ThreadOK(x)
      BY DEF IInv
    <3>2. a.wait # "proc" /\ a.error2 = "OK"
      BY <1>3, <1>4, <1>8, <2>2, <3>1, Numbers DEF ThreadOK
    <3> QED BY <1>8, <1>10, <2>2, <3>2 DEF ThreadOK
  <2>3. CASE x # th /\ x # target
    <3>1. tx'[t].from = NoThread
      BY <1>5 DEF Popped, IInv, TypeOK, FreedTransaction
    <3>2. thread[x].stack # NoTr => \/ tx'[thread[x].stack].from = tx[thread[x].stack].from
                                    \/ tx'[thread[x].stack].from # x
      BY <1>13, <3>1, ThreadAssumption, Fields DEF IInv
    <3> QED BY <1>6, <2>3, <3>2, ThreadKept
  <2> QED BY <2>1, <2>2, <2>3
<1> QED BY <1>13, <1>14, <1>15, <1>16, FromParts

LEMMA FailedReplyKeeps ==
  ASSUME IInv, TypeOK', FailedReply
  PROVE  IInv'
<1>1. PICK t \in Tr : t = failing.t
  BY Fields DEF IInv, FailedReply
<1>2. /\ Sync(t) /\ Leaf(FP, t) /\ failing.code \in {"DEAD_REPLY", "FAILED_REPLY"}
      /\ UNCHANGED <<calls, proc, freeing, releasing>>
      /\ freeing # NoThread => thread[freeing].known /\ thread[freeing].stack = NoTr
  BY <1>1, Numbers DEF IInv, FailOK, FailedReply
<1>3. PICK target \in Thread \cup {NoThread} : target = tx[t].from
  BY Fields DEF IInv
<1>4. /\ \A x \in Thread : t \in Frames(x) <=> target = x
      /\ \A x \in Thread : t \in Frames(x)
           => thread[x].stack = t /\ LinkOf(x, t) = tx[t].from_parent
      /\ ~Held(t)
  <2>1. ASSUME NEW x \in Thread PROVE t \in Frames(x) <=> target = x
    BY <1>1, <1>2, <1>3 DEF Frames
  <2>2. ASSUME NEW x \in Thread, t \in Frames(x)
        PROVE  thread[x].stack = t /\ LinkOf(x, t) = tx[t].from_parent
    <3>1. thread[x].stack = t
      BY <1>2, <2>2, LeafIsTop
    <3>2. tx[t].to_thread # x
      <4>1. SyncOK(t)
        BY DEF IInv, CallsOK
      <4> QED BY <1>2, <1>3, <2>1, <2>2, <4>1, ThreadAssumption DEF SyncOK
    <3> QED BY <3>1, <3>2 DEF LinkOf
  <2>3. ~Held(t)
    BY <1>1 DEF Held, IInv, QueueOK
  <2> QED BY <2>1, <2>2, <2>3
<1>5. target # NoThread => thread[target].error = "OK" \/ thread[target].error2 = "OK"
  <2> SUFFICES ASSUME target \in Thread
               PROVE  thread[target].error = "OK" \/ thread[target].error2 = "OK"
    OBVIOUS
  <2>1. ThreadOK(target) /\ thread[target].stack = t /\ t # NoTr
    BY <1>4, Numbers DEF IInv
  <2> QED BY <1>3, <2>1 DEF ThreadOK
<1>6. /\ tx' = Popped(t) /\ buffer' = Unlinked(t)
      /\ \/ target # NoThread /\ thread' = Told(target, t) /\ failing' = NoFailure
         \/ target = NoThread /\ failing' = NextFailure(t) /\ UNCHANGED thread
  BY <1>1, <1>3, <1>5 DEF FailedReply
<1>7. SyncOK(t) /\ ParentOK(t)
  BY DEF IInv, CallsOK

\* The caller that is told.
<1>8. ASSUME target # NoThread
      PROVE  LET r == thread[target]
                 q == thread'[target]
             IN  /\ q.known <=> r.known
                 /\ q.stack = tx[t].from_parent /\ q.todo = r.todo /\ q.wait = r.wait
                 /\ q.error = failing.code
                 /\ \A x \in Thread \ {target} : thread'[x] = thread[x]
  <2> DEFINE r == thread[target]
             q == thread'[target]
             s == tx[t].from_parent
             e == SecondError(target)
             c == failing.code
  <2>1. /\ q = [r EXCEPT !.stack = s, !.error = c, !.error2 = e] /\ r \in BinderThread
        /\ \A x \in Thread \ {target} : thread'[x] = thread[x]
    BY <1>6, <1>8, Fields DEF Told, IInv, TypeOK
  <2> HIDE DEF r, q, s, e, c
  <2>2. /\ q.known <=> r.known
        /\ q.stack = s /\ q.todo = r.todo /\ q.wait = r.wait /\ q.error = c
    BY <2>1 DEF BinderThread
  <2> QED BY <2>1, <2>2 DEF r, q, s, e, c
<1>9. \A x \in Thread :
        /\ thread'[x].todo = thread[x].todo
        /\ thread[x].known => thread'[x].known
        /\ thread'[x].stack = IF t \in Frames(x) THEN LinkOf(x, t) ELSE thread[x].stack
        /\ x # target => thread'[x] = thread[x]
  <2> SUFFICES ASSUME NEW x \in Thread
               PROVE  /\ thread'[x].todo = thread[x].todo
                      /\ thread[x].known => thread'[x].known
                      /\ thread'[x].stack = IF t \in Frames(x) THEN LinkOf(x, t)
                                            ELSE thread[x].stack
                      /\ x # target => thread'[x] = thread[x]
    OBVIOUS
  <2>1. CASE x = target
    BY <1>4, <1>8, <2>1, ThreadAssumption
  <2>2. CASE x # target
    BY <1>4, <1>6, <1>8, <2>2
  <2> QED BY <2>1, <2>2
<1>10. failing'.t = IF target = NoThread THEN tx[t].from_parent ELSE NoTr
  BY <1>6, Fields DEF NoFailure, NextFailure, IInv
<1>11. Rehomed(NoTr, {})
  BY <1>2, <1>9, ListsSame
<1>12. /\ Structure'
       /\ tx[t].from_parent # NoTr => Leaf(FP', tx[t].from_parent)
       /\ \A u \in Tr \ {t} : tx'[u] = tx[u]
  <2>1. /\ tx[t].live /\ calls' = calls /\ NoTr \in {NoTr, t} /\ failing.t \in {NoTr, t}
        /\ (Sync(t) => Leaf(FP, t)) /\ freeing' = freeing
        /\ \A u \in Tr \ {t} : buffer'[u] = buffer[u]
        /\ buffer'[t].transaction = FALSE
    BY <1>1, <1>2, <1>6, UnlinkedBuffer DEF Sync
  <2>2. failing'.t = IF tx[t].from = NoThread THEN tx[t].from_parent ELSE NoTr
    BY <1>3, <1>10
  <2>3. \A x \in Thread : thread'[x].stack = IF t \in Frames(x) THEN LinkOf(x, t)
                                             ELSE thread[x].stack
    BY <1>9
  <2> QED BY <1>4, <1>6, <1>11, <2>1, <2>2, <2>3, CallPopped
<1>13. tx'[t].from = NoThread
  BY <1>6 DEF Popped, IInv, TypeOK, FreedTransaction
<1>14. FailOK'
  <2>1. freeing' # NoThread => thread'[freeing'].known /\ thread'[freeing'].stack = NoTr
    <3> SUFFICES ASSUME freeing # NoThread
                 PROVE  thread'[freeing].known /\ thread'[freeing].stack = NoTr
      BY <1>2
    <3>1. freeing \in Thread /\ thread[freeing].stack = NoTr
      BY <1>2, Fields DEF IInv
    <3>2. t \notin Frames(freeing)
      BY <1>4, <3>1, Numbers
    <3> QED BY <1>2, <1>9, <3>1, <3>2
  <2>2. CASE failing'.t = NoTr
    BY <2>1, <2>2 DEF FailOK
  <2>3. CASE failing'.t # NoTr
    <3>1. PICK s \in Tr : s = tx[t].from_parent
      BY <1>10, <2>3, Fields DEF IInv
    <3>2. target = NoThread /\ failing'.t = s /\ s # NoTr
      BY <1>10, <2>3, <3>1
    <3>3. failing'.code = failing.code
      BY <1>6, <3>1, <3>2, Fields DEF NextFailure, IInv
    <3>4. Sync(s) /\ s # t /\ tx[s].to_thread = NoThread
      BY <1>2, <1>3, <1>7, <3>1, <3>2, Numbers DEF ParentOK
    <3>5. tx'[s] = tx[s] /\ Leaf(FP', s)
      BY <1>12, <3>1, <3>2, <3>4
    <3>6. Sync(s)' /\ Leaf(FP, s)'
      BY <3>4, <3>5, UpNext DEF Sync
    <3> QED BY <1>2, <2>1, <3>2, <3>3, <3>4, <3>5, <3>6 DEF FailOK, Sync, Leaf
  <2> QED BY <2>2, <2>3
<1>15. \A p \in Proc : AsyncOK(p)'
  BY <1>2, <1>6, UnlinkedBuffer, AsyncSame
<1>16. ASSUME NEW x \in Thread PROVE ThreadOK(x)'
  <2>1. CASE x = target
    <3>1. ThreadOK(x) /\ thread[x].stack = t /\ thread[x].known
      BY <1>4, <2>1, UsedIsKnown, Numbers DEF IInv
    <3>2. thread[x].wait # "proc"
      BY <3>1, Numbers DEF ThreadOK
    <3>3. thread'[x].known /\ thread'[x].wait # "proc" /\ thread'[x].error # "OK"
          /\ thread'[x].stack = tx[t].from_parent
      BY <1>2, <1>8, <2>1, <3>1, <3>2, ThreadAssumption
    <3>4. ASSUME thread'[x].stack # NoTr PROVE tx'[thread'[x].stack].from # x
      <4>1. PICK s \in Tr : s = tx[t].from_parent
        BY <3>3, <3>4, Fields DEF IInv
      <4>2. Sync(s) /\ s # t /\ tx[s].to_thread = x
        BY <1>2, <1>3, <1>7, <2>1, <3>3, <3>4, <4>1, Numbers DEF ParentOK
      <4>3. SyncOK(s)
        BY DEF IInv, CallsOK
      <4>4. tx[s].from # x
        BY <4>2, <4>3, ThreadAssumption DEF SyncOK
      <4> QED BY <1>12, <3>3, <4>1, <4>2, <4>4
    <3> QED BY <3>3, <3>4 DEF ThreadOK
  <2>2. CASE x # target
    <3>1. thread[x].stack # NoTr => \/ tx'[thread[x].stack].from = tx[thread[x].stack].from
                                    \/ tx'[thread[x].stack].from # x
      BY <1>12, <1>13, ThreadAssumption, Fields DEF IInv
    <3> QED BY <1>9, <2>2, <3>1, ThreadKept
  <2> QED BY <2>1, <2>2
<1> QED BY <1>12, <1>14, <1>15, <1>16, FromParts

\* The buffers of another process are not touched.
LEMMA AsyncElsewhere ==
  ASSUME IInv, NEW x \in Proc, proc'[x] = proc[x], releasing' # x => releasing # x,
         \A u \in Tr : buffer'[u] = buffer[u] \/ (buffer[u].node # x /\ buffer'[u].node # x),
         \A u \in Tr : buffer[u].node = x => (Waiting(u)' <=> Waiting(u))
  PROVE  AsyncOK(x)'
<1>1. AsyncOK(x)
  BY DEF IInv
<1>2. InProgress(x)' = InProgress(x)
  <2>1. ASSUME NEW u \in Tr PROVE u \in InProgress(x)' <=> u \in InProgress(x)
    <3>1. CASE buffer'[u] = buffer[u]
      BY <3>1 DEF InProgress
    <3>2. CASE buffer[u].node # x /\ buffer'[u].node # x
      BY <3>2 DEF InProgress
    <3> QED BY <3>1, <3>2
  <2> QED BY <2>1 DEF InProgress
<1>3. /\ OnlyCalls(proc[x].async_todo)'
      /\ proc'[x].async_todo # <<>> => proc'[x].has_async
  BY <1>1 DEF AsyncOK, OnlyCalls
<1>4. \A u \in Tr : buffer'[u].async /\ buffer'[u].state # "free" /\ buffer'[u].node = x
        => proc'[x].has_async
  BY <1>1 DEF AsyncOK
<1>5. releasing' # x => /\ \A s, u \in InProgress(x)' : s = u
                        /\ proc'[x].has_async => InProgress(x)' # {}
  BY <1>1, <1>2 DEF AsyncOK
<1> QED BY <1>3, <1>4, <1>5 DEF AsyncOK

\* What waits for a node is oneway and was sent to it.
LEMMA WaitingCalls ==
  ASSUME IInv, NEW p \in Proc, NEW u \in Tr, InList(u, proc[p].async_todo)
  PROVE  /\ Held(u) /\ Holds(<<"async", p>>, u) /\ tx[u].live /\ tx[u].oneway
         /\ buffer[u].node = p /\ Unread(u) /\ buffer[u].async
<1>1. <<"async", p>> \in Place /\ Holds(<<"async", p>>, u)
  BY Places, ListOf DEF Holds
<1>2. QueueOK(u) /\ OnewayOK(u)
  BY DEF IInv, CallsOK
<1>3. tx[u].live /\ Unread(u) /\ IsHome(<<"async", p>>, u)
  BY <1>1, <1>2 DEF QueueOK
<1>4. tx[u].oneway /\ buffer[u].node = p
  BY <1>3, Places DEF IsHome
<1> QED BY <1>1, <1>2, <1>3, <1>4 DEF Held, OnewayOK

LEMMA WaitingIsUnread ==
  ASSUME IInv, NEW u \in Tr, Waiting(u)
  PROVE  Unread(u) /\ \E p \in Proc : buffer[u].node = p /\ InList(u, proc[p].async_todo)
BY WaitingCalls DEF Waiting

LEMMA BcFreeBufferKeeps ==
  ASSUME IInv, TypeOK', NEW th \in Thread, NEW t \in Tr, BcFreeBuffer(th, t)
  PROVE  IInv'
<1>1. PICK p \in Proc : p = buffer[t].node /\ p = ProcOf[th]
  BY ThreadAssumption DEF BcFreeBuffer
<1>2. /\ failing.t = NoTr /\ freeing = NoThread /\ releasing = NoProc
      /\ UNCHANGED <<calls, failing, freeing, releasing>>
      /\ thread[th].error = "OK" /\ thread[th].wait = "running"
      /\ buffer[t].state = "user"
      /\ buffer' = [buffer EXCEPT ![t] = FreeBuffer]
      /\ tx' = IF buffer[t].transaction THEN [tx EXCEPT ![t].buffer = FALSE] ELSE tx
  BY DEF BcFreeBuffer, CanWrite, InIoctl, Unlocked, lockVars, UserMayFree
<1>3. \/ buffer[t].async /\ StartNextAsync(th, p)
      \/ /\ ~buffer[t].async
         /\ thread' = [thread EXCEPT ![th].known = TRUE]
         /\ UNCHANGED proc
  BY <1>1 DEF BcFreeBuffer
<1>4. /\ buffer'[t] = FreeBuffer /\ \A u \in Tr \ {t} : buffer'[u] = buffer[u]
      /\ ~Unread(t)
  BY <1>2 DEF IInv, TypeOK, Unread
<1>5. /\ tx'[t] = [tx[t] EXCEPT !.buffer = FALSE]
      /\ \A u \in Tr \ {t} : tx'[u] = tx[u]
  <2>1. tx[t] \in Transaction /\ RecordOK(t)
    BY Fields DEF IInv, CallsOK
  <2>2. CASE buffer[t].transaction
    BY <1>2, <2>2 DEF IInv, TypeOK
  <2>3. CASE ~buffer[t].transaction
    <3>1. ~tx[t].buffer /\ tx' = tx
      BY <1>2, <2>1, <2>3 DEF RecordOK
    <3>2. [tx[t] EXCEPT !.buffer = FALSE] = tx[t]
      BY <2>1, <3>1, WithoutBuffer
    <3> QED BY <3>1, <3>2
  <2> QED BY <2>2, <2>3
<1>6. \A u \in Tr : tx'[u].from = tx[u].from
  <2>1. tx'[t].from = tx[t].from
    BY <1>5, Fields, WithoutBuffer DEF IInv
  <2> QED BY <1>5, <2>1

\* Whatever happens to the lists, the structure stays.
<1>7. ASSUME NEW n, NEW P \in SUBSET Place, Rehomed(n, P),
             \/ n = NoTr
             \/ /\ n \in Tr /\ Held(n) /\ tx[n].oneway /\ buffer[n].node = p
                /\ P = {<<"thread", th>>},
             \A x \in Thread : thread'[x].stack = thread[x].stack
      PROVE  Structure'
  <2>1. /\ {t} \in SUBSET Tr /\ \A u \in {t} : tx[u].live => ~Unread(u)
        /\ \A u \in Tr : buffer'[u] = IF u \in {t} THEN FreeBuffer ELSE buffer[u]
        /\ \A u \in {t} : tx'[u] = [tx[u] EXCEPT !.buffer = FALSE]
        /\ \A u \in Tr \ {t} : tx'[u] = tx[u]
    BY <1>4, <1>5
  <2>2. \/ n = NoTr
        \/ /\ n \in Tr /\ Held(n) /\ tx[n].oneway
           /\ \E x \in Thread : P = {<<"thread", x>>} /\ ProcOf[x] = buffer[n].node
    BY <1>1, <1>7
  <2>3. calls' = calls /\ failing' = failing /\ freeing' = freeing
    BY <1>2
  <2> QED BY <1>7, <2>1, <2>2, <2>3, BuffersFreed
<1>8. FailOK'
  BY <1>2, NothingFails

\* The thread that frees.
<1>9. ASSUME NEW todo,
             thread'[th] = [thread[th] EXCEPT !.known = TRUE, !.todo = todo],
             \A x \in Thread \ {th} : thread'[x] = thread[x]
      PROVE  /\ thread'[th].todo = todo
             /\ \A x \in Thread : thread'[x].stack = thread[x].stack /\ ThreadOK(x)'
  <2> DEFINE r == thread[th]
             q == thread'[th]
  <2>1. q = [r EXCEPT !.known = TRUE, !.todo = todo] /\ r \in BinderThread
    BY <1>9, Fields DEF IInv
  <2>2. r.error = "OK" /\ r.error2 = "OK" /\ r.wait = "running"
    BY <1>2, UsedIsKnown
  <2> HIDE DEF r, q
  <2>3. /\ q.known /\ q.stack = r.stack /\ q.todo = todo /\ q.wait = "running"
        /\ q.error2 = "OK"
    BY <2>1, <2>2 DEF BinderThread
  <2>4. q = thread'[th] /\ r = thread[th]
    BY DEF q, r
  <2>5. ASSUME NEW x \in Thread PROVE thread'[x].stack = thread[x].stack /\ ThreadOK(x)'
    <3>1. CASE x = th
      BY <2>3, <2>4, <3>1 DEF ThreadOK
    <3>2. CASE x # th
      <4>1. thread[x].stack # NoTr => tx'[thread[x].stack].from = tx[thread[x].stack].from
        BY <1>6, Fields DEF IInv
      <4>2. thread'[x] = thread[x]
        BY <1>9, <3>2
      <4> QED BY <4>1, <4>2, ThreadKept
    <3> QED BY <3>1, <3>2
  <2> QED BY <2>3, <2>4, <2>5

\* A thread that is marked as known.
<1>10. ASSUME thread' = [thread EXCEPT ![th].known = TRUE]
       PROVE  /\ thread'[th] = [thread[th] EXCEPT !.known = TRUE, !.todo = thread[th].todo]
              /\ \A x \in Thread \ {th} : thread'[x] = thread[x]
  <2> DEFINE r == thread[th]
             q == thread'[th]
  <2>1. /\ q = [r EXCEPT !.known = TRUE] /\ r \in BinderThread
        /\ \A x \in Thread \ {th} : thread'[x] = thread[x]
    BY <1>10, Fields DEF IInv, TypeOK
  <2> HIDE DEF r, q
  <2>2. q = [r EXCEPT !.known = TRUE, !.todo = r.todo]
    BY <2>1 DEF BinderThread
  <2> QED BY <2>1, <2>2 DEF r, q
<1>11. CASE ~buffer[t].async
  <2>1. thread' = [thread EXCEPT ![th].known = TRUE] /\ proc' = proc
    BY <1>3, <1>11
  <2>2. /\ thread'[th].todo = thread[th].todo
        /\ \A x \in Thread \ {th} : thread'[x] = thread[x]
        /\ \A x \in Thread : thread'[x].stack = thread[x].stack /\ ThreadOK(x)'
    BY <1>9, <1>10, <2>1
  <2>3. Rehomed(NoTr, {})
    BY <2>1, <2>2, ListsSame
  <2>4. Structure'
    BY <1>7, <2>2, <2>3
  <2>5. \A x \in Proc : AsyncOK(x)'
    BY <1>2, <1>4, <1>11, <2>1, FreeRecords, NoNewAsync
  <2> QED BY <1>8, <2>2, <2>4, <2>5, FromParts

\* The oneway call is over.
<1>12. ASSUME buffer[t].async
       PROVE  /\ \A x \in Proc : releasing # x /\ releasing' # x
              /\ proc[p].has_async
              /\ \A u \in InProgress(p) : u = t
  <2>1. AsyncOK(p) /\ \A x \in Proc : releasing # x /\ releasing' # x
    BY <1>2, ThreadAssumption DEF IInv
  <2>2. t \in InProgress(p)
    BY <1>1, <1>2, <1>4, <1>12, WaitingIsUnread DEF InProgress
  <2> QED BY <1>1, <1>2, <1>12, <2>1, <2>2 DEF AsyncOK
<1>13. CASE buffer[t].async /\ proc[p].async_todo = <<>>
  <2>1. /\ thread' = [thread EXCEPT ![th].known = TRUE]
        /\ proc' = [proc EXCEPT ![p].has_async = FALSE]
    BY <1>3, <1>13 DEF StartNextAsync
  <2>2. /\ thread'[th].todo = thread[th].todo
        /\ \A x \in Thread \ {th} : thread'[x] = thread[x]
        /\ \A x \in Thread : thread'[x].stack = thread[x].stack /\ ThreadOK(x)'
    BY <1>9, <1>10, <2>1
  <2>3. /\ proc'[p].todo = proc[p].todo /\ proc'[p].async_todo = proc[p].async_todo
        /\ ~proc'[p].has_async
        /\ \A x \in Proc \ {p} : proc'[x] = proc[x]
    <3> DEFINE r == proc[p]
               q == proc'[p]
    <3>1. /\ q = [r EXCEPT !.has_async = FALSE] /\ r \in BinderProc
          /\ \A x \in Proc \ {p} : proc'[x] = proc[x]
      BY <2>1, Fields DEF IInv, TypeOK
    <3> HIDE DEF r, q
    <3>2. q.todo = r.todo /\ q.async_todo = r.async_todo /\ ~q.has_async
      BY <3>1 DEF BinderProc
    <3> QED BY <3>1, <3>2 DEF q, r
  <2>4. Rehomed(NoTr, {})
    <3>1. \A x \in Thread : thread'[x].todo = thread[x].todo
      BY <2>2
    <3>2. \A x \in Proc : proc'[x].todo = proc[x].todo /\ proc'[x].async_todo = proc[x].async_todo
      BY <2>3
    <3> QED BY <3>1, <3>2, ListsSame
  <2>5. Structure'
    BY <1>7, <2>2, <2>4
  <2>6. \A u \in Tr : Waiting(u)' <=> Waiting(u)
    BY <2>3 DEF Waiting
  <2>7. ASSUME NEW x \in Proc, x # p PROVE AsyncOK(x)'
    <3>1. \A u \in Tr : buffer'[u] = buffer[u] \/ (buffer[u].node # x /\ buffer'[u].node # x)
      BY <1>1, <1>4, <2>7, FreeRecords, ThreadAssumption
    <3> QED BY <1>12, <1>13, <2>3, <2>6, <2>7, <3>1, AsyncElsewhere
  <2>8. AsyncOK(p)'
    <3>1. ASSUME NEW u \in Tr, buffer'[u].async, buffer'[u].state # "free", buffer'[u].node = p
          PROVE  FALSE
      <4>1. u # t
        BY <1>4, <3>1, FreeRecords
      <4>2. u \notin InProgress(p)
        BY <1>12, <1>13, <4>1
      <4>3. Waiting(u) /\ buffer[u].node = p
        BY <1>4, <3>1, <4>1, <4>2 DEF InProgress
      <4>4. InList(u, proc[p].async_todo)
        BY <4>3, WaitingIsUnread
      <4> QED BY <1>13, <4>4 DEF InList
    <3>2. InProgress(p)' = {}
      BY <3>1 DEF InProgress
    <3>3. OnlyCalls(proc[p].async_todo)' /\ proc'[p].async_todo = <<>>
      BY <1>13, <2>3 DEF OnlyCalls
    <3> QED BY <2>3, <3>1, <3>2, <3>3 DEF AsyncOK
  <2> QED BY <1>8, <2>2, <2>5, <2>7, <2>8, FromParts

\* The next one starts.
<1>14. CASE buffer[t].async /\ proc[p].async_todo # <<>>
  <2> DEFINE list == proc[p].async_todo
             w == Head(list)
  <2>1. /\ thread' = Enqueue([thread EXCEPT ![th].known = TRUE], th, w)
        /\ proc' = [proc EXCEPT ![p].async_todo = Tail(list)]
    BY <1>3, <1>14 DEF StartNextAsync
  <2>2. /\ list \in Seq(Work) /\ list # <<>> /\ OnlyCalls(list)
        /\ w \in Work /\ w.type = "call" /\ OnlyCalls(Tail(list))
    BY <1>14, OnlyCallsTail, Fields, ListTypes DEF IInv, AsyncOK
  <2>3. PICK n \in Tr : w = CallWork(n)
    BY <2>2, CallWorks
  <2>4. /\ thread'[th] = [thread[th] EXCEPT !.known = TRUE, !.todo = Append(thread[th].todo, w)]
        /\ \A x \in Thread \ {th} : thread'[x] = thread[x]
    <3> DEFINE f == [thread EXCEPT ![th].known = TRUE]
               r == thread[th]
               c == [r EXCEPT !.known = TRUE]
               q == thread'[th]
    <3>1. f[th] = c /\ DOMAIN f = Thread /\ r \in BinderThread
          /\ \A x \in Thread \ {th} : f[x] = thread[x]
      BY Fields DEF IInv, TypeOK
    <3> HIDE DEF f, w
    <3>2. /\ q = [c EXCEPT !.todo = Append(@, w)]
          /\ \A x \in Thread \ {th} : thread'[x] = thread[x]
      BY <2>1, <3>1 DEF Enqueue, f
    <3> HIDE DEF r, q
    <3>3. q = [r EXCEPT !.known = TRUE, !.todo = Append(r.todo, w)]
      BY <3>1, <3>2 DEF BinderThread
    <3> QED BY <3>2, <3>3 DEF r, q
  <2>5. /\ thread'[th].todo = Append(thread[th].todo, w)
        /\ \A x \in Thread : thread'[x].stack = thread[x].stack /\ ThreadOK(x)'
    <3> HIDE DEF w
    <3> QED BY <1>9, <2>4
  <2>6. /\ proc'[p].todo = proc[p].todo /\ proc'[p].async_todo = Tail(list)
        /\ proc'[p].has_async <=> proc[p].has_async
        /\ \A x \in Proc \ {p} : proc'[x] = proc[x]
    <3> DEFINE r == proc[p]
               q == proc'[p]
               rest == Tail(list)
    <3>1. /\ q = [r EXCEPT !.async_todo = rest] /\ r \in BinderProc
          /\ \A x \in Proc \ {p} : proc'[x] = proc[x]
      BY <2>1, Fields DEF IInv, TypeOK
    <3> HIDE DEF r, q, rest
    <3>2. /\ q.todo = r.todo /\ q.async_todo = rest
          /\ q.has_async <=> r.has_async
      BY <3>1 DEF BinderProc
    <3>3. q = proc'[p] /\ r = proc[p] /\ rest = Tail(list)
      BY DEF q, r, rest
    <3> HIDE DEF list
    <3> QED BY <3>1, <3>2, <3>3
  <2>7. Holds(<<"async", p>>, n) /\ Rehomed(n, {<<"thread", th>>})
    <3> DEFINE p0 == <<"async", p>>
               p1 == <<"thread", th>>
    <3>1. /\ p0 \in Place /\ p1 \in Place /\ p0 # p1
          /\ ListAt(p0) = list /\ ListAt(p1) = thread[th].todo
          /\ ListAt(p0)' = Tail(list) /\ ListAt(p1)' = Append(thread[th].todo, w)
      BY <2>5, <2>6, Places, ListOf, ListOfNext
    <3>2. ASSUME NEW pl \in Place \ {p0, p1} PROVE ListAt(pl)' = ListAt(pl)
      <4>1. ASSUME NEW x \in Thread, pl = <<"thread", x>> PROVE ListAt(pl)' = ListAt(pl)
        <5>1. x # th
          BY <3>2, <4>1
        <5> QED BY <2>4, <4>1, <5>1, ListOf, ListOfNext
      <4>2. ASSUME NEW x \in Proc, pl = <<"proc", x>> PROVE ListAt(pl)' = ListAt(pl)
        BY <2>6, <4>2, ListOf, ListOfNext
      <4>3. ASSUME NEW x \in Proc, pl = <<"async", x>> PROVE ListAt(pl)' = ListAt(pl)
        <5>1. x # p
          BY <3>2, <4>3
        <5> QED BY <2>6, <4>3, <5>1, ListOf, ListOfNext
      <4> QED BY <4>1, <4>2, <4>3, Places
    <3>3. /\ ListAt(p0) # <<>> /\ ListAt(p0)' = Tail(ListAt(p0))
          /\ ListAt(p1)' = Append(ListAt(p1), Head(ListAt(p0)))
          /\ Head(ListAt(p0)) = CallWork(n)
      BY <2>2, <2>3, <3>1
    <3> HIDE DEF p0, p1, list, w
    <3>4. Holds(p0, n) /\ Rehomed(n, {p1})
      BY <3>1, <3>2, <3>3, CallMoves
    <3> QED BY <3>4 DEF p0, p1
  <2>8. /\ Held(n) /\ tx[n].live /\ tx[n].oneway /\ buffer[n].node = p /\ Unread(n)
        /\ buffer[n].async
    <3>1. InList(n, proc[p].async_todo)
      BY <2>7, ListOf DEF Holds
    <3> QED BY <3>1, WaitingCalls
  <2>9. {<<"thread", th>>} \in SUBSET Place
    BY Places
  <2>10. Structure'
    BY <1>7, <2>5, <2>7, <2>8, <2>9
  <2>11. /\ \A u \in Tr : u # n => (Waiting(u)' <=> Waiting(u))
         /\ ~Waiting(n)'
    <3>1. \A u \in Tr : /\ u # n => (Waiting(u)' <=> Waiting(u))
                        /\ u = n => (Waiting(u)' <=>
                             \E x \in Proc : <<"async", x>> \in {<<"thread", th>>})
      BY <2>7, <2>9, WaitsNext
    <3> QED BY <3>1, Places
  <2>12. ASSUME NEW x \in Proc, x # p PROVE AsyncOK(x)'
    <3>1. \A u \in Tr : buffer'[u] = buffer[u] \/ (buffer[u].node # x /\ buffer'[u].node # x)
      BY <1>1, <1>4, <2>12, FreeRecords, ThreadAssumption
    <3>2. \A u \in Tr : buffer[u].node = x => (Waiting(u)' <=> Waiting(u))
      BY <2>8, <2>11, <2>12
    <3> QED BY <1>12, <1>14, <2>6, <2>12, <3>1, <3>2, AsyncElsewhere
  <2>13. AsyncOK(p)'
    <3>0. n # t
      BY <1>4, <2>8
    <3>1. \A u \in InProgress(p)' : u = n
      <4> SUFFICES ASSUME NEW u \in InProgress(p)', u # n PROVE FALSE
        OBVIOUS
      <4>1. u \in Tr /\ u # t
        BY <1>4, FreeRecords DEF InProgress
      <4>2. u \in InProgress(p)
        BY <1>4, <2>11, <4>1 DEF InProgress
      <4> QED BY <1>12, <1>14, <4>1, <4>2
    <3>2. n \in InProgress(p)'
      BY <1>4, <2>8, <2>11, <3>0 DEF InProgress, Unread
    <3>3. OnlyCalls(proc[p].async_todo)' /\ proc'[p].has_async
      BY <1>12, <1>14, <2>2, <2>6 DEF OnlyCalls
    <3>4. /\ \A s, u \in InProgress(p)' : s = u
          /\ proc'[p].has_async => InProgress(p)' # {}
      BY <3>1, <3>2
    <3> QED BY <3>3, <3>4 DEF AsyncOK
  <2> QED BY <1>8, <2>5, <2>10, <2>12, <2>13, FromParts
<1> QED BY <1>11, <1>13, <1>14

LEMMA CutKeeps ==
  ASSUME IInv, TypeOK', NEW th \in Thread, CutThread(th), thread[th].known,
         failing.t = NoTr, freeing = NoThread, UNCHANGED <<calls, proc, releasing>>
  PROVE  IInv'
<1>1. /\ Structure' /\ FailOK'
      /\ \A x \in Thread \ {th} : thread'[x] = thread[x]
      /\ ThreadOK(th)'
  BY ThreadCut
<1>2. \A t \in Tr : /\ tx'[t].from = IF tx[t].from = th THEN NoThread ELSE tx[t].from
                    /\ buffer'[t].async <=> buffer[t].async
                    /\ buffer'[t].state = "free" <=> buffer[t].state = "free"
                    /\ buffer'[t].node = buffer[t].node
  BY CutCalls
<1>3. ASSUME NEW x \in Thread PROVE ThreadOK(x)'
  <2>1. CASE x = th
    BY <1>1, <2>1
  <2>2. CASE x # th
    <3>1. thread[x].stack # NoTr => \/ tx'[thread[x].stack].from = tx[thread[x].stack].from
                                    \/ tx'[thread[x].stack].from # x
      BY <1>2, ThreadAssumption, Fields DEF IInv
    <3> QED BY <1>1, <2>2, <3>1, ThreadKept
  <2> QED BY <2>1, <2>2
<1>4. \A p \in Proc : AsyncOK(p)'
  BY <1>2, AsyncSame
<1> QED BY <1>1, <1>3, <1>4, FromParts

LEMMA ThreadExitKeeps ==
  ASSUME IInv, TypeOK', NEW th \in Thread, ThreadExit(th)
  PROVE  IInv'
BY CutKeeps DEF ThreadExit, InIoctl, Unlocked

LEMMA ReleaseThreadKeeps ==
  ASSUME IInv, TypeOK', NEW th \in Thread, ReleaseThread(th)
  PROVE  IInv'
BY CutKeeps DEF ReleaseThread, Releasing

\* binder_release_work of one work.
LEMMA WorkReleased ==
  ASSUME IInv, NEW w \in Work, ReleaseWork(w), failing.t = NoTr,
         freeing' = freeing, calls' = calls,
         w.type # "call" => Rehomed(NoTr, {}),
         w.type = "call" => /\ w.t \in Tr /\ Held(w.t) /\ Rehomed(w.t, {})
                            /\ tx[w.t].to_thread # NoThread
                                 => thread[tx[w.t].to_thread].known,
         \A th \in Thread : /\ thread'[th].stack = thread[th].stack
                            /\ thread[th].known => thread'[th].known
  PROVE  /\ Structure' /\ FailOK'
         /\ \A u \in Tr : /\ tx'[u].from = tx[u].from
                          /\ buffer'[u].async <=> buffer[u].async
                          /\ buffer'[u].state = "free" <=> buffer[u].state = "free"
                          /\ buffer'[u].node = buffer[u].node
<1> DEFINE t == w.t
<1>1. freeing' # NoThread => thread'[freeing'].known /\ thread'[freeing'].stack = NoTr
  BY Fields DEF IInv, FailOK
<1>2. ASSUME w.type = "call"
      PROVE  /\ t \in Tr /\ Held(t) /\ Rehomed(t, {}) /\ tx[t].live /\ Unread(t)
             /\ Leaf(FP, t) /\ t # NoTr
  <2>1. t \in Tr /\ Held(t) /\ Rehomed(t, {})
    BY <1>2
  <2>2. tx[t].live /\ Unread(t)
    BY <2>1 DEF Held, QueueOK, IInv
  <2> HIDE DEF t
  <2> QED BY <2>1, <2>2, UnreadIsLeaf, Numbers
<1>3. CASE w.type # "call"
  <2>1. UNCHANGED <<tx, buffer, failing>> /\ Rehomed(NoTr, {})
    BY <1>3 DEF ReleaseWork
  <2>2. Structure'
    <3>1. /\ UNCHANGED <<calls, tx, buffer>> /\ NoTr \in {NoTr, failing'.t}
          /\ failing'.t \in Tr \cup {NoTr} /\ failing.t \in {NoTr, failing'.t}
          /\ failing'.t = failing.t
          /\ \A x \in Thread : x = freeing /\ x # freeing' => thread[x].todo = <<>>
      BY <2>1
    <3> QED BY <2>1, <3>1, Unmoved
  <2>3. FailOK'
    BY <1>1, <2>1 DEF FailOK
  <2> QED BY <2>1, <2>2, <2>3
<1>4. CASE w.type = "call" /\ ~tx[t].oneway
  <2>1. UNCHANGED <<tx, buffer>> /\ failing'.t = t /\ failing'.code = "DEAD_REPLY" /\ Sync(t)
    BY <1>2, <1>4 DEF ReleaseWork, Sync, Work
  <2>2. tx[t].to_thread # NoThread => thread[tx[t].to_thread].known
    BY <1>4
  <2>3. t \in Tr /\ Rehomed(t, {}) /\ Unread(t) /\ Leaf(FP, t)
    BY <1>2, <1>4
  <2> HIDE DEF t
  <2>4. Structure'
    <3>1. /\ UNCHANGED <<calls, tx, buffer>> /\ t \in {NoTr, failing'.t}
          /\ failing'.t \in Tr \cup {NoTr} /\ failing.t \in {NoTr, failing'.t}
          /\ failing'.t \in {t, failing.t} /\ Unread(failing'.t)
          /\ \A x \in Thread : x = freeing /\ x # freeing' => thread[x].todo = <<>>
      BY <2>1, <2>3
    <3> QED BY <2>1, <2>3, <3>1, Unmoved
  <2>5. FailOK'
    <3>1. Sync(t)' /\ Leaf(FP, t)' /\ Unread(t)'
      BY <2>1, <2>3 DEF Sync, Leaf, FP, Unread
    <3>2. tx'[t].to_thread # NoThread => thread'[tx'[t].to_thread].known
      <4>1. tx'[t] = tx[t] /\ tx[t].to_thread \in Thread \cup {NoThread}
        BY <2>1, <2>3, Fields DEF IInv
      <4> QED BY <2>2, <4>1
    <3> QED BY <1>1, <2>1, <3>1, <3>2 DEF FailOK, Sync, Leaf, Unread
  <2> QED BY <2>1, <2>4, <2>5
<1>5. CASE w.type = "call" /\ tx[t].oneway
  <2>1. /\ tx' = Popped(t) /\ failing' = failing
        /\ buffer' = [buffer EXCEPT ![t].transaction = FALSE]
    BY <1>5 DEF ReleaseWork, Work
  <2>2. t \in Tr /\ Rehomed(t, {}) /\ tx[t].live /\ ~Sync(t)
    BY <1>2, <1>5 DEF Sync
  <2> HIDE DEF t
  <2>3. /\ tx[t].from = NoThread /\ tx[t].from_parent = NoTr
        /\ \A x : t \notin Frames(x)
    BY <2>2, NotSync DEF Frames
  <2>4. /\ \A u \in Tr \ {t} : buffer'[u] = buffer[u]
        /\ buffer'[t].transaction = FALSE
        /\ buffer'[t].async <=> buffer[t].async
        /\ buffer'[t].state = buffer[t].state /\ buffer'[t].node = buffer[t].node
    <3> DEFINE b == buffer[t]
               d == buffer'[t]
    <3>1. d = [b EXCEPT !.transaction = FALSE] /\ b \in Buffer
          /\ \A u \in Tr \ {t} : buffer'[u] = buffer[u]
      BY <2>1, <2>2, Fields DEF IInv, TypeOK
    <3> HIDE DEF b, d
    <3>2. /\ d.transaction = FALSE /\ d.state = b.state /\ d.node = b.node
          /\ d.async <=> b.async
      BY <3>1 DEF Buffer
    <3>3. b = buffer[t] /\ d = buffer'[t]
      BY DEF b, d
    <3> QED BY <3>1, <3>2, <3>3
  <2>5. Structure' /\ \A u \in Tr \ {t} : tx'[u] = tx[u]
    <3>1. failing'.t = IF tx[t].from = NoThread THEN tx[t].from_parent ELSE NoTr
      BY <2>1, <2>3
    <3>2. \A x \in Thread : thread'[x].stack = IF t \in Frames(x) THEN LinkOf(x, t)
                                               ELSE thread[x].stack
      BY <2>3
    <3>3. t \in {NoTr, t} /\ failing.t \in {NoTr, t}
      OBVIOUS
    <3> QED BY <2>1, <2>2, <2>4, <3>1, <3>2, <3>3, CallPopped
  <2>6. tx'[t].from = NoThread
    BY <2>1, <2>2 DEF Popped, IInv, TypeOK, FreedTransaction
  <2>7. FailOK'
    BY <1>1, <2>1 DEF FailOK
  <2>8. \A u \in Tr : /\ tx'[u].from = tx[u].from
                      /\ buffer'[u].async <=> buffer[u].async
                      /\ buffer'[u].state = "free" <=> buffer[u].state = "free"
                      /\ buffer'[u].node = buffer[u].node
    BY <2>3, <2>4, <2>5, <2>6
  <2> QED BY <2>5, <2>7, <2>8
<1> QED BY <1>3, <1>4, <1>5

LEMMA ReleaseThreadWorkKeeps ==
  ASSUME IInv, TypeOK', ReleaseThreadWork
  PROVE  IInv'
<1>1. PICK th \in Thread : th = freeing
  BY Fields DEF IInv, ReleaseThreadWork
<1> DEFINE w == Head(thread[th].todo)
           rest == Tail(thread[th].todo)
<1>2. /\ failing.t = NoTr /\ thread[th].todo # <<>> /\ ReleaseWork(w)
      /\ thread' = [thread EXCEPT ![th].todo = rest]
      /\ UNCHANGED <<calls, proc, freeing, releasing>>
  BY <1>1 DEF ReleaseThreadWork
<1>3. thread[th].known /\ ThreadOK(th)
  BY <1>2, UsedIsKnown DEF IInv
<1> DEFINE r == thread[th]
           q == thread'[th]
<1>4. q = [r EXCEPT !.todo = rest] /\ r \in BinderThread
      /\ \A x \in Thread \ {th} : thread'[x] = thread[x]
  BY <1>2, Fields DEF IInv, TypeOK
<1>5. q = thread'[th] /\ r = thread[th]
  OBVIOUS
<1> HIDE DEF r, q, rest
<1>6. /\ q.known <=> r.known
      /\ q.stack = r.stack /\ q.todo = rest /\ q.wait = r.wait
      /\ q.error = r.error /\ q.error2 = r.error2
  BY <1>4 DEF BinderThread
<1>7. \A x \in Thread : /\ thread'[x].stack = thread[x].stack
                        /\ thread[x].known => thread'[x].known
  BY <1>4, <1>5, <1>6
<1>8. /\ w \in Work
      /\ w.type # "call" => Rehomed(NoTr, {})
      /\ w.type = "call" => /\ w.t \in Tr /\ Holds(<<"thread", th>>, w.t)
                            /\ Held(w.t) /\ Rehomed(w.t, {})
  <2>1. thread'[th].todo = Tail(thread[th].todo)
    BY <1>5, <1>6 DEF rest
  <2>2. /\ \A x \in Thread \ {th} : thread'[x].todo = thread[x].todo
        /\ \A p \in Proc : /\ proc'[p].todo = proc[p].todo
                           /\ proc'[p].async_todo = proc[p].async_todo
    BY <1>2, <1>4
  <2> QED BY <1>2, <2>1, <2>2, ThreadWorkTaken
<1> HIDE DEF w
<1>9. ASSUME w.type = "call", tx[w.t].to_thread # NoThread
      PROVE  thread[tx[w.t].to_thread].known
  <2>1. IsHome(<<"thread", th>>, w.t)
    BY <1>8, <1>9, Places DEF QueueOK, IInv
  <2>2. tx[w.t].oneway \/ tx[w.t].to_thread = th
    BY <2>1, Places DEF IsHome
  <2>3. ~tx[w.t].oneway
    BY <1>8, <1>9, NotSync DEF Sync
  <2> QED BY <1>3, <2>2, <2>3
<1>10. /\ Structure' /\ FailOK'
       /\ \A u \in Tr : /\ tx'[u].from = tx[u].from
                        /\ buffer'[u].async <=> buffer[u].async
                        /\ buffer'[u].state = "free" <=> buffer[u].state = "free"
                        /\ buffer'[u].node = buffer[u].node
  BY <1>2, <1>7, <1>8, <1>9, WorkReleased
<1>11. \A p \in Proc : AsyncOK(p)'
  BY <1>2, <1>10, AsyncSame
<1>12. ASSUME NEW x \in Thread PROVE ThreadOK(x)'
  <2>0. thread[x].stack # NoTr => tx'[thread[x].stack].from = tx[thread[x].stack].from
    BY <1>10, Fields DEF IInv
  <2>1. CASE x = th
    <3>1. r.known /\ r.wait # "proc"
      BY <1>2, <1>3, <1>5 DEF ThreadOK
    <3> QED BY <1>3, <1>5, <1>6, <2>0, <2>1, <3>1 DEF ThreadOK
  <2>2. CASE x # th
    BY <1>4, <2>0, <2>2, ThreadKept
  <2> QED BY <2>1, <2>2
<1> QED BY <1>10, <1>11, <1>12, FromParts

LEMMA ReleaseNodeKeeps ==
  ASSUME IInv, TypeOK', ReleaseNode
  PROVE  IInv'
<1>1. PICK p \in Proc : p = releasing
  BY Fields DEF IInv, ReleaseNode, Releasing
<1> DEFINE w == Head(proc[p].async_todo)
           rest == Tail(proc[p].async_todo)
<1>2. /\ failing.t = NoTr /\ proc[p].async_todo # <<>> /\ ReleaseWork(w)
      /\ proc' = [proc EXCEPT ![p].async_todo = rest]
      /\ UNCHANGED <<calls, thread, freeing, releasing>>
  BY <1>1 DEF ReleaseNode, Releasing
<1> DEFINE r == proc[p]
           q == proc'[p]
<1>3. q = [r EXCEPT !.async_todo = rest] /\ r \in BinderProc
      /\ \A x \in Proc \ {p} : proc'[x] = proc[x]
  BY <1>2, Fields DEF IInv, TypeOK
<1>4. q = proc'[p] /\ r = proc[p]
  OBVIOUS
<1> HIDE DEF r, q, rest
<1>5. /\ q.has_async <=> r.has_async
      /\ q.todo = r.todo /\ q.async_todo = rest
  BY <1>3 DEF BinderProc
<1>6. /\ w \in Work
      /\ w.type # "call" => Rehomed(NoTr, {})
      /\ w.type = "call" => /\ w.t \in Tr /\ Holds(<<"async", p>>, w.t)
                            /\ Held(w.t) /\ Rehomed(w.t, {})
  <2>1. /\ proc'[p].async_todo = Tail(proc[p].async_todo) /\ proc'[p].todo = proc[p].todo
        /\ \A x \in Proc \ {p} : /\ proc'[x].todo = proc[x].todo
                                 /\ proc'[x].async_todo = proc[x].async_todo
    BY <1>3, <1>4, <1>5 DEF rest
  <2> QED BY <1>2, <2>1, AsyncWorkTaken
<1>7. w.type = "call" /\ OnlyCalls(rest)
  BY <1>2, OnlyCallsTail, Fields DEF IInv, AsyncOK, rest
<1> HIDE DEF w
<1>8. /\ tx[w.t].oneway /\ tx[w.t].to_thread = NoThread /\ buffer[w.t].node = p
  <2>1. InList(w.t, proc[p].async_todo)
    BY <1>6, <1>7, ListOf DEF Holds
  <2>2. tx[w.t].oneway /\ buffer[w.t].node = p
    BY <1>6, <1>7, <2>1, WaitingCalls
  <2> QED BY <1>6, <1>7, <2>2, NotSync DEF Sync
<1>9. /\ Structure' /\ FailOK'
      /\ \A u \in Tr : /\ tx'[u].from = tx[u].from
                       /\ buffer'[u].async <=> buffer[u].async
                       /\ buffer'[u].state = "free" <=> buffer[u].state = "free"
                       /\ buffer'[u].node = buffer[u].node
  BY <1>2, <1>6, <1>8, WorkReleased
<1>10. ASSUME NEW x \in Proc PROVE AsyncOK(x)'
  <2>1. \A u \in Tr : u # w.t => (Waiting(u)' <=> Waiting(u))
    BY <1>6, <1>7, WaitsNext
  <2>2. \A u \in Tr : releasing' # x /\ buffer[u].node = x => (Waiting(u)' <=> Waiting(u))
    BY <1>1, <1>2, <1>8, <2>1
  <2>3. /\ proc'[x].has_async <=> proc[x].has_async
        /\ proc'[x].async_todo # <<>> => proc[x].async_todo # <<>>
        /\ OnlyCalls(proc'[x].async_todo)
    <3>1. CASE x = p
      BY <1>2, <1>4, <1>5, <1>7, <3>1
    <3>2. CASE x # p
      BY <1>3, <3>2 DEF IInv, AsyncOK
    <3> QED BY <3>1, <3>2
  <2>4. \A u \in Tr : /\ buffer'[u].async <=> buffer[u].async
                      /\ buffer'[u].state = "free" <=> buffer[u].state = "free"
                      /\ buffer'[u].node = buffer[u].node
                      /\ releasing' # x /\ buffer[u].node = x => (Waiting(u)' <=> Waiting(u))
    BY <1>9, <2>2
  <2>5. releasing' # x => releasing # x
    BY <1>2
  <2> QED BY <2>3, <2>4, <2>5, AsyncKept
<1>11. ASSUME NEW x \in Thread PROVE ThreadOK(x)'
  <2>0. thread[x].stack # NoTr => tx'[thread[x].stack].from = tx[thread[x].stack].from
    BY <1>9, Fields DEF IInv
  <2> QED BY <1>2, <2>0, ThreadKept
<1> QED BY <1>9, <1>10, <1>11, FromParts

LEMMA ReleaseProcWorkKeeps ==
  ASSUME IInv, TypeOK', ReleaseProcWork
  PROVE  IInv'
<1>1. PICK p \in Proc : p = releasing
  BY Fields DEF IInv, ReleaseProcWork, Releasing
<1> DEFINE w == Head(proc[p].todo)
           rest == Tail(proc[p].todo)
<1>2. /\ failing.t = NoTr /\ proc[p].todo # <<>> /\ ReleaseWork(w)
      /\ proc' = [proc EXCEPT ![p].todo = rest]
      /\ UNCHANGED <<calls, thread, freeing, releasing>>
  BY <1>1 DEF ReleaseProcWork, Releasing
<1> DEFINE r == proc[p]
           q == proc'[p]
<1>3. q = [r EXCEPT !.todo = rest] /\ r \in BinderProc
      /\ \A x \in Proc \ {p} : proc'[x] = proc[x]
  BY <1>2, Fields DEF IInv, TypeOK
<1>4. q = proc'[p] /\ r = proc[p]
  OBVIOUS
<1> HIDE DEF r, q, rest
<1>5. /\ q.has_async <=> r.has_async
      /\ q.async_todo = r.async_todo /\ q.todo = rest
  BY <1>3 DEF BinderProc
<1>6. /\ w \in Work
      /\ w.type # "call" => Rehomed(NoTr, {})
      /\ w.type = "call" => /\ w.t \in Tr /\ Holds(<<"proc", p>>, w.t)
                            /\ Held(w.t) /\ Rehomed(w.t, {})
  <2>1. /\ proc'[p].todo = Tail(proc[p].todo) /\ proc'[p].async_todo = proc[p].async_todo
        /\ \A x \in Proc \ {p} : /\ proc'[x].todo = proc[x].todo
                                 /\ proc'[x].async_todo = proc[x].async_todo
    BY <1>3, <1>4, <1>5 DEF rest
  <2> QED BY <1>2, <2>1, ProcWorkTaken
<1> HIDE DEF w
<1>7. ASSUME w.type = "call" PROVE tx[w.t].to_thread = NoThread
  <2>1. IsHome(<<"proc", p>>, w.t)
    BY <1>6, <1>7, Places DEF QueueOK, IInv
  <2> QED BY <2>1, Places DEF IsHome
<1>8. /\ Structure' /\ FailOK'
      /\ \A u \in Tr : /\ tx'[u].from = tx[u].from
                       /\ buffer'[u].async <=> buffer[u].async
                       /\ buffer'[u].state = "free" <=> buffer[u].state = "free"
                       /\ buffer'[u].node = buffer[u].node
  BY <1>2, <1>6, <1>7, WorkReleased
<1>9. \A x \in Proc : AsyncOK(x)'
  <2>1. \A x \in Proc : /\ proc'[x].has_async <=> proc[x].has_async
                        /\ proc'[x].async_todo = proc[x].async_todo
    BY <1>3, <1>4, <1>5
  <2> QED BY <1>2, <1>8, <2>1, AsyncSame
<1>10. ASSUME NEW x \in Thread PROVE ThreadOK(x)'
  <2>0. thread[x].stack # NoTr => tx'[thread[x].stack].from = tx[thread[x].stack].from
    BY <1>8, Fields DEF IInv
  <2> QED BY <1>2, <2>0, ThreadKept
<1> QED BY <1>8, <1>9, <1>10, FromParts

LEMMA ReleaseBuffersKeeps ==
  ASSUME IInv, TypeOK', ReleaseBuffers
  PROVE  IInv'
<1>1. PICK p \in Proc : p = releasing
  BY Fields DEF IInv, ReleaseBuffers, Releasing
<1> DEFINE D == {t \in Tr : buffer[t].state # "free" /\ buffer[t].node = p}
<1>2. /\ failing.t = NoTr /\ freeing = NoThread /\ ~HasThread(p)
      /\ proc[p].async_todo = <<>> /\ proc[p].todo = <<>>
      /\ buffer' = [t \in Tr |-> IF t \in D THEN FreeBuffer ELSE buffer[t]]
      /\ tx' = [t \in Tr |-> [tx[t] EXCEPT !.buffer =
                  IF t \in D /\ buffer[t].transaction THEN FALSE ELSE @]]
      /\ proc' = [proc EXCEPT ![p] = [@ EXCEPT !.state = "released", !.has_async = FALSE]]
      /\ releasing' = NoProc
      /\ UNCHANGED <<calls, thread, failing, freeing>>
  BY <1>1 DEF ReleaseBuffers, Releasing
<1>3. ASSUME NEW t \in D, tx[t].live, Unread(t) PROVE FALSE
  <2>1. t \in Tr /\ buffer[t].node = p /\ t # failing.t
    BY <1>2, Numbers
  <2>2. OnewayOK(t) /\ SyncOK(t) /\ QueueOK(t)
    BY <2>1 DEF IInv, CallsOK
  <2>3. Held(t)
    BY <1>3, <2>1, <2>2 DEF OnewayOK, SyncOK, Sync
  <2>4. PICK pl \in Place : Holds(pl, t) /\ IsHome(pl, t)
    BY <2>2, <2>3 DEF Held, QueueOK
  <2>5. ListAt(pl) = <<>>
    <3>1. CASE pl = <<"proc", p>> \/ pl = <<"async", p>>
      BY <1>2, <3>1, ListOf
    <3>2. ASSUME NEW x \in Thread, pl = <<"thread", x>>, ProcOf[x] = p PROVE ListAt(pl) = <<>>
      <4>1. ~thread[x].known
        BY <1>2, <3>2 DEF HasThread
      <4>2. thread[x].todo = <<>>
        BY <4>1, UsedIsKnown
      <4> QED BY <3>2, <4>2, ListOf
    <3> QED BY <2>1, <2>4, <3>1, <3>2 DEF IsHome
  <2> QED BY <2>1, <2>4, <2>5, EmptyList DEF Holds
<1>4. /\ \A t \in D : tx'[t] = [tx[t] EXCEPT !.buffer = FALSE]
      /\ \A t \in Tr \ D : tx'[t] = tx[t]
  <2>1. ASSUME NEW t \in D PROVE tx'[t] = [tx[t] EXCEPT !.buffer = FALSE]
    <3>1. t \in Tr /\ tx[t] \in Transaction /\ RecordOK(t)
      BY Fields DEF IInv, CallsOK
    <3>2. CASE buffer[t].transaction
      BY <1>2, <2>1, <3>1, <3>2
    <3>3. CASE ~buffer[t].transaction
      <4>1. ~tx[t].buffer
        BY <3>1, <3>3 DEF RecordOK
      <4>2. [tx[t] EXCEPT !.buffer = FALSE] = tx[t]
        BY <3>1, <4>1, WithoutBuffer
      <4>3. tx'[t] = [tx[t] EXCEPT !.buffer = @]
        BY <1>2, <2>1, <3>1, <3>3
      <4>4. tx'[t] = tx[t]
        BY <3>1, <4>3 DEF Transaction
      <4> QED BY <4>2, <4>4
    <3> QED BY <3>2, <3>3
  <2>2. ASSUME NEW t \in Tr \ D PROVE tx'[t] = tx[t]
    <3>1. tx[t] \in Transaction
      BY Fields DEF IInv
    <3> HIDE DEF D
    <3>2. tx'[t] = [tx[t] EXCEPT !.buffer = @]
      BY <1>2, <2>2
    <3> QED BY <3>1, <3>2 DEF Transaction
  <2> QED BY <2>1, <2>2
<1>5. \A u \in Tr : tx'[u].from = tx[u].from
  <2>1. ASSUME NEW u \in D PROVE tx'[u].from = tx[u].from
    <3>1. u \in Tr /\ tx'[u] = [tx[u] EXCEPT !.buffer = FALSE]
      BY <1>4
    <3> HIDE DEF D
    <3>2. tx[u] \in Transaction
      BY <3>1, Fields DEF IInv
    <3> QED BY <3>1, <3>2, WithoutBuffer
  <2> QED BY <1>4, <2>1
<1>6. /\ proc'[p].todo = proc[p].todo /\ proc'[p].async_todo = <<>> /\ ~proc'[p].has_async
      /\ \A x \in Proc \ {p} : proc'[x] = proc[x]
  <2> DEFINE r == proc[p]
             q == proc'[p]
  <2>1. /\ q = [r EXCEPT !.state = "released", !.has_async = FALSE] /\ r \in BinderProc
        /\ \A x \in Proc \ {p} : proc'[x] = proc[x]
    BY <1>2, Fields DEF IInv, TypeOK
  <2> HIDE DEF r, q
  <2>2. q.todo = r.todo /\ q.async_todo = r.async_todo /\ ~q.has_async
    BY <2>1 DEF BinderProc
  <2> QED BY <1>2, <2>1, <2>2 DEF q, r
<1>7. Rehomed(NoTr, {})
  <2>1. \A x \in Proc : proc'[x].todo = proc[x].todo /\ proc'[x].async_todo = proc[x].async_todo
    BY <1>2, <1>6
  <2> QED BY <1>2, <2>1, ListsSame
<1>8. \A t \in Tr : buffer'[t] = IF t \in D THEN FreeBuffer ELSE buffer[t]
  BY <1>2
<1>9. Structure'
  <2>1. D \in SUBSET Tr /\ (\A t \in D : tx[t].live => ~Unread(t))
    BY <1>3
  <2>2. {} \in SUBSET Place /\ NoTr = NoTr
    OBVIOUS
  <2> HIDE DEF D
  <2> QED BY <1>2, <1>4, <1>7, <1>8, <2>1, <2>2, BuffersFreed
<1>10. FailOK'
  BY <1>2, NothingFails
<1>11. \A u \in Tr : Waiting(u)' <=> Waiting(u)
  BY <1>7, WaitsNext, Numbers
<1>12. ASSUME NEW x \in Proc, x # p PROVE AsyncOK(x)'
  <2>1. \A u \in Tr : buffer'[u] = buffer[u] \/ (buffer[u].node # x /\ buffer'[u].node # x)
    BY <1>8, <1>12, FreeRecords, ThreadAssumption
  <2>2. releasing' # x => releasing # x
    BY <1>1, <1>12
  <2> QED BY <1>6, <1>11, <1>12, <2>1, <2>2, AsyncElsewhere
<1>13. AsyncOK(p)'
  <2>1. ASSUME NEW u \in Tr, buffer'[u].async, buffer'[u].state # "free", buffer'[u].node = p
        PROVE  FALSE
    BY <1>8, <2>1, FreeRecords
  <2>2. InProgress(p)' = {}
    BY <2>1 DEF InProgress
  <2>3. OnlyCalls(proc[p].async_todo)'
    BY <1>6 DEF OnlyCalls
  <2> QED BY <1>6, <2>1, <2>2, <2>3 DEF AsyncOK
<1>14. ASSUME NEW x \in Thread PROVE ThreadOK(x)'
  <2>0. thread[x].stack # NoTr => tx'[thread[x].stack].from = tx[thread[x].stack].from
    BY <1>5, Fields DEF IInv
  <2> QED BY <1>2, <2>0, ThreadKept
<1> QED BY <1>9, <1>10, <1>12, <1>13, <1>14, FromParts

-----------------------------------------------------------------------------
(* The invariant holds in every reachable state. *)

LEMMA InitIInv ==
  ASSUME Init
  PROVE  IInv
<1>1. /\ \A t \in Tr : tx[t] = FreedTransaction /\ buffer[t] = FreeBuffer
      /\ \A th \in Thread : thread[th] = NewThread
      /\ \A p \in Proc : proc[p] = NewProc
      /\ calls = 0 /\ failing = NoFailure /\ freeing = NoThread /\ releasing = NoProc
  BY DEF Init
<1>2. TypeOK
  BY InitTypeOK
<1>3. /\ NewThread.stack = NoTr /\ NewThread.todo = <<>> /\ NewThread.wait = "running"
      /\ NewThread.error2 = "OK" /\ NewProc.todo = <<>> /\ NewProc.async_todo = <<>>
      /\ NewProc.has_async = FALSE /\ failing.t = NoTr
  BY <1>1 DEF NewThread, NewProc, NoFailure
<1>4. ASSUME NEW pl \in Place PROVE ListAt(pl) = <<>>
  BY <1>1, <1>3, Places, ListOf
<1>5. \A pl \in Place : Once(ListAt(pl)) /\ \A t \in Tr : ~Holds(pl, t)
  BY <1>4, EmptyList DEF Holds
<1>6. \A t \in Tr : ~Sync(t) /\ ~tx[t].live /\ ~Held(t)
  BY <1>1, <1>5, FreeRecords DEF Sync, Held
<1>7. \A t \in Tr : QueueOK(t) /\ NestedOK(t)
  BY <1>5, <1>6 DEF QueueOK, NestedOK
<1>8. CallsOK
  <2> SUFFICES ASSUME NEW t \in Tr
               PROVE  RecordOK(t) /\ OnewayOK(t) /\ SyncOK(t) /\ ParentOK(t)
    BY DEF CallsOK
  <2>1. FreedTransaction.buffer = FALSE
    BY DEF FreedTransaction
  <2>2. buffer[t].transaction = tx[t].buffer
    BY <1>1, <2>1, FreeRecords
  <2>3. RecordOK(t)
    BY <1>1, <1>6, <2>2 DEF RecordOK
  <2> QED BY <2>3, <1>6 DEF OnewayOK, SyncOK, ParentOK
<1>9. \A th \in Thread : StackOK(th) /\ ThreadOK(th)
  <2> SUFFICES ASSUME NEW th \in Thread PROVE StackOK(th) /\ ThreadOK(th)
    OBVIOUS
  <2>1. Frames(th) = {}
    BY <1>6 DEF Frames
  <2>2. thread[th].stack = NoTr
    BY <1>1, <1>3
  <2>3. StackOK(th)
    BY <2>1, <2>2 DEF StackOK
  <2>4. ThreadOK(th)
    BY <1>1, <1>3 DEF ThreadOK
  <2> QED BY <2>3, <2>4
<1>10. FailOK
  BY <1>1, <1>3 DEF FailOK
<1>11. \A p \in Proc : AsyncOK(p)
  <2> SUFFICES ASSUME NEW p \in Proc PROVE AsyncOK(p)
    OBVIOUS
  <2>1. proc[p].async_todo = <<>> /\ ~proc[p].has_async
    BY <1>1, <1>3
  <2>2. InProgress(p) = {} /\ \A t \in Tr : ~buffer[t].async
    BY <1>1, FreeRecords DEF InProgress
  <2> QED BY <2>1, <2>2 DEF AsyncOK, OnlyCalls
<1> QED BY <1>2, <1>5, <1>7, <1>8, <1>9, <1>10, <1>11 DEF IInv

LEMMA CommandKeeps ==
  ASSUME IInv, TypeOK', NEW th \in Thread, Command(th)
  PROVE  IInv'
<1>1. ASSUME NEW p \in Proc, CallDeadNode(th, p) \/ CallBadStack(th, p) \/ CallRefused(th, p)
      PROVE  IInv'
  <2>1. CanWrite(th) /\ \E e : RaiseError(th, e)
    BY <1>1 DEF CallDeadNode, CallBadStack, CallRefused, MayCall
  <2> QED BY <2>1, RaiseErrorKeeps
<1>2. ASSUME NEW p \in Proc, SyncCall(th, p) PROVE IInv'
  BY <1>2, SyncCallKeeps
<1>3. ASSUME NEW p \in Proc, OnewayCall(th, p) PROVE IInv'
  BY <1>3, OnewayCallKeeps
<1>4. ASSUME ReplyBadStack(th) PROVE IInv'
  <2>1. CanWrite(th) /\ RaiseError(th, "FAILED_REPLY")
    BY <1>4 DEF ReplyBadStack
  <2> QED BY <2>1, RaiseErrorKeeps
<1>5. ASSUME Reply(th) PROVE IInv'
  BY <1>5, ReplyKeeps
<1>6. ASSUME NEW code \in {"DEAD_REPLY", "FAILED_REPLY"}, ReplyFailed(th, code) PROVE IInv'
  BY <1>6, ReplyFailedKeeps
<1>7. ASSUME NEW t \in Tr, BcFreeBuffer(th, t) PROVE IInv'
  BY <1>7, BcFreeBufferKeeps
<1> QED BY <1>1, <1>2, <1>3, <1>4, <1>5, <1>6, <1>7 DEF Command

LEMMA NextIInv ==
  ASSUME IInv, [Next]_vars
  PROVE  IInv'
<1>0. TypeOK'
  BY NextTypeOK DEF IInv
<1>1. ASSUME NEW th \in Thread, Command(th) PROVE IInv'
  BY <1>0, <1>1, CommandKeeps
<1>2. ASSUME NEW th \in Thread, Read(th) PROVE IInv'
  BY <1>0, <1>2, ReadErrorsKeeps, SleepKeeps, ReadThreadWorkKeeps, ReadProcWorkKeeps DEF Read
<1>3. ASSUME NEW th \in Thread, ThreadExit(th) PROVE IInv'
  BY <1>0, <1>3, ThreadExitKeeps
<1>4. ASSUME NEW p \in Proc, Close(p) \/ DeferredRelease(p) PROVE IInv'
  BY <1>0, <1>4, CloseKeeps, DeferredReleaseKeeps
<1>5. ASSUME LockHeld PROVE IInv'
  BY <1>0, <1>5, FailedReplyKeeps, ReleaseThreadWorkKeeps, ThreadFreedKeeps,
     ReleaseThreadKeeps, ReleaseNodeKeeps, ReleaseProcWorkKeeps, ReleaseBuffersKeeps
     DEF LockHeld
<1>6. ASSUME UNCHANGED vars PROVE IInv'
  <2>1. UNCHANGED <<calls, tx, buffer, thread, proc, failing, freeing, releasing>>
    BY <1>6 DEF vars
  <2>2. Rehomed(NoTr, {})
    BY <2>1, ListsSame
  <2>3. \A th \in Thread : ThreadOK(th)'
    BY <2>1, ThreadKept
  <2>4. freeing' # NoThread => thread'[freeing'].known
    BY <2>1 DEF IInv, FailOK
  <2> QED BY <1>0, <2>1, <2>2, <2>3, <2>4, Bookkept
<1> QED BY <1>1, <1>2, <1>3, <1>4, <1>5, <1>6 DEF Next

LEMMA Invariance == Spec => []IInv
<1>1. Init => IInv
  BY InitIInv
<1>2. IInv /\ [Next]_vars => IInv'
  BY NextIInv
<1> QED BY <1>1, <1>2, PTL DEF Spec

-----------------------------------------------------------------------------
(* The theorems. *)

\* While a call fails the walk from a stack may start one call late: what it
\* meets still belongs to the thread.
LEMMA StackMembers ==
  ASSUME IInv, NEW th \in Thread, NEW t \in Tr, OnStack(t, th)
  PROVE  t \in Frames(th)
<1> DEFINE top == thread[th].stack
<1>1. PICK S \in SUBSET Tr : t \in S /\ IsWalk(S, top, StackLink(th))
  BY DEF OnStack, IsStack
<1>2. StackOK(th)
  BY DEF IInv
<1>3. top \in Frames(th) \cup {NoTr}
  BY <1>2 DEF StackOK
<1> HIDE DEF top
<1>4. t = top \/ \E c \in S : StackLink(th)[c] = t
  BY <1>1 DEF IsWalk
<1>5. ASSUME NEW c \in Tr, StackLink(th)[c] = t PROVE t \in Frames(th)
  <2>1. t # NoTr
    BY Numbers
  <2>2. StackLink(th)[c] = LinkOf(th, c) /\ (tx[c].to_thread = th \/ tx[c].from = th)
    BY <1>5, <2>1 DEF StackLink, LinkOf
  <2>3. Sync(c)
    BY <2>2, NotSync, ThreadAssumption
  <2>4. CASE c \in Frames(th)
    BY <1>2, <1>5, <2>1, <2>2, <2>4 DEF StackOK
  <2>5. CASE c \notin Frames(th)
    <3>1. tx[c].to_thread = th /\ tx[c].from # th /\ (Unread(c) \/ c = failing.t)
      BY <2>2, <2>3, <2>5 DEF Frames
    <3>2. tx[c].to_parent = t
      BY <1>5, <2>2, <3>1 DEF LinkOf
    <3>3. SyncOK(c) /\ FailOK
      BY DEF IInv, CallsOK
    <3>4. ~Unread(c)
      BY <2>1, <2>3, <3>2, <3>3 DEF SyncOK
    <3>5. c # NoTr /\ c = failing.t
      BY <3>1, <3>4, Numbers
    <3>6. tx[c].to_parent = thread[th].stack
      BY <3>1, <3>3, <3>4, <3>5, ThreadAssumption DEF FailOK
    <3> QED BY <1>3, <2>1, <3>2, <3>6 DEF top
  <2> QED BY <2>4, <2>5
<1> QED BY <1>1, <1>3, <1>4, <1>5, Numbers

LEMMA StackIsFrames ==
  ASSUME IInv, failing.t = NoTr, NEW th \in Thread, NEW t \in Tr
  PROVE  OnStack(t, th) <=> t \in Frames(th)
<1>1. Frames(th) \in SUBSET Tr /\ IsStack(Frames(th), th)
  BY StackIsWalk DEF Frames
<1> QED BY <1>1, StackMembers DEF OnStack

\* Whether a call is queued, in the terms of the invariant.
LEMMA QueuedIsHeld ==
  ASSUME NEW t \in Tr
  PROVE  Queued(t) \/ Waiting(t) <=> Held(t)
<1>1. Held(t) <=> \/ \E th \in Thread : Holds(<<"thread", th>>, t)
                  \/ \E p \in Proc : Holds(<<"proc", p>>, t) \/ Holds(<<"async", p>>, t)
  BY Places DEF Held
<1> QED BY <1>1, ListOf DEF Queued, Waiting, Holds

LEMMA SyncQueued ==
  ASSUME IInv, failing.t = NoTr, NEW t \in Tr, Sync(t)
  PROVE  Queued(t) <=> Unread(t)
<1>1. QueueOK(t) /\ SyncOK(t)
  BY DEF IInv, CallsOK
<1>2. Queued(t) => Unread(t)
  <2> SUFFICES ASSUME Queued(t) PROVE Unread(t)
    OBVIOUS
  <2>1. PICK pl \in Place : Holds(pl, t)
    BY QueuedIsHeld DEF Held
  <2> QED BY <1>1, <2>1 DEF QueueOK
<1>3. Unread(t) => Queued(t)
  <2> SUFFICES ASSUME Unread(t) PROVE Queued(t)
    OBVIOUS
  <2>1. t # failing.t
    BY Numbers
  <2>2. PICK pl \in Place : Holds(pl, t)
    BY <1>1, <2>1 DEF SyncOK, Held
  <2>3. IsHome(pl, t)
    BY <1>1, <2>2 DEF QueueOK
  <2>4. \/ pl = <<"proc", buffer[t].node>>
        \/ \E th \in Thread : pl = <<"thread", th>>
    BY <2>3 DEF IsHome, Sync
  <2>5. ASSUME pl = <<"proc", buffer[t].node>> PROVE Queued(t)
    <3>1. buffer[t].node \in Proc
      BY <2>2, <2>5, Places
    <3> QED BY <2>2, <2>5, <3>1, ListOf DEF Holds, Queued
  <2>6. ASSUME NEW th \in Thread, pl = <<"thread", th>> PROVE Queued(t)
    BY <2>2, <2>6, ListOf DEF Holds, Queued
  <2> QED BY <2>4, <2>5, <2>6
<1> QED BY <1>2, <1>3

\* The work that a thread reads next, and what its reading does to the buffers.
LEMMA WhatIsRead ==
  ASSUME IInv, NEW th \in Thread, Read(th), buffer' # buffer, NEW t \in Tr
  PROVE  /\ Unlocked
         /\ \/ buffer'[t] = buffer[t]
            \/ /\ buffer'[t].state = "user" /\ buffer'[t].node = buffer[t].node
               /\ buffer'[t].async <=> buffer[t].async
               /\ \/ Holds(<<"thread", th>>, t)
                  \/ Holds(<<"proc", ProcOf[th]>>, t)
<1>1. buffer \in [Tr -> Buffer] /\ buffer[t] \in Buffer
  BY DEF IInv, TypeOK
<1>2. ReadThreadWork(th) \/ ReadProcWork(th)
  BY DEF Read, ReadErrors, Sleep, ReadRetry
<1>3. ASSUME NEW list \in Seq(Work), list # <<>>, NEW rest, Deliver(th, Head(list), rest)
      PROVE  \/ buffer'[t] = buffer[t]
             \/ /\ buffer'[t].state = "user" /\ buffer'[t].node = buffer[t].node
                /\ buffer'[t].async <=> buffer[t].async
                /\ InList(t, list)
  <2>1. \/ buffer' = buffer
        \/ /\ Head(list).type = "call"
           /\ \/ buffer' = [buffer EXCEPT ![Head(list).t] =
                              [@ EXCEPT !.state = "user", !.holder = th]]
              \/ buffer' = [buffer EXCEPT ![Head(list).t] =
                              [@ EXCEPT !.state = "user", !.holder = th, !.transaction = FALSE]]
    BY <1>3 DEF Deliver
  <2>2. \/ buffer'[t] = buffer[t]
        \/ /\ Head(list).type = "call" /\ Head(list).t = t
           /\ \/ buffer'[t] = [buffer[t] EXCEPT !.state = "user", !.holder = th]
              \/ buffer'[t] = [buffer[t] EXCEPT !.state = "user", !.holder = th,
                                                !.transaction = FALSE]
    BY <1>1, <2>1
  <2>3. ASSUME Head(list).type = "call", Head(list).t = t PROVE InList(t, list)
    <3>1. Head(list) = list[1] /\ 1 \in DOMAIN list /\ Head(list) \in Work
      BY <1>3
    <3>2. list[1] = CallWork(t)
      BY <2>3, <3>1, CallWorks
    <3> QED BY <3>1, <3>2 DEF InList
  <2>4. ASSUME NEW x, \/ x = [buffer[t] EXCEPT !.state = "user", !.holder = th]
                      \/ x = [buffer[t] EXCEPT !.state = "user", !.holder = th,
                                               !.transaction = FALSE]
        PROVE  x.state = "user" /\ x.node = buffer[t].node /\ (x.async <=> buffer[t].async)
    BY <1>1, <2>4 DEF Buffer
  <2> QED BY <2>2, <2>3, <2>4
<1>4. CASE ReadThreadWork(th)
  <2>1. thread[th].todo \in Seq(Work) /\ ListAt(<<"thread", th>>) = thread[th].todo
    BY Fields, ListOf DEF IInv
  <2>2. Unlocked
    BY <1>4 DEF ReadThreadWork, InIoctl
  <2> QED BY <1>3, <1>4, <2>1, <2>2 DEF ReadThreadWork, Holds
<1>5. CASE ReadProcWork(th)
  <2>1. ProcOf[th] \in Proc
    BY ThreadAssumption
  <2>2. /\ proc[ProcOf[th]].todo \in Seq(Work)
        /\ ListAt(<<"proc", ProcOf[th]>>) = proc[ProcOf[th]].todo
    BY <2>1, Fields, ListOf DEF IInv
  <2> QED BY <1>3, <1>5, <2>2 DEF ReadProcWork, Holds
<1> QED BY <1>2, <1>4, <1>5

\* What a step does to a buffer: it frees it, makes it for a new call, hands it out,
\* or leaves it to its call.
LEMMA BuffersNext ==
  ASSUME IInv, [Next]_vars, NEW t \in Tr
  PROVE  \/ buffer'[t].state = "free"
         \/ t = calls + 1 /\ buffer'[t].node \in Proc /\ buffer'[t].state # "free"
         \/ /\ buffer'[t].node = buffer[t].node
            /\ buffer'[t].async <=> buffer[t].async
            /\ \/ buffer'[t].state = buffer[t].state
               \/ /\ buffer'[t].state = "user" /\ Unread(t) /\ Unlocked
                  /\ \E th \in Thread : \/ Holds(<<"thread", th>>, t)
                                        \/ Holds(<<"proc", ProcOf[th]>>, t)
<1> DEFINE Kept == /\ buffer'[t].node = buffer[t].node
                   /\ buffer'[t].async <=> buffer[t].async
                   /\ buffer'[t].state = buffer[t].state
<1>1. buffer \in [Tr -> Buffer] /\ buffer[t] \in Buffer
  BY DEF IInv, TypeOK
<1>2. FreeBuffer.state = "free"
  BY DEF FreeBuffer
<1>3. ASSUME NEW p \in Proc, NEW async,
             buffer' = [buffer EXCEPT ![calls + 1] =
                          [FreeBuffer EXCEPT !.state = "kernel", !.async = async,
                                             !.transaction = TRUE, !.node = p]]
      PROVE  \/ buffer'[t] = buffer[t]
             \/ t = calls + 1 /\ buffer'[t].state # "free" /\ buffer'[t].node \in Proc
  BY <1>1, <1>3 DEF FreeBuffer
<1>4. ASSUME NEW u, buffer' = [buffer EXCEPT ![u].transaction = FALSE] PROVE Kept
  BY <1>1, <1>4 DEF Buffer
<1>5. ASSUME NEW u, buffer' = Unlinked(u) PROVE Kept
  BY <1>4, <1>5 DEF Unlinked
<1>6. ASSUME NEW th \in Thread, Command(th)
      PROVE  \/ buffer'[t].state = "free"
             \/ t = calls + 1 /\ buffer'[t].state # "free" /\ buffer'[t].node \in Proc
             \/ Kept
  <2>1. ASSUME NEW p \in Proc, CallDeadNode(th, p) \/ CallBadStack(th, p) \/ CallRefused(th, p)
        PROVE  buffer' = buffer
    BY <2>1 DEF CallDeadNode, CallBadStack, CallRefused, RaiseError
  <2>2. ASSUME NEW p \in Proc, SyncCall(th, p) \/ OnewayCall(th, p)
        PROVE  \/ buffer'[t] = buffer[t]
               \/ t = calls + 1 /\ buffer'[t].state # "free" /\ buffer'[t].node \in Proc
    BY <1>3, <2>2 DEF SyncCall, OnewayCall, NewCall
  <2>3. ReplyBadStack(th) => buffer' = buffer
    BY DEF ReplyBadStack, RaiseError
  <2>4. Reply(th) => buffer' = Unlinked(thread[th].stack)
    BY DEF Reply
  <2>5. ASSUME NEW code, ReplyFailed(th, code) PROVE buffer' = buffer
    BY <2>5 DEF ReplyFailed
  <2>6. ASSUME NEW u \in Tr, BcFreeBuffer(th, u)
        PROVE  buffer'[t] = buffer[t] \/ buffer'[t].state = "free"
    BY <1>1, <1>2, <2>6 DEF BcFreeBuffer
  <2> QED BY <1>5, <1>6, <2>1, <2>2, <2>3, <2>4, <2>5, <2>6 DEF Command
<1>7. ASSUME NEW th \in Thread, Read(th)
      PROVE  \/ Kept
             \/ /\ buffer'[t].node = buffer[t].node
                /\ buffer'[t].async <=> buffer[t].async
                /\ buffer'[t].state = "user" /\ Unread(t) /\ Unlocked
                /\ Holds(<<"thread", th>>, t) \/ Holds(<<"proc", ProcOf[th]>>, t)
  <2>1. ASSUME Holds(<<"thread", th>>, t) \/ Holds(<<"proc", ProcOf[th]>>, t) PROVE Unread(t)
    <3>1. <<"thread", th>> \in Place /\ <<"proc", ProcOf[th]>> \in Place
      BY Places, ThreadAssumption
    <3> QED BY <2>1, <3>1 DEF IInv, QueueOK
  <2> QED BY <1>7, <2>1, WhatIsRead
<1>8. ASSUME NEW th \in Thread, CutThread(th) PROVE Kept
  <2>1. PICK x : buffer'[t] = [buffer[t] EXCEPT !.transaction = x]
    BY <1>8 DEF CutThread
  <2> QED BY <1>1, <2>1 DEF Buffer
<1>9. ASSUME NEW w, ReleaseWork(w) PROVE Kept
  BY <1>4, <1>9 DEF ReleaseWork
<1>10. ASSUME LockHeld PROVE buffer'[t].state = "free" \/ Kept
  <2>1. FailedReply => buffer' = Unlinked(failing.t) \/ buffer' = buffer
    BY DEF FailedReply
  <2>2. ReleaseThreadWork \/ ReleaseNode \/ ReleaseProcWork => \E w : ReleaseWork(w)
    BY DEF ReleaseThreadWork, ReleaseNode, ReleaseProcWork
  <2>3. ThreadFreed => buffer' = buffer
    BY DEF ThreadFreed
  <2>4. ASSUME NEW th \in Thread, ReleaseThread(th) PROVE CutThread(th)
    BY <2>4 DEF ReleaseThread
  <2>5. ReleaseBuffers => buffer'[t] = buffer[t] \/ buffer'[t].state = "free"
    BY <1>2 DEF ReleaseBuffers
  <2> QED BY <1>5, <1>8, <1>9, <1>10, <2>1, <2>2, <2>3, <2>4, <2>5 DEF LockHeld
<1>11. ASSUME NEW th \in Thread, ThreadExit(th) PROVE CutThread(th)
  BY <1>11 DEF ThreadExit
<1>12. ASSUME NEW p \in Proc, Close(p) \/ DeferredRelease(p) PROVE buffer' = buffer
  BY <1>12 DEF Close, DeferredRelease
<1> QED BY <1>6, <1>7, <1>8, <1>10, <1>11, <1>12 DEF Next, vars

\* A buffer that is in use belongs to a process.
NodesKnown == \A t \in Tr : buffer[t].state # "free" => buffer[t].node \in Proc

LEMMA NodesKnownNext ==
  ASSUME IInv, NodesKnown, [Next]_vars
  PROVE  NodesKnown'
<1> SUFFICES ASSUME NEW t \in Tr, buffer'[t].state # "free" PROVE buffer'[t].node \in Proc
  BY DEF NodesKnown
<1> QED BY BuffersNext DEF NodesKnown, Unread

LEMMA NodesAreKnown == Spec => []NodesKnown
<1>1. Init => NodesKnown
  BY DEF Init, NodesKnown, FreeBuffer
<1>2. IInv /\ NodesKnown /\ [Next]_vars => NodesKnown'
  BY NodesKnownNext
<1> QED BY <1>1, <1>2, Invariance, PTL DEF Spec

(***************************************************************************)
(* No assertion of the driver about calls fails.  A thread whose call      *)
(* fails has that call on top of its stack, where binder_pop_transaction   *)
(* expects it: nothing was called for it, and whatever else is on the      *)
(* stack led to it.  Work about to be read or released has its buffer, the *)
(* walk of binder_free_thread meets only calls of the thread, and the      *)
(* buffer of a oneway call is freed only while its node is marked busy.    *)
(***************************************************************************)
THEOREM NoBugInCalls == Spec => []NoBugOn
<1>1. ASSUME IInv, NodesKnown PROVE NoBugOn
  <2>1. ASSUME failing.t # NoTr
        PROVE  /\ Sync(failing.t)
               /\ tx[failing.t].from # NoThread => thread[tx[failing.t].from].stack = failing.t
    <3> DEFINE t == failing.t
    <3>1. t \in Tr /\ Sync(t) /\ Leaf(FP, t)
      BY <1>1, <2>1, Fields DEF IInv, FailOK
    <3>2. ASSUME tx[t].from # NoThread PROVE thread[tx[t].from].stack = t
      <4>1. tx[t].from \in Thread
        BY <1>1, <3>1, <3>2, Fields DEF IInv
      <4>2. t \in Frames(tx[t].from)
        BY <3>1, <4>1 DEF Frames
      <4> HIDE DEF t
      <4> QED BY <1>1, <3>1, <4>1, <4>2, LeafIsTop
    <3> QED BY <3>1, <3>2
  <2>2. ASSUME NEW t \in Tr, Queued(t) \/ Waiting(t) PROVE tx[t].live /\ tx[t].buffer
    <3>1. PICK pl \in Place : Holds(pl, t)
      BY <2>2, QueuedIsHeld DEF Held
    <3> QED BY <1>1, <3>1 DEF IInv, QueueOK
  <2>3. ASSUME NEW th \in Thread, NEW t \in Tr, OnStack(t, th)
        PROVE  tx[t].from = th \/ tx[t].to_thread = th
    <3>1. t \in Frames(th)
      BY <1>1, <2>3, StackMembers
    <3> QED BY <3>1 DEF Frames
  <2>4. ASSUME NEW t \in Tr, buffer[t].state = "user" /\ buffer[t].async
        PROVE  proc[buffer[t].node].has_async
    <3>1. buffer[t].node \in Proc
      BY <1>1, <2>4 DEF NodesKnown
    <3>2. AsyncOK(buffer[t].node)
      BY <1>1, <3>1 DEF IInv
    <3> QED BY <2>4, <3>2 DEF AsyncOK
  <2> QED BY <2>1, <2>2, <2>3, <2>4 DEF NoBugOn
<1> QED BY <1>1, Invariance, NodesAreKnown, PTL

(***************************************************************************)
(* No pointer of the driver dangles: the threads and the calls that a live *)
(* call, a stack or a buffer names have not been freed.                    *)
(***************************************************************************)
THEOREM PointersAreGood == Spec => []NoDanglingPointer
<1>1. ASSUME IInv PROVE NoDanglingPointer
  <2> USE <1>1
  <2>0. ASSUME NEW th \in Thread, NEW t \in Frames(th)
        PROVE  /\ thread[th].known
               /\ LinkOf(th, t) # NoTr => tx[LinkOf(th, t)].live
    <3>1. StackOK(th)
      BY DEF IInv
    <3>2. thread[th].stack # NoTr
      BY <2>0, <3>1, Numbers DEF StackOK, Frames
    <3>3. LinkOf(th, t) \in Frames(th) \cup {NoTr}
      BY <2>0, <3>1 DEF StackOK
    <3> QED BY <3>2, <3>3, UsedIsKnown DEF Frames, Sync
  <2>1. ASSUME NEW t \in Tr, tx[t].live
        PROVE  /\ tx[t].from # NoThread => thread[tx[t].from].known
               /\ tx[t].to_thread # NoThread => thread[tx[t].to_thread].known
               /\ tx[t].from_parent # NoTr => tx[tx[t].from_parent].live
               /\ tx[t].to_thread # NoThread /\ tx[t].to_parent # NoTr
                    => tx[tx[t].to_parent].live
    <3>1. CASE ~Sync(t)
      BY <3>1, NotSync
    <3>2. CASE Sync(t)
      <4>1. /\ tx[t].from \in Thread \cup {NoThread}
            /\ tx[t].to_thread \in Thread \cup {NoThread}
        BY Fields DEF IInv
      <4>2. QueueOK(t) /\ SyncOK(t) /\ FailOK
        BY DEF IInv, CallsOK
      <4>3. tx[t].from # NoThread => thread[tx[t].from].known
        <5> SUFFICES ASSUME tx[t].from # NoThread PROVE thread[tx[t].from].known
          OBVIOUS
        <5>1. tx[t].from \in Thread /\ t \in Frames(tx[t].from)
          BY <3>2, <4>1 DEF Frames
        <5> QED BY <5>1, <2>0
      <4>4. tx[t].from_parent # NoTr => tx[tx[t].from_parent].live
        <5>1. FP[t] = tx[t].from_parent
          BY DEF FP
        <5> QED BY <5>1, Family DEF Sync
      <4>5. ASSUME NEW th \in Thread, tx[t].to_thread = th
            PROVE  /\ thread[th].known
                   /\ tx[t].to_parent # NoTr => tx[tx[t].to_parent].live
        <5>1. CASE ~Unread(t) /\ t # failing.t
          <6>1. t \in Frames(th)
            BY <3>2, <4>5, <5>1 DEF Frames
          <6>2. LinkOf(th, t) = tx[t].to_parent
            BY <4>5 DEF LinkOf
          <6> QED BY <2>0, <6>1, <6>2
        <5>2. CASE t = failing.t
          <6>1. t # NoTr /\ th # NoThread
            BY Numbers, ThreadAssumption
          <6>2. /\ thread[th].known
                /\ ~Unread(t) => tx[t].to_parent = thread[th].stack
                /\ Unread(t) => tx[t].to_parent = NoTr
            BY <3>2, <4>2, <4>5, <5>2, <6>1 DEF FailOK, SyncOK
          <6>3. thread[th].stack \in Frames(th) \cup {NoTr}
            BY DEF IInv, StackOK
          <6> QED BY <6>2, <6>3 DEF Frames, Sync
        <5>3. CASE Unread(t) /\ t # failing.t
          <6>1. tx[t].to_parent = NoTr /\ Held(t)
            BY <3>2, <4>2, <5>3 DEF SyncOK
          <6>2. PICK pl \in Place : Holds(pl, t)
            BY <6>1 DEF Held
          <6>3. IsHome(pl, t)
            BY <4>2, <6>2 DEF QueueOK
          <6>4. pl = <<"thread", th>>
            BY <3>2, <4>5, <6>3, ThreadAssumption DEF IsHome, Sync
          <6>5. thread[th].todo # <<>>
            BY <6>2, <6>4, ListOf, EmptyList DEF Holds
          <6> QED BY <6>1, <6>5, UsedIsKnown
        <5> QED BY <5>1, <5>2, <5>3
      <4> QED BY <4>1, <4>3, <4>4, <4>5
    <3> QED BY <3>1, <3>2
  <2>2. ASSUME NEW t \in Tr
        PROVE  /\ tx[t].buffer => buffer[t].transaction
               /\ buffer[t].transaction => tx[t].live /\ tx[t].buffer
    <3>1. RecordOK(t)
      BY DEF IInv, CallsOK
    <3> QED BY <3>1, FreeRecords DEF RecordOK
  <2>3. ASSUME NEW th \in Thread, thread[th].stack # NoTr PROVE tx[thread[th].stack].live
    <3>1. StackOK(th)
      BY DEF IInv
    <3> QED BY <2>3, <3>1 DEF StackOK, Frames, Sync
  <2> QED BY <2>1, <2>2, <2>3 DEF NoDanglingPointer
<1> QED BY <1>1, Invariance, PTL

(***************************************************************************)
(* A thread that binder_thread_read put to sleep for work of its process   *)
(* has nothing of its own to do, although wait_for_proc_work was computed  *)
(* before the lock was dropped.                                            *)
(***************************************************************************)
THEOREM SleepersStayIdle == Spec => []SleepersAreIdle
<1>1. IInv => SleepersAreIdle
  BY DEF IInv, ThreadOK, SleepersAreIdle
<1> QED BY <1>1, Invariance, PTL

(***************************************************************************)
(* A node runs one oneway call at a time: has_async_transaction is set     *)
(* exactly while one is out of async_todo, and calls wait there only then. *)
(***************************************************************************)
THEOREM OnewayCallsTakeTurns == Spec => []OneAsyncAtATime
<1>1. ASSUME IInv PROVE OneAsyncAtATime
  <2> SUFFICES ASSUME NEW p \in Proc
               PROVE  /\ Unlocked => \A s, t \in InProgress(p) : s = t
                      /\ Unlocked => (proc[p].has_async <=> InProgress(p) # {})
                      /\ proc[p].async_todo # <<>> => proc[p].has_async
    BY DEF OneAsyncAtATime
  <2>1. AsyncOK(p)
    BY <1>1 DEF IInv
  <2>2. Unlocked => releasing # p
    BY ThreadAssumption DEF Unlocked
  <2>3. InProgress(p) # {} => proc[p].has_async
    BY <2>1 DEF AsyncOK, InProgress
  <2> QED BY <2>1, <2>2, <2>3 DEF AsyncOK
<1> QED BY <1>1, Invariance, PTL

(***************************************************************************)
(* No caller is forgotten: whenever the lock is free each synchronous call *)
(* is on a work list, or on the stack of the thread that received it, or   *)
(* waits for the one call that its dead receiver had made for it, and in   *)
(* one of these places only.                                               *)
(***************************************************************************)
THEOREM CallsAreAnswered == Spec => []EveryCallHasAnAnswerer
<1>1. ASSUME IInv PROVE EveryCallHasAnAnswerer
  <2> SUFFICES ASSUME Unlocked, NEW t \in Tr, Sync(t)
               PROVE  \/ Queued(t)   /\ ~Received(t) /\ Orphans(t) = {}
                      \/ Received(t) /\ ~Queued(t)   /\ Orphans(t) = {}
                      \/ \E c \in Tr : Orphans(t) = {c} /\ ~Queued(t) /\ ~Received(t)
    BY DEF EveryCallHasAnAnswerer
  <2>1. failing.t = NoTr /\ t # failing.t
    BY Numbers DEF Unlocked
  <2>2. Queued(t) <=> Unread(t)
    BY <1>1, <2>1, SyncQueued
  <2>3. Received(t) <=> tx[t].to_thread # NoThread /\ ~Unread(t)
    <3>1. ASSUME NEW th \in Thread, tx[t].to_thread = th, ~Unread(t) PROVE OnStack(t, th)
      <4>1. t \in Frames(th)
        BY <2>1, <3>1 DEF Frames
      <4> QED BY <1>1, <2>1, <4>1, StackIsFrames
    <3>2. tx[t].to_thread \in Thread \cup {NoThread}
      BY <1>1, Fields DEF IInv
    <3> QED BY <2>2, <3>1, <3>2, ThreadAssumption DEF Received
  <2>4. ASSUME NEW c \in Orphans(t)
        PROVE  /\ c \in Tr /\ ~Unread(t) /\ tx[t].to_thread = NoThread
               /\ \A u \in Orphans(t) : u = c
    <3>1. c \in Tr /\ FP[c] = t /\ tx[c].from = NoThread /\ t # NoTr
      BY <2>4, Numbers DEF Orphans, FP
    <3>2. ~Unread(t) /\ tx[c].from = tx[t].to_thread /\ \A u \in Tr : FP[u] = t => u = c
      BY <1>1, <3>1, Family
    <3> QED BY <3>1, <3>2 DEF Orphans, FP
  <2>5. CASE Unread(t) \/ tx[t].to_thread # NoThread
    <3>1. Orphans(t) = {}
      BY <2>4, <2>5
    <3> QED BY <2>2, <2>3, <2>5, <3>1
  <2>6. CASE ~Unread(t) /\ tx[t].to_thread = NoThread
    <3>1. SyncOK(t)
      BY <1>1 DEF IInv, CallsOK
    <3>2. PICK c \in Tr : FP[c] = t
      BY <2>1, <2>6, <3>1 DEF SyncOK, Leaf
    <3>3. t # NoTr
      BY Numbers
    <3>4. Sync(c) /\ tx[c].from_parent = t /\ tx[c].from = NoThread
      BY <1>1, <2>6, <3>2, <3>3, Family
    <3>5. c \in Orphans(t)
      BY <3>4 DEF Orphans
    <3>6. Orphans(t) = {c}
      BY <2>4, <3>5
    <3> QED BY <2>2, <2>3, <2>6, <3>6
  <2> QED BY <2>5, <2>6
<1> QED BY <1>1, Invariance, PTL

-----------------------------------------------------------------------------
(* What a step does to the sender that a call names. *)

LEMMA SenderKept ==
  ASSUME IInv, NEW th \in Thread,
         \/ Read(th) \/ \E t \in Tr : BcFreeBuffer(th, t)
         \/ \E p \in Proc : SyncCall(th, p) \/ OnewayCall(th, p)
         \/ ReleaseThreadWork \/ ReleaseNode \/ ReleaseProcWork \/ ReleaseBuffers,
         NEW t \in Tr, tx[t].live
  PROVE  tx'[t].from = tx[t].from
<1>1. tx \in [Tr -> Transaction] /\ tx[t] \in Transaction
  BY DEF IInv, TypeOK
<1>2. ~Sync(t) => tx[t].from = NoThread
  BY NotSync
<1>3. FreedTransaction.from = NoThread
  BY FreeRecords
<1>4. CASE tx' = tx
  BY <1>4
<1>5. ASSUME NEW w, NEW rest, Deliver(th, w, rest) PROVE tx'[t].from = tx[t].from
  <2>1. \/ tx' = tx
        \/ tx' = [tx EXCEPT ![w.t] = [@ EXCEPT !.to_parent = thread[th].stack,
                                               !.to_thread = th]]
        \/ tx' = [tx EXCEPT ![w.t] = FreedTransaction] /\ tx[w.t].oneway
    BY <1>5 DEF Deliver
  <2>2. \/ tx'[t] = tx[t]
        \/ tx'[t] = [tx[t] EXCEPT !.to_parent = thread[th].stack, !.to_thread = th]
        \/ tx'[t] = FreedTransaction /\ tx[t].oneway
    BY <1>1, <2>1
  <2>3. ASSUME tx'[t] = [tx[t] EXCEPT !.to_parent = thread[th].stack, !.to_thread = th]
        PROVE  tx'[t].from = tx[t].from
    <3> DEFINE r == tx[t]
               q == tx'[t]
    <3>1. q = [r EXCEPT !.to_parent = thread[th].stack, !.to_thread = th] /\ r \in Transaction
      BY <1>1, <2>3
    <3> HIDE DEF r, q
    <3>2. q.from = r.from
      BY <3>1 DEF Transaction
    <3> QED BY <3>2 DEF q, r
  <2>4. ASSUME tx'[t] = FreedTransaction, tx[t].oneway PROVE tx'[t].from = tx[t].from
    BY <1>2, <1>3, <2>4 DEF Sync
  <2> QED BY <2>2, <2>3, <2>4
<1>6. CASE Read(th)
  <2>1. CASE ReadErrors(th) \/ Sleep(th) \/ ReadRetry(th)
    BY <1>4, <2>1 DEF ReadErrors, Sleep, ReadRetry
  <2> QED BY <1>5, <1>6, <2>1 DEF Read, ReadThreadWork, ReadProcWork
<1>7. ASSUME NEW u \in Tr, BcFreeBuffer(th, u) PROVE tx'[t].from = tx[t].from
  <2>1. tx' = tx \/ tx' = [tx EXCEPT ![u].buffer = FALSE]
    BY <1>7 DEF BcFreeBuffer
  <2> QED BY <1>1, <2>1 DEF Transaction
<1>8. ASSUME NEW p \in Proc, SyncCall(th, p) \/ OnewayCall(th, p)
      PROVE  tx'[t].from = tx[t].from
  <2>1. \E r : tx' = [tx EXCEPT ![calls + 1] = r]
    BY <1>8 DEF SyncCall, OnewayCall
  <2>2. calls + 1 # t
    <3>1. RecordOK(t) /\ calls \in Nat /\ t \in Nat
      BY Fields, Numbers DEF IInv, CallsOK
    <3> QED BY <3>1 DEF RecordOK
  <2> QED BY <1>1, <2>1, <2>2
<1>9. ASSUME NEW w, ReleaseWork(w) PROVE tx'[t].from = tx[t].from
  <2>1. tx' = tx \/ (tx' = [tx EXCEPT ![w.t] = FreedTransaction] /\ tx[w.t].oneway)
    BY <1>9 DEF ReleaseWork, Popped
  <2>2. tx'[t] = tx[t] \/ (tx'[t] = FreedTransaction /\ tx[t].oneway)
    BY <1>1, <2>1
  <2> QED BY <1>2, <1>3, <2>2 DEF Sync
<1>10. CASE ReleaseBuffers
  <2>1. PICK x : tx'[t] = [tx[t] EXCEPT !.buffer = x]
    BY <1>10 DEF ReleaseBuffers
  <2> QED BY <1>1, <2>1 DEF Transaction
<1> QED BY <1>4, <1>6, <1>7, <1>8, <1>9, <1>10
        DEF ReleaseThreadWork, ReleaseNode, ReleaseProcWork

\* BC_REPLY puts the reply at the end of the caller's list.
LEMMA ReplyTells ==
  ASSUME IInv, NEW th \in Thread, Reply(th)
  PROVE  LET t == thread[th].stack
             target == tx[t].from
         IN  /\ t \in Tr /\ target \in Thread /\ tx' = [tx EXCEPT ![t] = FreedTransaction]
             /\ thread'[target].todo = Append(thread[target].todo, ReplyWork(t))
<1> DEFINE t == thread[th].stack
           target == tx[t].from
<1>1. t \in Tr /\ target # th
  BY ServedIsLeaf DEF Reply
<1>2. target \in Thread
  BY <1>1, Fields DEF IInv, Reply
<1>3. tx' = [tx EXCEPT ![t] = FreedTransaction]
  BY DEF Reply, Popped
<1>4. thread'[target].todo = Append(thread[target].todo, ReplyWork(t))
  <2> DEFINE F == [ReplierPopped(th) EXCEPT ![target].stack = tx[t].from_parent]
             G == Enqueue(F, target, ReplyWork(t))
  <2>1. thread' = Enqueue(G, th, CompleteWork)
    BY DEF Reply
  <2>2. thread \in [Thread -> BinderThread] /\ thread[target] \in BinderThread
    BY <1>2 DEF IInv, TypeOK
  <2>3. F \in [Thread -> {F[x] : x \in Thread}] /\ DOMAIN F = Thread
    BY <2>2 DEF ReplierPopped
  <2>4. F[target] = [thread[target] EXCEPT !.stack = tx[t].from_parent]
    BY <1>1, <1>2, <2>2 DEF ReplierPopped
  <2>5. F[target].todo = thread[target].todo
    BY <2>2, <2>4 DEF BinderThread
  <2>6. F[target] = [known |-> thread[target].known, stack |-> tx[t].from_parent,
                     todo |-> thread[target].todo, error |-> thread[target].error,
                     error2 |-> thread[target].error2, wait |-> thread[target].wait]
    BY <2>2, <2>4 DEF BinderThread
  <2> HIDE DEF F
  <2>7. /\ DOMAIN G = Thread
        /\ G[target] = [F[target] EXCEPT !.todo = Append(@, ReplyWork(t))]
    BY <1>2, <2>3 DEF Enqueue
  <2>8. G[target].todo = Append(thread[target].todo, ReplyWork(t))
    BY <2>5, <2>6, <2>7
  <2> HIDE DEF G
  <2>9. thread'[target] = G[target]
    BY <1>1, <1>2, <2>1, <2>7 DEF Enqueue
  <2> QED BY <2>8, <2>9
<1> QED BY <1>1, <1>2, <1>3, <1>4

(***************************************************************************)
(* A caller never loses a call without being told.  When a call no longer  *)
(* names its sender, a reply to it has come to the end of the sender's     *)
(* list, or the sender has an error to read, or the sender is leaving.     *)
(***************************************************************************)
THEOREM CallersAreTold == Spec => CallerIsTold
<1> DEFINE Answered(t, th) ==
             \/ freeing' = th
             \/ Len(thread'[th].todo) > Len(thread[th].todo) /\ ReplyWork(t) \in
                  {thread'[th].todo[i] : i \in DOMAIN thread'[th].todo}
             \/ thread'[th].error \in {"DEAD_REPLY", "FAILED_REPLY"}
<1>1. ASSUME IInv, [Next]_vars, NEW t \in Tr, tx[t].live, tx[t].from # NoThread,
             tx'[t].from # tx[t].from
      PROVE  Answered(t, tx[t].from)
  <2> USE <1>1
  <2>1. /\ tx \in [Tr -> Transaction] /\ tx[t].from \in Thread
        /\ thread \in [Thread -> BinderThread] /\ failing.t \in Tr \cup {NoTr}
    BY Fields DEF IInv, TypeOK
  <2>2. ~UNCHANGED tx
    OBVIOUS
  <2>3. ASSUME NEW th \in Thread, Command(th) PROVE Answered(t, tx[t].from)
    <3>1. CASE Reply(th)
      <4> DEFINE todo == thread[tx[t].from].todo
      <4>1. /\ t = thread[th].stack
            /\ thread'[tx[t].from].todo = Append(todo, ReplyWork(t))
        BY <2>1, <3>1, ReplyTells
      <4>2. todo \in Seq(Work)
        BY <2>1, Fields DEF IInv
      <4> HIDE DEF todo
      <4>3. /\ Len(Append(todo, ReplyWork(t))) > Len(todo)
            /\ Len(todo) + 1 \in DOMAIN Append(todo, ReplyWork(t))
            /\ Append(todo, ReplyWork(t))[Len(todo) + 1] = ReplyWork(t)
        BY <4>2
      <4> QED BY <4>1, <4>3 DEF todo
    <3>2. CASE \/ \E p \in Proc : \/ CallDeadNode(th, p) \/ CallBadStack(th, p)
                                  \/ CallRefused(th, p)
               \/ ReplyBadStack(th) \/ \E code : ReplyFailed(th, code)
      BY <2>2, <3>2 DEF CallDeadNode, CallBadStack, CallRefused, ReplyBadStack, ReplyFailed,
                        RaiseError
    <3> QED BY <2>3, <3>1, <3>2, SenderKept DEF Command
  <2>4. ASSUME NEW th \in Thread, CutThread(th), failing.t = NoTr
        PROVE  Answered(t, tx[t].from)
    <3>1. tx[t].from = th
      BY <2>4, CutCalls
    <3>2. freeing' = th
      BY <2>4 DEF CutThread
    <3> QED BY <3>1, <3>2
  <2>5. ASSUME FailedReply PROVE Answered(t, tx[t].from)
    <3>1. tx' = [tx EXCEPT ![failing.t] = FreedTransaction] /\ t = failing.t
      BY <2>1, <2>2, <2>5 DEF FailedReply, Popped
    <3>2. thread' = Told(tx[t].from, t)
      BY <1>1, <2>2, <2>5, <3>1 DEF FailedReply
    <3>3. thread'[tx[t].from].error = failing.code
      BY <2>1, <3>2 DEF Told, BinderThread
    <3>4. failing.code \in {"DEAD_REPLY", "FAILED_REPLY"}
      BY <2>5 DEF IInv, FailOK, FailedReply
    <3> QED BY <3>3, <3>4
  <2>6. ASSUME NEW th \in Thread, Read(th) \/ ThreadExit(th) PROVE Answered(t, tx[t].from)
    <3>1. ThreadExit(th) => CutThread(th) /\ failing.t = NoTr
      BY DEF ThreadExit, InIoctl, Unlocked
    <3> QED BY <2>4, <2>6, <3>1, SenderKept
  <2>7. ASSUME NEW p \in Proc, Close(p) \/ DeferredRelease(p) PROVE FALSE
    BY <2>2, <2>7 DEF Close, DeferredRelease
  <2>8. ASSUME LockHeld PROVE Answered(t, tx[t].from)
    <3>1. ASSUME NEW th \in Thread, ReleaseThread(th) PROVE CutThread(th) /\ failing.t = NoTr
      BY <3>1 DEF ReleaseThread, Releasing
    <3>2. ThreadFreed => UNCHANGED tx
      BY DEF ThreadFreed
    <3>3. tx[t].from \in Thread
      BY <2>1
    <3> QED BY <2>2, <2>4, <2>5, <2>8, <3>1, <3>2, <3>3, SenderKept DEF LockHeld
  <2> QED BY <2>2, <2>3, <2>6, <2>7, <2>8 DEF Next, vars
<1>2. IInv /\ [Next]_vars =>
        [\A t \in Tr : LET th == tx[t].from IN
           tx[t].live /\ th # NoThread /\ tx'[t].from # th => Answered(t, th)]_vars
  BY <1>1
<1> QED BY <1>2, Invariance, PTL DEF Spec, CallerIsTold

-----------------------------------------------------------------------------
\* A oneway call sent to p, until its buffer is freed.  InTurn: what was sent no earlier
\* than a call that waits, waits behind it.
Sent(p, t) == buffer[t].async /\ buffer[t].node = p /\ buffer[t].state # "free"
InTurn(p, list) ==
  \A i \in DOMAIN list, t \in Tr :
    Sent(p, t) /\ list[i].t <= t => \E j \in DOMAIN list : i <= j /\ list[j] = CallWork(t)
InOrder == \A p \in Proc : InTurn(p, proc[p].async_todo)

LEMMA NoneSent ==
  ASSUME NEW p, NEW list, InTurn(p, list), \A t \in Tr : Sent(p, t)' => Sent(p, t)
  PROVE  InTurn(p, list)'
BY DEF InTurn

LEMMA FirstTaken ==
  ASSUME NEW p, NEW list \in Seq(Work), list # <<>>, InTurn(p, list),
         \A t \in Tr : Sent(p, t)' => Sent(p, t)
  PROVE  InTurn(p, Tail(list))'
<1>1. /\ Len(list) \in Nat \ {0} /\ DOMAIN list = 1..Len(list)
      /\ DOMAIN Tail(list) = 1..(Len(list) - 1)
      /\ \A i \in DOMAIN Tail(list) : Tail(list)[i] = list[i + 1]
  OBVIOUS
<1> DEFINE a == Tail(list)
<1> HIDE DEF a
<1>2. ASSUME NEW i \in DOMAIN a, NEW t \in Tr, Sent(p, t)', a[i].t <= t
      PROVE  \E j \in DOMAIN a : i <= j /\ a[j] = CallWork(t)
  <2>1. i + 1 \in DOMAIN list /\ list[i + 1].t <= t /\ i \in 1..(Len(list) - 1)
    BY <1>1, <1>2 DEF a
  <2>2. PICK j \in DOMAIN list : i + 1 <= j /\ list[j] = CallWork(t)
    BY <1>2, <2>1 DEF InTurn
  <2>3. j - 1 \in DOMAIN a /\ i <= j - 1 /\ (j - 1) + 1 = j
    BY <1>1, <2>1, <2>2 DEF a
  <2>4. a[j - 1] = CallWork(t)
    BY <1>1, <2>2, <2>3 DEF a
  <2> QED BY <2>3, <2>4
<1>3. InTurn(p, a)'
  BY <1>2 DEF InTurn
<1> QED BY <1>3 DEF a

LEMMA LastAdded ==
  ASSUME NEW p, NEW list \in Seq(Work), InTurn(p, list), NEW n \in Tr,
         \A t \in Tr : Sent(p, t)' => t = n \/ (Sent(p, t) /\ t < n)
  PROVE  InTurn(p, Append(list, CallWork(n)))'
<1> DEFINE a == Append(list, CallWork(n))
<1>1. /\ Len(list) \in Nat /\ DOMAIN list = 1..Len(list)
      /\ DOMAIN a = 1..(Len(list) + 1) /\ a[Len(list) + 1] = CallWork(n)
      /\ \A i \in DOMAIN list : a[i] = list[i]
  OBVIOUS
<1> HIDE DEF a
<1>2. ASSUME NEW i \in DOMAIN a, NEW t \in Tr, Sent(p, t)', a[i].t <= t
      PROVE  \E j \in DOMAIN a : i <= j /\ a[j] = CallWork(t)
  <2>1. CASE t = n
    BY <1>1, <2>1
  <2>2. CASE t # n
    <3>1. Sent(p, t) /\ t < n
      BY <1>2, <2>2
    <3>2. i # Len(list) + 1
      BY <1>1, <1>2, <3>1, CallWorks, Numbers
    <3>3. i \in DOMAIN list /\ list[i].t <= t
      BY <1>1, <1>2, <3>2
    <3>4. PICK j \in DOMAIN list : i <= j /\ list[j] = CallWork(t)
      BY <3>1, <3>3 DEF InTurn
    <3> QED BY <1>1, <3>4
  <2> QED BY <2>1, <2>2
<1>3. InTurn(p, a)'
  BY <1>2 DEF InTurn
<1> QED BY <1>3 DEF a

LEMMA InOrderNext ==
  ASSUME IInv, InOrder, [Next]_vars
  PROVE  InOrder'
<1> DEFINE SameLists == \A p \in Proc : proc'[p].async_todo = proc[p].async_todo
<1>1. /\ proc \in [Proc -> BinderProc] /\ calls \in Nat
      /\ \A p \in Proc : proc[p] \in BinderProc /\ proc[p].async_todo \in Seq(Work)
  BY Fields DEF IInv, TypeOK
<1>2. ASSUME NEW p \in Proc, NEW t \in Tr, Sent(p, t)' PROVE Sent(p, t) \/ t = calls + 1
  BY <1>2, BuffersNext DEF Sent, Unread
<1>3. ASSUME NEW p \in Proc, NEW t \in Tr, Sent(p, t) PROVE t <= calls
  <2>1. RecordOK(t) /\ t \in Nat
    BY Numbers DEF IInv, CallsOK
  <2> QED BY <1>1, <1>3, <2>1, FreeRecords DEF Sent, RecordOK
<1>4. ASSUME NEW p \in Proc, \A t \in Tr : Sent(p, t)' => Sent(p, t),
             \/ proc'[p].async_todo = proc[p].async_todo
             \/ proc[p].async_todo # <<>> /\ proc'[p].async_todo = Tail(proc[p].async_todo)
      PROVE  InTurn(p, proc[p].async_todo)'
  <2>1. PICK list \in Seq(Work) : list = proc[p].async_todo /\ InTurn(p, list)
    BY <1>1 DEF InOrder
  <2>2. CASE proc'[p].async_todo = list
    <3>1. InTurn(p, list)'
      BY <1>4, <2>1, NoneSent
    <3> QED BY <2>2, <3>1 DEF InTurn
  <2>3. CASE list # <<>> /\ proc'[p].async_todo = Tail(list)
    <3>1. InTurn(p, Tail(list))'
      BY <1>4, <2>1, <2>3, FirstTaken
    <3> QED BY <2>3, <3>1 DEF InTurn
  <2> QED BY <1>4, <2>1, <2>2, <2>3
<1>5. ASSUME NEW th \in Thread, NEW q \in Proc, OnewayCall(th, q) PROVE InOrder'
  <2>1. PICK n \in Tr : n = calls + 1
    BY <1>1, <1>5, CallAssumption DEF OnewayCall, NewCall, Tr
  <2>2. proc' = QueueOneway(q, CallWork(n)) /\ buffer'[n].node = q
    BY <1>1, <1>5, <2>1 DEF OnewayCall, NewCall, IInv, TypeOK, FreeBuffer
  <2>3. ASSUME NEW p \in Proc, p # q PROVE InTurn(p, proc[p].async_todo)'
    <3>1. proc'[p] = proc[p]
      BY <1>1, <2>2, <2>3 DEF QueueOneway, Enqueue
    <3>2. \A t \in Tr : Sent(p, t)' => Sent(p, t)
      BY <1>2, <2>1, <2>2, <2>3 DEF Sent
    <3> QED BY <1>4, <3>1, <3>2
  <2>4. \A t \in Tr : Sent(q, t)' => t = n \/ (Sent(q, t) /\ t < n)
    BY <1>1, <1>2, <1>3, <2>1, Numbers
  <2>5. CASE proc[q].has_async
    <3>1. proc'[q] = [proc[q] EXCEPT !.async_todo = Append(@, CallWork(n))]
      BY <1>1, <2>2, <2>5 DEF QueueOneway
    <3>2. proc'[q].async_todo = Append(proc[q].async_todo, CallWork(n))
      BY <1>1, <3>1 DEF BinderProc
    <3>3. PICK list \in Seq(Work) : list = proc[q].async_todo /\ InTurn(q, list)
      BY <1>1 DEF InOrder
    <3>4. InTurn(q, Append(list, CallWork(n)))'
      BY <2>4, <3>3, LastAdded
    <3>5. InTurn(q, proc[q].async_todo)'
      BY <3>2, <3>3, <3>4 DEF InTurn
    <3> QED BY <2>3, <3>5 DEF InOrder
  <2>6. CASE ~proc[q].has_async
    <3>1. proc[q].async_todo = <<>>
      BY <2>6 DEF IInv, AsyncOK
    <3>2. proc'[q].async_todo = <<>>
      <4> DEFINE f == [proc EXCEPT ![q].has_async = TRUE]
      <4>1. f[q] = [proc[q] EXCEPT !.has_async = TRUE] /\ DOMAIN f = Proc
        BY <1>1
      <4>2. proc' = [f EXCEPT ![q].todo = Append(@, CallWork(n))]
        BY <2>2, <2>6 DEF QueueOneway, Enqueue
      <4> HIDE DEF f
      <4>3. proc'[q] = [f[q] EXCEPT !.todo = Append(@, CallWork(n))]
        BY <4>1, <4>2
      <4>4. PICK g : g = f[q]
        OBVIOUS
      <4>5. g \in BinderProc /\ g.async_todo = proc[q].async_todo
        BY <1>1, <4>1, <4>4 DEF BinderProc
      <4>6. proc'[q] = [g EXCEPT !.todo = Append(@, CallWork(n))]
        BY <4>3, <4>4
      <4> QED BY <3>1, <4>5, <4>6 DEF BinderProc
    <3>3. InTurn(q, proc[q].async_todo)'
      BY <3>2 DEF InTurn
    <3> QED BY <2>3, <3>3 DEF InOrder
  <2> QED BY <2>5, <2>6
\* No other step sends a oneway call.
<1>6. ASSUME NEW th \in Thread, NEW q \in Proc, SyncCall(th, q), NEW p \in Proc, NEW t \in Tr,
             Sent(p, t)'
      PROVE  Sent(p, t)
  <2>1. calls + 1 \in Tr
    BY <1>1, <1>6, CallAssumption DEF SyncCall, NewCall, Tr
  <2>2. ~buffer'[calls + 1].async
    BY <1>6, <2>1 DEF SyncCall, NewCall, IInv, TypeOK, FreeBuffer
  <2> QED BY <1>2, <1>6, <2>2 DEF Sent
<1>7. ASSUME UNCHANGED calls, NEW p \in Proc, NEW t \in Tr, Sent(p, t)' PROVE Sent(p, t)
  <2>1. IInv' /\ t \in Nat
    BY NextIInv, Numbers
  <2>2. RecordOK(t)'
    BY <2>1 DEF IInv, CallsOK
  <2>3. t # calls + 1
    BY <1>1, <1>7, <2>1, <2>2, FreeRecords DEF RecordOK, Sent
  <2> QED BY <1>2, <1>7, <2>3
<1>8. ASSUME UNCHANGED calls, SameLists PROVE InOrder'
  BY <1>4, <1>7, <1>8 DEF InOrder
<1>9. ASSUME NEW p \in Proc, UNCHANGED calls, proc[p].async_todo # <<>>,
             proc' = [proc EXCEPT ![p].async_todo = Tail(@)]
      PROVE  InOrder'
  <2>1. /\ proc'[p].async_todo = Tail(proc[p].async_todo)
        /\ \A q \in Proc \ {p} : proc'[q] = proc[q]
    BY <1>1, <1>9 DEF BinderProc
  <2> QED BY <1>4, <1>7, <1>9, <2>1 DEF InOrder
<1>10. ASSUME NEW p \in Proc, NEW v,
              \/ proc' = [proc EXCEPT ![p].todo = v]
              \/ proc' = [proc EXCEPT ![p].state = v]
              \/ proc' = [proc EXCEPT ![p].has_async = v]
       PROVE  SameLists
  <2>1. PICK r \in BinderProc : r = proc[p]
    BY <1>1
  <2>2. /\ \/ proc'[p] = [r EXCEPT !.todo = v]
           \/ proc'[p] = [r EXCEPT !.state = v]
           \/ proc'[p] = [r EXCEPT !.has_async = v]
        /\ \A q \in Proc \ {p} : proc'[q] = proc[q]
    BY <1>1, <1>10, <2>1
  <2>3. /\ [r EXCEPT !.todo = v].async_todo = r.async_todo
        /\ [r EXCEPT !.state = v].async_todo = r.async_todo
        /\ [r EXCEPT !.has_async = v].async_todo = r.async_todo
    BY DEF BinderProc
  <2> QED BY <2>1, <2>2, <2>3
<1>11. ASSUME NEW th \in Thread, Command(th) PROVE InOrder'
  <2>1. ASSUME NEW p \in Proc, SyncCall(th, p) PROVE InOrder'
    <3>1. proc' = Enqueue(proc, p, CallWork(calls + 1)) \/ proc' = proc
      BY <2>1 DEF SyncCall
    <3>2. SameLists
      BY <1>10, <3>1 DEF Enqueue
    <3> QED BY <1>4, <1>6, <2>1, <3>2 DEF InOrder
  <2>2. ASSUME NEW t \in Tr, BcFreeBuffer(th, t) PROVE InOrder'
    <3>1. /\ UNCHANGED calls /\ ProcOf[th] \in Proc
          /\ \/ UNCHANGED proc
             \/ proc' = [proc EXCEPT ![ProcOf[th]].has_async = FALSE]
             \/ /\ proc[ProcOf[th]].async_todo # <<>>
                /\ proc' = [proc EXCEPT ![ProcOf[th]].async_todo = Tail(@)]
      BY <2>2, ThreadAssumption DEF BcFreeBuffer, StartNextAsync
    <3>2. proc' = [proc EXCEPT ![ProcOf[th]].has_async = FALSE] => SameLists
      BY <1>10, <3>1
    <3> QED BY <1>8, <1>9, <3>1, <3>2
  <2>3. CASE \/ \E p \in Proc : CallDeadNode(th, p) \/ CallBadStack(th, p) \/ CallRefused(th, p)
             \/ ReplyBadStack(th) \/ Reply(th) \/ \E code : ReplyFailed(th, code)
    <3>1. UNCHANGED <<calls, proc>>
      BY <2>3 DEF CallDeadNode, CallBadStack, CallRefused, ReplyBadStack, Reply, ReplyFailed,
                  RaiseError
    <3> QED BY <1>8, <3>1
  <2> QED BY <1>5, <1>11, <2>1, <2>2, <2>3 DEF Command
<1>12. ASSUME NEW th \in Thread, Read(th) PROVE InOrder'
  <2>1. /\ UNCHANGED calls /\ ProcOf[th] \in Proc
        /\ UNCHANGED proc \/ proc' = [proc EXCEPT ![ProcOf[th]].todo = Tail(@)]
    BY <1>12, ThreadAssumption
       DEF Read, ReadErrors, Sleep, ReadThreadWork, ReadProcWork, ReadRetry
  <2>2. SameLists
    BY <1>10, <2>1
  <2> QED BY <1>8, <2>1, <2>2
<1>13. ASSUME NEW p \in Proc, Close(p) \/ DeferredRelease(p) PROVE InOrder'
  <2>1. UNCHANGED calls /\ (UNCHANGED proc \/ proc' = [proc EXCEPT ![p].state = "closed"])
    BY <1>13 DEF Close, DeferredRelease
  <2>2. SameLists
    BY <1>10, <2>1
  <2> QED BY <1>8, <2>1, <2>2
<1>14. ASSUME LockHeld PROVE InOrder'
  <2>1. UNCHANGED calls /\ releasing \in Proc \cup {NoProc}
    BY <1>14, Fields
       DEF IInv, LockHeld, FailedReply, ReleaseThreadWork, ThreadFreed, ReleaseThread,
           ReleaseNode, ReleaseProcWork, ReleaseBuffers
  <2>2. CASE ReleaseNode
    BY <1>9, <2>1, <2>2 DEF ReleaseNode, Releasing
  <2>3. CASE ReleaseProcWork
    <3>1. SameLists
      BY <1>1, <2>1, <2>3 DEF ReleaseProcWork, Releasing, BinderProc
    <3> QED BY <1>8, <2>1, <3>1
  <2>4. CASE ReleaseBuffers
    <3>1. /\ releasing \in Proc
          /\ proc' = [proc EXCEPT ![releasing] =
                        [@ EXCEPT !.state = "released", !.has_async = FALSE]]
      BY <2>1, <2>4 DEF ReleaseBuffers, Releasing
    <3>2. /\ proc'[releasing] = [proc[releasing] EXCEPT !.state = "released",
                                                       !.has_async = FALSE]
          /\ \A p \in Proc \ {releasing} : proc'[p] = proc[p]
      BY <1>1, <3>1
    <3>3. PICK r \in BinderProc : r = proc[releasing]
      BY <1>1, <3>1
    <3>4. [r EXCEPT !.state = "released", !.has_async = FALSE].async_todo = r.async_todo
      BY DEF BinderProc
    <3>5. SameLists
      BY <3>2, <3>3, <3>4
    <3> QED BY <1>8, <2>1, <3>5
  <2>5. CASE FailedReply \/ ReleaseThreadWork \/ ThreadFreed \/ \E th \in Thread : ReleaseThread(th)
    <3>1. UNCHANGED proc
      BY <2>5 DEF FailedReply, ReleaseThreadWork, ThreadFreed, ReleaseThread
    <3> QED BY <1>8, <2>1, <3>1
  <2> QED BY <1>14, <2>2, <2>3, <2>4, <2>5 DEF LockHeld
<1>15. ASSUME NEW th \in Thread, ThreadExit(th) PROVE InOrder'
  BY <1>8, <1>15 DEF ThreadExit
<1>16. UNCHANGED vars => InOrder'
  BY <1>8 DEF vars
<1> QED BY <1>11, <1>12, <1>13, <1>14, <1>15, <1>16 DEF Next

LEMMA OrderKept == Spec => []InOrder
<1>1. Init => InOrder
  BY DEF Init, InOrder, InTurn, NewProc
<1>2. IInv /\ InOrder /\ [Next]_vars => InOrder'
  BY InOrderNext
<1> QED BY <1>1, <1>2, Invariance, PTL DEF Spec

(***************************************************************************)
(* Oneway calls reach a node in the order in which they were sent to it:   *)
(* when one of them is read no older one is still under way.  It has left  *)
(* async_todo, so it is the one in progress; an older one would be in      *)
(* progress too, or wait behind it.                                        *)
(***************************************************************************)
THEOREM OnewayCallsKeepOrder == Spec => OnewayInOrder
<1>1. ASSUME IInv, InOrder, [Next]_vars, NEW t \in Tr, buffer[t].async,
             buffer[t].state = "kernel", buffer'[t].state = "user",
             NEW s \in 1..(t - 1), tx[s].live, tx[s].oneway, buffer[s].node = buffer[t].node
      PROVE  FALSE
  <2>1. /\ t # calls + 1 /\ Unlocked
        /\ \E th \in Thread : \/ Holds(<<"thread", th>>, t)
                              \/ Holds(<<"proc", ProcOf[th]>>, t)
    <3>1. RecordOK(t) /\ t \in Nat /\ calls \in Nat
      BY <1>1, Fields, Numbers DEF IInv, CallsOK
    <3>2. t # calls + 1
      BY <1>1, <3>1, FreeRecords DEF RecordOK
    <3> QED BY <1>1, <3>2, BuffersNext
  <2>2. s \in Tr /\ s < t
    BY <1>1, CallAssumption DEF Tr
  <2>3. PICK p \in Proc : p = buffer[t].node
    <3>1. PICK th \in Thread : Holds(<<"thread", th>>, t) \/ Holds(<<"proc", ProcOf[th]>>, t)
      BY <2>1
    <3>2. ProcOf[th] \in Proc /\ QueueOK(t)
      BY <1>1, ThreadAssumption DEF IInv
    <3>3. CASE Holds(<<"thread", th>>, t)
      <4>1. IsHome(<<"thread", th>>, t)
        BY <3>2, <3>3, Places DEF QueueOK
      <4> QED BY <4>1, Places, ThreadAssumption DEF IsHome
    <3>4. CASE Holds(<<"proc", ProcOf[th]>>, t)
      <4>1. IsHome(<<"proc", ProcOf[th]>>, t)
        BY <3>2, <3>4, Places DEF QueueOK
      <4> QED BY <3>2, <4>1, Places DEF IsHome
    <3> QED BY <3>1, <3>3, <3>4
  <2>4. ~Waiting(t)
    <3>1. PICK pl \in Place : Holds(pl, t) /\ \A q \in Proc : pl # <<"async", q>>
      BY <2>1, Places, ThreadAssumption
    <3>2. \A q \in Proc : ~Holds(<<"async", q>>, t)
      BY <1>1, <3>1, Places DEF IInv, QueueOK
    <3> QED BY <3>2, ListOf DEF Waiting, Holds
  <2>5. t \in InProgress(p) /\ AsyncOK(p) /\ releasing # p
    BY <1>1, <2>1, <2>3, <2>4, ThreadAssumption DEF InProgress, IInv, Unlocked
  <2>6. buffer[s].async /\ Unread(s)
    <3>1. OnewayOK(s) /\ QueueOK(s)
      BY <1>1, <2>2 DEF IInv, CallsOK
    <3> QED BY <1>1, <3>1 DEF OnewayOK, Held, QueueOK
  <2>7. CASE ~Waiting(s)
    <3>1. s \in InProgress(p)
      BY <1>1, <2>2, <2>3, <2>6, <2>7 DEF InProgress, Unread
    <3>2. s = t
      BY <2>5, <3>1 DEF AsyncOK
    <3> QED BY <2>2, <3>2, Numbers
  <2>8. CASE Waiting(s)
    <3>1. InList(s, proc[p].async_todo)
      BY <1>1, <2>2, <2>3, <2>8, WaitingIsUnread
    <3>2. PICK i \in DOMAIN proc[p].async_todo : proc[p].async_todo[i] = CallWork(s)
      BY <3>1 DEF InList
    <3>3. proc[p].async_todo[i].t <= t
      BY <2>2, <3>2, CallWorks, Numbers
    <3>4. InList(t, proc[p].async_todo)
      BY <1>1, <2>3, <3>3 DEF InOrder, InTurn, Sent, InList
    <3> QED BY <2>4, <3>4 DEF Waiting
  <2> QED BY <2>7, <2>8
<1>2. IInv /\ InOrder /\ [Next]_vars =>
        [\A t \in Tr :
           buffer[t].async /\ buffer[t].state = "kernel" /\ buffer'[t].state = "user"
             => \A s \in 1..(t - 1) :
                  tx[s].live /\ tx[s].oneway => buffer[s].node # buffer[t].node]_vars
  BY <1>1
<1> QED BY <1>2, Invariance, OrderKept, PTL DEF Spec, OnewayInOrder
=============================================================================
