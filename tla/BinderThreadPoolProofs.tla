------------------------ MODULE BinderThreadPoolProofs ------------------------
(***************************************************************************)
(* What holds of the thread pool for any threads, limits and work.         *)
(***************************************************************************)
EXTENDS BinderThreadPool, FiniteSetTheorems, TLAPS

-----------------------------------------------------------------------------
(* Wakes and the end of an ioctl. *)

\* A wake moves one sleeper to "checking" and leaves the rest as it was.
LEMMA WakeOneEffect ==
  ASSUME NEW threads \in [Thread -> BinderThread], WakeOne(threads)
  PROVE  /\ thread' \in [Thread -> BinderThread]
         /\ \A q \in Thread :
              /\ thread'[q].looper = threads[q].looper
              /\ thread'[q].spawn = threads[q].spawn
              /\ thread'[q].need_return = threads[q].need_return
              /\ \/ thread'[q].at = threads[q].at
                 \/ threads[q].at = "asleep" /\ thread'[q].at = "checking"
<1>1. CASE thread' = threads
  BY <1>1
<1>2. CASE \E q \in Thread : /\ threads[q].at = "asleep"
                             /\ thread' = [threads EXCEPT ![q].at = "checking"]
  <2>1. PICK q \in Thread : /\ threads[q].at = "asleep"
                            /\ thread' = [threads EXCEPT ![q].at = "checking"]
    BY <1>2
  <2>2. [threads[q] EXCEPT !.at = "checking"] \in BinderThread
    BY DEF BinderThread, Places
  <2>3. thread' = [threads EXCEPT ![q] = [threads[q] EXCEPT !.at = "checking"]]
    BY <2>1
  <2> QED BY <2>1, <2>2, <2>3 DEF BinderThread, Places
<1> QED BY <1>1, <1>2 DEF WakeOne

LEMMA EndIoctlEffect ==
  ASSUME NEW threads \in [Thread -> BinderThread], NEW left, EndIoctl(threads, left)
  PROVE  /\ thread' \in [Thread -> BinderThread]
         /\ \A q \in Thread :
              /\ thread'[q].looper = threads[q].looper
              /\ thread'[q].spawn = threads[q].spawn
              /\ thread'[q].need_return = threads[q].need_return
              /\ \/ thread'[q].at = threads[q].at
                 \/ threads[q].at = "asleep" /\ thread'[q].at = "checking"
<1>1. CASE WakeOne(threads)
  BY <1>1, WakeOneEffect
<1>2. CASE thread' = threads
  BY <1>2
<1> QED BY <1>1, <1>2 DEF EndIoctl

\* The end of a read: what becomes of the reader, and of the others.
LEMMA DoneEffect ==
  ASSUME TypeOK, NEW th \in Thread, NEW idle \in Int, NEW left,
         NEW place \in Places \ {"asleep"}, Done(th, idle, place, left)
  PROVE  /\ thread' \in [Thread -> BinderThread]
         /\ thread'[th].at = place /\ thread'[th].looper = thread[th].looper
         /\ thread'[th].spawn = NeedsThread(th, idle)
         /\ \A q \in Thread : q # th =>
              /\ thread'[q].looper = thread[q].looper
              /\ thread'[q].spawn = thread[q].spawn
              /\ \/ thread'[q].at = thread[q].at
                 \/ thread[q].at = "asleep" /\ thread'[q].at = "checking"
         /\ requested' = IF NeedsThread(th, idle) THEN requested + 1 ELSE requested
<1> DEFINE r == [thread[th] EXCEPT !.at = place, !.need_return = FALSE,
                                   !.spawn = NeedsThread(th, idle)]
           threads == [thread EXCEPT ![th] = r]
<1>1. NeedsThread(th, idle) \in BOOLEAN
  BY DEF NeedsThread
<1>2. thread[th] \in BinderThread
  BY DEF TypeOK
<1>3. r \in BinderThread /\ r.at = place /\ r.looper = thread[th].looper
      /\ r.spawn = NeedsThread(th, idle)
  BY <1>1, <1>2 DEF BinderThread
<1>4. EndIoctl(threads, left)
      /\ requested' = IF NeedsThread(th, idle) THEN requested + 1 ELSE requested
  BY DEF Done
<1> HIDE DEF r
<1>5. threads \in [Thread -> BinderThread] /\ threads[th] = r
      /\ \A q \in Thread : q # th => threads[q] = thread[q]
  BY <1>3 DEF TypeOK
<1> HIDE DEF threads
<1>6. /\ thread' \in [Thread -> BinderThread]
      /\ \A q \in Thread :
           /\ thread'[q].looper = threads[q].looper
           /\ thread'[q].spawn = threads[q].spawn
           /\ \/ thread'[q].at = threads[q].at
              \/ threads[q].at = "asleep" /\ thread'[q].at = "checking"
  BY <1>4, <1>5, EndIoctlEffect
<1> QED BY <1>3, <1>4, <1>5, <1>6

\* A thread's own fields change, and no other thread's.
LEMMA OneThread ==
  ASSUME TypeOK, NEW th \in Thread, NEW r \in BinderThread,
         thread' = [thread EXCEPT ![th] = r]
  PROVE  /\ thread' \in [Thread -> BinderThread]
         /\ thread'[th] = r
         /\ \A q \in Thread : q # th => thread'[q] = thread[q]
BY DEF TypeOK

-----------------------------------------------------------------------------
(***************************************************************************)
(* What each action does to the places, the looper flags and the requests  *)
(* of the threads.                                                         *)
(***************************************************************************)

\* Every thread but th keeps its flags, and its place unless it is woken.
OthersKeep(th) ==
  /\ thread' \in [Thread -> BinderThread]
  /\ \A q \in Thread : q # th =>
       /\ thread'[q].looper = thread[q].looper
       /\ thread'[q].spawn = thread[q].spawn
       /\ \/ thread'[q].at = thread[q].at
          \/ thread[q].at = "asleep" /\ thread'[q].at = "checking"

\* The thread th goes from one place to another.
Moves(th, from, to) ==
  /\ OthersKeep(th)
  /\ thread[th].at = from /\ thread'[th].at = to

KeepsFlags(th) ==
  thread'[th].looper = thread[th].looper /\ thread'[th].spawn = thread[th].spawn

LEMMA PlaceOnly ==
  ASSUME TypeOK, NEW th \in Thread, NEW place \in Places,
         thread' = [thread EXCEPT ![th].at = place]
  PROVE  OthersKeep(th) /\ KeepsFlags(th) /\ thread'[th].at = place
<1> DEFINE r == [thread[th] EXCEPT !.at = place]
<1>1. thread[th] \in BinderThread
  BY DEF TypeOK
<1>2. r \in BinderThread /\ r.at = place /\ r.looper = thread[th].looper
      /\ r.spawn = thread[th].spawn
  BY <1>1 DEF BinderThread
<1>3. thread' = [thread EXCEPT ![th] = r]
  OBVIOUS
<1> HIDE DEF r
<1>4. /\ thread' \in [Thread -> BinderThread] /\ thread'[th] = r
      /\ \A q \in Thread : q # th => thread'[q] = thread[q]
  BY <1>2, <1>3, OneThread
<1> QED BY <1>2, <1>4 DEF OthersKeep, KeepsFlags

LEMMA StartEffect ==
  ASSUME TypeOK, NEW th \in Thread, StartThreadPool(th)
  PROVE  Moves(th, "outside", "created") /\ KeepsFlags(th)
BY PlaceOnly DEF StartThreadPool, Moves, Places

LEMMA FinishEffect ==
  ASSUME TypeOK, NEW th \in Thread, FinishHandler(th)
  PROVE  Moves(th, "handling", "user") /\ KeepsFlags(th)
BY PlaceOnly DEF FinishHandler, Runs, Moves, Places

LEMMA BeginReadEffect ==
  ASSUME TypeOK, NEW th \in Thread, BeginRead(th)
  PROVE  Moves(th, "user", "checking") /\ KeepsFlags(th)
BY PlaceOnly DEF BeginRead, Runs, Moves, Places

LEMMA CheckEffect ==
  ASSUME TypeOK, NEW th \in Thread, Check(th)
  PROVE  /\ \/ HasProcWork(th) /\ Moves(th, "checking", "leaving")
            \/ ~HasProcWork(th) /\ Moves(th, "checking", "asleep")
         /\ KeepsFlags(th)
<1>1. CASE HasProcWork(th)
  <2>1. thread[th].at = "checking" /\ thread' = [thread EXCEPT ![th].at = "leaving"]
    BY <1>1 DEF Check
  <2> QED BY <1>1, <2>1, PlaceOnly DEF Moves, Places
<1>2. CASE ~HasProcWork(th)
  <2>1. thread[th].at = "checking" /\ thread' = [thread EXCEPT ![th].at = "asleep"]
    BY <1>2 DEF Check
  <2> QED BY <1>2, <2>1, PlaceOnly DEF Moves, Places
<1> QED BY <1>1, <1>2

LEMMA InterruptEffect ==
  ASSUME TypeOK, NEW th \in Thread, Interrupt(th)
  PROVE  Moves(th, "asleep", "interrupted") /\ KeepsFlags(th)
BY PlaceOnly DEF Interrupt, Moves, Places

LEMMA RetryEffect ==
  ASSUME TypeOK, NEW th \in Thread, Retry(th)
  PROVE  Moves(th, "leaving", "checking") /\ KeepsFlags(th)
BY PlaceOnly DEF Retry, Moves, Places

LEMMA FirstReadEffect ==
  ASSUME TypeOK, NEW th \in Thread, NEW looper \in SUBSET {"REGISTERED", "ENTERED", "INVALID"},
         FirstRead(th, looper)
  PROVE  /\ Moves(th, thread[th].at, "checking")
         /\ thread[th].at \in {"outside", "created"}
         /\ thread'[th].looper = looper /\ thread'[th].spawn = thread[th].spawn
         /\ ready' = ready + 1
<1>1. PICK unseen \in BOOLEAN :
        thread' = [thread EXCEPT ![th] = [@ EXCEPT !.at = "checking", !.looper = looper,
                                                   !.need_return = unseen]]
  BY DEF FirstRead
<1> DEFINE r == [thread[th] EXCEPT !.at = "checking", !.looper = looper,
                                   !.need_return = unseen]
<1>2. thread[th] \in BinderThread
  BY DEF TypeOK
<1>3. r \in BinderThread /\ r.at = "checking" /\ r.looper = looper
      /\ r.spawn = thread[th].spawn
  BY <1>2 DEF BinderThread, Places
<1>4. thread' = [thread EXCEPT ![th] = r]
  BY <1>1
<1>5. thread[th].at \in {"outside", "created"} /\ ready' = ready + 1
  BY DEF FirstRead, MayJoin
<1> HIDE DEF r
<1>6. /\ thread' \in [Thread -> BinderThread] /\ thread'[th] = r
      /\ \A q \in Thread : q # th => thread'[q] = thread[q]
  BY <1>3, <1>4, OneThread
<1> QED BY <1>3, <1>5, <1>6 DEF Moves, OthersKeep

LEMMA SpawnEffect ==
  ASSUME TypeOK, NEW th \in Thread, SpawnPooledThread(th)
  PROVE  /\ thread' \in [Thread -> BinderThread]
         /\ thread[th].spawn
         /\ \/ /\ ~poolStarted
               /\ thread' = [thread EXCEPT ![th].spawn = FALSE]
            \/ /\ poolStarted
               /\ \E new \in Pooled :
                    /\ thread[new].at = "outside"
                    /\ thread' = [thread EXCEPT ![th].spawn = FALSE, ![new].at = "created"]
<1>1. \A q \in Thread : thread[q] \in BinderThread
  BY DEF TypeOK
<1>2. \A q \in Thread : /\ [thread[q] EXCEPT !.spawn = FALSE] \in BinderThread
                        /\ [thread[q] EXCEPT !.at = "created"] \in BinderThread
                        /\ [[thread[q] EXCEPT !.spawn = FALSE] EXCEPT !.at = "created"]
                             \in BinderThread
  BY <1>1 DEF BinderThread, Places
<1>3. CASE ~poolStarted
  <2>1. thread' = [thread EXCEPT ![th] = [thread[th] EXCEPT !.spawn = FALSE]]
    BY <1>3 DEF SpawnPooledThread
  <2>2. thread' \in [Thread -> BinderThread]
    BY <1>2, <2>1, OneThread
  <2> QED BY <1>3, <2>2 DEF SpawnPooledThread
<1>4. CASE poolStarted
  <2>1. PICK new \in Pooled :
          /\ thread[new].at = "outside"
          /\ thread' = [thread EXCEPT ![th].spawn = FALSE, ![new].at = "created"]
    BY <1>4 DEF SpawnPooledThread
  <2>2. new \in Thread
    BY DEF Thread
  <2>3. thread' \in [Thread -> BinderThread]
    BY <1>1, <1>2, <2>1, <2>2 DEF TypeOK
  <2> QED BY <1>4, <2>1, <2>3 DEF SpawnPooledThread
<1> QED BY <1>3, <1>4

\* The thread that spawns gives up its request; the new one, if any, was outside.
Spawns(th) ==
  /\ \A q \in Thread : /\ thread'[q].looper = thread[q].looper
                       /\ q # th => thread'[q].spawn = thread[q].spawn
  /\ thread[th].spawn /\ ~thread'[th].spawn
  /\ \/ /\ ~poolStarted
        /\ \A q \in Thread : thread'[q].at = thread[q].at
     \/ /\ poolStarted
        /\ \E new \in Pooled :
             /\ thread[new].at = "outside" /\ thread'[new].at = "created"
             /\ \A q \in Thread : q # new => thread'[q].at = thread[q].at

LEMMA SpawnFlags == ASSUME TypeOK, NEW th \in Thread, SpawnPooledThread(th) PROVE Spawns(th)
<1>1. CASE ~poolStarted
  <2>1. thread' = [thread EXCEPT ![th].spawn = FALSE]
    BY <1>1, SpawnEffect
  <2> QED BY <1>1, <2>1, SpawnEffect DEF TypeOK, BinderThread, Spawns
<1>2. CASE poolStarted
  <2>1. PICK new \in Pooled :
          /\ thread[new].at = "outside"
          /\ thread' = [thread EXCEPT ![th].spawn = FALSE, ![new].at = "created"]
    BY <1>2, SpawnEffect
  <2>2. new \in Thread
    BY DEF Thread
  <2>3. ASSUME NEW q \in Thread
        PROVE  /\ thread'[q].looper = thread[q].looper
               /\ q # th => thread'[q].spawn = thread[q].spawn
               /\ q # new => thread'[q].at = thread[q].at
    <3>1. CASE q # th /\ q # new
      BY <2>1, <3>1 DEF TypeOK
    <3>2. CASE q = th /\ q # new
      BY <2>1, <3>2 DEF TypeOK, BinderThread
    <3>3. CASE q # th /\ q = new
      BY <2>1, <3>3 DEF TypeOK, BinderThread
    <3>4. CASE q = th /\ q = new
      BY <2>1, <3>4 DEF TypeOK, BinderThread
    <3> QED BY <3>1, <3>2, <3>3, <3>4
  <2>4. ~thread'[th].spawn /\ thread'[new].at = "created"
    <3>1. CASE th # new
      BY <2>1, <2>2, <3>1 DEF TypeOK, BinderThread
    <3>2. CASE th = new
      BY <2>1, <2>2, <3>2 DEF TypeOK, BinderThread
    <3> QED BY <3>1, <3>2
  <2> QED BY <1>2, <2>1, <2>2, <2>3, <2>4, SpawnEffect DEF Spawns
<1> QED BY <1>1, <1>2

\* The spawn flag of a reader that comes to the label done.
LEMMA TakeWorkEffect ==
  ASSUME TypeOK, NEW th \in Thread, TakeWork(th)
  PROVE  /\ Moves(th, "leaving", "handling")
         /\ thread'[th].looper = thread[th].looper
         /\ thread'[th].spawn = NeedsThread(th, ready - 1)
         /\ ready' = ready - 1
         /\ requested' = IF NeedsThread(th, ready - 1) THEN requested + 1 ELSE requested
<1>1. Done(th, ready - 1, "handling", posted > taken + 1) /\ ready' = ready - 1
      /\ thread[th].at = "leaving"
  BY DEF TakeWork
<1>2. ready - 1 \in Int /\ "handling" \in Places \ {"asleep"}
  BY DEF TypeOK, Places
<1> QED BY <1>1, <1>2, DoneEffect DEF Moves, OthersKeep

LEMMA ReturnEmptyEffect ==
  ASSUME TypeOK, NEW th \in Thread, ReturnEmpty(th)
  PROVE  /\ Moves(th, "leaving", "user")
         /\ thread'[th].looper = thread[th].looper
         /\ thread'[th].spawn = NeedsThread(th, ready - 1)
         /\ ready' = ready - 1
         /\ requested' = IF NeedsThread(th, ready - 1) THEN requested + 1 ELSE requested
<1>1. Done(th, ready - 1, "user", FALSE) /\ ready' = ready - 1
      /\ thread[th].at = "leaving"
  BY DEF ReturnEmpty
<1>2. ready - 1 \in Int /\ "user" \in Places \ {"asleep"}
  BY DEF TypeOK, Places
<1> QED BY <1>1, <1>2, DoneEffect DEF Moves, OthersKeep

LEMMA ReadOwnWorkEffect ==
  ASSUME TypeOK, NEW th \in Thread, ReadOwnWork(th)
  PROVE  /\ Moves(th, "handling", "handling")
         /\ thread'[th].looper = thread[th].looper
         /\ ~thread[th].spawn /\ thread'[th].spawn = NeedsThread(th, ready)
         /\ ready' = ready
         /\ requested' = IF NeedsThread(th, ready) THEN requested + 1 ELSE requested
<1>1. Done(th, ready, "handling", posted > taken) /\ ready' = ready
      /\ thread[th].at = "handling" /\ ~thread[th].spawn
  BY DEF ReadOwnWork, Runs
<1>2. ready \in Int /\ "handling" \in Places \ {"asleep"}
  BY DEF TypeOK, Places
<1> QED BY <1>1, <1>2, DoneEffect DEF Moves, OthersKeep

LEMMA RestartEffect ==
  ASSUME TypeOK, NEW th \in Thread, Restart(th)
  PROVE  Moves(th, "interrupted", "user") /\ KeepsFlags(th)
<1> DEFINE r == [thread[th] EXCEPT !.at = "user", !.need_return = FALSE]
           threads == [thread EXCEPT ![th] = r]
<1>1. thread[th] \in BinderThread
  BY DEF TypeOK
<1>2. r \in BinderThread /\ r.at = "user" /\ r.looper = thread[th].looper
      /\ r.spawn = thread[th].spawn
  BY <1>1 DEF BinderThread, Places
<1>3. EndIoctl(threads, posted > taken) /\ thread[th].at = "interrupted"
  BY DEF Restart
<1> HIDE DEF r
<1>4. threads \in [Thread -> BinderThread] /\ threads[th] = r
      /\ \A q \in Thread : q # th => threads[q] = thread[q]
  BY <1>2 DEF TypeOK
<1> HIDE DEF threads
<1>5. /\ thread' \in [Thread -> BinderThread]
      /\ \A q \in Thread :
           /\ thread'[q].looper = threads[q].looper
           /\ thread'[q].spawn = threads[q].spawn
           /\ \/ thread'[q].at = threads[q].at
              \/ threads[q].at = "asleep" /\ thread'[q].at = "checking"
  BY <1>3, <1>4, EndIoctlEffect
<1> QED BY <1>2, <1>3, <1>4, <1>5 DEF Moves, OthersKeep, KeepsFlags

\* Threads only wake up.
Wakes ==
  /\ thread' \in [Thread -> BinderThread]
  /\ \A q \in Thread :
       /\ thread'[q].looper = thread[q].looper
       /\ thread'[q].spawn = thread[q].spawn
       /\ \/ thread'[q].at = thread[q].at
          \/ thread[q].at = "asleep" /\ thread'[q].at = "checking"

LEMMA PostEffect == ASSUME TypeOK, Post PROVE Wakes
<1>1. WakeOne(thread) /\ thread \in [Thread -> BinderThread]
  BY DEF Post, TypeOK
<1> QED BY <1>1, WakeOneEffect DEF Wakes

LEMMA FlushEffect == ASSUME TypeOK, DeferredFlush PROVE Wakes
<1> DEFINE f(q) == IF thread[q].at \in {"outside", "created"} THEN thread[q]
                   ELSE [thread[q] EXCEPT !.need_return = TRUE,
                                          !.at = IF @ = "asleep" THEN "checking" ELSE @]
<1>1. ASSUME NEW q \in Thread
      PROVE  /\ f(q) \in BinderThread /\ f(q).looper = thread[q].looper
             /\ f(q).spawn = thread[q].spawn
             /\ \/ f(q).at = thread[q].at
                \/ thread[q].at = "asleep" /\ f(q).at = "checking"
  <2>1. thread[q] \in BinderThread
    BY DEF TypeOK
  <2>2. CASE thread[q].at = "asleep"
    BY <2>1, <2>2 DEF BinderThread, Places
  <2>3. CASE thread[q].at # "asleep"
    BY <2>1, <2>3 DEF BinderThread, Places
  <2> QED BY <2>2, <2>3
<1>2. thread' = [q \in Thread |-> f(q)]
  BY DEF DeferredFlush
<1> HIDE DEF f
<1> QED BY <1>1, <1>2 DEF Wakes

-----------------------------------------------------------------------------
(* Type correctness. *)

LEMMA TypeInit == Init => TypeOK
<1> SUFFICES ASSUME Init PROVE TypeOK
  OBVIOUS
<1>1. MaxWork \in Nat
  BY PoolAssumption
<1>4. /\ max = MaxThreads /\ requested = 0 /\ started = 0 /\ ready = 0
      /\ posted = 0 /\ taken = 0 /\ poolStarted = FALSE
  BY DEF Init
<1>2. \A th \in Thread :
        [at |-> IF th \in Clients THEN "handling" ELSE "outside",
         looper |-> {}, need_return |-> FALSE, spawn |-> FALSE] \in BinderThread
  BY DEF BinderThread, Places
<1>3. thread \in [Thread -> BinderThread]
  BY <1>2 DEF Init
<1>5. max \in Limits
  BY <1>4 DEF Limits
<1>6. poolStarted \in BOOLEAN
  BY <1>4, Zenon
<1>7. /\ requested \in Nat /\ started \in Nat /\ ready \in Int
      /\ posted \in 0..MaxWork /\ taken \in 0..posted
  BY <1>1, <1>4, SMT
<1> QED BY <1>3, <1>5, <1>6, <1>7 DEF TypeOK

LEMMA TypeStep == TypeOK /\ [Next]_vars => TypeOK'
<1> SUFFICES ASSUME TypeOK, [Next]_vars PROVE TypeOK'
  OBVIOUS
<1>0. /\ max \in Limits /\ requested \in Nat /\ started \in Nat /\ ready \in Int
      /\ posted \in 0..MaxWork /\ taken \in 0..posted /\ poolStarted \in BOOLEAN
      /\ MaxWork \in Nat
  BY PoolAssumption DEF TypeOK
<1>1. CASE UNCHANGED vars
  BY <1>1 DEF vars, counters, TypeOK
<1>2. ASSUME NEW th \in Thread, StartThreadPool(th)
      PROVE  TypeOK'
  <2>1. thread' \in [Thread -> BinderThread]
    BY <1>2, StartEffect DEF Moves, OthersKeep
  <2>2. poolStarted' \in BOOLEAN
    BY <1>2, Zenon DEF StartThreadPool
  <2> QED BY <1>0, <1>2, <2>1, <2>2 DEF TypeOK, StartThreadPool, counters
<1>3. ASSUME NEW th \in Thread, SpawnPooledThread(th)
      PROVE  TypeOK'
  BY <1>0, <1>3, SpawnEffect DEF TypeOK, SpawnPooledThread, counters
<1>4. ASSUME NEW th \in Thread, Enter(th)
      PROVE  TypeOK'
  <2>1. thread' \in [Thread -> BinderThread] /\ ready' = ready + 1
    BY <1>4, FirstReadEffect DEF Enter, Moves, OthersKeep
  <2> QED BY <1>0, <1>4, <2>1 DEF TypeOK, Enter
<1>5. ASSUME NEW th \in Thread, Register(th)
      PROVE  TypeOK'
  <2>1. thread' \in [Thread -> BinderThread] /\ ready' = ready + 1
    BY <1>5, FirstReadEffect DEF Register, Moves, OthersKeep
  <2>2. requested' \in Nat /\ started' \in Nat
    BY <1>0, <1>5 DEF Register, WasRequested, CountRegistration
  <2> QED BY <1>0, <1>5, <2>1, <2>2 DEF TypeOK, Register
<1>6. ASSUME NEW th \in Thread, FinishHandler(th)
      PROVE  TypeOK'
  <2>1. thread' \in [Thread -> BinderThread]
    BY <1>6, FinishEffect DEF Moves, OthersKeep
  <2> QED BY <1>0, <1>6, <2>1 DEF TypeOK, FinishHandler, counters
<1>7. ASSUME NEW th \in Thread, ReadOwnWork(th)
      PROVE  TypeOK'
  <2>1. thread' \in [Thread -> BinderThread] /\ requested' \in Nat
    BY <1>0, <1>7, ReadOwnWorkEffect DEF Moves, OthersKeep
  <2> QED BY <1>0, <1>7, <2>1 DEF TypeOK, ReadOwnWork
<1>8. ASSUME NEW th \in Thread, BeginRead(th)
      PROVE  TypeOK'
  <2>1. thread' \in [Thread -> BinderThread]
    BY <1>8, BeginReadEffect DEF Moves, OthersKeep
  <2> QED BY <1>0, <1>8, <2>1 DEF TypeOK, BeginRead
<1>9. ASSUME NEW th \in Thread, Check(th)
      PROVE  TypeOK'
  <2>1. thread' \in [Thread -> BinderThread]
    BY <1>9, CheckEffect DEF Moves, OthersKeep
  <2> QED BY <1>0, <1>9, <2>1 DEF TypeOK, Check, counters
<1>10. ASSUME NEW th \in Thread, Restart(th)
       PROVE  TypeOK'
  <2>1. thread' \in [Thread -> BinderThread]
    BY <1>10, RestartEffect DEF Moves, OthersKeep
  <2> QED BY <1>0, <1>10, <2>1 DEF TypeOK, Restart
<1>11. ASSUME NEW th \in Thread, TakeWork(th)
       PROVE  TypeOK'
  <2>1. thread' \in [Thread -> BinderThread] /\ requested' \in Nat
    BY <1>0, <1>11, TakeWorkEffect DEF Moves, OthersKeep
  <2> QED BY <1>0, <1>11, <2>1 DEF TypeOK, TakeWork
<1>12. ASSUME NEW th \in Thread, ReturnEmpty(th)
       PROVE  TypeOK'
  <2>1. thread' \in [Thread -> BinderThread] /\ requested' \in Nat
    BY <1>0, <1>12, ReturnEmptyEffect DEF Moves, OthersKeep
  <2> QED BY <1>0, <1>12, <2>1 DEF TypeOK, ReturnEmpty
<1>13. ASSUME NEW th \in Thread, Retry(th)
       PROVE  TypeOK'
  <2>1. thread' \in [Thread -> BinderThread]
    BY <1>13, RetryEffect DEF Moves, OthersKeep
  <2> QED BY <1>0, <1>13, <2>1 DEF TypeOK, Retry, counters
<1>14. ASSUME NEW th \in Thread, Interrupt(th)
       PROVE  TypeOK'
  <2>1. thread' \in [Thread -> BinderThread]
    BY <1>14, InterruptEffect DEF Moves, OthersKeep
  <2> QED BY <1>0, <1>14, <2>1 DEF TypeOK, Interrupt, counters
<1>15. CASE Post
  BY <1>0, <1>15, PostEffect DEF TypeOK, Post, Wakes, counters
<1>16. CASE DeferredFlush
  BY <1>0, <1>16, FlushEffect DEF TypeOK, DeferredFlush, Wakes, counters
<1>17. ASSUME NEW n \in Resizes, SetMaxThreads(n)
       PROVE  TypeOK'
  BY <1>0, <1>17 DEF TypeOK, SetMaxThreads, Limits
<1> QED
  BY <1>1, <1>2, <1>3, <1>4, <1>5, <1>6, <1>7, <1>8, <1>9, <1>10, <1>11, <1>12,
     <1>13, <1>14, <1>15, <1>16, <1>17
  DEF Next, Join, Read

(***************************************************************************)
(* The state of the pool keeps its types: registration never takes         *)
(* requested_threads below zero.                                           *)
(***************************************************************************)
THEOREM PoolTypeCorrect == Spec => []TypeOK
<1>1. Init => TypeOK
  BY TypeInit
<1>2. TypeOK /\ [Next]_vars => TypeOK'
  BY TypeStep
<1> QED BY <1>1, <1>2, PTL DEF Spec

-----------------------------------------------------------------------------
(* ready_threads *)

LEMMA FiniteThreads == IsFiniteSet(Thread)
BY PoolAssumption

LEMMA FiniteAt == ASSUME NEW places PROVE IsFiniteSet(At(places)) /\ IsFiniteSet(At(places)')
<1>1. At(places) \in SUBSET Thread /\ At(places)' \in SUBSET Thread
  BY DEF At
<1> QED BY <1>1, FiniteThreads, FS_Subset

LEMMA Arrives ==
  ASSUME NEW th \in Thread, NEW from \in Places \ InWait, NEW to \in InWait,
         Moves(th, from, to)
  PROVE  Cardinality(At(InWait)') = Cardinality(At(InWait)) + 1
<1>1. At(InWait)' = At(InWait) \cup {th} /\ th \notin At(InWait)
  BY DEF At, Moves, OthersKeep, InWait
<1> QED BY <1>1, FiniteAt, FS_AddElement

LEMMA Departs ==
  ASSUME NEW th \in Thread, NEW from \in InWait, NEW to \in Places \ InWait,
         Moves(th, from, to)
  PROVE  Cardinality(At(InWait)') = Cardinality(At(InWait)) - 1
<1>1. At(InWait)' = At(InWait) \ {th} /\ th \in At(InWait)
  BY DEF At, Moves, OthersKeep, InWait
<1> QED BY <1>1, FiniteAt, FS_RemoveElement

LEMMA Stays ==
  ASSUME NEW th \in Thread, NEW from, NEW to,
         Moves(th, from, to), from \in InWait <=> to \in InWait
  PROVE  At(InWait)' = At(InWait)
BY DEF At, Moves, OthersKeep, InWait

LEMMA WakesStays == Wakes => At(InWait)' = At(InWait)
BY DEF At, Wakes, InWait

LEMMA ReadyInit == Init => ReadyIsExact
<1> SUFFICES ASSUME Init PROVE ReadyIsExact
  OBVIOUS
<1>1. At(InWait) = {}
  BY DEF Init, At, InWait
<1>2. ready = 0
  BY DEF Init
<1> QED BY <1>1, <1>2, FS_EmptySet DEF ReadyIsExact

LEMMA ReadyStep == TypeOK /\ ReadyIsExact /\ [Next]_vars => ReadyIsExact'
<1> SUFFICES ASSUME TypeOK, ReadyIsExact, [Next]_vars PROVE ReadyIsExact'
  OBVIOUS
<1>0. ready = Cardinality(At(InWait)) /\ ready \in Int
  BY DEF ReadyIsExact, TypeOK
<1>1. CASE UNCHANGED vars
  BY <1>0, <1>1 DEF vars, counters, ReadyIsExact, At
<1>2. ASSUME NEW th \in Thread, StartThreadPool(th)
      PROVE  ReadyIsExact'
  BY <1>0, <1>2, StartEffect, Stays DEF ReadyIsExact, StartThreadPool, counters, InWait
<1>3. ASSUME NEW th \in Thread, SpawnPooledThread(th)
      PROVE  ReadyIsExact'
  <2>1. \A q \in Thread : thread'[q].at \in InWait <=> thread[q].at \in InWait
    BY <1>3, SpawnFlags DEF Spawns, InWait
  <2>2. At(InWait)' = At(InWait)
    BY <2>1 DEF At
  <2> QED BY <1>0, <1>3, <2>2 DEF ReadyIsExact, SpawnPooledThread, counters
<1>4. ASSUME NEW th \in Thread, Join(th)
      PROVE  ReadyIsExact'
  <2>1. PICK from \in {"outside", "created"} : Moves(th, from, "checking") /\ ready' = ready + 1
    BY <1>4, FirstReadEffect DEF Join, Enter, Register
  <2>2. Cardinality(At(InWait)') = Cardinality(At(InWait)) + 1
    BY <2>1, Arrives DEF Places, InWait
  <2> QED BY <1>0, <2>1, <2>2 DEF ReadyIsExact
<1>5. ASSUME NEW th \in Thread, FinishHandler(th)
      PROVE  ReadyIsExact'
  BY <1>0, <1>5, FinishEffect, Stays DEF ReadyIsExact, FinishHandler, counters, InWait
<1>6. ASSUME NEW th \in Thread, ReadOwnWork(th)
      PROVE  ReadyIsExact'
  BY <1>0, <1>6, ReadOwnWorkEffect, Stays DEF ReadyIsExact
<1>7. ASSUME NEW th \in Thread, BeginRead(th)
      PROVE  ReadyIsExact'
  <2>1. Moves(th, "user", "checking") /\ ready' = ready + 1
    BY <1>7, BeginReadEffect DEF BeginRead
  <2>2. Cardinality(At(InWait)') = Cardinality(At(InWait)) + 1
    BY <2>1, Arrives DEF Places, InWait
  <2> QED BY <1>0, <2>1, <2>2 DEF ReadyIsExact
<1>8. ASSUME NEW th \in Thread, Check(th)
      PROVE  ReadyIsExact'
  BY <1>0, <1>8, CheckEffect, Stays DEF ReadyIsExact, Check, counters, InWait
<1>9. ASSUME NEW th \in Thread, Restart(th)
      PROVE  ReadyIsExact'
  <2>1. Moves(th, "interrupted", "user") /\ ready' = ready - 1
    BY <1>9, RestartEffect DEF Restart
  <2>2. Cardinality(At(InWait)') = Cardinality(At(InWait)) - 1
    BY <2>1, Departs DEF Places, InWait
  <2> QED BY <1>0, <2>1, <2>2 DEF ReadyIsExact
<1>10. ASSUME NEW th \in Thread, TakeWork(th)
       PROVE  ReadyIsExact'
  <2>1. Moves(th, "leaving", "handling") /\ ready' = ready - 1
    BY <1>10, TakeWorkEffect
  <2>2. Cardinality(At(InWait)') = Cardinality(At(InWait)) - 1
    BY <2>1, Departs DEF Places, InWait
  <2> QED BY <1>0, <2>1, <2>2 DEF ReadyIsExact
<1>11. ASSUME NEW th \in Thread, ReturnEmpty(th)
       PROVE  ReadyIsExact'
  <2>1. Moves(th, "leaving", "user") /\ ready' = ready - 1
    BY <1>11, ReturnEmptyEffect
  <2>2. Cardinality(At(InWait)') = Cardinality(At(InWait)) - 1
    BY <2>1, Departs DEF Places, InWait
  <2> QED BY <1>0, <2>1, <2>2 DEF ReadyIsExact
<1>12. ASSUME NEW th \in Thread, Retry(th)
       PROVE  ReadyIsExact'
  BY <1>0, <1>12, RetryEffect, Stays DEF ReadyIsExact, Retry, counters, InWait
<1>13. ASSUME NEW th \in Thread, Interrupt(th)
       PROVE  ReadyIsExact'
  BY <1>0, <1>13, InterruptEffect, Stays DEF ReadyIsExact, Interrupt, counters, InWait
<1>14. CASE Post
  BY <1>0, <1>14, PostEffect, WakesStays DEF ReadyIsExact, Post, counters
<1>15. CASE DeferredFlush
  BY <1>0, <1>15, FlushEffect, WakesStays DEF ReadyIsExact, DeferredFlush, counters
<1>16. ASSUME NEW n \in Resizes, SetMaxThreads(n)
       PROVE  ReadyIsExact'
  BY <1>0, <1>16 DEF ReadyIsExact, SetMaxThreads, At
<1> QED
  BY <1>1, <1>2, <1>3, <1>4, <1>5, <1>6, <1>7, <1>8, <1>9, <1>10, <1>11, <1>12,
     <1>13, <1>14, <1>15, <1>16
  DEF Next, Read

\* ready_threads counts the threads that wait in binder_thread_read for work of
\* the process, whatever wakes, signals and retries they have been through.
THEOREM ReadyCorrect == Spec => []ReadyIsExact
<1>1. Init => TypeOK /\ ReadyIsExact
  BY TypeInit, ReadyInit
<1>2. TypeOK /\ ReadyIsExact /\ [Next]_vars => (TypeOK /\ ReadyIsExact)'
  BY TypeStep, ReadyStep
<1> QED BY <1>1, <1>2, PTL DEF Spec

-----------------------------------------------------------------------------
(* Loopers and their places. *)

\* Only loopers wait for work of the process or carry BR_SPAWN_LOOPER, and only
\* threads that the driver has seen are loopers.
PlacesAndFlags ==
  \A th \in Thread :
    /\ thread[th].at \in {"outside", "created"} => thread[th].looper = {} /\ ~thread[th].spawn
    /\ thread[th].at \in InWait \cup {"user"} => IsLooper(th)
    /\ thread[th].at \in InWait => ~thread[th].spawn
    /\ thread[th].spawn => IsLooper(th)

LEMMA FlagsInit == Init => PlacesAndFlags
BY DEF Init, PlacesAndFlags, InWait

\* A step that moves one thread, and what it must see to.
LEMMA FlagsOfMove ==
  ASSUME PlacesAndFlags, NEW th \in Thread, NEW from, NEW to, Moves(th, from, to),
         to \in {"outside", "created"} => thread'[th].looper = {} /\ ~thread'[th].spawn,
         to \in InWait \cup {"user"} => IsLooper(th)',
         to \in InWait => ~thread'[th].spawn,
         thread'[th].spawn => IsLooper(th)'
  PROVE  PlacesAndFlags'
<1> SUFFICES ASSUME NEW q \in Thread
             PROVE  /\ thread'[q].at \in {"outside", "created"}
                          => thread'[q].looper = {} /\ ~thread'[q].spawn
                    /\ thread'[q].at \in InWait \cup {"user"} => IsLooper(q)'
                    /\ thread'[q].at \in InWait => ~thread'[q].spawn
                    /\ thread'[q].spawn => IsLooper(q)'
  BY DEF PlacesAndFlags
<1>1. CASE q = th
  BY <1>1 DEF Moves
<1>2. CASE q # th
  BY <1>2 DEF Moves, OthersKeep, PlacesAndFlags, InWait, IsLooper
<1> QED BY <1>1, <1>2

LEMMA FlagsOfWakes == PlacesAndFlags /\ Wakes => PlacesAndFlags'
<1> SUFFICES ASSUME PlacesAndFlags, Wakes, NEW q \in Thread
             PROVE  /\ thread'[q].at \in {"outside", "created"}
                          => thread'[q].looper = {} /\ ~thread'[q].spawn
                    /\ thread'[q].at \in InWait \cup {"user"} => IsLooper(q)'
                    /\ thread'[q].at \in InWait => ~thread'[q].spawn
                    /\ thread'[q].spawn => IsLooper(q)'
  BY DEF PlacesAndFlags
<1> QED BY DEF Wakes, PlacesAndFlags, InWait, IsLooper

LEMMA FlagsStep == TypeOK /\ PlacesAndFlags /\ [Next]_vars => PlacesAndFlags'
<1> SUFFICES ASSUME TypeOK, PlacesAndFlags, [Next]_vars PROVE PlacesAndFlags'
  OBVIOUS
<1>1. CASE UNCHANGED vars
  BY <1>1 DEF vars, PlacesAndFlags, IsLooper
<1>2. ASSUME NEW th \in Thread, StartThreadPool(th)
      PROVE  PlacesAndFlags'
  <2>1. thread[th].looper = {} /\ ~thread[th].spawn
    BY <1>2 DEF StartThreadPool, PlacesAndFlags
  <2> QED BY <1>2, <2>1, StartEffect, FlagsOfMove DEF KeepsFlags, InWait
<1>3. ASSUME NEW th \in Thread, SpawnPooledThread(th)
      PROVE  PlacesAndFlags'
  <2>0. Spawns(th)
    BY <1>3, SpawnFlags
  <2>1. ASSUME NEW q \in Thread
        PROVE  /\ thread'[q].at \in {"outside", "created"}
                     => thread'[q].looper = {} /\ ~thread'[q].spawn
               /\ thread'[q].at \in InWait \cup {"user"} => IsLooper(q)'
               /\ thread'[q].at \in InWait => ~thread'[q].spawn
               /\ thread'[q].spawn => IsLooper(q)'
    <3>1. thread'[q].looper = thread[q].looper
      BY <2>0 DEF Spawns
    <3>2. ~thread'[q].spawn \/ thread'[q].spawn = thread[q].spawn
      BY <2>0, Zenon DEF Spawns
    <3>3. \/ thread'[q].at = thread[q].at
          \/ thread[q].at = "outside" /\ thread'[q].at = "created"
      BY <2>0, Zenon DEF Spawns
    <3> QED BY <3>1, <3>2, <3>3 DEF PlacesAndFlags, InWait, IsLooper
  <2> QED BY <2>1 DEF PlacesAndFlags
<1>4. ASSUME NEW th \in Thread, Join(th)
      PROVE  PlacesAndFlags'
  <2>1. PICK looper \in SUBSET {"REGISTERED", "ENTERED", "INVALID"} :
          /\ looper \cap {"REGISTERED", "ENTERED"} # {}
          /\ FirstRead(th, looper)
    BY <1>4 DEF Join, Enter, Register
  <2>2. /\ Moves(th, thread[th].at, "checking")
        /\ thread[th].at \in {"outside", "created"}
        /\ thread'[th].looper = looper /\ thread'[th].spawn = thread[th].spawn
    BY <2>1, FirstReadEffect
  <2>3. IsLooper(th)' /\ ~thread'[th].spawn
    BY <2>1, <2>2 DEF IsLooper, PlacesAndFlags
  <2> QED BY <2>2, <2>3, FlagsOfMove
<1>5. ASSUME NEW th \in Thread, FinishHandler(th)
      PROVE  PlacesAndFlags'
  <2>1. IsLooper(th) /\ ~thread[th].spawn
    BY <1>5 DEF FinishHandler, Runs
  <2> QED BY <1>5, <2>1, FinishEffect, FlagsOfMove DEF KeepsFlags, InWait, IsLooper
<1>6. ASSUME NEW th \in Thread, ReadOwnWork(th)
      PROVE  PlacesAndFlags'
  <2>1. /\ Moves(th, "handling", "handling") /\ thread'[th].looper = thread[th].looper
        /\ thread'[th].spawn = NeedsThread(th, ready)
    BY <1>6, ReadOwnWorkEffect
  <2>2. thread'[th].spawn => IsLooper(th)'
    BY <2>1 DEF NeedsThread, IsLooper
  <2> QED BY <2>1, <2>2, FlagsOfMove DEF InWait
<1>7. ASSUME NEW th \in Thread, BeginRead(th)
      PROVE  PlacesAndFlags'
  <2>1. IsLooper(th) /\ ~thread[th].spawn
    BY <1>7 DEF BeginRead, Runs
  <2> QED BY <1>7, <2>1, BeginReadEffect, FlagsOfMove DEF KeepsFlags, InWait, IsLooper
<1>8. ASSUME NEW th \in Thread, Check(th) \/ Retry(th) \/ Interrupt(th) \/ Restart(th)
      PROVE  PlacesAndFlags'
  <2>1. PICK from \in InWait, to \in InWait \cup {"user"} : Moves(th, from, to) /\ KeepsFlags(th)
    BY <1>8, CheckEffect, RetryEffect, InterruptEffect, RestartEffect DEF InWait
  <2>2. IsLooper(th) /\ ~thread[th].spawn
    BY <2>1 DEF Moves, PlacesAndFlags
  <2>3. IsLooper(th)' /\ ~thread'[th].spawn
    BY <2>1, <2>2 DEF KeepsFlags, IsLooper
  <2> QED BY <2>1, <2>3, FlagsOfMove DEF InWait
<1>9. ASSUME NEW th \in Thread, TakeWork(th) \/ ReturnEmpty(th)
      PROVE  PlacesAndFlags'
  <2>1. PICK to \in {"handling", "user"} : Moves(th, "leaving", to)
    BY <1>9, TakeWorkEffect, ReturnEmptyEffect
  <2>2. thread'[th].looper = thread[th].looper
    BY <1>9, TakeWorkEffect, ReturnEmptyEffect
  <2>3. IsLooper(th)'
    BY <2>1, <2>2 DEF Moves, PlacesAndFlags, InWait, IsLooper
  <2> QED BY <2>1, <2>3, FlagsOfMove DEF InWait
<1>10. CASE Post
  BY <1>10, PostEffect, FlagsOfWakes
<1>11. CASE DeferredFlush
  BY <1>11, FlushEffect, FlagsOfWakes
<1>12. ASSUME NEW n \in Resizes, SetMaxThreads(n)
       PROVE  PlacesAndFlags'
  BY <1>12 DEF SetMaxThreads, PlacesAndFlags, IsLooper
<1> QED
  BY <1>1, <1>2, <1>3, <1>4, <1>5, <1>6, <1>7, <1>8, <1>9, <1>10, <1>11, <1>12
  DEF Next, Read

-----------------------------------------------------------------------------
(* The requests of the driver. *)

\* ready_threads is never negative, and counts the thread that leaves a wait.
LEMMA ReadyNotNegative ==
  ASSUME ReadyIsExact
  PROVE  ready \in Nat /\ \A th \in Thread : thread[th].at \in InWait => ready - 1 \in Nat
<1>1. ready = Cardinality(At(InWait)) /\ Cardinality(At(InWait)) \in Nat
  BY FiniteAt, FS_CardinalityType DEF ReadyIsExact
<1>2. ASSUME NEW th \in Thread, thread[th].at \in InWait
      PROVE  ready # 0
  <2>1. th \in At(InWait)
    BY <1>2 DEF At
  <2>2. Cardinality(At(InWait)) # 0
    BY <2>1, FiniteAt, FS_EmptySet
  <2> QED BY <1>1, <2>2
<1> QED BY <1>1, <1>2

\* A request is made when none is under way, below the limit of the moment.
LEMMA OneRequest ==
  ASSUME TypeOK, CountersBounded, NEW th \in Thread, NEW idle \in Nat,
         requested' = IF NeedsThread(th, idle) THEN requested + 1 ELSE requested,
         UNCHANGED started
  PROVE  CountersBounded'
<1>1. \A l \in Limits : l \in Nat
  BY PoolAssumption DEF Limits
<1>2. max \in Limits /\ requested \in Nat /\ started \in Nat
  BY DEF TypeOK
<1>3. CASE NeedsThread(th, idle)
  <2>1. requested = 0 /\ requested' = 1 /\ started' + requested' <= max
    BY <1>1, <1>2, <1>3 DEF NeedsThread
  <2> QED BY <1>2, <2>1 DEF CountersBounded
<1>4. CASE ~NeedsThread(th, idle)
  BY <1>4 DEF CountersBounded
<1> QED BY <1>3, <1>4

LEMMA CountersInit == Init => CountersBounded
<1> SUFFICES ASSUME Init PROVE CountersBounded
  OBVIOUS
<1>1. MaxThreads \in Nat /\ MaxThreads \in Limits
  BY PoolAssumption DEF Limits
<1>2. requested = 0 /\ started = 0
  BY DEF Init
<1> QED BY <1>1, <1>2 DEF CountersBounded

LEMMA CountersStep ==
  TypeOK /\ ReadyIsExact /\ CountersBounded /\ [Next]_vars => CountersBounded'
<1> SUFFICES ASSUME TypeOK, ReadyIsExact, CountersBounded, [Next]_vars
             PROVE  CountersBounded'
  OBVIOUS
<1>1. CASE UNCHANGED <<requested, started>>
  BY <1>1 DEF CountersBounded
<1>2. ASSUME NEW th \in Thread, Register(th)
      PROVE  CountersBounded'
  <2>1. CASE WasRequested /\ CountRegistration
    <3>1. requested' = requested - 1 /\ started' = started + 1
      BY <2>1 DEF CountRegistration
    <3>2. \A l \in Limits : l \in Nat
      BY PoolAssumption DEF Limits
    <3>3. requested' <= 1 /\ started' + requested' = started + requested
      BY <3>1 DEF TypeOK, CountersBounded
    <3> QED BY <3>3 DEF CountersBounded
  <2>2. CASE UNCHANGED <<requested, started>>
    BY <1>1, <2>2
  <2> QED BY <1>2, <2>1, <2>2 DEF Register
<1>3. ASSUME NEW th \in Thread, TakeWork(th) \/ ReturnEmpty(th)
      PROVE  CountersBounded'
  <2>1. ready - 1 \in Nat
    BY <1>3, ReadyNotNegative DEF TakeWork, ReturnEmpty, InWait
  <2>2. requested' = IF NeedsThread(th, ready - 1) THEN requested + 1 ELSE requested
    BY <1>3, TakeWorkEffect, ReturnEmptyEffect
  <2>3. UNCHANGED started
    BY <1>3 DEF TakeWork, ReturnEmpty
  <2> QED BY <2>1, <2>2, <2>3, OneRequest
<1>4. ASSUME NEW th \in Thread, ReadOwnWork(th)
      PROVE  CountersBounded'
  <2>1. requested' = IF NeedsThread(th, ready) THEN requested + 1 ELSE requested
    BY <1>4, ReadOwnWorkEffect
  <2> QED BY <1>4, <2>1, ReadyNotNegative, OneRequest DEF ReadOwnWork
<1>5. ASSUME NEW th \in Thread,
             \/ StartThreadPool(th) \/ SpawnPooledThread(th) \/ Enter(th)
             \/ FinishHandler(th) \/ BeginRead(th) \/ Check(th) \/ Restart(th)
             \/ Retry(th) \/ Interrupt(th)
      PROVE  UNCHANGED <<requested, started>>
  BY <1>5 DEF StartThreadPool, SpawnPooledThread, Enter, FinishHandler, BeginRead,
              Check, Restart, Retry, Interrupt, counters
<1>6. CASE Post \/ DeferredFlush \/ \E n \in Resizes : SetMaxThreads(n)
  BY <1>1, <1>6 DEF Post, DeferredFlush, SetMaxThreads, counters
<1>7. CASE UNCHANGED vars
  BY <1>1, <1>7 DEF vars, counters
<1> QED BY <1>1, <1>2, <1>3, <1>4, <1>5, <1>6, <1>7 DEF Next, Join, Read

\* The driver asks for one thread at a time and never for more than the largest
\* limit it was given, whoever registers and however the limit is changed.
THEOREM CountersCorrect == Spec => []CountersBounded
<1>1. Init => TypeOK /\ ReadyIsExact /\ CountersBounded
  BY TypeInit, ReadyInit, CountersInit
<1>2. TypeOK /\ ReadyIsExact /\ CountersBounded /\ [Next]_vars
        => (TypeOK /\ ReadyIsExact /\ CountersBounded)'
  BY TypeStep, ReadyStep, CountersStep
<1> QED BY <1>1, <1>2, PTL DEF Spec

-----------------------------------------------------------------------------
(* Work and sleepers. *)

\* Either nobody sleeps, or somebody is about to look for work or to take it.
SomeoneLooks == At({"asleep"}) # {} => At({"checking", "leaving"}) # {}

LEMMA WakeOneLooks ==
  ASSUME NEW threads \in [Thread -> BinderThread], WakeOne(threads)
  PROVE  SomeoneLooks'
<1>1. CASE \A q \in Thread : threads[q].at # "asleep"
  <2>1. thread' = threads
    BY <1>1 DEF WakeOne
  <2> QED BY <1>1, <2>1 DEF SomeoneLooks, At
<1>2. CASE \E q \in Thread : /\ threads[q].at = "asleep"
                             /\ thread' = [threads EXCEPT ![q].at = "checking"]
  <2>1. PICK q \in Thread : thread' = [threads EXCEPT ![q].at = "checking"]
    BY <1>2
  <2>2. thread'[q].at = "checking"
    BY <2>1 DEF BinderThread
  <2> QED BY <2>2 DEF SomeoneLooks, At
<1> QED BY <1>1, <1>2 DEF WakeOne

\* The same of a read that ends while work is left.
LEMMA EndIoctlLooks ==
  ASSUME TypeOK, NEW th \in Thread, NEW r \in BinderThread,
         EndIoctl([thread EXCEPT ![th] = r], TRUE)
  PROVE  SomeoneLooks'
<1>1. [thread EXCEPT ![th] = r] \in [Thread -> BinderThread]
  BY DEF TypeOK
<1> QED BY <1>1, WakeOneLooks DEF EndIoctl

\* A thread that goes elsewhere than to sleep, and not from a look for work.
LEMMA MoveLooks ==
  ASSUME NoLostWakeup, NEW th \in Thread, NEW from, NEW to, Moves(th, from, to),
         to # "asleep",
         from \in {"checking", "leaving"} => to \in {"checking", "leaving"},
         posted' > taken' => posted > taken
  PROVE  NoLostWakeup'
<1> SUFFICES ASSUME posted' > taken', NEW q \in Thread, thread'[q].at = "asleep"
             PROVE  \E p \in Thread : thread'[p].at \in {"checking", "leaving"}
  BY DEF NoLostWakeup, At
<1>1. thread[q].at = "asleep"
  BY DEF Moves, OthersKeep
<1>2. PICK p \in Thread : thread[p].at \in {"checking", "leaving"}
  BY <1>1 DEF NoLostWakeup, At
<1>3. CASE p = th
  BY <1>2, <1>3 DEF Moves
<1>4. CASE p # th
  BY <1>2, <1>4 DEF Moves, OthersKeep
<1> QED BY <1>3, <1>4

LEMMA WakeupInit == Init => NoLostWakeup
BY DEF Init, NoLostWakeup, At

LEMMA WakeupStep == TypeOK /\ NoLostWakeup /\ [Next]_vars => NoLostWakeup'
<1> SUFFICES ASSUME TypeOK, NoLostWakeup, [Next]_vars PROVE NoLostWakeup'
  OBVIOUS
<1>0. posted \in Int /\ taken \in Int
  BY PoolAssumption DEF TypeOK
<1>1. CASE UNCHANGED <<thread, posted, taken>>
  BY <1>1 DEF NoLostWakeup, At
<1>2. CASE SomeoneLooks'
  BY <1>2 DEF SomeoneLooks, NoLostWakeup, At
<1>3. ASSUME NEW th \in Thread, StartThreadPool(th)
      PROVE  NoLostWakeup'
  BY <1>3, StartEffect, MoveLooks DEF StartThreadPool
<1>4. ASSUME NEW th \in Thread, SpawnPooledThread(th)
      PROVE  NoLostWakeup'
  <2>1. \A q \in Thread : \A place \in {"asleep", "checking", "leaving"} :
          thread'[q].at = place <=> thread[q].at = place
    BY <1>4, SpawnFlags DEF Spawns
  <2>2. UNCHANGED <<posted, taken>>
    BY <1>4 DEF SpawnPooledThread
  <2> QED BY <2>1, <2>2 DEF NoLostWakeup, At
<1>5. ASSUME NEW th \in Thread, Join(th)
      PROVE  NoLostWakeup'
  <2>1. PICK from \in {"outside", "created"} : Moves(th, from, "checking")
    BY <1>5, FirstReadEffect DEF Join, Enter, Register
  <2>2. UNCHANGED <<posted, taken>>
    BY <1>5 DEF Join, Enter, Register
  <2> QED BY <2>1, <2>2, MoveLooks
<1>6. ASSUME NEW th \in Thread, FinishHandler(th)
      PROVE  NoLostWakeup'
  BY <1>6, FinishEffect, MoveLooks DEF FinishHandler
<1>7. ASSUME NEW th \in Thread, BeginRead(th)
      PROVE  NoLostWakeup'
  BY <1>7, BeginReadEffect, MoveLooks DEF BeginRead
<1>8. ASSUME NEW th \in Thread, Check(th)
      PROVE  NoLostWakeup'
  <2>1. CASE HasProcWork(th)
    BY <1>8, <2>1, CheckEffect, MoveLooks DEF Check
  <2>2. CASE ~HasProcWork(th)
    BY <1>8, <2>2 DEF Check, HasProcWork, NoLostWakeup
  <2> QED BY <2>1, <2>2
<1>9. ASSUME NEW th \in Thread, Interrupt(th)
      PROVE  NoLostWakeup'
  BY <1>9, InterruptEffect, MoveLooks DEF Interrupt
<1>10. ASSUME NEW th \in Thread, Retry(th)
       PROVE  NoLostWakeup'
  BY <1>10, RetryEffect, MoveLooks DEF Retry
<1>11. ASSUME NEW th \in Thread, Restart(th)
       PROVE  NoLostWakeup'
  <2>1. CASE posted > taken
    <3>1. [thread[th] EXCEPT !.at = "user", !.need_return = FALSE] \in BinderThread
      BY DEF TypeOK, BinderThread, Places
    <3>2. EndIoctl([thread EXCEPT ![th] = [thread[th] EXCEPT !.at = "user",
                                                             !.need_return = FALSE]], TRUE)
      BY <1>11, <2>1 DEF Restart, EndIoctl
    <3> QED BY <1>2, <3>1, <3>2, EndIoctlLooks
  <2>2. CASE ~(posted > taken)
    BY <1>11, <2>2 DEF Restart, NoLostWakeup
  <2> QED BY <2>1, <2>2
<1>12. ASSUME NEW th \in Thread, NEW idle, NEW place \in Places, Done(th, idle, place, TRUE)
       PROVE  NoLostWakeup'
  <2>1. NeedsThread(th, idle) \in BOOLEAN /\ thread[th] \in BinderThread
    BY DEF NeedsThread, TypeOK
  <2>2. [thread[th] EXCEPT !.at = place, !.need_return = FALSE,
                           !.spawn = NeedsThread(th, idle)] \in BinderThread
    BY <2>1 DEF BinderThread
  <2>3. EndIoctl([thread EXCEPT ![th] = [thread[th] EXCEPT !.at = place, !.need_return = FALSE,
                                                  !.spawn = NeedsThread(th, idle)]], TRUE)
    BY <1>12 DEF Done
  <2> QED BY <1>2, <2>2, <2>3, EndIoctlLooks
<1>13. ASSUME NEW th \in Thread, TakeWork(th)
       PROVE  NoLostWakeup'
  <2>1. CASE posted > taken + 1
    <3>1. Done(th, ready - 1, "handling", TRUE)
      BY <1>13, <2>1 DEF TakeWork, Done, EndIoctl
    <3> QED BY <1>12, <3>1 DEF Places
  <2>2. CASE ~(posted > taken + 1)
    BY <1>0, <1>13, <2>2 DEF TakeWork, NoLostWakeup
  <2> QED BY <2>1, <2>2
<1>14. ASSUME NEW th \in Thread, ReturnEmpty(th)
       PROVE  NoLostWakeup'
  BY <1>0, <1>14 DEF ReturnEmpty, NoLostWakeup
<1>15. ASSUME NEW th \in Thread, ReadOwnWork(th)
       PROVE  NoLostWakeup'
  <2>1. CASE posted > taken
    <3>1. Done(th, ready, "handling", TRUE)
      BY <1>15, <2>1 DEF ReadOwnWork, Done, EndIoctl
    <3> QED BY <1>12, <3>1 DEF Places
  <2>2. CASE ~(posted > taken)
    BY <1>15, <2>2 DEF ReadOwnWork, NoLostWakeup
  <2> QED BY <2>1, <2>2
<1>16. CASE Post
  BY <1>2, <1>16, WakeOneLooks DEF Post, TypeOK
<1>17. CASE DeferredFlush
  <2>1. \A q \in Thread : thread'[q].at # "asleep"
    BY <1>17 DEF DeferredFlush, TypeOK, BinderThread
  <2> QED BY <1>2, <2>1 DEF SomeoneLooks, At
<1>18. CASE UNCHANGED vars \/ \E n \in Resizes : SetMaxThreads(n)
  BY <1>1, <1>18 DEF vars, SetMaxThreads
<1> QED
  BY <1>3, <1>4, <1>5, <1>6, <1>7, <1>8, <1>9, <1>10, <1>11, <1>13, <1>14, <1>15,
     <1>16, <1>17, <1>18
  DEF Next, Read

\* No wake is lost, whoever takes the work, is told to return or is struck by a
\* signal meanwhile: work and a sleeper are never left to each other.
THEOREM WakeupCorrect == Spec => []NoLostWakeup
<1>1. Init => TypeOK /\ NoLostWakeup
  BY TypeInit, WakeupInit
<1>2. TypeOK /\ NoLostWakeup /\ [Next]_vars => (TypeOK /\ NoLostWakeup)'
  BY TypeStep, WakeupStep
<1> QED BY <1>1, <1>2, PTL DEF Spec

-----------------------------------------------------------------------------
(* The growth of the pool, whose limit is not changed. *)

\* A looper elsewhere than in a handler: nothing to show.
LEMMA FreeLooper ==
  ASSUME NEW th \in Thread, IsLooper(th)', thread'[th].at # "handling"
  PROVE  PoolGrows'
BY DEF PoolGrows, Loopers, At

\* The loopers and the threads in a handler are the same as before.
LEMMA SameLoopers ==
  ASSUME PoolGrows, UNCHANGED <<max, requested, started>>,
         \A q \in Thread : /\ thread'[q].looper = thread[q].looper
                           /\ thread'[q].at = "handling" <=> thread[q].at = "handling"
  PROVE  PoolGrows'
<1>1. Loopers' = Loopers
  BY DEF Loopers, IsLooper
<1>2. At({"handling"})' = At({"handling"})
  BY DEF At
<1> QED BY <1>1, <1>2 DEF PoolGrows

\* When every looper is in a handler after a step, none is counted as idle.
LEMMA NoneIdle ==
  ASSUME PlacesAndFlags', ReadyIsExact', Loopers' \subseteq At({"handling"})'
  PROVE  ready' = 0
<1>1. At(InWait)' = {}
  BY DEF Loopers, At, PlacesAndFlags, InWait
<1> QED BY <1>1, FS_EmptySet DEF ReadyIsExact

\* A looper that ends a read with no thread idle sees to the next thread.
LEMMA LastLooper ==
  ASSUME TypeOK, CountersBounded, NEW th \in Thread, IsLooper(th), UNCHANGED <<max, started>>,
         requested' = IF NeedsThread(th, 0) THEN requested + 1 ELSE requested
  PROVE  requested' = 1 \/ started' >= max'
<1>1. \A l \in Limits : l \in Nat
  BY PoolAssumption DEF Limits
<1>2. max \in Nat /\ requested \in Nat /\ started \in Nat /\ requested <= 1
  BY <1>1 DEF TypeOK, CountersBounded
<1>3. CASE requested = 0 /\ started < max
  BY <1>2, <1>3 DEF NeedsThread
<1>4. CASE requested = 1
  BY <1>2, <1>4 DEF NeedsThread
<1>5. CASE started >= max
  BY <1>5
<1> QED BY <1>2, <1>3, <1>4, <1>5

LEMMA GrowthInit == Init => PoolGrows
BY DEF Init, PoolGrows, Loopers, IsLooper

LEMMA GrowthStep ==
  ASSUME Resizes = {}
  PROVE  /\ TypeOK /\ ReadyIsExact /\ CountersBounded /\ PlacesAndFlags
         /\ ReadyIsExact' /\ PlacesAndFlags'
         /\ PoolGrows /\ [Next]_vars
         => PoolGrows'
<1> SUFFICES ASSUME TypeOK, ReadyIsExact, CountersBounded, PlacesAndFlags,
                    ReadyIsExact', PlacesAndFlags', PoolGrows, [Next]_vars
             PROVE  PoolGrows'
  OBVIOUS
<1>1. CASE UNCHANGED vars
  BY <1>1 DEF vars, counters, PoolGrows, Loopers, At, IsLooper
<1>2. ASSUME NEW th \in Thread, StartThreadPool(th)
      PROVE  PoolGrows'
  <2>1. \A q \in Thread : /\ thread'[q].looper = thread[q].looper
                          /\ thread'[q].at = "handling" <=> thread[q].at = "handling"
    BY <1>2, StartEffect DEF Moves, OthersKeep, KeepsFlags
  <2> QED BY <1>2, <2>1, SameLoopers DEF StartThreadPool, counters
<1>3. ASSUME NEW th \in Thread, SpawnPooledThread(th)
      PROVE  PoolGrows'
  <2>1. \A q \in Thread : /\ thread'[q].looper = thread[q].looper
                          /\ thread'[q].at = "handling" <=> thread[q].at = "handling"
    BY <1>3, SpawnFlags DEF Spawns
  <2> QED BY <1>3, <2>1, SameLoopers DEF SpawnPooledThread, counters
<1>4. ASSUME NEW th \in Thread, thread'[th].at \in InWait \cup {"user"}
      PROVE  PoolGrows'
  BY <1>4, FreeLooper DEF PlacesAndFlags, InWait
<1>5. ASSUME NEW th \in Thread, Join(th)
      PROVE  PoolGrows'
  <2>1. thread'[th].at = "checking"
    BY <1>5, FirstReadEffect DEF Join, Enter, Register, Moves
  <2> QED BY <1>4, <2>1 DEF InWait
<1>6. ASSUME NEW th \in Thread, FinishHandler(th) \/ BeginRead(th) \/ Restart(th)
                                \/ ReturnEmpty(th)
      PROVE  PoolGrows'
  <2>1. thread'[th].at \in {"user", "checking"}
    BY <1>6, FinishEffect, BeginReadEffect, RestartEffect, ReturnEmptyEffect DEF Moves
  <2> QED BY <1>4, <2>1 DEF InWait
<1>7. ASSUME NEW th \in Thread, Check(th) \/ Retry(th) \/ Interrupt(th)
      PROVE  PoolGrows'
  <2>1. thread'[th].at \in InWait
    BY <1>7, CheckEffect, RetryEffect, InterruptEffect DEF Moves, InWait
  <2> QED BY <1>4, <2>1
<1>8. ASSUME NEW th \in Thread, TakeWork(th)
      PROVE  PoolGrows'
  <2> SUFFICES ASSUME Loopers' \subseteq At({"handling"})'
               PROVE  requested' = 1 \/ started' >= max'
    BY DEF PoolGrows
  <2>1. ready' = 0
    BY NoneIdle
  <2>2. ready' = ready - 1
        /\ requested' = IF NeedsThread(th, ready - 1) THEN requested + 1 ELSE requested
    BY <1>8, TakeWorkEffect
  <2>3. IsLooper(th) /\ UNCHANGED <<max, started>>
    BY <1>8 DEF TakeWork, PlacesAndFlags, InWait
  <2>4. ready - 1 = 0
    BY <2>1, <2>2
  <2>5. requested' = IF NeedsThread(th, 0) THEN requested + 1 ELSE requested
    BY <2>2, <2>4
  <2> QED BY <2>3, <2>5, LastLooper
<1>9. ASSUME NEW th \in Thread, ReadOwnWork(th)
      PROVE  PoolGrows'
  <2> SUFFICES ASSUME Loopers' # {}, Loopers' \subseteq At({"handling"})'
               PROVE  requested' = 1 \/ started' >= max'
    BY DEF PoolGrows
  <2>1. ready = 0
    BY <1>9, NoneIdle, ReadOwnWorkEffect
  <2>2. /\ Moves(th, "handling", "handling") /\ thread'[th].looper = thread[th].looper
        /\ requested' = IF NeedsThread(th, 0) THEN requested + 1 ELSE requested
    BY <1>9, <2>1, ReadOwnWorkEffect
  <2>3. UNCHANGED <<max, started>>
    BY <1>9 DEF ReadOwnWork
  <2>4. CASE IsLooper(th)
    BY <2>2, <2>3, <2>4, LastLooper
  <2>5. CASE ~IsLooper(th)
    <3>1. requested' = requested
      BY <2>2, <2>5 DEF NeedsThread
    <3>2. \A q \in Thread : /\ thread'[q].looper = thread[q].looper
                            /\ thread'[q].at = "handling" <=> thread[q].at = "handling"
      BY <2>2 DEF Moves, OthersKeep
    <3>3. PoolGrows'
      BY <2>3, <3>1, <3>2, SameLoopers
    <3> QED BY <3>3 DEF PoolGrows
  <2> QED BY <2>4, <2>5
<1>10. CASE Post \/ DeferredFlush
  <2>1. Wakes
    BY <1>10, PostEffect, FlushEffect
  <2>2. \A q \in Thread : /\ thread'[q].looper = thread[q].looper
                          /\ thread'[q].at = "handling" <=> thread[q].at = "handling"
    BY <2>1 DEF Wakes
  <2> QED BY <1>10, <2>2, SameLoopers DEF Post, DeferredFlush, counters
<1>11. ~\E n \in Resizes : SetMaxThreads(n)
  OBVIOUS
<1> QED
  BY <1>1, <1>2, <1>3, <1>5, <1>6, <1>7, <1>8, <1>9, <1>10, <1>11
  DEF Next, Read

\* Whenever every looper is in a handler, a thread was asked for or the pool has
\* all it may have: the last looper to leave its wait never forgets to ask.  A
\* limit that is raised while all of them are busy is the exception.
THEOREM GrowthCorrect ==
  ASSUME Resizes = {}
  PROVE  Spec => []PoolGrows
<1> DEFINE IInv == TypeOK /\ ReadyIsExact /\ CountersBounded /\ PlacesAndFlags /\ PoolGrows
<1>1. Init => IInv
  BY TypeInit, ReadyInit, CountersInit, FlagsInit, GrowthInit
<1>2. IInv /\ [Next]_vars => IInv'
  BY TypeStep, ReadyStep, CountersStep, FlagsStep, GrowthStep
<1> QED BY <1>1, <1>2, PTL DEF Spec
-----------------------------------------------------------------------------
(* Requests and the threads on their way, in a process whose threads join  *)
(* after startThreadPool or because the driver asked for them.             *)

\* Nobody is a looper, or about to be one, before startThreadPool.
NoneBefore ==
  ~poolStarted => \A th \in Thread : thread[th].looper = {} /\ thread[th].at # "created"

LEMMA FiniteOnTheWay == IsFiniteSet(OnTheWay) /\ IsFiniteSet(OnTheWay')
<1>1. OnTheWay \subseteq Thread /\ OnTheWay' \subseteq Thread
  BY DEF OnTheWay, At
<1> QED BY <1>1, FiniteThreads, FS_Subset

LEMMA FiniteRegistered == IsFiniteSet(Registered) /\ IsFiniteSet(Registered')
<1>1. Registered \subseteq Thread /\ Registered' \subseteq Thread
  BY DEF Registered
<1> QED BY <1>1, FiniteThreads, FS_Subset

\* The threads keep their flags, and only main threads are created.
LEMMA SameSets ==
  ASSUME RequestsMatch, UNCHANGED <<requested, started>>,
         \A q \in Thread :
           /\ thread'[q].looper = thread[q].looper
           /\ thread'[q].spawn = thread[q].spawn
           /\ q \notin Mains => (thread'[q].at = "created" <=> thread[q].at = "created")
  PROVE  RequestsMatch'
<1>1. OnTheWay' = OnTheWay /\ Registered' = Registered
  BY DEF OnTheWay, Registered, At
<1> QED BY <1>1 DEF RequestsMatch

\* A reader asks for a thread, or does not.
LEMMA Asks ==
  ASSUME TypeOK, RequestsMatch, NEW th \in Thread, NEW idle,
         NEW from \in Places \ {"created"}, NEW to \in Places \ {"created"},
         Moves(th, from, to), ~thread[th].spawn,
         thread'[th].looper = thread[th].looper,
         thread'[th].spawn = NeedsThread(th, idle),
         requested' = IF NeedsThread(th, idle) THEN requested + 1 ELSE requested,
         UNCHANGED started
  PROVE  RequestsMatch'
<1>1. CASE NeedsThread(th, idle)
  <2>1. OnTheWay' = OnTheWay \cup {th} /\ th \notin OnTheWay
    BY <1>1 DEF OnTheWay, At, Moves, OthersKeep
  <2>2. Cardinality(OnTheWay') = Cardinality(OnTheWay) + 1
    BY <2>1, FiniteOnTheWay, FS_AddElement
  <2>3. Registered' = Registered
        /\ \A q \in Thread : thread'[q].looper = thread[q].looper
    BY DEF Registered, Moves, OthersKeep
  <2> QED BY <1>1, <2>2, <2>3 DEF RequestsMatch
<1>2. CASE ~NeedsThread(th, idle)
  <2>1. \A q \in Thread :
          /\ thread'[q].looper = thread[q].looper
          /\ thread'[q].spawn = thread[q].spawn
          /\ thread'[q].at = "created" <=> thread[q].at = "created"
    <3>1. ~thread'[th].spawn /\ thread[th].spawn \in BOOLEAN /\ thread'[th].spawn \in BOOLEAN
      BY <1>2 DEF Moves, OthersKeep, BinderThread, TypeOK
    <3> QED BY <3>1 DEF Moves, OthersKeep
  <2> QED BY <1>2, <2>1, SameSets
<1> QED BY <1>1, <1>2

LEMMA MatchInit == Init => RequestsMatch /\ NoneBefore
<1> SUFFICES ASSUME Init PROVE RequestsMatch /\ NoneBefore
  OBVIOUS
<1>1. OnTheWay = {} /\ Registered = {}
  BY DEF Init, OnTheWay, Registered, At
<1>2. requested = 0 /\ started = 0
  BY DEF Init
<1>3. \A th \in Thread : thread[th].looper = {} /\ thread[th].at # "created"
  BY DEF Init
<1> QED BY <1>1, <1>2, <1>3, FS_EmptySet DEF RequestsMatch, NoneBefore

\* A thread that was created turns up, and stands for the request no longer.
LEMMA RegisterMatches ==
  ASSUME Volunteers = {}, TypeOK, PlacesAndFlags, RequestsMatch,
         NEW th \in Thread, Register(th)
  PROVE  RequestsMatch'
<1>1. th \notin Mains /\ thread[th].at = "created"
  BY DEF Register, FirstRead, MayJoin
<1>2. thread[th].looper = {} /\ ~thread[th].spawn
  BY <1>1 DEF PlacesAndFlags
<1>3. th \in OnTheWay
  BY <1>1 DEF OnTheWay, At
<1>4. Cardinality(OnTheWay) # 0
  BY <1>3, FiniteOnTheWay, FS_EmptySet
<1>5. /\ requested' = requested - 1 /\ started' = started + 1
      /\ FirstRead(th, {"REGISTERED"})
  BY <1>4 DEF RequestsMatch, Register, WasRequested, CountRegistration
<1>6. /\ Moves(th, "created", "checking")
      /\ thread'[th].looper = {"REGISTERED"} /\ ~thread'[th].spawn
  BY <1>1, <1>2, <1>5, FirstReadEffect
<1>7. OnTheWay' = OnTheWay \ {th}
  BY <1>6 DEF OnTheWay, At, Moves, OthersKeep
<1>8. Registered' = Registered \cup {th} /\ th \notin Registered
  BY <1>2, <1>6 DEF Registered, Moves, OthersKeep
<1>9. Cardinality(OnTheWay') = Cardinality(OnTheWay) - 1
  BY <1>3, <1>7, FiniteOnTheWay, FS_RemoveElement
<1>10. Cardinality(Registered') = Cardinality(Registered) + 1
  BY <1>8, FiniteRegistered, FS_AddElement
<1>11. \A q \in Thread : "INVALID" \notin thread'[q].looper
  BY <1>6 DEF RequestsMatch, Moves, OthersKeep
<1> QED BY <1>5, <1>9, <1>10, <1>11 DEF RequestsMatch

\* The new thread stands for the request in the place of the one that was told.
LEMMA SpawnMatches ==
  ASSUME TypeOK, PlacesAndFlags, NoneBefore, RequestsMatch,
         NEW th \in Thread, SpawnPooledThread(th)
  PROVE  RequestsMatch'
<1>1. Spawns(th) /\ UNCHANGED <<requested, started>>
  BY SpawnFlags DEF SpawnPooledThread, counters
<1>2. thread[th].spawn /\ ~thread'[th].spawn /\ IsLooper(th)
      /\ thread[th].at \notin {"outside", "created"}
  BY <1>1 DEF Spawns, PlacesAndFlags
<1>3. poolStarted
  BY <1>2 DEF NoneBefore, IsLooper
<1>4. PICK new \in Pooled :
        /\ thread[new].at = "outside" /\ thread'[new].at = "created"
        /\ \A q \in Thread : q # new => thread'[q].at = thread[q].at
  BY <1>1, <1>3 DEF Spawns
<1>5. new \in Thread /\ new \notin Mains /\ new # th
  BY <1>2, <1>4, PoolAssumption DEF Thread
<1>6. ~thread[new].spawn
  BY <1>4, <1>5 DEF PlacesAndFlags
<1>7. \A q \in Thread : /\ thread'[q].looper = thread[q].looper
                        /\ q # th => thread'[q].spawn = thread[q].spawn
  BY <1>1 DEF Spawns
<1>8. th \in OnTheWay /\ new \notin OnTheWay
  BY <1>2, <1>4, <1>6 DEF OnTheWay, At
<1>9. OnTheWay' = (OnTheWay \ {th}) \cup {new}
  BY <1>2, <1>4, <1>5, <1>6, <1>7 DEF OnTheWay, At
<1>10. Cardinality(OnTheWay') = Cardinality(OnTheWay)
  <2>1. IsFiniteSet(OnTheWay \ {th}) /\ Cardinality(OnTheWay \ {th}) = Cardinality(OnTheWay) - 1
    BY <1>8, FiniteOnTheWay, FS_RemoveElement
  <2>2. Cardinality(OnTheWay') = Cardinality(OnTheWay \ {th}) + 1
    BY <1>8, <1>9, <2>1, FS_AddElement
  <2>3. Cardinality(OnTheWay) \in Nat
    BY FiniteOnTheWay, FS_CardinalityType
  <2> QED BY <2>1, <2>2, <2>3
<1>11. Registered' = Registered
  BY <1>7 DEF Registered
<1> QED BY <1>1, <1>7, <1>10, <1>11 DEF RequestsMatch

\* A main thread joins: the driver is not told how many there are.
LEMMA EnterMatches ==
  ASSUME TypeOK, PlacesAndFlags, RequestsMatch, NEW th \in Thread, Enter(th)
  PROVE  RequestsMatch'
<1>1. /\ th \in Mains /\ FirstRead(th, {"ENTERED"}) /\ UNCHANGED <<requested, started>>
  BY DEF Enter
<1>2. /\ Moves(th, thread[th].at, "checking") /\ thread[th].at \in {"outside", "created"}
      /\ thread'[th].looper = {"ENTERED"} /\ thread'[th].spawn = thread[th].spawn
  BY <1>1, FirstReadEffect
<1>3. thread[th].looper = {} /\ ~thread[th].spawn
  BY <1>2 DEF PlacesAndFlags
<1>4. OnTheWay' = OnTheWay
  BY <1>1, <1>2, <1>3 DEF OnTheWay, At, Moves, OthersKeep
<1>5. Registered' = Registered
  BY <1>2, <1>3 DEF Registered, Moves, OthersKeep
<1>6. \A q \in Thread : "INVALID" \notin thread'[q].looper
  BY <1>2 DEF RequestsMatch, Moves, OthersKeep
<1> QED BY <1>1, <1>4, <1>5, <1>6 DEF RequestsMatch

LEMMA NoneBeforeStep ==
  ASSUME Volunteers = {}, ~JoinsFirst
  PROVE  TypeOK /\ NoneBefore /\ [Next]_vars => NoneBefore'
<1> SUFFICES ASSUME TypeOK, NoneBefore, [Next]_vars, ~poolStarted'
             PROVE  \A th \in Thread : thread'[th].looper = {} /\ thread'[th].at # "created"
  BY DEF NoneBefore
<1> DEFINE Same == \A q \in Thread : /\ thread'[q].looper = thread[q].looper
                                     /\ thread'[q].at = "created" => thread[q].at = "created"
<1>1. ASSUME Same, UNCHANGED poolStarted
      PROVE  \A th \in Thread : thread'[th].looper = {} /\ thread'[th].at # "created"
  BY <1>1 DEF NoneBefore
<1>2. CASE UNCHANGED vars
  BY <1>1, <1>2 DEF vars
<1>3. ASSUME NEW th \in Thread, SpawnPooledThread(th) PROVE Same /\ UNCHANGED poolStarted
  BY <1>3, SpawnFlags DEF Spawns, SpawnPooledThread
<1>4. ASSUME NEW th \in Thread
      PROVE  ~StartThreadPool(th)
  BY DEF StartThreadPool
<1>5. ASSUME NEW th \in Thread, Join(th) PROVE FALSE
  <2>1. MayJoin(th) /\ UNCHANGED poolStarted
    BY <1>5 DEF Join, Enter, Register, FirstRead
  <2>2. ~poolStarted /\ thread[th].at # "created"
    BY <2>1 DEF NoneBefore
  <2>3. th \notin Volunteers
    OBVIOUS
  <2> QED BY <2>1, <2>2, <2>3, Zenon DEF MayJoin
<1>6. ASSUME NEW th \in Thread,
             \/ FinishHandler(th) \/ BeginRead(th) \/ Check(th) \/ Restart(th)
             \/ TakeWork(th) \/ ReturnEmpty(th) \/ ReadOwnWork(th)
             \/ Retry(th) \/ Interrupt(th)
      PROVE  Same /\ UNCHANGED poolStarted
  <2>1. UNCHANGED poolStarted
    BY <1>6 DEF FinishHandler, BeginRead, Check, Restart, TakeWork, ReturnEmpty, ReadOwnWork,
                Retry, Interrupt
  <2>2. PICK from \in Places, to \in Places \ {"created"} : Moves(th, from, to)
    BY <1>6, FinishEffect, BeginReadEffect, CheckEffect, RestartEffect, TakeWorkEffect,
       ReturnEmptyEffect, ReadOwnWorkEffect, RetryEffect, InterruptEffect DEF Places
  <2>3. thread'[th].looper = thread[th].looper
    BY <1>6, FinishEffect, BeginReadEffect, CheckEffect, RestartEffect, TakeWorkEffect,
       ReturnEmptyEffect, ReadOwnWorkEffect, RetryEffect, InterruptEffect DEF KeepsFlags
  <2> QED BY <2>1, <2>2, <2>3 DEF Moves, OthersKeep
<1>7. CASE Post \/ DeferredFlush
  <2>1. Wakes /\ UNCHANGED poolStarted
    BY <1>7, PostEffect, FlushEffect DEF Post, DeferredFlush
  <2> QED BY <1>1, <2>1 DEF Wakes
<1>8. CASE \E n \in Resizes : SetMaxThreads(n)
  BY <1>1, <1>8 DEF SetMaxThreads
<1> HIDE DEF Same
<1> QED BY <1>1, <1>2, <1>3, <1>4, <1>5, <1>6, <1>7, <1>8 DEF Next, Read

LEMMA MatchStep ==
  ASSUME Volunteers = {}
  PROVE  TypeOK /\ PlacesAndFlags /\ NoneBefore /\ RequestsMatch /\ [Next]_vars
           => RequestsMatch'
<1> SUFFICES ASSUME TypeOK, PlacesAndFlags, NoneBefore, RequestsMatch, [Next]_vars
             PROVE  RequestsMatch'
  OBVIOUS
<1>1. CASE UNCHANGED vars
  BY <1>1, SameSets DEF vars, counters
<1>2. ASSUME NEW th \in Thread, StartThreadPool(th) PROVE RequestsMatch'
  <2>1. \A q \in Thread :
          /\ thread'[q].looper = thread[q].looper
          /\ thread'[q].spawn = thread[q].spawn
          /\ q \notin Mains => (thread'[q].at = "created" <=> thread[q].at = "created")
    BY <1>2, StartEffect DEF StartThreadPool, Moves, OthersKeep, KeepsFlags
  <2> QED BY <1>2, <2>1, SameSets DEF StartThreadPool, counters
<1>3. ASSUME NEW th \in Thread, SpawnPooledThread(th) PROVE RequestsMatch'
  BY <1>3, SpawnMatches
<1>4. ASSUME NEW th \in Thread, Join(th) PROVE RequestsMatch'
  BY <1>4, EnterMatches, RegisterMatches DEF Join
<1>5. ASSUME NEW th \in Thread,
             \/ FinishHandler(th) \/ BeginRead(th) \/ Check(th) \/ Restart(th)
             \/ Retry(th) \/ Interrupt(th)
      PROVE  RequestsMatch'
  <2>1. UNCHANGED <<requested, started>>
    BY <1>5 DEF FinishHandler, BeginRead, Check, Restart, Retry, Interrupt, counters
  <2>2. PICK from \in Places \ {"created"}, to \in Places \ {"created"} : Moves(th, from, to)
    BY <1>5, FinishEffect, BeginReadEffect, CheckEffect, RestartEffect, RetryEffect,
       InterruptEffect DEF Places
  <2>3. KeepsFlags(th)
    BY <1>5, FinishEffect, BeginReadEffect, CheckEffect, RestartEffect, RetryEffect,
       InterruptEffect
  <2>4. \A q \in Thread :
          /\ thread'[q].looper = thread[q].looper
          /\ thread'[q].spawn = thread[q].spawn
          /\ thread'[q].at = "created" <=> thread[q].at = "created"
    BY <2>2, <2>3 DEF Moves, OthersKeep, KeepsFlags
  <2> QED BY <2>1, <2>4, SameSets
<1>6. ASSUME NEW th \in Thread, TakeWork(th) PROVE RequestsMatch'
  <2>1. ~thread[th].spawn /\ UNCHANGED started
    BY <1>6 DEF TakeWork, PlacesAndFlags, InWait
  <2> QED BY <1>6, <2>1, TakeWorkEffect, Asks DEF Places
<1>7. ASSUME NEW th \in Thread, ReturnEmpty(th) PROVE RequestsMatch'
  <2>1. ~thread[th].spawn /\ UNCHANGED started
    BY <1>7 DEF ReturnEmpty, PlacesAndFlags, InWait
  <2> QED BY <1>7, <2>1, ReturnEmptyEffect, Asks DEF Places
<1>8. ASSUME NEW th \in Thread, ReadOwnWork(th) PROVE RequestsMatch'
  <2>1. UNCHANGED started
    BY <1>8 DEF ReadOwnWork
  <2> QED BY <1>8, <2>1, ReadOwnWorkEffect, Asks DEF Places
<1>9. CASE Post \/ DeferredFlush
  <2>1. Wakes /\ UNCHANGED <<requested, started>>
    BY <1>9, PostEffect, FlushEffect DEF Post, DeferredFlush, counters
  <2> QED BY <2>1, SameSets DEF Wakes
<1>10. CASE \E n \in Resizes : SetMaxThreads(n)
  BY <1>10, SameSets DEF SetMaxThreads
<1> QED
  BY <1>1, <1>2, <1>3, <1>4, <1>5, <1>6, <1>7, <1>8, <1>9, <1>10 DEF Next, Read

\* requested_threads and requested_threads_started are the threads on their way
\* and those that arrived, and BC_REGISTER_LOOPER is never refused, in a process
\* whose threads join as libbinder's startThreadPool has them join.
THEOREM RequestsCorrect ==
  ASSUME Volunteers = {}, ~JoinsFirst
  PROVE  Spec => []RequestsMatch
<1> DEFINE IInv == TypeOK /\ PlacesAndFlags /\ NoneBefore /\ RequestsMatch
<1>1. Init => IInv
  BY TypeInit, FlagsInit, MatchInit
<1>2. IInv /\ [Next]_vars => IInv'
  BY TypeStep, FlagsStep, NoneBeforeStep, MatchStep
<1> QED BY <1>1, <1>2, PTL DEF Spec
=============================================================================
