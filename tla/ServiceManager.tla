--------------------------- MODULE ServiceManager ---------------------------
(***************************************************************************)
(* The service manager (service_manager.c, sm-binderc.c), the driver's     *)
(* references of its process (driver-binder.c), and the clients of         *)
(* IServiceManager.cpp.                                                    *)
(*                                                                         *)
(* One thread reads a command, handles it and writes, one ioctl per step;  *)
(* meanwhile services register and die and clients ask.  A service is a    *)
(* binder in a process of its own, and a restarted one is another service  *)
(* of the same name.  A name is as long as Units says and has no zero in   *)
(* it; Permitted leaves out those that a service may not register.         *)
(***************************************************************************)
EXTENDS Integers, Sequences, FiniteSets, SequencesExt

CONSTANTS
  Name, Service, Client,
  Units,       \* the length of each name, in units of two bytes
  Permitted,   \* <<s, n>>: svc_can_register
  NoName, NoService,
  MaxAdds,     \* how often services register
  MaxTries,    \* of getService
  MaxLists     \* how often each client lists the services

ASSUME ServiceManagerAssumption ==
  /\ Permitted \subseteq Service \X Name
  /\ NoName \notin Name /\ NoService \notin Service
  /\ Units \in [Name -> Nat]
  /\ IsFiniteSet(Service)
  /\ MaxAdds \in Nat /\ MaxTries \in Nat \ {0} /\ MaxLists \in Nat

Handle == 1..Cardinality(Service)
NoHandle == 0

VARIABLES
  svclist,    \* the registry, the newest name first
  driver,     \* the references of the manager's process and its work lists
  mgr,        \* what the manager is doing
  alive,      \* the services whose process lives
  adds,       \* how often they have registered
  client

vars == <<svclist, driver, mgr, alive, adds, client>>

Work == [type : {"none", "add", "check", "list", "dead"},
         name : Name \cup {NoName},
         handle : Nat,                   \* of "list", the index
         client : Client \cup {NoName}]
NoWork == [type |-> "none", name |-> NoName, handle |-> NoHandle, client |-> NoName]

TypeOK ==
  /\ svclist \in Seq([name : Name, ptr : Handle \cup {NoHandle},
                      service : Service])    \* who registered last
  /\ driver \in [refs : [Handle -> [node : Service \cup {NoService}, strong : Nat,
                                    death : Name \cup {NoName},
                                    told : BOOLEAN]],   \* delivered_death
                 todo : Seq(Work),           \* proc->todo
                 own : Seq(Work)]            \* thread->todo
  /\ mgr \in [at : {"reading", "handling", "acquire", "link", "reply"}, work : Work]
  /\ alive \subseteq Service
  /\ adds \in 0..MaxAdds
  /\ client \in [Client -> [doing : {"idle", "get", "sleep", "list", "listed"},
                            name : Name \cup {NoName},
                            tries : 0..MaxTries, lists : 0..MaxLists,
                            seen : SUBSET (Name \cup {NoName}), before : SUBSET Name]]

-----------------------------------------------------------------------------
(***************************************************************************)
(* The driver, as far as the manager's process is concerned.               *)
(***************************************************************************)
NoRef == [node |-> NoService, strong |-> 0, death |-> NoName, told |-> FALSE]

\* binder_get_ref_for_node: the lowest free handle for a node without one.
HandleFor(d, s) ==
  IF \E h \in Handle : d.refs[h].node = s
  THEN CHOOSE h \in Handle : d.refs[h].node = s
  ELSE CHOOSE h \in Handle : /\ d.refs[h] = NoRef
                             /\ \A g \in 1..(h - 1) : d.refs[g] # NoRef

IncRef(d, h) == [d EXCEPT !.refs[h].strong = @ + 1]

\* binder_delete_ref takes the death record off whichever list it is on.
IsRecord(w, h) == w.type = "dead" /\ w.handle = h
WithoutRecord(list, h) ==
  IF \A i \in DOMAIN list : ~IsRecord(list[i], h) THEN list
  ELSE RemoveAt(list, CHOOSE i \in DOMAIN list : IsRecord(list[i], h))

\* binder_dec_ref; the last one deletes the reference.
DecRef(d, h) ==
  IF d.refs[h].strong > 1 THEN [d EXCEPT !.refs[h].strong = @ - 1]
  ELSE [refs |-> [d.refs EXCEPT ![h] = NoRef],
        todo |-> WithoutRecord(d.todo, h), own |-> WithoutRecord(d.own, h)]

\* binder_translate_binder: the buffer has a reference.
TranslateBinder(d, s) ==
  IncRef([d EXCEPT !.refs[HandleFor(d, s)].node = s], HandleFor(d, s))

Obituary(n, h) == [NoWork EXCEPT !.type = "dead", !.name = n, !.handle = h]

\* BC_REQUEST_DEATH_NOTIFICATION: one record per reference.  Of a node that is
\* dead already a looper is told at once.
LinkToDeathLate(d, n, h) ==     \* Mutant: a node that is dead already is not noticed.
  IF d.refs[h].death # NoName THEN d ELSE [d EXCEPT !.refs[h].death = n]
LinkToDeath(d, n, h) ==
  IF d.refs[h].death # NoName THEN d
  ELSE [d EXCEPT !.refs[h].death = n,
                 !.own = IF d.refs[h].node \in alive THEN @ ELSE Append(@, Obituary(n, h))]

\* binder_node_release of the node of service s, to which the process has one
\* reference at most.
Linked(d, s) == {h \in Handle : d.refs[h].node = s /\ d.refs[h].death # NoName}
NodeRelease(d, s) ==
  IF Linked(d, s) = {} THEN d
  ELSE LET h == CHOOSE h \in Linked(d, s) : TRUE
       IN  [d EXCEPT !.todo = Append(@, Obituary(d.refs[h].death, h))]

-----------------------------------------------------------------------------
(***************************************************************************)
(* The registry.                                                           *)
(***************************************************************************)
Names == {svclist[i].name : i \in DOMAIN svclist}

\* find_svc.
Index(n) == CHOOSE i \in DOMAIN svclist : svclist[i].name = n

\* do_find_service.
do_find_service(n) == IF n \in Names THEN svclist[Index(n)].ptr ELSE NoHandle

\* do_add_service: which names are accepted from whom, and when one is taken.
Accepted(s, n) == Units[n] \in 1..127 /\ <<s, n>> \in Permitted
TakenNever(n) == FALSE            \* Mutant: the last one to register wins.
Taken(n) == do_find_service(n) # NoHandle

Registered(n, h, s) ==
  LET e == [name |-> n, ptr |-> h, service |-> s]
  IN  IF n \in Names THEN [svclist EXCEPT ![Index(n)] = e] ELSE <<e>> \o svclist

\* svcinfo_death: the entry stays, without its handle.
ForgottenWithName(n) == RemoveAt(svclist, Index(n))   \* Mutant: it goes.
Forgotten(n) == [svclist EXCEPT ![Index(n)].ptr = NoHandle]

(***************************************************************************)
(* A reply.  binder_parse has 256 bytes for it, 16 of them for offsets.    *)
(* bio_put_string16 puts the length in it and then the text with its zero, *)
(* or the length alone when bio_alloc finds no room for the text; nobody   *)
(* looks at BIO_F_OVERFLOW.  The client reads a length without its text as *)
(* the empty string, NoName.                                               *)
(***************************************************************************)
ReplyBytes  == 256 - 4 * 4
Aligned(k)  == ((k + 3) \div 4) * 4
Fits(n)     == 4 + Aligned(2 * (Units[n] + 1)) <= ReplyBytes
bio_put_string16(n) == IF Fits(n) THEN n ELSE NoName

-----------------------------------------------------------------------------
Init ==
  /\ svclist = <<>>
  /\ driver = [refs |-> [h \in Handle |-> NoRef], todo |-> <<>>, own |-> <<>>]
  /\ mgr = [at |-> "reading", work |-> NoWork]
  /\ alive = Service
  /\ adds = 0
  /\ client = [c \in Client |-> [doing |-> "idle", name |-> NoName, tries |-> 0,
                                 lists |-> 0, seen |-> {}, before |-> {}]]

(***************************************************************************)
(* Services.                                                               *)
(***************************************************************************)
Send(d, w) == [d EXCEPT !.todo = Append(@, w)]

addService(s, n) ==
  /\ s \in alive
  /\ adds < MaxAdds /\ adds' = adds + 1
  /\ driver' = Send(TranslateBinder(driver, s),
                    [NoWork EXCEPT !.type = "add", !.name = n,
                                   !.handle = HandleFor(driver, s)])
  /\ UNCHANGED <<svclist, mgr, alive, client>>

ServiceDies(s) ==
  /\ s \in alive /\ alive' = alive \ {s}
  /\ driver' = NodeRelease(driver, s)
  /\ UNCHANGED <<svclist, mgr, adds, client>>

-----------------------------------------------------------------------------
(***************************************************************************)
(* Clients.                                                                *)
(***************************************************************************)
Asks(c, type, n, i) ==
  driver' = Send(driver, [type |-> type, name |-> n, handle |-> i, client |-> c])

\* getService, which asks and sleeps in turn.
getService(c, n) ==
  /\ \/ client[c].doing = "idle" /\ client[c].tries = 0
     \/ client[c].doing = "sleep" /\ client[c].name = n
  /\ client' = [client EXCEPT ![c].doing = "get", ![c].name = n, ![c].tries = @ + 1]
  /\ Asks(c, "check", n, 0)
  /\ UNCHANGED <<svclist, mgr, alive, adds>>

\* listServices asks for one index after the other.
listServices(c) ==
  /\ client[c].doing = "idle" /\ client[c].lists < MaxLists
  /\ client' = [client EXCEPT ![c].doing = "list", ![c].lists = @ + 1,
                              ![c].seen = {}, ![c].before = Names]
  /\ Asks(c, "list", NoName, 0)
  /\ UNCHANGED <<svclist, mgr, alive, adds>>

ListingDone(c) ==
  /\ client[c].doing = "listed"
  /\ client' = [client EXCEPT ![c].doing = "idle", ![c].seen = {}, ![c].before = {}]
  /\ UNCHANGED <<svclist, driver, mgr, alive, adds>>

-----------------------------------------------------------------------------
(***************************************************************************)
(* The manager.                                                            *)
(***************************************************************************)
Reads == mgr' = [mgr EXCEPT !.at = "reading", !.work = NoWork]

\* A death record that was read goes to delivered_death.
Delivered(refs, w) ==
  IF w.type = "dead" THEN [refs EXCEPT ![w.handle].told = TRUE] ELSE refs

\* binder_loop: the thread's own work goes before the process's.
Read ==
  /\ mgr.at = "reading"
  /\ \/ /\ driver.own # <<>>
        /\ mgr' = [at |-> "handling", work |-> Head(driver.own)]
        /\ driver' = [driver EXCEPT !.own = Tail(@),
                                    !.refs = Delivered(@, Head(driver.own))]
     \/ /\ driver.own = <<>> /\ driver.todo # <<>>
        /\ mgr' = [at |-> "handling", work |-> Head(driver.todo)]
        /\ driver' = [driver EXCEPT !.todo = Tail(@),
                                    !.refs = Delivered(@, Head(driver.todo))]
  /\ UNCHANGED <<svclist, alive, adds, client>>

Handling(type) == mgr.at = "handling" /\ mgr.work.type = type

\* SVC_MGR_CHECK_SERVICE: the client gets the reference, or asks again later.
CheckService ==
  /\ Handling("check")
  /\ LET c == mgr.work.client
     IN  client' = IF do_find_service(mgr.work.name) # NoHandle
                      \/ client[c].tries = MaxTries
                   THEN [client EXCEPT ![c].doing = "idle"]
                   ELSE [client EXCEPT ![c].doing = "sleep"]
  /\ Reads
  /\ UNCHANGED <<svclist, driver, alive, adds>>

\* SVC_MGR_LIST_SERVICES; the client goes on until there is no such index.
ListServices ==
  /\ Handling("list")
  /\ LET c == mgr.work.client
         i == mgr.work.handle
     IN  \/ /\ i < Len(svclist)
            /\ client' = [client EXCEPT ![c].seen = @ \cup {bio_put_string16(svclist[i + 1].name)}]
            /\ Asks(c, "list", NoName, i + 1)
         \/ /\ i >= Len(svclist)
            /\ client' = [client EXCEPT ![c].doing = "listed"]
            /\ UNCHANGED driver
  /\ Reads
  /\ UNCHANGED <<svclist, alive, adds>>

\* SVC_MGR_ADD_SERVICE, refused: the name is taken or not accepted, or there is
\* no memory for a new entry.
AddRefused ==
  /\ Handling("add")
  /\ \/ Taken(mgr.work.name)
     \/ ~Accepted(driver.refs[mgr.work.handle].node, mgr.work.name)
     \/ mgr.work.name \notin Names
  /\ mgr' = [mgr EXCEPT !.at = "reply"]
  /\ UNCHANGED <<svclist, driver, alive, adds, client>>

do_add_service ==
  /\ Handling("add")
  /\ LET h == mgr.work.handle
         s == driver.refs[h].node
     IN  /\ Accepted(s, mgr.work.name) /\ ~Taken(mgr.work.name)
         /\ svclist' = Registered(mgr.work.name, h, s)
  /\ mgr' = [mgr EXCEPT !.at = "acquire"]
  /\ UNCHANGED <<driver, alive, adds, client>>

binder_acquire ==
  /\ mgr.at = "acquire" /\ mgr' = [mgr EXCEPT !.at = "link"]
  /\ driver' = IncRef(driver, mgr.work.handle)
  /\ UNCHANGED <<svclist, alive, adds, client>>

binder_link_to_death ==
  /\ mgr.at = "link" /\ mgr' = [mgr EXCEPT !.at = "reply"]
  /\ driver' = LinkToDeath(driver, mgr.work.name, mgr.work.handle)
  /\ UNCHANGED <<svclist, alive, adds, client>>

\* The buffer is freed and the reply sent in one write.
binder_send_reply ==
  /\ mgr.at = "reply" /\ Reads
  /\ driver' = DecRef(driver, mgr.work.handle)
  /\ UNCHANGED <<svclist, alive, adds, client>>

\* BR_DEAD_BINDER names the entry.
svcinfo_death ==
  /\ Handling("dead") /\ Reads
  /\ LET h == do_find_service(mgr.work.name)
     IN  \/ /\ h # NoHandle
            /\ driver' = DecRef(driver, h)
            /\ svclist' = Forgotten(mgr.work.name)
         \/ /\ h = NoHandle
            /\ UNCHANGED <<driver, svclist>>
  /\ UNCHANGED <<alive, adds, client>>

Manager ==
  \/ Read \/ CheckService \/ ListServices \/ AddRefused \/ do_add_service
  \/ binder_acquire \/ binder_link_to_death \/ binder_send_reply \/ svcinfo_death

Next ==
  \/ Manager
  \/ \E s \in Service : ServiceDies(s) \/ \E n \in Name : addService(s, n)
  \/ \E c \in Client : \/ listServices(c) \/ ListingDone(c)
                       \/ \E n \in Name : getService(c, n)

Spec == Init /\ [][Next]_vars

\* The manager's thread runs.
FairSpec == Spec /\ WF_vars(Manager)

-----------------------------------------------------------------------------
(***************************************************************************)
(* Properties.                                                             *)
(***************************************************************************)
\* The buffers with handle h that the manager has yet to free.
Adds(list, h) == {i \in DOMAIN list : list[i].type = "add" /\ list[i].handle = h}
Buffers(h) ==
  Cardinality(Adds(driver.todo, h))
  + IF mgr.work.type = "add" /\ mgr.work.handle = h THEN 1 ELSE 0

Beginning(e) == mgr.at = "acquire" /\ mgr.work.name = e.name
Unlinked(e)  == mgr.at \in {"acquire", "link"} /\ mgr.work.name = e.name

\* The entries that have taken their reference of handle h.
Entries(h) == {i \in DOMAIN svclist : svclist[i].ptr = h /\ ~Beginning(svclist[i])}

\* The registry's handles mean the services that registered, through deaths,
\* restarts and the reuse of handles: each entry has one strong reference, on
\* the node that was registered, and a death record watches it; references
\* without an entry or a buffer are gone; and an obituary reaches the entry of
\* the service that died, never that of its successor.
RegistryHoldsItsHandles ==
  /\ \A h \in Handle : driver.refs[h].strong = Buffers(h) + Cardinality(Entries(h))
  /\ \A i \in DOMAIN svclist :
       LET e == svclist[i] IN
       e.ptr # NoHandle =>
         /\ driver.refs[e.ptr].node = e.service
         /\ ~Unlinked(e) => driver.refs[e.ptr].death # NoName
  /\ \A w \in Range(driver.todo) \cup Range(driver.own) \cup {mgr.work} :
       w.type = "dead" =>
         /\ do_find_service(w.name) = w.handle
         /\ driver.refs[w.handle].node \notin alive

\* listServices reports every name that was there when it began, however many
\* are added meanwhile (it may report one twice): a name of 117 units or fewer by
\* its text, a longer one, which has no room in the reply, as an empty string.
Reported(n) == IF Units[n] <= 117 THEN n ELSE NoName
ListingIsComplete ==
  \A c \in Client : client[c].doing = "listed" =>
    \A n \in client[c].before : Reported(n) \in client[c].seen

\* A name whose service has died becomes free, so that a restarted service can
\* register again; provided that the driver's record of the death is about that
\* name.  (It is not for the second name of a handle, nor for one that is
\* registered again after the obituary: such an entry keeps the dead handle for
\* ever.)
DeadServiceIsForgotten ==
  \A n \in Name, h \in Handle :
    LET ref == driver.refs[h]
    IN  (ref.death = n /\ ~ref.told /\ ref.node \notin alive)
          ~> (n \in Names => do_find_service(n) # h)
=============================================================================
