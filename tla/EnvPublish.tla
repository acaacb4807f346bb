------------------------------ MODULE EnvPublish ------------------------------
(***************************************************************************)
(* How readings reach the status page.  The transfer thread fills a record *)
(* (pthread_transfer.c); the refresh thread copies it about once a second  *)
(* into a shared page under a System V semaphore (pthread_refresh.c); the  *)
(* status CGI, a process of its own, reads the page under the semaphore    *)
(* (cgi_proj/env1.c).  Semaphore and page are kernel objects: they outlive *)
(* the monitor and are found again by key when it is restarted.  Every     *)
(* operation asks for SEM_UNDO (sem.h): the kernel gives back what a       *)
(* process held when it ends.                                              *)
(*                                                                         *)
(* Contents are versions: the record consists of an a9 part and a zigbee   *)
(* part, each numbered by the fill that wrote it, 0 being zeroed memory.   *)
(***************************************************************************)
EXTENDS Naturals, FiniteSets

CONSTANTS
  Readers,    \* status CGIs that may run at the same time
  Versions,   \* bound: fills are numbered modulo this
  Starts,     \* bound: how often the monitor is started
  AbortAt,    \* steps of refresh at which another thread may call exit
  SignalAt    \* steps of refresh at which SIGINT may arrive

Proc == Readers \cup {"monitor"}
SemId == 1..Starts          \* only the monitor creates semaphores
ShmId == 1..Starts + 1      \* a status CGI creates a page that was removed
Part == 0..Versions
Page == [shm_status : {0, 1}, a9 : Part, zigbee : Part]
Zero == [shm_status |-> 0, a9 |-> 0, zigbee |-> 0]

SetupSteps == {"semget", "setval", "shmget", "bzero"}
HeldSteps == {"status", "a9", "zigbee", "v"}    \* between P and V, in either process
RefreshSteps == SetupSteps \cup {"p", "signal"} \cup HeldSteps
TransferSteps == {"wait", "zigbee", "a9", "sleep"}
ReaderSteps == {"idle", "shmget", "p"} \cup HeldSteps
HandlerSteps == {"none", "rmshm", "rmsem", "exit"}

ASSUME EnvAssumption ==
  /\ "monitor" \notin Readers
  /\ Versions \in Nat \ {0} /\ Starts \in Nat \ {0}
  /\ AbortAt \subseteq RefreshSteps /\ SignalAt \subseteq RefreshSteps

VARIABLES
  sem,        \* [SemId -> "unborn", "new" (created, not set), "ready", "removed"]
  val,        \* [SemId -> value of the semaphore]
  adj,        \* [Proc -> what the kernel adds to its semaphore when it ends]
  semid,      \* [Proc -> the semaphore it works with, 0 if none yet]
  page,       \* [ShmId -> contents of the shared page]
  shmkey,     \* the page that the key names, 0 if none
  pages,      \* pages created so far
  shmid,      \* [Proc -> the page it has attached, 0 if none yet]
  rec,        \* sm_all_env_info
  refresh,    \* where the refresh thread is, "down" if there is no monitor
  transfer,   \* where the transfer thread is
  handler,    \* where the SIGINT handler is
  starts,     \* starts so far
  env1,       \* [Readers -> where that CGI is]
  seen,       \* [Readers -> what it has read]
  snap        \* [Readers -> the page when it got the semaphore]

semaphore == <<sem, val, adj, semid>>
memory == <<page, shmkey, pages, shmid>>
monitor == <<rec, refresh, transfer, handler, starts>>
readers == <<env1, seen, snap>>
vars == <<semaphore, memory, monitor, readers>>

Init ==
  /\ sem = [i \in SemId |-> "unborn"] /\ val = [i \in SemId |-> 0]
  /\ adj = [p \in Proc |-> 0] /\ semid = [p \in Proc |-> 0]
  /\ page = [i \in ShmId |-> Zero]
  /\ shmkey = 0 /\ pages = 0 /\ shmid = [p \in Proc |-> 0]
  /\ rec = Zero
  /\ refresh = "down" /\ transfer = "down" /\ handler = "none" /\ starts = 0
  /\ env1 = [r \in Readers |-> "idle"]
  /\ seen = [r \in Readers |-> Zero] /\ snap = [r \in Readers |-> Zero]

-----------------------------------------------------------------------------
(* System calls.                                                           *)

Live(i) == i \in SemId /\ sem[i] \in {"new", "ready"}

(* Mutant: operations without SEM_UNDO. *)
Ends_NoUndo(p) ==
  /\ adj' = [adj EXCEPT ![p] = 0]
  /\ semid' = [semid EXCEPT ![p] = 0] /\ shmid' = [shmid EXCEPT ![p] = 0]
  /\ UNCHANGED <<sem, val, page, shmkey, pages>>

(* A process ends: its adjustment is applied, its page is detached. *)
Ends(p) ==
  /\ val' = [i \in SemId |-> IF i = semid[p] /\ Live(i) THEN val[i] + adj[p]
                                                        ELSE val[i]]
  /\ adj' = [adj EXCEPT ![p] = 0]
  /\ semid' = [semid EXCEPT ![p] = 0] /\ shmid' = [shmid EXCEPT ![p] = 0]
  /\ UNCHANGED <<sem, page, shmkey, pages>>

(* semop with -1 waits for a positive value. *)
SemP(p) ==
  /\ Live(semid[p]) /\ val[semid[p]] > 0
  /\ val' = [val EXCEPT ![semid[p]] = @ - 1]
  /\ adj' = [adj EXCEPT ![p] = @ + 1]
  /\ UNCHANGED <<sem, semid>>

SemV(p) ==
  /\ Live(semid[p])
  /\ val' = [val EXCEPT ![semid[p]] = @ + 1]
  /\ adj' = [adj EXCEPT ![p] = @ - 1]
  /\ UNCHANGED <<sem, semid>>

(* shmget, with or without a look at EEXIST, and shmat: the page that the  *)
(* key names or a new one, which the kernel has zeroed.                    *)
Attach(p) ==
  LET new == shmkey = 0
      id == IF new THEN pages + 1 ELSE shmkey
  IN /\ shmid' = [shmid EXCEPT ![p] = id]
     /\ shmkey' = id
     /\ pages' = IF new THEN id ELSE pages
     /\ UNCHANGED page

-----------------------------------------------------------------------------
(* The monitor.                                                            *)

Start ==
  /\ refresh = "down" /\ starts < Starts
  /\ starts' = starts + 1
  /\ refresh' = "semget" /\ transfer' = "wait" /\ handler' = "none"
  /\ rec' = Zero
  /\ UNCHANGED <<semaphore, memory, readers>>

(* The process ends, by exit in any thread. *)
Down ==
  /\ Ends("monitor")
  /\ rec' = Zero
  /\ refresh' = "down" /\ transfer' = "down" /\ handler' = "none"
  /\ UNCHANGED <<starts, readers>>

(* Mutant: a semaphore that is found is initialised again. *)
SemGet_SetsAgain ==
  /\ refresh = "semget"
  /\ \/ \E i \in SemId :
          /\ Live(i)
          /\ semid' = [semid EXCEPT !["monitor"] = i]
          /\ UNCHANGED sem
     \/ /\ \A i \in SemId : ~Live(i)
        /\ sem' = [sem EXCEPT ![starts] = "new"]
        /\ semid' = [semid EXCEPT !["monitor"] = starts]
  /\ refresh' = "setval"
  /\ UNCHANGED <<val, adj, memory, rec, transfer, handler, starts, readers>>

(* semget with IPC_CREAT | IPC_EXCL; on EEXIST the existing one is used as it is. *)
SemGet ==
  /\ refresh = "semget"
  /\ \/ \E i \in SemId :
          /\ Live(i)
          /\ semid' = [semid EXCEPT !["monitor"] = i]
          /\ refresh' = "shmget"
          /\ UNCHANGED sem
     \/ /\ \A i \in SemId : ~Live(i)
        /\ sem' = [sem EXCEPT ![starts] = "new"]
        /\ semid' = [semid EXCEPT !["monitor"] = starts]
        /\ refresh' = "setval"
  /\ UNCHANGED <<val, adj, memory, rec, transfer, handler, starts, readers>>

InitSem ==
  /\ refresh = "setval" /\ Live(semid["monitor"])
  /\ sem' = [sem EXCEPT ![semid["monitor"]] = "ready"]
  /\ val' = [val EXCEPT ![semid["monitor"]] = 1]
  /\ refresh' = "shmget"
  /\ UNCHANGED <<adj, semid, memory, rec, transfer, handler, starts, readers>>

ShmGet ==
  /\ refresh = "shmget"
  /\ Attach("monitor")
  /\ refresh' = "bzero"
  /\ UNCHANGED <<semaphore, rec, transfer, handler, starts, readers>>

(* The page is cleared without the semaphore. *)
Clear ==
  /\ refresh = "bzero"
  /\ page' = [page EXCEPT ![shmid["monitor"]] = Zero]
  /\ refresh' = "p"
  /\ UNCHANGED <<semaphore, shmkey, pages, shmid, rec, transfer, handler, starts, readers>>

RefreshP ==
  /\ refresh = "p"
  /\ SemP("monitor")
  /\ refresh' = "status"
  /\ UNCHANGED <<memory, rec, transfer, handler, starts, readers>>

(* A structure assignment, one part after the other, without mutex_transfer. *)
Copy(at, field, next) ==
  /\ refresh = at
  /\ page' = [page EXCEPT ![shmid["monitor"]][field] =
                            IF field = "shm_status" THEN 1 ELSE rec[field]]
  /\ refresh' = next
  /\ UNCHANGED <<semaphore, shmkey, pages, shmid, rec, transfer, handler, starts, readers>>

Status == Copy("status", "shm_status", "a9")
CopyA9 == Copy("a9", "a9", "zigbee")
CopyZigbee == Copy("zigbee", "zigbee", "v")

(* Mutant: the V is forgotten. *)
RefreshV_Forgotten ==
  /\ refresh = "v"
  /\ refresh' = "signal"
  /\ UNCHANGED <<semaphore, memory, rec, transfer, handler, starts, readers>>

RefreshV ==
  /\ refresh = "v"
  /\ SemV("monitor")
  /\ refresh' = "signal"
  /\ UNCHANGED <<memory, rec, transfer, handler, starts, readers>>

(* Mutant: the signal for the transfer thread is forgotten. *)
WakeTransfer_Forgotten ==
  /\ refresh = "signal"
  /\ refresh' = "p"
  /\ UNCHANGED <<semaphore, memory, rec, transfer, handler, starts, readers>>

(* A signal wakes the transfer thread only while it waits. *)
WakeTransfer ==
  /\ refresh = "signal"
  /\ transfer' = IF transfer = "wait" THEN "zigbee" ELSE transfer
  /\ refresh' = "p"
  /\ UNCHANGED <<semaphore, memory, rec, handler, starts, readers>>

(* semctl, semop and shmat fail on a removed object, and the process exits. *)
RefreshFails ==
  /\ refresh \in {"setval", "p", "v"}
  /\ ~Live(semid["monitor"])
  /\ Down

(* One field after the other, first of the zigbee part, then of the a9 part. *)
FillZigbee ==
  /\ transfer = "zigbee"
  /\ rec' = [rec EXCEPT !.zigbee = (@ % Versions) + 1]
  /\ transfer' = "a9"
  /\ UNCHANGED <<semaphore, memory, refresh, handler, starts, readers>>

FillA9 ==
  /\ transfer = "a9"
  /\ rec' = [rec EXCEPT !.a9 = (@ % Versions) + 1]
  /\ transfer' = "sleep"
  /\ UNCHANGED <<semaphore, memory, refresh, handler, starts, readers>>

Wait ==
  /\ transfer = "sleep"
  /\ transfer' = "wait"
  /\ UNCHANGED <<semaphore, memory, rec, refresh, handler, starts, readers>>

(* A thread that cannot open its device or its queue ends the process.     *)
Abort ==
  /\ refresh \in AbortAt
  /\ Down

(* release_pthread_resource, which runs beside the threads. *)
Interrupt ==
  /\ refresh \in SignalAt /\ handler = "none"
  /\ handler' = "rmshm"
  /\ UNCHANGED <<semaphore, memory, rec, refresh, transfer, starts, readers>>

(* An id that is not set yet is 0, which may be the first object of its kind. *)
RemoveShm ==
  /\ handler = "rmshm"
  /\ shmkey' \in IF shmid["monitor"] = 0 THEN {shmkey, 0}
                 ELSE {IF shmkey = shmid["monitor"] THEN 0 ELSE shmkey}
  /\ handler' = "rmsem"
  /\ UNCHANGED <<semaphore, page, pages, shmid, rec, refresh, transfer, starts, readers>>

RemoveSem ==
  /\ handler = "rmsem"
  /\ \E gone \in IF semid["monitor"] = 0 THEN SUBSET {i \in SemId : Live(i)}
                                         ELSE {{semid["monitor"]}} :
        sem' = [i \in SemId |-> IF i \in gone THEN "removed" ELSE sem[i]]
  /\ handler' = "exit"
  /\ UNCHANGED <<val, adj, semid, memory, rec, refresh, transfer, starts, readers>>

Exit == handler = "exit" /\ Down

-----------------------------------------------------------------------------
(* The status CGI.                                                         *)

ReaderSemGet(r) ==
  /\ env1[r] = "idle"
  /\ \E i \in SemId : Live(i) /\ semid' = [semid EXCEPT ![r] = i]
  /\ env1' = [env1 EXCEPT ![r] = "shmget"]
  /\ UNCHANGED <<sem, val, adj, memory, monitor, seen, snap>>

ReaderShmGet(r) ==
  /\ env1[r] = "shmget"
  /\ Attach(r)
  /\ env1' = [env1 EXCEPT ![r] = "p"]
  /\ UNCHANGED <<semaphore, monitor, seen, snap>>

(* Mutant: the page is read without a P. *)
ReaderP_None(r) ==
  /\ env1[r] = "p"
  /\ snap' = [snap EXCEPT ![r] = page[shmid[r]]]
  /\ env1' = [env1 EXCEPT ![r] = "status"]
  /\ UNCHANGED <<semaphore, memory, monitor, seen>>

ReaderP(r) ==
  /\ env1[r] = "p"
  /\ SemP(r)
  /\ snap' = [snap EXCEPT ![r] = page[shmid[r]]]
  /\ env1' = [env1 EXCEPT ![r] = "status"]
  /\ UNCHANGED <<memory, monitor, seen>>

(* Parts are printed only if the page is in use. *)
ShowPart(r, field, next) ==
  /\ env1[r] = field
  /\ seen' = [seen EXCEPT ![r][field] = page[shmid[r]][field]]
  /\ env1' = [env1 EXCEPT ![r] = next]
  /\ UNCHANGED <<semaphore, memory, monitor, snap>>

ReadStatus(r) ==
  /\ env1[r] = "status"
  /\ LET status == page[shmid[r]].shm_status
     IN /\ seen' = [seen EXCEPT ![r] = [Zero EXCEPT !.shm_status = status]]
        /\ env1' = [env1 EXCEPT ![r] = IF status = 1 THEN "zigbee" ELSE "v"]
  /\ UNCHANGED <<semaphore, memory, monitor, snap>>

ReadZigbee(r) == ShowPart(r, "zigbee", "a9")
ReadA9(r) == ShowPart(r, "a9", "v")

Forgets(r) ==
  /\ env1' = [env1 EXCEPT ![r] = "idle"]
  /\ seen' = [seen EXCEPT ![r] = Zero] /\ snap' = [snap EXCEPT ![r] = Zero]

(* The V at the end of main, and the end of the process. *)
ReaderV(r) ==
  /\ env1[r] = "v" /\ Live(semid[r])
  /\ val' = [val EXCEPT ![semid[r]] = @ + 1]
  /\ adj' = [adj EXCEPT ![r] = 0]
  /\ semid' = [semid EXCEPT ![r] = 0] /\ shmid' = [shmid EXCEPT ![r] = 0]
  /\ Forgets(r)
  /\ UNCHANGED <<sem, page, shmkey, pages, monitor>>

(* The CGI ends early: semop fails, or the server or SIGPIPE kills it. *)
ReaderEnds(r) ==
  /\ Ends(r)
  /\ Forgets(r)
  /\ UNCHANGED monitor

ReaderFails(r) == env1[r] \in {"p", "v"} /\ ~Live(semid[r]) /\ ReaderEnds(r)
Kill(r) == env1[r] # "idle" /\ ReaderEnds(r)

-----------------------------------------------------------------------------
RefreshStep ==
  \/ SemGet \/ InitSem \/ ShmGet \/ Clear
  \/ Status \/ CopyA9 \/ CopyZigbee \/ RefreshV \/ WakeTransfer \/ RefreshFails
TransferStep == FillZigbee \/ FillA9 \/ Wait
HandlerStep == RemoveShm \/ RemoveSem \/ Exit
ReaderStep(r) ==
  \/ ReaderShmGet(r) \/ ReadStatus(r) \/ ReadZigbee(r) \/ ReadA9(r)
  \/ ReaderV(r) \/ ReaderFails(r)

Next ==
  \/ Start \/ RefreshStep \/ RefreshP \/ TransferStep
  \/ Abort \/ Interrupt \/ HandlerStep
  \/ \E r \in Readers : ReaderSemGet(r) \/ ReaderStep(r) \/ ReaderP(r) \/ Kill(r)

Spec == Init /\ [][Next]_vars

(* Every process runs on.  The kernel serves the waiters of a semaphore in *)
(* the order they came, so one that finds it positive infinitely often     *)
(* gets it.                                                                *)
FairSpec ==
  /\ Spec
  /\ WF_vars(RefreshStep) /\ WF_vars(TransferStep) /\ WF_vars(HandlerStep)
  /\ SF_vars(RefreshP)
  /\ \A r \in Readers : WF_vars(ReaderStep(r)) /\ SF_vars(ReaderP(r))

-----------------------------------------------------------------------------
(* Properties.                                                             *)

(* The type of every variable. *)
TypeOK ==
  /\ sem \in [SemId -> {"unborn", "new", "ready", "removed"}]
  /\ val \in [SemId -> {0, 1}]
  /\ adj \in [Proc -> {0, 1}] /\ semid \in [Proc -> SemId \cup {0}]
  /\ page \in [ShmId -> Page]
  /\ shmkey \in 0..pages /\ pages \in 0..Starts + 1
  /\ shmid \in [Proc -> 0..pages]
  /\ rec \in Page
  /\ refresh \in RefreshSteps \cup {"down"}
  /\ transfer \in TransferSteps \cup {"down"}
  /\ handler \in HandlerSteps
  /\ starts \in 0..Starts
  /\ env1 \in [Readers -> ReaderSteps]
  /\ seen \in [Readers -> Page] /\ snap \in [Readers -> Page]

Between(p) == IF p = "monitor" THEN refresh \in HeldSteps ELSE env1[p] \in HeldSteps
Holders(i) == {p \in Proc : semid[p] = i /\ Between(p)}

(* Whatever is killed, aborted or restarted, an initialised semaphore that *)
(* exists is worth one unless exactly one process is between P and V: it   *)
(* is neither lost with a dead process nor given back twice.               *)
SemConserved ==
  \A i \in SemId : /\ sem[i] = "ready" => val[i] + Cardinality(Holders(i)) = 1
                   /\ sem[i] = "new" => val[i] = 0 /\ Holders(i) = {}

(* A page that a CGI has printed shows, field by field, what was in the    *)
(* shared page at the moment it got the semaphore, although refresh writes *)
(* status and parts one by one.  It is about the first run of the monitor:  *)
(* one that is started again clears the page without the semaphore.        *)
SnapshotRead ==
  \A r \in Readers : starts = 1 /\ env1[r] = "v" =>
     IF snap[r].shm_status = 1 THEN seen[r] = snap[r] ELSE seen[r].shm_status = 0

(* A CGI that found semaphore and page is answered or fails: it does not   *)
(* wait for ever for the semaphore, whoever is killed while holding it.    *)
ReaderServed == \A r \in Readers : (env1[r] = "p") ~> (env1[r] = "idle")

(* As long as the monitor stays up, refresh and transfer keep each other   *)
(* going: new readings are taken and copied into the page again and again, *)
(* after restarts too.                                                     *)
PublishGoesOn ==
  /\ []<>(refresh \in {"v", "down"})
  /\ []<>(transfer \in {"a9", "down"})
=============================================================================
