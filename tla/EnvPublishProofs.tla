--------------------------- MODULE EnvPublishProofs ---------------------------
(***************************************************************************)
(* Proofs about EnvPublish for any number of status CGIs, any number of    *)
(* restarts, and any steps at which refresh is aborted or interrupted.     *)
(*                                                                         *)
(* KernelInv says which kernel objects exist and who is attached to them;  *)
(* ExclusionInv, inductive relative to it, is mutual exclusion on every    *)
(* semaphore, removed ones included, with the value and the adjustments    *)
(* that account for it; from both follows that a status page prints what   *)
(* was in the shared page when it got the semaphore (SnapInv).             *)
(***************************************************************************)
EXTENDS EnvPublish, FiniteSetTheorems, TLAPS

Attached == RefreshSteps \ {"semget", "setval", "shmget"}

(* Removals of the page so far, at most: a handler removes it once.         *)
Removals ==
  IF refresh = "down" \/ handler \in {"rmsem", "exit"} THEN starts ELSE starts - 1

(* A start creates at most its own semaphore, in initSem; nobody works with *)
(* one that is not created; and only a removal makes room for another page. *)
KernelInv ==
  /\ refresh # "down" => starts > 0
  /\ refresh = "down" => handler = "none"
  /\ refresh \in {"down", "semget"} <=> semid["monitor"] = 0
  /\ refresh \in Attached => shmid["monitor"] # 0
  /\ refresh = "semget" => sem[starts] = "unborn"
  /\ refresh = "setval" => sem[semid["monitor"]] \in {"new", "removed"}
  /\ \A r \in Readers : /\ env1[r] = "idle" <=> semid[r] = 0
                        /\ env1[r] \notin {"idle", "shmget"} => shmid[r] # 0
  /\ \A i \in SemId : /\ i > starts => sem[i] = "unborn"
                      /\ sem[i] = "unborn" => \A p \in Proc : semid[p] # i
  /\ pages + (IF shmkey = 0 THEN 1 ELSE 0) <= Removals + 1

(* Between P and V a process is alone with its semaphore, and owes it one;  *)
(* the semaphore is positive just when nobody owes it anything.             *)
ExclusionInv ==
  /\ \A p \in Proc : adj[p] = IF Between(p) THEN 1 ELSE 0
  /\ \A p, q \in Proc : Between(p) /\ Between(q) /\ semid[p] = semid[q] => p = q
  /\ \A i \in SemId :
       /\ sem[i] = "ready" => (val[i] = 0 <=> \E p \in Proc : semid[p] = i /\ Between(p))
       /\ sem[i] = "unborn" => val[i] = 0
       /\ sem[i] = "new" => val[i] = 0 /\ \A p \in Proc : semid[p] = i => ~Between(p)

(* The part of the type invariant that rests on mutual exclusion.           *)
Counts == val \in [SemId -> {0, 1}] /\ adj \in [Proc -> {0, 1}]

(* The inductive invariant of the kernel's objects.                         *)
IInv == TypeOK /\ KernelInv /\ ExclusionInv

Shown(status, a9, zigbee) == [shm_status |-> status, a9 |-> a9, zigbee |-> zigbee]

(* What a status CGI has seen so far of the page as it was when it got the  *)
(* semaphore (env1.c), and that the page does not change under it.          *)
SeenInv(r) ==
  /\ env1[r] \in HeldSteps => snap[r] = page[shmid[r]]
  /\ env1[r] = "zigbee" => /\ snap[r].shm_status = 1
                           /\ seen[r] = Shown(1, 0, 0)
  /\ env1[r] = "a9" => /\ snap[r].shm_status = 1
                       /\ seen[r] = Shown(1, 0, snap[r].zigbee)
  /\ env1[r] = "v" => IF snap[r].shm_status = 1 THEN seen[r] = snap[r]
                                                ELSE seen[r].shm_status = 0

(* In the first run, what is cleared without the semaphore is still zero.   *)
SnapInv ==
  starts <= 1 =>
    /\ starts = 0 \/ refresh \in SetupSteps => page = [i \in ShmId |-> Zero]
    /\ \A r \in Readers : SeenInv(r)

-----------------------------------------------------------------------------
(* The monitor is not a status CGI, so the two kinds of process move apart.  *)
LEMMA ProcFacts ==
  /\ "monitor" \in Proc /\ Readers \subseteq Proc
  /\ \A r \in Readers : r # "monitor"
  /\ \A p \in Proc : p # "monitor" => p \in Readers
BY EnvAssumption DEF EnvAssumption, Proc

(* Before the monitor is started for the first time nothing exists.         *)
LEMMA InitIInv == Init => IInv /\ SnapInv
<1> SUFFICES ASSUME Init PROVE IInv /\ SnapInv
  OBVIOUS
<1>1. TypeOK
  BY EnvAssumption DEF EnvAssumption, Init, TypeOK, Page, Zero, Part, ReaderSteps, HandlerSteps
<1>2. KernelInv
  BY EnvAssumption, ProcFacts DEF EnvAssumption, Init, KernelInv, Removals, Attached, RefreshSteps, SetupSteps, HeldSteps, SemId
<1>3. ExclusionInv
  BY ProcFacts DEF Init, ExclusionInv, Between, HeldSteps
<1>4. SnapInv
  BY DEF Init, SnapInv, SeenInv, HeldSteps
<1> QED
  BY <1>1, <1>2, <1>3, <1>4 DEF IInv

(* A process that ends between P and V was alone with its semaphore, and    *)
(* SEM_UNDO puts back the one it took (sem.h:60-90).                        *)
LEMMA EndsExclusion ==
  ASSUME IInv, NEW p \in Proc, Ends(p),
         \A q \in Proc : Between(q)' <=> q # p /\ Between(q)
  PROVE  ExclusionInv' /\ Counts'
<1> USE DEF IInv, Counts
<1>1. ASSUME NEW i \in SemId
      PROVE  val'[i] = IF i = semid[p] /\ Live(i) /\ Between(p) THEN 1 ELSE val[i]
  <2>1. CASE i = semid[p] /\ Live(i) /\ Between(p)
    <3>1. val[i] = 0 /\ adj[p] = 1
      BY <2>1 DEF ExclusionInv, Live, TypeOK
    <3> QED
      BY <2>1, <3>1 DEF Ends
  <2>2. CASE i = semid[p] /\ Live(i) /\ ~Between(p)
    BY <2>2 DEF Ends, ExclusionInv, TypeOK
  <2>3. CASE ~(i = semid[p] /\ Live(i))
    BY <2>3 DEF Ends
  <2> QED
    BY <2>1, <2>2, <2>3
<1>2. val' \in [SemId -> {0, 1}] /\ adj' \in [Proc -> {0, 1}]
  BY <1>1 DEF Ends, TypeOK
<1>3. \A q \in Proc : /\ adj'[q] = IF q = p THEN 0 ELSE adj[q]
                      /\ semid'[q] = IF q = p THEN 0 ELSE semid[q]
  BY DEF Ends, TypeOK
<1>4. \A q \in Proc : adj'[q] = IF Between(q)' THEN 1 ELSE 0
  BY <1>3 DEF ExclusionInv
<1>5. \A q, q2 \in Proc : Between(q)' /\ Between(q2)' /\ semid'[q] = semid'[q2] => q = q2
  BY <1>3 DEF ExclusionInv
<1>6. ASSUME NEW i \in SemId
      PROVE  /\ sem'[i] = "ready" => (val'[i] = 0 <=> \E q \in Proc : semid'[q] = i /\ Between(q)')
             /\ sem'[i] = "unborn" => val'[i] = 0
             /\ sem'[i] = "new" => val'[i] = 0 /\ \A q \in Proc : semid'[q] = i => ~Between(q)'
  <2>1. sem' = sem
    BY DEF Ends
  <2>2. \A q \in Proc : semid'[q] = i /\ Between(q)' <=> q # p /\ semid[q] = i /\ Between(q)
    BY <1>3 DEF SemId
  <2>3. CASE i = semid[p] /\ Live(i) /\ Between(p)
    BY <1>1, <2>1, <2>2, <2>3 DEF ExclusionInv, Live
  <2>4. CASE ~(i = semid[p] /\ Live(i) /\ Between(p))
    BY <1>1, <2>1, <2>2, <2>4 DEF ExclusionInv, Live
  <2> QED
    BY <2>3, <2>4
<1> QED
  BY <1>2, <1>4, <1>5, <1>6 DEF ExclusionInv

(* A P that succeeds finds nobody between P and V.                          *)
LEMMA SemPExclusion ==
  ASSUME IInv, NEW p \in Proc, ~Between(p), SemP(p),
         \A q \in Proc : Between(q)' <=> q = p \/ Between(q)
  PROVE  ExclusionInv' /\ Counts'
<1> USE DEF IInv, Counts
<1>1. /\ semid[p] \in SemId /\ sem[semid[p]] = "ready" /\ val[semid[p]] = 1
      /\ \A q \in Proc : semid[q] = semid[p] => ~Between(q)
  BY DEF SemP, Live, ExclusionInv, TypeOK
<1>2. /\ \A i \in SemId : val'[i] = IF i = semid[p] THEN 0 ELSE val[i]
      /\ \A q \in Proc : adj'[q] = IF q = p THEN 1 ELSE adj[q]
      /\ val' \in [SemId -> {0, 1}] /\ adj' \in [Proc -> {0, 1}] /\ sem' = sem /\ semid' = semid
  BY <1>1 DEF SemP, TypeOK, ExclusionInv
<1> QED
  BY <1>1, <1>2 DEF ExclusionInv

(* The V of a holder of a semaphore that still exists: with it the process  *)
(* may end (env1.c) or go on (refresh).                                     *)
LEMMA SemVExclusion ==
  ASSUME IInv, NEW p \in Proc, Between(p), Live(semid[p]), sem' = sem,
         val' = [val EXCEPT ![semid[p]] = @ + 1], adj' = [adj EXCEPT ![p] = 0],
         semid' = semid \/ semid' = [semid EXCEPT ![p] = 0],
         \A q \in Proc : Between(q)' <=> q # p /\ Between(q)
  PROVE  ExclusionInv' /\ Counts'
<1> USE DEF IInv, Counts
<1>1. semid[p] \in SemId /\ sem[semid[p]] = "ready" /\ val[semid[p]] = 0
  BY DEF Live, ExclusionInv, TypeOK
<1>2. /\ \A i \in SemId : val'[i] = IF i = semid[p] THEN 1 ELSE val[i]
      /\ \A q \in Proc : adj'[q] = IF q = p THEN 0 ELSE adj[q]
      /\ \A q \in Proc : q # p => semid'[q] = semid[q]
      /\ val' \in [SemId -> {0, 1}] /\ adj' \in [Proc -> {0, 1}]
  BY <1>1 DEF TypeOK
<1>3. ASSUME NEW i \in SemId
      PROVE  (\E q \in Proc : semid'[q] = i /\ Between(q)')
               <=> i # semid[p] /\ \E q \in Proc : semid[q] = i /\ Between(q)
  BY <1>2 DEF ExclusionInv
<1> QED
  BY <1>1, <1>2, <1>3 DEF ExclusionInv

(* Steps that move nobody into or out of the stretch between P and V.       *)
LEMMA SameExclusion ==
  ASSUME ExclusionInv, UNCHANGED semaphore,
         \A q \in Proc : Between(q)' <=> Between(q)
  PROVE  ExclusionInv'
BY DEF ExclusionInv, semaphore

(* Every step of the monitor, the handler and the status CGIs, an abort, a  *)
(* kill and a restart keep the account of every semaphore.                  *)
LEMMA ExclusionStep ==
  ASSUME IInv, [Next]_vars
  PROVE  ExclusionInv' /\ Counts'
<1> USE DEF IInv, Counts
<1>1. ASSUME UNCHANGED semaphore, \A q \in Proc : Between(q)' <=> Between(q)
      PROVE  ExclusionInv' /\ Counts'
  BY <1>1, SameExclusion DEF semaphore, TypeOK
<1>2. CASE \/ Start \/ ShmGet \/ Clear \/ Status \/ CopyA9 \/ CopyZigbee \/ WakeTransfer
           \/ TransferStep \/ Interrupt \/ RemoveShm \/ UNCHANGED vars
  <2>1. UNCHANGED semaphore /\ env1' = env1 /\ (refresh' \in HeldSteps <=> refresh \in HeldSteps)
    BY <1>2 DEF Start, ShmGet, Clear, Status, CopyA9, CopyZigbee, Copy, WakeTransfer, TransferStep, FillZigbee, FillA9, Wait, Interrupt, RemoveShm, vars, monitor, readers, HeldSteps
  <2> QED
    BY <1>1, <2>1 DEF Between
<1>3. ASSUME NEW r \in Readers,
             ReaderShmGet(r) \/ ReadStatus(r) \/ ReadZigbee(r) \/ ReadA9(r)
      PROVE  ExclusionInv' /\ Counts'
  <2>1. /\ UNCHANGED semaphore /\ refresh' = refresh
        /\ \A q \in Readers : env1'[q] \in HeldSteps <=> env1[q] \in HeldSteps
    BY <1>3 DEF ReaderShmGet, ReadStatus, ReadZigbee, ReadA9, ShowPart, monitor, HeldSteps, TypeOK
  <2> QED
    BY <1>1, <2>1, ProcFacts DEF Between
<1>4. CASE SemGet
  <2>1. ~Between("monitor") /\ \A q \in Proc : Between(q)' <=> Between(q)
    BY <1>4, ProcFacts DEF SemGet, Between, HeldSteps, readers
  <2>2. CASE UNCHANGED sem
    <3>1. \A q \in Proc : q # "monitor" => semid'[q] = semid[q]
      BY <1>4, <2>2, ProcFacts DEF SemGet, TypeOK
    <3> QED
      BY <1>4, <2>1, <2>2, <3>1, ProcFacts DEF SemGet, ExclusionInv, TypeOK
  <2>3. CASE sem' = [sem EXCEPT ![starts] = "new"] /\ semid' = [semid EXCEPT !["monitor"] = starts]
    <3>1. starts \in SemId /\ sem[starts] = "unborn"
      BY <1>4, EnvAssumption DEF SemGet, KernelInv, SemId, TypeOK, EnvAssumption
    <3>2. \A q \in Proc : semid'[q] = IF q = "monitor" THEN starts ELSE semid[q]
      BY <2>3 DEF TypeOK
    <3>3. \A i \in SemId : sem'[i] = IF i = starts THEN "new" ELSE sem[i]
      BY <2>3 DEF TypeOK
    <3> QED
      BY <1>4, <2>1, <3>1, <3>2, <3>3, ProcFacts DEF SemGet, ExclusionInv, KernelInv, TypeOK
  <2> QED
    BY <1>4, <2>2, <2>3 DEF SemGet
<1>5. CASE InitSem
  <2>1. /\ semid["monitor"] \in SemId /\ sem[semid["monitor"]] = "new"
        /\ \A q \in Proc : Between(q)' <=> Between(q)
    BY <1>5, ProcFacts DEF InitSem, Live, KernelInv, Between, HeldSteps, readers
  <2>2. \A i \in SemId : /\ sem'[i] = IF i = semid["monitor"] THEN "ready" ELSE sem[i]
                         /\ val'[i] = IF i = semid["monitor"] THEN 1 ELSE val[i]
    BY <1>5 DEF InitSem, TypeOK
  <2> QED
    BY <1>5, <2>1, <2>2 DEF InitSem, ExclusionInv, TypeOK
<1>6. CASE RefreshP
  <2>1. ~Between("monitor") /\ \A q \in Proc : Between(q)' <=> q = "monitor" \/ Between(q)
    BY <1>6 DEF RefreshP, Between, HeldSteps, readers
  <2> QED
    BY <1>6, <2>1, SemPExclusion, ProcFacts DEF RefreshP
<1>7. CASE RefreshV
  <2>1. Between("monitor") /\ \A q \in Proc : Between(q)' <=> q # "monitor" /\ Between(q)
    BY <1>7 DEF RefreshV, Between, HeldSteps, readers
  <2>2. adj' = [adj EXCEPT !["monitor"] = 0]
    <3>1. adj["monitor"] - 1 = 0
      BY <2>1, ProcFacts DEF ExclusionInv
    <3> QED
      BY <1>7, <3>1 DEF RefreshV, SemV
  <2> QED
    BY <1>7, <2>1, <2>2, SemVExclusion, ProcFacts DEF RefreshV, SemV
<1>8. CASE RefreshFails \/ Abort \/ Exit
  <2>1. Ends("monitor") /\ \A q \in Proc : Between(q)' <=> q # "monitor" /\ Between(q)
    BY <1>8 DEF RefreshFails, Abort, Exit, Down, Between, HeldSteps, readers
  <2> QED
    BY <2>1, EndsExclusion, ProcFacts
<1>9. CASE RemoveSem
  <2>1. \A q \in Proc : Between(q)' <=> Between(q)
    BY <1>9 DEF RemoveSem, Between, readers
  <2>2. \A i \in SemId : sem'[i] = sem[i] \/ sem'[i] = "removed"
    BY <1>9 DEF RemoveSem
  <2> QED
    BY <1>9, <2>1, <2>2 DEF RemoveSem, ExclusionInv, TypeOK
<1>10. ASSUME NEW r \in Readers, ReaderSemGet(r)
       PROVE  ExclusionInv' /\ Counts'
  <2>1. ~Between(r) /\ \A q \in Proc : Between(q)' <=> Between(q)
    BY <1>10, ProcFacts DEF ReaderSemGet, Between, HeldSteps, monitor, TypeOK
  <2>2. /\ \A q \in Proc : q # r => semid'[q] = semid[q]
        /\ UNCHANGED <<sem, val, adj>>
    BY <1>10 DEF ReaderSemGet, TypeOK
  <2> QED
    BY <2>1, <2>2 DEF ExclusionInv, TypeOK
<1>11. ASSUME NEW r \in Readers, ReaderP(r)
       PROVE  ExclusionInv' /\ Counts'
  <2>1. ~Between(r) /\ \A q \in Proc : Between(q)' <=> q = r \/ Between(q)
    BY <1>11, ProcFacts DEF ReaderP, Between, HeldSteps, monitor, TypeOK
  <2> QED
    BY <1>11, <2>1, SemPExclusion, ProcFacts DEF ReaderP
<1>12. ASSUME NEW r \in Readers, ReaderV(r)
       PROVE  ExclusionInv' /\ Counts'
  <2>1. Between(r) /\ \A q \in Proc : Between(q)' <=> q # r /\ Between(q)
    BY <1>12, ProcFacts DEF ReaderV, Forgets, Between, HeldSteps, monitor, TypeOK
  <2> QED
    BY <1>12, <2>1, SemVExclusion, ProcFacts DEF ReaderV
<1>13. ASSUME NEW r \in Readers, ReaderFails(r) \/ Kill(r)
       PROVE  ExclusionInv' /\ Counts'
  <2>1. Ends(r) /\ \A q \in Proc : Between(q)' <=> q # r /\ Between(q)
    BY <1>13, ProcFacts DEF ReaderFails, Kill, ReaderEnds, Forgets, Between, HeldSteps, monitor, TypeOK
  <2> QED
    BY <2>1, EndsExclusion, ProcFacts
<1> QED
  BY <1>2, <1>3, <1>4, <1>5, <1>6, <1>7, <1>8, <1>9, <1>10, <1>11, <1>12, <1>13
     DEF Next, RefreshStep, HandlerStep, ReaderStep

(* semget finds no page or the one that its key names: the page attached    *)
(* exists, and there is a page for every start and one more, because only   *)
(* as many are removed.                                                     *)
LEMMA AttachFacts ==
  ASSUME IInv, NEW p \in Proc, Attach(p)
  PROVE  /\ shmkey' \in 1..pages' /\ pages' \in 0..Starts + 1 /\ page' = page
         /\ shmid' \in [Proc -> 0..pages'] /\ shmid'[p] # 0
         /\ \A q \in Proc : q # p => shmid'[q] = shmid[q]
         /\ pages' + (IF shmkey' = 0 THEN 1 ELSE 0) = pages + (IF shmkey = 0 THEN 1 ELSE 0)
<1> DEFINE id == IF shmkey = 0 THEN pages + 1 ELSE shmkey
<1>1. /\ pages \in Nat /\ shmkey \in 0..pages /\ pages <= Starts + 1
      /\ shmid \in [Proc -> 0..pages]
  BY EnvAssumption DEF IInv, TypeOK, EnvAssumption
<1>2. /\ page' = page /\ shmkey' = id /\ shmid' = [shmid EXCEPT ![p] = id]
      /\ pages' = IF shmkey = 0 THEN id ELSE pages
  BY DEF Attach
<1>3. shmkey = 0 => pages + 1 <= Starts + 1
  BY <1>1, EnvAssumption DEF IInv, KernelInv, Removals, TypeOK, EnvAssumption
<1>4. id \in 1..pages' /\ pages' \in 0..Starts + 1 /\ pages <= pages'
  BY <1>1, <1>2, <1>3, EnvAssumption DEF EnvAssumption
<1>5. pages' + (IF shmkey' = 0 THEN 1 ELSE 0) = pages + (IF shmkey = 0 THEN 1 ELSE 0)
  BY <1>1, <1>2
<1> HIDE DEF id
<1>6. \A q \in Proc : shmid'[q] = IF q = p THEN id ELSE shmid[q]
  BY <1>1, <1>2
<1>7. shmid' \in [Proc -> 0..pages']
  <2>1. \A q \in Proc : shmid[q] \in 0..pages' /\ id \in 0..pages'
    BY <1>1, <1>4
  <2> QED
    BY <1>1, <1>2, <2>1
<1>8. shmid'[p] # 0
  BY <1>4, <1>6
<1> QED
  BY <1>2, <1>4, <1>5, <1>6, <1>7, <1>8

(* Who works with a page works with one that exists.                        *)
LEMMA PageInUse ==
  ASSUME IInv
  PROVE  /\ refresh \in Attached => shmid["monitor"] \in ShmId
         /\ \A r \in Readers : env1[r] \notin {"idle", "shmget"} => shmid[r] \in ShmId
<1>1. \A p \in Proc : shmid[p] # 0 => shmid[p] \in 1..Starts + 1
  BY EnvAssumption DEF IInv, TypeOK, EnvAssumption
<1> QED
  BY <1>1, ProcFacts DEF IInv, KernelInv, ShmId

(* Every step keeps the state well typed.                                   *)
LEMMA TypeStep ==
  ASSUME IInv, [Next]_vars
  PROVE  TypeOK'
<1> USE EnvAssumption DEF IInv, EnvAssumption
<1>1. val' \in [SemId -> {0, 1}] /\ adj' \in [Proc -> {0, 1}]
  BY ExclusionStep DEF Counts
<1>0. Zero \in Page
  BY DEF Page, Part, Zero
<1>3. CASE Start \/ TransferStep \/ Interrupt \/ WakeTransfer \/ UNCHANGED vars
  BY <1>3 DEF Start, TransferStep, FillZigbee, FillA9, Wait, Interrupt, WakeTransfer, vars, semaphore, memory, monitor, readers, TypeOK, RefreshSteps, SetupSteps, TransferSteps, HandlerSteps, Page, Part, Zero
<1>4. CASE SemGet \/ InitSem \/ RefreshP \/ RefreshV \/ RemoveSem
  <2>1. /\ sem' \in [SemId -> {"unborn", "new", "ready", "removed"}]
        /\ semid' \in [Proc -> SemId \cup {0}]
    <3>1. refresh = "semget" => starts \in SemId
      BY DEF KernelInv, TypeOK, SemId
    <3> QED
      BY <1>4, <3>1 DEF SemGet, InitSem, RefreshP, RefreshV, RemoveSem, SemP, SemV, TypeOK
  <2>2. refresh' \in RefreshSteps \cup {"down"} /\ handler' \in HandlerSteps
    BY <1>4 DEF SemGet, InitSem, RefreshP, RefreshV, RemoveSem, TypeOK, RefreshSteps, SetupSteps, HeldSteps, HandlerSteps
  <2> QED
    BY <1>1, <1>4, <2>1, <2>2 DEF SemGet, InitSem, RefreshP, RefreshV, RemoveSem, memory, readers, TypeOK
<1>5. CASE ShmGet
  <2>1. /\ shmkey' \in 0..pages' /\ pages' \in 0..Starts + 1 /\ page' = page
        /\ shmid' \in [Proc -> 0..pages']
    BY <1>5, AttachFacts, ProcFacts DEF ShmGet, TypeOK
  <2> QED
    BY <1>1, <1>5, <2>1 DEF ShmGet, semaphore, readers, TypeOK, RefreshSteps, SetupSteps
<1>6. CASE Clear \/ Status \/ CopyA9 \/ CopyZigbee
  <2>1. page' \in [ShmId -> Page]
    <3>1. Zero \in Page /\ \A pg \in Page : /\ [pg EXCEPT !.shm_status = 1] \in Page
                                           /\ [pg EXCEPT !.a9 = rec.a9] \in Page
                                           /\ [pg EXCEPT !.zigbee = rec.zigbee] \in Page
      BY SMTT(30) DEF TypeOK, Page, Part, Zero
    <3> QED
      BY <1>6, <3>1, SMTT(30) DEF Clear, Status, CopyA9, CopyZigbee, Copy, TypeOK
  <2>2. refresh' \in RefreshSteps \cup {"down"}
    BY <1>6 DEF Clear, Status, CopyA9, CopyZigbee, Copy, RefreshSteps, HeldSteps, SetupSteps
  <2> QED
    BY <1>1, <1>6, <2>1, <2>2 DEF Clear, Status, CopyA9, CopyZigbee, Copy, semaphore, readers, TypeOK
<1>7. CASE RefreshFails \/ Abort \/ Exit
  BY <1>1, <1>7, <1>0 DEF RefreshFails, Abort, Exit, Down, Ends, readers, TypeOK, TransferSteps, HandlerSteps
<1>8. CASE RemoveShm
  BY <1>1, <1>8 DEF RemoveShm, semaphore, readers, TypeOK, HandlerSteps
<1>9. ASSUME NEW r \in Readers, ReaderSemGet(r) PROVE TypeOK'
  <2>1. /\ semid' \in [Proc -> SemId \cup {0}] /\ env1' \in [Readers -> ReaderSteps]
        /\ UNCHANGED <<sem, seen, snap>>
    BY <1>9, ProcFacts DEF ReaderSemGet, TypeOK, ReaderSteps
  <2> QED
    BY <1>1, <1>9, <2>1 DEF ReaderSemGet, memory, monitor, TypeOK
<1>10. ASSUME NEW r \in Readers, ReaderShmGet(r) PROVE TypeOK'
  <2>1. /\ shmkey' \in 0..pages' /\ pages' \in 0..Starts + 1 /\ page' = page
        /\ shmid' \in [Proc -> 0..pages']
    BY <1>10, AttachFacts, ProcFacts DEF ReaderShmGet, TypeOK
  <2> QED
    BY <1>1, <1>10, <2>1 DEF ReaderShmGet, semaphore, monitor, TypeOK, ReaderSteps
<1>11. ASSUME NEW r \in Readers, ReaderP(r) PROVE TypeOK'
  <2>1. shmid[r] \in ShmId
    BY <1>11, PageInUse DEF ReaderP
  <2> QED
    BY <1>1, <1>11, <2>1 DEF ReaderP, SemP, memory, monitor, TypeOK, ReaderSteps, HeldSteps
<1>12. ASSUME NEW r \in Readers, ReadStatus(r) \/ ReadZigbee(r) \/ ReadA9(r) PROVE TypeOK'
  <2>1. shmid[r] \in ShmId
    BY <1>12, PageInUse DEF ReadStatus, ReadZigbee, ReadA9, ShowPart
  <2>2. seen' \in [Readers -> Page]
    <3>1. page[shmid[r]] \in Page
      BY <2>1 DEF TypeOK
    <3>2. \A pg \in Page : \A got \in Page :
             /\ [Zero EXCEPT !.shm_status = got.shm_status] \in Page
             /\ [pg EXCEPT !.a9 = got.a9] \in Page
             /\ [pg EXCEPT !.zigbee = got.zigbee] \in Page
      BY DEF Page, Part, Zero
    <3>3. \E got \in Page : seen' = [seen EXCEPT ![r] = got]
      <4>1. CASE ReadStatus(r)
        BY <4>1, <3>1, <3>2 DEF ReadStatus
      <4>2. CASE ReadZigbee(r)
        <5>1. seen' = [seen EXCEPT ![r] = [seen[r] EXCEPT !.zigbee = page[shmid[r]].zigbee]]
          BY <4>2 DEF ReadZigbee, ShowPart, TypeOK
        <5> QED
          BY <5>1, <3>1, <3>2 DEF TypeOK
      <4>3. CASE ReadA9(r)
        <5>1. seen' = [seen EXCEPT ![r] = [seen[r] EXCEPT !.a9 = page[shmid[r]].a9]]
          BY <4>3 DEF ReadA9, ShowPart, TypeOK
        <5> QED
          BY <5>1, <3>1, <3>2 DEF TypeOK
      <4> QED
        BY <1>12, <4>1, <4>2, <4>3
    <3> QED
      BY <1>12, <3>1, <3>3 DEF ReadStatus, ReadZigbee, ReadA9, ShowPart, TypeOK
  <2> QED
    BY <1>1, <1>12, <2>2 DEF ReadStatus, ReadZigbee, ReadA9, ShowPart, semaphore, memory, monitor, TypeOK, ReaderSteps, HeldSteps
<1>13. ASSUME NEW r \in Readers, ReaderV(r) \/ ReaderFails(r) \/ Kill(r) PROVE TypeOK'
  BY <1>1, <1>13, <1>0 DEF ReaderV, ReaderFails, Kill, ReaderEnds, Ends, Forgets, monitor, TypeOK, ReaderSteps
<1> QED
  BY <1>3, <1>4, <1>5, <1>6, <1>7, <1>8, <1>9, <1>10, <1>11, <1>12, <1>13
     DEF Next, RefreshStep, HandlerStep, ReaderStep

(* Every step keeps the account of what exists in the kernel.               *)
LEMMA KernelStep ==
  ASSUME IInv, TypeOK', [Next]_vars
  PROVE  KernelInv'
<1> USE ProcFacts, EnvAssumption DEF IInv, EnvAssumption, RefreshSteps, SetupSteps, HeldSteps, Attached
<1>1. CASE Start
  BY <1>1 DEF Start, KernelInv, Removals, semaphore, memory, readers, TypeOK, SemId
<1>2. CASE SemGet
  <2>1. /\ semid'["monitor"] # 0 /\ \A r \in Readers : semid'[r] = semid[r]
        /\ refresh' = "setval" => sem'[semid'["monitor"]] = "new"
    <3>1. starts \in SemId
      BY <1>2 DEF SemGet, KernelInv, TypeOK, SemId
    <3> QED
      BY <1>2, <3>1 DEF SemGet, TypeOK, SemId
  <2>2. \A i \in SemId : /\ i > starts => sem'[i] = "unborn"
                         /\ sem'[i] = "unborn" => \A p \in Proc : semid'[p] # i
    BY <1>2 DEF SemGet, KernelInv, TypeOK, Live
  <2> QED
    BY <1>2, <2>1, <2>2 DEF SemGet, KernelInv, Removals, memory, readers
<1>3. CASE InitSem
  BY <1>3 DEF InitSem, KernelInv, Removals, memory, readers, TypeOK, Live
<1>4. CASE ShmGet
  BY <1>4, AttachFacts DEF ShmGet, KernelInv, Removals, semaphore, readers
<1>5. CASE Clear \/ RefreshP \/ Status \/ CopyA9 \/ CopyZigbee \/ RefreshV \/ WakeTransfer
  BY <1>5 DEF Clear, RefreshP, SemP, Status, CopyA9, CopyZigbee, Copy, RefreshV, SemV, WakeTransfer, KernelInv, Removals, semaphore, memory, readers
<1>6. CASE TransferStep \/ Interrupt \/ UNCHANGED vars
  BY <1>6 DEF TransferStep, FillZigbee, FillA9, Wait, Interrupt, KernelInv, Removals, vars, semaphore, memory, monitor, readers
<1>7. CASE RefreshFails \/ Abort \/ Exit
  <2>1. /\ semid'["monitor"] = 0 /\ sem' = sem
        /\ \A r \in Readers : semid'[r] = semid[r] /\ shmid'[r] = shmid[r]
    BY <1>7 DEF RefreshFails, Abort, Exit, Down, Ends, TypeOK
  <2>2. /\ refresh # "down" /\ refresh' = "down" /\ handler' = "none"
        /\ UNCHANGED <<starts, env1, shmkey, pages>>
    BY <1>7 DEF RefreshFails, Abort, Exit, Down, Ends, KernelInv, readers
  <2>3. pages' + (IF shmkey' = 0 THEN 1 ELSE 0) <= Removals' + 1
    BY <2>2 DEF KernelInv, Removals, TypeOK
  <2>4. \A i \in SemId : sem'[i] = "unborn" => \A p \in Proc : semid'[p] # i
    BY <2>1 DEF KernelInv, SemId
  <2> QED
    BY <2>1, <2>2, <2>3, <2>4 DEF KernelInv
<1>8. CASE RemoveShm
  BY <1>8 DEF RemoveShm, KernelInv, Removals, semaphore, readers, TypeOK
<1>9. CASE RemoveSem
  <2>1. \A i \in SemId : sem'[i] = sem[i] \/ (sem[i] # "unborn" /\ sem'[i] = "removed")
    <3>1. PICK gone : /\ semid["monitor"] = 0 => gone \subseteq {i \in SemId : Live(i)}
                      /\ semid["monitor"] # 0 => gone = {semid["monitor"]}
                      /\ sem' = [i \in SemId |-> IF i \in gone THEN "removed" ELSE sem[i]]
      <4>1. CASE semid["monitor"] = 0
        BY <1>9, <4>1 DEF RemoveSem
      <4>2. CASE semid["monitor"] # 0
        BY <1>9, <4>2 DEF RemoveSem
      <4> QED
        BY <4>1, <4>2
    <3>2. ASSUME NEW i \in SemId, i \in gone PROVE sem[i] # "unborn"
      <4>1. CASE semid["monitor"] = 0
        BY <3>1, <3>2, <4>1 DEF Live
      <4>2. CASE semid["monitor"] # 0
        BY <3>1, <3>2, <4>2 DEF KernelInv
      <4> QED
        BY <4>1, <4>2
    <3> QED
      BY <3>1, <3>2
  <2>2. refresh = "setval" => semid["monitor"] \in SemId
    BY DEF KernelInv, TypeOK
  <2>3. refresh = "semget" => starts \in SemId /\ sem'[starts] = "unborn"
    BY <2>1 DEF KernelInv, TypeOK, SemId
  <2> QED
    BY <1>9, <2>1, <2>2, <2>3 DEF RemoveSem, KernelInv, Removals, memory, readers
<1>10. ASSUME NEW r \in Readers, ReaderSemGet(r) PROVE KernelInv'
  <2>1. /\ env1'[r] = "shmget" /\ semid'[r] # 0 /\ semid'["monitor"] = semid["monitor"]
        /\ \A q \in Readers : q # r => env1'[q] = env1[q] /\ semid'[q] = semid[q]
    BY <1>10 DEF ReaderSemGet, TypeOK, SemId
  <2>2. \A i \in SemId : sem[i] = "unborn" => \A p \in Proc : semid'[p] # i
    BY <1>10 DEF ReaderSemGet, KernelInv, TypeOK, Live
  <2> QED
    BY <1>10, <2>1, <2>2 DEF ReaderSemGet, KernelInv, Removals, memory, monitor
<1>11. ASSUME NEW r \in Readers, ReaderShmGet(r) PROVE KernelInv'
  <2>1. /\ env1'[r] = "p" /\ env1[r] = "shmget"
        /\ \A q \in Readers : q # r => env1'[q] = env1[q]
    BY <1>11 DEF ReaderShmGet, TypeOK
  <2>2. /\ shmid'[r] # 0 /\ shmid'["monitor"] = shmid["monitor"]
        /\ \A q \in Readers : q # r => shmid'[q] = shmid[q]
        /\ pages' + (IF shmkey' = 0 THEN 1 ELSE 0) = pages + (IF shmkey = 0 THEN 1 ELSE 0)
    BY <1>11, AttachFacts DEF ReaderShmGet
  <2> QED
    BY <1>11, <2>1, <2>2 DEF ReaderShmGet, KernelInv, Removals, semaphore, monitor
<1>12. ASSUME NEW r \in Readers, ReaderP(r) \/ ReadStatus(r) \/ ReadZigbee(r) \/ ReadA9(r) PROVE KernelInv'
  <2>1. /\ env1'[r] \notin {"idle", "shmget"} /\ env1[r] \notin {"idle", "shmget"}
        /\ \A q \in Readers : q # r => env1'[q] = env1[q]
    BY <1>12 DEF ReaderP, ReadStatus, ReadZigbee, ReadA9, ShowPart, TypeOK
  <2> QED
    BY <1>12, <2>1 DEF ReaderP, SemP, ReadStatus, ReadZigbee, ReadA9, ShowPart, KernelInv, Removals, semaphore, memory, monitor
<1>13. ASSUME NEW r \in Readers, ReaderV(r) \/ ReaderFails(r) \/ Kill(r) PROVE KernelInv'
  <2>1. /\ env1'[r] = "idle" /\ semid'[r] = 0
        /\ \A q \in Proc : q # r => semid'[q] = semid[q] /\ shmid'[q] = shmid[q]
        /\ \A q \in Readers : q # r => env1'[q] = env1[q]
    BY <1>13 DEF ReaderV, ReaderFails, Kill, ReaderEnds, Ends, Forgets, TypeOK
  <2> QED
    BY <1>13, <2>1 DEF ReaderV, ReaderFails, Kill, ReaderEnds, Ends, Forgets, KernelInv, Removals, monitor, SemId
<1> QED
  BY <1>1, <1>2, <1>3, <1>4, <1>5, <1>6, <1>7, <1>8, <1>9, <1>10, <1>11, <1>12, <1>13
     DEF Next, RefreshStep, HandlerStep, ReaderStep

LEMMA IInvStep == IInv /\ [Next]_vars => IInv'
BY ExclusionStep, TypeStep, KernelStep DEF IInv

-----------------------------------------------------------------------------
(* In the first run there is one semaphore, so refresh writes parts only    *)
(* while no status CGI reads them.                                          *)
LEMMA AloneWithThePage ==
  ASSUME IInv, starts <= 1, NEW r \in Readers, env1[r] \in HeldSteps
  PROVE  refresh \notin HeldSteps
<1> SUFFICES ASSUME refresh \in HeldSteps PROVE FALSE
  OBVIOUS
<1>1. semid[r] # 0 /\ semid["monitor"] # 0
  BY DEF IInv, KernelInv, HeldSteps
<1>2. ASSUME NEW p \in Proc, semid[p] # 0 PROVE semid[p] = 1
  <2>1. semid[p] \in SemId
    BY <1>2 DEF IInv, TypeOK
  <2>2. sem[semid[p]] # "unborn"
    BY <2>1 DEF IInv, KernelInv
  <2> QED
    BY <2>1, <2>2, EnvAssumption DEF IInv, KernelInv, TypeOK, SemId, EnvAssumption
<1> QED
  BY <1>1, <1>2, ProcFacts DEF IInv, ExclusionInv, Between

(* What a status CGI knows is not disturbed by what others do.              *)
LEMMA SameSeen ==
  ASSUME NEW r \in Readers, SeenInv(r), env1'[r] = env1[r], seen'[r] = seen[r], snap'[r] = snap[r],
         env1[r] \in HeldSteps => page'[shmid'[r]] = page[shmid[r]]
  PROVE  SeenInv(r)'
BY DEF SeenInv, HeldSteps

(* In the first run the page stays as a status CGI found it until its V.    *)
LEMMA SnapStep ==
  ASSUME IInv, SnapInv, [Next]_vars
  PROVE  SnapInv'
<1> USE DEF IInv
<1>1. starts' = starts \/ (Start /\ starts' = starts + 1)
  BY DEF Next, RefreshStep, SemGet, InitSem, ShmGet, Clear, Status, CopyA9, CopyZigbee, Copy, RefreshV, WakeTransfer, RefreshFails, Down, RefreshP, TransferStep, FillZigbee, FillA9, Wait, Abort, Interrupt, HandlerStep, RemoveShm, RemoveSem, Exit, ReaderSemGet, ReaderStep, ReaderShmGet, ReadStatus, ReadZigbee, ReadA9, ShowPart, ReaderV, ReaderFails, Kill, ReaderEnds, ReaderP, Start, vars, monitor
<1> SUFFICES ASSUME starts' <= 1 PROVE SnapInv'
  BY DEF SnapInv
<1>2. starts <= 1
  BY <1>1 DEF TypeOK
<1>3. /\ starts = 0 \/ refresh \in SetupSteps => page = [i \in ShmId |-> Zero]
      /\ \A r \in Readers : SeenInv(r)
  BY <1>2 DEF SnapInv
<1>4. ASSUME page' = page, UNCHANGED readers,
             \A r \in Readers : env1[r] \in HeldSteps => shmid'[r] = shmid[r],
             starts' = 0 \/ refresh' \in SetupSteps => starts = 0 \/ refresh \in SetupSteps
      PROVE  SnapInv'
  BY <1>3, <1>4, SameSeen DEF SnapInv, readers
<1>5. CASE Start
  BY <1>4, <1>5 DEF Start, memory, TypeOK, SetupSteps
<1>6. CASE \/ SemGet \/ InitSem \/ RefreshP \/ RefreshV \/ WakeTransfer \/ TransferStep
           \/ Interrupt \/ RemoveShm \/ RemoveSem \/ UNCHANGED vars
  BY <1>4, <1>6 DEF SemGet, InitSem, RefreshP, RefreshV, WakeTransfer, TransferStep, FillZigbee, FillA9, Wait, Interrupt, RemoveShm, RemoveSem, vars, memory, monitor, SetupSteps
<1>7. CASE ShmGet
  BY <1>4, <1>7, AttachFacts, ProcFacts DEF ShmGet, SetupSteps
<1>8. CASE RefreshFails \/ Abort \/ Exit
  BY <1>4, <1>8, ProcFacts, EnvAssumption DEF RefreshFails, Abort, Exit, Down, Ends, KernelInv, TypeOK, SetupSteps, EnvAssumption, RefreshSteps, HeldSteps
<1>9. CASE Clear
  <2>1. page' = page
    BY <1>3, <1>9 DEF Clear, SetupSteps
  <2> QED
    BY <1>4, <1>9, <2>1 DEF Clear, SetupSteps
<1>10. CASE Status \/ CopyA9 \/ CopyZigbee
  <2>1. refresh \in HeldSteps /\ starts' # 0 /\ refresh' \notin SetupSteps /\ UNCHANGED readers
    BY <1>10 DEF Status, CopyA9, CopyZigbee, Copy, KernelInv, TypeOK, HeldSteps, SetupSteps
  <2>2. \A r \in Readers : env1[r] \notin HeldSteps
    BY <1>2, <2>1, AloneWithThePage
  <2> QED
    BY <1>3, <2>1, <2>2, SameSeen DEF SnapInv, readers
<1>11. ASSUME NEW r \in Readers, page' = page, UNCHANGED <<starts, refresh>>, SeenInv(r)',
              \A q \in Readers : q # r => /\ env1'[q] = env1[q] /\ shmid'[q] = shmid[q]
                                         /\ seen'[q] = seen[q] /\ snap'[q] = snap[q]
       PROVE  SnapInv'
  <2>1. \A q \in Readers : SeenInv(q)'
    BY <1>3, <1>11, SameSeen
  <2> QED
    BY <1>3, <1>11, <2>1 DEF SnapInv
<1>12. ASSUME NEW r \in Readers, ReaderSemGet(r) \/ ReaderShmGet(r) \/ ReaderV(r) \/ ReaderFails(r) \/ Kill(r)
       PROVE  SnapInv'
  <2>1. env1'[r] \notin HeldSteps
    BY <1>12 DEF ReaderSemGet, ReaderShmGet, ReaderV, ReaderFails, Kill, ReaderEnds, Forgets, TypeOK, HeldSteps
  <2>2. /\ page' = page /\ UNCHANGED <<starts, refresh>>
        /\ \A q \in Readers : q # r => /\ env1'[q] = env1[q] /\ shmid'[q] = shmid[q]
                                       /\ seen'[q] = seen[q] /\ snap'[q] = snap[q]
    BY <1>12, ProcFacts DEF ReaderSemGet, ReaderShmGet, ReaderV, ReaderFails, Kill, ReaderEnds, Ends, Forgets, Attach, memory, monitor, TypeOK
  <2>3. SeenInv(r)'
    BY <2>1 DEF SeenInv, HeldSteps
  <2> QED
    BY <1>11, <2>2, <2>3
<1>13. ASSUME NEW r \in Readers, ReaderP(r) \/ ReadStatus(r) \/ ReadZigbee(r) \/ ReadA9(r)
       PROVE  SnapInv'
  <2>1. /\ page' = page /\ shmid' = shmid /\ UNCHANGED <<starts, refresh>>
        /\ \A q \in Readers : q # r => /\ env1'[q] = env1[q]
                                       /\ seen'[q] = seen[q] /\ snap'[q] = snap[q]
    BY <1>13 DEF ReaderP, ReadStatus, ReadZigbee, ReadA9, ShowPart, memory, monitor, TypeOK
  <2>2. SeenInv(r) /\ snap[r] \in Page /\ seen[r] \in Page
    BY <1>3 DEF TypeOK
  <2>3. ASSUME ReaderP(r) PROVE SeenInv(r)'
    <3>1. env1'[r] = "status" /\ snap'[r] = page[shmid[r]]
      BY <2>3 DEF ReaderP, TypeOK
    <3> QED
      BY <2>1, <3>1 DEF SeenInv
  <2>4. ASSUME ReadStatus(r) PROVE SeenInv(r)'
    <3>1. /\ snap[r] = page[shmid[r]] /\ snap' = snap /\ env1[r] = "status"
          /\ seen'[r] = Shown(snap[r].shm_status, 0, 0)
          /\ env1'[r] = IF snap[r].shm_status = 1 THEN "zigbee" ELSE "v"
      BY <2>2, <2>4 DEF ReadStatus, SeenInv, TypeOK, HeldSteps, Zero, Shown
    <3>2. seen'[r].shm_status = snap[r].shm_status /\ snap[r].shm_status \in {0, 1}
      BY <2>2, <3>1 DEF Page, Shown
    <3> QED
      BY <2>1, <3>1, <3>2 DEF SeenInv
  <2>5. ASSUME ReadZigbee(r) PROVE SeenInv(r)'
    <3>1. /\ snap[r] = page[shmid[r]] /\ snap' = snap /\ snap[r].shm_status = 1
          /\ seen[r] = Shown(1, 0, 0) /\ env1'[r] = "a9"
      BY <2>2, <2>5 DEF ReadZigbee, ShowPart, SeenInv, TypeOK, HeldSteps
    <3>2. seen'[r] = [seen[r] EXCEPT !.zigbee = snap[r].zigbee]
      BY <2>5, <3>1 DEF ReadZigbee, ShowPart, TypeOK
    <3>3. seen'[r] = Shown(1, 0, snap[r].zigbee)
      BY <3>1, <3>2 DEF Shown
    <3> QED
      BY <2>1, <3>1, <3>3 DEF SeenInv
  <2>6. ASSUME ReadA9(r) PROVE SeenInv(r)'
    <3>1. /\ snap[r] = page[shmid[r]] /\ snap' = snap /\ snap[r].shm_status = 1
          /\ seen[r] = Shown(1, 0, snap[r].zigbee) /\ env1'[r] = "v"
      BY <2>2, <2>6 DEF ReadA9, ShowPart, SeenInv, TypeOK, HeldSteps
    <3>2. seen'[r] = [seen[r] EXCEPT !.a9 = snap[r].a9]
      BY <2>6, <3>1 DEF ReadA9, ShowPart, TypeOK
    <3>3. seen'[r] = snap[r]
      BY <2>2, <3>1, <3>2 DEF Shown, Page
    <3> QED
      BY <2>1, <3>1, <3>3 DEF SeenInv
  <2> QED
    BY <1>11, <1>13, <2>1, <2>3, <2>4, <2>5, <2>6
<1> QED
  BY <1>5, <1>6, <1>7, <1>8, <1>9, <1>10, <1>12, <1>13
     DEF Next, RefreshStep, HandlerStep, ReaderStep

(* Nobody between P and V, or one process alone.                            *)
LEMMA CountHolders ==
  ASSUME IInv
  PROVE  SemConserved
<1> SUFFICES ASSUME NEW i \in SemId
             PROVE  /\ sem[i] = "ready" => val[i] + Cardinality(Holders(i)) = 1
                    /\ sem[i] = "new" => val[i] = 0 /\ Holders(i) = {}
  BY DEF SemConserved
<1>1. CASE \A p \in Proc : semid[p] = i => ~Between(p)
  <2>1. Holders(i) = {}
    BY <1>1 DEF Holders
  <2>2. sem[i] = "ready" => val[i] = 1
    BY <1>1 DEF IInv, ExclusionInv, TypeOK
  <2>3. sem[i] = "new" => val[i] = 0
    BY DEF IInv, ExclusionInv
  <2> QED
    BY <2>1, <2>2, <2>3, FS_EmptySet
<1>2. CASE \E p \in Proc : semid[p] = i /\ Between(p)
  <2>1. PICK p \in Proc : semid[p] = i /\ Between(p)
    BY <1>2
  <2>2. Holders(i) = {p}
    BY <2>1 DEF Holders, IInv, ExclusionInv
  <2>3. sem[i] # "new" /\ (sem[i] = "ready" => val[i] = 0)
    BY <2>1 DEF IInv, ExclusionInv
  <2> QED
    BY <2>2, <2>3, FS_Singleton
<1> QED
  BY <1>1, <1>2

(* The inductive invariants hold in every state of the program.             *)
LEMMA Invariants == Spec => [](IInv /\ SnapInv)
<1>1. IInv /\ SnapInv /\ [Next]_vars => IInv' /\ SnapInv'
  BY IInvStep, SnapStep
<1> QED
  BY InitIInv, <1>1, PTL DEF Spec

(* The state of the semaphore, the pages, the monitor and the CGIs keeps    *)
(* its types; in particular a semaphore's value is 0 or 1 and there is a    *)
(* page for every start and one more (sem.h, pthread_refresh.c, env1.c).    *)
THEOREM TypeCorrect == Spec => []TypeOK
<1>1. IInv /\ SnapInv => TypeOK
  BY DEF IInv
<1> QED
  BY Invariants, <1>1, PTL

(* However processes are killed, aborted or restarted, an initialised       *)
(* semaphore is positive or owed by one process (SEM_UNDO in sem.h).        *)
THEOREM SemCorrect == Spec => []SemConserved
<1>1. IInv /\ SnapInv => SemConserved
  BY CountHolders
<1> QED
  BY Invariants, <1>1, PTL

(* A status CGI that is done has printed the page as it was when it got the *)
(* semaphore, in the first run of the monitor (env1.c, pthread_refresh.c).  *)
THEOREM SnapshotCorrect == Spec => []SnapshotRead
<1>1. IInv /\ SnapInv => SnapshotRead
  BY DEF SnapInv, SeenInv, SnapshotRead
<1> QED
  BY Invariants, <1>1, PTL

=============================================================================
