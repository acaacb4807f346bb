------------------------ MODULE CommandDispatchProofs ------------------------
(***************************************************************************)
(* Proofs about CommandDispatch for any number of CGI processes, any       *)
(* requests a form can compose, any queue capacity, and any sets of        *)
(* workers that are missing, broken or woken spuriously.                   *)
(*                                                                         *)
(* The argument runs in layers.  IInv types the state and ties what a      *)
(* worker still has to look at to the globals it owns; MutexInv is         *)
(* inductive relative to it and gives mutual exclusion between a worker's  *)
(* round and a store; from that exclusion follow that a worker executes    *)
(* the byte its global still holds (CurrentByte), that no command slips    *)
(* behind a round (RoundInv), and that every step is a step of the         *)
(* abstract registers or leaves them alone (MailboxStep).                  *)
(***************************************************************************)
EXTENDS CommandDispatch, TLAPS

(* A worker that drives a device has only globals of its own left to look   *)
(* at, and one of them while it acts (pthread_led.c:41-56, pthread_buzzer.c, *)
(* pthread_fan.c); dh_mon has only thresholds left (pthread_dh_mon.c:34-37). *)
TodoOK ==
  /\ \A w \in Worker \ {"dh_mon"} :
       /\ todo[w] \in Seq({s \in Slot : Owner(s) = w})
       /\ pc[w] = "act" => todo[w] # << >>
  /\ todo["dh_mon"] \in Seq(Field)

(* The inductive type invariant.                                            *)
IInv == TypeOK /\ TodoOK

USE DEF HasSlot, Requester

(* What a CGI puts into the queue fits the case that takes it out: a byte   *)
(* for the cases that store one, a form's thresholds for case 5.            *)
LEMMA RequestFacts ==
  ASSUME NEW m \in Requests
  PROVE  /\ HasSlot(m) => m.text \in Byte
         /\ m.msgtype = 5 => m.text \in Limits
BY ConstantsAssumption DEF ConstantsAssumption, Message, HasSlot

(* The globals belong to led, buzzer and fan; dh_mon owns none.             *)
LEMMA OwnerType == \A s \in Slot : Owner(s) \in Worker \ {"dh_mon"}
BY DEF Owner, Slot, Worker

(* The switch of client_request: a message it stores goes to a global whose *)
(* owner it then signals, and every message it handles has a thread to wake. *)
LEMMA TargetType ==
  ASSUME NEW m, HasSlot(m) \/ m.msgtype = 5
  PROVE  /\ Target(m) \in Worker
         /\ HasSlot(m) => SlotFor(m) \in Slot /\ Target(m) = Owner(SlotFor(m)) /\ Target(m) # "dh_mon"
BY DEF Target, HasSlot, Owner, SlotFor, Slot, Worker

(* The state main starts the threads in is well typed.                      *)
LEMMA InitIInv == Init => IInv
BY ConstantsAssumption DEF Init, IInv, TypeOK, TodoOK, ConstantsAssumption, Thread, Worker, Slot, Field, Byte, RequesterSteps, WorkerSteps, Idle

(* The head and tail of a sequence over S.                                  *)
LEMMA SeqFacts ==
  ASSUME NEW S, NEW q \in Seq(S), q # << >>
  PROVE  Head(q) \in S /\ Tail(q) \in Seq(S)
OBVIOUS

(* A worker's round looks only at what the worker owns.                     *)
LEMMA ScanFacts ==
  ASSUME NEW w \in Worker
  PROVE  /\ Scan(w) \in Seq(Slot \cup Field)
         /\ w # "dh_mon" => Scan(w) \in Seq({s \in Slot : Owner(s) = w})
         /\ w = "dh_mon" => Scan(w) \in Seq(Field)
<1>1. CASE w = "led"
  BY <1>1 DEF Scan, Slot, Field, Owner
<1>2. CASE w = "buzzer"
  BY <1>2 DEF Scan, Slot, Field, Owner
<1>3. CASE w = "fan"
  BY <1>3 DEF Scan, Slot, Field, Owner
<1>4. CASE w = "dh_mon"
  BY <1>4 DEF Scan, Slot, Field, Owner
<1> QED
  BY <1>1, <1>2, <1>3, <1>4 DEF Worker

(* What a worker looks at next is a global of its own.                      *)
LEMMA NextTodo ==
  ASSUME TypeOK, TodoOK, NEW w \in Worker \ {"dh_mon"}, todo[w] # << >>
  PROVE  /\ Head(todo[w]) \in Slot /\ Owner(Head(todo[w])) = w
         /\ Tail(todo[w]) \in Seq({s \in Slot : Owner(s) = w})
         /\ Tail(todo[w]) \in Seq(Slot \cup Field)
<1>1. todo[w] \in Seq({s \in Slot : Owner(s) = w}) /\ todo[w] \in Seq(Slot \cup Field)
  BY DEF TypeOK, TodoOK
<1> QED
  BY <1>1, SeqFacts

(* Names of threads are distinct, and none is "free".                       *)
LEMMA ThreadFacts ==
  /\ Worker \subseteq Thread /\ Requester \in Thread /\ Requester \notin Worker
  /\ "dh_mon" \in Worker /\ Thread = Worker \cup {Requester} /\ "free" \notin Thread
BY DEF Thread, Worker

(* Every step of every thread and CGI keeps the state well typed.           *)
LEMMA IInvStep == IInv /\ [Next]_vars => IInv'
<1> SUFFICES ASSUME IInv, [Next]_vars PROVE IInv'
  OBVIOUS
<1>1. ASSUME NEW c \in Clients, Submit(c) PROVE IInv'
  BY <1>1 DEF IInv, TypeOK, TodoOK, Submit
<1>2. ASSUME NEW c \in Clients, MsgSnd(c) PROVE IInv'
  <2>1. client[c] \in Requests
    BY <1>2 DEF IInv, TypeOK, MsgSnd
  <2>2. queue' \in Seq(Requests) /\ Len(queue') <= QueueCap
    BY <1>2, <2>1, ConstantsAssumption DEF IInv, TypeOK, MsgSnd, ConstantsAssumption
  <2> QED
    BY <1>2, <2>2 DEF IInv, TypeOK, TodoOK, MsgSnd
<1>3. CASE MsgRcv
  <2>1. queue' \in Seq(Requests) /\ Len(queue') <= QueueCap /\ Head(queue) \in Requests
    BY <1>3, ConstantsAssumption DEF IInv, TypeOK, MsgRcv, ConstantsAssumption
  <2>2. TypeOK'
    BY <1>3, <2>1, SMTT(30) DEF IInv, TypeOK, MsgRcv, Goto, Thread, Worker, RequesterSteps, WorkerSteps, Field
  <2>3. TodoOK'
    BY <1>3 DEF IInv, TypeOK, TodoOK, MsgRcv, Goto, Thread, Worker
  <2> QED
    BY <2>2, <2>3 DEF IInv
<1>4. CASE LockSlot
  BY <1>4, TargetType DEF IInv, TypeOK, TodoOK, LockSlot, Goto, Thread, Worker, RequesterSteps, WorkerSteps, Field
<1>5. CASE StoreAndUnlock
  <2>1. /\ SlotFor(msgbuf) \in Slot /\ Target(msgbuf) \in Worker
        /\ msgbuf.text \in Byte
    BY <1>5, TargetType, RequestFacts DEF IInv, TypeOK, StoreAndUnlock, Idle
  <2>2. TypeOK'
    BY <1>5, <2>1 DEF IInv, TypeOK, StoreAndUnlock, Goto, Thread, Worker, RequesterSteps, WorkerSteps, Field
  <2>3. TodoOK'
    BY <1>5 DEF IInv, TypeOK, TodoOK, StoreAndUnlock, Goto, Thread, Worker
  <2> QED
    BY <2>2, <2>3 DEF IInv
<1>6. CASE SetLimit
  <2>1. msgbuf.text \in Limits
    BY <1>6, RequestFacts DEF IInv, TypeOK, SetLimit, Idle
  <2>2. TypeOK'
    BY <1>6, <2>1 DEF IInv, TypeOK, SetLimit, Goto, Thread, Worker, RequesterSteps, WorkerSteps, Field
  <2>3. TodoOK'
    BY <1>6 DEF IInv, TypeOK, TodoOK, SetLimit, Goto, Thread, Worker
  <2> QED
    BY <2>2, <2>3 DEF IInv
<1>7. CASE Signal
  <2>1. Target(msgbuf) \in Worker
    BY <1>7, TargetType DEF IInv, TypeOK, Signal
  <2> QED
    BY <1>7, <2>1 DEF IInv, TypeOK, TodoOK, Signal, Thread, Worker, RequesterSteps, WorkerSteps, Field
<1>8. ASSUME NEW w \in Worker, Open(w) PROVE IInv'
  <2>1. /\ pc'[Requester] \in {pc[Requester], "gone"}
        /\ \A v \in Worker : pc'[v] \in {pc[v], "lock", "gone"}
    <3>1. pc' = [pc EXCEPT ![w] = "lock"] \/ pc' = [pc EXCEPT ![w] = "gone"]
            \/ pc' = [t \in Thread |-> "gone"]
      BY <1>8 DEF Open, Goto
    <3> QED
      BY <3>1, ThreadFacts DEF IInv, TypeOK
  <2>2. pc' \in [Thread -> RequesterSteps \cup WorkerSteps]
    BY <1>8 DEF IInv, TypeOK, Open, Goto, RequesterSteps, WorkerSteps
  <2>3. mutex' \in [Worker -> Thread \cup {"free"}]
    BY <1>8 DEF IInv, TypeOK, Open
  <2>4. TypeOK'
    BY <1>8, <2>1, <2>2, <2>3 DEF IInv, TypeOK, Open, Thread, Worker, RequesterSteps, WorkerSteps, Field
  <2>5. TodoOK'
    BY <1>8, <2>1 DEF IInv, TodoOK, Open, Thread, Worker
  <2> QED
    BY <2>4, <2>5 DEF IInv
<1>9. ASSUME NEW w \in Worker, Lock(w) PROVE IInv'
  BY <1>9 DEF IInv, TypeOK, TodoOK, Lock, Goto, Thread, Worker, RequesterSteps, WorkerSteps, Field
<1>10. ASSUME NEW w \in Worker, CondWait(w) PROVE IInv'
  BY <1>10 DEF IInv, TypeOK, TodoOK, CondWait, Goto, Thread, Worker, RequesterSteps, WorkerSteps, Field
<1>11. ASSUME NEW w \in Worker, SpuriousWake(w) PROVE IInv'
  BY <1>11 DEF IInv, TypeOK, TodoOK, SpuriousWake, Goto, Thread, Worker, RequesterSteps, WorkerSteps, Field
<1>12. CASE Tick
  BY <1>12 DEF IInv, TypeOK, TodoOK, Tick, Goto, Thread, Worker, RequesterSteps, WorkerSteps, Field
<1>13. ASSUME NEW w \in Worker, Reacquire(w) PROVE IInv'
  <2>1. TypeOK'
    BY <1>13, ScanFacts, SMTT(30) DEF IInv, TypeOK, Reacquire, Goto, Thread, Worker, RequesterSteps, WorkerSteps, Field
  <2>2. TodoOK'
    BY <1>13, ScanFacts DEF IInv, TypeOK, TodoOK, Reacquire, Goto, Thread, Worker
  <2> QED
    BY <2>1, <2>2 DEF IInv
<1>14. ASSUME NEW w \in Worker, Read(w) PROVE IInv'
  <2>1. /\ Head(todo[w]) \in Slot
        /\ Tail(todo[w]) \in Seq({s \in Slot : Owner(s) = w})
        /\ Tail(todo[w]) \in Seq(Slot \cup Field)
    BY <1>14, NextTodo DEF IInv, TodoOK, Read
  <2>a. \/ pc' = [pc EXCEPT ![w] = "act"] /\ todo' = todo
        \/ pc' = pc /\ todo' = [todo EXCEPT ![w] = Tail(@)]
    BY <1>14 DEF Read, Goto
  <2>2. TypeOK'
    <3>1. acting' \in [Worker -> Byte] /\ todo' \in [Worker -> Seq(Slot \cup Field)]
      BY <1>14, <2>1 DEF IInv, TypeOK, Read
    <3>2. /\ pc' \in [Thread -> RequesterSteps \cup WorkerSteps]
          /\ pc'[Requester] = pc[Requester]
          /\ \A v \in Worker : pc'[v] \in WorkerSteps
      <4>1. CASE pc' = [pc EXCEPT ![w] = "act"]
        BY <4>1, ThreadFacts DEF IInv, TypeOK, WorkerSteps
      <4>2. CASE pc' = pc
        BY <4>2, ThreadFacts DEF IInv, TypeOK
      <4> QED
        BY <2>a, <4>1, <4>2
    <3> QED
      BY <1>14, <2>1, <3>1, <3>2 DEF IInv, TypeOK, Read
  <2>3. TodoOK'
    <3>1. CASE pc' = [pc EXCEPT ![w] = "act"] /\ todo' = todo
      BY <1>14, <3>1, ThreadFacts DEF IInv, TypeOK, TodoOK, Read
    <3>2. CASE pc' = pc /\ todo' = [todo EXCEPT ![w] = Tail(@)]
      <4>1. w # "dh_mon" /\ pc[w] = "scan" /\ todo \in [Worker -> Seq(Slot \cup Field)]
        BY <1>14 DEF IInv, TypeOK, Read
      <4> QED
        BY <2>1, <3>2, <4>1, ThreadFacts DEF IInv, TodoOK
    <3> QED
      BY <2>a, <3>1, <3>2
  <2> QED
    BY <2>2, <2>3 DEF IInv
<1>15. ASSUME NEW w \in Worker, Act(w) PROVE IInv'
  <2>1. /\ Head(todo[w]) \in Slot
        /\ Tail(todo[w]) \in Seq({s \in Slot : Owner(s) = w})
        /\ Tail(todo[w]) \in Seq(Slot \cup Field)
    BY <1>15, NextTodo DEF IInv, TodoOK, Act
  <2>2. TypeOK'
    <3>1. /\ slot' \in [Slot -> Byte] /\ device' \in [Slot -> Byte]
          /\ todo' \in [Worker -> Seq(Slot \cup Field)]
      BY <1>15, <2>1, SMTT(30) DEF IInv, TypeOK, Act, Byte
    <3>2. /\ pc' \in [Thread -> RequesterSteps \cup WorkerSteps]
          /\ pc'[Requester] = pc[Requester]
          /\ \A v \in Worker : pc'[v] \in WorkerSteps
      BY <1>15, ThreadFacts DEF IInv, TypeOK, Act, Goto, WorkerSteps
    <3> QED
      BY <1>15, <3>1, <3>2 DEF IInv, TypeOK, Act
  <2>3. TodoOK'
    BY <1>15, <2>1, ZenonT(30) DEF IInv, TypeOK, TodoOK, Act, Goto, Thread, Worker
  <2> QED
    BY <2>2, <2>3 DEF IInv
<1>16. CASE Judge
  <2>1. /\ Head(todo["dh_mon"]) \in Field
        /\ Tail(todo["dh_mon"]) \in Seq(Field)
        /\ Tail(todo["dh_mon"]) \in Seq(Slot \cup Field)
    BY <1>16 DEF IInv, TypeOK, TodoOK, Judge, Worker
  <2>2. judged' \in Seq(Limits \cup {Default})
    BY <1>16, <2>1 DEF IInv, TypeOK, Judge
  <2>3. TypeOK'
    BY <1>16, <2>1, <2>2, ZenonT(30) DEF IInv, TypeOK, Judge, Goto, Thread, Worker, RequesterSteps, WorkerSteps, Field
  <2>4. TodoOK'
    BY <1>16, <2>1 DEF IInv, TypeOK, TodoOK, Judge, Goto, Thread, Worker
  <2> QED
    BY <2>3, <2>4 DEF IInv
<1>17. CASE Alarm
  <2>1. TypeOK'
    BY <1>17, ThreadFacts DEF IInv, TypeOK, Alarm, Goto, RequesterSteps, WorkerSteps, Field
  <2>2. TodoOK'
    BY <1>17, ThreadFacts DEF IInv, TypeOK, TodoOK, Alarm, Goto
  <2> QED
    BY <2>1, <2>2 DEF IInv
<1>18. ASSUME NEW w \in Worker, Unlock(w) PROVE IInv'
  BY <1>18 DEF IInv, TypeOK, TodoOK, Unlock, Goto, Thread, Worker, RequesterSteps, WorkerSteps, Field
<1>19. CASE UNCHANGED vars
  BY <1>19 DEF IInv, TypeOK, TodoOK, vars
<1> QED
  BY <1>1, <1>2, <1>3, <1>4, <1>5, <1>6, <1>7, <1>8, <1>9, <1>10, <1>11, <1>12,
     <1>13, <1>14, <1>15, <1>16, <1>17, <1>18, <1>19
  DEF Next, ClientRequest, Round

(* No message is ever handled as another kind, no worker acts without a     *)
(* command, and the queue stays within its capacity, in every instance.     *)
THEOREM TypeCorrect == Spec => []TypeOK
<1>1. Spec => []IInv
  BY InitIInv, IInvStep, PTL DEF Spec
<1> QED
  BY <1>1, PTL DEF IInv

-----------------------------------------------------------------------------
(* Every step keeps lock ownership and program counters in agreement: the   *)
(* lock/unlock pairs of pthread_client_request.c:91-137 and of the workers, *)
(* cond_wait's release and re-acquisition, and exit, which ends all threads. *)
LEMMA MutexStep == IInv /\ MutexInv /\ [Next]_vars => MutexInv'
<1> SUFFICES ASSUME IInv, MutexInv, [Next]_vars PROVE MutexInv'
  OBVIOUS
<1> USE DEF IInv
<1>1. ASSUME NEW c \in Clients, Submit(c) \/ MsgSnd(c) PROVE MutexInv'
  BY <1>1 DEF MutexInv, Holding, Storing, Submit, MsgSnd
<1>2. CASE MsgRcv
  BY <1>2, ThreadFacts DEF TypeOK, MutexInv, Holding, Storing, MsgRcv, Goto
<1>3. CASE LockSlot
  BY <1>3, TargetType, ThreadFacts DEF TypeOK, MutexInv, Holding, Storing, LockSlot, Goto
<1>4. CASE StoreAndUnlock
  BY <1>4, TargetType, ThreadFacts DEF TypeOK, MutexInv, Holding, Storing, StoreAndUnlock, Goto
<1>5. CASE SetLimit
  BY <1>5, ThreadFacts DEF TypeOK, MutexInv, Holding, Storing, SetLimit, Goto, Field
<1>6. CASE Signal
  BY <1>6, TargetType, ThreadFacts DEF TypeOK, MutexInv, Holding, Storing, Signal
<1>7. ASSUME NEW w \in Worker, Open(w) PROVE MutexInv'
  BY <1>7, ThreadFacts DEF TypeOK, MutexInv, Holding, Storing, Open, Goto
<1>8. ASSUME NEW w \in Worker, Lock(w) PROVE MutexInv'
  BY <1>8, ThreadFacts DEF TypeOK, MutexInv, Holding, Storing, Lock, Goto
<1>9. ASSUME NEW w \in Worker, CondWait(w) PROVE MutexInv'
  BY <1>9, ThreadFacts DEF TypeOK, MutexInv, Holding, Storing, CondWait, Goto
<1>10. ASSUME NEW w \in Worker, SpuriousWake(w) PROVE MutexInv'
  BY <1>10, ThreadFacts DEF TypeOK, MutexInv, Holding, Storing, SpuriousWake, Goto
<1>11. CASE Tick
  BY <1>11, ThreadFacts DEF TypeOK, MutexInv, Holding, Storing, Tick, Goto
<1>12. ASSUME NEW w \in Worker, Reacquire(w) PROVE MutexInv'
  BY <1>12, ThreadFacts DEF TypeOK, MutexInv, Holding, Storing, Reacquire, Goto
<1>13. ASSUME NEW w \in Worker, Read(w) PROVE MutexInv'
  <2>1. pc' = [pc EXCEPT ![w] = "act"] \/ pc' = pc
    BY <1>13 DEF Read, Goto
  <2> QED
    BY <1>13, <2>1, ThreadFacts DEF TypeOK, MutexInv, Holding, Storing, Read
<1>14. ASSUME NEW w \in Worker, Act(w) PROVE MutexInv'
  BY <1>14, ThreadFacts DEF TypeOK, MutexInv, Holding, Storing, Act, Goto
<1>15. CASE Judge
  <2>1. pc' = [pc EXCEPT !["dh_mon"] = "act"] \/ pc' = pc
    BY <1>15 DEF Judge, Goto
  <2> QED
    BY <1>15, <2>1, ThreadFacts DEF TypeOK, MutexInv, Holding, Storing, Judge
<1>16. CASE Alarm
  BY <1>16, ThreadFacts DEF TypeOK, MutexInv, Holding, Storing, Alarm, Goto
<1>17. ASSUME NEW w \in Worker, Unlock(w) PROVE MutexInv'
  BY <1>17, ThreadFacts DEF TypeOK, MutexInv, Holding, Storing, Unlock, Goto
<1>18. CASE UNCHANGED vars
  BY <1>18 DEF MutexInv, Holding, Storing, vars
<1> QED
  BY <1>1, <1>2, <1>3, <1>4, <1>5, <1>6, <1>7, <1>8, <1>9, <1>10, <1>11, <1>12,
     <1>13, <1>14, <1>15, <1>16, <1>17, <1>18
  DEF Next, ClientRequest, Round

(* A worker's mutex is held by exactly the thread between its lock and its  *)
(* unlock, however many CGIs, requests and failing devices there are.       *)
THEOREM MutexCorrect == Spec => []MutexInv
<1>1. Init => MutexInv
  BY ThreadFacts DEF Init, MutexInv, Holding, Storing
<1>2. Spec => []IInv
  BY InitIInv, IInvStep, PTL DEF Spec
<1> QED
  BY <1>1, <1>2, MutexStep, PTL DEF Spec

(* A worker's round and a store into its globals never overlap.             *)
MutualExclusion == \A w \in Worker : ~(Holding(w) /\ Storing(w))

(* One mutex has one owner: exclusion follows from MutexInv.                *)
LEMMA Exclusion == MutexInv => MutualExclusion
BY ThreadFacts DEF MutexInv, MutualExclusion

-----------------------------------------------------------------------------
(* While a worker executes a command (seconds, in pthread_fan.c) nobody     *)
(* else writes its global: stores are excluded by the mutex, and other      *)
(* workers reset other globals.                                             *)
LEMMA CurrentByteStep ==
  IInv /\ MutexInv /\ CurrentByte /\ [Next]_vars => CurrentByte'
<1> SUFFICES ASSUME IInv, MutexInv, CurrentByte, [Next]_vars PROVE CurrentByte'
  OBVIOUS
<1> USE DEF IInv
<1>1. ASSUME NEW c \in Clients, Submit(c) \/ MsgSnd(c) PROVE CurrentByte'
  BY <1>1 DEF CurrentByte, Submit, MsgSnd
<1>2. CASE MsgRcv
  BY <1>2, ThreadFacts DEF TypeOK, CurrentByte, MsgRcv, Goto
<1>3. CASE LockSlot
  BY <1>3, ThreadFacts DEF TypeOK, CurrentByte, LockSlot, Goto
<1>4. CASE StoreAndUnlock
  <2>1. /\ SlotFor(msgbuf) \in Slot /\ Owner(SlotFor(msgbuf)) = Target(msgbuf)
        /\ Target(msgbuf) \in Worker /\ pc[Target(msgbuf)] # "act"
    BY <1>4, TargetType, Exclusion DEF TypeOK, StoreAndUnlock, MutualExclusion, Holding, Storing
  <2>2. ASSUME NEW v \in Worker \ {"dh_mon"}, pc[v] = "act"
        PROVE  slot'[Head(todo[v])] = slot[Head(todo[v])]
    BY <1>4, <2>1, <2>2, NextTodo DEF TypeOK, TodoOK, StoreAndUnlock
  <2> QED
    BY <1>4, <2>2, ThreadFacts DEF TypeOK, CurrentByte, StoreAndUnlock, Goto
<1>5. CASE SetLimit
  BY <1>5, ThreadFacts DEF TypeOK, CurrentByte, SetLimit, Goto
<1>6. CASE Signal
  BY <1>6, TargetType, ThreadFacts DEF TypeOK, CurrentByte, Signal
<1>7. ASSUME NEW w \in Worker, Open(w) PROVE CurrentByte'
  BY <1>7, ThreadFacts DEF TypeOK, CurrentByte, Open, Goto
<1>8. ASSUME NEW w \in Worker, Lock(w) \/ CondWait(w) \/ SpuriousWake(w) PROVE CurrentByte'
  BY <1>8, ThreadFacts DEF TypeOK, CurrentByte, Lock, CondWait, SpuriousWake, Goto
<1>9. CASE Tick
  BY <1>9, ThreadFacts DEF TypeOK, CurrentByte, Tick, Goto
<1>10. ASSUME NEW w \in Worker, Reacquire(w) PROVE CurrentByte'
  BY <1>10, ThreadFacts DEF TypeOK, CurrentByte, Reacquire, Goto
<1>11. ASSUME NEW w \in Worker, Read(w) PROVE CurrentByte'
  <2>1. \/ /\ pc' = [pc EXCEPT ![w] = "act"] /\ todo' = todo
           /\ acting' = [acting EXCEPT ![w] = slot[Head(todo[w])]]
           /\ slot[Head(todo[w])] \in Commands(Head(todo[w]))
        \/ /\ pc' = pc /\ acting' = acting
           /\ todo' = [todo EXCEPT ![w] = Tail(@)] /\ pc[w] = "scan"
    BY <1>11 DEF Read, Goto
  <2>2. slot' = slot
    BY <1>11 DEF Read
  <2>3. CASE pc' = [pc EXCEPT ![w] = "act"]
    <3>1. /\ acting' = [acting EXCEPT ![w] = slot[Head(todo[w])]] /\ todo' = todo
          /\ slot[Head(todo[w])] \in Commands(Head(todo[w]))
      BY <2>1, <2>3, ThreadFacts DEF TypeOK
    <3> QED
      BY <2>2, <2>3, <3>1, ThreadFacts DEF TypeOK, CurrentByte
  <2>4. CASE pc' = pc /\ acting' = acting /\ pc[w] = "scan"
              /\ todo' = [todo EXCEPT ![w] = Tail(@)]
    BY <2>2, <2>4, ThreadFacts DEF TypeOK, CurrentByte
  <2> QED
    BY <2>1, <2>3, <2>4
<1>12. ASSUME NEW w \in Worker, Act(w) PROVE CurrentByte'
  <2>1. ASSUME NEW v \in Worker \ {"dh_mon"}, v # w, pc[v] = "act"
        PROVE  slot'[Head(todo[v])] = slot[Head(todo[v])]
    <3>1. Head(todo[v]) # Head(todo[w]) /\ Head(todo[v]) \in Slot
      BY <1>12, <2>1, NextTodo DEF TodoOK, Act
    <3> QED
      BY <1>12, <3>1 DEF TypeOK, Act
  <2> QED
    BY <1>12, <2>1, ThreadFacts DEF TypeOK, CurrentByte, Act, Goto
<1>13. CASE Judge \/ Alarm
  <2>1. /\ \A v \in Worker \ {"dh_mon"} : pc'[v] = pc[v] /\ todo'[v] = todo[v]
        /\ slot' = slot /\ acting' = acting
    BY <1>13, ThreadFacts DEF TypeOK, Judge, Alarm, Goto
  <2> QED
    BY <2>1 DEF CurrentByte
<1>14. ASSUME NEW w \in Worker, Unlock(w) PROVE CurrentByte'
  BY <1>14, ThreadFacts DEF TypeOK, CurrentByte, Unlock, Goto
<1>15. CASE UNCHANGED vars
  BY <1>15 DEF CurrentByte, vars
<1> QED
  BY <1>1, <1>2, <1>3, <1>4, <1>5, <1>6, <1>7, <1>8, <1>9, <1>10, <1>11, <1>12,
     <1>13, <1>14, <1>15
  DEF Next, ClientRequest, Round

(* The one-shot reset at the end of an if (pthread_led.c:44, :48, :56) only *)
(* ever erases the command that was just executed, never a newer one.       *)
THEOREM CurrentByteCorrect == Spec => []CurrentByte
<1>1. Init => CurrentByte
  BY ThreadFacts DEF Init, CurrentByte
<1>2. Spec => []IInv
  BY InitIInv, IInvStep, PTL DEF Spec
<1> QED
  BY <1>1, <1>2, MutexCorrect, CurrentByteStep, PTL DEF Spec

-----------------------------------------------------------------------------
(* In the middle of a round, every command not yet looked at is still ahead: *)
(* its global is in todo, and not the one being acted upon.                 *)
RoundInv ==
  \A w \in Worker : pc[w] \in {"scan", "act"} =>
    \A s \in unserved : Owner(s) = w =>
      \E i \in 1..Len(todo[w]) : todo[w][i] = s /\ (pc[w] = "act" => i # 1)

(* Dropping the head keeps every later element.                             *)
LEMMA TailKeeps ==
  ASSUME NEW S, NEW q \in Seq(S), NEW i \in 1..Len(q), i # 1
  PROVE  i - 1 \in 1..Len(Tail(q)) /\ Tail(q)[i - 1] = q[i]
OBVIOUS

(* A round starts with every global its worker owns (pthread_led.c:41-59).  *)
LEMMA ScanLooksAtAll ==
  ASSUME NEW s \in Slot
  PROVE  \E i \in 1..Len(Scan(Owner(s))) : Scan(Owner(s))[i] = s
<1>1. CASE s = "led_cmd"
  <2>1. Scan(Owner(s)) = <<"led_cmd", "seg_cmd">>
    BY <1>1 DEF Scan, Owner
  <2> QED
    BY <1>1, <2>1
<1>2. CASE s = "seg_cmd"
  <2>1. Scan(Owner(s)) = <<"led_cmd", "seg_cmd">>
    BY <1>2 DEF Scan, Owner
  <2> QED
    BY <1>2, <2>1
<1>3. CASE s = "buzzer_cmd"
  BY <1>3 DEF Scan, Owner
<1>4. CASE s = "fan_cmd"
  BY <1>4 DEF Scan, Owner
<1> QED
  BY <1>1, <1>2, <1>3, <1>4 DEF Slot

(* Every step keeps commands ahead of the round: a store cannot happen      *)
(* during a round, and a look removes what it looks at from both.           *)
LEMMA RoundStep == IInv /\ MutexInv /\ RoundInv /\ [Next]_vars => RoundInv'
<1> SUFFICES ASSUME IInv, MutexInv, RoundInv, [Next]_vars PROVE RoundInv'
  OBVIOUS
<1> USE DEF IInv
<1>1. ASSUME NEW c \in Clients, Submit(c) \/ MsgSnd(c) PROVE RoundInv'
  BY <1>1 DEF RoundInv, Submit, MsgSnd
<1>2. CASE MsgRcv \/ LockSlot \/ SetLimit
  <2>1. /\ \A v \in Worker : pc'[v] = pc[v]
        /\ todo' = todo /\ unserved' = unserved
    BY <1>2, ThreadFacts DEF TypeOK, MsgRcv, LockSlot, SetLimit, Goto
  <2> QED
    BY <2>1 DEF RoundInv
<1>3. CASE StoreAndUnlock
  <2>1. /\ \A v \in Worker : pc'[v] = pc[v]
        /\ todo' = todo /\ unserved' \subseteq unserved \cup {SlotFor(msgbuf)}
    BY <1>3, ThreadFacts DEF TypeOK, StoreAndUnlock, Goto
  <2>2. \A v \in Worker : Owner(SlotFor(msgbuf)) = v => pc[v] \notin {"scan", "act"}
    BY <1>3, TargetType, Exclusion DEF TypeOK, StoreAndUnlock, MutualExclusion, Holding, Storing
  <2> QED
    BY <2>1, <2>2 DEF RoundInv
<1>4. CASE Signal
  <2>1. /\ \A v \in Worker : pc'[v] \in {pc[v], "woken"}
        /\ todo' = todo /\ unserved' = unserved
    BY <1>4, TargetType, ThreadFacts DEF TypeOK, Signal
  <2> QED
    BY <2>1 DEF RoundInv
<1>5. ASSUME NEW w \in Worker,
             Open(w) \/ Lock(w) \/ CondWait(w) \/ SpuriousWake(w) \/ Unlock(w)
      PROVE RoundInv'
  <2>1. /\ \A v \in Worker : pc'[v] \in {pc[v], "lock", "gone", "wait", "asleep", "woken"}
        /\ todo' = todo /\ unserved' = unserved
    BY <1>5, ThreadFacts DEF TypeOK, Open, Lock, CondWait, SpuriousWake, Unlock, Goto
  <2> QED
    BY <2>1 DEF RoundInv
<1>6. CASE Tick
  <2>1. /\ \A v \in Worker : pc'[v] \in {pc[v], "woken"}
        /\ todo' = todo /\ unserved' = unserved
    BY <1>6, ThreadFacts DEF TypeOK, Tick, Goto
  <2> QED
    BY <2>1 DEF RoundInv
<1>7. ASSUME NEW w \in Worker, Reacquire(w) PROVE RoundInv'
  <2>1. /\ \A v \in Worker \ {w} : pc'[v] = pc[v] /\ todo'[v] = todo[v]
        /\ unserved' = unserved /\ todo'[w] = Scan(w) /\ pc'[w] = "scan"
    BY <1>7, ThreadFacts DEF TypeOK, Reacquire, Goto
  <2>2. unserved \subseteq Slot
    BY DEF TypeOK
  <2> QED
    BY <2>1, <2>2, ScanLooksAtAll DEF RoundInv
<1>8. ASSUME NEW w \in Worker, Read(w) PROVE RoundInv'
  <2>1. /\ \A v \in Worker \ {w} : pc'[v] = pc[v] /\ todo'[v] = todo[v]
        /\ unserved' = unserved \ {Head(todo[w])}
        /\ \/ pc'[w] = "act" /\ todo'[w] = todo[w]
           \/ pc'[w] = "scan" /\ todo'[w] = Tail(todo[w])
        /\ pc[w] = "scan" /\ todo[w] # << >> /\ todo[w] \in Seq(Slot \cup Field)
    BY <1>8, ThreadFacts DEF TypeOK, Read, Goto
  <2>2. Head(todo[w]) = todo[w][1]
    BY <2>1
  <2>3. ASSUME NEW s \in unserved', Owner(s) = w
        PROVE  \E i \in 1..Len(todo'[w]) : todo'[w][i] = s /\ (pc'[w] = "act" => i # 1)
    <3>1. PICK i \in 1..Len(todo[w]) : todo[w][i] = s
      BY <2>1, <2>3 DEF RoundInv
    <3>2. i # 1
      BY <2>1, <2>2, <2>3, <3>1
    <3>3. CASE pc'[w] = "act" /\ todo'[w] = todo[w]
      BY <3>1, <3>2, <3>3
    <3>4. CASE pc'[w] = "scan" /\ todo'[w] = Tail(todo[w])
      <4>1. i - 1 \in 1..Len(todo'[w]) /\ todo'[w][i - 1] = s
        BY <2>1, <3>1, <3>2, <3>4, TailKeeps
      <4> QED
        BY <3>4, <4>1
    <3> QED
      BY <2>1, <3>3, <3>4
  <2> QED
    BY <2>1, <2>3 DEF RoundInv
<1>9. ASSUME NEW w \in Worker, Act(w) PROVE RoundInv'
  <2>1. /\ \A v \in Worker \ {w} : pc'[v] = pc[v] /\ todo'[v] = todo[v]
        /\ unserved' = unserved
        /\ pc'[w] = "scan" /\ todo'[w] = Tail(todo[w])
        /\ pc[w] = "act" /\ todo[w] \in Seq(Slot \cup Field)
    BY <1>9, ThreadFacts DEF TypeOK, Act, Goto
  <2>2. ASSUME NEW s \in unserved, Owner(s) = w
        PROVE  \E i \in 1..Len(todo'[w]) : todo'[w][i] = s
    <3>1. PICK i \in 1..Len(todo[w]) : todo[w][i] = s /\ i # 1
      BY <2>1, <2>2 DEF RoundInv
    <3> QED
      BY <2>1, <3>1, TailKeeps
  <2>3. \A s \in unserved' : Owner(s) = w =>
          \E i \in 1..Len(todo'[w]) : todo'[w][i] = s /\ (pc'[w] = "act" => i # 1)
    BY <2>1, <2>2
  <2>4. ASSUME NEW v \in Worker \ {w}, pc'[v] \in {"scan", "act"},
               NEW s \in unserved', Owner(s) = v
        PROVE  \E i \in 1..Len(todo'[v]) : todo'[v][i] = s /\ (pc'[v] = "act" => i # 1)
    <3>1. pc[v] \in {"scan", "act"} /\ s \in unserved
      BY <2>1, <2>4
    <3>2. \E i \in 1..Len(todo[v]) : todo[v][i] = s /\ (pc[v] = "act" => i # 1)
      BY <3>1, <2>4 DEF RoundInv
    <3> QED
      BY <2>1, <3>2
  <2> QED
    BY <2>3, <2>4 DEF RoundInv
<1>10. CASE Judge \/ Alarm
  <2>1. /\ \A v \in Worker \ {"dh_mon"} : pc'[v] = pc[v] /\ todo'[v] = todo[v]
        /\ unserved' = unserved /\ unserved \subseteq Slot
    BY <1>10, ThreadFacts DEF TypeOK, Judge, Alarm, Goto
  <2> QED
    BY <2>1, OwnerType DEF RoundInv
<1>11. CASE UNCHANGED vars
  BY <1>11 DEF RoundInv, vars
<1> QED
  BY <1>1, <1>2, <1>3, <1>4, <1>5, <1>6, <1>7, <1>8, <1>9, <1>10, <1>11
  DEF Next, ClientRequest, Round

(* When the led worker is done with a round no stored command is left       *)
(* unseen, although two globals share one condition and two stores may be   *)
(* coalesced into one wake-up; likewise for the other workers.              *)
THEOREM RoundCorrect == Spec => []RoundMissesNothing
<1>1. Init => RoundInv
  BY ThreadFacts DEF Init, RoundInv
<1>2. Spec => []IInv
  BY InitIInv, IInvStep, PTL DEF Spec
<1>3. RoundInv => RoundMissesNothing
  BY DEF RoundInv, RoundMissesNothing
<1> QED
  BY <1>1, <1>2, <1>3, MutexCorrect, RoundStep, PTL DEF Spec

-----------------------------------------------------------------------------
(* client_request ends only when the whole process does (exit in a worker). *)
GoneInv == pc[Requester] = "gone" => \A w \in Worker : pc[w] = "gone"

(* Every step keeps that so: only exit ends client_request.                 *)
LEMMA GoneStep == IInv /\ GoneInv /\ [Next]_vars => GoneInv'
<1> SUFFICES ASSUME IInv, GoneInv, [Next]_vars PROVE GoneInv'
  OBVIOUS
<1> USE DEF IInv
<1>1. CASE pc' = pc
  BY <1>1 DEF GoneInv
<1>2. CASE LockSlot \/ StoreAndUnlock \/ SetLimit \/ Signal \/ MsgRcv
  <2>1. pc[Requester] # "gone" /\ pc'[Requester] # "gone"
    BY <1>2, TargetType, ThreadFacts
    DEF TypeOK, LockSlot, StoreAndUnlock, SetLimit, Signal, MsgRcv, Goto, Field
  <2> QED
    BY <2>1 DEF GoneInv
<1>3. ASSUME NEW w \in Worker, Open(w) PROVE GoneInv'
  <2>1. \/ pc'[Requester] = pc[Requester]
        \/ pc' = [t \in Thread |-> "gone"]
    BY <1>3, ThreadFacts DEF TypeOK, Open, Goto
  <2>2. pc[Requester] # "gone"
    BY <1>3 DEF GoneInv, Open
  <2> QED
    BY <2>1, <2>2, ThreadFacts DEF GoneInv
<1>4. ASSUME NEW w \in Worker,
             Lock(w) \/ CondWait(w) \/ SpuriousWake(w) \/ Reacquire(w) \/ Read(w) \/ Act(w) \/ Unlock(w)
      PROVE GoneInv'
  <2>1. pc'[Requester] = pc[Requester] /\ pc[w] # "gone"
    BY <1>4, ThreadFacts
    DEF TypeOK, Lock, CondWait, SpuriousWake, Reacquire, Read, Act, Unlock, Goto
  <2> QED
    BY <2>1 DEF GoneInv
<1>5. CASE Tick \/ Judge \/ Alarm
  <2>1. pc'[Requester] = pc[Requester] /\ pc["dh_mon"] # "gone"
    BY <1>5, ThreadFacts DEF TypeOK, Tick, Judge, Alarm, Goto
  <2> QED
    BY <2>1, ThreadFacts DEF GoneInv
<1> QED
  BY <1>1, <1>2, <1>3, <1>4, <1>5
  DEF Next, ClientRequest, Round, Submit, MsgSnd, vars

(* The initial state maps to an initial state of the abstract registers.    *)
LEMMA MailboxInit == Init => Mailbox!Init
BY ThreadFacts DEF Init, Mailbox!Init

(* Every step of the threads is, for the abstract registers, the step it    *)
(* stands for (accepting, storing, discarding, serving, crashing) or none.  *)
LEMMA MailboxStep ==
  IInv /\ MutexInv /\ CurrentByte /\ GoneInv /\ [Next]_vars => [Mailbox!Next]_Mailbox!vars
<1> SUFFICES ASSUME IInv, MutexInv, CurrentByte, GoneInv, [Next]_vars
             PROVE  [Mailbox!Next]_Mailbox!vars
  OBVIOUS
<1> USE DEF IInv
<1>1. ASSUME NEW c \in Clients, Submit(c) PROVE UNCHANGED Mailbox!vars
  BY <1>1 DEF Submit, Mailbox!vars
<1>2. ASSUME NEW c \in Clients, MsgSnd(c) PROVE \E r \in Requests : Mailbox!Accept(r)
  <2>1. client[c] \in Requests
    BY <1>2 DEF TypeOK, MsgSnd
  <2>2. Mailbox!Accept(client[c])
    BY <1>2, <2>1, ConstantsAssumption DEF TypeOK, MsgSnd, ConstantsAssumption, Mailbox!Accept
  <2> QED
    BY <2>1, <2>2
<1>3. CASE MsgRcv
  BY <1>3, ThreadFacts DEF TypeOK, MsgRcv, Goto, Mailbox!Discard, Mailbox!Next, Mailbox!vars, Field
<1>4. CASE LockSlot
  BY <1>4, ThreadFacts DEF TypeOK, LockSlot, Goto, Mailbox!vars
<1>5. CASE StoreAndUnlock
  BY <1>5, ThreadFacts DEF TypeOK, StoreAndUnlock, Goto, Mailbox!Put, Mailbox!Next
<1>6. CASE SetLimit
  BY <1>6, ThreadFacts DEF TypeOK, SetLimit, Goto, Mailbox!vars, Field
<1>7. CASE Signal
  BY <1>7, TargetType, ThreadFacts DEF TypeOK, Signal, Mailbox!vars
<1>8. ASSUME NEW w \in Worker, Open(w) PROVE [Mailbox!Next]_Mailbox!vars
  <2>1. pc[Requester] # "gone"
    BY <1>8 DEF GoneInv, Open
  <2>2. CASE pc' = [t \in Thread |-> "gone"]
    BY <1>8, <2>1, <2>2, ThreadFacts
    DEF TypeOK, Open, Mailbox!Crash, Mailbox!Next
  <2>3. CASE pc' = [pc EXCEPT ![w] = "lock"] \/ pc' = [pc EXCEPT ![w] = "gone"]
    <3>1. pc'[Requester] = pc[Requester]
      BY <2>3, ThreadFacts DEF TypeOK
    <3> QED
      BY <1>8, <3>1 DEF Open, Mailbox!vars
  <2> QED
    BY <1>8, <2>2, <2>3 DEF Open, Goto
<1>9. ASSUME NEW w \in Worker,
             Lock(w) \/ CondWait(w) \/ SpuriousWake(w) \/ Reacquire(w) \/ Read(w) \/ Unlock(w)
      PROVE UNCHANGED Mailbox!vars
  <2>1. /\ pc'[Requester] = pc[Requester] /\ queue' = queue /\ msgbuf' = msgbuf
        /\ slot' = slot /\ device' = device
    BY <1>9, ThreadFacts
    DEF TypeOK, Lock, CondWait, SpuriousWake, Reacquire, Read, Unlock, Goto
  <2> QED
    BY <2>1 DEF Mailbox!vars
<1>10. CASE Tick \/ Judge \/ Alarm
  <2>1. /\ pc'[Requester] = pc[Requester] /\ queue' = queue /\ msgbuf' = msgbuf
        /\ slot' = slot /\ device' = device
    BY <1>10, ThreadFacts DEF TypeOK, Tick, Judge, Alarm, Goto
  <2> QED
    BY <2>1 DEF Mailbox!vars
<1>11. ASSUME NEW w \in Worker, Act(w) PROVE \E s \in Slot : Mailbox!Serve(s)
  <2> DEFINE s == Head(todo[w])
  <2>1. s \in Slot /\ slot[s] = acting[w] /\ acting[w] \in Commands(s)
    BY <1>11, NextTodo DEF TodoOK, CurrentByte, Act
  <2>2. /\ pc[Requester] # "gone" /\ pc'[Requester] = pc[Requester]
    BY <1>11, ThreadFacts DEF TypeOK, Act, Goto, GoneInv
  <2>3. Mailbox!Serve(s)
    BY <1>11, <2>1, <2>2 DEF Act, Mailbox!Serve
  <2> QED
    BY <2>1, <2>3
<1>12. CASE UNCHANGED vars
  BY <1>12 DEF vars, Mailbox!vars
<1> QED
  BY <1>1, <1>2, <1>3, <1>4, <1>5, <1>6, <1>7, <1>8, <1>9, <1>10, <1>11, <1>12
  DEF Next, ClientRequest, Round, Mailbox!Next

(* The command path implements CommandMailbox: requests accepted in order,  *)
(* each put into its register or discarded in that order, each command      *)
(* performed and reset atomically, nothing after the process has exited.    *)
THEOREM MailboxCorrect == Spec => MailboxSpec
<1>1. Init => GoneInv
  BY ThreadFacts DEF Init, GoneInv
<1>2. Spec => [](IInv /\ GoneInv)
  BY <1>1, InitIInv, IInvStep, GoneStep, PTL DEF Spec
<1> QED
  BY <1>2, MailboxInit, MailboxStep, MutexCorrect, CurrentByteCorrect, PTL
  DEF Spec, MailboxSpec, Mailbox!Spec
=============================================================================
