--------------------------- MODULE CommandDispatch ---------------------------
(***************************************************************************)
(* The command path of monitor_obj: CGI programs put requests on a System  *)
(* V message queue, the thread client_request takes them off one at a time *)
(* and leaves each in a global of the thread that drives the device, which *)
(* it then wakes through a condition variable.                             *)
(*                                                                         *)
(* Each worker loops over  lock; cond_wait; look at its globals; unlock    *)
(* and waits without a predicate: a signal sent while it is not waiting is *)
(* lost.  The led worker owns two globals, led_cmd and seg_cmd; dh_mon     *)
(* owns no command byte but reads the four thresholds, which               *)
(* client_request writes one after the other without any lock.             *)
(***************************************************************************)
EXTENDS CgiForms, FiniteSets, Sequences

CONSTANTS
  Clients,        \* CGI processes that may run at the same time
  Requests,       \* the messages they may send
  Default,        \* the thresholds compiled into the program
  QueueCap,       \* messages the kernel lets the queue hold
  Started,        \* workers main could create a thread for
  Broken,         \* workers whose device file cannot be opened
  Spurious        \* workers whose cond_wait may return without a signal

Requester == "client_request"
Worker == {"led", "buzzer", "fan", "dh_mon"}
Thread == Worker \cup {Requester}

Slot == {"led_cmd", "seg_cmd", "buzzer_cmd", "fan_cmd"}
Field == {"temMAX", "temMIN", "humMIN", "humMAX"}

ASSUME ConstantsAssumption ==
  /\ Requests \subseteq Message
  /\ Default \notin Limits
  /\ QueueCap \in Nat \ {0}
  /\ Started \subseteq Worker
  /\ Broken \subseteq Worker
  /\ Spurious \subseteq Worker

-----------------------------------------------------------------------------
(* The tables the source spells out in its switch and if statements.       *)

(* The global that the switch of client_request stores a message in.       *)
HasSlot(m) == m.msgtype \in 1..4
SlotFor(m) == CASE m.msgtype = 1 -> "led_cmd"
                [] m.msgtype = 2 -> "buzzer_cmd"
                [] m.msgtype = 3 -> "seg_cmd"
                [] OTHER         -> "fan_cmd"

(* The thread whose mutex protects a global and whose condition is         *)
(* signalled after it was written.                                         *)
Owner(s) == CASE s = "buzzer_cmd" -> "buzzer"
              [] s = "fan_cmd"    -> "fan"
              [] OTHER            -> "led"
Target(m) == IF m.msgtype = 5 THEN "dh_mon" ELSE Owner(SlotFor(m))

(* Mutant: the led worker looks at one of its two globals.                 *)
Scan_LedOnly(w) == CASE w = "led"    -> <<"led_cmd">>
                     [] w = "buzzer" -> <<"buzzer_cmd">>
                     [] w = "fan"    -> <<"fan_cmd">>
                     [] OTHER        -> <<"temMIN", "temMAX", "humMAX", "humMIN">>

(* The globals a worker looks at when it wakes, in program order.          *)
Scan(w) == CASE w = "led"    -> <<"led_cmd", "seg_cmd">>
             [] w = "buzzer" -> <<"buzzer_cmd">>
             [] w = "fan"    -> <<"fan_cmd">>
             [] OTHER        -> <<"temMIN", "temMAX", "humMAX", "humMIN">>

(* The bytes a worker acts on, and those it resets to 0 afterwards.        *)
Commands(s) == CASE s = "led_cmd"    -> {64, 65}
                 [] s = "seg_cmd"    -> {64} \cup 112..127
                 [] s = "buzzer_cmd" -> {80, 81}
                 [] OTHER            -> {32, 33}
Clears(s) == CASE s = "led_cmd" -> {64, 65}
               [] s = "seg_cmd" -> {64}
               [] OTHER         -> {}

(* No message: what bzero leaves in msgbuf, and a CGI that is not running. *)
Idle == [msgtype |-> 0, text |-> 0]

-----------------------------------------------------------------------------
VARIABLES
  client,     \* [Clients -> message]: what a CGI is blocked in msgsnd with
  queue,      \* the message queue
  msgbuf,     \* the message client_request is working on
  pc,         \* [Thread -> the step it is at]
  todo,       \* [Worker -> globals still to look at in this round]
  acting,     \* [Worker -> the command byte it is executing]
  mutex,      \* [Worker -> the thread holding the worker's mutex]
  slot,       \* [Slot -> Byte]: led_cmd, seg_cmd, buzzer_cmd, fan_cmd
  limits,     \* [Field -> the form its value came from]
  judged,     \* the limits dh_mon compared with in this round, in order
  device,     \* [Slot -> the command performed last], 0 at first
  unserved    \* slots holding a command their worker has not looked at

vars == <<client, queue, msgbuf, pc, todo, acting, mutex, slot, limits,
          judged, device, unserved>>

RequesterSteps == {"msgrcv", "lock", "store", "signal", "gone"} \cup Field
WorkerSteps == {"open", "lock", "wait", "asleep", "woken", "scan", "act", "gone"}

(* main creates the threads without looking at what pthread_create returns: *)
(* one that could not be created is simply missing.                         *)
Init ==
  /\ client = [c \in Clients |-> Idle]
  /\ queue = << >>
  /\ msgbuf = Idle
  /\ pc = [t \in Thread |-> CASE t = Requester -> "msgrcv"
                               [] t \in Started  -> "open"
                               [] OTHER          -> "gone"]
  /\ todo = [w \in Worker |-> << >>]
  /\ acting = [w \in Worker |-> 0]
  /\ mutex = [w \in Worker |-> "free"]
  /\ slot = [s \in Slot |-> 0]
  /\ limits = [f \in Field |-> Default]
  /\ judged = << >>
  /\ device = [s \in Slot |-> 0]
  /\ unserved = {}

Goto(t, step) == pc' = [pc EXCEPT ![t] = step]

-----------------------------------------------------------------------------
(* CGI programs.                                                           *)

(* A form is submitted: boa starts a CGI, which composes its message.      *)
Submit(c) ==
  /\ client[c] = Idle
  /\ \E r \in Requests : client' = [client EXCEPT ![c] = r]
  /\ UNCHANGED <<queue, msgbuf, pc, todo, acting, mutex, slot, limits, judged,
                 device, unserved>>

(* Mutant: does not wait for room.                                         *)
MsgSnd_Overfull(c) ==
  /\ client[c] # Idle
  /\ queue' = Append(queue, client[c])
  /\ client' = [client EXCEPT ![c] = Idle]
  /\ UNCHANGED <<msgbuf, pc, todo, acting, mutex, slot, limits, judged, device,
                 unserved>>

(* msgsnd with no flags blocks while the queue is full.                    *)
MsgSnd(c) ==
  /\ client[c] # Idle
  /\ Len(queue) < QueueCap
  /\ queue' = Append(queue, client[c])
  /\ client' = [client EXCEPT ![c] = Idle]
  /\ UNCHANGED <<msgbuf, pc, todo, acting, mutex, slot, limits, judged, device,
                 unserved>>

-----------------------------------------------------------------------------
(* The thread client_request.                                              *)

(* msgrcv blocks on an empty queue; the switch ignores the other types.    *)
MsgRcv ==
  /\ pc[Requester] = "msgrcv"
  /\ queue # << >>
  /\ queue' = Tail(queue)
  /\ LET m == Head(queue) IN
       \/ /\ HasSlot(m)
          /\ Goto(Requester, "lock")
          /\ msgbuf' = m
       \/ /\ m.msgtype = 5
          /\ Goto(Requester, "temMAX")
          /\ msgbuf' = m
       \/ /\ ~HasSlot(m) /\ m.msgtype # 5
          /\ UNCHANGED <<pc, msgbuf>>
  /\ UNCHANGED <<client, todo, acting, mutex, slot, limits, judged, device,
                 unserved>>

(* Mutant: stores without taking the mutex.                                *)
LockSlot_NoLock ==
  /\ pc[Requester] = "lock"
  /\ Goto(Requester, "store")
  /\ UNCHANGED <<client, queue, msgbuf, todo, acting, mutex, slot, limits,
                 judged, device, unserved>>

LockSlot ==
  /\ pc[Requester] = "lock"
  /\ mutex[Target(msgbuf)] = "free"
  /\ mutex' = [mutex EXCEPT ![Target(msgbuf)] = Requester]
  /\ Goto(Requester, "store")
  /\ UNCHANGED <<client, queue, msgbuf, todo, acting, slot, limits, judged,
                 device, unserved>>

(* Mutant: forgets to unlock.                                              *)
StoreAndUnlock_NoUnlock ==
  /\ pc[Requester] = "store"
  /\ slot' = [slot EXCEPT ![SlotFor(msgbuf)] = msgbuf.text]
  /\ unserved' = unserved \cup {SlotFor(msgbuf)}
  /\ Goto(Requester, "signal")
  /\ UNCHANGED <<client, queue, msgbuf, todo, acting, mutex, limits, judged,
                 device>>

(* Mutant: case 4 was copied from case 2.                                  *)
StoreAndUnlock_Copied ==
  /\ pc[Requester] = "store"
  /\ slot' = [slot EXCEPT !["buzzer_cmd"] = msgbuf.text]
  /\ mutex' = [mutex EXCEPT ![Target(msgbuf)] = "free"]
  /\ Goto(Requester, "signal")
  /\ UNCHANGED <<client, queue, msgbuf, todo, acting, limits, judged, device,
                 unserved>>

StoreAndUnlock ==
  /\ pc[Requester] = "store"
  /\ LET s == SlotFor(msgbuf) IN
       /\ slot' = [slot EXCEPT ![s] = msgbuf.text]
       /\ unserved' = IF msgbuf.text \in Commands(s) THEN unserved \cup {s}
                                                     ELSE unserved \ {s}
  /\ mutex' = [mutex EXCEPT ![Target(msgbuf)] = "free"]
  /\ Goto(Requester, "signal")
  /\ UNCHANGED <<client, queue, msgbuf, todo, acting, limits, judged, device>>

(* Mutant: one of the four assignments is missing.                         *)
SetLimit_NoHumMIN ==
  /\ pc[Requester] \in Field
  /\ limits' = [limits EXCEPT ![pc[Requester]] = msgbuf.text]
  /\ Goto(Requester, CASE pc[Requester] = "temMAX" -> "temMIN"
                       [] pc[Requester] = "temMIN" -> "humMAX"
                       [] OTHER                    -> "signal")
  /\ UNCHANGED <<client, queue, msgbuf, todo, acting, mutex, slot, judged,
                 device, unserved>>

(* The four assignments of case 5: no mutex is held.                       *)
SetLimit ==
  /\ pc[Requester] \in Field
  /\ limits' = [limits EXCEPT ![pc[Requester]] = msgbuf.text]
  /\ Goto(Requester, CASE pc[Requester] = "temMAX" -> "temMIN"
                       [] pc[Requester] = "temMIN" -> "humMIN"
                       [] pc[Requester] = "humMIN" -> "humMAX"
                       [] OTHER                    -> "signal")
  /\ UNCHANGED <<client, queue, msgbuf, todo, acting, mutex, slot, judged,
                 device, unserved>>

(* Mutant: the signal is missing.                                          *)
Signal_Missing ==
  /\ pc[Requester] = "signal"
  /\ Goto(Requester, "msgrcv")
  /\ msgbuf' = Idle
  /\ UNCHANGED <<client, queue, todo, acting, mutex, slot, limits, judged,
                 device, unserved>>

(* pthread_cond_signal moves a waiting thread on and is forgotten when no  *)
(* thread waits; then the loop clears msgbuf and blocks in msgrcv again.   *)
Signal ==
  /\ pc[Requester] = "signal"
  /\ LET w == Target(msgbuf) IN
       pc' = [pc EXCEPT ![Requester] = "msgrcv",
                        ![w] = IF @ = "asleep" THEN "woken" ELSE @]
  /\ msgbuf' = Idle
  /\ UNCHANGED <<client, queue, todo, acting, mutex, slot, limits, judged,
                 device, unserved>>

-----------------------------------------------------------------------------
(* The workers.                                                            *)

(* Mutants: the exit leaves a mutex held; it spares the led thread.        *)
Open_MutexKept(w) ==
  /\ pc[w] = "open"
  /\ IF w \notin Broken THEN Goto(w, "lock")
                        ELSE pc' = [t \in Thread |-> "gone"]
  /\ UNCHANGED <<client, queue, msgbuf, todo, acting, mutex, slot, limits,
                 judged, device, unserved>>

Open_LedSpared(w) ==
  /\ pc[w] = "open"
  /\ IF w \notin Broken
       THEN Goto(w, "lock")
       ELSE pc' = [t \in Thread |-> IF t = "led" THEN pc[t] ELSE "gone"]
  /\ UNCHANGED <<client, queue, msgbuf, todo, acting, mutex, slot, limits,
                 judged, device, unserved>>

(* A worker thread starts and opens its device.  On failure fan returns    *)
(* and the others call exit(1), which ends every thread.                   *)
Open(w) ==
  /\ pc[w] = "open"
  /\ \/ /\ w \notin Broken
        /\ Goto(w, "lock")
        /\ UNCHANGED mutex
     \/ /\ w \in Broken /\ w = "fan"
        /\ Goto(w, "gone")
        /\ UNCHANGED mutex
     \/ /\ w \in Broken /\ w # "fan"
        /\ pc' = [t \in Thread |-> "gone"]
        /\ mutex' = [v \in Worker |-> "free"]
  /\ UNCHANGED <<client, queue, msgbuf, todo, acting, slot, limits, judged,
                 device, unserved>>

Lock(w) ==
  /\ pc[w] = "lock"
  /\ mutex[w] = "free"
  /\ mutex' = [mutex EXCEPT ![w] = w]
  /\ Goto(w, "wait")
  /\ UNCHANGED <<client, queue, msgbuf, todo, acting, slot, limits, judged,
                 device, unserved>>

(* pthread_cond_wait: release and sleep in one step ...                    *)
CondWait(w) ==
  /\ pc[w] = "wait"
  /\ mutex' = [mutex EXCEPT ![w] = "free"]
  /\ Goto(w, "asleep")
  /\ UNCHANGED <<client, queue, msgbuf, todo, acting, slot, limits, judged,
                 device, unserved>>

(* ... until signalled, or for no reason at all, which POSIX allows ...    *)
SpuriousWake(w) ==
  /\ w \in Spurious
  /\ pc[w] = "asleep"
  /\ Goto(w, "woken")
  /\ UNCHANGED <<client, queue, msgbuf, todo, acting, mutex, slot, limits,
                 judged, device, unserved>>

(* (the refresh thread signals dh_mon about once a second)                 *)
Tick ==
  /\ pc["dh_mon"] = "asleep"
  /\ Goto("dh_mon", "woken")
  /\ UNCHANGED <<client, queue, msgbuf, todo, acting, mutex, slot, limits,
                 judged, device, unserved>>

(* ... and return with the mutex held again.                               *)
Reacquire(w) ==
  /\ pc[w] = "woken"
  /\ mutex[w] = "free"
  /\ mutex' = [mutex EXCEPT ![w] = w]
  /\ Goto(w, "scan")
  /\ todo' = [todo EXCEPT ![w] = Scan(w)]
  /\ judged' = IF w = "dh_mon" THEN << >> ELSE judged
  /\ UNCHANGED <<client, queue, msgbuf, acting, slot, limits, device, unserved>>

(* The if that tests one command byte.                                     *)
Read(w) ==
  /\ w # "dh_mon"
  /\ pc[w] = "scan"
  /\ todo[w] # << >>
  /\ LET s == Head(todo[w]) IN
       /\ unserved' = unserved \ {s}
       /\ \/ /\ slot[s] \in Commands(s)
             /\ acting' = [acting EXCEPT ![w] = slot[s]]
             /\ Goto(w, "act")
             /\ UNCHANGED todo
          \/ /\ slot[s] \notin Commands(s)
             /\ todo' = [todo EXCEPT ![w] = Tail(@)]
             /\ UNCHANGED <<acting, pc>>
  /\ UNCHANGED <<client, queue, msgbuf, mutex, slot, limits, judged, device>>

(* Mutant: the one-shot command is not reset.                              *)
Act_NoReset(w) ==
  /\ w # "dh_mon"
  /\ pc[w] = "act"
  /\ device' = [device EXCEPT ![Head(todo[w])] = acting[w]]
  /\ todo' = [todo EXCEPT ![w] = Tail(@)]
  /\ Goto(w, "scan")
  /\ UNCHANGED <<client, queue, msgbuf, acting, mutex, slot, limits, judged,
                 unserved>>

(* The body of that if: the device calls, which may sleep for seconds, and *)
(* the reset of a one-shot command, all with the mutex held.               *)
Act(w) ==
  /\ w # "dh_mon"
  /\ pc[w] = "act"
  /\ LET s == Head(todo[w]) IN
       /\ device' = [device EXCEPT ![s] = acting[w]]
       /\ slot' = [slot EXCEPT ![s] = IF acting[w] \in Clears(s) THEN 0 ELSE @]
  /\ todo' = [todo EXCEPT ![w] = Tail(@)]
  /\ Goto(w, "scan")
  /\ UNCHANGED <<client, queue, msgbuf, acting, mutex, limits, judged, unserved>>

(* dh_mon evaluates its condition from left to right: the first comparison *)
(* that finds the reading out of range ends it and sounds the alarm.       *)
Judge ==
  /\ pc["dh_mon"] = "scan"
  /\ todo["dh_mon"] # << >>
  /\ judged' = Append(judged, limits[Head(todo["dh_mon"])])
  /\ \/ /\ todo' = [todo EXCEPT !["dh_mon"] = Tail(@)]
        /\ UNCHANGED pc
     \/ /\ Goto("dh_mon", "act")
        /\ UNCHANGED todo
  /\ UNCHANGED <<client, queue, msgbuf, acting, mutex, slot, limits, device,
                 unserved>>

Alarm ==
  /\ pc["dh_mon"] = "act"
  /\ todo' = [todo EXCEPT !["dh_mon"] = << >>]
  /\ Goto("dh_mon", "scan")
  /\ UNCHANGED <<client, queue, msgbuf, acting, mutex, slot, limits, judged,
                 device, unserved>>

Unlock(w) ==
  /\ pc[w] = "scan"
  /\ todo[w] = << >>
  /\ mutex' = [mutex EXCEPT ![w] = "free"]
  /\ Goto(w, "lock")
  /\ UNCHANGED <<client, queue, msgbuf, todo, acting, slot, limits, judged,
                 device, unserved>>

-----------------------------------------------------------------------------
ClientRequest == MsgRcv \/ LockSlot \/ StoreAndUnlock \/ SetLimit \/ Signal

Round(w) == Read(w) \/ Act(w) \/ Unlock(w)
              \/ (w = "dh_mon" /\ (Judge \/ Alarm))

Next ==
  \/ \E c \in Clients : Submit(c) \/ MsgSnd(c)
  \/ ClientRequest
  \/ \E w \in Worker : \/ Open(w) \/ Lock(w) \/ CondWait(w)
                       \/ SpuriousWake(w) \/ Reacquire(w) \/ Round(w)
  \/ Tick

Spec == Init /\ [][Next]_vars

(* A thread that can run eventually runs, and every tick comes.  A thread   *)
(* re-acquiring its mutex inside cond_wait, and a CGI blocked in msgsnd,    *)
(* wait in a kernel queue that is served in turn, so they cannot be passed  *)
(* over for ever: strong fairness.  Nothing forces a user to submit.        *)
Fairness ==
  /\ WF_vars(ClientRequest)
  /\ WF_vars(Tick)
  /\ \A w \in Worker : /\ WF_vars(Open(w) \/ Lock(w) \/ CondWait(w))
                       /\ SF_vars(Reacquire(w))
                       /\ WF_vars(Round(w))
  /\ \A c \in Clients : SF_vars(MsgSnd(c))

FairSpec == Spec /\ Fairness

-----------------------------------------------------------------------------
(* Every variable stays in its range.  (The request thread's message always *)
(* fits the step it is at, a worker in "act" always has a slot to act on.)  *)
TypeOK ==
  /\ client \in [Clients -> Requests \cup {Idle}]
  /\ queue \in Seq(Requests) /\ Len(queue) <= QueueCap
  /\ msgbuf \in Requests \cup {Idle}
  /\ pc \in [Thread -> RequesterSteps \cup WorkerSteps]
  /\ pc[Requester] \in RequesterSteps
  /\ \A w \in Worker : pc[w] \in WorkerSteps
  /\ pc[Requester] \in {"lock", "store"} => HasSlot(msgbuf)
  /\ pc[Requester] \in Field => msgbuf.msgtype = 5
  /\ pc[Requester] = "signal" => HasSlot(msgbuf) \/ msgbuf.msgtype = 5
  /\ todo \in [Worker -> Seq(Slot \cup Field)]
  /\ acting \in [Worker -> Byte]
  /\ mutex \in [Worker -> Thread \cup {"free"}]
  /\ slot \in [Slot -> Byte]
  /\ limits \in [Field -> Limits \cup {Default}]
  /\ judged \in Seq(Limits \cup {Default})
  /\ device \in [Slot -> Byte]
  /\ unserved \subseteq Slot

Holding(w) == pc[w] \in {"wait", "scan", "act"}
Storing(w) == pc[Requester] = "store" /\ Target(msgbuf) = w

(* A worker's mutex is held by exactly the thread that is between its lock  *)
(* and its unlock, through cond_wait's release and re-acquisition, through  *)
(* the seconds a device call sleeps, and through the exit of the process.   *)
MutexInv ==
  \A w \in Worker : /\ mutex[w] = w <=> Holding(w)
                    /\ mutex[w] = Requester <=> Storing(w)

(* While a worker executes a command its global still holds that command:   *)
(* the reset at the end of the if cannot wipe out another one.              *)
CurrentByte ==
  \A w \in Worker \ {"dh_mon"} :
    pc[w] = "act" => LET s == Head(todo[w]) IN
                       slot[s] = acting[w] /\ acting[w] \in Commands(s)

(* One wake-up may stand for several stores, because each round looks at    *)
(* everything: when a round is over no global of the worker holds a command *)
(* it has not looked at, the one stored while it waited for the mutex       *)
(* included (led_cmd and seg_cmd share one condition).                      *)
RoundMissesNothing ==
  \A w \in Worker :
    pc[w] = "scan" /\ todo[w] = << >>
      => \A s \in unserved : Owner(s) # w

(* The whole path behaves as registers fed in sending order and served      *)
(* atomically, although a store, a look and a reset are separate steps.     *)
Mailbox == INSTANCE CommandMailbox
  WITH Capacity <- QueueCap + 1,
       inflight <- IF pc[Requester] \in {"lock", "store"}
                     THEN <<msgbuf>> \o queue ELSE queue,
       reg <- slot,
       up <- pc[Requester] # "gone"

MailboxSpec == Mailbox!Spec

(* A command whose signal finds its worker waiting is looked at, however    *)
(* many other requests pass through the same mutex meanwhile.               *)
SleeperServed ==
  \A s \in Slot :
    (/\ pc[Requester] = "signal" /\ HasSlot(msgbuf) /\ SlotFor(msgbuf) = s
     /\ s \in unserved /\ pc[Owner(s)] = "asleep")
      ~> s \notin unserved

(* Whichever worker is busy, gone or waiting, the queue keeps draining: a   *)
(* CGI blocked on a full queue returns and its user gets the page back.     *)
CgiReturns == \A c \in Clients : client[c] # Idle ~> client[c] = Idle

(* The four unprotected assignments are complete and seen in the end:       *)
(* dh_mon comes to judge by the new thresholds alone while all four are in  *)
(* force, unless another form is being applied.                             *)
LimitsReachMonitor ==
  \A l \in Limits :
    pc[Requester] = "signal" /\ msgbuf.text = l
      ~> \/ /\ \A f \in Field : limits[f] = l
            /\ judged # << >> /\ \A i \in DOMAIN judged : judged[i] = l
         \/ pc[Requester] \in Field

-----------------------------------------------------------------------------
(* A claim of the sources that the code does not keep.                      *)

(* "Wake the thread", "tell it that it can go on"                           *)
(* (pthread_client_request.c:114, :100): a command that has been stored and *)
(* signalled does not lie in its global with its worker asleep.             *)
NoLostWakeup ==
  \A s \in unserved :
    pc[Owner(s)] = "asleep" => pc[Requester] = "signal" /\ Target(msgbuf) = Owner(s)
=============================================================================
