---------------------------- MODULE DriverLifecycle ----------------------------
(***************************************************************************)
(* Loading and unloading of the four device drivers (fsled/demoarm.c,      *)
(* fsbeeper/fspwmbeeper.c, fsmpu6050/mpu6050_drv.c, fsadc/adc.c), and the  *)
(* programs that open their nodes meanwhile.  The drivers share nothing,   *)
(* so a behaviour is about one of them, chosen at the start.               *)
(*                                                                         *)
(* What the kernel keeps for a driver is a set of pairs <<resource, load>>: *)
(* a resource that is not given back stays with the number of the load     *)
(* that took it.  Kernel functions behave as in Linux 3: class_create and  *)
(* device_create return an error pointer and never NULL, so the drivers'   *)
(* roll-back of these two is never reached; unregister_chrdev_region of    *)
(* one minor does not find the 256 that register_chrdev took; and          *)
(* device_destroy, given a class that has been freed, crashes, or finds    *)
(* the device, or does not find it and leaves its node.                    *)
(***************************************************************************)
EXTENDS Integers, Sequences, FiniteSets

CONSTANTS
  MaxLoads,     \* bound: how often the module is loaded
  MaxFaults     \* bound: calls of the kernel that fail

ASSUME LifecycleAssumption == MaxLoads \in Nat \ {0} /\ MaxFaults \in Nat

Driver == {"fsled0", "fsbeeper0", "fsmpu6050", "fsadc0"}
Resource == {"chrdev", "memory", "cdev", "class", "node", "map", "irq"}

VARIABLES
  driver,      \* the driver this behaviour is about
  phase,       \* of its module
  step,        \* the call of the init or exit function to make next
  load,        \* loads so far
  held,        \* what the kernel holds
  files,       \* loads whose code has an open file
  converting,  \* the ADC has been told to convert, and will interrupt
  early,       \* the node was opened before init was over
  faults,      \* kinds of calls that failed
  oops         \* the kernel has used what is not there

lifecycle == <<driver, phase, step, load, held, files, converting, early, faults, oops>>
moduleVars == <<driver, phase, step, load>>

Held(resource) == <<resource, load>> \in held
Remains(resource) == \E n \in 1..MaxLoads : <<resource, n>> \in held

(* The order of the calls in the init or probe function; i2c stands for    *)
(* init_mpu6050.                                                           *)
CharDevice == <<"chrdev", "memory", "cdev", "class", "node">>

LoadPlan ==
  [d \in Driver |->
     CASE d \in {"fsled0", "fsbeeper0"} -> Append(CharDevice, "map")
       [] d = "fsmpu6050" -> Append(CharDevice, "i2c")
       [] d = "fsadc0"    -> <<"irq", "map", "chrdev", "class", "node">>]

(* Mutant: the mappings are kept.                                          *)
UnloadPlan_KeepsMap ==
  [d \in Driver |->
     CASE d \in {"fsled0", "fsbeeper0"} -> <<"node", "chrdev", "cdev", "memory">>
       [] d = "fsmpu6050" -> <<"cdev", "class", "node", "memory">>
       [] d = "fsadc0"    -> << >>]

(* Mutant: the structure is freed before the cdev in it is removed.        *)
UnloadPlan_FreesFirst ==
  [d \in Driver |->
     CASE d \in {"fsled0", "fsbeeper0"} -> <<"node", "chrdev", "map", "memory", "cdev">>
       [] d = "fsmpu6050" -> <<"cdev", "class", "node", "memory">>
       [] d = "fsadc0"    -> << >>]

(* The same of the exit or remove function.                                *)
UnloadPlan ==
  [d \in Driver |->
     CASE d \in {"fsled0", "fsbeeper0"} -> <<"node", "chrdev", "map", "cdev", "memory">>
       [] d = "fsmpu6050" -> <<"cdev", "class", "node", "memory">>
       [] d = "fsadc0"    -> << >>]

LifecycleInit ==
  /\ driver \in Driver
  /\ phase = "out" /\ step = 1 /\ load = 0 /\ held = {} /\ files = {}
  /\ converting = FALSE /\ early = FALSE /\ faults = {} /\ oops = FALSE

-----------------------------------------------------------------------------
(* insmod.                                                                 *)

Insmod ==
  /\ phase = "out" /\ load < MaxLoads
  /\ phase' = "loading" /\ step' = 1 /\ load' = load + 1
  /\ UNCHANGED <<driver, held, files, converting, early, faults, oops>>

Loading(resource) ==
  /\ phase = "loading"
  /\ step <= Len(LoadPlan[driver])
  /\ LoadPlan[driver][step] = resource
Advance == step' = step + 1 /\ UNCHANGED <<driver, phase, load>>

(* The name of a class or a node or the number of an interrupt is taken by *)
(* an earlier load, and a device needs a class: the call fails, which is   *)
(* not noticed.                                                            *)
Refused(resource) == \/ resource \in {"class", "irq", "node"} /\ Remains(resource)
                     \/ resource = "node" /\ ~Held("class")

Acquire ==
  \E r \in Resource :
    /\ Loading(r)
    /\ held' = IF Refused(r) THEN held ELSE held \cup {<<r, load>>}
    /\ Advance
    /\ UNCHANGED <<files, converting, early, faults, oops>>

(* Without memory init returns, and what it had registered stays; the      *)
(* modules of I2C and platform drivers are loaded all the same.            *)
AcquireFails ==
  \E r \in {"memory", "class", "node"} :
    /\ Loading(r)
    /\ Cardinality(faults) < MaxFaults
    /\ faults' = faults \cup {r}
    /\ IF r = "memory"
       THEN /\ phase' = IF driver = "fsmpu6050" THEN "bare" ELSE "out"
            /\ UNCHANGED <<driver, step, load>>
       ELSE Advance
    /\ UNCHANGED <<held, files, converting, early, oops>>

Loaded ==
  /\ phase = "loading" /\ step = Len(LoadPlan[driver]) + 1
  /\ phase' = "in"
  /\ UNCHANGED <<driver, step, load, held, files, converting, early, faults, oops>>

-----------------------------------------------------------------------------
(* rmmod.                                                                  *)

(* Mutant: the owner of the cdev is not set.                               *)
Pinned_NoOwner == FALSE

(* A file of a cdev with an owner keeps the module.                        *)
Pinned == driver # "fsadc0" /\ load \in files

Rmmod ==
  /\ phase \in {"in", "bare"} /\ ~Pinned
  /\ phase' = IF phase = "in" THEN "unloading" ELSE "out"
  /\ step' = 1
  /\ UNCHANGED <<driver, load, held, files, converting, early, faults, oops>>

(* What makes a call of the exit function use a bad pointer: the structure *)
(* is gone, or the class is an error pointer.  The class of the MPU6050 is *)
(* freed just before.                                                      *)
BadPointer(resource) ==
  \/ driver # "fsadc0" /\ resource # "chrdev" /\ ~Held("memory")
  \/ resource = "node" /\ ~Held("class") /\ driver # "fsmpu6050"
MayBeBad(resource) == resource = "node" /\ ~Held("class") /\ driver = "fsmpu6050"

(* What the freed class leads to: the node may stay, and the kernel crash. *)
Release ==
  /\ phase = "unloading"
  /\ step <= Len(UnloadPlan[driver])
  /\ LET r == UnloadPlan[driver][step]
         given == held \ {<<r, load>>}
     IN IF MayBeBad(r) THEN held' \in {held, given} /\ oops' \in BOOLEAN
        ELSE held' = given /\ oops' = BadPointer(r)
  /\ Advance
  /\ UNCHANGED <<files, converting, early, faults>>

Unloaded ==
  /\ phase = "unloading" /\ step = Len(UnloadPlan[driver]) + 1
  /\ phase' = "out"
  /\ UNCHANGED <<driver, step, load, held, files, converting, early, faults, oops>>

-----------------------------------------------------------------------------
(* Programs.                                                               *)

(* The code of a load is in memory.                                        *)
Code(n) == n = load /\ phase # "out"

(* The registers the LED and beeper drivers touch are mapped.              *)
Mapped == driver \in {"fsled0", "fsbeeper0"} => Held("map")

(* A node leads to the code of the load that made it.  Opening and closing *)
(* the beeper switches it off.  A module on its way out cannot be opened   *)
(* if the cdev has an owner.                                               *)
Open ==
  \E n \in 1..MaxLoads :
    /\ <<"node", n>> \in held /\ n \notin files
    /\ phase = "unloading" => driver = "fsadc0"
    /\ files' = files \cup {n}
    /\ early' = (early \/ (phase = "loading" /\ n = load))
    /\ oops' = (~Code(n) \/ (driver = "fsbeeper0" /\ ~Mapped))
    /\ UNCHANGED <<moduleVars, held, converting, faults>>

Close ==
  \E n \in files :
    /\ files' = files \ {n}
    /\ oops' = (~Code(n) \/ (driver = "fsbeeper0" /\ ~Mapped))
    /\ UNCHANGED <<moduleVars, held, converting, early, faults>>

(* A read or ioctl; one of the ADC starts a conversion.                    *)
Use ==
  \E n \in files :
    /\ oops' = ~(Code(n) /\ Mapped)
    /\ converting' = (driver = "fsadc0")
    /\ UNCHANGED <<moduleVars, held, files, early, faults>>

(* The interrupt runs the handler of the load that requested it.           *)
Interrupt ==
  /\ converting
  /\ converting' = FALSE
  /\ oops' = \E n \in 1..MaxLoads : <<"irq", n>> \in held /\ ~Code(n)
  /\ UNCHANGED <<moduleVars, held, files, early, faults>>

Module == Insmod \/ Acquire \/ AcquireFails \/ Loaded \/ Rmmod \/ Release \/ Unloaded
Program == Open \/ Close \/ Use \/ Interrupt

LifecycleNext == ~oops /\ (Module \/ Program)

-----------------------------------------------------------------------------
(* Properties.                                                             *)

LifecycleTypeOK ==
  /\ driver \in Driver
  /\ phase \in {"out", "loading", "in", "bare", "unloading"}
  /\ step \in 1..7 /\ load \in 0..MaxLoads
  /\ held \subseteq Resource \X (1..load)
  /\ files \subseteq 1..load
  /\ converting \in BOOLEAN /\ early \in BOOLEAN /\ oops \in BOOLEAN
  /\ faults \subseteq {"memory", "class", "node"}

(* An open file of a driver with an owner has its code, its structure and  *)
(* its cdev, whatever rmmod is tried.                                      *)
OpenIsLive ==
  driver # "fsadc0" /\ ~oops =>
    \A n \in files : Code(n) /\ Held("memory") /\ Held("cdev")

(* No structure, no cdev in one and no mapping of registers outlives the   *)
(* LED, beeper and MPU6050 drivers, nor does a node of the LED and beeper  *)
(* drivers, whatever failed while they were loaded.  (What may stay is the *)
(* MPU6050's node; its number, and any driver's if the memory was lacking, *)
(* still registered with operations that are gone; and the LED and beeper  *)
(* classes.)                                                               *)
NothingLeftMapped ==
  phase = "out" /\ driver # "fsadc0" /\ ~oops =>
    /\ \A r \in {"memory", "cdev", "map"} : ~Remains(r)
    /\ driver # "fsmpu6050" => ~Remains("node")

(* The kernel survives loading, use and unloading, but for: a class that   *)
(* could not be made, because of a fault or of one an earlier load left; a *)
(* program that opens the node between device_create and ioremap; the      *)
(* removal of the MPU6050's device after its class, or the opening of the  *)
(* node this left; and the ADC, which gives nothing back.                  *)
KernelSurvives ==
  oops => \/ "class" \in faults
          \/ \E n \in 1..load - 1 : <<"class", n>> \in held
          \/ early
          \/ driver = "fsmpu6050" /\ phase = "unloading"
          \/ driver = "fsmpu6050" /\ \E n \in 1..load : <<"node", n>> \in held /\ ~Code(n)
          \/ driver = "fsadc0" /\ phase = "out"
=============================================================================
