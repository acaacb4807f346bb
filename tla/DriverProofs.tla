----------------------------- MODULE DriverProofs -----------------------------
(***************************************************************************)
(* Proofs about DriverLifecycle and Mpu6050 for any number of loads, any   *)
(* number of failing calls and transfers, and any readings of 16 bits.     *)
(*                                                                         *)
(* Three drivers undo what they did (fsled0, fsbeeper0, fsmpu6050): for    *)
(* them OwnedInv says what is held at each step of the init and exit       *)
(* functions, and who may have the node open.  The ADC driver undoes       *)
(* nothing: AdcInv says what its earlier loads have left.  AxisInv follows *)
(* an ioctl of the MPU6050 register by register.                           *)
(***************************************************************************)
EXTENDS Mpu6050, TLAPS

Owned == Driver \ {"fsadc0"}
Panel == {"fsled0", "fsbeeper0"}
Mapping == {"memory", "cdev", "map"} \cup (IF driver \in Panel THEN {"node"} ELSE {})

(* The class could not be made because of a fault, or because of one that   *)
(* a load before the n-th has left.                                         *)
ClassSpoilt(n) == "class" \in faults \/ \E m \in 1..n - 1 : <<"class", m>> \in held

LoadingInv ==
  phase = "loading" =>
    /\ Held("memory") <=> step > 2
    /\ Held("cdev") <=> step > 3
    /\ Held("node") => step > 5
    /\ driver \in Panel => (Held("map") <=> step > 6)

UnloadingInv ==
  phase = "unloading" =>
    IF driver \in Panel
    THEN /\ Held("memory") <=> step <= 5
         /\ Held("cdev") => step <= 4
         /\ Held("map") => step <= 3
         /\ Held("node") => step <= 1
    ELSE /\ Held("memory") <=> step <= 4
         /\ Held("cdev") => step <= 1

(* What points into a driver that cleans up is its last load's, in step     *)
(* with its init or exit function (but for the MPU6050's node, which its    *)
(* exit may leave); a file is open only while that load is in, or too       *)
(* early.                                                                   *)
OwnedInv ==
  driver \in Owned =>
    /\ \A r \in Mapping, n \in 1..load :
         <<r, n>> \in held => n = load /\ phase \in {"loading", "in", "unloading"}
    /\ driver = "fsmpu6050" => \A n \in 1..load : <<"map", n>> \notin held
    /\ phase = "bare" => ~Held("node")
    /\ LoadingInv /\ UnloadingInv
    /\ phase = "in" => Held("memory") /\ Held("cdev") /\ (driver \in Panel => Held("map"))
    /\ driver \in Panel /\ (phase \in {"in", "unloading"} \/ (phase = "loading" /\ step > 4))
         => Held("class") \/ ClassSpoilt(load)
    /\ ~oops =>
         \A n \in files : n = load /\ (phase = "in" \/ (phase = "loading" /\ step > 5 /\ early))

(* The ADC driver gives nothing back: nodes and classes of earlier loads    *)
(* stay, and every load after the first finds the class there.              *)
AdcInv ==
  driver = "fsadc0" =>
    /\ phase # "bare"
    /\ \A n \in files : <<"node", n>> \in held
    /\ \A n \in 1..load : <<"node", n>> \in held => <<"class", n>> \in held
    /\ load > 1 => ClassSpoilt(load)
    /\ load > 0 /\ (phase # "loading" \/ step > 4) => ClassSpoilt(load + 1)

LifecycleInv ==
  /\ LifecycleTypeOK
  /\ phase # "out" => load > 0
  /\ OwnedInv /\ AdcInv
  /\ converting => driver = "fsadc0"
  /\ KernelSurvives

(* The axes whose two registers were read without error are right.          *)
AxisInv ==
  cmd # "none" =>
    /\ sensor \in seen
    /\ done <= Len(Registers(cmd))
    /\ errors = 0 => \A a \in Axes(cmd) : done >= 2 * a =>
         \E s \in seen : s[a] \in data[a]..data[a] + 255

IInv == TypeOK /\ LifecycleInv /\ AxisInv

-----------------------------------------------------------------------------
(* The order in which the init functions call the kernel.                   *)
LEMMA LoadOrder ==
  ASSUME NEW d \in Driver
  PROVE  IF d = "fsadc0" THEN LoadPlan[d] = <<"irq", "map", "chrdev", "class", "node">>
         ELSE /\ Len(LoadPlan[d]) = 6
              /\ LoadPlan[d][1] = "chrdev" /\ LoadPlan[d][2] = "memory" /\ LoadPlan[d][3] = "cdev"
              /\ LoadPlan[d][4] = "class" /\ LoadPlan[d][5] = "node"
              /\ LoadPlan[d][6] = IF d = "fsmpu6050" THEN "i2c" ELSE "map"
<1>1. ASSUME NEW s \in {"map", "i2c"}
      PROVE  LET plan == Append(CharDevice, s) IN
             /\ Len(plan) = 6
             /\ plan[1] = "chrdev" /\ plan[2] = "memory" /\ plan[3] = "cdev"
             /\ plan[4] = "class" /\ plan[5] = "node" /\ plan[6] = s
  BY DEF CharDevice
<1>2. CASE d \in Panel
  <2>1. LoadPlan[d] = Append(CharDevice, "map") /\ d # "fsmpu6050" /\ d # "fsadc0"
    BY <1>2 DEF LoadPlan, Panel, Driver
  <2> QED
    BY <1>1, <2>1
<1>3. CASE d = "fsmpu6050"
  <2>1. LoadPlan[d] = Append(CharDevice, "i2c")
    BY <1>3 DEF LoadPlan, Driver
  <2> QED
    BY <1>1, <1>3, <2>1
<1>4. CASE d = "fsadc0"
  <2>1. LoadPlan[d] = <<"irq", "map", "chrdev", "class", "node">>
    BY <1>4 DEF LoadPlan, Driver
  <2> QED
    BY <1>4, <2>1
<1> QED
  BY <1>2, <1>3, <1>4 DEF Driver, Panel

(* The order in which the exit functions do.                                *)
LEMMA UnloadOrder ==
  ASSUME NEW d \in Driver
  PROVE  /\ d \in Panel => UnloadPlan[d] = <<"node", "chrdev", "map", "cdev", "memory">>
         /\ d = "fsmpu6050" => UnloadPlan[d] = <<"cdev", "class", "node", "memory">>
         /\ d = "fsadc0" => UnloadPlan[d] = << >>
BY DEF UnloadPlan, Panel, Driver

(* What step of init a resource is for.                                     *)
LEMMA LoadingStep ==
  ASSUME driver \in Driver, step \in 1..7, NEW r, Loading(r)
  PROVE  /\ phase = "loading"
         /\ driver \in Owned =>
              \/ step = 1 /\ r = "chrdev"
              \/ step = 2 /\ r = "memory"
              \/ step = 3 /\ r = "cdev"
              \/ step = 4 /\ r = "class"
              \/ step = 5 /\ r = "node"
              \/ step = 6 /\ r = "map" /\ driver \in Panel
              \/ step = 6 /\ r = "i2c" /\ driver = "fsmpu6050"
         /\ driver = "fsadc0" =>
              \/ step = 1 /\ r = "irq"
              \/ step = 2 /\ r = "map"
              \/ step = 3 /\ r = "chrdev"
              \/ step = 4 /\ r = "class"
              \/ step = 5 /\ r = "node"
<1>1. CASE driver = "fsadc0"
  BY <1>1, LoadOrder DEF Loading, Owned
<1>2. CASE driver # "fsadc0"
  <2>1. phase = "loading" /\ step \in 1..6 /\ r = LoadPlan[driver][step]
    BY <1>2, LoadOrder DEF Loading
  <2> QED
    BY <1>2, <2>1, LoadOrder DEF Driver, Owned, Panel
<1> QED
  BY <1>1, <1>2

(* What step of exit gives a resource back.                                 *)
LEMMA UnloadingStep ==
  ASSUME driver \in Driver, step \in 1..7, step <= Len(UnloadPlan[driver]),
         NEW r, r = UnloadPlan[driver][step]
  PROVE  /\ driver \in Owned
         /\ driver \in Panel =>
              \/ step = 1 /\ r = "node"
              \/ step = 2 /\ r = "chrdev"
              \/ step = 3 /\ r = "map"
              \/ step = 4 /\ r = "cdev"
              \/ step = 5 /\ r = "memory"
         /\ driver = "fsmpu6050" =>
              \/ step = 1 /\ r = "cdev"
              \/ step = 2 /\ r = "class"
              \/ step = 3 /\ r = "node"
              \/ step = 4 /\ r = "memory"
<1>1. CASE driver \in Panel
  BY <1>1, UnloadOrder DEF Owned, Panel, Driver
<1>2. CASE driver = "fsmpu6050"
  BY <1>2, UnloadOrder DEF Owned, Panel, Driver
<1>3. CASE driver = "fsadc0"
  BY <1>3, UnloadOrder
<1> QED
  BY <1>1, <1>2, <1>3 DEF Driver, Panel

(* When the plans are done.                                                 *)
LEMMA PlanLengths ==
  ASSUME driver \in Driver
  PROVE  /\ Len(LoadPlan[driver]) = IF driver = "fsadc0" THEN 5 ELSE 6
         /\ driver \in Panel => Len(UnloadPlan[driver]) = 5
         /\ driver = "fsmpu6050" => Len(UnloadPlan[driver]) = 4
         /\ driver = "fsadc0" => Len(UnloadPlan[driver]) = 0
<1>1. Len(LoadPlan[driver]) = IF driver = "fsadc0" THEN 5 ELSE 6
  <2>1. CASE driver = "fsadc0"
    BY <2>1, LoadOrder
  <2>2. CASE driver # "fsadc0"
    BY <2>2, LoadOrder
  <2> QED
    BY <2>1, <2>2
<1>2. CASE driver \in Panel
  <2>1. UnloadPlan[driver] = <<"node", "chrdev", "map", "cdev", "memory">>
    BY <1>2, UnloadOrder
  <2>2. Len(UnloadPlan[driver]) = 5
    BY <2>1
  <2> QED
    BY <1>1, <1>2, <2>2 DEF Panel
<1>3. CASE driver = "fsmpu6050"
  <2>1. UnloadPlan[driver] = <<"cdev", "class", "node", "memory">>
    BY <1>3, UnloadOrder
  <2>2. Len(UnloadPlan[driver]) = 4
    BY <2>1
  <2> QED
    BY <1>1, <1>3, <2>2 DEF Panel
<1>4. CASE driver = "fsadc0"
  <2>1. Len(UnloadPlan[driver]) = 0 /\ driver \notin Panel
    BY <1>4, UnloadOrder DEF Panel
  <2> QED
    BY <1>1, <1>4, <2>1
<1> QED
  BY <1>2, <1>3, <1>4 DEF Driver, Panel

(* The registers of an ioctl, in order.                                     *)
LEMMA RegisterOrder ==
  ASSUME NEW c \in Command
  PROVE  /\ Len(Registers(c)) = IF c = "GET_TEMP" THEN 2 ELSE 6
         /\ \A k \in 1..Len(Registers(c)) :
              /\ Registers(c)[k].axis \in Axes(c)
              /\ k % 2 = 0 => k = 2 * Registers(c)[k].axis /\ Registers(c)[k].high
              /\ k % 2 = 1 => k + 1 = 2 * Registers(c)[k].axis
<1>1. CASE c = "GET_TEMP"
  BY <1>1 DEF Registers, Axes
<1>2. CASE c # "GET_TEMP"
  <2> DEFINE reg(a, h) == [axis |-> a, high |-> h]
             r1 == reg(1, FALSE)
             r2 == reg(1, TRUE)
             r3 == reg(2, TRUE)
             r5 == reg(3, TRUE)
  <2>1. Registers(c) = <<r1, r2>> \o <<r3, r3, r5, r5>>
    BY <1>2 DEF Registers
  <2>2. /\ r1.axis = 1 /\ r2.axis = 1 /\ r3.axis = 2 /\ r5.axis = 3
        /\ r2.high /\ r3.high /\ r5.high
    OBVIOUS
  <2> HIDE DEF r1, r2, r3, r5
  <2>3. /\ Len(Registers(c)) = 6 /\ Registers(c)[1] = r1 /\ Registers(c)[2] = r2
        /\ Registers(c)[3] = r3 /\ Registers(c)[4] = r3
        /\ Registers(c)[5] = r5 /\ Registers(c)[6] = r5
    BY <2>1
  <2> QED
    BY <1>2, <2>2, <2>3 DEF Axes
<1> QED
  BY <1>1, <1>2

(* Division of a 16-bit number by 256.                                      *)
LEMMA Quotient ==
  ASSUME NEW v \in Short16
  PROVE  /\ v \div 256 \in Int /\ -128 <= v \div 256 /\ v \div 256 <= 127
         /\ 256 * (v \div 256) <= v /\ v <= 256 * (v \div 256) + 255
<1>1. v \in Int /\ -32768 <= v /\ v <= 32767
  BY DEF Short16
<1> QED
  BY <1>1

(* Its high byte as an unsigned char.                                       *)
LEMMA ModByte ==
  ASSUME NEW q \in Int, -128 <= q, q <= 127
  PROVE  q % 256 = IF q < 0 THEN q + 256 ELSE q
OBVIOUS

(* A byte shifted into the upper half of a short.                           *)
LEMMA ShortOf ==
  ASSUME NEW b \in Int, 0 <= b, b <= 255
  PROVE  Short(256 * b) = IF b < 128 THEN 256 * b ELSE 256 * b - 65536
<1>1. (256 * b) % 65536 = 256 * b
  OBVIOUS
<1> QED
  BY <1>1 DEF Short

(* The high byte keeps the quotient.                                        *)
LEMMA HighPart ==
  ASSUME NEW q \in Int, -128 <= q, q <= 127, NEW b, b = q % 256
  PROVE  b \in Int /\ 0 <= b /\ b <= 255 /\ Short(256 * b) = 256 * q
<1>1. CASE q < 0
  <2>1. b \in Int /\ b = q + 256 /\ 128 <= b /\ b <= 255
    BY <1>1, ModByte
  <2>2. Short(256 * b) = 256 * b - 65536
    BY <2>1, ShortOf
  <2>3. 256 * b - 65536 = 256 * q
    BY <2>1
  <2> QED
    BY <2>1, <2>2, <2>3
<1>2. CASE q >= 0
  <2>1. b = q /\ b \in Int /\ 0 <= b /\ b < 128
    BY <1>2, ModByte
  <2>2. Short(256 * b) = 256 * b
    BY <2>1, ShortOf
  <2> QED
    BY <2>1, <2>2
<1> QED
  BY <1>1, <1>2

(* The high byte of a 16-bit number, made a short again, is at most 255     *)
(* below it, whatever its sign.                                             *)
LEMMA HighByte ==
  ASSUME NEW v \in Short16, NEW b, b = RegisterByte(v, TRUE)
  PROVE  /\ b \in Int /\ 0 <= b /\ b <= 255
         /\ v \in Short(256 * b)..Short(256 * b) + 255
<1>1. PICK q : /\ q \in Int /\ q = v \div 256 /\ -128 <= q /\ q <= 127
               /\ 256 * q <= v /\ v <= 256 * q + 255
  BY Quotient
<1>2. b = q % 256
  BY <1>1 DEF RegisterByte
<1>3. b \in Int /\ 0 <= b /\ b <= 255 /\ Short(256 * b) = 256 * q
  <2>1. \E c : /\ c = q % 256 /\ c \in Int /\ 0 <= c /\ c <= 255
              /\ Short(256 * c) = 256 * q
    BY ONLY <1>1, HighPart
  <2> QED
    BY ONLY <1>2, <2>1
<1>4. v \in Int
  BY DEF Short16
<1>5. v \in 256 * q..256 * q + 255
  BY <1>1, <1>4
<1> QED
  BY ONLY <1>3, <1>5

(* So is the low one a byte.                                                *)
LEMMA LowByte ==
  ASSUME NEW v \in Short16, NEW b, b = RegisterByte(v, FALSE)
  PROVE  b \in Int /\ 0 <= b /\ b <= 255
<1>1. v \in Int
  BY DEF Short16
<1> QED
  BY <1>1 DEF RegisterByte

(* A byte is a short, and a byte shifted into one is.                       *)
LEMMA ShortRange ==
  ASSUME NEW b \in Int, 0 <= b, b <= 255
  PROVE  b \in Short16 /\ Short(256 * b) \in Short16
<1>1. b \in Short16
  BY DEF Short16
<1>2. Short(256 * b) \in Int /\ -32768 <= Short(256 * b) /\ Short(256 * b) <= 32767
  BY ShortOf
<1> QED
  BY <1>1, <1>2 DEF Short16

-----------------------------------------------------------------------------
(* Nothing is loaded, mapped or read at first.                              *)
LEMMA InitIInv == Init => IInv
<1> SUFFICES ASSUME Init PROVE IInv
  OBVIOUS
<1> USE LifecycleAssumption, ReadingAssumption
    DEF LifecycleAssumption, ReadingAssumption, Init, LifecycleInit, ReadingInit
<1>1. LifecycleTypeOK
  <2>1. held \subseteq Resource \X (1..load) /\ files \subseteq 1..load
    OBVIOUS
  <2>2. converting \in BOOLEAN /\ early \in BOOLEAN /\ oops \in BOOLEAN
    BY Zenon
  <2>3. step \in 1..7 /\ load \in 0..MaxLoads
    OBVIOUS
  <2> QED
    BY <2>1, <2>2, <2>3 DEF LifecycleTypeOK
<1>2. OwnedInv /\ AdcInv
  BY DEF OwnedInv, AdcInv, LoadingInv, UnloadingInv, Owned, Driver
<1>3. TypeOK
  <2>1. sensor \in Readings \cup {Asleep} /\ seen \subseteq Readings \cup {Asleep}
    OBVIOUS
  <2>2. data \in [1..3 -> Short16]
    BY DEF Asleep, Short16
  <2>3. awake \in BOOLEAN /\ cmd \in Command \cup {"none"}
    OBVIOUS
  <2>4. done \in 0..6 /\ errors \in 0..MaxErrors
    OBVIOUS
  <2> QED
    BY <1>1, <2>1, <2>2, <2>3, <2>4 DEF TypeOK
<1>4. AxisInv
  BY DEF AxisInv
<1> QED
  BY <1>1, <1>2, <1>3, <1>4 DEF IInv, LifecycleInv, KernelSurvives

(* Every step of a module, of a program and of the interrupt keeps types.   *)
LEMMA LifecycleTypeStep ==
  ASSUME LifecycleInv, LifecycleNext
  PROVE  LifecycleTypeOK'
<1> USE LifecycleAssumption DEF LifecycleAssumption, LifecycleInv
<1>0. /\ phase # "out" => load \in 1..MaxLoads
      /\ step \in 1..7 /\ load \in 0..MaxLoads /\ driver \in Driver
  BY DEF LifecycleTypeOK
<1>1. CASE Insmod
  BY <1>0, <1>1 DEF Insmod, LifecycleTypeOK
<1>2. CASE Acquire
  <2>1. PICK r \in Resource : /\ Loading(r) /\ Advance
                             /\ held' \subseteq held \cup {<<r, load>>}
                             /\ UNCHANGED <<files, converting, early, faults, oops>>
    BY <1>2 DEF Acquire
  <2>2. step' \in 1..7 /\ <<r, load>> \in Resource \X (1..load)
    BY <1>0, <2>1, LoadingStep DEF Advance, Driver, Owned
  <2> QED
    BY <2>1, <2>2 DEF Advance, LifecycleTypeOK
<1>3. CASE AcquireFails
  <2>1. PICK r \in {"memory", "class", "node"} :
          /\ Loading(r) /\ faults' = faults \cup {r}
          /\ \/ phase' \in {"bare", "out"} /\ UNCHANGED <<driver, step, load>>
             \/ Advance
          /\ UNCHANGED <<held, files, converting, early, oops>>
    BY <1>3 DEF AcquireFails
  <2>2. step' \in 1..7
    BY <1>0, <2>1, LoadingStep DEF Advance, Driver, Owned
  <2> QED
    BY <2>1, <2>2 DEF Advance, LifecycleTypeOK
<1>4. CASE Loaded \/ Rmmod \/ Unloaded
  <2>1. /\ UNCHANGED <<driver, load, held, files, converting, early, faults, oops>>
        /\ step' \in 1..7 /\ phase' \in {"out", "in", "unloading"}
    BY <1>0, <1>4 DEF Loaded, Rmmod, Unloaded
  <2> QED
    BY <2>1 DEF LifecycleTypeOK
<1>5. CASE Release
  <2>1. step' \in 1..7
    BY <1>0, <1>5, UnloadingStep DEF Release, Advance, Owned, Driver, Panel
  <2>2. oops' \in BOOLEAN
    BY <1>5 DEF Release, BadPointer
  <2> QED
    BY <1>5, <2>1, <2>2 DEF Release, Advance, LifecycleTypeOK
<1>6. CASE Open
  <2>1. oops' \in BOOLEAN /\ early' \in BOOLEAN
    BY <1>6 DEF Open, LifecycleTypeOK
  <2>2. files' \subseteq 1..load
    BY <1>6 DEF Open, LifecycleTypeOK
  <2> QED
    BY <1>6, <2>1, <2>2 DEF Open, moduleVars, LifecycleTypeOK
<1>7. CASE Close \/ Use \/ Interrupt
  <2>1. oops' \in BOOLEAN /\ converting' \in BOOLEAN
    BY <1>7 DEF Close, Use, Interrupt, LifecycleTypeOK
  <2> QED
    BY <1>7, <2>1 DEF Close, Use, Interrupt, moduleVars, LifecycleTypeOK
<1> QED
  BY <1>1, <1>2, <1>3, <1>4, <1>5, <1>6, <1>7 DEF LifecycleNext, Module, Program

(* What a driver that cleans up holds follows its init and exit functions.  *)
LEMMA OwnedStep ==
  ASSUME LifecycleInv, LifecycleNext
  PROVE  OwnedInv'
<1> SUFFICES ASSUME driver \in Owned, driver' = driver PROVE OwnedInv'
  <2>1. driver' = driver
    BY DEF LifecycleNext, Module, Program, Insmod, Acquire, AcquireFails, Loaded, Rmmod,
           Release, Unloaded, Open, Close, Use, Interrupt, Advance, moduleVars
  <2> QED
    BY <2>1 DEF OwnedInv
<1> USE LifecycleAssumption DEF LifecycleAssumption
<1>0. /\ driver \in Driver /\ driver # "fsadc0" /\ step \in 1..7 /\ load \in 0..MaxLoads
      /\ held \subseteq Resource \X (1..load) /\ files \subseteq 1..load
      /\ phase # "out" => load > 0
      /\ driver \in Panel \/ driver = "fsmpu6050"
  BY DEF LifecycleInv, LifecycleTypeOK, Owned, Driver, Panel
<1>h. /\ \A r \in Mapping, n \in 1..load :
            <<r, n>> \in held => n = load /\ phase \in {"loading", "in", "unloading"}
      /\ driver = "fsmpu6050" => \A n \in 1..load : <<"map", n>> \notin held
      /\ phase = "bare" => ~Held("node")
      /\ LoadingInv /\ UnloadingInv
      /\ phase = "in" => Held("memory") /\ Held("cdev") /\ (driver \in Panel => Held("map"))
      /\ driver \in Panel /\ (phase \in {"in", "unloading"} \/ (phase = "loading" /\ step > 4))
           => Held("class") \/ ClassSpoilt(load)
      /\ \A n \in files : n = load /\ (phase = "in" \/ (phase = "loading" /\ step > 5 /\ early))
  BY DEF LifecycleInv, OwnedInv, LifecycleNext
<1>m. Mapping' = Mapping
  BY DEF Mapping
<1>1. CASE Insmod
  <2>1. /\ phase = "out" /\ phase' = "loading" /\ step' = 1 /\ load' = load + 1
        /\ driver' = driver /\ held' = held /\ files' = files
    BY <1>1 DEF Insmod
  <2>2. files' = {} /\ \A r, n : <<r, n>> \in held' => n \in 1..load /\ r \notin Mapping
    BY <1>0, <1>h, <2>1
  <2>3. \A r : ~Held(r)'
    BY <1>0, <2>1, <2>2 DEF Held
  <2> QED
    BY <1>m, <2>1, <2>2, <2>3 DEF OwnedInv, LoadingInv, UnloadingInv, Mapping, Panel
<1>2. CASE Acquire
  <2>1. PICK r \in Resource :
             /\ Loading(r)
             /\ held' = IF Refused(r) THEN held ELSE held \cup {<<r, load>>}
             /\ Advance
             /\ UNCHANGED <<files, converting, early, faults, oops>>
    BY <1>2 DEF Acquire
  <2>2. /\ phase = "loading" /\ phase' = "loading" /\ step' = step + 1 /\ load' = load
        /\ driver' = driver /\ files' = files /\ early' = early /\ faults' = faults
        /\ load \in 1..load
    BY <1>0, <2>1 DEF Advance, Loading
  <2>3. \/ step = 1 /\ r = "chrdev"
        \/ step = 2 /\ r = "memory"
        \/ step = 3 /\ r = "cdev"
        \/ step = 4 /\ r = "class"
        \/ step = 5 /\ r = "node"
        \/ step = 6 /\ r = "map" /\ driver \in Panel
    BY <1>0, <2>1, LoadingStep DEF Resource
  <2>4. \A q : Held(q)' <=> Held(q) \/ (q = r /\ ~Refused(r))
    BY <2>1, <2>2 DEF Held
  <2>5. \A q, n : n # load => (<<q, n>> \in held' <=> <<q, n>> \in held)
    BY <2>1
  <2>6. r \in {"chrdev", "memory", "cdev", "map"} => ~Refused(r)
    BY DEF Refused
  <2>7. r = "class" => Held("class")' \/ ClassSpoilt(load)'
    <3> SUFFICES ASSUME r = "class", Refused(r) PROVE Held("class") \/ ClassSpoilt(load)'
      BY <2>4
    <3>1. PICK n \in 1..MaxLoads : <<"class", n>> \in held
      BY DEF Refused, Remains
    <3>2. n \in 1..load
      BY <1>0, <3>1
    <3> QED
      BY <1>0, <2>2, <2>5, <3>1, <3>2 DEF Held, ClassSpoilt
  <2>8. ClassSpoilt(load) => ClassSpoilt(load)'
    BY <1>0, <2>2, <2>5 DEF ClassSpoilt
  <2>a. \A q \in Mapping, n \in 1..load' :
            <<q, n>> \in held' => n = load' /\ phase' \in {"loading", "in", "unloading"}
    BY <1>h, <2>2, <2>5
  <2>b. driver = "fsmpu6050" => \A n \in 1..load' : <<"map", n>> \notin held'
    BY <1>0, <1>h, <2>1, <2>2, <2>3, <2>5 DEF Panel
  <2>c. LoadingInv' /\ UnloadingInv'
    <3>1. /\ Held("memory") <=> step > 2
          /\ Held("cdev") <=> step > 3
          /\ Held("node") => step > 5
          /\ driver \in Panel => (Held("map") <=> step > 6)
      BY <1>h, <2>2 DEF LoadingInv
    <3>2. /\ Held("memory")' <=> step + 1 > 2
          /\ Held("cdev")' <=> step + 1 > 3
          /\ Held("node")' => step + 1 > 5
          /\ driver \in Panel => (Held("map")' <=> step + 1 > 6)
      BY <1>0, <2>3, <2>4, <2>6, <3>1
    <3> QED
      BY <2>2, <3>2 DEF LoadingInv, UnloadingInv
  <2>d. driver \in Panel /\ step + 1 > 4 => Held("class")' \/ ClassSpoilt(load)'
    BY <1>0, <1>h, <2>2, <2>3, <2>4, <2>7, <2>8
  <2>e. \A n \in files' : n = load' /\ (phase' = "in" \/ (phase' = "loading" /\ step' > 5 /\ early'))
    <3>1. \A n \in files : n = load /\ step > 5 /\ early
      BY <1>h, <2>2
    <3>2. step \in Int /\ phase' = "loading" /\ step' = step + 1
          /\ files' = files /\ load' = load /\ early' = early
      BY <1>0, <2>2
    <3> QED
      BY ONLY <3>1, <3>2
  <2> QED
    BY <1>m, <2>2, <2>a, <2>b, <2>c, <2>d, <2>e DEF OwnedInv
<1>3. CASE AcquireFails
  <2>1. PICK r \in {"memory", "class", "node"} :
          /\ Loading(r) /\ faults' = faults \cup {r}
          /\ IF r = "memory"
             THEN /\ phase' = IF driver = "fsmpu6050" THEN "bare" ELSE "out"
                  /\ UNCHANGED <<driver, step, load>>
             ELSE Advance
          /\ UNCHANGED <<held, files, converting, early, oops>>
    BY <1>3 DEF AcquireFails
  <2>2. /\ phase = "loading" /\ load' = load /\ driver' = driver
        /\ held' = held /\ files' = files /\ early' = early
        /\ load \in 1..load
        /\ \A q : Held(q)' <=> Held(q)
    BY <1>0, <2>1 DEF Advance, Loading, Held
  <2>3. \/ step = 2 /\ r = "memory" /\ phase' \in {"bare", "out"}
        \/ step = 4 /\ r = "class" /\ phase' = "loading" /\ step' = 5
        \/ step = 5 /\ r = "node" /\ phase' = "loading" /\ step' = 6
    BY <1>0, <2>1, LoadingStep DEF Advance
  <2>4. /\ Held("memory") <=> step > 2
        /\ Held("cdev") <=> step > 3
        /\ Held("node") => step > 5
        /\ driver \in Panel => (Held("map") <=> step > 6)
    BY <1>h, <2>2 DEF LoadingInv
  <2>5. CASE r = "memory"
    <3>1. \A q \in Mapping, n \in 1..load : <<q, n>> \notin held
      <4>1. \A q \in Mapping : ~Held(q)
        BY <1>0, <1>h, <2>2, <2>3, <2>4, <2>5 DEF Mapping, Held
      <4> QED
        BY <1>h, <4>1 DEF Held
    <3>2. files = {}
      BY <1>h, <2>2, <2>3, <2>5
    <3>3. ~Held("node")'
      BY <1>0, <2>2, <2>3, <2>4, <2>5
    <3>4. LoadingInv' /\ UnloadingInv' /\ phase' \in {"bare", "out"}
      BY <2>3, <2>5 DEF LoadingInv, UnloadingInv
    <3>5. \A q \in Mapping', n \in 1..load' : <<q, n>> \notin held'
      BY <1>m, <2>2, <3>1
    <3>6. driver = "fsmpu6050" => \A n \in 1..load' : <<"map", n>> \notin held'
      BY <1>h, <2>2
    <3> QED
      BY <2>2, <3>2, <3>3, <3>4, <3>5, <3>6 DEF OwnedInv
  <2>6. CASE r # "memory"
    <3>1. phase' = "loading" /\ step' = step + 1 /\ step > 3 /\ step < 6
      BY <2>3, <2>6
    <3>2. LoadingInv' /\ UnloadingInv'
      BY <1>0, <2>2, <2>4, <3>1 DEF LoadingInv, UnloadingInv
    <3>3. driver \in Panel => Held("class")' \/ ClassSpoilt(load)'
      <4>1. CASE r = "class"
        BY <2>1, <4>1 DEF ClassSpoilt
      <4>2. CASE r = "node"
        BY <1>h, <2>1, <2>2, <2>3, <4>2 DEF ClassSpoilt
      <4> QED
        BY <2>6, <4>1, <4>2
    <3> QED
      BY <1>m, <1>0, <1>h, <2>2, <3>1, <3>2, <3>3 DEF OwnedInv
  <2> QED
    BY <2>5, <2>6
<1>4. CASE Loaded
  <2>1. /\ phase = "loading" /\ step = 7 /\ phase' = "in" /\ step' = step
        /\ load' = load /\ driver' = driver /\ held' = held /\ files' = files
        /\ faults' = faults /\ load \in 1..load
        /\ \A q : Held(q)' <=> Held(q)
        /\ ClassSpoilt(load)' <=> ClassSpoilt(load)
    <3>1. step = 7
      <4>1. Len(LoadPlan[driver]) = 6
        BY ONLY <1>0, PlanLengths
      <4>2. step = Len(LoadPlan[driver]) + 1
        BY <1>4 DEF Loaded
      <4> QED
        BY ONLY <4>1, <4>2
    <3>2. /\ phase = "loading" /\ phase' = "in"
          /\ UNCHANGED <<driver, step, load, held, files, faults>>
      BY <1>4 DEF Loaded
    <3> QED
      BY <1>0, <3>1, <3>2 DEF Held, ClassSpoilt
  <2> QED
    BY <1>m, <1>0, <1>h, <2>1 DEF OwnedInv, LoadingInv, UnloadingInv
<1>5. CASE Rmmod
  <2>1. /\ phase \in {"in", "bare"} /\ load \notin files
        /\ phase' = (IF phase = "in" THEN "unloading" ELSE "out") /\ step' = 1
        /\ load' = load /\ driver' = driver /\ held' = held /\ files' = files
        /\ faults' = faults
        /\ \A q : Held(q)' <=> Held(q)
        /\ ClassSpoilt(load)' <=> ClassSpoilt(load)
    BY <1>0, <1>5 DEF Rmmod, Pinned, Held, ClassSpoilt
  <2>2. files = {}
    BY <1>h, <2>1
  <2>3. CASE phase = "in"
    BY <1>m, <1>0, <1>h, <2>1, <2>2, <2>3 DEF OwnedInv, LoadingInv, UnloadingInv
  <2>4. CASE phase = "bare"
    <3>1. \A q \in Mapping, n \in 1..load : <<q, n>> \notin held
      BY <1>h, <2>4
    <3> QED
      BY <1>m, <1>0, <2>1, <2>2, <2>4, <3>1 DEF OwnedInv, LoadingInv, UnloadingInv, Mapping, Panel
  <2> QED
    BY <2>1, <2>3, <2>4
<1>6. CASE Release
  <2>1. PICK r : /\ r = UnloadPlan[driver][step] /\ step <= Len(UnloadPlan[driver])
                 /\ \/ held' = held \ {<<r, load>>}
                    \/ held' = held /\ r = "node" /\ driver = "fsmpu6050"
                 /\ phase = "unloading" /\ phase' = "unloading" /\ step' = step + 1
                 /\ load' = load /\ driver' = driver /\ files' = files
                 /\ faults' = faults
    BY <1>6 DEF Release, Advance, MayBeBad
  <2>2. /\ driver \in Panel =>
              \/ step = 1 /\ r = "node"
              \/ step = 2 /\ r = "chrdev"
              \/ step = 3 /\ r = "map"
              \/ step = 4 /\ r = "cdev"
              \/ step = 5 /\ r = "memory"
        /\ driver = "fsmpu6050" =>
              \/ step = 1 /\ r = "cdev"
              \/ step = 2 /\ r = "class"
              \/ step = 3 /\ r = "node"
              \/ step = 4 /\ r = "memory"
    BY <1>0, <2>1, UnloadingStep
  <2>3. \A q : Held(q)' <=> Held(q) /\ (q # r \/ (held' = held /\ q = "node" /\ driver = "fsmpu6050"))
    BY <2>1 DEF Held
  <2>4. \A q, n : <<q, n>> \in held' => <<q, n>> \in held
    BY <2>1
  <2>5. \A q, n : n # load => (<<q, n>> \in held' <=> <<q, n>> \in held)
    BY <2>1
  <2>6. driver \in Panel => r # "class"
    BY <2>2
  <2>7. ClassSpoilt(load) => ClassSpoilt(load)'
    BY <1>0, <2>1, <2>5 DEF ClassSpoilt
  <2>8. UnloadingInv'
    <3>1. CASE driver \in Panel
      <4>1. /\ Held("memory") <=> step <= 5
            /\ Held("cdev") => step <= 4
            /\ Held("map") => step <= 3
            /\ Held("node") => step <= 1
        BY <1>h, <2>1, <3>1 DEF UnloadingInv
      <4>2. /\ Held("memory")' <=> step + 1 <= 5
            /\ Held("cdev")' => step + 1 <= 4
            /\ Held("map")' => step + 1 <= 3
            /\ Held("node")' => step + 1 <= 1
        BY <1>0, <2>2, <2>3, <3>1, <4>1
      <4> QED
        BY <2>1, <3>1, <4>2 DEF UnloadingInv
    <3>2. CASE driver = "fsmpu6050"
      <4>1. /\ Held("memory") <=> step <= 4
            /\ Held("cdev") => step <= 1
        BY <1>h, <2>1, <3>2 DEF UnloadingInv, Panel
      <4>2. /\ Held("memory")' <=> step + 1 <= 4
            /\ Held("cdev")' => step + 1 <= 1
        BY <1>0, <2>2, <2>3, <3>2, <4>1
      <4> QED
        BY <2>1, <3>2, <4>2 DEF UnloadingInv, Panel
    <3> QED
      BY <1>0, <3>1, <3>2
  <2>9. files' = {}
    BY <1>h, <2>1
  <2>a. driver \in Panel => Held("class")' \/ ClassSpoilt(load)'
    BY <1>h, <2>1, <2>3, <2>6, <2>7
  <2>b. \A q \in Mapping, n \in 1..load : <<q, n>> \in held' => n = load
    BY <1>h, <2>4
  <2>c. driver = "fsmpu6050" => \A n \in 1..load : <<"map", n>> \notin held'
    BY <1>h, <2>4
  <2>d. LoadingInv'
    BY <2>1 DEF LoadingInv
  <2> QED
    BY <1>m, <2>1, <2>8, <2>9, <2>a, <2>b, <2>c, <2>d DEF OwnedInv
<1>7. CASE Unloaded
  <2>1. /\ phase = "unloading" /\ phase' = "out"
        /\ load' = load /\ driver' = driver /\ held' = held /\ files' = files
        /\ step = IF driver \in Panel THEN 6 ELSE 5
    <3>1. Len(UnloadPlan[driver]) = IF driver \in Panel THEN 5 ELSE 4
      <4>1. CASE driver \in Panel
        BY ONLY <1>0, <4>1, PlanLengths
      <4>2. CASE driver \notin Panel
        BY ONLY <1>0, <4>2, PlanLengths
      <4> QED
        BY ONLY <4>1, <4>2
    <3>2. /\ phase = "unloading" /\ phase' = "out" /\ step = Len(UnloadPlan[driver]) + 1
          /\ UNCHANGED <<driver, load, held, files>>
      BY <1>7 DEF Unloaded
    <3> QED
      BY ONLY <3>1, <3>2
  <2>2. \A q \in Mapping : ~Held(q)
    <3>1. CASE driver \in Panel
      BY <1>h, <2>1, <3>1 DEF UnloadingInv, Mapping
    <3>2. CASE driver = "fsmpu6050"
      <4>1. ~Held("map")
        BY <1>0, <1>h, <2>1, <3>2 DEF Held
      <4> QED
        BY <1>h, <2>1, <3>2, <4>1 DEF UnloadingInv, Mapping, Panel
    <3> QED
      BY <1>0, <3>1, <3>2
  <2>3. \A q \in Mapping, n \in 1..load : <<q, n>> \notin held
    BY <1>h, <2>2 DEF Held
  <2>4. files = {}
    BY <1>h, <2>1
  <2> QED
    BY <1>m, <1>0, <2>1, <2>3, <2>4 DEF OwnedInv, LoadingInv, UnloadingInv, Mapping, Panel
<1>8. CASE Open
  <2>1. PICK n \in 1..MaxLoads :
          /\ <<"node", n>> \in held
          /\ phase = "unloading" => driver = "fsadc0"
          /\ files' = files \cup {n}
          /\ early' = (early \/ (phase = "loading" /\ n = load))
          /\ oops' = (~Code(n) \/ (driver = "fsbeeper0" /\ ~Mapped))
          /\ UNCHANGED <<moduleVars, held, converting, faults>>
    BY <1>8 DEF Open
  <2>2. ~oops' => n = load /\ (phase = "in" \/ (phase = "loading" /\ step > 5))
    <3> SUFFICES ASSUME ~oops' PROVE n = load /\ (phase = "in" \/ (phase = "loading" /\ step > 5))
      OBVIOUS
    <3>1. n = load /\ phase \in {"loading", "in", "bare"}
      BY <1>0, <2>1 DEF Code, LifecycleInv, LifecycleTypeOK
    <3>2. Held("node")
      BY <2>1, <3>1 DEF Held
    <3> QED
      BY <1>h, <3>1, <3>2 DEF LoadingInv
  <2>3. /\ phase' = phase /\ step' = step /\ load' = load /\ driver' = driver
        /\ held' = held /\ faults' = faults
        /\ \A q : Held(q)' <=> Held(q)
        /\ ClassSpoilt(load)' <=> ClassSpoilt(load)
        /\ LoadingInv' <=> LoadingInv
        /\ UnloadingInv' <=> UnloadingInv
    BY <2>1 DEF moduleVars, Held, ClassSpoilt, LoadingInv, UnloadingInv
  <2>4. ~oops' =>
          \A m \in files' : m = load /\ (phase = "in" \/ (phase = "loading" /\ step > 5 /\ early'))
    BY <1>h, <2>1, <2>2
  <2> QED
    BY <1>m, <1>h, <2>3, <2>4 DEF OwnedInv
<1>9. CASE Close \/ Use \/ Interrupt
  <2>1. /\ phase' = phase /\ step' = step /\ load' = load /\ driver' = driver
        /\ held' = held /\ faults' = faults /\ early' = early /\ files' \subseteq files
        /\ \A q : Held(q)' <=> Held(q)
        /\ ClassSpoilt(load)' <=> ClassSpoilt(load)
        /\ LoadingInv' <=> LoadingInv
        /\ UnloadingInv' <=> UnloadingInv
    BY <1>9 DEF Close, Use, Interrupt, moduleVars, Held, ClassSpoilt, LoadingInv, UnloadingInv
  <2> QED
    BY <1>m, <1>h, <2>1 DEF OwnedInv
<1> QED
  BY <1>1, <1>2, <1>3, <1>4, <1>5, <1>6, <1>7, <1>8, <1>9 DEF LifecycleNext, Module, Program

(* What the ADC driver leaves only grows, and spoils every later class.     *)
LEMMA AdcStep ==
  ASSUME LifecycleInv, LifecycleNext
  PROVE  AdcInv'
<1> SUFFICES ASSUME driver = "fsadc0" PROVE AdcInv'
  <2>1. driver' = driver
    BY DEF LifecycleNext, Module, Program, Insmod, Acquire, AcquireFails, Loaded, Rmmod,
           Release, Unloaded, Open, Close, Use, Interrupt, Advance, moduleVars
  <2> QED
    BY <2>1 DEF AdcInv
<1> USE LifecycleAssumption DEF LifecycleAssumption
<1>0. /\ driver = "fsadc0" /\ driver \in Driver /\ driver \notin Owned /\ step \in 1..7 /\ load \in 0..MaxLoads
      /\ held \subseteq Resource \X (1..load) /\ files \subseteq 1..load
      /\ phase # "out" => load > 0
  BY DEF LifecycleInv, LifecycleTypeOK, Owned, Driver
<1>h. /\ phase # "bare"
      /\ \A n \in files : <<"node", n>> \in held
      /\ \A n \in 1..load : <<"node", n>> \in held => <<"class", n>> \in held
      /\ load > 1 => ClassSpoilt(load)
      /\ load > 0 /\ (phase # "loading" \/ step > 4) => ClassSpoilt(load + 1)
  BY DEF LifecycleInv, AdcInv
<1>1. CASE Insmod
  <2>1. /\ phase = "out" /\ phase' = "loading" /\ step' = 1 /\ load' = load + 1
        /\ driver' = driver /\ held' = held /\ files' = files /\ faults' = faults
    BY <1>1 DEF Insmod
  <2>2. load' > 1 => ClassSpoilt(load)'
    BY <1>0, <1>h, <2>1 DEF ClassSpoilt
  <2>3. \A n \in 1..load' : <<"node", n>> \in held' => <<"class", n>> \in held'
    BY <1>0, <1>h, <2>1
  <2> QED
    BY <1>h, <2>1, <2>2, <2>3 DEF AdcInv
<1>2. CASE Acquire
  <2>1. PICK r \in Resource :
             /\ Loading(r)
             /\ held' = IF Refused(r) THEN held ELSE held \cup {<<r, load>>}
             /\ Advance
             /\ UNCHANGED <<files, converting, early, faults, oops>>
    BY <1>2 DEF Acquire
  <2>2. /\ phase = "loading" /\ phase' = "loading" /\ step' = step + 1 /\ load' = load
        /\ driver' = driver /\ files' = files /\ faults' = faults /\ load \in 1..load
        /\ held \subseteq held'
    BY <1>0, <2>1 DEF Advance, Loading
  <2>3. \/ step = 1 /\ r = "irq"
        \/ step = 2 /\ r = "map"
        \/ step = 3 /\ r = "chrdev"
        \/ step = 4 /\ r = "class"
        \/ step = 5 /\ r = "node"
    BY <1>0, <2>1, LoadingStep
  <2>4. \A n \in 1..load' : <<"node", n>> \in held' => <<"class", n>> \in held'
    <3>1. CASE r = "node"
      BY <1>h, <2>1, <2>2, <3>1 DEF Refused, Held
    <3>2. CASE r # "node"
      BY <1>h, <2>1, <2>2, <3>2
    <3> QED
      BY <3>1, <3>2
  <2>5. \A n : ClassSpoilt(n) =>
          "class" \in faults' \/ \E m \in 1..n - 1 : <<"class", m>> \in held'
    BY <2>2 DEF ClassSpoilt
  <2>6. load' > 1 => ClassSpoilt(load)'
    BY <1>h, <2>2, <2>5 DEF ClassSpoilt
  <2>7. step' > 4 => ClassSpoilt(load + 1)'
    <3>1. CASE r = "class"
      <4>1. PICK n \in 1..load : <<"class", n>> \in held'
        <5>1. CASE Refused(r)
          BY <1>0, <2>2, <3>1, <5>1 DEF Refused, Remains
        <5>2. CASE ~Refused(r)
          BY <2>1, <2>2, <3>1, <5>2
        <5> QED
          BY <5>1, <5>2
      <4> QED
        BY <1>0, <2>2, <4>1 DEF ClassSpoilt
    <3>2. CASE r = "node"
      BY <1>0, <1>h, <2>2, <2>3, <2>5, <3>2 DEF ClassSpoilt
    <3> QED
      BY <2>2, <2>3, <3>1, <3>2
  <2> QED
    BY <1>h, <2>2, <2>4, <2>6, <2>7 DEF AdcInv
<1>3. CASE AcquireFails
  <2>1. PICK r \in {"memory", "class", "node"} :
          /\ Loading(r) /\ faults' = faults \cup {r}
          /\ IF r = "memory"
             THEN /\ phase' = IF driver = "fsmpu6050" THEN "bare" ELSE "out"
                  /\ UNCHANGED <<driver, step, load>>
             ELSE Advance
          /\ UNCHANGED <<held, files, converting, early, oops>>
    BY <1>3 DEF AcquireFails
  <2>2. (step = 4 /\ r = "class") \/ (step = 5 /\ r = "node")
    BY <1>0, <2>1, LoadingStep
  <2>3. /\ phase = "loading" /\ phase' = "loading" /\ step' = step + 1 /\ load' = load
        /\ driver' = driver /\ held' = held /\ files' = files
    BY <2>1, <2>2 DEF Advance, Loading
  <2>4. /\ load' > 1 => ClassSpoilt(load)'
        /\ step' > 4 => ClassSpoilt(load + 1)'
    BY <1>0, <1>h, <2>1, <2>2, <2>3 DEF ClassSpoilt
  <2> QED
    BY <1>h, <2>3, <2>4 DEF AdcInv
<1>4. CASE Loaded \/ Unloaded \/ Rmmod
  <2>1. /\ UNCHANGED <<driver, load, held, files, faults>>
        /\ phase \in {"loading", "unloading", "in"}
        /\ phase' \in {"in", "out", "unloading"}
        /\ phase = "loading" => step > 4
    <3>1. Len(LoadPlan[driver]) = 5
      BY ONLY <1>0, PlanLengths
    <3> QED
      BY <1>h, <1>4, <3>1 DEF Loaded, Unloaded, Rmmod
  <2>2. ClassSpoilt(load)' <=> ClassSpoilt(load)
    BY <2>1 DEF ClassSpoilt
  <2>3. ClassSpoilt(load + 1)' <=> ClassSpoilt(load + 1)
    BY <2>1 DEF ClassSpoilt
  <2> QED
    BY <1>h, <2>1, <2>2, <2>3 DEF AdcInv
<1>5. CASE Release
  <2>1. step <= Len(UnloadPlan[driver])
    BY <1>5 DEF Release
  <2>2. Len(UnloadPlan[driver]) = 0
    BY ONLY <1>0, PlanLengths
  <2> QED
    BY <1>0, <2>1, <2>2
<1>6. CASE Program
  <2>1. /\ UNCHANGED moduleVars /\ held' = held /\ faults' = faults
        /\ \A n \in files' : n \in files \/ <<"node", n>> \in held
    BY <1>6 DEF Program, Open, Close, Use, Interrupt
  <2>2. /\ ClassSpoilt(load)' <=> ClassSpoilt(load)
        /\ ClassSpoilt(load + 1)' <=> ClassSpoilt(load + 1)
    BY <2>1 DEF ClassSpoilt, moduleVars
  <2> QED
    BY <1>h, <2>1, <2>2 DEF AdcInv, moduleVars
<1> QED
  BY <1>1, <1>2, <1>3, <1>4, <1>5, <1>6 DEF LifecycleNext, Module

(* A step that uses what is not there has one of the excuses.               *)
LEMMA SurvivesStep ==
  ASSUME LifecycleInv, LifecycleNext
  PROVE  KernelSurvives'
<1> SUFFICES ASSUME oops' PROVE KernelSurvives'
  BY DEF KernelSurvives
<1> USE LifecycleAssumption DEF LifecycleAssumption
<1>0. /\ driver \in Driver /\ step \in 1..7 /\ load \in 0..MaxLoads
      /\ held \subseteq Resource \X (1..load) /\ files \subseteq 1..load
      /\ phase # "out" => load > 0
      /\ driver # "fsadc0" <=> driver \in Owned
      /\ ~oops /\ OwnedInv /\ AdcInv
      /\ converting => driver = "fsadc0"
  BY DEF LifecycleInv, LifecycleTypeOK, LifecycleNext, Owned, Driver
<1>1. CASE Insmod \/ Acquire \/ AcquireFails \/ Loaded \/ Rmmod \/ Unloaded
  BY <1>0, <1>1 DEF Insmod, Acquire, AcquireFails, Loaded, Rmmod, Unloaded
<1>2. CASE Release
  <2>1. PICK r : /\ r = UnloadPlan[driver][step] /\ step <= Len(UnloadPlan[driver])
                 /\ held' = held \ {<<r, load>>} \/ driver = "fsmpu6050"
                 /\ MayBeBad(r) \/ BadPointer(r)
                 /\ phase = "unloading" /\ phase' = "unloading"
                 /\ load' = load /\ driver' = driver /\ faults' = faults
    BY <1>2 DEF Release, Advance, MayBeBad
  <2>2. /\ driver \in Owned
        /\ driver \in Panel =>
              \/ step = 1 /\ r = "node"
              \/ step = 2 /\ r = "chrdev"
              \/ step = 3 /\ r = "map"
              \/ step = 4 /\ r = "cdev"
              \/ step = 5 /\ r = "memory"
    BY <1>0, <2>1, UnloadingStep
  <2>3. CASE driver \in Panel
    <3>1. Held("memory") /\ (Held("class") \/ ClassSpoilt(load))
      BY <1>0, <2>1, <2>2, <2>3 DEF OwnedInv, UnloadingInv
    <3>2. r = "node" /\ ~Held("class")
      BY <2>1, <2>3, <3>1 DEF MayBeBad, BadPointer, Panel
    <3> QED
      BY <2>1, <2>3, <3>1, <3>2 DEF ClassSpoilt, KernelSurvives, Panel
  <2>4. CASE driver \notin Panel
    BY <1>0, <2>1, <2>2, <2>4 DEF Driver, Panel, KernelSurvives
  <2> QED
    BY <2>3, <2>4
<1>3. CASE Open \/ Close \/ Use
  <2>1. PICK n \in 1..load :
          /\ \/ n \in files
             \/ <<"node", n>> \in held /\ (phase = "unloading" => driver = "fsadc0")
          /\ ~Code(n) \/ (driver \in Panel /\ ~Held("map"))
          /\ n \in files /\ early => early'
          /\ n \notin files => (early' <=> early \/ (phase = "loading" /\ n = load))
          /\ UNCHANGED <<moduleVars, held, faults>>
    <3>1. Mapped <=> (driver \in Panel => Held("map"))
      BY DEF Mapped, Panel
    <3>2. driver = "fsbeeper0" => driver \in Panel
      BY DEF Panel
    <3>3. CASE Open
      BY <1>0, <3>1, <3>2, <3>3 DEF Open
    <3>4. CASE Close \/ Use
      <4>1. PICK n \in files : ~Code(n) \/ (driver \in Panel /\ ~Held("map"))
        BY <3>1, <3>2, <3>4 DEF Close, Use
      <4>2. early' = early /\ UNCHANGED <<moduleVars, held, faults>>
        BY <3>4 DEF Close, Use
      <4>3. n \in 1..load
        BY <1>0
      <4> QED
        BY ONLY <4>1, <4>2, <4>3
    <3> QED
      BY <1>3, <3>3, <3>4
  <2>2. CASE driver \in Owned
    <3>1. CASE n \in files \/ driver \in Panel
      <4>1. n = load /\ (phase = "in" \/ (phase = "loading" /\ (n \in files => early)))
        <5>1. CASE n \in files
          BY <1>0, <2>2, <5>1 DEF OwnedInv
        <5>2. CASE n \notin files
          BY <1>0, <2>1, <2>2, <3>1, <5>2 DEF OwnedInv, Mapping
        <5> QED
          BY <5>1, <5>2
      <4>2. driver \in Panel /\ ~Held("map")
        BY <2>1, <4>1 DEF Code
      <4>3. phase = "loading"
        BY <1>0, <2>2, <4>1, <4>2 DEF OwnedInv
      <4>4. early'
        BY <2>1, <4>1, <4>3
      <4> QED
        BY <4>4 DEF KernelSurvives
    <3>2. CASE n \notin files /\ driver \notin Panel
      <4>1. driver = "fsmpu6050" /\ <<"node", n>> \in held /\ ~Code(n)
        BY <1>0, <2>1, <2>2, <3>2 DEF Owned, Driver, Panel
      <4>2. driver' = driver /\ load' = load /\ phase' = phase /\ held' = held
        BY <2>1 DEF moduleVars
      <4> QED
        BY <4>1, <4>2 DEF KernelSurvives, Code
    <3> QED
      BY <3>1, <3>2
  <2>3. CASE driver = "fsadc0"
    <3>1. ~Code(n) /\ <<"class", n>> \in held
      BY <1>0, <2>1, <2>3 DEF Panel, AdcInv
    <3>2. CASE phase = "out"
      BY <2>1, <2>3, <3>2 DEF KernelSurvives, moduleVars
    <3>3. CASE phase # "out"
      <4>1. n \in 1..load - 1
        BY <1>0, <3>1, <3>3 DEF Code
      <4> QED
        BY <2>1, <3>1, <4>1 DEF KernelSurvives, moduleVars
    <3> QED
      BY <3>2, <3>3
  <2> QED
    BY <1>0, <2>2, <2>3
<1>4. CASE Interrupt
  <2>1. PICK n \in 1..load : <<"irq", n>> \in held /\ ~Code(n)
    BY <1>0, <1>4 DEF Interrupt
  <2>2. /\ driver = "fsadc0" /\ UNCHANGED <<moduleVars, held, faults>>
    BY <1>0, <1>4 DEF Interrupt
  <2>3. CASE phase = "out"
    BY <2>2, <2>3 DEF KernelSurvives, moduleVars
  <2>4. CASE phase # "out"
    <3>1. load > 1
      BY <1>0, <2>1, <2>4 DEF Code
    <3>2. ClassSpoilt(load)
      BY <1>0, <2>2, <3>1 DEF AdcInv
    <3> QED
      BY <2>2, <3>2 DEF ClassSpoilt, KernelSurvives, moduleVars
  <2> QED
    BY <2>3, <2>4
<1> QED
  BY <1>1, <1>2, <1>3, <1>4 DEF LifecycleNext, Module, Program

(* So every step of the lifecycle keeps its invariant.                      *)
LEMMA LifecycleStep ==
  ASSUME LifecycleInv, LifecycleNext
  PROVE  LifecycleInv'
<1>1. phase' # "out" => load' > 0
  <2>0. load \in Nat /\ (phase # "out" => load > 0)
    BY LifecycleAssumption DEF LifecycleAssumption, LifecycleInv, LifecycleTypeOK
  <2>1. CASE Insmod
    BY <2>0, <2>1 DEF Insmod
  <2>2. CASE Acquire \/ AcquireFails
    BY <2>0, <2>2 DEF Acquire, AcquireFails, Loading, Advance
  <2>3. CASE Loaded \/ Rmmod \/ Release \/ Unloaded
    BY <2>0, <2>3 DEF Loaded, Rmmod, Release, Unloaded, Advance
  <2>4. CASE Program
    BY <2>0, <2>4 DEF Program, Open, Close, Use, Interrupt, moduleVars
  <2> QED
    BY <2>1, <2>2, <2>3, <2>4 DEF LifecycleNext, Module
<1>2. converting' => driver' = "fsadc0"
  <2>0. converting => driver = "fsadc0"
    BY DEF LifecycleInv
  <2>1. CASE Insmod \/ Acquire \/ AcquireFails
    BY <2>0, <2>1 DEF Insmod, Acquire, AcquireFails, Advance
  <2>2. CASE Loaded \/ Rmmod \/ Release \/ Unloaded
    BY <2>0, <2>2 DEF Loaded, Rmmod, Release, Unloaded, Advance
  <2>3. CASE Program
    BY <2>0, <2>3 DEF Program, Open, Close, Use, Interrupt, moduleVars
  <2> QED
    BY <2>1, <2>2, <2>3 DEF LifecycleNext, Module
<1> QED
  BY <1>1, <1>2, LifecycleTypeStep, OwnedStep, AdcStep, SurvivesStep DEF LifecycleInv

(* Setting up the sensor is the last call of the MPU6050's init function.   *)
LEMMA InitMpu6050Step ==
  ASSUME LifecycleInv, InitMpu6050
  PROVE  LifecycleInv'
<1>1. /\ driver = "fsmpu6050" /\ driver \in Driver /\ driver \notin Panel /\ driver # "fsadc0"
      /\ Loading("i2c") /\ Advance /\ step \in 1..7
      /\ UNCHANGED <<held, files, converting, early, faults, oops>>
  BY DEF InitMpu6050, Driver, Panel, LifecycleInv, LifecycleTypeOK
<1>2. /\ phase = "loading" /\ step = 6
      /\ step' = 7 /\ UNCHANGED <<driver, phase, load>>
  <2>1. step = 6
    BY <1>1, LoadingStep DEF Owned
  <2> QED
    BY <1>1, <2>1 DEF Loading, Advance
<1>3. LifecycleTypeOK'
  BY <1>1, <1>2 DEF LifecycleInv, LifecycleTypeOK
<1>4. OwnedInv'
  <2>1. OwnedInv /\ driver \in Owned
    BY <1>1 DEF LifecycleInv, Owned
  <2>2. \A q : Held(q)' <=> Held(q)
    BY <1>1, <1>2 DEF Held
  <2>3. LoadingInv' /\ UnloadingInv'
    BY <1>1, <1>2, <2>1, <2>2 DEF OwnedInv, LoadingInv, UnloadingInv
  <2>4. Mapping' = Mapping
    BY <1>2 DEF Mapping
  <2> QED
    BY <1>1, <1>2, <2>1, <2>2, <2>3, <2>4 DEF OwnedInv
<1>5. AdcInv'
  BY <1>1, <1>2 DEF AdcInv
<1>6. KernelSurvives'
  BY <1>1, <1>2 DEF LifecycleInv, KernelSurvives, Code
<1> QED
  BY <1>1, <1>2, <1>3, <1>4, <1>5, <1>6 DEF LifecycleInv

(* Outside of it, the lifecycle is left alone.                              *)
LEMMA LifecycleKept ==
  ASSUME LifecycleInv, UNCHANGED lifecycle
  PROVE  LifecycleInv'
<1>1. UNCHANGED <<driver, phase, step, load, held, files, converting, early, faults, oops>>
  BY DEF lifecycle
<1>2. LifecycleTypeOK'
  BY <1>1 DEF LifecycleInv, LifecycleTypeOK
<1>3. OwnedInv'
  BY <1>1 DEF LifecycleInv, OwnedInv, LoadingInv, UnloadingInv, ClassSpoilt, Held, Mapping
<1>4. AdcInv'
  BY <1>1 DEF LifecycleInv, AdcInv, ClassSpoilt
<1>5. KernelSurvives'
  BY <1>1 DEF LifecycleInv, KernelSurvives, Code
<1> QED
  BY <1>1, <1>2, <1>3, <1>4, <1>5 DEF LifecycleInv

(* Storing the next register: the first byte of an axis as it is, the       *)
(* second shifted.  No other axis is touched.                               *)
LEMMA StoreStep ==
  ASSUME TypeOK, cmd # "none", done < Len(Registers(cmd)),
         NEW b \in Int, 0 <= b, b <= 255, Store(b)
  PROVE  /\ data' \in [1..3 -> Short16]
         /\ Registers(cmd)[done + 1].axis \in 1..3
         /\ \A a \in 1..3 : a # Registers(cmd)[done + 1].axis => data'[a] = data[a]
         /\ done % 2 = 1 => data'[Registers(cmd)[done + 1].axis] = Short(256 * b)
<1> DEFINE a == Registers(cmd)[done + 1].axis
           v == IF done % 2 = 0 THEN b ELSE Short(256 * b)
<1>1. cmd \in Command /\ done \in Nat /\ data \in [1..3 -> Short16]
  BY DEF TypeOK
<1>2. a \in 1..3
  <2>1. done + 1 \in 1..Len(Registers(cmd))
    BY <1>1, RegisterOrder
  <2>2. a \in Axes(cmd)
    BY <1>1, <2>1, RegisterOrder
  <2> QED
    BY <2>2 DEF Axes
<1>3. data' = [data EXCEPT ![a] = v]
  BY DEF Store, Combined
<1>4. v \in Short16
  BY ShortRange
<1> HIDE DEF a, v
<1>5. /\ data' \in [1..3 -> Short16] /\ data'[a] = v
      /\ \A i \in 1..3 : i # a => data'[i] = data[i]
  BY ONLY <1>1, <1>2, <1>3, <1>4
<1>6. done % 2 = 1 => v = Short(256 * b)
  BY DEF v
<1> QED
  BY <1>2, <1>5, <1>6 DEF a

(* A register's byte is one.                                                *)
LEMMA ByteRange ==
  ASSUME NEW v \in Short16, NEW h
  PROVE  /\ RegisterByte(v, h) \in Int
         /\ 0 <= RegisterByte(v, h) /\ RegisterByte(v, h) <= 255
<1>1. CASE h
  <2>1. RegisterByte(v, h) = RegisterByte(v, TRUE)
    BY <1>1 DEF RegisterByte
  <2>2. /\ RegisterByte(v, TRUE) \in Int
        /\ 0 <= RegisterByte(v, TRUE) /\ RegisterByte(v, TRUE) <= 255
    BY HighByte, ZenonT(30)
  <2> QED
    BY ONLY <2>1, <2>2
<1>2. CASE ~h
  <2>1. RegisterByte(v, h) = RegisterByte(v, FALSE)
    BY <1>2 DEF RegisterByte
  <2> QED
    BY <2>1, LowByte
<1> QED
  BY <1>1, <1>2

(* What the sensor shows is always three numbers of 16 bits.                *)
LEMMA SensorRange ==
  ASSUME NEW s \in Readings \cup {Asleep}
  PROVE  s \in [1..3 -> Short16]
<1>1. Asleep \in [1..3 -> Short16]
  <2>1. 0 \in Short16
    BY DEF Short16
  <2> QED
    BY <2>1 DEF Asleep
<1> QED
  BY <1>1, ReadingAssumption DEF ReadingAssumption

(* Every step keeps the invariant.                                          *)
LEMMA NextIInv ==
  ASSUME IInv, [Next]_vars
  PROVE  IInv'
<1> USE DEF IInv
<1>0. /\ awake \in BOOLEAN /\ cmd \in Command \cup {"none"} /\ done \in 0..6
      /\ sensor \in Readings \cup {Asleep} /\ seen \subseteq Readings \cup {Asleep}
      /\ data \in [1..3 -> Short16] /\ errors \in 0..MaxErrors /\ MaxErrors \in Nat
      /\ LifecycleInv
  BY ReadingAssumption DEF ReadingAssumption, TypeOK
<1>1. CASE Lifecycle
  <2>1. LifecycleInv'
    BY <1>1, LifecycleStep DEF Lifecycle
  <2> QED
    BY <1>1, <2>1 DEF Lifecycle, reading, TypeOK, AxisInv, LifecycleInv
<1>2. CASE InitMpu6050
  <2>1. LifecycleInv'
    BY <1>2, InitMpu6050Step
  <2>2. awake' \in BOOLEAN /\ UNCHANGED <<cmd, done, sensor, seen, data, errors>>
    BY <1>0, <1>2 DEF InitMpu6050
  <2> QED
    BY <2>1, <2>2 DEF TypeOK, AxisInv, LifecycleInv
<1>3. CASE Ioctl
  <2>1. /\ cmd' \in Command /\ done' = 0 /\ errors' = 0 /\ data' = Asleep
        /\ sensor' \in Readings \cup {Asleep} /\ seen' = {sensor'}
        /\ UNCHANGED <<lifecycle, awake>>
    BY <1>3 DEF Ioctl, Measured
  <2>2. LifecycleInv'
    BY <2>1, LifecycleKept
  <2>3. data' \in [1..3 -> Short16]
    BY <2>1, SensorRange
  <2>4. TypeOK'
    BY <1>0, <2>1, <2>2, <2>3 DEF TypeOK, LifecycleInv
  <2>5. AxisInv'
    <3>1. 0 <= Len(Registers(cmd'))
      BY <2>1, RegisterOrder
    <3>2. \A a \in Axes(cmd') : ~(0 >= 2 * a)
      BY DEF Axes
    <3> QED
      BY <2>1, <3>1, <3>2 DEF AxisInv
  <2> QED
    BY <2>2, <2>4, <2>5
<1>4. CASE Measure
  <2>1. /\ sensor' \in Readings /\ seen' = seen \cup {sensor'}
        /\ UNCHANGED <<lifecycle, awake, cmd, done, data, errors>>
    BY <1>4 DEF Measure
  <2>2. LifecycleInv'
    BY <2>1, LifecycleKept
  <2>3. TypeOK'
    BY <1>0, <2>1, <2>2 DEF TypeOK, LifecycleInv
  <2>4. AxisInv'
    BY <2>1 DEF AxisInv
  <2> QED
    BY <2>2, <2>3, <2>4
<1>5. CASE ReadByte
  <2> DEFINE r == Registers(cmd)[done + 1]
  <2>1. /\ cmd # "none" /\ done < Len(Registers(cmd))
        /\ Store(RegisterByte(sensor[r.axis], r.high)) /\ done' = done + 1
        /\ UNCHANGED <<lifecycle, awake, cmd, sensor, seen, errors>>
    BY <1>5 DEF ReadByte
  <2>2. cmd \in Command /\ done + 1 \in 1..Len(Registers(cmd))
    <3>1. cmd \in Command /\ Len(Registers(cmd)) \in 0..6
      BY <1>0, <2>1, RegisterOrder
    <3> QED
      BY <1>0, <2>1, <3>1
  <2>a. r.axis \in 1..3
    BY <2>2, RegisterOrder DEF Axes
  <2>d. done' \in 0..6 /\ done' <= Len(Registers(cmd))
    <3>1. Len(Registers(cmd)) \in 0..6
      BY <1>0, <2>1, RegisterOrder
    <3> QED
      BY <1>0, <2>1, <3>1
  <2> HIDE DEF r
  <2>3. sensor[r.axis] \in Short16
    BY <1>0, <2>a, SensorRange
  <2>4. PICK b \in Int : b = RegisterByte(sensor[r.axis], r.high) /\ 0 <= b /\ b <= 255
    BY <2>3, ByteRange
  <2>5. /\ data' \in [1..3 -> Short16]
        /\ \A a \in 1..3 : a # r.axis => data'[a] = data[a]
        /\ done % 2 = 1 => data'[r.axis] = Short(256 * b)
    BY <2>1, <2>4, StoreStep DEF r
  <2>6. LifecycleInv'
    BY <2>1, LifecycleKept
  <2>7. TypeOK'
    BY <1>0, <2>1, <2>5, <2>6, <2>d DEF TypeOK, LifecycleInv
  <2>8. ASSUME errors = 0, NEW a \in Axes(cmd), done + 1 >= 2 * a
        PROVE  \E s \in seen : s[a] \in data'[a]..data'[a] + 255
    <3>0. a \in 1..3
      BY DEF Axes
    <3>1. sensor \in seen
      BY <2>1 DEF AxisInv
    <3>2. CASE done % 2 = 1
      <4>1. (done + 1) % 2 = 0
        BY <1>0, <3>2
      <4>2. done + 1 = 2 * r.axis /\ r.high
        BY <2>2, <4>1, RegisterOrder DEF r
      <4>3. CASE a = r.axis
        <5>1. sensor[a] \in Short(256 * b)..Short(256 * b) + 255
          <6>1. b = RegisterByte(sensor[r.axis], TRUE)
            BY <2>4, <4>2 DEF RegisterByte
          <6>2. sensor[r.axis] \in Short(256 * b)..Short(256 * b) + 255
            BY ONLY <2>3, <6>1, HighByte, ZenonT(30)
          <6> QED
            BY ONLY <4>3, <6>2
        <5> QED
          BY <2>5, <3>1, <3>2, <4>3, <5>1
      <4>4. CASE a # r.axis
        <5>1. done >= 2 * a
          BY <1>0, <2>a, <2>8, <3>0, <4>2, <4>4
        <5>2. \E s \in seen : s[a] \in data[a]..data[a] + 255
          BY <2>1, <2>8, <5>1 DEF AxisInv
        <5> QED
          BY <2>5, <3>0, <4>4, <5>2
      <4> QED
        BY <4>3, <4>4
    <3>3. CASE done % 2 # 1
      <4>1. (done + 1) % 2 = 1
        BY <1>0, <3>3
      <4>2. done + 2 = 2 * r.axis
        BY <1>0, <2>2, <4>1, RegisterOrder DEF r
      <4>3. done >= 2 * a /\ a # r.axis
        BY <1>0, <2>a, <2>8, <3>0, <4>2
      <4>4. \E s \in seen : s[a] \in data[a]..data[a] + 255
        BY <2>1, <2>8, <4>3 DEF AxisInv
      <4> QED
        BY <2>5, <3>0, <4>3, <4>4
    <3> QED
      BY <3>2, <3>3
  <2>9. AxisInv'
    BY <2>1, <2>8, <2>d DEF AxisInv
  <2> QED
    BY <2>6, <2>7, <2>9
<1>6. CASE ReadByteFails
  <2>1. /\ cmd # "none" /\ done < Len(Registers(cmd)) /\ errors < MaxErrors
        /\ Store(Eio) /\ done' = done + 1 /\ errors' = errors + 1
        /\ UNCHANGED <<lifecycle, awake, cmd, sensor, seen>>
    BY <1>6 DEF ReadByteFails
  <2>2. Len(Registers(cmd)) \in 0..6
    BY <1>0, <2>1, RegisterOrder
  <2>3. data' \in [1..3 -> Short16]
    <3>1. Eio \in Int /\ 0 <= Eio /\ Eio <= 255
      BY DEF Eio
    <3> QED
      BY <2>1, <3>1, StoreStep
  <2>4. LifecycleInv'
    BY <2>1, LifecycleKept
  <2>5. errors' \in 0..MaxErrors /\ errors' # 0
    <3>1. /\ errors \in Int /\ 0 <= errors /\ MaxErrors \in Int
          /\ errors < MaxErrors /\ errors' = errors + 1
      BY <1>0, <2>1
    <3> QED
      BY ONLY <3>1
  <2>d. done' \in 0..6 /\ done' <= Len(Registers(cmd))
    <3>1. PICK n \in 0..6 : n = Len(Registers(cmd))
      BY <2>2
    <3>2. done \in 0..6 /\ done < n /\ done' = done + 1
      BY <1>0, <2>1, <3>1
    <3> QED
      BY ONLY <3>1, <3>2
  <2>6. TypeOK'
    BY <1>0, <2>1, <2>3, <2>4, <2>5, <2>d DEF TypeOK, LifecycleInv
  <2>7. AxisInv'
    BY <1>0, <2>1, <2>5, <2>d DEF AxisInv
  <2> QED
    BY <2>4, <2>6, <2>7
<1>7. CASE CopyToUser
  <2>1. /\ cmd' = "none" /\ done' = 0 /\ sensor' = Asleep /\ seen' = {} /\ data' = Asleep
        /\ errors' = 0 /\ UNCHANGED <<lifecycle, awake>>
    BY <1>7 DEF CopyToUser
  <2>2. LifecycleInv'
    BY <2>1, LifecycleKept
  <2>3. data' \in [1..3 -> Short16]
    BY <2>1, SensorRange
  <2> QED
    BY <1>0, <2>1, <2>2, <2>3 DEF TypeOK, LifecycleInv, AxisInv
<1>8. CASE UNCHANGED vars
  <2>1. LifecycleInv'
    BY <1>8, LifecycleKept DEF vars
  <2> QED
    BY <1>8, <2>1 DEF vars, reading, TypeOK, AxisInv, LifecycleInv
<1> QED
  BY <1>1, <1>2, <1>3, <1>4, <1>5, <1>6, <1>7, <1>8 DEF Next

LEMMA Invariants == Spec => []IInv
<1>1. IInv /\ [Next]_vars => IInv'
  BY NextIInv
<1> QED
  BY InitIInv, <1>1, PTL DEF Spec

-----------------------------------------------------------------------------
(* The variables of both modules stay in their types; in particular what an *)
(* ioctl hands out fits into the short it is stored in.                     *)
THEOREM TypeCorrect == Spec => []TypeOK
<1>1. IInv => TypeOK
  BY DEF IInv
<1> QED
  BY <1>1, Invariants, PTL

(* While a file of the LED, beeper or MPU6050 driver is open, its code, its *)
(* structure and its cdev are there: rmmod, a failing allocation and a      *)
(* failing class_create or device_create cannot take them away.             *)
THEOREM OpenCorrect == Spec => []OpenIsLive
<1>1. IInv => OpenIsLive
  <2> SUFFICES ASSUME IInv, driver # "fsadc0", ~oops, NEW n \in files
               PROVE  Code(n) /\ Held("memory") /\ Held("cdev")
    BY DEF OpenIsLive
  <2>1. OwnedInv /\ driver \in Owned /\ step \in 1..7
    BY DEF IInv, LifecycleInv, LifecycleTypeOK, Owned
  <2>2. n = load /\ (phase = "in" \/ (phase = "loading" /\ step > 5))
    BY <2>1 DEF OwnedInv
  <2> QED
    BY <2>1, <2>2 DEF OwnedInv, LoadingInv, Code
<1> QED
  BY <1>1, Invariants, PTL

(* Once such a driver is out, no load of it has left a structure, a cdev or *)
(* a mapping, and no node but the MPU6050's: the exit functions undo what   *)
(* the init functions did, and what init leaves behind when the allocation  *)
(* fails is the registered number.                                          *)
THEOREM UnmapCorrect == Spec => []NothingLeftMapped
<1>1. IInv => NothingLeftMapped
  <2> SUFFICES ASSUME IInv, driver # "fsadc0", phase = "out"
               PROVE  \A r \in Mapping : ~Remains(r)
    BY DEF NothingLeftMapped, Mapping, Panel, IInv, LifecycleInv, LifecycleTypeOK, Driver
  <2> SUFFICES ASSUME NEW r \in Mapping, Remains(r) PROVE FALSE
    OBVIOUS
  <2>1. OwnedInv /\ driver \in Owned /\ held \subseteq Resource \X (1..load)
    BY DEF IInv, LifecycleInv, LifecycleTypeOK, Owned
  <2>2. PICK n \in 1..load : <<r, n>> \in held
    BY <2>1 DEF Remains
  <2> QED
    BY <2>1, <2>2 DEF OwnedInv
<1> QED
  BY <1>1, Invariants, PTL

(* The kernel only ever uses what is not there for one of the reasons that  *)
(* KernelSurvives lists, however often the modules are loaded.              *)
THEOREM KernelCorrect == Spec => []KernelSurvives
<1>1. IInv => KernelSurvives
  BY DEF IInv, LifecycleInv
<1> QED
  BY <1>1, Invariants, PTL

(* For any readings of 16 bits, negative ones included: an axis read        *)
(* without error is at most 255 below a value it had during the ioctl.      *)
THEOREM NearCorrect == Spec => []ReadingNear
<1>1. IInv => ReadingNear
  <2> SUFFICES ASSUME IInv, cmd # "none", done = Len(Registers(cmd)), errors = 0,
                      NEW a \in Axes(cmd)
               PROVE  \E s \in seen : s[a] \in data[a]..data[a] + 255
    BY DEF ReadingNear
  <2>1. cmd \in Command
    BY DEF IInv, TypeOK
  <2>2. done = IF cmd = "GET_TEMP" THEN 2 ELSE 6
    BY <2>1, RegisterOrder
  <2>3. a \in 1..3 /\ (cmd = "GET_TEMP" => a = 1)
    BY DEF Axes
  <2>4. done >= 2 * a
    BY <2>2, <2>3
  <2> QED
    BY <2>4 DEF IInv, AxisInv
<1> QED
  BY <1>1, Invariants, PTL

=============================================================================
