-------------------------------- MODULE Mpu6050 --------------------------------
(***************************************************************************)
(* The ioctls of the MPU6050 driver (fsmpu6050/mpu6050_drv.c): each axis   *)
(* is two registers, read one after the other over I2C while the sensor    *)
(* goes on measuring.                                                      *)
(***************************************************************************)
EXTENDS DriverLifecycle

CONSTANTS
  Readings,     \* what the sensor may measure: triples of 16-bit numbers
  MaxErrors     \* bound: failed transfers in one ioctl

Short16 == {n \in Int : -32768 <= n /\ n <= 32767}      \* the values of a short

ASSUME ReadingAssumption ==
  /\ Readings \subseteq [1..3 -> Short16]
  /\ MaxErrors \in Nat

VARIABLES
  awake,     \* PWR_MGMT_1 has been written
  cmd,       \* the command of the ioctl, "none" outside
  done,      \* bytes read so far
  sensor,    \* what the registers hold now
  seen,      \* what they held since the ioctl began
  data,      \* the union the driver fills
  errors     \* failed transfers of this ioctl

reading == <<awake, cmd, done, sensor, seen, data, errors>>
vars == <<lifecycle, reading>>

Asleep == [i \in 1..3 |-> 0]
Command == {"GET_ACCEL", "GET_GYRO", "GET_TEMP"}
Axes(c) == IF c = "GET_TEMP" THEN {1} ELSE 1..3

(* The registers of a command in the order they are read: the second of an *)
(* axis is the high byte, the first the low byte of x and of the           *)
(* temperature, but again the high byte of y and z.                        *)
Registers(c) ==
  <<[axis |-> 1, high |-> FALSE], [axis |-> 1, high |-> TRUE]>>
  \o IF c = "GET_TEMP" THEN << >>
     ELSE <<[axis |-> 2, high |-> TRUE], [axis |-> 2, high |-> TRUE],
            [axis |-> 3, high |-> TRUE], [axis |-> 3, high |-> TRUE]>>

ReadingInit ==
  /\ awake = FALSE /\ cmd = "none" /\ done = 0 /\ sensor = Asleep /\ seen = {}
  /\ data = Asleep /\ errors = 0

(* init_mpu6050: five writes whose failure nobody looks at; the first one  *)
(* wakes the sensor.                                                       *)
InitMpu6050 ==
  /\ ~oops /\ driver = "fsmpu6050" /\ Loading("i2c")
  /\ awake' \in {awake, TRUE}
  /\ Advance
  /\ UNCHANGED <<held, files, converting, early, faults, oops, cmd, done, sensor,
                 seen, data, errors>>

Measured == IF awake THEN Readings ELSE {Asleep}

(* The union is not initialised; what the stack held does not matter here. *)
Ioctl ==
  /\ ~oops /\ driver = "fsmpu6050" /\ load \in files /\ cmd = "none"
  /\ cmd' \in Command
  /\ done' = 0 /\ errors' = 0 /\ data' = Asleep
  /\ sensor' \in Measured
  /\ seen' = {sensor'}
  /\ UNCHANGED <<lifecycle, awake>>

Measure ==
  /\ cmd # "none" /\ awake
  /\ sensor' \in Readings \ {sensor}
  /\ seen' = seen \cup {sensor'}
  /\ UNCHANGED <<lifecycle, awake, cmd, done, data, errors>>

(* A register as an unsigned char, which plain char is on ARM.             *)
RegisterByte(value, high) == IF high THEN (value \div 256) % 256 ELSE value % 256

(* A short keeps 16 bits.                                                  *)
Short(n) == IF n % 65536 >= 32768 THEN (n % 65536) - 65536 ELSE n % 65536

(* Mutant: the high byte is not shifted into a short.                      *)
Combined_Wide(first, second) == 256 * second

(* Mutant: the low byte is kept.                                           *)
Combined_KeepsLow(first, second) == Short(256 * second + first)

(* The second assignment of an axis overwrites the first.                  *)
Combined(first, second) == Short(256 * second)

Store(byte) ==
  LET a == Registers(cmd)[done + 1].axis
  IN  data' = [data EXCEPT ![a] = IF done % 2 = 0 THEN byte ELSE Combined(@, byte)]

ReadByte ==
  /\ cmd # "none" /\ done < Len(Registers(cmd))
  /\ LET r == Registers(cmd)[done + 1] IN Store(RegisterByte(sensor[r.axis], r.high))
  /\ done' = done + 1
  /\ UNCHANGED <<lifecycle, awake, cmd, sensor, seen, errors>>

(* A transfer that fails: the error number is returned as if it were the   *)
(* byte.  EIO is -5.                                                       *)
Eio == 256 - 5
ReadByteFails ==
  /\ cmd # "none" /\ done < Len(Registers(cmd)) /\ errors < MaxErrors
  /\ Store(Eio)
  /\ done' = done + 1 /\ errors' = errors + 1
  /\ UNCHANGED <<lifecycle, awake, cmd, sensor, seen>>

CopyToUser ==
  /\ cmd # "none" /\ done = Len(Registers(cmd))
  /\ cmd' = "none" /\ done' = 0 /\ sensor' = Asleep /\ seen' = {} /\ data' = Asleep
  /\ errors' = 0
  /\ UNCHANGED <<lifecycle, awake>>

Init == LifecycleInit /\ ReadingInit

(* The file is not closed during an ioctl.                                 *)
Lifecycle ==
  /\ LifecycleNext
  /\ cmd = "none"
  /\ UNCHANGED reading

Next == \/ Lifecycle \/ InitMpu6050
        \/ Ioctl \/ Measure \/ ReadByte \/ ReadByteFails \/ CopyToUser

Spec == Init /\ [][Next]_vars

-----------------------------------------------------------------------------
(* Properties.                                                             *)

(* Types; what the driver hands out fits into a short.                     *)
TypeOK ==
  /\ LifecycleTypeOK
  /\ awake \in BOOLEAN /\ cmd \in Command \cup {"none"} /\ done \in 0..6
  /\ sensor \in Readings \cup {Asleep} /\ seen \subseteq Readings \cup {Asleep}
  /\ data \in [1..3 -> Short16]
  /\ errors \in 0..MaxErrors

(* Each axis handed out is at most 255 below a value the sensor really had *)
(* during the ioctl, and never above it: as the low byte is lost, the two  *)
(* reads cannot be torn.  This needs every transfer to succeed.            *)
ReadingNear ==
  cmd # "none" /\ done = Len(Registers(cmd)) /\ errors = 0 =>
    \A a \in Axes(cmd) : \E s \in seen : s[a] \in data[a]..data[a] + 255
=============================================================================
