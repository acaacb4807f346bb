------------------------------- MODULE MCDrivers -------------------------------
(* Readings on both sides of a change of the high byte and of the sign.     *)
EXTENDS Mpu6050

MCReadings == { <<255, -1, 32767>>, <<256, 0, -32768>>, <<-257, 4660, -256>> }
=============================================================================
