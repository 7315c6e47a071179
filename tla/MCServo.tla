------------------------------ MODULE MCServo ------------------------------
(* The servo for small seconds: a thousandth of a real one, and words that *)
(* are 10 bits shorter.                                                    *)
EXTENDS Servo

SetOffsets   == {-1500000, 250000}
SetFrequency == {-30, 200}
=============================================================================
