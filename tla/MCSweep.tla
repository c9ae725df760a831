------------------------------- MODULE MCSweep -------------------------------
(* Small instances of Sweep for TLC. *)
EXTENDS Sweep

CONSTANTS a, b, c

Names == {a, b, c}
Rows3 == <<a, b, c>>

==============================================================================
