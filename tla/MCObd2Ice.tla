----------------------------- MODULE MCObd2Ice ------------------------------
(***************************************************************************)
(* Vehicles for the obd2-ice plugin.  One unit of time is 100 ms.          *)
(***************************************************************************)
EXTENDS Obd2Ice

\* A vehicle with one fast PID and, in a second block, an unpopulated one.
TwoBlocks == <<{"SPEED"}, {"MODULE_VOLTAGE"}>>
OneBlock  == <<{"SPEED"}>>
=============================================================================
