------------------------------ MODULE MCEmuEv -------------------------------
(***************************************************************************)
(* Battery vehicles for the emu plugins.  One unit of time is 100 ms.      *)
(***************************************************************************)
EXTENDS EmuEv

AllDids  == Dids

\* The engine ECU has the speed only; or a second block, with a PID that emu-ev polls or
\* with one that it does not.
OneBlock   == <<{"SPEED"}>>
TwoBlocks  == <<{"SPEED"}, {"MODULE_VOLTAGE"}>>
FuelBlocks == <<{"SPEED"}, {"FUEL_LEVEL"}>>

\* The vehicle charges; its drive record says that it is ready.
Charging == [did \in Dids |-> CASE did = "PACK"  -> {"CHARGING"}
                                [] did = "DRIVE" -> IF Hybrid THEN {} ELSE {"EV_READY"}
                                [] OTHER         -> {}]

\* Who comes and leaves: the engine ECU alone, or both at once.
EngineMoves  == {{"obd"}}
VehicleMoves == {{"obd"}, Ecus}
=============================================================================
