----------------------------- MODULE MCSchedule -----------------------------
(***************************************************************************)
(* The schedule for TLC.  One unit of time is 50 ms, the shortest cycle of *)
(* the contract, so cycles and stale windows keep the contract's numbers.  *)
(***************************************************************************)
EXTENDS ScheduleTimes

Unit == 50
MCCycle == [id \in FrameIds |-> canproxy_cycle_ms[id] \div Unit]
MCStale == [id \in FrameIds |-> canproxy_stale_ms[id] \div Unit]
=============================================================================
