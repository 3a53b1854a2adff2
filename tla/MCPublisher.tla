---------------------------- MODULE MCPublisher -----------------------------
(***************************************************************************)
(* Model of Publisher for TLC.  One unit of time is 100 ms.                *)
(***************************************************************************)
EXTENDS Publisher

Unit == 100
MCCycle == [id \in FrameIds |-> (canproxy_cycle_ms[id] + Unit \div 2) \div Unit]

\* The heartbeat, the lamps, and the frame that is sent only with its capability.
MCOrder == <<"STATUS", "TELLTALES", "ASSIST">>

\* A vehicle with driver assist and a lit lamp, and one without driver assist
\* whose signal is stale.
Lit    == [capable |-> {"ECO_SCORE"}, valid |-> {"ECO_SCORE"}, unknown |-> {},
           lamps |-> {"ABS"}]
Silent == [capable |-> {"SPEED"}, valid |-> {}, unknown |-> {}, lamps |-> {}]
MCStates == {Lit, Silent}
=============================================================================
