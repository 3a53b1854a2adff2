------------------------------ MODULE Contract ------------------------------
(***************************************************************************)
(* The wire contract of contract/can_proxy_contract.h: the nine frames,    *)
(* their send cycles, the window after which a consumer treats a frame as  *)
(* stale, and the proxy states of the status frame.  Payload layouts are   *)
(* abstracted to which signals a frame shows (see Mapping).                *)
(***************************************************************************)
EXTENDS Integers

FrameIds == {"STATUS", "IDENTITY", "MOTION", "EDRIVE", "TELLTALES",
             "ENERGY", "TRIP", "THERMAL", "ASSIST"}

\* The proxy states of the status frame, ordered as their wire codes 0..3.
STARTING   == "starting"
NO_VEHICLE == "no-vehicle"
DEGRADED   == "degraded"
OK         == "ok"
ProxyStates == {STARTING, NO_VEHICLE, DEGRADED, OK}

\* Send cycle of each frame, in milliseconds.
canproxy_cycle_ms ==
    [id \in FrameIds |->
        CASE id \in {"MOTION", "EDRIVE"}    -> 50
          [] id \in {"STATUS", "TELLTALES"} -> 100
          [] id = "ASSIST"                  -> 200
          [] id \in {"ENERGY", "THERMAL"}   -> 500
          [] id \in {"IDENTITY", "TRIP"}    -> 1000]

\* Age after which a consumer must treat a frame as missing, in milliseconds.
canproxy_stale_ms ==
    [id \in FrameIds |->
        CASE id \in {"MOTION", "EDRIVE"}    -> 250
          [] id \in {"STATUS", "TELLTALES"} -> 500
          [] id = "ASSIST"                  -> 800
          [] id \in {"ENERGY", "THERMAL"}   -> 2000
          [] id \in {"IDENTITY", "TRIP"}    -> 4000]

\* The order in which one tick serves the frames that are due.
kOrder == <<"STATUS", "IDENTITY", "MOTION", "EDRIVE", "TELLTALES",
            "ENERGY", "TRIP", "THERMAL", "ASSIST">>
=============================================================================
