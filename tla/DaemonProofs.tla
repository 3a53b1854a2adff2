---------------------------- MODULE DaemonProofs ----------------------------
(***************************************************************************)
(* The plugin host's lifetime rules hold in every order of calls, for      *)
(* every interleaving with the plugin's thread; and the daemon's threads,  *)
(* its plugin and its socket end in the right order on every path through  *)
(* main(), whatever the other threads and signals do.                      *)
(***************************************************************************)
EXTENDS Daemon, TLAPS

USE DEF Idle, hostVars, pluginVars, pubVars, daemonVars

\* Nothing is held before the first call.
LEMMA HostInitInv == HostInit => HostInv
<1> SUFFICES ASSUME HostInit
             PROVE  HostInv
  OBVIOUS
<1>1. store \in [published: BOOLEAN, link: {"unknown", "up", "down"}]
  BY Zenon DEF HostInit
<1>2. HostTypeOK
  BY <1>1 DEF HostInit, HostTypeOK, Callbacks, LoadErrors, Results
<1>3. Nested /\ NoOrphan
  BY DEF HostInit, Nested, NoOrphan
<1> QED
  BY <1>2, <1>3 DEF HostInv

\* load() past its unload(): the descriptor is there exactly when the code is, and
\* no instance is.
LEMMA OpenedNested ==
    ASSUME NEW err \in LoadErrors \cup {""}, Opened(err)
    PROVE  /\ handle' \in BOOLEAN /\ plugin' \in BOOLEAN /\ instance' = FALSE
           /\ plugin' <=> handle'
           /\ result' \in Results
<1>1. result' \in Results
  BY DEF Opened, Results
<1> QED
  BY <1>1, Zenon DEF Opened

\* A call that stops the plugin leaves it started until the thread has ended.
LEMMA StopInv ==
    ASSUME HostInv, started, instance, Idle,
           NEW by \in {"stop", "unload", "load"}, pluginStop(by)
    PROVE  HostInv'
  BY DEF HostInv, HostTypeOK, Nested, NoOrphan, pluginStop

\* load() of a host whose plugin is not running.
LEMMA LoadInv ==
    ASSUME HostInv, NEW err \in LoadErrors \cup {""}, ~(started /\ instance),
           Opened(err), UNCHANGED <<started, pluginVars, joining, store>>
    PROVE  HostInv'
<1>1. started = FALSE
  BY Zenon DEF HostInv, HostTypeOK, Nested
<1>2. HostTypeOK' /\ NoOrphan'
  BY OpenedNested DEF HostInv, HostTypeOK, NoOrphan
<1>3. Nested'
  BY <1>1, OpenedNested, Zenon DEF Nested
<1> QED
  BY <1>2, <1>3 DEF HostInv

\* The call that stopped the plugin goes on when the thread has ended.
LEMMA JoinedInv ==
    ASSUME HostInv, NEW err \in LoadErrors \cup {""}, Joined(err)
    PROVE  HostInv'
<1>1. worker' = "none" /\ started' = FALSE /\ joining' = "none" /\ flag' = FALSE
  BY DEF HostInv, HostTypeOK, NoOrphan, Joined
<1>2. NoOrphan'
  BY <1>1 DEF NoOrphan
<1>3. CASE joining = "stop"
  <2>1. UNCHANGED <<handle, plugin, instance, result, store>>
    BY <1>3 DEF Joined
  <2>2. HostTypeOK' /\ Nested'
    BY <1>1, <2>1 DEF HostInv, HostTypeOK, Nested
  <2> QED
    BY <1>2, <2>2 DEF HostInv
<1>4. CASE joining = "unload"
  BY <1>1, <1>2, <1>4 DEF HostInv, HostTypeOK, Nested, Joined, Release
<1>5. CASE joining = "load"
  <2>1. Opened(err) /\ store' = store
    BY <1>5 DEF Joined
  <2>2. HostTypeOK'
    BY <1>1, <2>1, OpenedNested DEF HostInv, HostTypeOK
  <2>3. Nested'
    BY <1>1, <2>1, OpenedNested, Zenon DEF Nested
  <2> QED
    BY <1>2, <2>2, <2>3 DEF HostInv
<1> QED
  BY <1>3, <1>4, <1>5 DEF HostInv, HostTypeOK, Joined

\* create() only adds an instance to an accepted descriptor.
LEMMA CreateInv ==
    ASSUME HostInv, NEW ok \in BOOLEAN, create(ok)
    PROVE  HostInv'
<1>1. instance' \in BOOLEAN /\ (instance => instance') /\ (instance' => instance \/ plugin)
  BY Zenon DEF HostInv, HostTypeOK, create
<1>2. result' \in Results
  BY DEF create, Results
<1>3. HostTypeOK' /\ NoOrphan'
  BY <1>1, <1>2 DEF HostInv, HostTypeOK, NoOrphan, create
<1>4. Nested'
  BY <1>1, Zenon DEF HostInv, Nested, create
<1> QED
  BY <1>3, <1>4 DEF HostInv

\* start() creates the thread of an instance that exists and is not running.
LEMMA StartInv ==
    ASSUME HostInv, NEW ok \in BOOLEAN, start(ok)
    PROVE  HostInv'
<1>1. result' \in Results
  BY DEF start, Results
<1>2. CASE instance /\ started' = TRUE /\ flag' = TRUE /\ worker' = "loop"
  BY <1>1, <1>2 DEF HostInv, HostTypeOK, Nested, NoOrphan, start
<1>3. CASE UNCHANGED <<started, pluginVars>>
  BY <1>1, <1>3 DEF HostInv, HostTypeOK, Nested, NoOrphan, start
<1> QED
  BY <1>2, <1>3, Zenon DEF start

\* unload() of a host whose plugin is not running releases all it holds.
LEMMA ReleaseInv ==
    ASSUME HostInv, ~(started /\ instance), Release,
           UNCHANGED <<started, pluginVars, joining, result, store>>
    PROVE  HostInv'
<1>1. started = FALSE
  BY Zenon DEF HostInv, HostTypeOK, Nested
<1> QED
  BY <1>1 DEF HostInv, HostTypeOK, Nested, NoOrphan, Release

\* A host call keeps the invariant, whether it returns at once or leaves its
\* caller in the plugin's join.
LEMMA OwnerStepInv ==
    ASSUME HostInv,
           \/ \E err \in LoadErrors \cup {""} : load(err) \/ Joined(err)
           \/ \E ok \in BOOLEAN : create(ok) \/ start(ok)
           \/ stop \/ unload
    PROVE  HostInv'
<1>1. ASSUME NEW err \in LoadErrors \cup {""}, load(err)
      PROVE  HostInv'
  BY <1>1, StopInv, LoadInv, Zenon DEF load
<1>2. CASE stop
  <2>1. CASE UNCHANGED lifeVars
    BY <2>1 DEF HostInv, HostTypeOK, Nested, NoOrphan, lifeVars
  <2> QED
    BY <1>2, <2>1, StopInv, Zenon DEF stop
<1>3. CASE unload
  BY <1>3, StopInv, ReleaseInv, Zenon DEF unload
<1> QED
  BY <1>1, <1>2, <1>3, JoinedInv, CreateInv, StartInv, Zenon

\* So does a step of the plugin's thread.
LEMMA WorkerStepInv ==
    ASSUME HostInv, WorkerStep
    PROVE  HostInv'
<1> USE DEF HostInv, HostTypeOK, Nested, NoOrphan
<1>1. CASE WorkerCall
  BY <1>1 DEF WorkerCall, Callbacks
<1>2. CASE WorkerReturn
  BY <1>2 DEF WorkerReturn, hostPublish, hostSetLink, hostLog, Callbacks
<1>3. CASE WorkerExit
  BY <1>3 DEF WorkerExit
<1> QED
  BY <1>1, <1>2, <1>3 DEF WorkerStep

LEMMA HostStep == HostInv /\ [HostNext]_lifeVars => HostInv'
<1> SUFFICES ASSUME HostInv, [HostNext]_lifeVars
             PROVE  HostInv'
  OBVIOUS
<1>1. CASE HostNext
  BY <1>1, OwnerStepInv, WorkerStepInv DEF HostNext
<1>2. CASE UNCHANGED lifeVars
  BY <1>2 DEF lifeVars, HostInv, HostTypeOK, Nested, NoOrphan
<1> QED
  BY <1>1, <1>2

\* In every order of calls what the host holds is nested and no plugin thread
\* outlives what it uses.
THEOREM HostInvariant == HostSpec => []HostInv
<1> QED
  BY HostInitInv, HostStep, PTL DEF HostSpec

\* Nothing of a plugin writes to the store once the call that stopped it is back.
THEOREM Quiet == HostSpec => QuietAfterStop
<1>1. HostInv /\ [HostNext]_lifeVars => [~started => store' = store]_lifeVars
  <2> SUFFICES ASSUME HostInv, HostNext, ~started
               PROVE  store' = store
    BY DEF lifeVars
  <2>1. worker = "none"
    BY DEF HostInv, HostTypeOK, NoOrphan
  <2>2. CASE WorkerStep
    BY <2>1, <2>2 DEF WorkerStep, WorkerCall, WorkerReturn, WorkerExit,
                      hostPublish, hostSetLink, hostLog
  <2>3. ASSUME NEW err \in LoadErrors \cup {""}, load(err) \/ Joined(err)
        PROVE  store' = store
    BY <2>3 DEF load, Joined, pluginStop
  <2>4. ASSUME NEW ok \in BOOLEAN, create(ok) \/ start(ok)
        PROVE  store' = store
    BY <2>4 DEF create, start
  <2>5. CASE stop \/ unload
    BY <2>5 DEF stop, unload, pluginStop, lifeVars
  <2> QED
    BY <2>2, <2>3, <2>4, <2>5 DEF HostNext
<1> QED
  BY <1>1, HostInvariant, PTL DEF HostSpec, QuietAfterStop
-----------------------------------------------------------------------------
(***************************************************************************)
(* main().                                                                 *)
(***************************************************************************)

LEMMA InitInv == Init => Inv
<1> SUFFICES ASSUME Init
             PROVE  Inv
  OBVIOUS
<1>1. HostInv
  BY HostInitInv DEF Init
<1>2. TypeOK
  BY <1>1 DEF Init, TypeOK, HostInv, Statements, Signals
<1>3. LocationInv
  BY DEF Init, HostInit, LocationInv, PublisherUp
<1> QED
  BY <1>1, <1>2, <1>3 DEF Inv

\* Each statement of main() that calls the host keeps the host's invariant, and
\* the others leave the host alone.
LEMMA MainKeepsHost == Inv /\ MainStep => HostInv'
<1> SUFFICES ASSUME Inv, MainStep
             PROVE  HostInv'
  OBVIOUS
<1>1. HostInv
  BY DEF Inv
<1>2. CASE LoadPlugin \/ CreatePlugin \/ StartPlugin \/ HostStop \/ HostStopped
           \/ HostUnload \/ Unwind
  BY <1>1, <1>2, OwnerStepInv, Zenon
     DEF LoadPlugin, CreatePlugin, StartPlugin, HostStop, HostStopped, HostUnload,
         Unwind
<1>3. CASE UNCHANGED lifeVars
  BY <1>1, <1>3, HostStep
<1> QED
  BY <1>2, <1>3, Zenon
     DEF MainStep, Parse, OpenBus, PublisherStart, InstallHandler, WaitEnds,
         PublisherStop, PublisherStopped

\* The daemon's own part of the type invariant.
LEMMA MainKeepsType == Inv /\ MainStep => TypeOK'
<1> SUFFICES ASSUME Inv, MainStep
             PROVE  TypeOK'
  OBVIOUS
<1>1. HostTypeOK'
  BY MainKeepsHost DEF HostInv
<1>2. TypeOK
  BY DEF Inv
<1> USE DEF TypeOK, go, returns
<1>3. main' \in Statements
  BY DEF MainStep, Statements, Parse, OpenBus, LoadPlugin, CreatePlugin,
         PublisherStart, StartPlugin, InstallHandler, WaitEnds, HostStop, HostStopped,
         PublisherStop, PublisherStopped, HostUnload, Unwind
<1>4. code' \in {-1, 0, 1, 2}
  BY <1>2 DEF MainStep, Parse, OpenBus, LoadPlugin, CreatePlugin,
         PublisherStart, StartPlugin, InstallHandler, WaitEnds, HostStop, HostStopped,
         PublisherStop, PublisherStopped, HostUnload, Unwind
<1>5. handlers' \subseteq Signals
  BY <1>2 DEF MainStep, Parse, OpenBus, LoadPlugin, CreatePlugin, Signals,
         PublisherStart, StartPlugin, InstallHandler, WaitEnds, HostStop, HostStopped,
         PublisherStop, PublisherStopped, HostUnload, Unwind
<1>6. bus' \in BOOLEAN /\ pubFlag' \in BOOLEAN /\ g_stop' \in BOOLEAN
      /\ pubThread' \in {"none", "waiting", "sending"}
  BY <1>2 DEF MainStep, Parse, OpenBus, LoadPlugin, CreatePlugin,
         PublisherStart, StartPlugin, InstallHandler, WaitEnds, HostStop, HostStopped,
         PublisherStop, PublisherStopped, HostUnload, Unwind
<1> QED
  BY <1>1, <1>3, <1>4, <1>5, <1>6

\* main() stays in step with what exists.
LEMMA MainKeepsLocation == Inv /\ MainStep => LocationInv'
<1> SUFFICES ASSUME Inv, MainStep
             PROVE  LocationInv'
  OBVIOUS
<1>1. LocationInv /\ (started => instance) /\ (~Idle => started)
  BY DEF Inv, HostInv, Nested, NoOrphan
<1> USE <1>1 DEF LocationInv, PublisherUp, go, returns
<1>2. CASE Parse
  BY <1>2 DEF Parse, lifeVars
<1>3. CASE OpenBus
  BY <1>3 DEF OpenBus, lifeVars
<1>4. CASE LoadPlugin
  <2>1. /\ main = "load" /\ main' \in {"create", "unwind"}
        /\ UNCHANGED <<bus, pubFlag, pubThread, started, joining>>
    BY <1>4 DEF LoadPlugin, load, pluginStop
  <2> QED
    BY <2>1
<1>5. CASE CreatePlugin
  <2>1. /\ main = "create" /\ main' \in {"pubStart", "unwind"}
        /\ UNCHANGED <<bus, pubFlag, pubThread, started, joining>>
    BY <1>5 DEF CreatePlugin, create
  <2> QED
    BY <2>1
<1>6. CASE PublisherStart
  BY <1>6 DEF PublisherStart, lifeVars
<1>7. CASE StartPlugin
  <2>1. /\ main = "start"
        /\ main' = "handlers" \/ (main' = "failStop" /\ started' = started)
        /\ UNCHANGED <<bus, pubFlag, pubThread, joining>>
    BY <1>7 DEF StartPlugin, start
  <2> QED
    BY <2>1
<1>8. CASE InstallHandler
  BY <1>8 DEF InstallHandler, lifeVars
<1>9. CASE WaitEnds
  BY <1>9 DEF WaitEnds, lifeVars
<1>10. CASE HostStop
  BY <1>10 DEF HostStop, stop, pluginStop, lifeVars
<1>11. CASE HostStopped
  BY <1>11 DEF HostStopped, Joined
<1>12. CASE PublisherStop("pubStop", "pubStopJoin")
            \/ PublisherStop("failStop", "failStopJoin")
  BY <1>12 DEF PublisherStop, lifeVars
<1>13. CASE PublisherStopped
  BY <1>13 DEF PublisherStopped, lifeVars
<1>14. CASE HostUnload
  BY <1>14 DEF HostUnload, unload, pluginStop, Release
<1>15. CASE Unwind
  BY <1>15 DEF Unwind, unload, pluginStop, Release
<1> QED
  BY <1>2, <1>3, <1>4, <1>5, <1>6, <1>7, <1>8, <1>9, <1>10, <1>11, <1>12,
     <1>13, <1>14, <1>15 DEF MainStep

\* The publisher thread, the plugin's thread and signals.
LEMMA OthersInv ==
    ASSUME Inv,
           PublisherStep \/ PluginStep \/ Terminated \/ \E s \in Signals : Signal(s)
    PROVE  Inv'
<1> USE DEF Inv
<1>1. CASE PublisherStep
  <2>1. HostInv'
    BY <1>1, HostStep DEF PublisherStep, PublisherTick, PublisherTicked, PublisherExit
  <2>2. UNCHANGED <<lifeVars, main, bus, pubFlag, handlers, g_stop, code>>
    BY <1>1 DEF PublisherStep, PublisherTick, PublisherTicked, PublisherExit
  <2>3. pubThread' \in {"none", "waiting", "sending"}
        /\ (pubThread' # "none" => pubThread # "none")
    BY <1>1 DEF PublisherStep, PublisherTick, PublisherTicked, PublisherExit
  <2>4. TypeOK'
    BY <2>1, <2>2, <2>3 DEF TypeOK, HostInv
  <2>5. LocationInv'
    BY <2>2, <2>3 DEF LocationInv, lifeVars
  <2> QED
    BY <2>1, <2>4, <2>5
<1>2. CASE PluginStep
  <2>1. HostInv'
    BY <1>2, WorkerStepInv DEF PluginStep
  <2>2. UNCHANGED <<daemonVars, hostVars, joining>>
    BY <1>2 DEF PluginStep, WorkerStep, WorkerCall, WorkerReturn, WorkerExit
  <2>3. TypeOK' /\ LocationInv'
    BY <2>1, <2>2 DEF TypeOK, LocationInv, HostInv
  <2> QED
    BY <2>1, <2>3
<1>3. CASE Terminated
  <2>1. HostInv'
    BY <1>3, HostStep DEF Terminated, vars
  <2>2. TypeOK' /\ LocationInv'
    BY <1>3, <2>1 DEF Terminated, vars, lifeVars, TypeOK, LocationInv, HostInv
  <2> QED
    BY <2>1, <2>2
<1>4. ASSUME NEW s \in Signals, Signal(s)
      PROVE  Inv'
  <2>1. CASE s \in handlers
    <3>1. g_stop' = TRUE /\ UNCHANGED <<lifeVars, main, bus, pubVars, code, handlers>>
      BY <1>4, <2>1 DEF Signal
    <3>2. HostInv'
      BY <3>1, HostStep
    <3>3. TypeOK' /\ LocationInv'
      BY <3>1, <3>2 DEF lifeVars, TypeOK, LocationInv, HostInv
    <3> QED
      BY <3>2, <3>3
  <2>2. CASE s \notin handlers
    <3>1. /\ main' = "killed" /\ instance' = FALSE /\ plugin' = FALSE
          /\ handle' = FALSE /\ started' = FALSE /\ flag' = FALSE
          /\ worker' = "none" /\ joining' = "none" /\ result' = ""
          /\ bus' = FALSE /\ pubFlag' = FALSE /\ pubThread' = "none"
          /\ UNCHANGED <<store, g_stop, code, handlers>>
      BY <1>4, <2>2 DEF Signal, Release
    <3>2. HostInv'
      BY <3>1 DEF HostInv, HostTypeOK, Nested, NoOrphan, Results
    <3>3. TypeOK'
      BY <3>1, <3>2 DEF TypeOK, Statements, HostInv
    <3>4. LocationInv'
      BY <3>1 DEF LocationInv, PublisherUp
    <3> QED
      BY <3>2, <3>3, <3>4
  <2> QED
    BY <2>1, <2>2
<1> QED
  BY <1>1, <1>2, <1>3, <1>4

\* The inductive invariant holds on every path through main().
THEOREM Invariance == Spec => []Inv
<1>1. Inv /\ [Next]_vars => Inv'
  <2> SUFFICES ASSUME Inv, [Next]_vars
               PROVE  Inv'
    OBVIOUS
  <2>1. CASE MainStep
    BY <2>1, MainKeepsHost, MainKeepsType, MainKeepsLocation DEF Inv
  <2>2. CASE UNCHANGED vars
    <3>1. HostInv'
      BY <2>2, HostStep DEF vars, Inv
    <3> QED
      BY <2>2, <3>1 DEF vars, lifeVars, Inv, TypeOK, LocationInv, HostInv
  <2> QED
    BY <2>1, <2>2, OthersInv DEF Next
<1> QED
  BY <1>1, InitInv, PTL DEF Spec

\* A plugin thread finds its code, its object and a running publisher whenever it
\* calls the host.
THEOREM SafeCallbacks == Spec => []CallbacksSafe
<1>1. Inv => CallbacksSafe
  <2> SUFFICES ASSUME Inv, worker # "none"
               PROVE  handle /\ instance /\ pubFlag
    BY DEF CallbacksSafe
  <2>1. started
    BY DEF Inv, HostInv, NoOrphan
  <2>2. handle /\ instance
    BY <2>1 DEF Inv, HostInv, Nested
  <2>3. pubFlag
    BY <2>1 DEF Inv, LocationInv, PublisherUp
  <2> QED
    BY <2>2, <2>3
<1> QED
  BY <1>1, Invariance, PTL

\* The publisher thread only sends while the contract socket is open.
THEOREM OpenBusSends == Spec => []SendsOnOpenBus
<1>1. Inv => SendsOnOpenBus
  BY DEF Inv, LocationInv, PublisherUp, SendsOnOpenBus
<1> QED
  BY <1>1, Invariance, PTL

\* Every way out of main() finds the threads joined, the plugin released and the
\* socket closed.
THEOREM ExitsClean == Spec => []CleanExit
<1>1. Inv => CleanExit
  <2> SUFFICES ASSUME Inv, main \in {"unwind", "exited"}
               PROVE  /\ worker = "none" /\ pubThread = "none"
                      /\ main = "exited" => ~handle /\ ~instance /\ ~bus
    BY DEF CleanExit
  <2>1. ~started /\ pubThread = "none"
    BY DEF Inv, LocationInv, PublisherUp
  <2>2. worker = "none"
    BY <2>1 DEF Inv, HostInv, NoOrphan
  <2>3. main = "exited" => ~handle /\ ~bus
    BY DEF Inv, LocationInv
  <2>4. ~handle => ~instance
    BY DEF Inv, HostInv, Nested
  <2> QED
    BY <2>1, <2>2, <2>3, <2>4
<1> QED
  BY <1>1, Invariance, PTL
=============================================================================
