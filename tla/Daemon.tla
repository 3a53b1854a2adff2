------------------------------- MODULE Daemon -------------------------------
(***************************************************************************)
(* core/main.cpp: the daemon's main thread, which owns the contract bus,   *)
(* the plugin host and the publisher, together with the publisher's and    *)
(* the plugin's threads and the signals that end the process.              *)
(*                                                                         *)
(* The publisher appears here only as a flag and a thread; Schedule and    *)
(* Publisher model what that thread does.                                  *)
(***************************************************************************)
EXTENDS PluginHost, Integers

VARIABLES
    main,      \* the statement main() is at
    bus,       \* the contract socket is open
    pubFlag,   \* Publisher::m_running
    pubThread, \* the publisher thread: none, waiting, or sending on the bus
    handlers,  \* the signals that have a handler
    g_stop,
    code       \* exit status; -1 while the process lives

pubVars == <<pubFlag, pubThread>>
daemonVars == <<main, bus, pubVars, handlers, g_stop, code>>
vars == <<lifeVars, daemonVars>>

Signals == {"SIGINT", "SIGTERM"}

Init ==
    /\ HostInit
    /\ main = "parse"
    /\ bus = FALSE
    /\ pubFlag = FALSE
    /\ pubThread = "none"
    /\ handlers = {}
    /\ g_stop = FALSE
    /\ code = -1
-----------------------------------------------------------------------------
(***************************************************************************)
(* The main thread, statement by statement.                                *)
(***************************************************************************)

\* main goes from statement a to statement b.
go(a, b) == main = a /\ main' = b

\* return c: the destructors of main's objects follow.
returns(a, c) == go(a, "unwind") /\ code' = c

\* Config::parse; --help and a bad command line return before anything exists.
Parse ==
    /\ \/ go("parse", "open") /\ UNCHANGED code
       \/ \E c \in {0, 2} : go("parse", "exited") /\ code' = c
    /\ UNCHANGED <<lifeVars, bus, pubVars, handlers, g_stop>>

OpenBus ==
    /\ \/ go("open", "load") /\ bus' = TRUE /\ UNCHANGED code
       \/ go("open", "exited") /\ code' = 1 /\ UNCHANGED bus
    /\ UNCHANGED <<lifeVars, pubVars, handlers, g_stop>>

LoadPlugin ==
    /\ \E err \in LoadErrors \cup {""} : load(err)
    /\ \/ result' = "" /\ go("load", "create") /\ UNCHANGED code
       \/ result' # "" /\ returns("load", 1)
    /\ UNCHANGED <<bus, pubVars, handlers, g_stop>>

CreatePlugin ==
    /\ \E ok \in BOOLEAN : create(ok)
    /\ \/ result' = "" /\ go("create", "pubStart") /\ UNCHANGED code
       \/ result' # "" /\ returns("create", 1)
    /\ UNCHANGED <<bus, pubVars, handlers, g_stop>>

PublisherStart ==
    /\ go("pubStart", "start")
    /\ pubFlag' = TRUE
    /\ pubThread' = "waiting"
    /\ UNCHANGED <<lifeVars, bus, handlers, g_stop, code>>

\* Mutant: a plugin that does not start makes main return at once.
StartPluginReturns ==
    /\ \E ok \in BOOLEAN : start(ok)
    /\ \/ result' = "" /\ go("start", "handlers") /\ UNCHANGED code
       \/ result' # "" /\ returns("start", 1)
    /\ UNCHANGED <<bus, pubVars, handlers, g_stop>>

\* host.start(); if that fails the publisher is stopped and main returns 1.
StartPlugin ==
    /\ \E ok \in BOOLEAN : start(ok)
    /\ \/ result' = "" /\ go("start", "handlers")
       \/ result' # "" /\ go("start", "failStop")
    /\ UNCHANGED <<bus, pubVars, handlers, g_stop, code>>

\* std::signal, for SIGINT and then for SIGTERM.
InstallHandler ==
    /\ main = "handlers"
    /\ \/ handlers = {} /\ main' = main /\ handlers' = {"SIGINT"}
       \/ handlers # {} /\ main' = "wait" /\ handlers' = Signals
    /\ UNCHANGED <<lifeVars, bus, pubVars, g_stop, code>>

\* Mutant: the publisher is stopped first, the plugin by unload.
WaitEndsAtPublisher ==
    /\ g_stop
    /\ go("wait", "pubStop")
    /\ UNCHANGED <<lifeVars, bus, pubVars, handlers, g_stop, code>>

\* The wait ends at the next look at g_stop, at most 100 ms after the signal.
WaitEnds ==
    /\ g_stop
    /\ go("wait", "hostStop")
    /\ UNCHANGED <<lifeVars, bus, pubVars, handlers, g_stop, code>>

\* The statements that stop and release.  Each first makes its call, which may
\* leave main in the plugin's join, and goes on when the call has returned.
HostStop ==
    /\ stop
    /\ go("hostStop", IF Idle' THEN "pubStop" ELSE "hostStopJoin")
    /\ UNCHANGED <<bus, pubVars, handlers, g_stop, code>>

HostStopped ==
    /\ Joined("")
    /\ go("hostStopJoin", "pubStop")
    /\ UNCHANGED <<bus, pubVars, handlers, g_stop, code>>

\* Mutant: stop() joins the publisher thread without clearing m_running.
PublisherStopJoinsOnly(a, b) ==
    /\ go(a, b)
    /\ UNCHANGED <<lifeVars, bus, pubVars, handlers, g_stop, code>>

PublisherStop(a, b) ==
    /\ go(a, b)
    /\ pubFlag' = FALSE
    /\ UNCHANGED <<lifeVars, bus, pubThread, handlers, g_stop, code>>

\* Mutant: stop() returns without joining the publisher thread.
PublisherStoppedNoJoin ==
    /\ \/ go("pubStopJoin", "unload") /\ UNCHANGED code
       \/ returns("failStopJoin", 1)
    /\ UNCHANGED <<lifeVars, bus, pubVars, handlers, g_stop>>

PublisherStopped ==
    /\ pubThread = "none"
    /\ \/ go("pubStopJoin", "unload") /\ UNCHANGED code
       \/ returns("failStopJoin", 1)
    /\ UNCHANGED <<lifeVars, bus, pubVars, handlers, g_stop>>

HostUnload ==
    /\ unload
    /\ returns("unload", 0)
    /\ UNCHANGED <<bus, pubVars, handlers, g_stop>>

\* The destructors, in reverse order of construction: ~PluginHost unloads what is
\* left, ~CanSocket closes the bus.
Unwind ==
    /\ go("unwind", "exited")
    /\ unload
    /\ bus' = FALSE
    /\ UNCHANGED <<pubVars, handlers, g_stop, code>>

MainStep ==
    \/ Parse \/ OpenBus \/ LoadPlugin \/ CreatePlugin \/ PublisherStart
    \/ StartPlugin \/ InstallHandler \/ WaitEnds
    \/ HostStop \/ HostStopped
    \/ PublisherStop("pubStop", "pubStopJoin")
    \/ PublisherStop("failStop", "failStopJoin")
    \/ PublisherStopped \/ HostUnload \/ Unwind
-----------------------------------------------------------------------------
(***************************************************************************)
(* The other threads, and signals.                                         *)
(***************************************************************************)

\* The publisher thread's loop: tick() sends on the bus; it ends when m_running
\* is found clear.
PublisherTick ==
    /\ pubThread = "waiting" /\ pubFlag
    /\ pubThread' = "sending"
    /\ UNCHANGED <<lifeVars, main, bus, pubFlag, handlers, g_stop, code>>

PublisherTicked ==
    /\ pubThread = "sending"
    /\ pubThread' = "waiting"
    /\ UNCHANGED <<lifeVars, main, bus, pubFlag, handlers, g_stop, code>>

PublisherExit ==
    /\ pubThread = "waiting" /\ ~pubFlag
    /\ pubThread' = "none"
    /\ UNCHANGED <<lifeVars, main, bus, pubFlag, handlers, g_stop, code>>

PublisherStep == PublisherTick \/ PublisherTicked \/ PublisherExit

PluginStep == WorkerStep /\ UNCHANGED daemonVars

\* A signal sets g_stop, or kills the process while it has no handler.
Signal(s) ==
    /\ main \notin {"exited", "killed"}
    /\ \/ /\ s \in handlers
          /\ g_stop' = TRUE
          /\ UNCHANGED <<lifeVars, main, bus, pubVars, code>>
       \/ /\ s \notin handlers
          /\ main' = "killed"
          /\ Release
          /\ started' = FALSE /\ flag' = FALSE /\ worker' = "none"
          /\ joining' = "none" /\ result' = "" /\ UNCHANGED store
          /\ bus' = FALSE /\ pubFlag' = FALSE /\ pubThread' = "none"
          /\ UNCHANGED <<g_stop, code>>
    /\ UNCHANGED handlers

Terminated == main \in {"exited", "killed"} /\ UNCHANGED vars

Next == MainStep \/ PublisherStep \/ PluginStep \/ Terminated
        \/ \E s \in Signals : Signal(s)

Spec == Init /\ [][Next]_vars

\* Each thread is scheduled; the plugin's blocking calls all have timeouts, and a
\* round of its loop makes finitely many host calls.
FairSpec == /\ Spec
            /\ WF_vars(MainStep)
            /\ WF_vars(WorkerReturn /\ UNCHANGED daemonVars)
            /\ SF_vars(WorkerExit /\ UNCHANGED daemonVars)
            /\ WF_vars(PublisherTicked) /\ WF_vars(PublisherExit)
-----------------------------------------------------------------------------
Statements == {"parse", "open", "load", "create", "pubStart", "start", "handlers",
               "wait", "hostStop", "hostStopJoin", "pubStop", "pubStopJoin",
               "failStop", "failStopJoin", "unload", "unwind", "exited", "killed"}

\* Every variable of the daemon has its type.
TypeOK ==
    /\ HostTypeOK
    /\ main \in Statements
    /\ bus \in BOOLEAN
    /\ pubFlag \in BOOLEAN
    /\ pubThread \in {"none", "waiting", "sending"}
    /\ handlers \subseteq Signals
    /\ g_stop \in BOOLEAN
    /\ code \in {-1, 0, 1, 2}

\* Host callbacks are safe: while the plugin's thread exists its code and object
\* do, and the publisher runs, so what the thread hands over is published (main
\* starts the publisher first and stops it last).
CallbacksSafe == worker # "none" => handle /\ instance /\ pubFlag

\* The publisher thread never sends on a closed socket.
SendsOnOpenBus == pubThread # "none" => bus

\* The process leaves through its destructors with every thread joined and
\* everything released, on each error path too.
CleanExit ==
    main \in {"unwind", "exited"} =>
        /\ worker = "none"
        /\ pubThread = "none"
        /\ main = "exited" => ~handle /\ ~instance /\ ~bus

\* Where main() is tells what exists: the publisher from its start to the join in
\* its stop, the plugin's thread only in between, the bus around both.
PublisherUp == {"start", "handlers", "wait", "hostStop", "hostStopJoin", "pubStop",
                "failStop"}
LocationInv ==
    /\ pubFlag <=> main \in PublisherUp
    /\ pubThread # "none" => main \in PublisherUp \cup {"pubStopJoin", "failStopJoin"}
    /\ bus <=> main \notin {"parse", "open", "exited", "killed"}
    /\ started => main \in {"handlers", "wait", "hostStop", "hostStopJoin"}
    /\ joining = IF main = "hostStopJoin" THEN "stop" ELSE "none"
    /\ main \in {"parse", "open", "exited", "killed"} => ~handle

\* The inductive invariant of the daemon.
Inv == TypeOK /\ HostInv /\ LocationInv

\* Once both handlers are installed a signal, also one that came between the two,
\* makes the daemon exit with status 0: no join on the way waits for ever.
ShutdownCompletes == g_stop /\ handlers = Signals ~> main = "exited" /\ code = 0

\* A plugin that does not start ends the daemon with status 1, the publisher
\* thread joined, unless a signal kills the process first.
FailedStartExits ==
    main = "failStop" ~> main = "killed" \/ (main = "exited" /\ code = 1)
=============================================================================
