----------------------------- MODULE PluginHost -----------------------------
(***************************************************************************)
(* core/PluginHost.cpp: loading one plugin and driving its create, start,  *)
(* stop and destroy, with the plugin's worker thread (external: start and  *)
(* stop as plugins/obd2-ice and its siblings implement them).              *)
(*                                                                         *)
(* The owner calls the host from one thread.  The only place where such a  *)
(* call can block is the join in the plugin's stop(); `joining` names the  *)
(* call that waits there.  Everything else a call does is one step.        *)
(***************************************************************************)

VARIABLES
    handle,    \* m_handle: the plugin's code is mapped
    plugin,    \* m_plugin: the descriptor has been accepted
    instance,  \* m_instance: the plugin object exists
    started,   \* m_started
    flag,      \* the plugin's own running flag
    worker,    \* the plugin's thread: none, in its loop, or in a host callback
    joining,   \* the host call that waits for the thread, if one does
    result,    \* what the last load, create or start returned; "" is success
    store      \* the StateStore, as the last callbacks left it

hostVars   == <<handle, plugin, instance, started>>
pluginVars == <<flag, worker>>
lifeVars   == <<hostVars, pluginVars, joining, result, store>>

Callbacks == {"publish", "set_link", "log"}
LoadErrors == {"dlopen failed", "no usable descriptor"}

HostInit ==
    /\ handle = FALSE
    /\ plugin = FALSE
    /\ instance = FALSE
    /\ started = FALSE
    /\ flag = FALSE
    /\ worker = "none"
    /\ joining = "none"
    /\ result = ""
    /\ store = [published |-> FALSE, link |-> "unknown"]

Idle == joining = "none"

\* unload() once the plugin is stopped: destroy, forget the descriptor, dlclose.
Release ==
    /\ instance' = FALSE
    /\ plugin' = FALSE
    /\ handle' = FALSE

\* The rest of load() after its unload(), with the error it returns: dlopen fails,
\* or the descriptor is missing, of another ABI or incomplete and the code is
\* unmapped again, or all is well.
Opened(err) ==
    /\ handle' = (err = "")
    /\ plugin' = (err = "")
    /\ instance' = FALSE
    /\ result' = err
-----------------------------------------------------------------------------
(***************************************************************************)
(* The plugin's side.                                                      *)
(***************************************************************************)

\* Mutant: the plugin joins its thread without telling it to stop.
pluginStopJoinsOnly(by) ==
    /\ joining' = by
    /\ UNCHANGED <<hostVars, pluginVars, result, store>>

\* The plugin's stop() up to its join.
pluginStop(by) ==
    /\ flag' = FALSE
    /\ joining' = by
    /\ UNCHANGED <<hostVars, worker, result, store>>

\* The thread calls publish, set_link or log of the host.  It looks at its flag
\* only at the top of its loop, so it may still call when the flag is clear.
WorkerCall ==
    /\ worker = "loop"
    /\ worker' \in Callbacks
    /\ UNCHANGED <<hostVars, flag, joining, result, store>>

\* hostPublish, hostSetLink and hostLog: what the callback does to the store.
hostPublish == worker = "publish" /\ store' = [store EXCEPT !.published = TRUE]
hostSetLink == /\ worker = "set_link"
               /\ \E link \in {"up", "down"} : store' = [store EXCEPT !.link = link]
hostLog     == worker = "log" /\ UNCHANGED store

WorkerReturn ==
    /\ hostPublish \/ hostSetLink \/ hostLog
    /\ worker' = "loop"
    /\ UNCHANGED <<hostVars, flag, joining, result>>

\* The thread ends when it finds the flag cleared at the top of its loop.
WorkerExit ==
    /\ worker = "loop"
    /\ ~flag
    /\ worker' = "none"
    /\ UNCHANGED <<hostVars, flag, joining, result, store>>

WorkerStep == WorkerCall \/ WorkerReturn \/ WorkerExit
-----------------------------------------------------------------------------
(***************************************************************************)
(* The host's side.                                                        *)
(***************************************************************************)
load(err) ==
    /\ Idle
    /\ \/ started /\ instance /\ pluginStop("load")
       \/ ~(started /\ instance) /\ Opened(err) /\ UNCHANGED <<started, pluginVars, joining, store>>

\* ok is false when the plugin refuses its arguments.
create(ok) ==
    /\ Idle
    /\ result' = IF ~plugin THEN "no plugin loaded"
                 ELSE IF instance THEN "plugin already created"
                 ELSE IF ~ok THEN "create failed" ELSE ""
    /\ instance' = (instance \/ (plugin /\ ok))
    /\ UNCHANGED <<handle, plugin, started, pluginVars, joining, store>>

\* Mutant: start() ignores what the plugin's start() returns.
startIgnoresRc(ok) ==
    /\ Idle
    /\ result' = IF ~instance THEN "plugin not created" ELSE ""
    /\ started' = (started \/ instance)
    /\ flag' = (flag \/ (instance /\ ok))
    /\ worker' = IF instance /\ ~started /\ ok THEN "loop" ELSE worker
    /\ UNCHANGED <<handle, plugin, instance, joining, store>>

\* ok is false when the plugin's start() fails, which leaves no thread behind.
start(ok) ==
    /\ Idle
    /\ result' = IF ~instance THEN "plugin not created"
                 ELSE IF ~started /\ ~ok THEN "start failed" ELSE ""
    /\ \/ /\ instance /\ ~started /\ ok
          /\ started' = TRUE
          /\ flag' = TRUE
          /\ worker' = "loop"
       \/ /\ ~instance \/ started \/ ~ok
          /\ UNCHANGED <<started, pluginVars>>
    /\ UNCHANGED <<handle, plugin, instance, joining, store>>

\* Mutant: the plugin's thread is told to stop and not waited for.
stopDetaches ==
    /\ Idle
    /\ started' = FALSE
    /\ flag' = FALSE
    /\ UNCHANGED <<handle, plugin, instance, worker, joining, result, store>>

stop ==
    /\ Idle
    /\ \/ started /\ instance /\ pluginStop("stop")
       \/ ~(started /\ instance) /\ UNCHANGED lifeVars

unload ==
    /\ Idle
    /\ \/ started /\ instance /\ pluginStop("unload")
       \/ /\ ~(started /\ instance)
          /\ Release
          /\ UNCHANGED <<started, pluginVars, joining, result, store>>

\* The thread has ended: the call that stopped it goes on.
Joined(err) ==
    /\ joining # "none"
    /\ worker = "none"
    /\ started' = FALSE
    /\ joining' = "none"
    /\ \/ joining = "stop"   /\ UNCHANGED <<handle, plugin, instance, result>>
       \/ joining = "unload" /\ Release /\ UNCHANGED result
       \/ joining = "load"   /\ Opened(err)
    /\ UNCHANGED <<pluginVars, store>>

\* An owner that calls the host in any order, as PluginHost's interface allows.
HostNext ==
    \/ \E err \in LoadErrors \cup {""} : load(err) \/ Joined(err)
    \/ \E ok \in BOOLEAN : create(ok) \/ start(ok)
    \/ stop \/ unload
    \/ WorkerStep

HostSpec == HostInit /\ [][HostNext]_lifeVars

\* The plugin's thread is scheduled, a round of its loop makes finitely many calls
\* before it looks at the flag again (hence the strong fairness), and a call whose
\* thread has ended goes on.
FairHostSpec == /\ HostSpec
                /\ WF_lifeVars(WorkerReturn) /\ SF_lifeVars(WorkerExit)
                /\ WF_lifeVars(\E err \in LoadErrors \cup {""} : Joined(err))
-----------------------------------------------------------------------------
Results == LoadErrors \cup
           {"", "no plugin loaded", "plugin already created", "create failed",
            "plugin not created", "start failed"}

\* Every variable of the host and of the plugin has its type.
HostTypeOK ==
    /\ handle \in BOOLEAN
    /\ plugin \in BOOLEAN
    /\ instance \in BOOLEAN
    /\ started \in BOOLEAN
    /\ flag \in BOOLEAN
    /\ worker \in {"none", "loop"} \cup Callbacks
    /\ joining \in {"none", "stop", "unload", "load"}
    /\ result \in Results
    /\ store \in [published: BOOLEAN, link: {"unknown", "up", "down"}]

\* What the host holds is nested, in any order of calls: a started plugin has an
\* instance, an instance its descriptor, a descriptor its mapped code.
Nested ==
    /\ started => instance
    /\ instance => plugin
    /\ plugin <=> handle

\* No orphan thread: a plugin thread only exists while the host knows it as
\* started, so its object and code stay, and only a call that joins it may be
\* under way once its flag is cleared.
NoOrphan ==
    /\ worker # "none" => started
    /\ flag <=> started /\ Idle
    /\ ~Idle => started

\* When stop(), unload() or load() has returned nothing of the plugin that was
\* running writes to the store any more.
QuietAfterStop == [][~started => store' = store]_lifeVars

\* No call of the host waits for its plugin's thread for ever.
CallsReturn == ~Idle ~> Idle

\* In any order of load(), create(), start(), stop() and unload(), each failing or
\* not: the types, the nesting, and no orphan thread.  It is inductive.
HostInv == HostTypeOK /\ Nested /\ NoOrphan
=============================================================================
