----------------------------- MODULE StateStore -----------------------------
(***************************************************************************)
(* core/Publisher.cpp: what the publisher makes of the plugin's calls.  A  *)
(* store is the record StateStore::Snapshot; derive() turns one into the   *)
(* proxy state and says whether its values may be shown.                   *)
(***************************************************************************)
EXTENDS Mapping

CONSTANT PluginTimeout  \* age at which the values of a silent plugin are dropped

NoState == [capable |-> {}, valid |-> {}, unknown |-> {}, lamps |-> {}]
EmptyStore == [state |-> NoState, everPublished |-> FALSE, linkKnown |-> FALSE,
               linkPresent |-> FALSE, lastPublish |-> 0]

\* Mutants: no plugin timeout; a lost link is taken for a quiet plugin.
deriveNoTimeout(sn, t) ==
    IF ~sn.linkKnown THEN [proxyState |-> STARTING, live |-> FALSE]
    ELSE IF ~sn.linkPresent THEN [proxyState |-> NO_VEHICLE, live |-> FALSE]
    ELSE IF ~sn.everPublished THEN [proxyState |-> DEGRADED, live |-> FALSE]
    ELSE [proxyState |-> OK, live |-> TRUE]
deriveNoLink(sn, t) ==
    IF ~sn.linkKnown THEN [proxyState |-> STARTING, live |-> FALSE]
    ELSE IF ~sn.everPublished \/ t - sn.lastPublish > PluginTimeout
         THEN [proxyState |-> DEGRADED, live |-> FALSE]
    ELSE [proxyState |-> OK, live |-> TRUE]

\* The proxy state of a snapshot, and whether its values may be shown.
derive(sn, t) ==
    IF ~sn.linkKnown THEN [proxyState |-> STARTING, live |-> FALSE]
    ELSE IF ~sn.linkPresent THEN [proxyState |-> NO_VEHICLE, live |-> FALSE]
    ELSE IF ~sn.everPublished \/ t - sn.lastPublish > PluginTimeout
         THEN [proxyState |-> DEGRADED, live |-> FALSE]
    ELSE [proxyState |-> IF sn.state.capable \subseteq sn.state.valid
                         THEN OK ELSE DEGRADED,
          live |-> TRUE]

\* The store that a plugin's calls have left behind: link is what it was told by
\* set_link last, s the state published last, at the time of that call, -1 for none.
storeOf(link, s, at) ==
    [state |-> s, everPublished |-> at # -1, linkKnown |-> link # "unknown",
     linkPresent |-> link = "up", lastPublish |-> at]
=============================================================================
