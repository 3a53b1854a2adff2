------------------------------- MODULE Feeds --------------------------------
(***************************************************************************)
(* The two plugins that need no vehicle bus, forza and sim, as feeds of    *)
(* the publisher: main() loads the one that --plugin names, and the        *)
(* publisher sees of it only what it told the host.                        *)
(***************************************************************************)
EXTENDS StateStore, Sequences

CONSTANTS PollWait, PublishGap, Timeout, GameLamps, MaxLag, ForzaTime, MaxQueue
CONSTANTS Second, Ticks, Stalls, LinkWait, SimLag, SimTime

VARIABLES
    plugin,       \* the plugin that is loaded
    now, pc, running, link, published, publishedAt,
    queue, wakeBy, loopNow, frame, linked, lastPacket, lastPublish, seenAt,
    args, next, phase, phaseElapsed, elapsed, lampBits

F == INSTANCE Forza
S == INSTANCE Sim

ASSUME FeedsAssumption == F!ForzaConstants /\ S!SimConstants /\ PluginTimeout \in Nat

forzaVars == <<queue, wakeBy, loopNow, frame, linked, lastPacket, lastPublish, seenAt>>
simVars   == <<args, next, phase, phaseElapsed, elapsed, lampBits>>
vars == <<plugin, now, pc, running, link, published, publishedAt, forzaVars, simVars>>

NoArgs == [drivetrain |-> "bev", assist |-> TRUE, link |-> TRUE, stallAfter |-> -1,
           tick |-> 1]

Init ==
    \/ /\ plugin = "forza"
       /\ F!Init
       /\ args = NoArgs /\ next = 0
       /\ phase = 1 /\ phaseElapsed = 0 /\ elapsed = 0 /\ lampBits = {}
    \/ /\ plugin = "sim"
       /\ S!Init
       /\ F!ForzaInit

Next ==
    /\ \/ plugin = "forza" /\ F!Next /\ UNCHANGED simVars
       \/ plugin = "sim" /\ S!Next /\ UNCHANGED forzaVars
    /\ UNCHANGED plugin

Spec == Init /\ [][Next]_vars
-----------------------------------------------------------------------------
\* Both plugins keep what the publisher relies on: the refinement of PluginSession.
Promise == INSTANCE PluginSession WITH over <- pc = "done"
FeedSession == Promise!Session

\* forza's link and what the publisher shows as live follow the game: a silence is
\* reported within a timeout and a poll, whatever other packets arrive, and no value
\* is live without a game that is sending (see Forza).
GameTracked == plugin = "forza" => F!LinkTracksGame /\ F!LiveMeansGame

\* forza never reports the game lost while telemetry comes at most a timeout less the
\* thread's delay apart (see Forza).
NoFalseLoss == F!NoFalseLoss

\* The stall hook of sim ends in a publisher that shows nothing as live: at the
\* latest a plugin timeout after stall_after_ms.
StallShows ==
    args.stallAfter >= 0 =>
        /\ S!StallStops
        /\ now > args.stallAfter + SimLag + PluginTimeout =>
              ~derive(storeOf(link, published, publishedAt), now).live

\* sim keeps to its script for any tick and any delay of its thread: its lamps are
\* those of its phase, its time keeps up with the clock (see Sim), and its stall
\* shows.
ScriptKept == plugin = "sim" => S!PhaseLamps /\ S!TracksClock /\ StallShows
=============================================================================
