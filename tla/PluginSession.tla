---------------------------- MODULE PluginSession ---------------------------
(***************************************************************************)
(* What the publisher may rely on from a plugin, seen at the host table of *)
(* include/canproxy/plugin.h: set_link, publish, and silence once the      *)
(* plugin's stop() has returned.                                           *)
(*                                                                         *)
(* The plugin tells the host about the vehicle before it hands over        *)
(* anything, hands over a current value only while it reports a vehicle,   *)
(* and never a value of a signal it does not advertise.                    *)
(***************************************************************************)
CONSTANT NoState   \* the store before the first publish

VARIABLES
    link,         \* what set_link said last: unknown, up or down
    published,    \* the vehicle state of the last publish
    publishedAt,  \* when that was: handing over the same state again is a step too
    over          \* the plugin's thread has been joined

sessionVars == <<link, published, publishedAt, over>>

SessionInit == link = "unknown" /\ published = NoState /\ ~over

\* A state that may be handed over while the link is l.
Honest(s, l) ==
    /\ l # "unknown"
    /\ s.valid \subseteq s.capable
    /\ s.valid # {} => l = "up"

SetLink == ~over /\ link' \in {"up", "down"} /\ UNCHANGED <<published, publishedAt, over>>

HandOver == ~over /\ Honest(published', link) /\ UNCHANGED <<link, over>>

\* The vehicle is lost and a state without a value handed over in one go.
Lose == ~over /\ link' = "down" /\ Honest(published', link') /\ UNCHANGED over

End == over' /\ UNCHANGED <<link, published, publishedAt>>

SessionNext == SetLink \/ HandOver \/ Lose \/ End

Session == SessionInit /\ [][SessionNext]_sessionVars
=============================================================================
