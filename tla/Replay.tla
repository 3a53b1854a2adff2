------------------------------- MODULE Replay -------------------------------
(***************************************************************************)
(* A recorded session and its replay.  libobd/src/CanChannel.cpp writes    *)
(* every frame it sends or reads to the log, under the client of           *)
(* libobd/src/J1979Client.cpp; tools/can-replay.cpp --respond reads the    *)
(* log and answers a later client in the vehicle's place.                  *)
(***************************************************************************)
EXTENDS Integers, Sequences, FiniteSetsExt

CONSTANTS
    Ecus, Values,  \* the ECUs, and the PIDs that are queried
    Window,        \* 16 in the code: how far from a request an answer is looked for
    MaxLog         \* bound of the model: frames of a session

VARIABLES
    recording,  \* m_log is open
    log,        \* what the file holds
    waiting,    \* the request the client waits on: its PID and its place in the log
    listening,  \* m_primaryEcu of the recording, then of the replaying client
    used,       \* history: per PID, the answer used last and its request's place
    answers,    \* can-replay's table: per PID, the answer it gives
    replayed    \* per PID, the answer the replaying client used last

First == "PID_00"  \* PID_SUPPORTED_00, which starts a discovery
Pids  == {First} \cup Values
NoEcu == "no ECU"
None  == [ecu |-> NoEcu, at |-> 0, req |-> 0]
Nothing == [pid \in Pids |-> None]
NotWaiting == [pid |-> "none", at |-> 0]

ReplayConstants ==
    NoEcu \notin Ecus /\ {First, "none"} \cap Values = {} /\ {Window, MaxLog} \subseteq Nat

Request(pid)       == [kind |-> "request", pid |-> pid, ecu |-> NoEcu]
Response(ecu, pid) == [kind |-> "response", pid |-> pid, ecu |-> ecu]
Other              == [kind |-> "broadcast", pid |-> "none", ecu |-> NoEcu]

ReplayInit ==
    /\ recording = TRUE
    /\ log = <<>>
    /\ waiting = NotWaiting
    /\ listening = NoEcu
    /\ used = Nothing
    /\ answers = Nothing
    /\ replayed = Nothing
-----------------------------------------------------------------------------
(***************************************************************************)
(* The recorded session.                                                   *)
(***************************************************************************)
record(f) == recording /\ Len(log) < MaxLog /\ log' = Append(log, f)

\* request(), after the one before it was answered or timed out.  A discovery starts
\* by forgetting the ECU; a value is asked for once there has been one.
Ask(pid) ==
    /\ pid = First \/ used[First] # None
    /\ record(Request(pid))
    /\ waiting' = [pid |-> pid, at |-> Len(log) + 1]
    /\ listening' = IF pid = First THEN NoEcu ELSE listening
    /\ UNCHANGED <<recording, used, answers, replayed>>

\* The client reads a response, to the request it waits on or to an earlier one, and
\* uses it if it is for its PID and of the ECU it listens to.
Hear(ecu, pid) ==
    /\ \E i \in 1 .. Len(log) : log[i] = Request(pid)
    /\ record(Response(ecu, pid))
    /\ \/ /\ waiting.pid = pid /\ listening \in {NoEcu, ecu}
          /\ listening' = ecu
          /\ used' = [used EXCEPT ![pid] = [ecu |-> ecu, at |-> Len(log) + 1,
                                            req |-> waiting.at]]
          /\ waiting' = NotWaiting
       \/ /\ waiting.pid # pid \/ listening \notin {NoEcu, ecu}
          /\ UNCHANGED <<listening, used, waiting>>
    /\ UNCHANGED <<recording, answers, replayed>>

HearOther ==
    /\ record(Other)
    /\ UNCHANGED <<recording, waiting, listening, used, answers, replayed>>
-----------------------------------------------------------------------------
(***************************************************************************)
(* The replay.                                                             *)
(***************************************************************************)

\* Where the answer to request i may be: the responses with its PID that are less
\* than Window frames away.
Candidates(i) == {j \in i + 1 .. Len(log) :
                     /\ j < i + Window
                     /\ log[j].kind = "response" /\ log[j].pid = log[i].pid}

\* The requests for pid that have one.
Paired(pid) == {i \in 1 .. Len(log) : log[i] = Request(pid) /\ Candidates(i) # {}}

\* The table's entry for request i: the first response after it.
pairOf(i) == LET j == Min(Candidates(i)) IN [ecu |-> log[j].ecu, at |-> j, req |-> i]

\* Mutant: the first request of a PID decides, not the last.
answersFromFirst ==
    [pid \in Pids |-> IF Paired(pid) = {} THEN None ELSE pairOf(Min(Paired(pid)))]

\* The table: of a PID's requests the last one with an answer decides.
answersFrom ==
    [pid \in Pids |-> IF Paired(pid) = {} THEN None ELSE pairOf(Max(Paired(pid)))]

\* stopRecording(), and can-replay started on the log (an empty one it refuses) with
\* a new client.
StartReplay ==
    /\ recording /\ log # <<>>
    /\ recording' = FALSE
    /\ answers' = answersFrom
    /\ waiting' = NotWaiting
    /\ listening' = NoEcu
    /\ UNCHANGED <<log, used, replayed>>

\* The new client asks, for a value once a discovery has succeeded, and uses what
\* can-replay answers if it comes from the ECU it listens to; without an entry there
\* is no answer.
Respond(pid) ==
    /\ ~recording
    /\ pid = First \/ replayed[First] # None
    /\ LET heard == /\ answers[pid] # None
                    /\ pid = First \/ listening = answers[pid].ecu
       IN  /\ listening' = IF heard THEN answers[pid].ecu
                           ELSE IF pid = First THEN NoEcu ELSE listening
           /\ replayed' = IF heard THEN [replayed EXCEPT ![pid] = answers[pid]] ELSE replayed
    /\ UNCHANGED <<recording, log, waiting, used, answers>>

ReplayNext ==
    \/ \E pid \in Pids : Ask(pid) \/ Respond(pid)
    \/ \E ecu \in Ecus, pid \in Pids : Hear(ecu, pid)
    \/ HearOther \/ StartReplay
-----------------------------------------------------------------------------
Spoken == {log[i].ecu : i \in {k \in 1 .. Len(log) : log[k].kind = "response"}}

\* An answer was used for the PID, less than Window frames after its request.
InReach(pid) == used[pid] # None /\ used[pid].at < used[pid].req + Window

\* A session with one ECU replays, whatever was lost, late or broadcast in it: every
\* PID whose answer was in reach is answered, and a replaying client never uses one
\* that is older than what the recorded client used last.
SessionReplays ==
    ~recording /\ (\E ecu \in Ecus : Spoken = {ecu}) =>
        \A pid \in Pids : InReach(pid) =>
            /\ answers[pid] # None
            /\ replayed[pid] # None => replayed[pid].at >= used[pid].at
=============================================================================
