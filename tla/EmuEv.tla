-------------------------------- MODULE EmuEv --------------------------------
(***************************************************************************)
(* plugins/emu-ev/EmuPlugin.cpp: the thread of the emu-ev and emu-hybrid   *)
(* plugins, which polls PIDs over J1979 and the battery ECU's DIDs over    *)
(* UDS on an ISO-TP socket (libobd's IsoTp.cpp and Uds.cpp), against the   *)
(* two ECUs (external), which come and go on their own.                    *)
(*                                                                         *)
(* As in Obd2Ice, blocking calls are states of the thread in which time    *)
(* passes, a J1979 discovery is a chain of requests, and a value is when   *)
(* it was answered.  A DID's record is abstracted to when it was sent and  *)
(* to what the decoder makes of it.                                        *)
(***************************************************************************)
EXTENDS Poller, FiniteSets

CONSTANTS
    Hybrid,           \* emu-hybrid, or emu-ev
    Fast,             \* fastMs: the fast tier's interval and a poll's timeout
    DiscoverTimeout,  \* 300 ms in the code: timeout of one discovery request
    RetrySleep,       \* 1000 ms: pause after a discovery that failed
    IdleMax,          \* 50 ms: longest idle call
    PublishPeriod,    \* 50 ms
    LampWindow,       \* 500 ms: a lamp broadcast older than this is ignored
    Blocks,           \* what each block asked of the engine ECU advertises, seven at most
    Served,           \* the DIDs the battery ECU serves
    Records,          \* kinds of record it may send: good, short, refused
    Calls,            \* the lamps that the content of a DID calls for
    Lamps,            \* lamps the vehicle may broadcast
    Movers,           \* the sets of ECUs that may come or leave together
    Lossy,            \* whether a request may be lost or fail to be sent
    Late,             \* whether the battery ECU may answer after the timeout
    MaxLag,           \* how late the thread may return from a blocking call
    MaxTime,          \* bound of the model: the clock stops here
    MaxQueue,         \* bound of the model: frames waiting in a socket or an ECU
    MaxMoves          \* bound of the model: how often the ECUs come or leave

Ecus == {"obd", "bms"}
Dids == {"PACK", "RANGE", "DRIVE", "ASSIST"}

\* The PIDs discover() wants.
Pids == {"SPEED", "MODULE_VOLTAGE", "AMBIENT_TEMP", "ODOMETER"}
        \cup (IF Hybrid THEN {"RPM", "COOLANT_TEMP", "FUEL_LEVEL"} ELSE {})

\* Those it knows of, and those the engine ECU advertises.
EnginePids == Pids \cup {"RPM", "COOLANT_TEMP", "FUEL_LEVEL"}
Advertised == UNION {Blocks[b] : b \in DOMAIN Blocks}

\* Lamps that publish() lights from the DIDs' content.
MirroredLamps == {"EV_READY", "CHARGING", "LOW_TRACTION_BATTERY"}

ASSUME EcuAssumption ==
    /\ {Hybrid, Lossy, Late} \subseteq BOOLEAN
    /\ Blocks \in Seq(SUBSET EnginePids) /\ Blocks # <<>>
    /\ \A b \in DOMAIN Blocks : "SPEED" \in Blocks[b] => b = 1
    /\ Served \subseteq Dids
    /\ Records \subseteq {"good", "short", "refused"} /\ Records # {}
    /\ Calls \in [Dids -> SUBSET MirroredLamps]
    /\ Calls["DRIVE"] \subseteq (IF Hybrid THEN {} ELSE {"EV_READY"})
    /\ Calls["PACK"] \subseteq {"CHARGING", "LOW_TRACTION_BATTERY"}
    /\ Calls["RANGE"] = {} /\ Calls["ASSIST"] = {}
    /\ Movers \subseteq SUBSET Ecus
ASSUME PollTimingAssumption ==
    /\ {Fast, DiscoverTimeout, RetrySleep, IdleMax, PublishPeriod}
           \subseteq Nat \ {0}
    /\ {LampWindow, MaxLag, MaxTime, MaxQueue, MaxMoves} \subseteq Nat

\* The poll tiers of PIDs and DIDs.
interval(key) == Fast * CASE key \in {"SPEED", "RPM", "DRIVE", "PACK"} -> 1
                          [] key = "ASSIST"                            -> 2
                          [] key \in {"COOLANT_TEMP", "RANGE"}         -> 5
                          [] OTHER                                     -> 20

\* The signals a PID or DID is the source of.
signalsOf(key) ==
    CASE key = "PACK"   -> {"PACK_VOLTAGE", "PACK_CURRENT", "SOC", "SOH", "CHARGING_STATE"}
      [] key = "RANGE"  -> {"RANGE", "CONSUMPTION"}
      [] key = "DRIVE"  -> {"GEAR", "POWER_STATE", "MOTOR_POWER"}
                           \cup (IF Hybrid THEN {} ELSE {"RPM"})
      [] key = "ASSIST" -> {"ECO_SCORE", "SPEED_LIMIT", "COLLISION_RISK", "LANE_STATE",
                            "LEAD_GAP"}
      [] key = "MODULE_VOLTAGE" -> {"AUX_BATTERY"}
      [] OTHER          -> {key}
SignalsOf(keys) == UNION {signalsOf(key) : key \in keys}

VARIABLES
    now, pc, running,
    loopNow,     \* the clock read at the top of the loop; 0 after its last use
    wakeBy,      \* when the timeout of the blocking call ends
    block,       \* discovery: the block being asked for
    found,       \* discovery: what the blocks so far advertised
    current,     \* the PID or DID asked for
    bmsOpen,     \* the ISO-TP socket is open
    discovered, bmsPresent, assistPresent, supported, poller,
    values,      \* per PID: when its value was answered, Never without one
    record,      \* per DID: the fields as the last decode left them
    lampsSeen, lamps, nextPublish,
    link,        \* what the host was told by set_link
    published    \* the last vehicle state the host was given

\* The ECUs, the sockets, and what an observer would record.
VARIABLES
    up,          \* the ECUs that are there
    heard,       \* the engine ECU has the thread's request and will answer it
    owed,        \* requests the battery ECU has not answered yet
    rx,          \* replies of the battery ECU in the ISO-TP socket
    inbox,       \* lamp broadcasts in the raw socket
    lampsAt,     \* when the lamps read last were broadcast
    since,       \* when an ECU last came or left
    moves        \* how often one has

callVars    == <<wakeBy, current>>
chainVars   == <<block, found>>
knownVars   == <<discovered, bmsPresent, assistPresent, supported>>
hostVars    == <<nextPublish, link, published>>
lampVars    == <<lamps, lampsSeen, lampsAt, inbox>>
isoVars     == <<owed, rx>>
vehicleVars == <<up, since, moves>>
vars == <<now, pc, running, loopNow, callVars, chainVars, bmsOpen, knownVars, poller,
          values, record, hostVars, lampVars, heard, isoVars, vehicleVars>>

Never == -1
NoKey == "none"
NoValues == [pid \in Pids |-> Never]
NoRecord == [sent |-> Never, kind |-> "good"]

Init ==
    /\ now = 0
    /\ pc = "top"
    /\ running = TRUE
    /\ loopNow = 0
    /\ wakeBy = 0
    /\ block = 0 /\ found = {}
    /\ current = NoKey
    /\ bmsOpen \in BOOLEAN
    /\ discovered = FALSE /\ bmsPresent = FALSE /\ assistPresent = FALSE
    /\ supported = {}
    /\ poller = clear
    /\ values = NoValues
    /\ record = [did \in Dids |-> NoRecord]
    /\ lampsSeen = Never /\ lamps = {} /\ lampsAt = Never /\ inbox = <<>>
    /\ nextPublish = 0
    /\ link = "unknown"
    /\ published = [capable |-> {}, valid |-> {}, lamps |-> {}]
    /\ up \in SUBSET Ecus
    /\ heard = FALSE
    /\ owed = <<>> /\ rx = <<>>
    /\ since = 0
    /\ moves = 0
-----------------------------------------------------------------------------
(***************************************************************************)
(* The two sockets.                                                        *)
(***************************************************************************)

\* J1979Client::request: sends, then waits at most until its deadline.
request(timeout) ==
    /\ wakeBy' = now + timeout
    /\ heard' \in IF "obd" \notin up THEN {FALSE} ELSE IF Lossy THEN BOOLEAN ELSE {TRUE}

\* The raw socket hands over frames in the order they came: an answer is read
\* before a waiting broadcast only if that one came just now.
AnswerNext == inbox # <<>> => Head(inbox).at >= now - MaxLag

\* J1979Client::request gives up: at its timeout, with what came before read, or
\* at once.
GivesUp == Lossy \/ (now >= wakeBy /\ AnswerNext)

\* Mutant: what is left over is not dropped.
drainedNot == rx

\* IsoTpChannel::transact drops what is left over from an earlier, late answer,
\* sends, and then waits for one reply.
drained == <<>>

transact(did, timeout) ==
    /\ wakeBy' = now + timeout
    /\ current' = did
    /\ rx' = drained
    /\ owed' \in (IF "bms" \in up /\ Len(owed) < MaxQueue
                  THEN {Append(owed, did)} ELSE {owed})
                 \cup (IF Lossy THEN {owed} ELSE {})

\* parseReadDidReply: a positive reply names its DID; a negative one, or the reply
\* to another DID, is no answer to this request.
Positive == rx # <<>> /\ Head(rx).did = current

\* readDid returns without a positive reply: another reply, nothing by the
\* timeout, or a failed write.
NoReply ==
    \/ rx # <<>> /\ ~Positive
    \/ rx = <<>> /\ Lossy
    \/ rx = <<>> /\ now >= wakeBy /\ (owed = <<>> \/ Late)

\* transact() reads one reply, if there is one.
read == rx' = (IF rx = <<>> THEN rx ELSE Tail(rx)) /\ UNCHANGED owed

\* The thread leaves a blocking call for place p.
return(p) == pc' = p /\ wakeBy' = 0 /\ current' = NoKey /\ heard' = FALSE
-----------------------------------------------------------------------------
(***************************************************************************)
(* publish().                                                              *)
(***************************************************************************)

\* What the vehicle is advertised to have.
CapableKeys == (supported \cap Pids)
               \cup (IF bmsPresent THEN Dids \ {"ASSIST"} ELSE {})
               \cup (IF assistPresent THEN {"ASSIST"} ELSE {})

\* Lamps lit from the DIDs; a refused pack record has no known charging state.
mirrored(did) == IF record[did].kind = "refused" THEN Calls[did] \ {"CHARGING"}
                                                 ELSE Calls[did]

\* Mutant: a DID that ever answered stays valid; a lamp is kept for ever.
vehicleStateStale(vals, t) ==
    LET good == {key \in CapableKeys :
                    IF key \in Pids THEN vals[key] # Never /\ fresh(poller, key, t)
                    ELSE record[key].sent # Never}
    IN  [capable |-> SignalsOf(CapableKeys), valid |-> SignalsOf(good),
         lamps |-> lamps]

\* A PID is valid while it has a value and its last answer is fresh, a DID while
\* its last answer is.
vehicleState(vals, t) ==
    LET good == {key \in CapableKeys : /\ fresh(poller, key, t)
                                       /\ key \in Pids => vals[key] # Never}
    IN  [capable |-> SignalsOf(CapableKeys),
         valid   |-> SignalsOf(good),
         lamps   |-> (IF lampsSeen >= 0 /\ t - lampsSeen <= LampWindow THEN lamps ELSE {})
                     \cup UNION {mirrored(did) : did \in good \cap Dids}]
-----------------------------------------------------------------------------
(***************************************************************************)
(* run(): the top of the loop and discovery.                               *)
(***************************************************************************)
LoopTop ==
    /\ pc = "top"
    /\ running
    /\ loopNow' = now
    /\ \/ /\ discovered
          /\ pc' = "poll"
          /\ UNCHANGED <<wakeBy, heard, block>>
       \/ /\ ~discovered
          /\ pc' = "discover"
          /\ block' = 1
          /\ request(DiscoverTimeout)
    /\ UNCHANGED <<now, running, found, current, bmsOpen, knownVars, poller, values,
                   record, hostVars, lampVars, isoVars, vehicleVars>>

LoopExit ==
    /\ pc = "top"
    /\ ~running
    /\ pc' = "done"
    /\ UNCHANGED <<now, running, loopNow, callVars, chainVars, bmsOpen, knownVars,
                   poller, values, record, hostVars, lampVars, heard, isoVars,
                   vehicleVars>>

\* A PID or DID is polled in its tier; a wanted PID only if it is advertised.
addKey(p, key) == add(p, key, interval(key))
want(p, pid, pids) == IF pid \in pids \cap Pids THEN addKey(p, pid) ELSE p
wanted(p, pids) ==
    LET speed   == want(p, "SPEED", pids)
        rpm     == want(speed, "RPM", pids)
        coolant == want(rpm, "COOLANT_TEMP", pids)
        fuel    == want(coolant, "FUEL_LEVEL", pids)
        voltage == want(fuel, "MODULE_VOLTAGE", pids)
        ambient == want(voltage, "AMBIENT_TEMP", pids)
    IN  want(ambient, "ODOMETER", pids)

\* Mutant: the poller keeps what it polled before.
pollerForKeeps(pids) == wanted(poller, pids)

\* The poller of discover() before the battery ECU is asked.
pollerFor(pids) == wanted(clear, pids)

\* discover() returns true: the host is told of the vehicle.
Discovered == discovered' = TRUE /\ link' = "up" /\ return("poll")

\* The block's answer announces another block: ask for that one.
DiscoverNextBlock ==
    /\ pc = "discover"
    /\ heard /\ AnswerNext
    /\ block < Len(Blocks)
    /\ found' = found \cup Blocks[block]
    /\ block' = block + 1
    /\ request(DiscoverTimeout)
    /\ UNCHANGED <<now, pc, running, loopNow, current, bmsOpen, knownVars, poller,
                   values, record, hostVars, lampVars, isoVars, vehicleVars>>

\* J1979Client::discover has returned true with pids: they are replaced, the poller
\* and the values start afresh, and the battery ECU is asked.
ObdFound(pids) ==
    /\ supported' = pids
    /\ poller' = pollerFor(pids)
    /\ values' = NoValues
    /\ bmsPresent' = FALSE
    /\ block' = 0 /\ found' = {}
    /\ \/ /\ bmsOpen
          /\ transact("PACK", DiscoverTimeout)
          /\ pc' = "probePack"
          /\ heard' = FALSE
          /\ UNCHANGED <<discovered, assistPresent, link>>
       \/ /\ ~bmsOpen
          /\ assistPresent' = FALSE
          /\ Discovered
          /\ UNCHANGED isoVars
    /\ UNCHANGED <<now, running, loopNow, bmsOpen, record, nextPublish, published,
                   lampVars, vehicleVars>>

DiscoverLastBlock ==
    /\ pc = "discover"
    /\ heard /\ AnswerNext
    /\ block = Len(Blocks)
    /\ ObdFound(found \cup Blocks[block])

\* A later block goes unanswered: what was found so far is taken for all.
DiscoverCutShort ==
    /\ pc = "discover"
    /\ block > 1
    /\ ~heard /\ GivesUp
    /\ ObdFound(found)

\* The battery ECU answers the pack DID; it is asked for driver assist next.
ProbePackAnswer ==
    /\ pc = "probePack"
    /\ Positive
    /\ bmsPresent' = TRUE
    /\ poller' = addKey(addKey(addKey(poller, "DRIVE"), "PACK"), "RANGE")
    /\ transact("ASSIST", DiscoverTimeout)
    /\ pc' = "probeAssist"
    /\ UNCHANGED <<now, running, loopNow, chainVars, bmsOpen, discovered, assistPresent,
                   supported, values, record, hostVars, lampVars, heard, vehicleVars>>

ProbePackFail ==
    /\ pc = "probePack"
    /\ NoReply
    /\ assistPresent' = FALSE
    /\ read
    /\ Discovered
    /\ UNCHANGED <<now, running, loopNow, chainVars, bmsOpen, bmsPresent, supported,
                   poller, values, record, nextPublish, published, lampVars,
                   vehicleVars>>

ProbeAssist ==
    /\ pc = "probeAssist"
    /\ \/ Positive /\ assistPresent' = TRUE /\ poller' = addKey(poller, "ASSIST")
       \/ NoReply  /\ assistPresent' = FALSE /\ UNCHANGED poller
    /\ read
    /\ Discovered
    /\ UNCHANGED <<now, running, loopNow, chainVars, bmsOpen, bmsPresent, supported,
                   values, record, nextPublish, published, lampVars, vehicleVars>>

\* The first block goes unanswered.  The state published is the one of loopNow.
DiscoverFail ==
    /\ pc = "discover"
    /\ block = 1
    /\ ~heard /\ GivesUp
    /\ link' = "down"
    /\ values' = NoValues
    /\ published' = vehicleState(NoValues, loopNow)
    /\ pc' = "sleep"
    /\ wakeBy' = now + RetrySleep
    /\ loopNow' = 0
    /\ block' = 0
    /\ UNCHANGED <<now, running, found, current, bmsOpen, knownVars, poller, record,
                   nextPublish, lampVars, heard, isoVars, vehicleVars>>

Wake ==
    /\ pc = "sleep"
    /\ now >= wakeBy
    /\ return("top")
    /\ UNCHANGED <<now, running, loopNow, chainVars, bmsOpen, knownVars, poller, values,
                   record, hostVars, lampVars, isoVars, vehicleVars>>
-----------------------------------------------------------------------------
(***************************************************************************)
(* run(): polling.                                                         *)
(***************************************************************************)
PollRequest ==
    /\ pc = "poll"
    /\ DueItems(poller, loopNow) # {}
    /\ LET key == nextDue(poller, loopNow)
       IN  /\ poller' = markRequested(poller, key, loopNow)
           /\ \/ /\ key \in Pids
                 /\ request(Fast)
                 /\ current' = key
                 /\ pc' = "query"
                 /\ UNCHANGED isoVars
              \/ /\ key \in Dids
                 /\ transact(key, Fast)
                 /\ pc' = "pollDid"
                 /\ UNCHANGED heard
    /\ loopNow' = 0
    /\ UNCHANGED <<now, running, chainVars, bmsOpen, knownVars, values, record, hostVars,
                   lampVars, vehicleVars>>

\* Nothing is due: wait for the next deadline, at most IdleMax.
PollIdle ==
    /\ pc = "poll"
    /\ DueItems(poller, loopNow) = {}
    /\ wakeBy' = now + Max({1, Min({IdleMax, nextDeadline(poller, loopNow) - loopNow})})
    /\ loopNow' = 0
    /\ pc' = "idle"
    /\ UNCHANGED <<now, running, current, chainVars, bmsOpen, knownVars, poller, values,
                   record, hostVars, lampVars, heard, isoVars, vehicleVars>>

\* The poll was answered.
Answered ==
    /\ poller' = markAnswered(poller, current, now)
    /\ return("publish")
    /\ UNCHANGED <<discovered, link>>

\* Mutant: each unanswered poll counts against the vehicle on its own.
UnansweredAtOnce ==
    /\ discovered' = FALSE /\ link' = "down" /\ return("top")
    /\ UNCHANGED poller
\* Mutant: the vehicle is given up only after twenty polls.
UnansweredPatient ==
    /\ \/ /\ poller.unanswered >= 20
          /\ discovered' = FALSE /\ link' = "down" /\ return("top")
       \/ /\ poller.unanswered < 20
          /\ return("publish") /\ UNCHANGED <<discovered, link>>
    /\ UNCHANGED poller

\* It was not.  With eight in a row the vehicle is gone and the loop goes back to
\* discovery without publishing.
Unanswered ==
    /\ \/ /\ poller.unanswered >= 8
          /\ discovered' = FALSE /\ link' = "down" /\ return("top")
       \/ /\ poller.unanswered < 8
          /\ return("publish") /\ UNCHANGED <<discovered, link>>
    /\ UNCHANGED poller

QueryAnswer ==
    /\ pc = "query"
    /\ heard /\ AnswerNext
    /\ values' = [values EXCEPT ![current] = now]
    /\ Answered
    /\ UNCHANGED <<now, running, loopNow, chainVars, bmsOpen, bmsPresent, assistPresent,
                   supported, record, nextPublish, published, lampVars, isoVars,
                   vehicleVars>>

QueryFail ==
    /\ pc = "query"
    /\ IF heard THEN Lossy ELSE GivesUp
    /\ Unanswered
    /\ UNCHANGED <<now, running, loopNow, chainVars, bmsOpen, bmsPresent, assistPresent,
                   supported, values, record, nextPublish, published, lampVars, isoVars,
                   vehicleVars>>

\* pollDid has a positive reply.  The decoders leave the fields alone when the
\* record is too short, and refuse one out of range after they have stored it.
PollDidReply ==
    /\ pc = "pollDid"
    /\ Positive
    /\ record' = IF Head(rx).kind = "short" THEN record
                 ELSE [record EXCEPT ![current] = [sent |-> Head(rx).sent,
                                                   kind |-> Head(rx).kind]]
    /\ \/ Head(rx).kind = "good" /\ Answered
       \/ Head(rx).kind # "good" /\ Unanswered
    /\ read
    /\ UNCHANGED <<now, running, loopNow, chainVars, bmsOpen, bmsPresent, assistPresent,
                   supported, values, nextPublish, published, lampVars, vehicleVars>>

PollDidFail ==
    /\ pc = "pollDid"
    /\ NoReply
    /\ read
    /\ Unanswered
    /\ UNCHANGED <<now, running, loopNow, chainVars, bmsOpen, bmsPresent, assistPresent,
                   supported, values, record, nextPublish, published, lampVars,
                   vehicleVars>>

\* idle() ends at its timeout, or earlier with a frame that is no broadcast.
IdleEnd ==
    /\ pc = "idle"
    /\ AnswerNext
    /\ return("publish")
    /\ UNCHANGED <<now, running, loopNow, chainVars, bmsOpen, knownVars, poller, values,
                   record, hostVars, lampVars, isoVars, vehicleVars>>

Publish ==
    /\ pc = "publish"
    /\ \/ /\ now >= nextPublish
          /\ published' = vehicleState(values, now)
          /\ nextPublish' = now + PublishPeriod
       \/ /\ now < nextPublish
          /\ UNCHANGED <<published, nextPublish>>
    /\ pc' = "top"
    /\ UNCHANGED <<now, running, loopNow, callVars, chainVars, bmsOpen, knownVars,
                   poller, values, record, link, lampVars, heard, isoVars, vehicleVars>>

\* A thread that waits on the raw socket reads a lamp broadcast, as of now
\* whenever it came: request() goes on waiting, idle() returns.
onTelltales ==
    /\ pc \in {"discover", "query", "idle"}
    /\ inbox # <<>>
    /\ lamps' = Head(inbox).lit
    /\ lampsSeen' = now
    /\ lampsAt' = Head(inbox).at
    /\ inbox' = Tail(inbox)
    /\ IF pc = "idle" THEN return("publish") ELSE UNCHANGED <<pc, callVars, heard>>
    /\ UNCHANGED <<now, running, loopNow, chainVars, bmsOpen, knownVars, poller, values,
                   record, hostVars, isoVars, vehicleVars>>

\* stop() clears the flag; when it has joined the thread it closes the sockets.
Stop ==
    /\ running
    /\ running' = FALSE
    /\ UNCHANGED <<now, pc, loopNow, callVars, chainVars, bmsOpen, knownVars, poller,
                   values, record, hostVars, lampVars, heard, isoVars, vehicleVars>>

StopJoined ==
    /\ pc = "done"
    /\ pc' = "stopped"
    /\ bmsOpen' = FALSE
    /\ rx' = <<>> /\ inbox' = <<>>
    /\ UNCHANGED <<now, running, loopNow, callVars, chainVars, knownVars, poller, values,
                   record, hostVars, lamps, lampsSeen, lampsAt, heard, owed,
                   vehicleVars>>
-----------------------------------------------------------------------------
(***************************************************************************)
(* The ECUs and the clock.                                                 *)
(***************************************************************************)

\* The battery ECU answers its oldest request, negatively for a DID it lacks.
BmsReplies(kind) ==
    /\ pc \notin {"done", "stopped"}
    /\ owed # <<>>
    /\ Len(rx) < MaxQueue
    /\ ~(Head(owed) = "RANGE" /\ kind = "refused")
    /\ rx' = Append(rx, [did  |-> IF Head(owed) \in Served THEN Head(owed) ELSE NoKey,
                         kind |-> IF Head(owed) \in Served THEN kind ELSE "good",
                         sent |-> now])
    /\ owed' = Tail(owed)
    /\ UNCHANGED <<now, pc, running, loopNow, callVars, chainVars, bmsOpen, knownVars,
                   poller, values, record, hostVars, lampVars, heard, vehicleVars>>

\* The vehicle broadcasts its lamps, whatever the thread is doing.
Broadcast(lit) ==
    /\ pc \notin {"done", "stopped"}
    /\ "obd" \in up
    /\ Lamps # {}
    /\ Len(inbox) < MaxQueue
    /\ inbox' = Append(inbox, [lit |-> lit, at |-> now])
    /\ UNCHANGED <<now, pc, running, loopNow, callVars, chainVars, bmsOpen, knownVars,
                   poller, values, record, hostVars, lamps, lampsSeen, lampsAt, heard,
                   isoVars, vehicleVars>>

\* ECUs come, or leave with what they have not answered.
Come(ecus)  == ecus \cap up = {} /\ up' = up \cup ecus /\ UNCHANGED <<heard, owed>>
Leave(ecus) == /\ ecus \subseteq up
               /\ up' = up \ ecus
               /\ heard' = (heard /\ "obd" \notin ecus)
               /\ owed' = IF "bms" \in ecus THEN <<>> ELSE owed

Moves(ecus) ==
    /\ moves < MaxMoves
    /\ Come(ecus) \/ Leave(ecus)
    /\ since' = now
    /\ moves' = moves + 1
    /\ UNCHANGED <<now, pc, running, loopNow, callVars, chainVars, bmsOpen, knownVars,
                   poller, values, record, hostVars, lampVars, rx>>

\* Time passes while the thread is in a blocking call, at most MaxLag beyond the
\* call's timeout or the arrival of a frame that it waits for.
Advance ==
    /\ now < MaxTime
    /\ pc \in {"discover", "probePack", "probeAssist", "sleep", "query", "pollDid", "idle"}
    /\ now < wakeBy + MaxLag
    /\ pc \in {"discover", "query", "idle"} /\ inbox # <<>>
          => now < Head(inbox).at + MaxLag
    /\ pc \in {"probePack", "probeAssist", "pollDid"} /\ rx # <<>>
          => now < Head(rx).sent + MaxLag
    /\ now' = now + 1
    /\ UNCHANGED <<pc, running, loopNow, callVars, chainVars, bmsOpen, knownVars, poller,
                   values, record, hostVars, lampVars, heard, isoVars, vehicleVars>>

\* stop() has returned, or the model's clock has run out.
Finished == (pc = "stopped" \/ now = MaxTime) /\ UNCHANGED vars

Next ==
    \/ LoopTop \/ LoopExit
    \/ DiscoverNextBlock \/ DiscoverLastBlock \/ DiscoverCutShort \/ DiscoverFail
    \/ ProbePackAnswer \/ ProbePackFail \/ ProbeAssist
    \/ Wake
    \/ PollRequest \/ PollIdle \/ QueryAnswer \/ QueryFail \/ PollDidReply \/ PollDidFail
    \/ IdleEnd \/ Publish \/ onTelltales
    \/ Stop \/ StopJoined
    \/ \E kind \in Records : BmsReplies(kind)
    \/ \E lit \in SUBSET Lamps : Broadcast(lit)
    \/ \E ecus \in Movers : Moves(ecus)
    \/ Advance \/ Finished

Spec == Init /\ [][Next]_vars
-----------------------------------------------------------------------------
(***************************************************************************)
(* Properties.                                                             *)
(***************************************************************************)
Times == 0 .. (MaxTime + Fast + DiscoverTimeout + RetrySleep + IdleMax + PublishPeriod)
Reply == [did: Dids \cup {NoKey}, kind: Records \cup {"good"}, sent: Times]

\* Every variable has its type.
TypeOK ==
    /\ now \in 0 .. MaxTime
    /\ pc \in {"top", "discover", "probePack", "probeAssist", "sleep", "poll", "query",
               "pollDid", "idle", "publish", "done", "stopped"}
    /\ {running, bmsOpen, discovered, bmsPresent, assistPresent, heard} \subseteq BOOLEAN
    /\ {loopNow, wakeBy, nextPublish, since} \subseteq Times
    /\ block \in 0 .. Len(Blocks) /\ found \subseteq Advertised
    /\ current \in Pids \cup Dids \cup {NoKey}
    /\ supported \subseteq Advertised
    /\ PidsOf(poller) \subseteq (Pids \cap Advertised) \cup Dids
    /\ values \in [Pids -> Times \cup {Never}]
    /\ record \in [Dids -> [sent: Times \cup {Never}, kind: Records \cup {"good"}]]
    /\ {lampsSeen, lampsAt} \subseteq Times \cup {Never}
    /\ lamps \subseteq Lamps
    /\ link \in {"unknown", "up", "down"}
    /\ published.valid \subseteq published.capable
    /\ up \subseteq Ecus
    /\ Range(owed) \subseteq Dids /\ Len(owed) <= MaxQueue
    /\ Range(rx) \subseteq Reply /\ Len(rx) <= MaxQueue
    /\ moves \in 0 .. MaxMoves

\* The thread hands a vehicle state to the host in this step.
HandsOver == nextPublish' # nextPublish \/ (pc = "discover" /\ pc' = "sleep")

\* A DID that is handed to the host as valid was sent by the battery ECU at most
\* three of its intervals ago (a failed discovery hands over the state of before
\* the attempt), although the ECU may answer after the timeout, when another DID is
\* being asked for: a late reply is dropped by the next transact() or does not
\* match.
RecordsRecent ==
    [][HandsOver => \A did \in Dids :
           signalsOf(did) \cap published'.valid # {}
              => /\ record[did].sent # Never
                 /\ (IF pc = "discover" THEN loopNow ELSE now) - record[did].sent
                       <= 3 * interval(did) + MaxLag]_vars

\* What is polled is what is advertised, after any order of losses and discoveries
\* with and without the battery ECU: nothing is advertised that no poll can ever
\* make valid, and nothing polled that is not advertised.
PolledIsAdvertised ==
    pc \notin {"probePack", "probeAssist"} => PidsOf(poller) = CapableKeys

\* A battery ECU that is silent or late never takes the link down while the engine
\* ECU answers: eight polls in a row always contain a PID.
LinkHolds ==
    [][/\ "obd" \in up \ UNION Movers /\ ~Lossy /\ "SPEED" \in Blocks[1]
       /\ link = "up"
       => link' = "up"]_vars

\* Nor does it starve the speed: while the engine ECU answers, however late, every
\* other PID or DID is polled at most once between two polls of the speed, even if each
\* poll takes its whole timeout and the first begins just before the speed is due.
\* (With a silent battery ECU that is longer than the three intervals for which the
\* speed counts as valid.)
SpeedPolled ==
    /\ "obd" \in up \ UNION Movers /\ ~Lossy
    /\ running /\ discovered
    /\ values["SPEED"] # Never
    => now - values["SPEED"]
          <= Max({2 * Fast, (1 + Len(poller.items)) * Fast - 1})
             + (1 + Len(poller.items)) * MaxLag

\* The longest time the raw socket goes unread: a retry pause, or the probes or a
\* round of polls of the DIDs.
Unread == Max({RetrySleep, 2 * DiscoverTimeout, 4 * Fast})

\* As long as the bus works and the speed is polled, a broadcast lamp handed to the
\* host as lit is at most as old as the raw socket goes unread and then LampWindow and
\* a discovery timeout.  (Without the speed the DIDs alone may keep the thread from
\* the raw socket for ever.)
LampsRecent ==
    [][/\ HandsOver /\ (published'.lamps \cap Lamps) \ MirroredLamps # {}
       /\ ~Lossy /\ "SPEED" \in Blocks[1]
       => now - lampsAt <= Unread + LampWindow + DiscoverTimeout + 6 * MaxLag]_vars

\* A vehicle whose two ECUs have left is reported gone after eight polls, whenever
\* a fast-tier PID or DID is polled, wherever in a discovery it left: what is left of
\* that costs a later block's timeout and then a probe's.
LossReported ==
    /\ up = {}
    /\ link = "up"
    /\ {"SPEED", "DRIVE"} \cap PidsOf(poller) # {}
    => now <= since + Max({Fast, 2 * DiscoverTimeout}) + 8 * Fast + 11 * MaxLag

\* In every state: the types, and the bound on a loss that is not reported.
Inv == TypeOK /\ LossReported

\* docs/plugin-authoring.md: "Set a `valid` bit only when the field holds a current
\* measurement."  A record that the decoder refused is never handed over as valid.
RefusedNotValid ==
    [][HandsOver => \A did \in Dids :
           signalsOf(did) \cap published'.valid # {}
              => record[did].kind # "refused"]_vars
=============================================================================
