------------------------------ MODULE Obd2Ice -------------------------------
(***************************************************************************)
(* plugins/obd2-ice/obd2_ice.cpp: the J1979 poller's thread, with the      *)
(* discovery and the requests of libobd's J1979Client that it blocks in,   *)
(* against a vehicle (external) that comes and goes and loses requests.    *)
(*                                                                         *)
(* Blocking calls are states of the thread in which time passes; wakeBy is *)
(* the end of the call's timeout.  A measured value is abstracted to the   *)
(* time at which the vehicle answered it.                                  *)
(***************************************************************************)
EXTENDS Poller

CONSTANTS
    Fast,             \* fastMs: the fast tier's interval and a query's timeout
    DiscoverTimeout,  \* 300 ms in the code: timeout of one discovery request
    RetrySleep,       \* 1000 ms: pause after a discovery that failed
    IdleMax,          \* 50 ms: longest idle call
    PublishPeriod,    \* 50 ms
    LampWindow,       \* 500 ms: a lamp broadcast older than this is ignored
    Blocks,           \* what each supported-PIDs block of the vehicle advertises
    Fillers,          \* PIDs the vehicle may answer with an implausible filler
    Lamps,            \* lamps the vehicle may broadcast
    Lossy,            \* whether a present vehicle may leave a request unanswered
    BusErrors,        \* whether sending or receiving may fail at once
    MaxLag,           \* how late the thread may return from a blocking call
    MaxTime,          \* bound of the model: the clock stops here
    MaxQueue,         \* bound of the model: broadcasts waiting in the socket
    MaxMoves          \* bound of the model: how often the vehicle comes or leaves

\* The PIDs the plugin asks for.
Pids == {"SPEED", "RPM", "COOLANT_TEMP", "FUEL_LEVEL", "MODULE_VOLTAGE",
         "AMBIENT_TEMP", "ODOMETER"}

ASSUME VehicleAssumption ==
    /\ Blocks \in Seq(SUBSET Pids) /\ Blocks # <<>>
    /\ Fillers \subseteq {"MODULE_VOLTAGE", "AMBIENT_TEMP"}
    /\ {Lossy, BusErrors} \subseteq BOOLEAN
ASSUME PollTimingAssumption ==
    /\ {Fast, DiscoverTimeout, RetrySleep, IdleMax, PublishPeriod}
           \subseteq Nat \ {0}
    /\ {LampWindow, MaxLag, MaxTime, MaxQueue, MaxMoves} \subseteq Nat

\* The poll tiers.
interval(pid) == Fast * CASE pid \in {"SPEED", "RPM"} -> 1
                          [] pid = "COOLANT_TEMP"     -> 5
                          [] OTHER                    -> 20

\* The signals a PID is the source of; the power state is read off the rpm.
signalsOf(pid) == CASE pid = "MODULE_VOLTAGE" -> {"AUX_BATTERY"}
                    [] pid = "RPM"            -> {"RPM", "POWER_STATE"}
                    [] OTHER                  -> {pid}
SignalsOf(pids) == UNION {signalsOf(pid) : pid \in pids}

VARIABLES
    now,         \* steady clock
    pc,          \* where the plugin thread is
    running,     \* the plugin's running flag
    loopNow,     \* the clock read at the top of the loop; 0 after its last use
    wakeBy,      \* when the timeout of the blocking call ends
    block,       \* discovery: the block being asked for
    found,       \* discovery: what the blocks so far advertised
    current,     \* the PID being queried
    discovered, supported, poller, lampsSeen, lamps, nextPublish,
    values,      \* per PID: when its value was answered, Never without one
    link,        \* what the host was told by set_link
    published,   \* the last vehicle state the host was given
    publishedAt, \* when it was given
    linkAt       \* when the link was reported up, 0 while it is not

\* The vehicle, and what an observer of the vehicle bus would record.
VARIABLES
    present,     \* the vehicle is there
    inbox,       \* lamp broadcasts in the socket that the thread has not read
    lampsAt,     \* when the lamps read last were broadcast
    heard,       \* the vehicle has the thread's request and will answer it
    since,       \* when the vehicle last came or left
    moves        \* how often it has

linkVars   == <<link, linkAt>>
handedVars == <<published, publishedAt>>
threadVars == <<running, loopNow, block, found, current, discovered, supported,
                poller, nextPublish, values, linkVars, handedVars>>
lampVars   == <<lamps, lampsSeen, lampsAt, inbox>>
vehicleVars == <<present, since, moves>>
vars == <<now, pc, wakeBy, threadVars, lampVars, vehicleVars, heard>>

Never == -1
NoPid == "none"
NoVehicleState == [capable |-> {}, valid |-> {}, lamps |-> {}]
NoValues == [pid \in Pids |-> Never]

Init ==
    /\ now = 0
    /\ pc = "top"
    /\ running = TRUE
    /\ loopNow = 0
    /\ wakeBy = 0
    /\ block = 0
    /\ found = {}
    /\ current = NoPid
    /\ discovered = FALSE
    /\ supported = {}
    /\ poller = clear
    /\ lampsSeen = Never
    /\ lamps = {}
    /\ nextPublish = 0
    /\ values = NoValues
    /\ link = "unknown"
    /\ published = NoVehicleState
    /\ publishedAt = 0
    /\ linkAt = 0
    /\ present \in BOOLEAN
    /\ inbox = <<>>
    /\ lampsAt = Never
    /\ heard = FALSE
    /\ since = 0
    /\ moves = 0
-----------------------------------------------------------------------------
(***************************************************************************)
(* Helpers of the thread.                                                  *)
(***************************************************************************)

\* J1979Client::request sends and then waits at most until its deadline.
request(timeout) ==
    /\ wakeBy' = now + timeout
    /\ heard' \in IF ~present THEN {FALSE} ELSE IF Lossy THEN BOOLEAN ELSE {TRUE}

\* The socket hands over frames in the order they came: an answer is read before
\* a waiting broadcast only if that one came just now.
AnswerNext == inbox # <<>> => Head(inbox).at >= now - MaxLag

\* request() gives up: at its timeout, with what came before read, or at once.
GivesUp == BusErrors \/ (now >= wakeBy /\ AnswerNext)

\* The thread leaves a blocking call for place p.
return(p) == pc' = p /\ wakeBy' = 0 /\ heard' = FALSE

\* Mutants: only PIDs with a current value are capable; lamps never go out.
vehicleStateHides(vals, t) ==
    LET good == {pid \in supported : vals[pid] # Never /\ fresh(poller, pid, t)}
    IN  [capable |-> SignalsOf(good), valid |-> SignalsOf(good), lamps |-> {}]
vehicleStateKeepsLamps(vals, t) ==
    LET good == {pid \in supported : vals[pid] # Never /\ fresh(poller, pid, t)}
    IN  [capable |-> SignalsOf(supported), valid |-> SignalsOf(good), lamps |-> lamps]

\* The vehicle state of publish(t): a supported PID is capable, and valid while
\* it has a value and its last answer is fresh.
vehicleState(vals, t) ==
    LET good == {pid \in supported : vals[pid] # Never /\ fresh(poller, pid, t)}
    IN  [capable |-> SignalsOf(supported),
         valid   |-> SignalsOf(good),
         lamps   |-> IF lampsSeen >= 0 /\ t - lampsSeen <= LampWindow
                     THEN lamps ELSE {}]

\* A wanted PID is polled if the vehicle supports it.
want(p, pid, pids) == IF pid \in pids THEN add(p, pid, interval(pid)) ELSE p

\* The poller that discover() builds for what the vehicle supports.
pollerFor(pids) ==
    LET speed    == want(clear, "SPEED", pids)
        rpm      == want(speed, "RPM", pids)
        coolant  == want(rpm, "COOLANT_TEMP", pids)
        fuel     == want(coolant, "FUEL_LEVEL", pids)
        voltage  == want(fuel, "MODULE_VOLTAGE", pids)
        ambient  == want(voltage, "AMBIENT_TEMP", pids)
    IN  want(ambient, "ODOMETER", pids)
-----------------------------------------------------------------------------
(***************************************************************************)
(* run(): the top of the loop and discovery.                               *)
(***************************************************************************)
LoopTop ==
    /\ pc = "top"
    /\ running
    /\ loopNow' = now
    /\ \/ /\ discovered
          /\ pc' = "poll"
          /\ UNCHANGED <<block, wakeBy, heard>>
       \/ /\ ~discovered
          /\ pc' = "discover"
          /\ block' = 1
          /\ request(DiscoverTimeout)
    /\ UNCHANGED <<now, running, found, current, discovered, supported, poller,
                   nextPublish, values, linkVars, handedVars, lampVars, vehicleVars>>

LoopExit ==
    /\ pc = "top"
    /\ ~running
    /\ pc' = "done"
    /\ UNCHANGED <<now, wakeBy, threadVars, lampVars, vehicleVars, heard>>

\* The block's answer announces another block: ask for that one.
DiscoverNextBlock ==
    /\ pc = "discover"
    /\ heard /\ AnswerNext
    /\ block < Len(Blocks)
    /\ found' = found \cup Blocks[block]
    /\ block' = block + 1
    /\ request(DiscoverTimeout)
    /\ UNCHANGED <<now, pc, running, loopNow, current, discovered, supported, poller,
                   nextPublish, values, linkVars, handedVars, lampVars, vehicleVars>>

\* Discovery has succeeded with pids: what the vehicle can do is replaced, the
\* poller and the values start afresh, and the host is told of the vehicle.
Discovered(pids) ==
    /\ supported' = pids
    /\ poller' = pollerFor(pids)
    /\ values' = NoValues
    /\ discovered' = TRUE
    /\ link' = "up"
    /\ linkAt' = now
    /\ block' = 0
    /\ found' = {}
    /\ return("poll")
    /\ UNCHANGED <<now, running, loopNow, current, nextPublish, handedVars, lampVars,
                   vehicleVars>>

DiscoverLastBlock ==
    /\ pc = "discover"
    /\ heard /\ AnswerNext
    /\ block = Len(Blocks)
    /\ Discovered(found \cup Blocks[block])

\* A later block goes unanswered: what was found so far is taken for all.
DiscoverCutShort ==
    /\ pc = "discover"
    /\ block > 1
    /\ ~heard /\ GivesUp
    /\ Discovered(found)

\* Mutant: the pause after a failed discovery is twice as long.
retryAtLater == now + 2 * RetrySleep

\* When the loop tries again after a failed discovery.
retryAt == now + RetrySleep

\* Mutant: a failed discovery leaves the values it had.
lostStateKeeps == vehicleState(values, loopNow)

\* The state published after a failed discovery, when the values are cleared.
lostState == vehicleState(NoValues, loopNow)

\* The first block goes unanswered.  The state published is the one of loopNow,
\* the clock before the attempt.
DiscoverFail ==
    /\ pc = "discover"
    /\ block = 1
    /\ ~heard /\ GivesUp
    /\ link' = "down"
    /\ linkAt' = 0
    /\ values' = NoValues
    /\ published' = lostState
    /\ publishedAt' = now
    /\ block' = 0
    /\ pc' = "sleep"
    /\ wakeBy' = retryAt
    /\ loopNow' = 0
    /\ UNCHANGED <<now, running, found, current, discovered, supported,
                   poller, nextPublish, lampVars, vehicleVars, heard>>

Wake ==
    /\ pc = "sleep"
    /\ now >= wakeBy
    /\ return("top")
    /\ UNCHANGED <<now, threadVars, lampVars, vehicleVars>>
-----------------------------------------------------------------------------
(***************************************************************************)
(* run(): polling.                                                         *)
(***************************************************************************)
PollRequest ==
    /\ pc = "poll"
    /\ DueItems(poller, loopNow) # {}
    /\ LET pid == nextDue(poller, loopNow)
       IN  /\ poller' = markRequested(poller, pid, loopNow)
           /\ current' = pid
    /\ request(Fast)
    /\ loopNow' = 0
    /\ pc' = "query"
    /\ UNCHANGED <<now, running, block, found, discovered, supported,
                   nextPublish, values, linkVars, handedVars, lampVars, vehicleVars>>

\* Nothing is due: wait for the next deadline, at most IdleMax.
PollIdle ==
    /\ pc = "poll"
    /\ DueItems(poller, loopNow) = {}
    /\ wakeBy' = now + Max({1, Min({IdleMax, nextDeadline(poller, loopNow) - loopNow})})
    /\ loopNow' = 0
    /\ pc' = "idle"
    /\ UNCHANGED <<now, running, block, found, current, discovered, supported, poller,
                   nextPublish, values, linkVars, handedVars, lampVars, vehicleVars, heard>>

\* A plausible answer is stored.
QueryAnswer ==
    /\ pc = "query"
    /\ heard /\ AnswerNext
    /\ values' = [values EXCEPT ![current] = now]
    /\ poller' = markAnswered(poller, current, now)
    /\ current' = NoPid
    /\ return("publish")
    /\ UNCHANGED <<now, running, loopNow, block, found, discovered, supported,
                   nextPublish, linkVars, handedVars, lampVars, vehicleVars>>

\* An implausible one drops its PID, and is not marked as an answer.
QueryFiller ==
    /\ pc = "query"
    /\ heard /\ AnswerNext
    /\ current \in Fillers
    /\ supported' = supported \ {current}
    /\ poller' = remove(poller, current)
    /\ values' = [values EXCEPT ![current] = Never]
    /\ current' = NoPid
    /\ return("publish")
    /\ UNCHANGED <<now, running, loopNow, block, found, discovered, nextPublish,
                   linkVars, handedVars, lampVars, vehicleVars>>

\* Mutant: an unanswered query skips the publish.
QueryFailSkips ==
    /\ pc = "query"
    /\ IF heard THEN Lossy ELSE GivesUp
    /\ current' = NoPid
    /\ \/ /\ poller.unanswered >= 5
          /\ discovered' = FALSE
          /\ link' = "down"
          /\ linkAt' = 0
          /\ return("top")
       \/ /\ poller.unanswered < 5
          /\ return("top")
          /\ UNCHANGED <<discovered, linkVars>>
    /\ UNCHANGED <<now, running, loopNow, block, found, supported, poller, nextPublish,
                   values, handedVars, lampVars, vehicleVars>>

\* query() returns false: no answer by the timeout, a send or receive error, or
\* an answer too short to decode.  With the streak at five the vehicle is gone and
\* the loop goes back to discovery without publishing.
QueryFail ==
    /\ pc = "query"
    /\ IF heard THEN Lossy ELSE GivesUp
    /\ current' = NoPid
    /\ \/ /\ poller.unanswered >= 5
          /\ discovered' = FALSE
          /\ link' = "down"
          /\ linkAt' = 0
          /\ return("top")
       \/ /\ poller.unanswered < 5
          /\ return("publish")
          /\ UNCHANGED <<discovered, linkVars>>
    /\ UNCHANGED <<now, running, loopNow, block, found, supported, poller, nextPublish,
                   values, handedVars, lampVars, vehicleVars>>

\* idle() ends at its timeout, or earlier with a frame that is no broadcast.
IdleEnd ==
    /\ pc = "idle"
    /\ AnswerNext
    /\ return("publish")
    /\ UNCHANGED <<now, threadVars, lampVars, vehicleVars>>

Publish ==
    /\ pc = "publish"
    /\ \/ /\ now >= nextPublish
          /\ published' = vehicleState(values, now)
          /\ publishedAt' = now
          /\ nextPublish' = now + PublishPeriod
       \/ /\ now < nextPublish
          /\ UNCHANGED <<handedVars, nextPublish>>
    /\ pc' = "top"
    /\ UNCHANGED <<now, wakeBy, running, loopNow, block, found, current, discovered,
                   supported, poller, values, linkVars, lampVars, vehicleVars, heard>>

\* A waiting thread reads a lamp broadcast, as of now whenever it came: request()
\* goes on waiting, idle() returns.
onTelltales ==
    /\ pc \in {"discover", "query", "idle"}
    /\ inbox # <<>>
    /\ lamps' = Head(inbox).lit
    /\ lampsSeen' = now
    /\ lampsAt' = Head(inbox).at
    /\ inbox' = Tail(inbox)
    /\ IF pc = "idle" THEN return("publish") ELSE UNCHANGED <<pc, wakeBy, heard>>
    /\ UNCHANGED <<now, threadVars, vehicleVars>>

\* stop() clears the flag and joins the thread (pc = "done").
Stop ==
    /\ running
    /\ running' = FALSE
    /\ UNCHANGED <<now, pc, wakeBy, loopNow, block, found, current, discovered,
                   supported, poller, nextPublish, values, linkVars, handedVars, lampVars,
                   vehicleVars, heard>>
-----------------------------------------------------------------------------
(***************************************************************************)
(* The vehicle and the clock.                                              *)
(***************************************************************************)
VehicleLeaves ==
    /\ present
    /\ moves < MaxMoves
    /\ present' = FALSE
    /\ since' = now
    /\ moves' = moves + 1
    /\ heard' = FALSE
    /\ UNCHANGED <<now, pc, wakeBy, threadVars, lampVars>>

\* The vehicle broadcasts its lamps, whatever the thread is doing.
VehicleBroadcast(lit) ==
    /\ present
    /\ Lamps # {}
    /\ Len(inbox) < MaxQueue
    /\ inbox' = Append(inbox, [lit |-> lit, at |-> now])
    /\ UNCHANGED <<now, pc, wakeBy, threadVars, lamps, lampsSeen, lampsAt, vehicleVars,
                   heard>>

VehicleReturns ==
    /\ ~present
    /\ moves < MaxMoves
    /\ present' = TRUE
    /\ since' = now
    /\ moves' = moves + 1
    /\ UNCHANGED <<now, pc, wakeBy, threadVars, lampVars, heard>>

\* Time passes while the thread is in a blocking call, at most MaxLag beyond the
\* call's timeout or the arrival of a frame that it waits for.
Advance ==
    /\ now < MaxTime
    /\ pc \in {"discover", "sleep", "query", "idle"}
    /\ now < wakeBy + MaxLag
    /\ pc # "sleep" /\ inbox # <<>> => now < Head(inbox).at + MaxLag
    /\ now' = now + 1
    /\ UNCHANGED <<pc, wakeBy, threadVars, lampVars, vehicleVars, heard>>

\* The thread has been joined, or the model's clock has run out.
Finished == (pc = "done" \/ now = MaxTime) /\ UNCHANGED vars

Next ==
    \/ LoopTop \/ LoopExit
    \/ DiscoverNextBlock \/ DiscoverLastBlock \/ DiscoverCutShort \/ DiscoverFail
    \/ Wake
    \/ PollRequest \/ PollIdle \/ QueryAnswer \/ QueryFiller \/ QueryFail \/ IdleEnd
    \/ Publish
    \/ onTelltales \/ \E lit \in SUBSET Lamps : VehicleBroadcast(lit)
    \/ Stop
    \/ VehicleLeaves \/ VehicleReturns \/ Advance \/ Finished

Spec == Init /\ [][Next]_vars
-----------------------------------------------------------------------------
(***************************************************************************)
(* Properties.                                                             *)
(***************************************************************************)
Times == 0 .. (MaxTime + DiscoverTimeout + RetrySleep + Fast + IdleMax + PublishPeriod)

\* Every variable has its type; the poller holds only PIDs that are supported,
\* and each at most once.
TypeOK ==
    /\ now \in 0 .. MaxTime
    /\ pc \in {"top", "discover", "sleep", "poll", "query", "idle", "publish", "done"}
    /\ {running, discovered, present, heard} \subseteq BOOLEAN
    /\ {loopNow, wakeBy, nextPublish, publishedAt, linkAt, since} \subseteq Times
    /\ block \in 0 .. Len(Blocks)
    /\ found \subseteq Pids
    /\ current \in Pids \cup {NoPid}
    /\ supported \subseteq Pids
    /\ PidsOf(poller) \subseteq supported
    /\ \A i, j \in DOMAIN poller.items :
           poller.items[i].pid = poller.items[j].pid => i = j
    /\ poller.unanswered \in Nat
    /\ lampsSeen \in Times \cup {Never}
    /\ lamps \subseteq Lamps
    /\ lampsAt <= lampsSeen
    /\ Range(inbox) \subseteq [lit: SUBSET Lamps, at: Times] /\ Len(inbox) <= MaxQueue
    /\ values \in [Pids -> Times \cup {Never}]
    /\ link \in {"unknown", "up", "down"}
    /\ published \in [capable: SUBSET SignalsOf(Pids), valid: SUBSET SignalsOf(Pids),
                      lamps: SUBSET Lamps]
    /\ moves \in 0 .. MaxMoves

\* The thread hands a vehicle state to the host in this step.
HandsOver == nextPublish' # nextPublish \/ (pc = "discover" /\ pc' = "sleep")

\* A value handed to the host as valid was answered at most three of its own
\* intervals ago, through losses, rediscoveries and dropped PIDs (the freshness
\* test looks at the poller, the value comes from another map).
ValidRecent ==
    [][HandsOver => \A pid \in Pids :
           signalsOf(pid) \cap published'.valid # {}
              => values[pid] # Never /\ now - values[pid] <= 3 * interval(pid)]_vars

\* As long as the bus works, a lit lamp handed to the host was broadcast at most
\* a retry pause, LampWindow and a discovery timeout ago: a broadcast that comes
\* during the pause is read after it as if it were new, the vehicle may be lost
\* again within the window (five fast timeouts), and a failed discovery publishes
\* with the clock it read before the attempt.
LampsRecent ==
    [][HandsOver /\ published'.lamps # {}
          => now - lampsAt <= RetrySleep + LampWindow + DiscoverTimeout
                              + 3 * MaxLag]_vars

\* The cluster's layout holds while the vehicle is away: once its signals have
\* been advertised, those of the first block that are not fillers stay so through
\* losses, failed discoveries, and discoveries cut short.
LayoutHolds ==
    [][published.capable # {}
          => SignalsOf(Blocks[1] \ Fillers) \subseteq published'.capable]_vars

\* A vehicle that falls silent is reported gone after five requests, whenever a
\* fast-tier PID is polled: five fast intervals after the request, or the later
\* block of a discovery, that it left unanswered first.
LossBound == Max({Fast, DiscoverTimeout}) + 5 * Fast + 6 * MaxLag
LossReported ==
    /\ ~present
    /\ link = "up"
    /\ {"SPEED", "RPM"} \cap PidsOf(poller) # {}
    => now <= since + LossBound

\* In every state: the types, the poller's PIDs among the supported ones, and the
\* bound on a loss that is not reported.
Inv == TypeOK /\ LossReported

\* The plugin keeps what the publisher relies on: the refinement of PluginSession.
Promise == INSTANCE PluginSession WITH NoState <- NoVehicleState, over <- pc = "done"
IceSession == Promise!Session

\* While it reports a vehicle the thread hands over a state at least every fast
\* interval and publish period, whatever goes unanswered, and the first one no
\* later after set_link(1): until then the publisher shows the session before.
\* The plugin timeout must exceed this, or values flicker.
KeepsPublishing ==
    link = "up" /\ pc # "done" =>
        now <= Max({publishedAt, linkAt}) + PublishPeriod + Max({Fast, IdleMax}) + MaxLag

\* A vehicle that comes back, and answers, is reported present again without a
\* restart: at worst after the attempt and the pause that it just missed, or the
\* query that ends the streak, and one answered discovery.
RecoveryBound == Max({Fast, DiscoverTimeout + RetrySleep + MaxLag}) + MaxLag
                 + Len(Blocks) * (DiscoverTimeout + MaxLag)
RecoveryReported ==
    present /\ ~Lossy /\ running /\ link = "down" => now <= since + RecoveryBound
=============================================================================
