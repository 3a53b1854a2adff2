--------------------------- MODULE Obd2IceProofs ----------------------------
(***************************************************************************)
(* The obd2-ice poller keeps its promises for any intervals, timeouts and  *)
(* delays, any blocks of the vehicle, and any number of losses, returns    *)
(* and broadcasts.                                                         *)
(***************************************************************************)
EXTENDS Obd2Ice, PollerProofs

(***************************************************************************)
(* The inductive invariant, in parts.                                      *)
(***************************************************************************)

\* The item of a fast-tier PID.
FastPids == {"SPEED", "RPM"}
FastItem(i) == i \in 1 .. Len(poller.items) /\ poller.items[i].pid \in FastPids

\* The thread's own state.
ThreadInv ==
    /\ pc \in {"top", "discover", "sleep", "poll", "query", "idle", "publish", "done"}
    /\ running \in BOOLEAN /\ discovered \in BOOLEAN /\ present \in BOOLEAN
    /\ heard \in BOOLEAN
    /\ link \in {"unknown", "up", "down"}
    /\ discovered <=> link = "up"
    /\ pc \in {"poll", "query", "idle", "publish"} => discovered
    /\ pc \in {"discover", "sleep"} => ~discovered
    /\ pc = "done" => ~running
    /\ heard => present /\ pc \in {"discover", "query"}

\* The clock and what was read off it.
ClockInv ==
    /\ now \in Nat /\ now <= MaxTime
    /\ loopNow \in Nat /\ loopNow <= now
    /\ publishedAt \in Nat /\ publishedAt <= now
    /\ linkAt \in Nat /\ linkAt <= now
    /\ since \in Nat /\ since <= now
    /\ nextPublish \in Nat /\ nextPublish <= publishedAt + PublishPeriod
    /\ moves \in 0 .. MaxMoves

\* Blocking calls end by their timeouts and a lag.
CallInv ==
    /\ wakeBy \in Nat
    /\ pc \in {"top", "poll", "publish", "done"} => wakeBy = 0
    /\ pc \in {"discover", "sleep", "query", "idle"} => now <= wakeBy + MaxLag
    /\ pc = "discover" => wakeBy <= now + DiscoverTimeout
    /\ pc = "discover" /\ block = 1 => wakeBy = loopNow + DiscoverTimeout
    /\ pc = "sleep" => wakeBy <= now + RetrySleep
    /\ pc = "query" => wakeBy <= now + Fast
    /\ pc = "idle" => wakeBy <= now + IdleMax

\* What the vehicle is known to support, and what the host was told of it.
LayoutInv ==
    /\ block \in 0 .. Len(Blocks)
    /\ found \subseteq Pids
    /\ supported \subseteq Pids
    /\ pc = "discover" => block >= 1
    /\ pc = "discover" /\ block > 1 => Blocks[1] \subseteq found
    /\ published \in [capable: SUBSET SignalsOf(Pids), valid: SUBSET SignalsOf(Pids),
                      lamps: SUBSET Lamps]
    /\ \/ Blocks[1] \ Fillers \subseteq supported
       \/ supported = {} /\ published.capable = {}
    /\ published.capable # {} => SignalsOf(Blocks[1] \ Fillers) \subseteq published.capable

\* The poller: a PID's item has its tier's interval, and its last answer is the one
\* the value was taken from.
ItemsInv ==
    /\ PollerOk(poller, Pids)
    /\ PidsOf(poller) \subseteq supported
    /\ current \in Pids \cup {NoPid}
    /\ pc = "query" => current \in PidsOf(poller)
    /\ \A i \in 1 .. Len(poller.items) :
          /\ poller.items[i].interval = interval(poller.items[i].pid)
          /\ poller.items[i].due <= now + poller.items[i].interval
          /\ discovered => \/ poller.items[i].lastAnswer = Never
                           \/ poller.items[i].lastAnswer = values[poller.items[i].pid]
    /\ values \in [Pids -> Nat \cup {Never}]
    /\ \A pid \in Pids : values[pid] <= now

\* The lamps and the broadcasts that wait, in the order they came.
Broadcasts == [lit: SUBSET Lamps, at: Nat]

LampsInv ==
    /\ lamps \subseteq Lamps
    /\ lampsSeen \in Nat \cup {Never} /\ lampsSeen <= now
    /\ lampsAt \in Nat \cup {Never} /\ lampsAt <= lampsSeen
    /\ inbox \in Seq(Broadcasts) /\ Len(inbox) <= MaxQueue
    /\ \A i \in 1 .. Len(inbox) : inbox[i].at <= now
    /\ \A i, j \in 1 .. Len(inbox) : i <= j => inbox[i].at <= inbox[j].at

\* The last sign of life the host has had, and the longest call between two of them.
LastSign == Max({publishedAt, linkAt})
LongestCall == Max({Fast, IdleMax})

PublishInv ==
    /\ discovered /\ pc \in {"top", "poll"} => now <= LastSign + PublishPeriod
    /\ pc \in {"query", "idle"} => wakeBy <= LastSign + PublishPeriod + LongestCall
    /\ pc = "publish" => now <= LastSign + PublishPeriod + LongestCall + MaxLag

\* How late the discovery that meets the returned vehicle begins, and how long its
\* first b blocks take.
Meets == Max({Fast, DiscoverTimeout + RetrySleep + MaxLag}) + MaxLag
Takes(b) == b * (DiscoverTimeout + MaxLag)

RecoveryInv ==
    present /\ ~Lossy =>
        /\ pc = "top" /\ ~discovered => now <= since + Meets
        /\ pc = "query" /\ ~heard => wakeBy <= since + Fast
        /\ pc = "discover" /\ ~heard => wakeBy <= since + DiscoverTimeout
        /\ pc = "discover" /\ heard
              => wakeBy <= since + Meets + Takes(block - 1) + DiscoverTimeout
        /\ pc = "sleep" => wakeBy <= since + DiscoverTimeout + RetrySleep + MaxLag

\* How old a waiting broadcast gets.
StaleInv ==
    /\ \A i \in 1 .. Len(inbox) :
          /\ pc # "sleep" => now <= inbox[i].at + RetrySleep + 2 * MaxLag
          /\ pc = "sleep" => wakeBy <= inbox[i].at + RetrySleep + MaxLag
    /\ lampsSeen >= 0 => /\ lampsAt >= 0
                         /\ lampsSeen <= lampsAt + RetrySleep + 2 * MaxLag

\* How long after a silent vehicle has left a streak of u requests has been sent, and
\* has been waited for.
Base == Max({Fast, DiscoverTimeout})
Round(k) == CASE k = 0 -> 0
              [] k = 1 -> Fast + MaxLag
              [] k = 2 -> 2 * (Fast + MaxLag)
              [] k = 3 -> 3 * (Fast + MaxLag)
              [] k = 4 -> 4 * (Fast + MaxLag)
              [] OTHER -> 5 * (Fast + MaxLag)
Waited(u) == Base + Round(IF u < 4 THEN u ELSE 4)
Asked(u) == Base + Round(u)

\* What is due when the thread looks for it, and an idle call that ends before the next
\* request of a fast PID is due.
DueInv ==
    /\ pc = "poll" => \/ loopNow = now
                      \/ \A i \in 1 .. Len(poller.items) : poller.items[i].due = 0
    /\ pc = "idle" => \A i \in 1 .. Len(poller.items) :
                         FastItem(i) => wakeBy <= poller.items[i].due

\* The block of a discovery that a vehicle which then left does not answer.
SilentBlock ==
    ~present /\ pc = "discover" /\ block > 1 => wakeBy <= since + DiscoverTimeout

\* How late the streak of unanswered requests may be, and the next one of a fast PID.
SilentStreak ==
    ~present /\ discovered =>
        \A i \in 1 .. Len(poller.items) : FastItem(i) =>
            /\ pc = "query" => /\ wakeBy <= since + Asked(poller.unanswered)
                               /\ poller.items[i].due <= since + Asked(poller.unanswered)
            /\ pc # "query" => /\ now <= since + Waited(poller.unanswered) + MaxLag
                               /\ poller.items[i].due <= since + Waited(poller.unanswered)

StateInv == ThreadInv /\ ClockInv /\ CallInv /\ LayoutInv /\ ItemsInv /\ LampsInv
-----------------------------------------------------------------------------
(***************************************************************************)
(* The constants.                                                          *)
(***************************************************************************)
USE DEF linkVars, handedVars, threadVars, lampVars, vehicleVars, vars

\* The durations are natural numbers, those of calls and pauses not zero.
LEMMA Durations ==
    /\ Fast \in Nat /\ Fast > 0 /\ DiscoverTimeout \in Nat /\ DiscoverTimeout > 0
    /\ RetrySleep \in Nat /\ RetrySleep > 0 /\ IdleMax \in Nat /\ IdleMax > 0
    /\ PublishPeriod \in Nat /\ PublishPeriod > 0
    /\ LampWindow \in Nat /\ MaxLag \in Nat /\ MaxTime \in Nat
    /\ MaxQueue \in Nat /\ MaxMoves \in Nat
BY PollTimingAssumption

\* A PID's interval is positive, and a fast one's the fast interval.
LEMMA Intervals ==
    \A pid \in Pids : /\ interval(pid) \in Nat \ {0}
                      /\ pid \in FastPids => interval(pid) = Fast
BY Durations DEF interval, Pids, FastPids

LEMMA BlockFacts ==
    /\ Len(Blocks) \in Nat /\ Len(Blocks) >= 1
    /\ \A b \in 1 .. Len(Blocks) : Blocks[b] \subseteq Pids
<1>1. Blocks \in Seq(SUBSET Pids) /\ Blocks # <<>>
  BY VehicleAssumption
<1> QED
  BY <1>1
-----------------------------------------------------------------------------
(***************************************************************************)
(* The state of the thread.                                                *)
(***************************************************************************)

\* idle() is called for at least one unit and at most IdleMax, and not past a
\* deadline to come.
LEMMA IdleFacts ==
    ASSUME ItemsInv, ClockInv, PollIdle
    PROVE  /\ wakeBy' \in Nat /\ now <= wakeBy' /\ wakeBy' <= now + IdleMax
           /\ \A i \in 1 .. Len(poller.items) :
                 poller.items[i].due > loopNow
                    => wakeBy' - now <= poller.items[i].due - loopNow
<1> DEFINE nd == nextDeadline(poller, loopNow)
           wait == Min({IdleMax, nd - loopNow})
<1>1. /\ nd \in Nat /\ nd >= loopNow
      /\ \A i \in 1 .. Len(poller.items) :
            poller.items[i].due > loopNow => nd <= poller.items[i].due
  BY NextDeadlineFacts DEF ItemsInv, ClockInv
<1>2. \A i \in 1 .. Len(poller.items) : poller.items[i].due \in Nat
  BY ItemFacts DEF ItemsInv
<1> HIDE DEF nd
<1>3. loopNow \in Nat /\ now \in Nat
  BY DEF ClockInv
<1>4. IdleMax \in Int /\ nd - loopNow \in Int
  BY <1>1, <1>3, Durations
<1>5. wait = IF IdleMax <= nd - loopNow THEN IdleMax ELSE nd - loopNow
  BY <1>4, MinMaxOfTwo
<1>6. wait \in Int
  BY <1>4, <1>5
<1>7. wakeBy' = now + Max({1, wait})
  BY DEF PollIdle, nd
<1> HIDE DEF wait
<1>8. Max({1, wait}) = IF 1 >= wait THEN 1 ELSE wait
  BY <1>6, MinMaxOfTwo
<1>9. wakeBy' \in Nat /\ now <= wakeBy' /\ wakeBy' <= now + IdleMax
  BY <1>3, <1>5, <1>6, <1>7, <1>8, Durations
<1>10. ASSUME NEW i \in 1 .. Len(poller.items), poller.items[i].due > loopNow
       PROVE  wakeBy' - now <= poller.items[i].due - loopNow
  <2>1. poller.items[i].due \in Nat /\ nd <= poller.items[i].due
    BY <1>1, <1>2, <1>10
  <2>2. wait <= poller.items[i].due - loopNow
    BY <1>1, <1>3, <1>4, <1>5, <2>1, Durations
  <2>3. 1 <= poller.items[i].due - loopNow
    BY <1>3, <1>10, <2>1
  <2>4. wakeBy' - now = IF 1 >= wait THEN 1 ELSE wait
    BY <1>3, <1>6, <1>7, <1>8
  <2> QED
    BY <2>2, <2>3, <2>4
<1> QED
  BY <1>9, <1>10

\* A request is heard only by a vehicle that is there, and then always unless requests
\* are lost.
LEMMA RequestFacts ==
    ASSUME NEW d, request(d)
    PROVE  /\ wakeBy' = now + d
           /\ heard' \in BOOLEAN /\ (heard' => present) /\ (present /\ ~Lossy => heard')
BY DEF request

LEMMA ThreadStep == ThreadInv /\ [Next]_vars => ThreadInv'
<1> SUFFICES ASSUME ThreadInv, [Next]_vars
             PROVE  ThreadInv'
  OBVIOUS
<1> USE DEF ThreadInv
<1>1. CASE LoopTop \/ LoopExit \/ Wake
  <2>1. CASE LoopTop
    BY <2>1, RequestFacts DEF LoopTop
  <2>2. CASE LoopExit
    BY <2>2 DEF LoopExit
  <2>3. CASE Wake
    BY <2>3 DEF Wake, return
  <2> QED
    BY <1>1, <2>1, <2>2, <2>3
<1>2. CASE DiscoverNextBlock \/ DiscoverFail
  BY <1>2, RequestFacts DEF DiscoverNextBlock, DiscoverFail
<1>3. CASE DiscoverLastBlock \/ DiscoverCutShort
  BY <1>3 DEF DiscoverLastBlock, DiscoverCutShort, Discovered, return
<1>4. CASE PollRequest \/ PollIdle
  BY <1>4, RequestFacts DEF PollRequest, PollIdle
<1>5. CASE QueryAnswer \/ QueryFiller \/ QueryFail
  BY <1>5 DEF QueryAnswer, QueryFiller, QueryFail, return
<1>6. CASE IdleEnd \/ Publish \/ onTelltales
  <2>1. CASE IdleEnd
    BY <2>1 DEF IdleEnd, return
  <2>2. CASE Publish
    BY <2>2 DEF Publish
  <2>3. CASE onTelltales /\ pc = "idle"
    BY <2>3 DEF onTelltales, return
  <2>4. CASE onTelltales /\ pc # "idle"
    BY <2>4 DEF onTelltales
  <2> QED
    BY <1>6, <2>1, <2>2, <2>3, <2>4
<1>7. CASE Stop \/ VehicleLeaves \/ VehicleReturns
  <2>1. CASE Stop
    BY <2>1 DEF Stop
  <2>2. CASE VehicleLeaves
    BY <2>2 DEF VehicleLeaves
  <2>3. CASE VehicleReturns
    BY <2>3 DEF VehicleReturns
  <2> QED
    BY <1>7, <2>1, <2>2, <2>3
<1>8. CASE Advance
  BY <1>8 DEF Advance
<1>9. ASSUME NEW lit \in SUBSET Lamps, VehicleBroadcast(lit)
      PROVE  ThreadInv'
  BY <1>9 DEF VehicleBroadcast
<1>10. CASE Finished \/ UNCHANGED vars
  BY <1>10 DEF Finished
<1> QED
  BY <1>1, <1>2, <1>3, <1>4, <1>5, <1>6, <1>7, <1>8, <1>9, <1>10 DEF Next

LEMMA ClockStep == ClockInv /\ [Next]_vars => ClockInv'
<1> SUFFICES ASSUME ClockInv, [Next]_vars
             PROVE  ClockInv'
  OBVIOUS
<1> USE Durations DEF ClockInv
<1>1. CASE LoopTop \/ LoopExit \/ Wake
  BY <1>1 DEF LoopTop, LoopExit, Wake
<1>2. CASE DiscoverNextBlock \/ DiscoverFail
  <2>1. CASE DiscoverNextBlock
    BY <2>1 DEF DiscoverNextBlock
  <2>2. CASE DiscoverFail
    BY <2>2 DEF DiscoverFail
  <2> QED
    BY <1>2, <2>1, <2>2
<1>3. CASE DiscoverLastBlock \/ DiscoverCutShort
  <2>1. linkAt' = now
        /\ UNCHANGED <<now, loopNow, publishedAt, since, nextPublish, moves>>
    BY <1>3 DEF DiscoverLastBlock, DiscoverCutShort, Discovered
  <2> QED
    BY <2>1
<1>4. CASE PollRequest \/ PollIdle
  BY <1>4 DEF PollRequest, PollIdle
<1>5. CASE QueryAnswer \/ QueryFiller \/ QueryFail
  BY <1>5 DEF QueryAnswer, QueryFiller, QueryFail
<1>6. CASE IdleEnd \/ Publish \/ onTelltales
  BY <1>6 DEF IdleEnd, Publish, onTelltales
<1>7. CASE Stop \/ VehicleLeaves \/ VehicleReturns
  BY <1>7 DEF Stop, VehicleLeaves, VehicleReturns
<1>8. CASE Advance
  BY <1>8 DEF Advance
<1>9. ASSUME NEW lit \in SUBSET Lamps, VehicleBroadcast(lit)
      PROVE  ClockInv'
  BY <1>9 DEF VehicleBroadcast
<1>10. CASE Finished \/ UNCHANGED vars
  BY <1>10 DEF Finished
<1> QED
  BY <1>1, <1>2, <1>3, <1>4, <1>5, <1>6, <1>7, <1>8, <1>9, <1>10 DEF Next

LEMMA CallStep == StateInv /\ [Next]_vars => CallInv'
<1> SUFFICES ASSUME ClockInv, CallInv, ThreadInv, ItemsInv, LayoutInv, [Next]_vars
             PROVE  CallInv'
  BY DEF StateInv
<1> USE Durations DEF ClockInv, CallInv
<1>1. CASE LoopTop \/ LoopExit \/ Wake
  BY <1>1, RequestFacts DEF LoopTop, LoopExit, Wake, return
<1>2. CASE DiscoverNextBlock \/ DiscoverFail
  <2>1. CASE DiscoverNextBlock
    <3>1. block \in Nat /\ block >= 1 /\ block + 1 # 1
      BY <2>1, BlockFacts DEF LayoutInv, DiscoverNextBlock
    <3> QED
      BY <2>1, <3>1, RequestFacts DEF DiscoverNextBlock
  <2>2. CASE DiscoverFail
    BY <2>2 DEF DiscoverFail, retryAt
  <2> QED
    BY <1>2, <2>1, <2>2
<1>3. CASE DiscoverLastBlock \/ DiscoverCutShort
  BY <1>3 DEF DiscoverLastBlock, DiscoverCutShort, Discovered, return
<1>4. CASE PollRequest
  BY <1>4 DEF PollRequest, request
<1>5. CASE PollIdle
  <2>1. wakeBy' \in Nat /\ wakeBy' <= now + IdleMax /\ now <= wakeBy'
    BY <1>5, IdleFacts
  <2> QED
    BY <1>5, <2>1 DEF PollIdle
<1>6. CASE QueryAnswer \/ QueryFiller \/ QueryFail
  BY <1>6 DEF QueryAnswer, QueryFiller, QueryFail, return
<1>7. CASE IdleEnd \/ Publish \/ onTelltales
  <2>1. CASE IdleEnd
    BY <2>1 DEF IdleEnd, return
  <2>2. CASE Publish
    BY <2>2 DEF Publish
  <2>3. CASE onTelltales /\ pc = "idle"
    BY <2>3 DEF onTelltales, return
  <2>4. CASE onTelltales /\ pc # "idle"
    <3>1. UNCHANGED <<now, pc, wakeBy, block, loopNow>>
      BY <2>4 DEF onTelltales
    <3> QED
      BY <3>1
  <2> QED
    BY <1>7, <2>1, <2>2, <2>3, <2>4
<1>8. CASE Stop \/ VehicleLeaves \/ VehicleReturns
  BY <1>8 DEF Stop, VehicleLeaves, VehicleReturns
<1>9. CASE Advance
  BY <1>9 DEF Advance
<1>10. ASSUME NEW lit \in SUBSET Lamps, VehicleBroadcast(lit)
      PROVE  CallInv'
  BY <1>10 DEF VehicleBroadcast
<1>11. CASE Finished \/ UNCHANGED vars
  BY <1>11 DEF Finished
<1> QED
  BY <1>1, <1>2, <1>3, <1>4, <1>5, <1>6, <1>7, <1>8, <1>9, <1>10, <1>11 DEF Next
-----------------------------------------------------------------------------
(***************************************************************************)
(* What is handed to the host.                                             *)
(***************************************************************************)
LEMMA SignalsMonotone ==
    ASSUME NEW S, NEW T, S \subseteq T
    PROVE  SignalsOf(S) \subseteq SignalsOf(T)
BY DEF SignalsOf

LEMMA NoSignals == SignalsOf({}) = {}
BY DEF SignalsOf

\* A state that is handed over advertises what is supported, and its values are of
\* advertised signals.
LEMMA HandedState ==
    ASSUME NEW vals, NEW t, supported \subseteq Pids, lamps \subseteq Lamps
    PROVE  /\ vehicleState(vals, t).capable = SignalsOf(supported)
           /\ vehicleState(vals, t).valid \subseteq SignalsOf(supported)
           /\ vehicleState(vals, t).lamps \subseteq Lamps
           /\ vehicleState(vals, t) \in [capable: SUBSET SignalsOf(Pids),
                                        valid: SUBSET SignalsOf(Pids),
                                        lamps: SUBSET Lamps]
           /\ vals = NoValues => vehicleState(vals, t).valid = {}
<1> DEFINE good == {pid \in supported : vals[pid] # Never /\ fresh(poller, pid, t)}
           lit == IF lampsSeen >= 0 /\ t - lampsSeen <= LampWindow THEN lamps ELSE {}
<1>1. vehicleState(vals, t) = [capable |-> SignalsOf(supported),
                               valid |-> SignalsOf(good), lamps |-> lit]
  BY DEF vehicleState
<1>2. good \subseteq supported /\ lit \subseteq Lamps
  OBVIOUS
<1>3. vals = NoValues => good = {}
  BY DEF NoValues
<1> HIDE DEF good, lit
<1>4. /\ SignalsOf(good) \subseteq SignalsOf(supported)
      /\ SignalsOf(supported) \subseteq SignalsOf(Pids)
  BY <1>2, SignalsMonotone
<1> QED
  BY <1>1, <1>2, <1>3, <1>4, NoSignals

\* What a successful discovery finds includes the first block.
LEMMA DiscoveredFacts ==
    ASSUME LayoutInv, DiscoverLastBlock \/ DiscoverCutShort
    PROVE  \E pids \in SUBSET Pids : Discovered(pids) /\ Blocks[1] \subseteq pids
<1>1. Len(Blocks) \in Nat /\ Len(Blocks) >= 1 /\ 1 \in 1 .. Len(Blocks)
      /\ \A b \in 1 .. Len(Blocks) : Blocks[b] \subseteq Pids
  BY BlockFacts
<1>2. CASE DiscoverCutShort
  BY <1>2 DEF DiscoverCutShort, LayoutInv
<1>3. CASE DiscoverLastBlock
  <2>1. block \in 1 .. Len(Blocks) /\ Discovered(found \cup Blocks[block])
        /\ found \subseteq Pids /\ (block > 1 => Blocks[1] \subseteq found)
    BY <1>1, <1>3 DEF DiscoverLastBlock, LayoutInv
  <2>2. block = 1 \/ block > 1
    BY <1>1, <2>1
  <2>3. Blocks[1] \subseteq found \cup Blocks[block]
    BY <2>1, <2>2
  <2> QED
    BY <1>1, <2>1, <2>3
<1> QED
  BY <1>2, <1>3

LEMMA LayoutStep ==
    ASSUME LayoutInv, LampsInv, [Next]_vars
    PROVE  LayoutInv'
<1>1. lamps \subseteq Lamps
  BY DEF LampsInv
<1>2. ASSUME UNCHANGED <<supported, published>>, block' \in 0 .. Len(Blocks),
             found' \subseteq Pids, pc' = "discover" => block' >= 1,
             pc' = "discover" /\ block' > 1 => Blocks[1] \subseteq found'
      PROVE  LayoutInv'
  BY <1>2 DEF LayoutInv
<1>3. ASSUME pc' # "discover", block' \in 0 .. Len(Blocks), UNCHANGED <<supported, found>>,
             NEW vals, NEW t, published' = vehicleState(vals, t)
      PROVE  LayoutInv'
  <2> DEFINE keep == Blocks[1] \ Fillers
  <2>1. /\ published'.capable = SignalsOf(supported)
        /\ published' \in [capable: SUBSET SignalsOf(Pids), valid: SUBSET SignalsOf(Pids),
                           lamps: SUBSET Lamps]
    BY <1>1, <1>3, HandedState DEF LayoutInv
  <2>2. CASE keep \subseteq supported
    <3>1. SignalsOf(keep) \subseteq SignalsOf(supported)
      BY <2>2, SignalsMonotone
    <3> QED
      BY <1>3, <2>1, <2>2, <3>1 DEF LayoutInv
  <2>3. CASE supported = {}
    <3>1. published'.capable = {}
      BY <2>1, <2>3, NoSignals
    <3> QED
      BY <1>3, <2>1, <2>3, <3>1 DEF LayoutInv
  <2> QED
    BY <2>2, <2>3 DEF LayoutInv
<1>4. 0 \in 0 .. Len(Blocks) /\ 1 \in 0 .. Len(Blocks)
  BY BlockFacts
<1>5. CASE LoopTop \/ LoopExit \/ Wake
  <2>1. CASE LoopTop /\ pc' = "discover"
    <3>1. block' = 1 /\ UNCHANGED <<supported, published, found>>
      BY <2>1 DEF LoopTop
    <3>2. found \subseteq Pids
      BY DEF LayoutInv
    <3> QED
      BY <1>2, <1>4, <3>1, <3>2
  <2>2. CASE LoopTop /\ pc' = "poll"
    BY <1>2, <2>2 DEF LoopTop, LayoutInv
  <2>3. CASE LoopExit
    BY <1>2, <2>3 DEF LoopExit, LayoutInv
  <2>4. CASE Wake
    BY <1>2, <2>4 DEF Wake, return, LayoutInv
  <2> QED
    BY <1>5, <2>1, <2>2, <2>3, <2>4 DEF LoopTop
<1>6. CASE DiscoverNextBlock
  <2>1. /\ block \in 1 .. Len(Blocks) /\ block + 1 \in 0 .. Len(Blocks) /\ block + 1 >= 1
        /\ block = 1 \/ block > 1
    BY <1>6, BlockFacts DEF DiscoverNextBlock, LayoutInv
  <2>2. found' \subseteq Pids /\ Blocks[1] \subseteq found'
    BY <1>6, <2>1, BlockFacts DEF DiscoverNextBlock, LayoutInv
  <2> QED
    BY <1>2, <1>6, <2>1, <2>2 DEF DiscoverNextBlock
<1>7. CASE DiscoverFail
  BY <1>3, <1>4, <1>7 DEF DiscoverFail, lostState
<1>8. CASE DiscoverLastBlock \/ DiscoverCutShort
  <2>1. PICK pids \in SUBSET Pids : Discovered(pids) /\ Blocks[1] \subseteq pids
    BY <1>8, DiscoveredFacts
  <2> QED
    BY <1>4, <2>1 DEF Discovered, return, LayoutInv
<1>9. CASE PollRequest \/ PollIdle
  BY <1>2, <1>9 DEF PollRequest, PollIdle, LayoutInv
<1>10. CASE QueryAnswer \/ QueryFail
  BY <1>2, <1>10 DEF QueryAnswer, QueryFail, return, LayoutInv
<1>11. CASE QueryFiller
  BY <1>11 DEF QueryFiller, return, LayoutInv
<1>12. CASE IdleEnd \/ onTelltales
  BY <1>2, <1>12 DEF IdleEnd, onTelltales, return, LayoutInv
<1>13. CASE Publish
  <2>1. CASE now >= nextPublish /\ published' = vehicleState(values, now)
    BY <1>3, <1>13, <2>1 DEF Publish, LayoutInv
  <2>2. CASE UNCHANGED handedVars
    BY <1>2, <1>13, <2>2 DEF Publish, LayoutInv
  <2> QED
    BY <1>13, <2>1, <2>2 DEF Publish
<1>14. CASE Stop \/ VehicleLeaves \/ VehicleReturns
  BY <1>2, <1>14 DEF Stop, VehicleLeaves, VehicleReturns, LayoutInv
<1>15. CASE Advance \/ Finished \/ UNCHANGED vars
  BY <1>2, <1>15 DEF Advance, Finished, LayoutInv
<1>16. ASSUME NEW lit \in SUBSET Lamps, VehicleBroadcast(lit)
       PROVE  LayoutInv'
  BY <1>2, <1>16 DEF VehicleBroadcast, LayoutInv
<1> QED
  BY <1>5, <1>6, <1>7, <1>8, <1>9, <1>10, <1>11, <1>12, <1>13, <1>14, <1>15, <1>16
     DEF Next
-----------------------------------------------------------------------------
(***************************************************************************)
(* The poller and the values.                                              *)
(***************************************************************************)

\* A poller of PIDs that are supported, before the first request.
Started(p, pids) ==
    /\ PollerOk(p, Pids) /\ PidsOf(p) \subseteq pids /\ p.unanswered = 0
    /\ \A i \in 1 .. Len(p.items) :
          /\ p.items[i].interval = interval(p.items[i].pid)
          /\ p.items[i].due = 0 /\ p.items[i].lastAnswer = Never

LEMMA ClearStarts == ASSUME NEW pids PROVE Started(clear, pids)
<1>1. /\ clear.items = <<>> /\ clear.unanswered = 0 /\ Len(clear.items) = 0
      /\ clear.items \in Seq(Items(Pids))
      /\ clear \in [items: Seq(Items(Pids)), unanswered: Nat]
  BY DEF clear
<1>2. PidsOf(clear) = {}
  BY DEF PidsOf, clear
<1> QED
  BY <1>1, <1>2 DEF Started, PollerOk

LEMMA WantStarts ==
    ASSUME NEW pids \in SUBSET Pids, NEW p, Started(p, pids), NEW pid \in Pids
    PROVE  Started(want(p, pid, pids), pids)
<1>1. CASE pid \notin pids \/ pid \in PidsOf(p)
  BY <1>1 DEF want, add
<1>2. CASE pid \in pids /\ pid \notin PidsOf(p)
  <2> DEFINE q == add(p, pid, interval(pid))
             new == [pid |-> pid, interval |-> interval(pid), due |-> 0, lastAnswer |-> -1]
  <2>1. interval(pid) \in Nat \ {0}
    BY Intervals
  <2>2. /\ PollerOk(q, Pids) /\ PidsOf(q) = PidsOf(p) \cup {pid}
        /\ q.unanswered = p.unanswered /\ Len(q.items) = Len(p.items) + 1
        /\ \A i \in 1 .. Len(p.items) : q.items[i] = p.items[i]
        /\ q.items[Len(p.items) + 1] = new
    BY <1>2, <2>1, AddFacts DEF Started
  <2>3. Len(p.items) \in Nat
    BY ItemFacts DEF Started
  <2>4. want(p, pid, pids) = q
    BY <1>2 DEF want
  <2> HIDE DEF q
  <2>5. ASSUME NEW i \in 1 .. Len(q.items)
        PROVE  /\ q.items[i].interval = interval(q.items[i].pid)
               /\ q.items[i].due = 0 /\ q.items[i].lastAnswer = Never
    <3>1. i \in 1 .. Len(p.items) \/ i = Len(p.items) + 1
      BY <2>2, <2>3
    <3>2. CASE i \in 1 .. Len(p.items)
      BY <2>2, <3>2 DEF Started
    <3>3. CASE i = Len(p.items) + 1
      BY <2>2, <3>3 DEF Never
    <3> QED
      BY <3>1, <3>2, <3>3
  <2> QED
    BY <1>2, <2>2, <2>4, <2>5 DEF Started
<1> QED
  BY <1>1, <1>2

LEMMA PollerStarts ==
    ASSUME NEW pids \in SUBSET Pids
    PROVE  Started(pollerFor(pids), pids)
<1> DEFINE speed   == want(clear, "SPEED", pids)
           rpm     == want(speed, "RPM", pids)
           coolant == want(rpm, "COOLANT_TEMP", pids)
           fuel    == want(coolant, "FUEL_LEVEL", pids)
           voltage == want(fuel, "MODULE_VOLTAGE", pids)
           ambient == want(voltage, "AMBIENT_TEMP", pids)
           all     == want(ambient, "ODOMETER", pids)
<1>0. pollerFor(pids) = all
  BY DEF pollerFor
<1> HIDE DEF speed, rpm, coolant, fuel, voltage, ambient, all
<1>1. Started(speed, pids)
  BY ClearStarts, WantStarts DEF speed, Pids
<1>2. Started(rpm, pids)
  BY <1>1, WantStarts DEF rpm, Pids
<1>3. Started(coolant, pids)
  BY <1>2, WantStarts DEF coolant, Pids
<1>4. Started(fuel, pids)
  BY <1>3, WantStarts DEF fuel, Pids
<1>5. Started(voltage, pids)
  BY <1>4, WantStarts DEF voltage, Pids
<1>6. Started(ambient, pids)
  BY <1>5, WantStarts DEF ambient, Pids
<1>7. Started(all, pids)
  BY <1>6, WantStarts DEF all, Pids
<1> QED
  BY <1>0, <1>7

\* A step that leaves the poller and the values alone.
LEMMA ItemsKept ==
    ASSUME ItemsInv, ClockInv, UNCHANGED <<poller, supported, values>>,
           now' \in Nat, now <= now', discovered' => discovered,
           current' \in Pids \cup {NoPid}, pc' = "query" => current' \in PidsOf(poller)
    PROVE  ItemsInv'
<1>1. \A i \in 1 .. Len(poller.items) :
         poller.items[i].interval \in Nat /\ poller.items[i].due \in Nat
  BY ItemFacts DEF ItemsInv
<1>2. now \in Nat
  BY DEF ClockInv
<1>3. PollerOk(poller', Pids) /\ PidsOf(poller') \subseteq supported'
      /\ (pc' = "query" => current' \in PidsOf(poller'))
  BY DEF ItemsInv
<1>4. \A i \in 1 .. Len(poller'.items) :
          /\ poller'.items[i].interval = interval(poller'.items[i].pid)
          /\ poller'.items[i].due <= now' + poller'.items[i].interval
          /\ discovered' => \/ poller'.items[i].lastAnswer = Never
                            \/ poller'.items[i].lastAnswer = values'[poller'.items[i].pid]
  BY <1>1, <1>2 DEF ItemsInv
<1>5. /\ values' \in [Pids -> Nat \cup {Never}]
      /\ \A pid \in Pids : values'[pid] <= now'
  BY <1>2 DEF ItemsInv, Never
<1> QED
  BY <1>3, <1>4, <1>5 DEF ItemsInv

LEMMA ItemsRequested == ItemsInv /\ ClockInv /\ PollRequest => ItemsInv'
<1> SUFFICES ASSUME ItemsInv, ClockInv, PollRequest
             PROVE  ItemsInv'
  OBVIOUS
<1> DEFINE pid == nextDue(poller, loopNow)
<1>1. /\ PollerOk(poller, Pids) /\ loopNow \in Nat /\ now \in Nat /\ loopNow <= now
      /\ DueItems(poller, loopNow) # {}
  BY DEF ItemsInv, ClockInv, PollRequest
<1>2. PICK k \in 1 .. Len(poller.items) : pid = poller.items[k].pid
  BY <1>1, NextDueFacts
<1>3. pid \in PidsOf(poller) /\ pid \in Pids
  BY <1>1, <1>2, ItemFacts
<1>4. poller' = markRequested(poller, pid, loopNow) /\ current' = pid
      /\ UNCHANGED <<now, supported, values, discovered>>
  BY DEF PollRequest
<1> HIDE DEF pid
<1>5. /\ PollerOk(poller', Pids) /\ PidsOf(poller') = PidsOf(poller)
      /\ Len(poller'.items) = Len(poller.items)
      /\ \A i \in 1 .. Len(poller.items) :
            /\ poller'.items[i].pid = poller.items[i].pid
            /\ poller'.items[i].interval = poller.items[i].interval
            /\ poller'.items[i].lastAnswer = poller.items[i].lastAnswer
            /\ poller'.items[i].due = IF poller.items[i].pid = pid
                                      THEN loopNow + poller.items[i].interval
                                      ELSE poller.items[i].due
  BY <1>1, <1>3, <1>4, MarkRequestedFacts
<1>6. ASSUME NEW i \in 1 .. Len(poller.items)
      PROVE  /\ poller'.items[i].interval = interval(poller'.items[i].pid)
             /\ poller'.items[i].due <= now' + poller'.items[i].interval
             /\ discovered' =>
                   \/ poller'.items[i].lastAnswer = Never
                   \/ poller'.items[i].lastAnswer = values'[poller'.items[i].pid]
  <2>1. poller.items[i].interval \in Nat /\ poller.items[i].due \in Nat
    BY <1>1, ItemFacts
  <2>2. poller.items[i].due <= now + poller.items[i].interval
    BY DEF ItemsInv
  <2>3. poller'.items[i].due <= now' + poller'.items[i].interval
    <3>1. loopNow \in Nat /\ now \in Nat /\ loopNow <= now /\ now' = now
      BY <1>1, <1>4
    <3>2. CASE poller.items[i].pid = pid
      <4>1. /\ poller'.items[i].due = loopNow + poller.items[i].interval
            /\ poller'.items[i].interval = poller.items[i].interval
        BY <1>5, <3>2
      <4> QED
        BY <2>1, <3>1, <4>1
    <3>3. CASE poller.items[i].pid # pid
      <4>1. /\ poller'.items[i].due = poller.items[i].due
            /\ poller'.items[i].interval = poller.items[i].interval
        BY <1>5, <3>3
      <4> QED
        BY <2>2, <3>1, <4>1
    <3> QED
      BY <3>2, <3>3
  <2> QED
    BY <1>4, <1>5, <2>3 DEF ItemsInv
<1> QED
  BY <1>3, <1>4, <1>5, <1>6 DEF ItemsInv

LEMMA ItemsAnswered == ItemsInv /\ ClockInv /\ QueryAnswer => ItemsInv'
<1> SUFFICES ASSUME ItemsInv, ClockInv, QueryAnswer
             PROVE  ItemsInv'
  OBVIOUS
<1>1. PollerOk(poller, Pids) /\ current \in PidsOf(poller) /\ current \in Pids /\ now \in Nat
  BY ItemFacts DEF ItemsInv, ClockInv, QueryAnswer
<1>2. /\ values' = [values EXCEPT ![current] = now]
      /\ poller' = markAnswered(poller, current, now)
      /\ current' = NoPid /\ pc' = "publish" /\ UNCHANGED <<now, supported, discovered>>
  BY DEF QueryAnswer, return
<1>3. /\ PollerOk(poller', Pids) /\ PidsOf(poller') = PidsOf(poller)
      /\ Len(poller'.items) = Len(poller.items)
      /\ \A i \in 1 .. Len(poller.items) :
            /\ poller'.items[i].pid = poller.items[i].pid
            /\ poller'.items[i].interval = poller.items[i].interval
            /\ poller'.items[i].due = poller.items[i].due
            /\ poller'.items[i].lastAnswer = IF poller.items[i].pid = current THEN now
                                             ELSE poller.items[i].lastAnswer
  BY <1>1, <1>2, MarkAnsweredFacts
<1>4. /\ values' \in [Pids -> Nat \cup {Never}]
      /\ \A pid \in Pids : values'[pid] = IF pid = current THEN now ELSE values[pid]
  BY <1>1, <1>2 DEF ItemsInv
<1>5. \A i \in 1 .. Len(poller.items) : poller.items[i].pid \in Pids
  BY <1>1, ItemFacts
<1>6. ASSUME NEW i \in 1 .. Len(poller.items)
      PROVE  /\ poller'.items[i].interval = interval(poller'.items[i].pid)
             /\ poller'.items[i].due <= now' + poller'.items[i].interval
             /\ discovered' =>
                   \/ poller'.items[i].lastAnswer = Never
                   \/ poller'.items[i].lastAnswer = values'[poller'.items[i].pid]
  BY <1>2, <1>3, <1>4, <1>5 DEF ItemsInv
<1>7. \A pid \in Pids : values'[pid] <= now'
  BY <1>1, <1>2, <1>4 DEF ItemsInv
<1> QED
  BY <1>2, <1>3, <1>4, <1>6, <1>7 DEF ItemsInv

LEMMA ItemsDropped == ItemsInv /\ ClockInv /\ QueryFiller => ItemsInv'
<1> SUFFICES ASSUME ItemsInv, ClockInv, QueryFiller
             PROVE  ItemsInv'
  OBVIOUS
<1>1. PollerOk(poller, Pids) /\ current \in PidsOf(poller) /\ current \in Pids /\ now \in Nat
  BY ItemFacts DEF ItemsInv, ClockInv, QueryFiller
<1>2. /\ values' = [values EXCEPT ![current] = Never]
      /\ poller' = remove(poller, current) /\ supported' = supported \ {current}
      /\ current' = NoPid /\ pc' = "publish" /\ UNCHANGED <<now, discovered>>
  BY DEF QueryFiller, return
<1>3. /\ PollerOk(poller', Pids) /\ PidsOf(poller') \subseteq PidsOf(poller) \ {current}
      /\ \A i \in 1 .. Len(poller'.items) :
            \E j \in 1 .. Len(poller.items) : poller'.items[i] = poller.items[j]
  BY <1>1, <1>2, RemoveFacts
<1>4. /\ values' \in [Pids -> Nat \cup {Never}]
      /\ \A pid \in Pids : values'[pid] = IF pid = current THEN Never ELSE values[pid]
  BY <1>1, <1>2 DEF ItemsInv
<1>5. \A i \in 1 .. Len(poller'.items) :
         poller'.items[i].pid \in Pids /\ poller'.items[i].pid # current
  BY <1>3, ItemFacts
<1>6. ASSUME NEW i \in 1 .. Len(poller'.items)
      PROVE  /\ poller'.items[i].interval = interval(poller'.items[i].pid)
             /\ poller'.items[i].due <= now' + poller'.items[i].interval
             /\ discovered' =>
                   \/ poller'.items[i].lastAnswer = Never
                   \/ poller'.items[i].lastAnswer = values'[poller'.items[i].pid]
  <2>1. PICK j \in 1 .. Len(poller.items) : poller'.items[i] = poller.items[j]
    BY <1>3
  <2> QED
    BY <1>2, <1>4, <1>5, <2>1 DEF ItemsInv
<1>7. \A pid \in Pids : values'[pid] <= now'
  BY <1>1, <1>2, <1>4 DEF ItemsInv, Never
<1>8. PidsOf(poller') \subseteq supported'
  BY <1>2, <1>3 DEF ItemsInv
<1> QED
  BY <1>2, <1>3, <1>4, <1>6, <1>7, <1>8 DEF ItemsInv

LEMMA ItemsStep ==
    ASSUME ThreadInv, ClockInv, LayoutInv, ItemsInv, [Next]_vars
    PROVE  ItemsInv'
<1>1. now \in Nat /\ now <= now /\ NoPid \in Pids \cup {NoPid}
  BY DEF ClockInv
<1>2. ASSUME UNCHANGED <<poller, supported, values, now, current>>, discovered' => discovered,
             pc' = "query" => pc = "query"
      PROVE  ItemsInv'
  BY <1>1, <1>2, ItemsKept DEF ItemsInv
<1>3. CASE LoopTop \/ LoopExit \/ Wake \/ DiscoverNextBlock
  BY <1>2, <1>3 DEF LoopTop, LoopExit, Wake, return, DiscoverNextBlock
<1>4. CASE DiscoverFail
  <2>1. /\ ~discovered' /\ UNCHANGED <<poller, supported, current, now>>
        /\ pc' = "sleep" /\ values' = NoValues
    BY <1>4 DEF DiscoverFail, ThreadInv
  <2>2. /\ values' \in [Pids -> Nat \cup {Never}]
        /\ \A pid \in Pids : values'[pid] <= now'
    BY <1>1, <2>1 DEF NoValues, Never
  <2> QED
    BY <2>1, <2>2 DEF ItemsInv
<1>5. CASE DiscoverLastBlock \/ DiscoverCutShort
  <2>1. PICK pids \in SUBSET Pids : Discovered(pids) /\ Blocks[1] \subseteq pids
    BY <1>5, DiscoveredFacts
  <2>2. /\ poller' = pollerFor(pids) /\ supported' = pids /\ values' = NoValues
        /\ pc' = "poll" /\ UNCHANGED <<now, current>>
    BY <2>1 DEF Discovered, return
  <2>3. Started(poller', pids)
    BY <2>2, PollerStarts
  <2>4. \A i \in 1 .. Len(poller'.items) : poller'.items[i].interval \in Nat
    BY <2>3, ItemFacts DEF Started
  <2>5. /\ values' \in [Pids -> Nat \cup {Never}]
        /\ \A pid \in Pids : values'[pid] <= now'
    BY <1>1, <2>2 DEF NoValues, Never
  <2>6. \A i \in 1 .. Len(poller'.items) :
           /\ poller'.items[i].interval = interval(poller'.items[i].pid)
           /\ poller'.items[i].due <= now' + poller'.items[i].interval
           /\ poller'.items[i].lastAnswer = Never
    BY <1>1, <2>2, <2>3, <2>4 DEF Started
  <2>7. PollerOk(poller', Pids) /\ PidsOf(poller') \subseteq supported'
    BY <2>2, <2>3 DEF Started
  <2> QED
    BY <2>2, <2>5, <2>6, <2>7 DEF ItemsInv
<1>6. CASE PollRequest
  BY <1>6, ItemsRequested
<1>7. CASE PollIdle
  BY <1>2, <1>7 DEF PollIdle
<1>8. CASE QueryAnswer
  BY <1>8, ItemsAnswered
<1>9. CASE QueryFiller
  BY <1>9, ItemsDropped
<1>10. CASE QueryFail
  <2>1. /\ UNCHANGED <<poller, supported, values, now>> /\ current' = NoPid
        /\ (discovered' => discovered) /\ pc' # "query"
    BY <1>10 DEF QueryFail, return
  <2> QED
    BY <1>1, <2>1, ItemsKept
<1>11. CASE IdleEnd \/ Publish
  BY <1>2, <1>11 DEF IdleEnd, Publish, return
<1>12. CASE onTelltales
  BY <1>2, <1>12 DEF onTelltales, return
<1>13. CASE Stop \/ VehicleLeaves \/ VehicleReturns
  BY <1>2, <1>13 DEF Stop, VehicleLeaves, VehicleReturns
<1>14. CASE Advance
  <2>1. /\ UNCHANGED <<poller, supported, values, current, pc, discovered>>
        /\ now' \in Nat /\ now <= now'
    BY <1>1, <1>14 DEF Advance
  <2> QED
    BY <2>1, ItemsKept DEF ItemsInv
<1>15. CASE Finished \/ UNCHANGED vars
  BY <1>2, <1>15 DEF Finished
<1>16. ASSUME NEW lit \in SUBSET Lamps, VehicleBroadcast(lit)
       PROVE  ItemsInv'
  BY <1>2, <1>16 DEF VehicleBroadcast
<1> QED
  BY <1>3, <1>4, <1>5, <1>6, <1>7, <1>8, <1>9, <1>10, <1>11, <1>12, <1>13, <1>14,
     <1>15, <1>16 DEF Next
-----------------------------------------------------------------------------
(***************************************************************************)
(* The lamps.                                                              *)
(***************************************************************************)
LEMMA LampsStep ==
    ASSUME ClockInv, LampsInv, [Next]_vars
    PROVE  LampsInv'
<1>0. inbox \in Seq(Broadcasts) /\ now \in Nat
  BY DEF LampsInv, ClockInv
<1>1. /\ inbox \in Seq(Broadcasts) /\ Len(inbox) \in Nat /\ now \in Nat
      /\ \A i \in 1 .. Len(inbox) : inbox[i] \in Broadcasts
  BY <1>0
<1>2. \A i \in 1 .. Len(inbox) : inbox[i].at \in Nat
  BY <1>1 DEF Broadcasts
<1>3. ASSUME UNCHANGED lampVars, now' \in Nat, now <= now'
      PROVE  LampsInv'
  <2>1. /\ \A i \in 1 .. Len(inbox') : inbox'[i].at <= now'
        /\ \A i, j \in 1 .. Len(inbox') : i <= j => inbox'[i].at <= inbox'[j].at
    BY <1>1, <1>2, <1>3 DEF LampsInv
  <2>2. lampsSeen' \in Nat \cup {Never} /\ lampsSeen' <= now'
    BY <1>1, <1>3 DEF LampsInv, Never
  <2> QED
    BY <1>3, <2>1, <2>2 DEF LampsInv
<1>4. CASE onTelltales
  <2>1. /\ inbox # <<>> /\ inbox' = Tail(inbox) /\ lamps' = Head(inbox).lit
        /\ lampsSeen' = now /\ lampsAt' = Head(inbox).at /\ UNCHANGED now
    BY <1>4 DEF onTelltales
  <2>2. /\ inbox' \in Seq(Broadcasts) /\ Len(inbox') = Len(inbox) - 1
        /\ Head(inbox) \in Broadcasts /\ Head(inbox) = inbox[1] /\ Len(inbox) >= 1
    BY <1>1, <2>1
  <2>3. \A i \in 1 .. Len(inbox') : inbox'[i] = inbox[i + 1] /\ i + 1 \in 1 .. Len(inbox)
    <3>1. \A i \in 1 .. Len(inbox') : inbox'[i] = inbox[i + 1]
      BY <1>1, <2>1, HeadTailProperties
    <3>2. \A i \in 1 .. (Len(inbox) - 1) : i + 1 \in 1 .. Len(inbox)
      BY <1>1
    <3> QED
      BY <2>2, <3>1, <3>2
  <2>4. lamps' \subseteq Lamps /\ lampsAt' \in Nat /\ lampsAt' <= now
    <3>1. /\ Head(inbox).lit \subseteq Lamps /\ Head(inbox).at \in Nat
          /\ 1 \in 1 .. Len(inbox)
      BY <1>1, <2>2 DEF Broadcasts
    <3> QED
      BY <2>1, <2>2, <3>1 DEF LampsInv
  <2>5. \A i, j \in 1 .. Len(inbox') : i <= j => i + 1 <= j + 1
    BY <2>2
  <2>6. /\ \A i \in 1 .. Len(inbox') : inbox'[i].at <= now'
        /\ \A i, j \in 1 .. Len(inbox') : i <= j => inbox'[i].at <= inbox'[j].at
    BY <2>1, <2>3, <2>5 DEF LampsInv
  <2>7. Len(inbox') <= MaxQueue
    BY <1>1, <2>2, Durations DEF LampsInv
  <2> QED
    <3>1. /\ lampsSeen' \in Nat \cup {Never} /\ lampsSeen' <= now'
          /\ lampsAt' \in Nat \cup {Never} /\ lampsAt' <= lampsSeen'
      BY <1>1, <2>1, <2>4
    <3> QED
      BY <2>2, <2>4, <2>6, <2>7, <3>1 DEF LampsInv
<1>5. ASSUME NEW lit \in SUBSET Lamps, VehicleBroadcast(lit)
      PROVE  LampsInv'
  <2> DEFINE b == [lit |-> lit, at |-> now]
  <2>1. /\ inbox' = Append(inbox, b) /\ Len(inbox) < MaxQueue
        /\ UNCHANGED <<now, lamps, lampsSeen, lampsAt>>
    BY <1>5 DEF VehicleBroadcast
  <2>2. b \in Broadcasts /\ b.at = now
    BY <1>1 DEF Broadcasts
  <2> HIDE DEF b
  <2>3. /\ inbox' \in Seq(Broadcasts) /\ Len(inbox') = Len(inbox) + 1
        /\ \A i \in 1 .. Len(inbox) : inbox'[i] = inbox[i]
        /\ inbox'[Len(inbox) + 1] = b
    BY <1>1, <2>1, <2>2
  <2>4. \A i \in 1 .. (Len(inbox) + 1) :
           i \in 1 .. Len(inbox) \/ (i = Len(inbox) + 1 /\ \A j \in 1 .. Len(inbox) : ~ (i <= j))
    BY <1>1
  <2>5. \A i \in 1 .. Len(inbox') : inbox'[i].at <= now'
    BY <1>1, <2>1, <2>2, <2>3, <2>4 DEF LampsInv
  <2>6. ASSUME NEW i \in 1 .. Len(inbox'), NEW j \in 1 .. Len(inbox'), i <= j
        PROVE  inbox'[i].at <= inbox'[j].at
    <3>1. CASE j \in 1 .. Len(inbox)
      BY <2>3, <2>4, <2>6, <3>1 DEF LampsInv
    <3>2. CASE j = Len(inbox) + 1
      BY <2>1, <2>2, <2>3, <2>5, <3>2
    <3> QED
      BY <2>3, <2>4, <3>1, <3>2
  <2>7. Len(inbox') <= MaxQueue
    BY <1>1, <2>1, <2>3, Durations
  <2> QED
    BY <2>1, <2>3, <2>5, <2>6, <2>7 DEF LampsInv
<1>6. CASE LoopTop \/ LoopExit \/ Wake \/ DiscoverNextBlock \/ DiscoverFail
  BY <1>1, <1>3, <1>6 DEF LoopTop, LoopExit, Wake, DiscoverNextBlock, DiscoverFail
<1>7. CASE DiscoverLastBlock \/ DiscoverCutShort
  BY <1>1, <1>3, <1>7 DEF DiscoverLastBlock, DiscoverCutShort, Discovered
<1>8. CASE PollRequest \/ PollIdle \/ QueryAnswer \/ QueryFiller \/ QueryFail
  BY <1>1, <1>3, <1>8 DEF PollRequest, PollIdle, QueryAnswer, QueryFiller, QueryFail
<1>9. CASE IdleEnd \/ Publish \/ Stop \/ VehicleLeaves \/ VehicleReturns
  BY <1>1, <1>3, <1>9 DEF IdleEnd, Publish, Stop, VehicleLeaves, VehicleReturns
<1>10. CASE Advance
  BY <1>1, <1>3, <1>10 DEF Advance
<1>11. CASE Finished \/ UNCHANGED vars
  BY <1>1, <1>3, <1>11 DEF Finished
<1> QED
  BY <1>4, <1>5, <1>6, <1>7, <1>8, <1>9, <1>10, <1>11 DEF Next
-----------------------------------------------------------------------------
LEMMA StateInit == Init => StateInv
<1> SUFFICES ASSUME Init
             PROVE  StateInv
  OBVIOUS
<1> USE DEF Init
<1>1. ThreadInv
  BY DEF ThreadInv
<1>2. ClockInv
  BY Durations DEF ClockInv
<1>3. CallInv
  BY Durations DEF CallInv
<1>4. LayoutInv
  <2>1. published = NoVehicleState /\ NoVehicleState.capable = {}
        /\ NoVehicleState \in [capable: SUBSET SignalsOf(Pids), valid: SUBSET SignalsOf(Pids),
                               lamps: SUBSET Lamps]
    BY DEF NoVehicleState
  <2>2. 0 \in 0 .. Len(Blocks)
    BY BlockFacts
  <2> QED
    BY <2>1, <2>2 DEF LayoutInv
<1>5. ItemsInv
  <2>1. Started(clear, {})
    BY ClearStarts
  <2>2. Len(clear.items) = 0
    BY DEF clear
  <2>3. /\ values \in [Pids -> Nat \cup {Never}]
        /\ \A pid \in Pids : values[pid] <= now
    BY DEF NoValues, Never
  <2> QED
    BY <2>1, <2>2, <2>3 DEF ItemsInv, Started
<1>6. LampsInv
  <2>1. inbox \in Seq(Broadcasts) /\ Len(inbox) = 0
    OBVIOUS
  <2> QED
    BY <2>1, Durations DEF LampsInv, Never
<1> QED
  BY <1>1, <1>2, <1>3, <1>4, <1>5, <1>6 DEF StateInv

LEMMA StateStep == StateInv /\ [Next]_vars => StateInv'
BY ThreadStep, ClockStep, CallStep, LayoutStep, ItemsStep, LampsStep DEF StateInv

THEOREM StateInvariance == Spec => []StateInv
BY StateInit, StateStep, PTL DEF Spec

\* TypeOK holds: every variable has its type, and the poller polls each supported PID
\* at most once.
THEOREM TypeCorrect == Spec => []TypeOK
<1> SUFFICES ASSUME StateInv
             PROVE  TypeOK
  BY StateInvariance, PTL
<1> USE DEF StateInv
<1>1. /\ now \in 0 .. MaxTime
      /\ {loopNow, wakeBy, nextPublish, publishedAt, linkAt, since} \subseteq Times
  <2>1. /\ loopNow \in Times /\ nextPublish \in Times /\ publishedAt \in Times
        /\ linkAt \in Times /\ since \in Times /\ now \in 0 .. MaxTime
    BY Durations DEF ClockInv, Times
  <2>2. wakeBy \in Times
    <3>1. pc \in {"top", "poll", "publish", "done", "discover", "sleep", "query", "idle"}
      BY DEF ThreadInv
    <3> QED
      BY <3>1, Durations DEF ClockInv, CallInv, Times
  <2> QED
    BY <2>1, <2>2
<1>2. /\ pc \in {"top", "discover", "sleep", "poll", "query", "idle", "publish", "done"}
      /\ {running, discovered, present, heard} \subseteq BOOLEAN
      /\ link \in {"unknown", "up", "down"}
  BY DEF ThreadInv
<1>3. /\ block \in 0 .. Len(Blocks) /\ found \subseteq Pids /\ supported \subseteq Pids
      /\ published \in [capable: SUBSET SignalsOf(Pids), valid: SUBSET SignalsOf(Pids),
                        lamps: SUBSET Lamps]
      /\ moves \in 0 .. MaxMoves
  BY DEF LayoutInv, ClockInv
<1>4. /\ current \in Pids \cup {NoPid} /\ PidsOf(poller) \subseteq supported
      /\ \A i, j \in DOMAIN poller.items :
            poller.items[i].pid = poller.items[j].pid => i = j
      /\ poller.unanswered \in Nat
  <2>1. DOMAIN poller.items = 1 .. Len(poller.items) /\ poller.unanswered \in Nat
    BY ItemFacts DEF ItemsInv
  <2> QED
    BY <2>1 DEF ItemsInv, PollerOk
<1>5. \A t \in Nat : t <= now => t \in Times
  BY Durations DEF ClockInv, Times
<1>6. values \in [Pids -> Times \cup {Never}]
  BY <1>5 DEF ItemsInv
<1>7. /\ lampsSeen \in Times \cup {Never} /\ lamps \subseteq Lamps /\ lampsAt <= lampsSeen
      /\ Len(inbox) <= MaxQueue
  BY <1>5 DEF LampsInv
<1>8. Range(inbox) \subseteq [lit: SUBSET Lamps, at: Times]
  <2>1. /\ DOMAIN inbox = 1 .. Len(inbox)
        /\ \A i \in 1 .. Len(inbox) : inbox[i] \in Broadcasts /\ inbox[i].at <= now
    BY DEF LampsInv
  <2>2. \A b \in Broadcasts : b.at <= now => b \in [lit: SUBSET Lamps, at: Times]
    BY <1>5 DEF Broadcasts
  <2> QED
    BY <2>1, <2>2 DEF Range
<1> QED
  BY <1>1, <1>2, <1>3, <1>4, <1>6, <1>7, <1>8 DEF TypeOK
-----------------------------------------------------------------------------
(***************************************************************************)
(* What the host is handed.                                                *)
(***************************************************************************)

\* A state is handed over by the publish of the loop, while a vehicle is reported, and
\* by a failed discovery.
LEMMA TwoHandOver ==
    ASSUME ThreadInv, ClockInv, [Next]_vars
    PROVE  \/ UNCHANGED <<published, publishedAt>> /\ ~HandsOver
           \/ /\ published' = vehicleState(values, now)
              /\ Publish /\ UNCHANGED link /\ link = "up"
           \/ DiscoverFail
<1>1. ASSUME UNCHANGED <<published, publishedAt, nextPublish>>,
             pc = "discover" => pc' # "sleep"
      PROVE  UNCHANGED <<published, publishedAt>> /\ ~HandsOver
  BY <1>1 DEF HandsOver
<1>2. CASE LoopTop \/ LoopExit \/ Wake \/ DiscoverNextBlock
  BY <1>1, <1>2 DEF LoopTop, LoopExit, Wake, return, DiscoverNextBlock
<1>3. CASE DiscoverLastBlock \/ DiscoverCutShort
  BY <1>1, <1>3 DEF DiscoverLastBlock, DiscoverCutShort, Discovered, return
<1>4. CASE PollRequest \/ PollIdle \/ QueryAnswer \/ QueryFiller \/ QueryFail
  BY <1>1, <1>4 DEF PollRequest, PollIdle, QueryAnswer, QueryFiller, QueryFail
<1>5. CASE IdleEnd \/ onTelltales
  BY <1>1, <1>5 DEF IdleEnd, onTelltales, return
<1>6. CASE Publish
  <2>1. link = "up" /\ pc = "publish" /\ UNCHANGED link
    BY <1>6 DEF Publish, ThreadInv
  <2> QED
    BY <1>1, <1>6, <2>1 DEF Publish
<1>7. CASE Stop \/ VehicleLeaves \/ VehicleReturns \/ Advance \/ Finished \/ UNCHANGED vars
  BY <1>1, <1>7 DEF Stop, VehicleLeaves, VehicleReturns, Advance, Finished
<1>8. ASSUME NEW lit \in SUBSET Lamps, VehicleBroadcast(lit)
      PROVE  UNCHANGED <<published, publishedAt>> /\ ~HandsOver
  BY <1>1, <1>8 DEF VehicleBroadcast
<1> QED
  BY <1>2, <1>3, <1>4, <1>5, <1>6, <1>7, <1>8 DEF Next

\* obd2-ice implements PluginSession: the host hears of the vehicle before it gets a
\* state, gets current values only while it is present, and nothing after stop() has
\* joined the thread (run() and stop() of obd2_ice.cpp, plugin.h).
THEOREM IceIsSession == Spec => IceSession
<1>1. Init => Promise!SessionInit
  BY DEF Init, Promise!SessionInit
<1>2. StateInv /\ [Next]_vars => [Promise!SessionNext]_(Promise!sessionVars)
  <2> SUFFICES ASSUME StateInv, [Next]_vars
               PROVE  [Promise!SessionNext]_(Promise!sessionVars)
    OBVIOUS
  <2>1. ThreadInv /\ ClockInv /\ supported \subseteq Pids /\ lamps \subseteq Lamps
    BY DEF StateInv, LayoutInv, LampsInv
  <2>2. ASSUME UNCHANGED <<published, publishedAt, link>>, pc' = "done" <=> pc = "done"
        PROVE  UNCHANGED Promise!sessionVars
    BY <2>2 DEF Promise!sessionVars
  <2>3. ASSUME UNCHANGED <<published, publishedAt>>, link' \in {"up", "down"},
               pc' # "done", pc # "done"
        PROVE  Promise!SessionNext
    BY <2>3 DEF Promise!SessionNext, Promise!SetLink
  <2>4. CASE LoopExit
    <3>1. Promise!End
      BY <2>4 DEF LoopExit, Promise!End
    <3> QED
      BY <3>1 DEF Promise!SessionNext
  <2>5. CASE LoopTop \/ Wake \/ DiscoverNextBlock
    BY <2>2, <2>5 DEF LoopTop, Wake, DiscoverNextBlock, return
  <2>6. CASE DiscoverLastBlock \/ DiscoverCutShort
    BY <2>3, <2>6 DEF DiscoverLastBlock, DiscoverCutShort, Discovered, return
  <2>7. CASE DiscoverFail
    <3>1. /\ published' = vehicleState(NoValues, loopNow) /\ link' = "down"
          /\ pc = "discover" /\ pc' = "sleep"
      BY <2>7 DEF DiscoverFail, lostState
    <3>2. published'.valid = {}
      BY <2>1, <3>1, HandedState
    <3>3. Promise!Lose
      BY <3>1, <3>2 DEF Promise!Lose, Promise!Honest
    <3> QED
      BY <3>3 DEF Promise!SessionNext
  <2>8. CASE PollRequest \/ PollIdle \/ QueryAnswer \/ QueryFiller
    BY <2>2, <2>8 DEF PollRequest, PollIdle, QueryAnswer, QueryFiller, return
  <2>9. CASE QueryFail
    <3>1. UNCHANGED <<published, publishedAt>> /\ pc' # "done" /\ pc # "done"
          /\ link' \in {link, "down"}
      BY <2>9 DEF QueryFail, return
    <3> QED
      BY <2>2, <2>3, <3>1
  <2>10. CASE IdleEnd \/ onTelltales
    BY <2>2, <2>10 DEF IdleEnd, onTelltales, return
  <2>11. CASE Publish
    <3>1. pc = "publish" /\ pc' = "top" /\ UNCHANGED link /\ link = "up"
      BY <2>1, <2>11 DEF Publish, ThreadInv
    <3>2. CASE published' = vehicleState(values, now)
      <4>1. published'.valid \subseteq published'.capable
        BY <2>1, <3>2, HandedState
      <4>2. Promise!HandOver
        BY <3>1, <4>1 DEF Promise!HandOver, Promise!Honest
      <4> QED
        BY <4>2 DEF Promise!SessionNext
    <3>3. CASE UNCHANGED <<published, publishedAt>>
      BY <2>2, <3>1, <3>3
    <3> QED
      BY <2>11, <3>2, <3>3 DEF Publish
  <2>12. CASE Stop \/ VehicleLeaves \/ VehicleReturns \/ Advance \/ Finished \/ UNCHANGED vars
    BY <2>2, <2>12 DEF Stop, VehicleLeaves, VehicleReturns, Advance, Finished
  <2>13. ASSUME NEW lit \in SUBSET Lamps, VehicleBroadcast(lit)
         PROVE  UNCHANGED Promise!sessionVars
    BY <2>2, <2>13 DEF VehicleBroadcast
  <2> QED
    BY <2>4, <2>5, <2>6, <2>7, <2>8, <2>9, <2>10, <2>11, <2>12, <2>13 DEF Next
<1> QED
  BY <1>1, <1>2, StateInvariance, PTL DEF Spec, IceSession, Promise!Session

\* LayoutHolds: what the first block advertised, and is no filler, stays advertised
\* through losses and rediscoveries (discover() and publish()).
THEOREM LayoutIsHeld == Spec => LayoutHolds
<1> DEFINE Step == published.capable # {}
                      => SignalsOf(Blocks[1] \ Fillers) \subseteq published'.capable
<1>1. StateInv /\ [Next]_vars => [Step]_vars
  <2> SUFFICES ASSUME StateInv, [Next]_vars, published.capable # {}
               PROVE  SignalsOf(Blocks[1] \ Fillers) \subseteq published'.capable
    OBVIOUS
  <2>1. /\ ThreadInv /\ ClockInv /\ supported \subseteq Pids /\ lamps \subseteq Lamps
        /\ Blocks[1] \ Fillers \subseteq supported
        /\ SignalsOf(Blocks[1] \ Fillers) \subseteq published.capable
    BY DEF StateInv, LayoutInv, LampsInv
  <2>2. CASE UNCHANGED published
    BY <2>1, <2>2
  <2>3. ASSUME NEW vals, NEW t, published' = vehicleState(vals, t)
        PROVE  SignalsOf(Blocks[1] \ Fillers) \subseteq published'.capable
    BY <2>1, <2>3, HandedState, SignalsMonotone
  <2>4. CASE DiscoverFail
    BY <2>3, <2>4 DEF DiscoverFail, lostState
  <2> QED
    BY <2>1, <2>2, <2>3, <2>4, TwoHandOver
<1> HIDE DEF Step
<1>2. Spec => [][Step]_vars
  BY StateInvariance, <1>1, PTL DEF Spec
<1> QED
  BY <1>2 DEF Step, LayoutHolds

\* Different PIDs are the sources of different signals.
LEMMA OwnSignals ==
    ASSUME NEW p \in Pids, NEW q \in Pids, signalsOf(p) \cap signalsOf(q) # {}
    PROVE  p = q
BY DEF signalsOf, Pids

\* A polled PID that counts as fresh was answered at most three intervals ago.
LEMMA FreshFacts ==
    ASSUME ItemsInv, discovered, NEW pid \in Pids, NEW t \in Nat, fresh(poller, pid, t)
    PROVE  values[pid] # Never /\ t - values[pid] <= 3 * interval(pid)
<1> DEFINE i == find(poller, pid)
<1>1. /\ pid \in PidsOf(poller) /\ poller.items[i].lastAnswer >= 0
      /\ t - poller.items[i].lastAnswer <= 3 * poller.items[i].interval
  BY DEF fresh
<1>2. i \in 1 .. Len(poller.items) /\ poller.items[i].pid = pid
  BY <1>1, FindFacts DEF ItemsInv
<1> HIDE DEF i
<1>3. /\ poller.items[i].interval = interval(pid)
      /\ poller.items[i].lastAnswer = Never \/ poller.items[i].lastAnswer = values[pid]
  BY <1>2 DEF ItemsInv
<1>4. poller.items[i].lastAnswer # Never
  BY <1>1 DEF Never
<1> QED
  BY <1>1, <1>3, <1>4

\* ValidRecent: a value handed over as valid is at most three of its intervals old
\* (publish() of obd2_ice.cpp, fresh() of Poller.cpp).
THEOREM ValidIsRecent == Spec => ValidRecent
<1> DEFINE Step == HandsOver => \A pid \in Pids :
                      signalsOf(pid) \cap published'.valid # {}
                         => values[pid] # Never /\ now - values[pid] <= 3 * interval(pid)
<1>1. StateInv /\ [Next]_vars => [Step]_vars
  <2> SUFFICES ASSUME StateInv, [Next]_vars, HandsOver, NEW pid \in Pids,
                      signalsOf(pid) \cap published'.valid # {}
               PROVE  values[pid] # Never /\ now - values[pid] <= 3 * interval(pid)
    OBVIOUS
  <2>1. /\ ThreadInv /\ ClockInv /\ supported \subseteq Pids /\ lamps \subseteq Lamps
        /\ ItemsInv /\ now \in Nat
    BY DEF StateInv, LayoutInv, LampsInv, ClockInv
  <2>2. ~DiscoverFail
    <3> SUFFICES ASSUME DiscoverFail
                 PROVE  FALSE
      OBVIOUS
    <3>1. published' = vehicleState(NoValues, loopNow)
      BY DEF DiscoverFail, lostState
    <3> QED
      BY <2>1, <3>1, HandedState
  <2>3. published' = vehicleState(values, now) /\ discovered
    BY <2>1, <2>2, TwoHandOver DEF ThreadInv
  <2> DEFINE good == {q \in supported : values[q] # Never /\ fresh(poller, q, now)}
  <2>4. published'.valid = SignalsOf(good)
    BY <2>3 DEF vehicleState
  <2>5. PICK q \in good : signalsOf(pid) \cap signalsOf(q) # {}
    BY <2>4 DEF SignalsOf
  <2>6. pid = q /\ fresh(poller, pid, now)
    BY <2>1, <2>5, OwnSignals
  <2> QED
    BY <2>1, <2>3, <2>6, FreshFacts
<1> HIDE DEF Step
<1>2. Spec => [][Step]_vars
  BY StateInvariance, <1>1, PTL DEF Spec
<1> QED
  BY <1>2 DEF Step, ValidRecent
-----------------------------------------------------------------------------
(***************************************************************************)
(* How often the host hears of the vehicle.                                *)
(***************************************************************************)
LEMMA SignFacts ==
    ASSUME ClockInv
    PROVE  /\ LastSign \in Nat /\ LastSign >= publishedAt /\ LastSign >= linkAt
           /\ LongestCall \in Nat /\ LongestCall >= Fast /\ LongestCall >= IdleMax
<1>1. publishedAt \in Nat /\ linkAt \in Nat
  BY DEF ClockInv
<1>2. /\ LastSign = IF publishedAt >= linkAt THEN publishedAt ELSE linkAt
      /\ LongestCall = IF Fast >= IdleMax THEN Fast ELSE IdleMax
  BY <1>1, Durations, MinMaxOfTwo DEF LastSign, LongestCall
<1> QED
  BY <1>1, <1>2, Durations

LEMMA LaterStill ==
    ASSUME NEW a \in Nat, NEW b \in Nat, NEW c \in Nat, a <= b
    PROVE  a <= b + c
OBVIOUS

LEMMA LongerStill ==
    ASSUME NEW a \in Nat, NEW b \in Nat, NEW c \in Nat, NEW d \in Nat, a <= b + c, c <= d
    PROVE  a <= b + d
OBVIOUS

LEMMA LagLater ==
    ASSUME NEW a \in Nat, NEW b \in Nat, NEW c \in Nat, NEW d \in Nat,
           a <= b + c, b <= d
    PROVE  a <= d + c
OBVIOUS

\* A request sent a lag after the one before was due.
LEMMA RequestLater ==
    ASSUME NEW t \in Nat, NEW s \in Nat, NEW w \in Nat, NEW f \in Nat, NEW l \in Nat,
           t <= s + w + l
    PROVE  t + f <= s + (w + f + l)
OBVIOUS

LEMMA PublishStep ==
    ASSUME StateInv, PublishInv, [Next]_vars
    PROVE  PublishInv'
<1>1. /\ LastSign \in Nat /\ LastSign >= publishedAt /\ LastSign >= linkAt
      /\ LongestCall \in Nat /\ LongestCall >= Fast /\ LongestCall >= IdleMax
      /\ now \in Nat /\ wakeBy \in Nat /\ nextPublish \in Nat
      /\ publishedAt \in Nat /\ nextPublish <= publishedAt + PublishPeriod
  BY SignFacts DEF StateInv, ClockInv, CallInv
<1>2. UNCHANGED LongestCall
  BY DEF LongestCall
<1>3. /\ ClockInv' /\ ThreadInv /\ ThreadInv' /\ CallInv /\ ItemsInv /\ ClockInv
  BY StateStep DEF StateInv
<1>4. LastSign' \in Nat /\ LastSign' >= publishedAt' /\ LastSign' >= linkAt'
  <2>1. publishedAt' \in Nat /\ linkAt' \in Nat
    BY <1>3 DEF ClockInv
  <2>2. LastSign' = IF publishedAt' >= linkAt' THEN publishedAt' ELSE linkAt'
    BY <2>1, MinMaxOfTwo DEF LastSign
  <2> QED
    BY <2>1, <2>2
<1>5. UNCHANGED <<publishedAt, linkAt>> => UNCHANGED LastSign
  BY DEF LastSign
<1>6. ASSUME ~discovered', pc' \notin {"query", "idle", "publish"}
      PROVE  PublishInv'
  BY <1>6 DEF PublishInv
<1>7. ASSUME UNCHANGED <<publishedAt, linkAt, now, pc, wakeBy, discovered>>
      PROVE  PublishInv'
  BY <1>2, <1>5, <1>7 DEF PublishInv
<1>8. CASE LoopTop
  BY <1>1, <1>2, <1>5, <1>8 DEF LoopTop, PublishInv
<1>9. CASE LoopExit
  BY <1>9 DEF LoopExit, PublishInv
<1>10. CASE Wake \/ DiscoverNextBlock \/ DiscoverFail
  BY <1>3, <1>6, <1>10 DEF Wake, DiscoverNextBlock, DiscoverFail, return, ThreadInv
<1>11. CASE DiscoverLastBlock \/ DiscoverCutShort
  <2>1. linkAt' = now /\ pc' = "poll" /\ UNCHANGED now
    BY <1>11 DEF DiscoverLastBlock, DiscoverCutShort, Discovered, return
  <2> QED
    <3>1. now' \in Nat /\ LastSign' \in Nat /\ now' <= LastSign'
      BY <1>1, <1>4, <2>1
    <3>2. now' <= LastSign' + PublishPeriod
      BY <3>1, LaterStill, Durations, Zenon
    <3> QED
      BY <2>1, <3>2 DEF PublishInv
<1>12. CASE PollRequest
  <2>1. /\ pc = "poll" /\ pc' = "query" /\ wakeBy' = now + Fast /\ discovered
        /\ UNCHANGED <<publishedAt, linkAt>>
    BY <1>3, <1>12, RequestFacts DEF PollRequest, ThreadInv
  <2> QED
    BY <1>1, <1>2, <1>5, <2>1, Durations DEF PublishInv
<1>13. CASE PollIdle
  <2>1. /\ pc = "poll" /\ pc' = "idle" /\ discovered /\ UNCHANGED <<publishedAt, linkAt>>
    BY <1>3, <1>13 DEF PollIdle, ThreadInv
  <2>2. wakeBy' \in Nat /\ wakeBy' <= now + IdleMax
    BY <1>3, <1>13, IdleFacts
  <2> QED
    BY <1>1, <1>2, <1>5, <2>1, <2>2, Durations DEF PublishInv
<1>14. ASSUME pc \in {"query", "idle"}, pc' = "publish",
              UNCHANGED <<publishedAt, linkAt, now>>
       PROVE  PublishInv'
  BY <1>1, <1>2, <1>3, <1>5, <1>14, Durations DEF CallInv, PublishInv
<1>15. CASE QueryAnswer \/ QueryFiller \/ IdleEnd
  BY <1>14, <1>15 DEF QueryAnswer, QueryFiller, IdleEnd, return
<1>16. CASE QueryFail
  <2>1. CASE pc' = "top" /\ ~discovered'
    BY <1>6, <2>1
  <2>2. CASE pc' = "publish" /\ UNCHANGED linkAt
    BY <1>14, <1>16, <2>2 DEF QueryFail
  <2> QED
    BY <1>16, <2>1, <2>2 DEF QueryFail, return
<1>17. CASE Publish
  <2>1. pc' = "top" /\ UNCHANGED <<now, linkAt>>
    BY <1>17 DEF Publish
  <2>2. CASE publishedAt' = now
    <3>1. now' \in Nat /\ LastSign' \in Nat /\ now' <= LastSign'
      BY <1>1, <1>4, <2>1, <2>2
    <3>2. now' <= LastSign' + PublishPeriod
      BY <3>1, LaterStill, Durations, Zenon
    <3> QED
      BY <2>1, <3>2 DEF PublishInv
  <2>3. CASE now < nextPublish /\ UNCHANGED publishedAt
    BY <1>1, <1>5, <2>1, <2>3, Durations DEF PublishInv
  <2> QED
    BY <1>17, <2>2, <2>3 DEF Publish
<1>18. CASE onTelltales
  <2>1. CASE pc = "idle"
    BY <1>14, <1>18, <2>1 DEF onTelltales, return
  <2>2. CASE pc # "idle"
    BY <1>7, <1>18, <2>2 DEF onTelltales
  <2> QED
    BY <2>1, <2>2
<1>19. CASE Advance
  <2>1. /\ pc \in {"discover", "sleep", "query", "idle"} /\ UNCHANGED <<pc, wakeBy>>
        /\ UNCHANGED <<publishedAt, linkAt>>
    BY <1>19 DEF Advance
  <2> QED
    BY <1>2, <1>5, <2>1 DEF PublishInv
<1>20. CASE Stop \/ VehicleLeaves \/ VehicleReturns \/ Finished \/ UNCHANGED vars
  BY <1>7, <1>20 DEF Stop, VehicleLeaves, VehicleReturns, Finished
<1>21. ASSUME NEW lit \in SUBSET Lamps, VehicleBroadcast(lit)
       PROVE  PublishInv'
  BY <1>7, <1>21 DEF VehicleBroadcast
<1> QED
  BY <1>8, <1>9, <1>10, <1>11, <1>12, <1>13, <1>15, <1>16, <1>17, <1>18, <1>19, <1>20,
     <1>21 DEF Next

\* KeepsPublishing: while a vehicle is reported the host gets a state at least every
\* publish period and fast interval (run() of obd2_ice.cpp).
THEOREM PublishingIsKept == Spec => []KeepsPublishing
<1>1. Init => PublishInv
  BY DEF Init, PublishInv
<1>2. StateInv /\ StateInv' /\ PublishInv /\ [Next]_vars => PublishInv'
  BY PublishStep
<1>3. StateInv /\ PublishInv => KeepsPublishing
  <2> SUFFICES ASSUME StateInv, PublishInv, link = "up", pc # "done"
               PROVE  now <= Max({publishedAt, linkAt}) + PublishPeriod
                             + Max({Fast, IdleMax}) + MaxLag
    BY DEF KeepsPublishing
  <2>1. discovered /\ pc \in {"top", "poll", "query", "idle", "publish"}
    BY DEF StateInv, ThreadInv
  <2>2. LastSign \in Nat /\ LongestCall \in Nat /\ now \in Nat /\ wakeBy \in Nat
    BY SignFacts DEF StateInv, ClockInv, CallInv
  <2>3. pc \in {"query", "idle"} => now <= wakeBy + MaxLag
    BY DEF StateInv, CallInv
  <2>4. now <= LastSign + PublishPeriod + LongestCall + MaxLag
    BY <2>1, <2>2, <2>3, Durations DEF PublishInv
  <2> QED
    BY <2>4 DEF LastSign, LongestCall
<1> QED
  BY StateInvariance, <1>1, <1>2, <1>3, PTL DEF Spec
-----------------------------------------------------------------------------
(***************************************************************************)
(* How fast a vehicle that returns is met.                                 *)
(***************************************************************************)
LEMMA MeetsFacts ==
    /\ Meets \in Nat /\ Meets >= Fast + MaxLag
    /\ Meets >= DiscoverTimeout + RetrySleep + 2 * MaxLag
<1> DEFINE pause == DiscoverTimeout + RetrySleep + MaxLag
<1>1. pause \in Nat /\ Fast \in Nat
  BY Durations
<1>2. Max({Fast, pause}) = IF Fast >= pause THEN Fast ELSE pause
  BY <1>1, MinMaxOfTwo
<1>3. Meets = Max({Fast, pause}) + MaxLag
  BY DEF Meets
<1> QED
  BY <1>2, <1>3, Durations

LEMMA TakesFacts ==
    /\ Takes(0) = 0
    /\ \A b \in Nat : /\ Takes(b) \in Nat
                      /\ Takes(b + 1) = Takes(b) + DiscoverTimeout + MaxLag
<1> DEFINE d == DiscoverTimeout + MaxLag
<1>1. d \in Nat
  BY Durations
<1>2. \A b \in Nat : Takes(b) = b * d
  BY DEF Takes
<1> HIDE DEF d
<1>3. Takes(0) = 0
  BY <1>1, <1>2
<1>4. ASSUME NEW b \in Nat
      PROVE  Takes(b) \in Nat /\ Takes(b + 1) = Takes(b) + d
  <2>1. Takes(b) = b * d /\ Takes(b + 1) = (b + 1) * d
    BY <1>2
  <2> QED
    BY <1>1, <2>1
<1> QED
  BY <1>3, <1>4, Durations DEF d

\* More blocks take longer.
LEMMA TakesLonger ==
    ASSUME NEW a \in Nat, NEW b \in Nat, a <= b
    PROVE  Takes(a) <= Takes(b)
<1> DEFINE d == DiscoverTimeout + MaxLag  c == b - a
<1>1. d \in Nat /\ c \in Nat /\ Takes(a) = a * d /\ Takes(b) = b * d /\ b = a + c
  BY Durations DEF Takes
<1> HIDE DEF d, c
<1>2. b * d = a * d + c * d /\ c * d \in Nat /\ a * d \in Nat
  BY <1>1
<1> DEFINE x == a * d  y == c * d  z == b * d
<1>3. z = x + y /\ y \in Nat /\ x \in Nat
  BY <1>2
<1> HIDE DEF x, y, z
<1>4. x <= z
  BY <1>3
<1> QED
  BY <1>1, <1>4 DEF x, z

LEMMA RecoveryStep ==
    ASSUME StateInv, RecoveryInv, [Next]_vars
    PROVE  RecoveryInv'
<1> SUFFICES ASSUME present', ~Lossy
             PROVE  RecoveryInv'
  BY DEF RecoveryInv
<1>1. /\ now \in Nat /\ wakeBy \in Nat /\ since \in Nat /\ since <= now
      /\ ThreadInv /\ CallInv /\ ThreadInv'
  BY StateStep DEF StateInv, ClockInv, CallInv
<1>2. block \in Nat /\ (pc = "discover" => block >= 1 /\ block - 1 \in Nat)
  BY BlockFacts DEF StateInv, LayoutInv
<1>3. /\ Meets \in Nat /\ Meets >= Fast + MaxLag
      /\ Meets >= DiscoverTimeout + RetrySleep + 2 * MaxLag
      /\ Takes(0) = 0 /\ Takes(block - 1 + 1) = Takes(block)
  BY <1>2, MeetsFacts, TakesFacts
<1>4. UNCHANGED Meets
  BY DEF Meets
<1>5. ASSUME pc' \in {"poll", "idle", "publish", "done"} \/ (pc' = "top" /\ discovered')
      PROVE  RecoveryInv'
  BY <1>5 DEF RecoveryInv
<1>6. ASSUME UNCHANGED <<now, pc, wakeBy, block, discovered, heard, since, present>>
      PROVE  RecoveryInv'
  BY <1>1, <1>4, <1>6, Zenon DEF RecoveryInv, Takes
<1>7. CASE LoopTop
  <2>1. CASE pc' = "poll"
    BY <1>5, <2>1
  <2>2. CASE pc' = "discover"
    <3>1. /\ pc = "top" /\ ~discovered /\ present /\ block' = 1 /\ UNCHANGED since
          /\ wakeBy' = now + DiscoverTimeout /\ heard'
      BY <1>7, <2>2, RequestFacts DEF LoopTop
    <3>2. now <= since + Meets
      BY <3>1 DEF RecoveryInv
    <3>3. Takes(block' - 1) = 0
      BY <1>3, <3>1
    <3>4. wakeBy' <= since' + Meets' + Takes(block' - 1) + DiscoverTimeout
      BY <1>1, <1>3, <1>4, <3>1, <3>2, <3>3, Durations
    <3> QED
      BY <2>2, <3>1, <3>4 DEF RecoveryInv, Takes
  <2> QED
    BY <1>7, <2>1, <2>2 DEF LoopTop
<1>8. CASE LoopExit
  BY <1>5, <1>8 DEF LoopExit
<1>9. CASE Wake
  <2>1. /\ pc = "sleep" /\ pc' = "top" /\ present /\ UNCHANGED <<now, since>>
    BY <1>9 DEF Wake, return
  <2>2. wakeBy <= since + DiscoverTimeout + RetrySleep + MaxLag /\ now <= wakeBy + MaxLag
    BY <1>1, <2>1 DEF RecoveryInv, CallInv
  <2>3. now' <= since' + Meets'
    BY <1>1, <1>3, <1>4, <2>1, <2>2, Durations
  <2> QED
    BY <2>1, <2>3 DEF RecoveryInv
<1>10. CASE DiscoverNextBlock
  <2>1. /\ pc = "discover" /\ heard /\ pc' = "discover" /\ present /\ block' = block + 1
        /\ wakeBy' = now + DiscoverTimeout /\ heard' /\ UNCHANGED <<now, since>>
    BY <1>10, RequestFacts DEF DiscoverNextBlock
  <2>2. /\ wakeBy <= since + Meets + Takes(block - 1) + DiscoverTimeout
        /\ now <= wakeBy + MaxLag
    BY <1>1, <2>1 DEF RecoveryInv, CallInv
  <2>3. /\ Takes(block' - 1) = Takes(block) /\ block - 1 \in Nat /\ Takes(block - 1) \in Nat
        /\ Takes(block) = Takes(block - 1) + DiscoverTimeout + MaxLag
    <3>1. block - 1 \in Nat /\ block - 1 + 1 = block /\ block' - 1 = block
      BY <1>2, <2>1
    <3>2. /\ Takes(block - 1) \in Nat
          /\ Takes(block - 1 + 1) = Takes(block - 1) + DiscoverTimeout + MaxLag
      BY <3>1, TakesFacts
    <3> QED
      BY <3>1, <3>2
  <2>4. wakeBy' <= since' + Meets' + Takes(block' - 1) + DiscoverTimeout
    BY <1>1, <1>3, <1>4, <2>1, <2>2, <2>3, Durations
  <2> QED
    BY <2>1, <2>4 DEF RecoveryInv, Takes
<1>11. CASE DiscoverFail
  <2>1. /\ pc = "discover" /\ ~heard /\ pc' = "sleep" /\ present
        /\ wakeBy' = now + RetrySleep /\ UNCHANGED <<now, since>>
    BY <1>11 DEF DiscoverFail, retryAt
  <2>2. wakeBy <= since + DiscoverTimeout /\ now <= wakeBy + MaxLag
    BY <1>1, <2>1 DEF RecoveryInv, CallInv
  <2>3. wakeBy' <= since' + DiscoverTimeout + RetrySleep + MaxLag
    BY <1>1, <2>1, <2>2, Durations
  <2> QED
    BY <2>1, <2>3 DEF RecoveryInv
<1>12. CASE DiscoverLastBlock \/ DiscoverCutShort
  BY <1>5, <1>12 DEF DiscoverLastBlock, DiscoverCutShort, Discovered, return
<1>13. CASE PollRequest
  <2>1. pc' = "query" /\ present /\ heard'
    BY <1>13, RequestFacts DEF PollRequest
  <2> QED
    BY <2>1 DEF RecoveryInv
<1>14. CASE PollIdle \/ QueryAnswer \/ QueryFiller
  BY <1>5, <1>14 DEF PollIdle, QueryAnswer, QueryFiller, return
<1>15. CASE QueryFail
  <2>1. CASE pc' = "publish"
    BY <1>5, <2>1
  <2>2. CASE pc' = "top"
    <3>1. pc = "query" /\ ~heard /\ present /\ UNCHANGED <<now, since>>
      BY <1>1, <1>15 DEF QueryFail, ThreadInv
    <3>2. wakeBy <= since + Fast /\ now <= wakeBy + MaxLag
      BY <1>1, <3>1 DEF RecoveryInv, CallInv
    <3>3. now' <= since' + Meets'
      BY <1>1, <1>3, <1>4, <3>1, <3>2, Durations
    <3> QED
      BY <2>2, <3>3 DEF RecoveryInv
  <2> QED
    BY <1>15, <2>1, <2>2 DEF QueryFail, return
<1>16. CASE IdleEnd
  BY <1>5, <1>16 DEF IdleEnd, return
<1>17. CASE Publish
  BY <1>1, <1>5, <1>17 DEF Publish, ThreadInv
<1>18. CASE onTelltales
  <2>1. CASE pc = "idle"
    BY <1>5, <1>18, <2>1 DEF onTelltales, return
  <2>2. CASE pc # "idle"
    BY <1>6, <1>18, <2>2 DEF onTelltales
  <2> QED
    BY <2>1, <2>2
<1>19. CASE VehicleReturns
  <2>1. since' = now /\ ~heard /\ UNCHANGED <<now, pc, wakeBy, heard, discovered>>
    BY <1>1, <1>19 DEF VehicleReturns, ThreadInv
  <2>2. /\ pc = "query" => wakeBy <= now + Fast
        /\ pc = "discover" => wakeBy <= now + DiscoverTimeout
        /\ pc = "sleep" => wakeBy <= now + DiscoverTimeout + RetrySleep + MaxLag
    BY <1>1, Durations DEF CallInv
  <2>3. now' <= since' + Meets'
    BY <1>1, <1>3, <1>4, <2>1
  <2> QED
    BY <2>1, <2>2, <2>3 DEF RecoveryInv
<1>20. CASE VehicleLeaves
  BY <1>20 DEF VehicleLeaves
<1>21. CASE Advance
  <2>1. /\ pc # "top" /\ UNCHANGED <<pc, wakeBy, block, discovered, heard, since, present>>
    BY <1>21 DEF Advance
  <2> QED
    BY <1>4, <2>1, Zenon DEF RecoveryInv, Takes
<1>22. CASE Stop \/ Finished \/ UNCHANGED vars
  BY <1>6, <1>22 DEF Stop, Finished
<1>23. ASSUME NEW lit \in SUBSET Lamps, VehicleBroadcast(lit)
       PROVE  RecoveryInv'
  BY <1>6, <1>23 DEF VehicleBroadcast
<1> QED
  BY <1>7, <1>8, <1>9, <1>10, <1>11, <1>12, <1>13, <1>14, <1>15, <1>16, <1>17, <1>18,
     <1>19, <1>20, <1>21, <1>22, <1>23 DEF Next

\* RecoveryReported: a vehicle that comes back and answers is reported within the pause
\* and the timeouts of one discovery (run() of obd2_ice.cpp, discover() of
\* J1979Client.cpp).
THEOREM RecoveryIsReported == Spec => []RecoveryReported
<1>1. Init => RecoveryInv
  BY MeetsFacts DEF Init, RecoveryInv
<1>2. StateInv /\ StateInv' /\ RecoveryInv /\ [Next]_vars => RecoveryInv'
  BY RecoveryStep
<1>3. StateInv /\ RecoveryInv => RecoveryReported
  <2> SUFFICES ASSUME StateInv, RecoveryInv, present, ~Lossy, running, link = "down"
               PROVE  now <= since + RecoveryBound
    BY DEF RecoveryReported
  <2>1. ~discovered /\ pc \in {"top", "discover", "sleep"}
    BY DEF StateInv, ThreadInv
  <2>2. /\ now \in Nat /\ wakeBy \in Nat /\ since \in Nat
        /\ pc \in {"discover", "sleep"} => now <= wakeBy + MaxLag
    BY DEF StateInv, ClockInv, CallInv
  <2>3. /\ Meets \in Nat /\ Meets >= Fast + MaxLag
        /\ Meets >= DiscoverTimeout + RetrySleep + 2 * MaxLag
    BY MeetsFacts
  <2> DEFINE all == Takes(Len(Blocks))
  <2>4. all \in Nat /\ RecoveryBound = Meets + all
    BY BlockFacts, TakesFacts DEF RecoveryBound, Meets, Takes
  <2> HIDE DEF all
  <2>5. CASE pc = "discover" /\ heard
    <3>1. block \in Nat /\ block - 1 \in Nat /\ block - 1 + 1 = block /\ block <= Len(Blocks)
          /\ Len(Blocks) \in Nat
      BY <2>5, BlockFacts DEF StateInv, LayoutInv
    <3>2. /\ Takes(block - 1) \in Nat
          /\ Takes(block - 1 + 1) = Takes(block - 1) + DiscoverTimeout + MaxLag
      BY <3>1, TakesFacts
    <3>3. Takes(block) = Takes(block - 1) + DiscoverTimeout + MaxLag
      BY <3>1, <3>2
    <3>4. Takes(block) <= all
      BY <3>1, TakesLonger DEF all
    <3>5. wakeBy <= since + Meets + Takes(block - 1) + DiscoverTimeout
      BY <2>5 DEF RecoveryInv
    <3> QED
      BY <2>2, <2>3, <2>4, <2>5, <3>2, <3>3, <3>4, <3>5, Durations
  <2>6. CASE pc = "discover" /\ ~heard
    BY <2>2, <2>3, <2>4, <2>6, Durations DEF RecoveryInv
  <2>7. CASE pc = "sleep"
    BY <2>2, <2>3, <2>4, <2>7, Durations DEF RecoveryInv
  <2>8. CASE pc = "top"
    BY <2>1, <2>2, <2>3, <2>4, <2>8, Durations DEF RecoveryInv
  <2> QED
    BY <2>1, <2>5, <2>6, <2>7, <2>8
<1> QED
  BY StateInvariance, <1>1, <1>2, <1>3, PTL DEF Spec
-----------------------------------------------------------------------------
(***************************************************************************)
(* How old a lit lamp can be.                                              *)
(***************************************************************************)

\* A frame that is read while an answer or a timeout is taken came a lag ago at most,
\* and so did all that came after it.
LEMMA HeadIsRecent ==
    ASSUME StateInv, AnswerNext, NEW i \in 1 .. Len(inbox)
    PROVE  now <= inbox[i].at + MaxLag
<1>0. inbox \in Seq(Broadcasts) /\ now \in Nat
  BY DEF StateInv, LampsInv, ClockInv
<1>1. /\ Len(inbox) \in Nat /\ Len(inbox) >= 1 /\ 1 \in 1 .. Len(inbox) /\ now \in Nat
      /\ \A j \in 1 .. Len(inbox) : inbox[j] \in Broadcasts
  BY <1>0
<1>2. inbox # <<>> /\ Head(inbox) = inbox[1]
  BY <1>0, <1>1
<1>3. inbox[1].at >= now - MaxLag
  BY <1>2 DEF AnswerNext
<1>4. inbox[1].at \in Nat /\ inbox[i].at \in Nat
  BY <1>1 DEF Broadcasts
<1>5. 1 <= i
  BY <1>1
<1>6. inbox[1].at <= inbox[i].at
  BY <1>1, <1>5 DEF StateInv, LampsInv
<1> QED
  BY <1>1, <1>3, <1>4, <1>6, Durations

LEMMA StaleStep ==
    ASSUME ~BusErrors, StateInv, StaleInv, [Next]_vars
    PROVE  StaleInv'
<1>1. /\ now \in Nat /\ wakeBy \in Nat /\ inbox \in Seq(Broadcasts) /\ Len(inbox) \in Nat
      /\ \A i \in 1 .. Len(inbox) : inbox[i] \in Broadcasts
  <2>1. now \in Nat /\ wakeBy \in Nat /\ inbox \in Seq(Broadcasts)
    BY DEF StateInv, ClockInv, CallInv, LampsInv
  <2> QED
    BY <2>1
<1>2. \A i \in 1 .. Len(inbox) : inbox[i].at \in Nat
  BY <1>1 DEF Broadcasts
<1>3. ASSUME UNCHANGED <<now, inbox, lampsSeen, lampsAt>>, pc # "sleep", pc' # "sleep"
      PROVE  StaleInv'
  BY <1>3 DEF StaleInv
<1>4. ASSUME UNCHANGED <<now, inbox, lampsSeen, lampsAt, pc, wakeBy>>
      PROVE  StaleInv'
  BY <1>4 DEF StaleInv
<1>5. CASE LoopTop \/ LoopExit \/ DiscoverNextBlock
  BY <1>3, <1>5 DEF LoopTop, LoopExit, DiscoverNextBlock
<1>6. CASE Wake
  <2>1. pc = "sleep" /\ pc' = "top" /\ UNCHANGED <<now, inbox, lampsSeen, lampsAt>>
    BY <1>6 DEF Wake, return
  <2>2. now <= wakeBy + MaxLag
    BY <2>1 DEF StateInv, CallInv
  <2>3. ASSUME NEW i \in 1 .. Len(inbox)
        PROVE  now <= inbox[i].at + RetrySleep + 2 * MaxLag
    <3>1. wakeBy <= inbox[i].at + RetrySleep + MaxLag /\ inbox[i].at \in Nat
      BY <1>2, <2>1 DEF StaleInv
    <3> QED
      BY <1>1, <2>2, <3>1, Durations
  <2> QED
    BY <2>1, <2>3 DEF StaleInv
<1>7. CASE DiscoverFail
  <2>1. /\ GivesUp /\ pc' = "sleep" /\ wakeBy' = now + RetrySleep
        /\ UNCHANGED <<now, inbox, lampsSeen, lampsAt>>
    BY <1>7 DEF DiscoverFail, retryAt
  <2>2. AnswerNext
    BY <2>1 DEF GivesUp
  <2>3. ASSUME NEW i \in 1 .. Len(inbox)
        PROVE  wakeBy' <= inbox[i].at + RetrySleep + MaxLag
    <3>1. now <= inbox[i].at + MaxLag /\ inbox[i].at \in Nat
      BY <1>2, <2>2, HeadIsRecent
    <3> QED
      BY <1>1, <2>1, <3>1, Durations
  <2> QED
    BY <2>1, <2>3 DEF StaleInv
<1>8. CASE DiscoverLastBlock \/ DiscoverCutShort
  BY <1>3, <1>8 DEF DiscoverLastBlock, DiscoverCutShort, Discovered, return
<1>9. CASE PollRequest \/ PollIdle
  BY <1>3, <1>9 DEF PollRequest, PollIdle
<1>10. CASE QueryAnswer \/ QueryFiller \/ QueryFail
  BY <1>3, <1>10 DEF QueryAnswer, QueryFiller, QueryFail, return
<1>11. CASE IdleEnd \/ Publish
  BY <1>3, <1>11 DEF IdleEnd, Publish, return
<1>12. CASE onTelltales
  <2>1. /\ inbox # <<>> /\ inbox' = Tail(inbox) /\ lampsSeen' = now
        /\ lampsAt' = Head(inbox).at /\ UNCHANGED now /\ pc # "sleep" /\ pc' # "sleep"
    BY <1>12 DEF onTelltales, return
  <2>2. /\ Len(inbox') = Len(inbox) - 1 /\ Head(inbox) = inbox[1] /\ 1 \in 1 .. Len(inbox)
        /\ \A i \in 1 .. Len(inbox') : inbox'[i] = inbox[i + 1]
    BY <1>1, <2>1, HeadTailProperties
  <2>3. \A i \in 1 .. Len(inbox') : i + 1 \in 1 .. Len(inbox)
    BY <1>1, <2>2
  <2>4. \A i \in 1 .. Len(inbox) : now <= inbox[i].at + RetrySleep + 2 * MaxLag
    BY <2>1 DEF StaleInv
  <2>5. \A i \in 1 .. Len(inbox') : now' <= inbox'[i].at + RetrySleep + 2 * MaxLag
    BY <2>1, <2>2, <2>3, <2>4
  <2>6. lampsAt' >= 0 /\ lampsSeen' <= lampsAt' + RetrySleep + 2 * MaxLag
    <3>1. lampsAt' = inbox[1].at /\ inbox[1].at \in Nat
      BY <1>2, <2>1, <2>2
    <3>2. now <= inbox[1].at + RetrySleep + 2 * MaxLag
      BY <2>2, <2>4
    <3> QED
      BY <2>1, <3>1, <3>2
  <2> QED
    BY <2>1, <2>5, <2>6 DEF StaleInv
<1>13. CASE Stop \/ VehicleLeaves \/ VehicleReturns \/ Finished \/ UNCHANGED vars
  BY <1>4, <1>13 DEF Stop, VehicleLeaves, VehicleReturns, Finished
<1>14. CASE Advance
  <2>1. /\ now' = now + 1 /\ pc' = pc /\ wakeBy' = wakeBy
        /\ UNCHANGED <<inbox, lampsSeen, lampsAt>>
        /\ pc # "sleep" /\ inbox # <<>> => now < Head(inbox).at + MaxLag
    BY <1>14 DEF Advance
  <2>2. ASSUME pc # "sleep", NEW i \in 1 .. Len(inbox)
        PROVE  now' <= inbox[i].at + RetrySleep + 2 * MaxLag
    <3>1. inbox # <<>> /\ Head(inbox) = inbox[1] /\ 1 \in 1 .. Len(inbox) /\ 1 <= i
      BY <1>1
    <3>2. inbox[1].at <= inbox[i].at
      BY <3>1 DEF StateInv, LampsInv
    <3>3. now < inbox[1].at + MaxLag /\ inbox[1].at \in Nat /\ inbox[i].at \in Nat
      BY <1>2, <2>1, <2>2, <3>1
    <3>4. now + 1 <= inbox[i].at + MaxLag
      BY <1>1, <3>2, <3>3, Durations
    <3> QED
      BY <1>1, <2>1, <3>3, <3>4, Durations
  <2> QED
    BY <2>1, <2>2 DEF StaleInv
<1>15. ASSUME NEW lit \in SUBSET Lamps, VehicleBroadcast(lit)
       PROVE  StaleInv'
  <2> DEFINE b == [lit |-> lit, at |-> now]
  <2>1. /\ inbox' = Append(inbox, b)
        /\ UNCHANGED <<now, pc, wakeBy, lampsSeen, lampsAt>>
    BY <1>15 DEF VehicleBroadcast
  <2>2. b \in Broadcasts /\ b.at = now
    BY <1>1 DEF Broadcasts
  <2> HIDE DEF b
  <2>3. /\ Len(inbox') = Len(inbox) + 1 /\ inbox'[Len(inbox) + 1] = b
        /\ \A i \in 1 .. Len(inbox) : inbox'[i] = inbox[i]
    BY <1>1, <2>1, <2>2
  <2>4. pc = "sleep" => wakeBy <= now + RetrySleep
    BY DEF StateInv, CallInv
  <2>5. /\ pc # "sleep" => now <= b.at + RetrySleep + 2 * MaxLag
        /\ pc = "sleep" => wakeBy <= b.at + RetrySleep + MaxLag
    BY <1>1, <2>2, <2>4, Durations
  <2>6. \A i \in 1 .. Len(inbox') : i \in 1 .. Len(inbox) \/ i = Len(inbox) + 1
    BY <1>1, <2>3
  <2>7. \A i \in 1 .. Len(inbox') :
           /\ pc # "sleep" => now <= inbox'[i].at + RetrySleep + 2 * MaxLag
           /\ pc = "sleep" => wakeBy <= inbox'[i].at + RetrySleep + MaxLag
    BY <2>3, <2>5, <2>6 DEF StaleInv
  <2> QED
    BY <2>1, <2>7 DEF StaleInv
<1> QED
  BY <1>5, <1>6, <1>7, <1>8, <1>9, <1>10, <1>11, <1>12, <1>13, <1>14, <1>15 DEF Next

\* LampsRecent: on a bus that works, a lamp handed over as lit was broadcast at most a
\* retry pause, the lamp window and a discovery timeout ago (onTelltales(), publish()
\* and run() of obd2_ice.cpp).
THEOREM LampsAreRecent ==
    ASSUME ~BusErrors
    PROVE  Spec => LampsRecent
<1> DEFINE Step == HandsOver /\ published'.lamps # {}
                      => now - lampsAt <= RetrySleep + LampWindow + DiscoverTimeout
                                          + 3 * MaxLag
<1>1. StateInv /\ StaleInv /\ [Next]_vars => [Step]_vars
  <2> SUFFICES ASSUME StateInv, StaleInv, [Next]_vars, HandsOver, published'.lamps # {}
               PROVE  now - lampsAt <= RetrySleep + LampWindow + DiscoverTimeout
                                       + 3 * MaxLag
    OBVIOUS
  <2>1. /\ ThreadInv /\ ClockInv /\ CallInv /\ now \in Nat /\ loopNow \in Nat
        /\ wakeBy \in Nat /\ loopNow <= now /\ lampsSeen \in Nat \cup {Never}
        /\ lampsAt \in Nat \cup {Never}
    BY DEF StateInv, ClockInv, CallInv, LampsInv
  <2>2. ASSUME NEW vals, NEW t \in Nat, published' = vehicleState(vals, t),
               now <= t + DiscoverTimeout + MaxLag
        PROVE  now - lampsAt <= RetrySleep + LampWindow + DiscoverTimeout + 3 * MaxLag
    <3>1. lampsSeen >= 0 /\ t - lampsSeen <= LampWindow
      BY <2>2 DEF vehicleState
    <3>2. lampsAt >= 0 /\ lampsSeen <= lampsAt + RetrySleep + 2 * MaxLag
      BY <3>1 DEF StaleInv
    <3>3. lampsSeen \in Nat /\ lampsAt \in Nat
      BY <2>1, <3>1, <3>2 DEF Never
    <3> QED
      BY <2>1, <2>2, <3>1, <3>2, <3>3, Durations
  <2>3. CASE published' = vehicleState(values, now)
    <3>1. now <= now + DiscoverTimeout + MaxLag
      BY <2>1, Durations
    <3> QED
      BY <2>1, <2>2, <2>3, <3>1
  <2>4. CASE DiscoverFail
    <3>1. published' = vehicleState(NoValues, loopNow) /\ pc = "discover" /\ block = 1
      BY <2>4 DEF DiscoverFail, lostState
    <3>2. now <= loopNow + DiscoverTimeout + MaxLag
      BY <2>1, <3>1, Durations DEF CallInv
    <3> QED
      BY <2>1, <2>2, <3>1, <3>2
  <2> QED
    BY <2>1, <2>3, <2>4, TwoHandOver
<1>2. Init => StaleInv
  BY DEF Init, StaleInv, Never
<1>3. StateInv /\ StateInv' /\ StaleInv /\ [Next]_vars => StaleInv'
  BY StaleStep
<1> HIDE DEF Step
<1>4. Spec => [][Step]_vars
  BY StateInvariance, <1>1, <1>2, <1>3, PTL DEF Spec
<1> QED
  BY <1>4 DEF Step, LampsRecent
-----------------------------------------------------------------------------
(***************************************************************************)
(* How soon a silent vehicle is reported gone.                             *)
(***************************************************************************)
LEMMA DueStep ==
    ASSUME StateInv, DueInv, [Next]_vars
    PROVE  DueInv'
<1>1. /\ ThreadInv /\ ClockInv /\ ItemsInv /\ LayoutInv
  BY DEF StateInv
<1>2. ASSUME pc' \notin {"poll", "idle"}
      PROVE  DueInv'
  BY <1>2 DEF DueInv
<1>3. ASSUME UNCHANGED <<now, loopNow, pc, wakeBy, poller>>
      PROVE  DueInv'
  BY <1>3 DEF DueInv, FastItem
<1>4. CASE LoopTop
  BY <1>4 DEF LoopTop, DueInv
<1>5. CASE LoopExit \/ Wake \/ DiscoverNextBlock \/ DiscoverFail
  BY <1>2, <1>5 DEF LoopExit, Wake, return, DiscoverNextBlock, DiscoverFail
<1>6. CASE DiscoverLastBlock \/ DiscoverCutShort
  <2>1. PICK pids \in SUBSET Pids : Discovered(pids) /\ Blocks[1] \subseteq pids
    BY <1>1, <1>6, DiscoveredFacts
  <2>2. pc' = "poll" /\ Started(poller', pids)
    BY <2>1, PollerStarts DEF Discovered, return
  <2> QED
    BY <2>2 DEF DueInv, Started
<1>7. CASE PollRequest
  BY <1>2, <1>7 DEF PollRequest
<1>8. CASE PollIdle
  <2>1. /\ pc = "poll" /\ pc' = "idle" /\ UNCHANGED poller
        /\ DueItems(poller, loopNow) = {} /\ loopNow \in Nat /\ now \in Nat
    BY <1>1, <1>8 DEF PollIdle, ClockInv
  <2>2. /\ wakeBy' \in Nat
        /\ \A i \in 1 .. Len(poller.items) :
              poller.items[i].due > loopNow => wakeBy' - now <= poller.items[i].due - loopNow
    BY <1>1, <1>8, IdleFacts
  <2>3. ASSUME NEW i \in 1 .. Len(poller.items)
        PROVE  wakeBy' <= poller.items[i].due
    <3>1. poller.items[i].due \in Nat /\ i \in DOMAIN poller.items
      BY <1>1, ItemFacts DEF ItemsInv
    <3>2. poller.items[i].due > loopNow
      BY <2>1, <3>1 DEF DueItems
    <3>3. loopNow = now
      BY <2>1, <3>1, <3>2 DEF DueInv
    <3> QED
      BY <2>1, <2>2, <3>1, <3>2, <3>3
  <2> QED
    BY <2>1, <2>3 DEF DueInv
<1>9. CASE QueryAnswer \/ QueryFiller \/ QueryFail \/ IdleEnd \/ Publish
  BY <1>2, <1>9 DEF QueryAnswer, QueryFiller, QueryFail, IdleEnd, Publish, return
<1>10. CASE onTelltales
  BY <1>2, <1>10 DEF onTelltales, return
<1>11. CASE Advance
  <2>1. UNCHANGED <<pc, wakeBy, poller>> /\ pc # "poll"
    BY <1>11 DEF Advance
  <2> QED
    BY <2>1 DEF DueInv, FastItem
<1>12. CASE Stop \/ VehicleLeaves \/ VehicleReturns \/ Finished \/ UNCHANGED vars
  BY <1>3, <1>12 DEF Stop, VehicleLeaves, VehicleReturns, Finished
<1>13. ASSUME NEW lit \in SUBSET Lamps, VehicleBroadcast(lit)
       PROVE  DueInv'
  BY <1>3, <1>13 DEF VehicleBroadcast
<1> QED
  BY <1>4, <1>5, <1>6, <1>7, <1>8, <1>9, <1>10, <1>11, <1>12, <1>13 DEF Next

LEMMA BaseFacts == Base \in Nat /\ Base >= Fast /\ Base >= DiscoverTimeout
<1>1. Base = IF Fast >= DiscoverTimeout THEN Fast ELSE DiscoverTimeout
  BY Durations, MinMaxOfTwo DEF Base
<1> QED
  BY <1>1, Durations

\* One more unanswered request takes a fast interval and a lag, up to the fifth.
LEMMA StreakFacts ==
    ASSUME NEW u \in Nat
    PROVE  /\ Waited(u) \in Nat /\ Waited(u) >= Base
           /\ Asked(u) \in Nat /\ Asked(u) >= Base
           /\ Asked(u + 1) = Waited(u) + Fast + MaxLag
           /\ u < 5 => Asked(u) = Waited(u)
           /\ Asked(u) <= Base + 5 * Fast + 5 * MaxLag
           /\ Waited(u) <= Base + 5 * Fast + 5 * MaxLag
<1> DEFINE d == Fast + MaxLag
<1>1. d \in Nat /\ Base \in Nat /\ Fast \in Nat /\ MaxLag \in Nat
  BY BaseFacts, Durations
<1>2. \A k \in Nat : Round(k) = CASE k = 0 -> 0 [] k = 1 -> d [] k = 2 -> 2 * d
                                   [] k = 3 -> 3 * d [] k = 4 -> 4 * d [] OTHER -> 5 * d
  BY DEF Round
<1> HIDE DEF d
<1>3. \A k \in Nat : Round(k) \in Nat /\ Round(k) <= 5 * d
  BY <1>1, <1>2
<1>4. CASE u >= 5
  <2>1. Round(u) = 5 * d /\ Round(u + 1) = 5 * d /\ Round(4) = 4 * d
    BY <1>1, <1>2, <1>4
  <2>2. Waited(u) = Base + Round(4) /\ Asked(u) = Base + Round(u)
        /\ Asked(u + 1) = Base + Round(u + 1)
    BY <1>4 DEF Waited, Asked
  <2> QED
    BY <1>1, <1>4, <2>1, <2>2 DEF d
<1>5. CASE u \in 0 .. 4
  <2>1. Round(u + 1) = Round(u) + d
    <3>1. CASE u = 0
      BY <1>1, <1>2, <3>1
    <3>2. CASE u = 1
      BY <1>1, <1>2, <3>2
    <3>3. CASE u = 2
      BY <1>1, <1>2, <3>3
    <3>4. CASE u = 3
      BY <1>1, <1>2, <3>4
    <3>5. CASE u = 4
      BY <1>1, <1>2, <3>5
    <3> QED
      BY <1>5, <3>1, <3>2, <3>3, <3>4, <3>5
  <2>2. /\ Waited(u) = Base + Round(u) /\ Asked(u) = Base + Round(u)
        /\ Asked(u + 1) = Base + Round(u + 1)
    <3>1. (IF u < 4 THEN u ELSE 4) = u
      BY <1>5
    <3> QED
      BY <3>1 DEF Waited, Asked
  <2>3. Round(u) \in Nat /\ Round(u) <= 5 * d
    BY <1>3
  <2> QED
    BY <1>1, <2>1, <2>2, <2>3 DEF d
<1> QED
  BY <1>4, <1>5

LEMMA BlockStep ==
    ASSUME StateInv, SilentBlock, [Next]_vars
    PROVE  SilentBlock'
<1>1. ThreadInv /\ ClockInv /\ CallInv /\ ClockInv' /\ ThreadInv'
  BY StateStep DEF StateInv
<1>2. ASSUME present' \/ pc' # "discover" \/ block' = 1
      PROVE  SilentBlock'
  BY <1>2 DEF SilentBlock
<1>3. ASSUME UNCHANGED <<present, pc, block, wakeBy, since>>
      PROVE  SilentBlock'
  BY <1>3 DEF SilentBlock
<1>4. CASE LoopTop
  <2>1. pc' = "poll" \/ block' = 1
    BY <1>4 DEF LoopTop
  <2> QED
    BY <1>2, <2>1
<1>5. CASE LoopExit \/ Wake \/ DiscoverFail
  BY <1>2, <1>5 DEF LoopExit, Wake, return, DiscoverFail
<1>6. CASE DiscoverNextBlock
  BY <1>1, <1>2, <1>6 DEF DiscoverNextBlock, ThreadInv
<1>7. CASE DiscoverLastBlock \/ DiscoverCutShort
  BY <1>2, <1>7 DEF DiscoverLastBlock, DiscoverCutShort, Discovered, return
<1>8. CASE PollRequest \/ PollIdle
  BY <1>2, <1>8 DEF PollRequest, PollIdle
<1>9. CASE QueryAnswer \/ QueryFiller \/ QueryFail \/ IdleEnd \/ Publish
  BY <1>2, <1>9 DEF QueryAnswer, QueryFiller, QueryFail, IdleEnd, Publish, return
<1>10. CASE onTelltales
  <2>1. CASE pc = "idle"
    BY <1>2, <1>10, <2>1 DEF onTelltales, return
  <2>2. CASE pc # "idle"
    BY <1>3, <1>10, <2>2 DEF onTelltales
  <2> QED
    BY <2>1, <2>2
<1>11. CASE VehicleLeaves
  <2>1. UNCHANGED <<pc, wakeBy>> /\ since' = now
    BY <1>11 DEF VehicleLeaves
  <2> QED
    BY <1>1, <2>1 DEF SilentBlock, CallInv
<1>12. CASE VehicleReturns
  BY <1>2, <1>12 DEF VehicleReturns
<1>13. CASE Advance \/ Stop \/ Finished \/ UNCHANGED vars
  BY <1>3, <1>13 DEF Advance, Stop, Finished
<1>14. ASSUME NEW lit \in SUBSET Lamps, VehicleBroadcast(lit)
       PROVE  SilentBlock'
  BY <1>3, <1>14 DEF VehicleBroadcast
<1> QED
  BY <1>4, <1>5, <1>6, <1>7, <1>8, <1>9, <1>10, <1>11, <1>12, <1>13, <1>14 DEF Next

\* A request to a silent vehicle adds one to the streak, at most a fast interval late.
LEMMA StreakAsked ==
    ASSUME StateInv, SilentStreak, PollRequest
    PROVE  SilentStreak'
<1>1. /\ PollerOk(poller, Pids) /\ loopNow \in Nat /\ now \in Nat /\ loopNow <= now
      /\ DueItems(poller, loopNow) # {} /\ since \in Nat
  BY DEF StateInv, ItemsInv, ClockInv, PollRequest
<1>2. PICK k \in 1 .. Len(poller.items) : nextDue(poller, loopNow) = poller.items[k].pid
  BY <1>1, NextDueFacts
<1> DEFINE pid == nextDue(poller, loopNow)
<1>3. pid \in PidsOf(poller)
  BY <1>1, <1>2, ItemFacts
<1>4. /\ poller' = markRequested(poller, pid, loopNow) /\ pc = "poll" /\ pc' = "query"
      /\ UNCHANGED <<now, since, present, discovered>> /\ wakeBy' = now + Fast
  BY RequestFacts DEF PollRequest
<1> HIDE DEF pid
<1>5. /\ Len(poller'.items) = Len(poller.items)
      /\ poller'.unanswered = poller.unanswered + 1
      /\ \A i \in 1 .. Len(poller.items) :
            /\ poller'.items[i].pid = poller.items[i].pid
            /\ poller'.items[i].due = IF poller.items[i].pid = pid
                                      THEN loopNow + poller.items[i].interval
                                      ELSE poller.items[i].due
  BY <1>1, <1>3, <1>4, MarkRequestedFacts
<1> DEFINE u == poller.unanswered
<1>6. /\ u \in Nat /\ Waited(u) \in Nat /\ Asked(u + 1) = Waited(u) + Fast + MaxLag
      /\ Fast \in Nat /\ MaxLag \in Nat
  BY <1>1, ItemFacts, StreakFacts, Durations
<1> HIDE DEF u
<1> SUFFICES ASSUME ~present, discovered, NEW i \in 1 .. Len(poller.items),
                    poller.items[i].pid \in FastPids
             PROVE  /\ wakeBy' <= since + Asked(u + 1)
                    /\ poller'.items[i].due <= since + Asked(u + 1)
  BY <1>4, <1>5 DEF SilentStreak, FastItem, u
<1>7. now <= since + Waited(u) + MaxLag /\ poller.items[i].due <= since + Waited(u)
  BY <1>4 DEF SilentStreak, FastItem, u
<1>8. wakeBy' <= since + Asked(u + 1)
  BY <1>1, <1>4, <1>6, <1>7, RequestLater, Zenon
<1>9. poller.items[i].interval = Fast /\ poller.items[i].due \in Nat
  BY <1>1, ItemFacts, Intervals DEF StateInv, ItemsInv
<1>10. CASE poller.items[i].pid = pid
  <2>1. poller'.items[i].due = loopNow + Fast
    BY <1>5, <1>9, <1>10
  <2> QED
    BY <1>1, <1>6, <1>7, <1>8, <2>1
<1>11. CASE poller.items[i].pid # pid
  <2>1. poller'.items[i].due = poller.items[i].due
    BY <1>5, <1>11
  <2>2. Waited(u) <= Asked(u + 1) /\ Asked(u + 1) \in Nat
    BY <1>6
  <2>3. poller.items[i].due <= since + Asked(u + 1)
    BY <1>1, <1>6, <1>7, <1>9, <2>2, LongerStill, Zenon
  <2> QED
    BY <1>8, <2>1, <2>3, Zenon
<1> QED
  BY <1>10, <1>11

LEMMA StreakStep ==
    ASSUME StateInv, DueInv, SilentBlock, SilentStreak, [Next]_vars
    PROVE  SilentStreak'
<1>1. /\ ThreadInv /\ ClockInv /\ CallInv /\ ItemsInv /\ LayoutInv
      /\ ThreadInv' /\ CallInv'
  BY StateStep DEF StateInv
<1>2. /\ now \in Nat /\ since \in Nat /\ wakeBy \in Nat /\ Base \in Nat
      /\ Base >= Fast /\ Base >= DiscoverTimeout /\ poller.unanswered \in Nat
  BY <1>1, BaseFacts, ItemFacts DEF ClockInv, CallInv, ItemsInv
<1>3. ASSUME present' \/ ~discovered'
      PROVE  SilentStreak'
  BY <1>3 DEF SilentStreak
<1>4. ASSUME UNCHANGED <<now, since, poller, present>>, discovered' => discovered,
             pc # "query", pc' # "query"
      PROVE  SilentStreak'
  BY <1>4 DEF SilentStreak, FastItem
<1>5. ASSUME UNCHANGED <<now, since, poller, present, discovered, pc, wakeBy>>
      PROVE  SilentStreak'
  BY <1>5 DEF SilentStreak, FastItem
<1>6. CASE LoopTop \/ LoopExit \/ Wake
  BY <1>4, <1>6 DEF LoopTop, LoopExit, Wake, return
<1>7. CASE DiscoverNextBlock \/ DiscoverFail
  BY <1>1, <1>3, <1>7 DEF DiscoverNextBlock, DiscoverFail, ThreadInv
<1>8. CASE DiscoverLastBlock
  BY <1>1, <1>3, <1>8 DEF DiscoverLastBlock, Discovered, ThreadInv
<1>9. CASE DiscoverCutShort
  <2>1. PICK pids \in SUBSET Pids : Discovered(pids)
    BY <1>1, <1>9, DiscoveredFacts
  <2>2. /\ pc' = "poll" /\ Started(poller', pids)
        /\ UNCHANGED <<now, since, present>> /\ pc = "discover" /\ block > 1
    BY <1>9, <2>1, PollerStarts DEF Discovered, return, DiscoverCutShort
  <2> SUFFICES ASSUME ~present, NEW i \in 1 .. Len(poller'.items)
               PROVE  /\ now <= since + Waited(0) + MaxLag
                      /\ poller'.items[i].due <= since + Waited(0)
    BY <2>2 DEF SilentStreak, Started
  <2>3. poller'.items[i].due = 0
    BY <2>2 DEF Started
  <2>4. wakeBy <= since + DiscoverTimeout /\ now <= wakeBy + MaxLag
    BY <1>1, <2>2 DEF SilentBlock, CallInv
  <2>5. Waited(0) \in Nat /\ Waited(0) >= Base
    BY StreakFacts
  <2>6. DiscoverTimeout <= Waited(0) /\ since + Waited(0) \in Nat
    BY <1>2, <2>5, Durations
  <2>7. wakeBy <= since + Waited(0)
    BY <1>2, <2>4, <2>5, <2>6, Durations, LongerStill, Zenon
  <2>8. now <= since + Waited(0) + MaxLag
    BY <1>2, <2>4, <2>6, <2>7, Durations, LagLater, Zenon
  <2>9. 0 <= since + Waited(0)
    BY <1>2, <2>5
  <2> QED
    BY <2>3, <2>8, <2>9, Zenon
<1>10. CASE PollRequest
  BY <1>10, StreakAsked
<1>11. CASE PollIdle \/ IdleEnd \/ Publish
  BY <1>4, <1>11 DEF PollIdle, IdleEnd, Publish, return
<1>12. CASE QueryAnswer \/ QueryFiller
  BY <1>1, <1>3, <1>12 DEF QueryAnswer, QueryFiller, ThreadInv
<1>13. CASE QueryFail
  <2>1. CASE ~discovered'
    BY <1>3, <2>1
  <2>2. CASE discovered'
    <3>1. /\ pc = "query" /\ pc' = "publish" /\ poller.unanswered < 5 /\ discovered
          /\ UNCHANGED <<now, since, poller, present>>
      BY <1>13, <2>2 DEF QueryFail, return
    <3>2. /\ Asked(poller.unanswered) = Waited(poller.unanswered)
          /\ Waited(poller.unanswered) \in Nat
      BY <1>2, <3>1, StreakFacts
    <3> SUFFICES ASSUME ~present, NEW i \in 1 .. Len(poller.items),
                        poller.items[i].pid \in FastPids
                 PROVE  /\ now <= since + Waited(poller.unanswered) + MaxLag
                        /\ poller.items[i].due <= since + Waited(poller.unanswered)
      BY <3>1 DEF SilentStreak, FastItem
    <3>3. /\ wakeBy <= since + Waited(poller.unanswered)
          /\ poller.items[i].due <= since + Waited(poller.unanswered)
      BY <3>1, <3>2 DEF SilentStreak, FastItem
    <3>4. now <= wakeBy + MaxLag
      BY <1>1, <3>1 DEF CallInv
    <3> QED
      BY <1>2, <3>2, <3>3, <3>4, Durations
  <2> QED
    BY <2>1, <2>2
<1>14. CASE onTelltales
  <2>1. CASE pc = "idle"
    BY <1>4, <1>14, <2>1 DEF onTelltales, return
  <2>2. CASE pc # "idle"
    BY <1>5, <1>14, <2>2 DEF onTelltales
  <2> QED
    BY <2>1, <2>2
<1>15. CASE VehicleLeaves
  <2>1. since' = now /\ UNCHANGED <<now, pc, wakeBy, poller, discovered>>
    BY <1>15 DEF VehicleLeaves
  <2>2. /\ Waited(poller.unanswered) \in Nat /\ Waited(poller.unanswered) >= Base
        /\ Asked(poller.unanswered) \in Nat /\ Asked(poller.unanswered) >= Base
    BY <1>2, StreakFacts
  <2> SUFFICES ASSUME NEW i \in 1 .. Len(poller.items), poller.items[i].pid \in FastPids
               PROVE  /\ pc = "query" => wakeBy <= now + Asked(poller.unanswered)
                      /\ poller.items[i].due <= now + Asked(poller.unanswered)
                      /\ now <= now + Waited(poller.unanswered) + MaxLag
                      /\ poller.items[i].due <= now + Waited(poller.unanswered)
    BY <2>1 DEF SilentStreak, FastItem
  <2>3. poller.items[i].due <= now + Fast /\ poller.items[i].due \in Nat
    <3>1. /\ poller.items[i].interval = interval(poller.items[i].pid)
          /\ poller.items[i].due <= now + poller.items[i].interval
          /\ PollerOk(poller, Pids)
      BY <1>1 DEF ItemsInv
    <3>2. poller.items[i].pid \in Pids /\ poller.items[i].due \in Nat
      BY <3>1, ItemFacts
    <3> QED
      BY <3>1, <3>2, Intervals
  <2>4. pc = "query" => wakeBy <= now + Fast
    BY <1>1 DEF CallInv
  <2>5. pc = "query" => wakeBy <= now + Asked(poller.unanswered)
    BY <1>2, <2>2, <2>4, Durations
  <2>6. now <= now + Waited(poller.unanswered) + MaxLag
    BY <1>2, <2>2, Durations
  <2>7. Fast <= Asked(poller.unanswered) /\ Fast <= Waited(poller.unanswered)
    BY <1>2, <2>2, Durations
  <2>8. /\ poller.items[i].due <= now + Asked(poller.unanswered)
        /\ poller.items[i].due <= now + Waited(poller.unanswered)
    BY <1>2, <2>2, <2>3, <2>7, Durations, LongerStill, Zenon
  <2> QED
    BY <2>5, <2>6, <2>8
<1>16. CASE VehicleReturns
  BY <1>3, <1>16 DEF VehicleReturns
<1>17. CASE Advance
  <2>1. /\ pc \in {"discover", "sleep", "query", "idle"}
        /\ UNCHANGED <<pc, wakeBy, poller, discovered, since, present>>
    BY <1>17 DEF Advance
  <2>2. CASE pc \in {"discover", "sleep"}
    BY <1>1, <1>3, <2>1, <2>2 DEF ThreadInv
  <2>3. CASE pc = "query"
    BY <2>1, <2>3 DEF SilentStreak, FastItem
  <2>4. CASE pc = "idle"
    <3> SUFFICES ASSUME ~present, discovered, NEW i \in 1 .. Len(poller.items),
                        FastItem(i)
                 PROVE  /\ now' <= since + Waited(poller.unanswered) + MaxLag
                        /\ poller.items[i].due <= since + Waited(poller.unanswered)
      BY <2>1, <2>4 DEF SilentStreak, FastItem
    <3>1. poller.items[i].due <= since + Waited(poller.unanswered)
      BY <2>4 DEF SilentStreak
    <3>2. wakeBy <= poller.items[i].due
      BY <2>4 DEF DueInv
    <3>3. now' <= wakeBy + MaxLag /\ now' \in Nat
      BY <1>1, <1>2, <1>17, <2>1, <2>4 DEF CallInv, Advance
    <3>4. poller.items[i].due \in Nat /\ Waited(poller.unanswered) \in Nat
      BY <1>1, <1>2, ItemFacts, StreakFacts DEF ItemsInv
    <3>5. wakeBy <= since + Waited(poller.unanswered)
      BY <1>2, <3>1, <3>2, <3>4
    <3>6. since + Waited(poller.unanswered) \in Nat /\ wakeBy \in Nat /\ MaxLag \in Nat
      BY <1>2, <3>4, Durations
    <3>7. now' <= since + Waited(poller.unanswered) + MaxLag
      BY <3>3, <3>5, <3>6, LagLater, Zenon
    <3> QED
      BY <3>1, <3>7
  <2> QED
    BY <2>1, <2>2, <2>3, <2>4
<1>18. CASE Stop \/ Finished \/ UNCHANGED vars
  BY <1>5, <1>18 DEF Stop, Finished
<1>19. ASSUME NEW lit \in SUBSET Lamps, VehicleBroadcast(lit)
       PROVE  SilentStreak'
  BY <1>5, <1>19 DEF VehicleBroadcast
<1> QED
  BY <1>6, <1>7, <1>8, <1>9, <1>10, <1>11, <1>12, <1>13, <1>14, <1>15, <1>16, <1>17,
     <1>18, <1>19 DEF Next

\* Inv: the types, and a vehicle that falls silent is reported gone after five requests
\* (poll() of obd2_ice.cpp, Poller::unanswered), however the thread is delayed.
THEOREM Invariance == Spec => []Inv
<1>1. Init => DueInv /\ SilentBlock /\ SilentStreak
  <2>1. CASE Init
    BY <2>1 DEF Init, DueInv, SilentBlock, SilentStreak
  <2> QED
    BY <2>1
<1>2. StateInv /\ DueInv /\ SilentBlock /\ SilentStreak /\ [Next]_vars
         => DueInv' /\ SilentBlock' /\ SilentStreak'
  BY DueStep, BlockStep, StreakStep
<1>3. StateInv /\ SilentStreak => LossReported
  <2> SUFFICES ASSUME StateInv, SilentStreak, ~present, link = "up",
                      {"SPEED", "RPM"} \cap PidsOf(poller) # {}
               PROVE  now <= since + LossBound
    BY DEF LossReported
  <2>1. /\ discovered /\ now \in Nat /\ since \in Nat /\ wakeBy \in Nat
        /\ pc = "query" => now <= wakeBy + MaxLag
        /\ PollerOk(poller, Pids)
    BY DEF StateInv, ThreadInv, ClockInv, CallInv, ItemsInv
  <2>2. PICK i \in 1 .. Len(poller.items) : FastItem(i)
    BY <2>1, ItemFacts DEF PidsOf, FastItem, FastPids
  <2> DEFINE u == poller.unanswered
  <2>3. /\ Asked(u) \in Nat /\ Asked(u) <= Base + 5 * Fast + 5 * MaxLag
        /\ Waited(u) \in Nat /\ Waited(u) <= Base + 5 * Fast + 5 * MaxLag
    BY <2>1, ItemFacts, StreakFacts
  <2>4. \/ pc = "query" /\ wakeBy <= since + Asked(u)
        \/ now <= since + Waited(u) + MaxLag
    BY <2>1, <2>2 DEF SilentStreak
  <2> HIDE DEF u
  <2>5. now <= since + Base + 5 * Fast + 6 * MaxLag
    <3>1. CASE pc = "query" /\ wakeBy <= since + Asked(u)
      BY <2>1, <2>3, <3>1, BaseFacts, Durations
    <3>2. CASE now <= since + Waited(u) + MaxLag
      BY <2>1, <2>3, <3>2, BaseFacts, Durations
    <3> QED
      BY <2>4, <3>1, <3>2
  <2> QED
    BY <2>1, <2>5, BaseFacts, Durations DEF LossBound, Base
<1> QED
  BY StateInvariance, TypeCorrect, <1>1, <1>2, <1>3, PTL DEF Spec, Inv
=============================================================================
